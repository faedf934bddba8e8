-------------------------- MODULE StructuresProofs --------------------------
(***************************************************************************)
(* Proofs about two structures of the kernel that keep the same thing more *)
(* than once: a FIFO its number of data as free and as the distance from q *)
(* to p (fifo.c), the sheets their order as heights, as the stack sheets[] *)
(* and as the map of the screen (sheet.c).  Each call changes the parts    *)
(* one after the other, and what is proved is that they agree again when   *)
(* it returns.                                                             *)
(*                                                                         *)
(* FIFO, for a buffer of any size and any data: Ring is inductive together *)
(* with TypeOK, and from it follows that what fifo32_put stores is the new *)
(* last element of Contents and what fifo32_get fetches the first.         *)
(*                                                                         *)
(* Sheets, for any screen, any number of slots and windows of any size at  *)
(* any place: Scene is inductive.  It says that heights and stack agree    *)
(* (IsStack), that the map has at each pixel the highest sheet that shows  *)
(* something there (MapIs), and that some sheet always does, because the   *)
(* background fills the screen and is never hidden.  The screen follows:   *)
(* it shows at each pixel what the sheet in the map has there (VramIs),    *)
(* because what is redrawn contains every pixel whose sheet has changed    *)
(* (Uncovers), and because each column that sheet_refreshsub visits lands  *)
(* on its own place.  The latter needs windows three pixels narrower than  *)
(* the screen (WithinLines): the screen is one array, and the last columns *)
(* of an area may start up to three pixels early, on the line above.       *)
(***************************************************************************)
EXTENDS Fifo, Sheet, Least, SequenceTheorems

(* fifo.c *)

Inv == TypeOK /\ Ring /\ NoLostWakeup

\* An initialised FIFO is empty, and its owner sleeps.
LEMMA InitInv == Init => Inv
BY SizeAssumption
   DEF Init, Inv, TypeOK, Ring, NoLostWakeup, Place, fifo32_init, fifo32_status,
       Uninit, FLAGS_OVERRUN

\* The place behind the i-th one is the next one, round the end of the buffer.
LEMMA AdvancePlace ==
  ASSUME fifo.q \in 0..(size - 1), NEW i \in 0..(size - 1)
  PROVE  Advance(Place(i)) = Place(i + 1)
<1>1. CASE fifo.q + i < size
  BY <1>1, SizeAssumption DEF Place, Advance
<1>2. CASE ~(fifo.q + i < size)
  BY <1>2, SizeAssumption DEF Place, Advance
<1> QED BY <1>1, <1>2

(* fifo32_put keeps the counters in step: a refused datum changes only the  *)
(* flags, and an accepted one goes to the place behind the last.            *)
LEMMA PutInv == ASSUME Inv, NEW data \in Data, fifo32_put(data) PROVE Inv'
<1> USE SizeAssumption DEF Inv, fifo32_put, Full, FLAGS_OVERRUN
<1>1. CASE Full(fifo)
  <2>1. /\ fifo' = [fifo EXCEPT !.flags = 1] /\ flags' = flags /\ ret' = -1
    BY <1>1 DEF Overflowed
  <2>2. /\ fifo'.buf = fifo.buf /\ fifo'.free = fifo.free
        /\ fifo'.p = fifo.p /\ fifo'.q = fifo.q
    BY <2>1 DEF TypeOK
  <2>3. TypeOK'
    BY <2>1 DEF TypeOK
  <2>4. Ring'
    BY <2>2 DEF Ring, Place, fifo32_status
  <2>5. NoLostWakeup'
    BY <2>1, <2>2 DEF NoLostWakeup, fifo32_status
  <2> QED BY <2>3, <2>4, <2>5
<1>2. CASE ~Full(fifo)
  <2>1. /\ fifo' = Store(fifo, data) /\ flags' = 2 /\ ret' = 0
        /\ fifo.free > 0
    BY <1>2 DEF TypeOK
  <2>2. fifo' = [buf |-> [fifo.buf EXCEPT ![fifo.p] = data],
                 free |-> fifo.free - 1, flags |-> fifo.flags,
                 p |-> Advance(fifo.p), q |-> fifo.q]
    BY <2>1 DEF Store, TypeOK
  <2>3. TypeOK'
    BY <2>1, <2>2 DEF TypeOK, Advance
  <2> DEFINE n == size - fifo.free
  <2>4. /\ n \in 0..(size - 1) /\ fifo32_status(fifo)' = n + 1
        /\ \A i : Place(i)' = Place(i)
    BY <2>1, <2>2 DEF TypeOK, fifo32_status, Place
  <2>5. fifo'.p = Place(n + 1)
    <3>1. fifo'.p = Advance(fifo.p) BY <2>2
    <3>2. fifo.p = Place(n) BY DEF Ring, fifo32_status
    <3>3. Advance(Place(n)) = Place(n + 1) BY <2>4, AdvancePlace DEF TypeOK
    <3> QED BY <3>1, <3>2, <3>3
  <2>6. ASSUME NEW i \in 0..n PROVE fifo'.buf[Place(i)] \in Data
    <3>1. Place(i) \in 0..(size - 1)
      <4>1. fifo.q \in 0..(size - 1) BY DEF TypeOK
      <4>2. i \in 0..(size - 1) BY <2>4
      <4> QED BY <4>1, <4>2 DEF Place
    <3>2. i = n => Place(i) = fifo.p
      BY DEF Ring, fifo32_status
    <3>3. i # n => fifo.buf[Place(i)] \in Data
      BY <2>4 DEF Ring, fifo32_status
    <3> QED BY <2>2, <3>1, <3>2, <3>3 DEF TypeOK
  <2>7. Ring'
    BY <2>4, <2>5, <2>6 DEF Ring
  <2>8. NoLostWakeup'
    BY <2>1 DEF NoLostWakeup
  <2> QED BY <2>3, <2>7, <2>8
<1> QED BY <1>1, <1>2

(* fifo32_get moves q by one place, and with it all the others.             *)
LEMMA NextPlace ==
  ASSUME fifo.q \in 0..(size - 1), fifo'.q = Advance(fifo.q), NEW i \in 0..(size - 1)
  PROVE  Place(i)' = Place(i + 1)
<1>1. CASE fifo.q + 1 = size
  BY <1>1, SizeAssumption DEF Place, Advance
<1>2. CASE fifo.q + 1 # size
  BY <1>2, SizeAssumption DEF Place, Advance
<1> QED BY <1>1, <1>2

\* fifo32_get gives back a place and leaves the data between q and p.
LEMMA GetInv == ASSUME Inv, fifo32_get PROVE Inv'
<1> USE SizeAssumption DEF Inv, fifo32_get
<1>1. CASE fifo.free = size
  BY <1>1 DEF TypeOK, Ring, NoLostWakeup, Place, fifo32_status
<1>2. CASE fifo.free # size
  <2>1. /\ fifo' = Fetched(fifo) /\ flags' = 2 /\ flags = 2
        /\ ret' = fifo.buf[fifo.q] /\ fifo.free < size
    BY <1>2 DEF TypeOK
  <2>2. fifo' = [buf |-> fifo.buf, free |-> fifo.free + 1, flags |-> fifo.flags,
                 p |-> fifo.p, q |-> Advance(fifo.q)]
    BY <2>1 DEF Fetched, TypeOK
  <2>3. TypeOK'
    BY <2>1, <2>2 DEF TypeOK, Advance, Uninit
  <2>4. PICK n \in 1..size : n = fifo32_status(fifo) /\ fifo32_status(fifo)' = n - 1
    <3>1. fifo.free \in Nat BY DEF TypeOK
    <3>2. fifo32_status(fifo) \in 1..size BY <2>1, <3>1 DEF fifo32_status
    <3>3. fifo32_status(fifo)' = fifo32_status(fifo) - 1
      BY <2>2, <3>1 DEF fifo32_status
    <3> QED BY <3>2, <3>3
  <2>5. \A i \in 0..(n - 1) : Place(i)' = Place(i + 1)
    <3>1. fifo.q \in 0..(size - 1) /\ fifo'.q = Advance(fifo.q) BY <2>2 DEF TypeOK
    <3>2. \A i \in 0..(n - 1) : i \in 0..(size - 1) BY <2>4
    <3> QED BY <3>1, <3>2, NextPlace
  <2>6. fifo'.p = Place(n - 1)'
    <3>1. Place(n) = fifo.p /\ Place(n - 1)' = Place(n)
      BY <2>4, <2>5 DEF Ring
    <3> QED BY <2>2, <3>1
  <2>7. \A i \in 0..(n - 2) : fifo'.buf[Place(i)'] \in Data
    <3> SUFFICES ASSUME NEW i \in 0..(n - 2) PROVE fifo.buf[Place(i)'] \in Data
      BY <2>2
    <3>1. i \in 0..(n - 1) /\ i + 1 \in 0..(n - 1) BY <2>4
    <3>2. Place(i)' = Place(i + 1) BY <2>5, <3>1
    <3>3. fifo.buf[Place(i + 1)] \in Data BY <2>4, <3>1 DEF Ring
    <3> QED BY <3>2, <3>3
  <2>8. Ring'
    BY <2>4, <2>6, <2>7 DEF Ring
  <2>9. NoLostWakeup'
    BY <2>1 DEF NoLostWakeup
  <2> QED BY <2>3, <2>8, <2>9
<1> QED BY <1>1, <1>2

\* The owner only goes to sleep on an empty FIFO.
LEMMA SleepInv == ASSUME Inv, SleepIfEmpty PROVE Inv'
BY DEF Inv, SleepIfEmpty, TypeOK, Ring, NoLostWakeup, Place, fifo32_status

\* Every step keeps the invariant.
LEMMA NextInv == Inv /\ [Next]_vars => Inv'
<1> SUFFICES ASSUME Inv, [Next]_vars PROVE Inv'
  OBVIOUS
<1>1. CASE fifo32_get BY <1>1, GetInv
<1>2. CASE SleepIfEmpty BY <1>2, SleepInv
<1>3. CASE \E data \in Data : fifo32_put(data) BY <1>3, PutInv
<1>4. CASE UNCHANGED vars
  BY <1>4 DEF vars, Inv, TypeOK, Ring, NoLostWakeup, Place, fifo32_status
<1> QED BY <1>1, <1>2, <1>3, <1>4 DEF Next

(* The fields stay in their ranges, the counters agree and the owner never  *)
(* sleeps on data, whatever the handlers send.                              *)
THEOREM NoWakeupLost == Spec => []FifoOK
<1>1. Inv => FifoOK BY DEF Inv, FifoOK
<1> QED BY <1>1, InitInv, NextInv, PTL DEF Spec

-----------------------------------------------------------------------------
(* The refinement: what each call does to Contents. *)

\* The data in the ring are as many as fifo32_status says.
LEMMA ContentsType ==
  ASSUME Inv
  PROVE /\ Contents \in Seq(Data)
        /\ Len(Contents) = fifo32_status(fifo)
        /\ fifo32_status(fifo) \in 0..size
        /\ DOMAIN Contents = 1..fifo32_status(fifo)
        /\ \A i \in 1..fifo32_status(fifo) : Contents[i] = fifo.buf[Place(i - 1)]
<1>1. fifo32_status(fifo) \in Nat /\ fifo32_status(fifo) \in 0..size
  BY SizeAssumption DEF Inv, TypeOK, fifo32_status
<1>2. \A i \in 1..fifo32_status(fifo) : fifo.buf[Place(i - 1)] \in Data
  BY <1>1 DEF Inv, Ring
<1> QED BY <1>1, <1>2 DEF Contents

\* fifo32_put appends its datum, or refuses it when the queue is full.
LEMMA PutRefines ==
  ASSUME Inv, NEW data \in Data, fifo32_put(data) PROVE Queue!Put(data)
<1> USE SizeAssumption DEF fifo32_put, Full
<1>1. CASE Full(fifo)
  <2>1. /\ fifo' = [fifo EXCEPT !.flags = 1] /\ flags' = flags /\ ret' = -1
    BY <1>1 DEF Overflowed, FLAGS_OVERRUN
  <2>2. /\ fifo'.buf = fifo.buf /\ fifo'.free = fifo.free
        /\ fifo'.q = fifo.q /\ fifo'.flags = 1
    BY <2>1 DEF Inv, TypeOK
  <2>3. Contents' = Contents
    BY <2>2 DEF Contents, Place, fifo32_status
  <2>4. Len(Contents) = size
    BY <1>1, ContentsType DEF fifo32_status
  <2> QED BY <2>1, <2>2, <2>3, <2>4 DEF Queue!Put, FLAGS_OVERRUN
<1>2. CASE ~Full(fifo)
  <2>1. /\ fifo' = Store(fifo, data) /\ flags' = 2 /\ ret' = 0
        /\ fifo.free > 0
    BY <1>2 DEF Inv, TypeOK
  <2>2. /\ fifo'.buf = [fifo.buf EXCEPT ![fifo.p] = data]
        /\ fifo'.q = fifo.q /\ fifo'.free = fifo.free - 1
        /\ fifo'.flags = fifo.flags
    BY <2>1 DEF Store, Inv, TypeOK
  <2> DEFINE n == fifo32_status(fifo)
  <2>3. n \in 0..(size - 1) /\ n' = n + 1 /\ \A i : Place(i)' = Place(i)
    BY <2>1, <2>2 DEF fifo32_status, Place, Inv, TypeOK
  <2>4. Contents' = [i \in 1..(n + 1) |-> fifo'.buf[Place(i - 1)]]
    BY <2>3 DEF Contents
  <2>5. ASSUME NEW i \in 1..n PROVE Contents'[i] = Contents[i]
    <3>1. Place(i - 1) \in 0..(size - 1) /\ Place(i - 1) # fifo.p
      <4>1. fifo.q \in 0..(size - 1) /\ fifo.p = Place(n)
        BY DEF Inv, TypeOK, Ring
      <4> QED BY <2>3, <4>1 DEF Place
    <3> QED BY <2>2, <2>3, <2>4, <3>1 DEF Contents, Inv, TypeOK
  <2>6. Contents'[n + 1] = data
    <3>1. Place(n) = fifo.p /\ fifo.p \in 0..(size - 1)
      BY DEF Inv, TypeOK, Ring
    <3> QED BY <2>2, <2>3, <2>4, <3>1 DEF Inv, TypeOK
  <2>7. Contents' \in Seq(Data) /\ Len(Contents') = n + 1
    <3>1. \A i \in 1..(n + 1) : Contents'[i] \in Data
      BY <2>3, <2>5, <2>6, ContentsType, ElementOfSeq
    <3> QED BY <2>3, <2>4, <3>1, IsASeq
  <2>8. Contents' = Append(Contents, data)
    BY <2>3, <2>5, <2>6, <2>7, ContentsType, AppendProperties, SeqEqual
  <2>9. Len(Contents) < size
    BY <2>3, ContentsType
  <2> QED BY <2>1, <2>2, <2>8, <2>9 DEF Queue!Put, FLAGS_OVERRUN
<1> QED BY <1>1, <1>2

\* fifo32_get takes the oldest datum.
LEMMA GetRefines == ASSUME Inv, fifo32_get PROVE Queue!Take
<1> USE SizeAssumption DEF fifo32_get
<1>1. CASE fifo.free = size
  <2>1. Contents = <<>>
    BY <1>1, ContentsType, EmptySeq DEF fifo32_status
  <2>2. Contents' = Contents /\ ret' = -1
    BY <1>1 DEF Contents, Place, fifo32_status
  <2> QED BY <1>1, <2>1, <2>2 DEF Queue!Take
<1>2. CASE fifo.free # size
  <2>1. /\ fifo' = Fetched(fifo) /\ flags' = flags
        /\ ret' = fifo.buf[fifo.q] /\ fifo.free < size
    BY <1>2 DEF Inv, TypeOK
  <2>2. /\ fifo'.buf = fifo.buf /\ fifo'.q = Advance(fifo.q)
        /\ fifo'.free = fifo.free + 1 /\ fifo'.flags = fifo.flags
    BY <2>1 DEF Fetched, Inv, TypeOK
  <2> DEFINE n == fifo32_status(fifo)
  <2>3. /\ n \in 1..size /\ n' = n - 1
        /\ \A i \in 0..(n - 1) : Place(i)' = Place(i + 1)
    <3>1. n \in 1..size /\ n' = n - 1
      BY <2>1, <2>2 DEF fifo32_status, Inv, TypeOK
    <3>2. fifo.q \in 0..(size - 1) BY DEF Inv, TypeOK
    <3>3. ASSUME NEW i \in 0..(n - 1) PROVE Place(i)' = Place(i + 1)
      BY <2>2, <3>1, <3>2, NextPlace
    <3> QED BY <3>1, <3>3
  <2>4. Contents' = [i \in 1..(n - 1) |-> fifo'.buf[Place(i - 1)']]
    BY <2>3 DEF Contents
  <2>5. \A i \in 1..(n - 1) : Contents'[i] = Contents[i + 1]
    <3> SUFFICES ASSUME NEW i \in 1..(n - 1) PROVE Contents'[i] = Contents[i + 1]
      OBVIOUS
    <3>1. /\ i - 1 \in 0..(n - 1) /\ (i - 1) + 1 = i
          /\ i + 1 \in 1..n /\ (i + 1) - 1 = i
      BY <2>3
    <3>2. Contents'[i] = fifo.buf[Place(i - 1)'] BY <2>2, <2>4
    <3>3. Place(i - 1)' = Place(i) BY <2>3, <3>1
    <3>4. Contents[i + 1] = fifo.buf[Place(i)] BY <3>1 DEF Contents
    <3> QED BY <3>2, <3>3, <3>4
  <2>6. Contents # <<>> /\ Head(Contents) = Contents[1]
    BY <2>3, ContentsType, HeadTailProperties, EmptySeq
  <2>7. Contents[1] = fifo.buf[fifo.q]
    BY <2>3 DEF Contents, Place, Inv, TypeOK
  <2>8. Contents' \in Seq(Data) /\ Len(Contents') = n - 1
    <3>1. \A i \in 1..(n - 1) : Contents'[i] \in Data
      BY <2>3, <2>5, ContentsType, ElementOfSeq
    <3> QED BY <2>3, <2>4, <3>1, IsASeq
  <2>9. Contents' = Tail(Contents)
    BY <2>3, <2>5, <2>6, <2>8, ContentsType, HeadTailProperties, SeqEqual
  <2> QED BY <2>1, <2>2, <2>6, <2>7, <2>9 DEF Queue!Take
<1> QED BY <1>1, <1>2

\* The consumer of the queue sleeps when it is empty.
LEMMA SleepRefines == ASSUME Inv, SleepIfEmpty PROVE Queue!Sleep
<1>1. Contents = <<>>
  BY ContentsType, EmptySeq DEF SleepIfEmpty
<1>2. Contents' = Contents
  BY DEF SleepIfEmpty, Contents, Place, fifo32_status
<1> QED BY <1>1, <1>2 DEF SleepIfEmpty, Queue!Sleep

(* fifo.c implements the bounded queue: every behaviour of the ring buffer  *)
(* is one of a queue that keeps the order, refuses only when it is full,    *)
(* and whose consumer sleeps only when there is nothing to take.            *)
THEOREM IsAQueue == Spec => ImplementsQueue
<1>1. Init => Queue!Init
  <2> SUFFICES ASSUME Init PROVE Queue!Init
    OBVIOUS
  <2>1. Contents = <<>>
    BY InitInv, ContentsType, EmptySeq, SizeAssumption
       DEF Init, fifo32_status, fifo32_init
  <2> QED BY <2>1 DEF Init, Queue!Init, fifo32_init, FLAGS_OVERRUN
<1>2. Inv /\ [Next]_vars => [Queue!Next]_(Queue!vars)
  <2> SUFFICES ASSUME Inv, [Next]_vars PROVE [Queue!Next]_(Queue!vars)
    OBVIOUS
  <2>1. CASE fifo32_get BY <2>1, GetRefines DEF Queue!Next
  <2>2. CASE SleepIfEmpty BY <2>2, SleepRefines DEF Queue!Next
  <2>3. CASE \E data \in Data : fifo32_put(data)
    BY <2>3, PutRefines DEF Queue!Next
  <2>4. CASE UNCHANGED vars
    BY <2>4 DEF vars, Queue!vars, Contents, Place, fifo32_status
  <2> QED BY <2>1, <2>2, <2>3, <2>4 DEF Next
<1> QED BY <1>1, <1>2, InitInv, NextInv, PTL DEF Spec, ImplementsQueue, Queue!Spec

-----------------------------------------------------------------------------
(* sheet.c *)

\* A pixel's number gives its column and its line.
LEMMA PixelAt ==
  ASSUME NEW p \in Pixels
  PROVE  /\ X(p) \in 0..(xsize - 1) /\ Y(p) \in 0..(ysize - 1)
<1>1. PICK w \in Nat \ {0}, h \in Nat \ {0} : w = xsize /\ h = ysize BY SheetAssumption
<1>2. w * h \in Nat OBVIOUS
<1>3. p \in Nat /\ p < w * h BY <1>1, <1>2 DEF Pixels
<1>4. p % w \in 0..(w - 1) BY <1>3
<1>5. p \div w \in Nat BY <1>3
<1>6. p \div w < h
  <2>1. p = w * (p \div w) + (p % w) BY <1>3
  <2>2. SUFFICES ASSUME p \div w >= h PROVE FALSE BY <1>5
  <2>3. w * (p \div w) >= w * h BY <1>5, <2>2
  <2> QED BY <1>2, <1>3, <1>4, <1>5, <2>1, <2>3
<1> QED BY <1>1, <1>4, <1>5, <1>6 DEF X, Y

-----------------------------------------------------------------------------
(* What the proofs say of a struct SHTCTL c *)

\* struct SHEET and struct SHTCTL: their fields, and what these are
Sht(f, h, x, y, w, b, d, i) ==
  [flags |-> f, height |-> h, vx0 |-> x, vy0 |-> y, bxsize |-> w, bysize |-> b,
   buf |-> d, col_inv |-> i]
IsSht(s) ==
  /\ s = Sht(s.flags, s.height, s.vx0, s.vy0, s.bxsize, s.bysize, s.buf, s.col_inv)
  /\ s.height \in Int /\ s.vx0 \in Int /\ s.vy0 \in Int /\ s.bxsize \in Nat /\ s.bysize \in Nat

Ctl(t, s, m, v, z) == [top |-> t, sheets |-> s, map |-> m, vram |-> v, sheets0 |-> z]
IsCtl(c) ==
  /\ c = Ctl(c.top, c.sheets, c.map, c.vram, c.sheets0)
  /\ c.top \in Int
  /\ c.sheets \in [Slots -> Slots \cup {NoSheet}]
  /\ c.map \in [Pixels -> Slots \cup {NoSheet}]
  /\ c.vram = [p \in Pixels |-> c.vram[p]]
  /\ c.sheets0 = [s \in Slots |-> c.sheets0[s]] /\ \A s \in Slots : IsSht(c.sheets0[s])

\* The height of the sheet s, and whether it has something to show at p
Ht(c, s) == c.sheets0[s].height
Sees(c, s, p) == Shows(c.sheets0[s], p)

\* The heights and the stack agree.
IsStack(c) ==
  /\ c.top \in -1..(MAX_SHEETS - 1)
  /\ \A h \in 0..c.top : c.sheets[h] \in Slots /\ Ht(c, c.sheets[h]) = h
  /\ \A s \in Slots : /\ Ht(c, s) \in -1..c.top
                      /\ Ht(c, s) >= 0 => c.sheets[Ht(c, s)] = s

\* The sheet s is seen at p.
TopAt(c, p, s) ==
  /\ s \in Slots /\ Ht(c, s) >= 0 /\ Sees(c, s, p)
  /\ \A u \in Slots : Ht(c, u) >= 0 /\ Sees(c, u, p) => Ht(c, u) <= Ht(c, s)

\* The map has the sheet that is seen, at every pixel.
MapIs(c) == \A p \in Pixels : TopAt(c, p, c.map[p])

\* What the sheet s has at p, and that this is on the screen if s is in the map.
Look(c, s, p) == c.sheets0[s].buf[BufAt(c.sheets0[s], p)]
VramAt(c, p) == c.vram[p] = Look(c, c.map[p], p)
VramIs(c) == \A p \in Pixels : VramAt(c, p)

\* The stack and the sheets are as they were.
Kept(r, c) == r.top = c.top /\ r.sheets = c.sheets /\ r.sheets0 = c.sheets0

\* A sheet shows nothing outside its area.
LEMMA ShowsInside ==
  ASSUME NEW s, NEW p, Shows(s, p) PROVE Within(AreaOf(s), X(p), Y(p))
BY DEF Shows

\* The numbers in a consistent stack, and that a height has one sheet.
LEMMA StackTyped ==
  ASSUME NEW c, IsStack(c)
  PROVE  /\ MAX_SHEETS \in Int /\ MAX_SHEETS >= 3
         /\ c.top \in Int /\ -1 <= c.top /\ c.top < MAX_SHEETS
         /\ \A h \in 0..c.top : h \in Slots
         /\ \A s \in Slots : Ht(c, s) \in Int /\ -1 <= Ht(c, s) /\ Ht(c, s) <= c.top
         /\ \A s, u \in Slots : Ht(c, s) = Ht(c, u) /\ Ht(c, s) >= 0 => s = u
BY SheetAssumption DEF IsStack, Slots

\* The fields of a struct SHTCTL that is given by its parts.
LEMMA CtlFields ==
  ASSUME NEW t, NEW s, NEW m, NEW v, NEW z, NEW d, d = Ctl(t, s, m, v, z)
  PROVE  d.top = t /\ d.sheets = s /\ d.map = m /\ d.vram = v /\ d.sheets0 = z
BY DEF Ctl

\* A set of integers with bounds has a greatest member, and Max is it.
LEMMA MaxIs ==
  ASSUME NEW lo \in Int, NEW hi \in Int, NEW S, S \subseteq lo..hi, S # {}
  PROVE  Max(S) \in S /\ \A k \in S : k <= Max(S)
<1> DEFINE D == {hi - k : k \in S}
<1>1. D \subseteq Nat /\ D # {} OBVIOUS
<1>2. PICK m \in D : \A k \in D : m <= k
  <2> HIDE DEF D
  <2> QED BY <1>1, LeastExists
<1>3. PICK x \in S : m = hi - x OBVIOUS
<1>4. \A k \in S : x >= k BY <1>2, <1>3
<1> QED BY <1>4 DEF Max

\* The lesser and the greater of two numbers.
LEMMA MinMaxOfTwo ==
  ASSUME NEW a \in Int, NEW b \in Int
  PROVE  Min({a, b}) = (IF a <= b THEN a ELSE b) /\ Max({a, b}) = (IF a >= b THEN a ELSE b)
BY DEF Min, Max

\* sheet_refreshsub writes the screen only.
LEMMA RefreshSub ==
  ASSUME NEW c, IsCtl(c), NEW area, NEW h0, NEW h1, NEW r, r = sheet_refreshsub(c, area, h0, h1)
  PROVE  IsCtl(r) /\ Kept(r, c) /\ r.map = c.map
<1>1. PICK f : r = [c EXCEPT !.vram = f] /\ f = [p \in Pixels |-> f[p]]
  <2> DEFINE Owner(p) == c.sheets0[c.map[p]]
             Drawn(p) == /\ \E h \in h0..h1 : c.sheets[h] = c.map[p]
                         /\ CopiedTo(Owner(p), area, p) # {}
             Pixel(sht, b) == sht.buf[b[2] * sht.bxsize + b[1]]
             New(p) == IF Drawn(p)
                         THEN Pixel(Owner(p), CHOOSE b \in CopiedTo(Owner(p), area, p) : TRUE)
                         ELSE c.vram[p]
             v == [p \in Pixels |-> New(p)]
  <2>1. r = [c EXCEPT !.vram = v] BY Zenon DEF sheet_refreshsub
  <2>2. v = [p \in Pixels |-> v[p]]
    <3> HIDE DEF New
    <3> QED OBVIOUS
  <2> HIDE DEF v
  <2> QED BY <2>1, <2>2
<1>2. r = Ctl(c.top, c.sheets, c.map, f, c.sheets0) BY <1>1 DEF IsCtl, Ctl
<1>3. Kept(r, c) /\ r.map = c.map /\ r.vram = f BY <1>2, CtlFields DEF Kept
<1> QED BY <1>1, <1>2, <1>3 DEF IsCtl, Kept

\* sheet_refreshmap puts the sheet that is seen into the map, where a sheet from h0 up
\* shows something; elsewhere it leaves the map alone.
LEMMA RefreshMap ==
  ASSUME NEW c, IsCtl(c), IsStack(c), NEW area, NEW h0 \in Nat,
         NEW r, r = sheet_refreshmap(c, area, h0)
  PROVE  /\ IsCtl(r) /\ Kept(r, c) /\ r.vram = c.vram
         /\ \A p \in Pixels :
              IF /\ Within(area, X(p), Y(p))
                 /\ \E u \in Slots : Ht(c, u) >= h0 /\ Sees(c, u, p)
                THEN TopAt(c, p, r.map[p]) ELSE r.map[p] = c.map[p]
<1> DEFINE Over(p) == {h \in h0..c.top : Shows(c.sheets0[c.sheets[h]], p)}
           m == [p \in Pixels |-> IF Within(area, X(p), Y(p)) /\ Over(p) # {}
                                   THEN c.sheets[Max(Over(p))] ELSE c.map[p]]
<1>1. r = Ctl(c.top, c.sheets, m, c.vram, c.sheets0)
  <2>1. r = [c EXCEPT !.map = m] BY Zenon DEF sheet_refreshmap
  <2> HIDE DEF m
  <2> QED BY <2>1 DEF IsCtl, Ctl
<1>2. Kept(r, c) /\ r.map = m /\ r.vram = c.vram
  <2> HIDE DEF m
  <2> QED BY <1>1, CtlFields DEF Kept
<1>3. ASSUME NEW p \in Pixels
      PROVE  /\ Over(p) # {} <=> \E u \in Slots : Ht(c, u) >= h0 /\ Sees(c, u, p)
             /\ Over(p) # {} => TopAt(c, p, c.sheets[Max(Over(p))])
  <2>1. c.top \in Int /\ Over(p) \subseteq h0..c.top BY DEF IsCtl
  <2>2. \A h \in h0..c.top : h \in Over(p) <=> Sees(c, c.sheets[h], p) BY DEF Sees
  <2>3. \A h \in h0..c.top : c.sheets[h] \in Slots /\ Ht(c, c.sheets[h]) = h
    BY <2>1 DEF IsStack
  <2>4. \A u \in Slots : Ht(c, u) >= h0 => Ht(c, u) \in h0..c.top /\ c.sheets[Ht(c, u)] = u
    BY <2>1 DEF IsStack
  <2> HIDE DEF Over
  <2>5. ASSUME NEW u \in Slots, Ht(c, u) >= h0, Sees(c, u, p) PROVE Ht(c, u) \in Over(p)
    BY <2>2, <2>4, <2>5
  <2>6. ASSUME Over(p) # {} PROVE TopAt(c, p, c.sheets[Max(Over(p))])
    <3>1. PICK g : g = Max(Over(p)) OBVIOUS
    <3>2. g \in Over(p) /\ \A k \in Over(p) : k <= g
      <4>0. PICK S : S = Over(p) OBVIOUS
      <4>1. PICK n \in Int : n = c.top BY <2>1
      <4>2. S \subseteq h0..n /\ S # {} /\ h0 \in Int BY <2>1, <2>6, <4>0, <4>1
      <4>3. Max(S) \in S /\ \A k \in S : k <= Max(S) BY <4>2, MaxIs
      <4> QED BY <3>1, <4>0, <4>3
    <3>3. g \in h0..c.top BY <2>1, <3>2
    <3>4. c.sheets[g] \in Slots /\ Ht(c, c.sheets[g]) = g /\ Sees(c, c.sheets[g], p)
      BY <2>2, <2>3, <3>2, <3>3
    <3>5. ASSUME NEW u \in Slots, Ht(c, u) >= 0, Sees(c, u, p) PROVE Ht(c, u) <= g
      <4>1. Ht(c, u) \in Int BY DEF IsStack
      <4> QED BY <2>5, <3>2, <3>3, <3>5, <4>1
    <3> QED BY <3>1, <3>3, <3>4, <3>5 DEF TopAt
  <2>7. ASSUME NEW h \in Over(p) PROVE \E u \in Slots : Ht(c, u) >= h0 /\ Sees(c, u, p)
    <3>1. h \in h0..c.top BY <2>1
    <3> QED BY <2>2, <2>3, <3>1
  <2> QED BY <2>5, <2>6, <2>7
<1>4. m \in [Pixels -> Slots \cup {NoSheet}]
  <2>1. ASSUME NEW p \in Pixels
        PROVE  (IF Within(area, X(p), Y(p)) /\ Over(p) # {}
                  THEN c.sheets[Max(Over(p))] ELSE c.map[p])
                 \in Slots \cup {NoSheet}
    <3> HIDE DEF Over
    <3> QED BY <1>3 DEF TopAt, IsCtl
  <2> QED BY <2>1
<1>5. IsCtl(r)
  <2> HIDE DEF m
  <2> QED BY <1>1, <1>2, <1>4 DEF IsCtl, Kept
<1>6. ASSUME NEW p \in Pixels
      PROVE  IF /\ Within(area, X(p), Y(p))
                 /\ \E u \in Slots : Ht(c, u) >= h0 /\ Sees(c, u, p)
               THEN TopAt(c, p, r.map[p]) ELSE r.map[p] = c.map[p]
  <2>1. r.map[p] = IF Within(area, X(p), Y(p)) /\ Over(p) # {}
                     THEN c.sheets[Max(Over(p))] ELSE c.map[p]
    BY <1>2
  <2> HIDE DEF Over
  <2> QED BY <1>3, <2>1
<1> QED BY <1>2, <1>5, <1>6

-----------------------------------------------------------------------------
(* What is drawn on the screen.  It is one array, so that a pixel before the left
   end of a line is the last one of the line above. *)

\* An area of whole numbers
IsArea(a) == a.x0 \in Int /\ a.y0 \in Int /\ a.x1 \in Int /\ a.y1 \in Int

\* What is redrawn of the sheet t ends behind its left edge, or does not begin within it.
Fits(area, t) == area.x1 >= t.vx0 \/ area.x0 <= t.vx0

\* t is the background, or three pixels narrower than the screen.
FitsLine(t) == (t.vx0 = 0 /\ t.bxsize = xsize) \/ t.bxsize + 3 <= xsize

\* C cuts off towards 0.
LEMMA QuotientIs ==
  ASSUME NEW a \in Int
  PROVE  /\ Quotient(a) \in Int
         /\ a >= 0 => a - 3 <= 4 * Quotient(a) /\ 4 * Quotient(a) <= a
         /\ a < 0 => a <= 4 * Quotient(a) /\ 4 * Quotient(a) <= a + 3
BY DEF Quotient

\* The first whole word begins at most three pixels behind a.
LEMMA RoundedUp ==
  ASSUME NEW a \in Nat
  PROVE  /\ Quotient(a + 3) \in Int
         /\ a <= 4 * Quotient(a + 3) /\ 4 * Quotient(a + 3) <= a + 3
         /\ a % 4 = 0 => 4 * Quotient(a + 3) = a
BY DEF Quotient

\* The last remainder starts at most three pixels before the sheet, unless nothing of
\* the sheet was to be redrawn.
LEMMA ColumnsFrom ==
  ASSUME NEW t, NEW x0 \in Nat, NEW x1 \in Int, NEW col \in Columns(t, x0, x1)
  PROVE  col \in Int /\ (col >= -3 \/ (x1 < 0 /\ x0 % 4 # 0 /\ t.vx0 % 4 = 0))
<1>1. PICK u \in Int, v \in Int : u = Quotient(x0 + 3) /\ v = Quotient(x1) BY QuotientIs
<1>2. /\ x0 <= 4 * u /\ 4 * u <= x0 + 3 /\ (x0 % 4 = 0 => 4 * u = x0)
      /\ x1 >= 0 => x1 - 3 <= 4 * v /\ 4 * v <= x1
      /\ x1 < 0 => x1 <= 4 * v /\ 4 * v <= x1 + 3
  BY <1>1, QuotientIs, RoundedUp
<1>3. PICK k \in Int : k = 4 * u BY <1>1
<1>4. Min({x1, k}) = IF x1 <= k THEN x1 ELSE k BY <1>3, MinMaxOfTwo
<1>5. PICK first \in Int : /\ first = IF x0 >= x1 THEN x0 ELSE Min({x1, 4 * u})
                           /\ first = IF x0 >= x1 THEN x0 ELSE IF x1 <= k THEN x1 ELSE k
  BY <1>3, <1>4
<1>6. Columns(t, x0, x1) = IF t.vx0 % 4 # 0 THEN x0..(x1 - 1)
                           ELSE (x0..(x1 - 1)) \cup ((first + 4 * (v - u))..(x1 - 1))
  BY <1>1, <1>5 DEF Columns
<1>7. CASE col \in x0..(x1 - 1) BY <1>7
<1>8. CASE t.vx0 % 4 = 0 /\ col \in (first + 4 * (v - u))..(x1 - 1)
  <2>1. col \in Int /\ col >= first + 4 * (v - u) /\ col < x1 BY <1>8
  <2>2. CASE x0 < x1
    <3>1. first + 4 * (v - u) >= -3 BY <1>2, <1>3, <1>5, <2>2
    <3> QED BY <2>1, <3>1
  <2>3. CASE x0 >= x1 /\ x1 >= 0
    <3>1. first + 4 * (v - u) >= -3 BY <1>2, <1>3, <1>5, <2>3
    <3> QED BY <2>1, <3>1
  <2>4. CASE x1 < 0
    <3>1. x0 % 4 = 0 => first + 4 * (v - u) >= x1 BY <1>2, <1>3, <1>5, <2>4
    <3> QED BY <1>8, <2>1, <2>4, <3>1
  <2> QED BY <2>2, <2>3, <2>4
<1> QED BY <1>6, <1>7, <1>8

\* The area of a sheet's buffer that sheet_refreshsub visits
Bounds(t, area) ==
  Clip(Moved(Clip(area, Screen), -t.vx0, -t.vy0), Rect(0, 0, t.bxsize, t.bysize))

\* The part that two areas have in common
LEMMA ClipIs ==
  ASSUME NEW a, NEW b, IsArea(a), IsArea(b), NEW c, c = Clip(a, b)
  PROVE  /\ IsArea(c)
         /\ c.x0 = (IF a.x0 >= b.x0 THEN a.x0 ELSE b.x0)
         /\ c.x1 = (IF a.x1 <= b.x1 THEN a.x1 ELSE b.x1)
         /\ c.y0 = (IF a.y0 >= b.y0 THEN a.y0 ELSE b.y0)
         /\ c.y1 = (IF a.y1 <= b.y1 THEN a.y1 ELSE b.y1)
<1>1. PICK x0, y0, x1, y1 : /\ x0 = Max({a.x0, b.x0}) /\ y0 = Max({a.y0, b.y0})
                            /\ x1 = Min({a.x1, b.x1}) /\ y1 = Min({a.y1, b.y1})
  OBVIOUS
<1>2. /\ x0 = (IF a.x0 >= b.x0 THEN a.x0 ELSE b.x0) /\ x1 = (IF a.x1 <= b.x1 THEN a.x1 ELSE b.x1)
      /\ y0 = (IF a.y0 >= b.y0 THEN a.y0 ELSE b.y0) /\ y1 = (IF a.y1 <= b.y1 THEN a.y1 ELSE b.y1)
  BY <1>1, MinMaxOfTwo DEF IsArea
<1>3. c.x0 = x0 /\ c.y0 = y0 /\ c.x1 = x1 /\ c.y1 = y1 BY <1>1 DEF Clip, Rect
<1> QED BY <1>2, <1>3 DEF IsArea

\* The fields of an area
LEMMA RectIs ==
  ASSUME NEW x0 \in Int, NEW y0 \in Int, NEW x1 \in Int, NEW y1 \in Int,
         NEW c, c = Rect(x0, y0, x1, y1)
  PROVE  IsArea(c) /\ c.x0 = x0 /\ c.y0 = y0 /\ c.x1 = x1 /\ c.y1 = y1
BY DEF Rect, IsArea

\* What bounds the part of the buffer that is visited: the sheet, the screen or the area
LEMMA BoundsAre ==
  ASSUME NEW t, IsSht(t), NEW area, IsArea(area), NEW b, b = Bounds(t, area)
  PROVE  /\ b.x0 \in Int /\ b.x1 \in Int /\ b.y0 \in Int /\ b.y1 \in Int
         /\ b.x0 \in {0, -t.vx0, area.x0 - t.vx0}
         /\ b.x0 >= 0 /\ b.x0 >= -t.vx0 /\ b.x0 >= area.x0 - t.vx0
         /\ b.y0 \in {0, -t.vy0, area.y0 - t.vy0}
         /\ b.x1 \in {t.bxsize, xsize - t.vx0, area.x1 - t.vx0}
         /\ b.y1 \in {t.bysize, ysize - t.vy0, area.y1 - t.vy0}
<1>1. t.vx0 \in Int /\ t.vy0 \in Int /\ t.bxsize \in Nat /\ t.bysize \in Nat BY DEF IsSht
<1>2. xsize \in Nat /\ ysize \in Nat BY SheetAssumption
<1>3. PICK s : s = Screen OBVIOUS
<1>4. IsArea(s) /\ s.x0 = 0 /\ s.y0 = 0 /\ s.x1 = xsize /\ s.y1 = ysize
  BY <1>2, <1>3, RectIs DEF Screen
<1>5. PICK d : d = Clip(area, s) OBVIOUS
<1>6. /\ IsArea(d) /\ d.x0 \in {0, area.x0} /\ d.x0 >= 0 /\ d.x0 >= area.x0 /\ d.y0 \in {0, area.y0}
      /\ d.x1 \in {xsize, area.x1} /\ d.y1 \in {ysize, area.y1}
  BY <1>4, <1>5, ClipIs DEF IsArea
<1>7. PICK m : m = Moved(d, -t.vx0, -t.vy0) OBVIOUS
<1>8. /\ IsArea(m) /\ m.x0 = d.x0 - t.vx0 /\ m.x1 = d.x1 - t.vx0
      /\ m.y0 = d.y0 - t.vy0 /\ m.y1 = d.y1 - t.vy0
  <2>1. PICK x0, y0, x1, y1 : /\ x0 = d.x0 + (-t.vx0) /\ x1 = d.x1 + (-t.vx0)
                              /\ y0 = d.y0 + (-t.vy0) /\ y1 = d.y1 + (-t.vy0)
    OBVIOUS
  <2>0. x0 \in Int /\ y0 \in Int /\ x1 \in Int /\ y1 \in Int BY <1>1, <1>6, <2>1 DEF IsArea
  <2>2. m = Rect(x0, y0, x1, y1) BY <1>7, <2>1 DEF Moved
  <2>3. IsArea(m) /\ m.x0 = x0 /\ m.y0 = y0 /\ m.x1 = x1 /\ m.y1 = y1 BY <2>0, <2>2, RectIs
  <2> QED BY <1>1, <1>6, <2>0, <2>1, <2>3 DEF IsArea
<1>9. PICK q : q = Rect(0, 0, t.bxsize, t.bysize) OBVIOUS
<1>10. IsArea(q) /\ q.x0 = 0 /\ q.y0 = 0 /\ q.x1 = t.bxsize /\ q.y1 = t.bysize
  <2>1. PICK z \in Int, x1 \in Int, y1 \in Int : z = 0 /\ x1 = t.bxsize /\ y1 = t.bysize
    BY <1>1
  <2> QED BY <1>9, <2>1, RectIs
<1>11. b = Clip(m, q) BY <1>3, <1>5, <1>7, <1>9 DEF Bounds
<1>12. /\ IsArea(b) /\ b.x0 \in {0, m.x0} /\ b.x0 >= 0 /\ b.x0 >= m.x0 /\ b.y0 \in {0, m.y0}
       /\ b.x1 \in {t.bxsize, m.x1} /\ b.y1 \in {t.bysize, m.y1}
  BY <1>8, <1>10, <1>11, ClipIs DEF IsArea
<1> QED BY <1>1, <1>6, <1>8, <1>12 DEF IsArea

\* Whatever is copied to a pixel of the sheet's place is the one that belongs there: nothing
\* reaches it from beyond the left edge, since the sheet is narrower than a line.
LEMMA CopiedIs ==
  ASSUME NEW t, IsSht(t), FitsLine(t), NEW area, IsArea(area), Fits(area, t),
         NEW p \in Pixels, Within(AreaOf(t), X(p), Y(p)), NEW b \in CopiedTo(t, area, p)
  PROVE  b[2] * t.bxsize + b[1] = BufAt(t, p)
<1>1. PICK x \in Int, y \in Int : x = X(p) /\ y = Y(p) /\ 0 <= x /\ x < xsize /\ 0 <= y
  BY PixelAt, SheetAssumption
<1>2. PICK vx \in Int, vy \in Int, w \in Nat, h \in Nat :
        t.vx0 = vx /\ t.vy0 = vy /\ t.bxsize = w /\ t.bysize = h
  BY DEF IsSht
<1>3. vx <= x /\ x < vx + w
  BY <1>1, <1>2 DEF Within, AreaOf, Rect
<1>4. BufAt(t, p) = (y - vy) * w + x - vx BY <1>1, <1>2 DEF BufAt
<1>5. /\ b \in {<<x - vx, y - vy>>, <<x - vx - xsize, y - vy + 1>>}
      /\ Visits(t, area, b[1], b[2])
  BY <1>1, <1>2 DEF CopiedTo
<1>6. CASE b = <<x - vx, y - vy>>
  <2>1. b[1] = x - vx /\ b[2] = y - vy BY <1>6
  <2>2. b[2] * t.bxsize = (y - vy) * w BY <1>2, <2>1
  <2>3. (y - vy) * w \in Int OBVIOUS
  <2> QED BY <1>4, <2>1, <2>2, <2>3
<1>7. CASE b = <<x - vx - xsize, y - vy + 1>>
  <2>1. b[1] = x - vx - xsize /\ b[2] = y - vy + 1 BY <1>7
  <2>2. xsize \in Nat BY SheetAssumption
  <2>3. CASE vx = 0 /\ w = xsize
    <3>1. b[2] * t.bxsize = (y - vy) * w + w BY <1>2, <2>1
    <3>2. PICK n \in Int : n = (y - vy) * w OBVIOUS
    <3> QED BY <1>4, <2>1, <2>2, <2>3, <3>1, <3>2
  <2>4. CASE w + 3 <= xsize
    <3>1. b[1] < -3 BY <1>1, <1>3, <2>1, <2>2, <2>4
    <3>2. PICK d : d = Bounds(t, area) OBVIOUS
    <3>3. /\ d.x0 \in Int /\ d.x1 \in Int
          /\ d.x0 \in {0, -vx, area.x0 - vx}
          /\ d.x0 >= 0 /\ d.x0 >= -vx /\ d.x0 >= area.x0 - vx
          /\ d.x1 \in {w, xsize - vx, area.x1 - vx}
      BY <1>2, <3>2, BoundsAre
    <3>4. b[1] \in Columns(t, d.x0, d.x1) BY <1>5, <3>2 DEF Visits, Bounds
    <3>5. d.x1 < 0 /\ d.x0 % 4 # 0 /\ vx % 4 = 0
      <4>1. PICK x0 \in Nat, x1 \in Int, k \in Int : x0 = d.x0 /\ x1 = d.x1 /\ k = b[1]
        BY <1>1, <2>1, <2>2, <3>3
      <4>2. k \in Columns(t, x0, x1) /\ k < -3 BY <3>1, <3>4, <4>1
      <4>3. k >= -3 \/ (x1 < 0 /\ x0 % 4 # 0 /\ t.vx0 % 4 = 0) BY <4>2, ColumnsFrom
      <4> QED BY <1>2, <4>1, <4>2, <4>3
    <3>6. area.x1 < vx BY <1>1, <1>3, <2>2, <3>3, <3>5 DEF IsArea
    <3>7. area.x0 <= vx BY <1>2, <3>6 DEF Fits, IsArea
    <3>8. d.x0 = 0 \/ d.x0 = -vx BY <3>3, <3>7 DEF IsArea
    <3>9. (-vx) % 4 = 0 BY <3>5
    <3> QED BY <3>5, <3>8, <3>9
  <2> QED BY <1>2, <2>3, <2>4 DEF FitsLine
<1> QED BY <1>5, <1>6, <1>7

\* All that is seen of the sheet within the area is drawn.
LEMMA CopiedThere ==
  ASSUME NEW t, IsSht(t), NEW area, IsArea(area), NEW p \in Pixels,
         Within(AreaOf(t), X(p), Y(p)), Within(area, X(p), Y(p))
  PROVE  CopiedTo(t, area, p) # {}
<1>1. PICK x \in Int, y \in Int :
        x = X(p) /\ y = Y(p) /\ 0 <= x /\ x < xsize /\ 0 <= y /\ y < ysize
  BY PixelAt, SheetAssumption
<1>2. PICK vx \in Int, vy \in Int, w \in Nat, h \in Nat :
        t.vx0 = vx /\ t.vy0 = vy /\ t.bxsize = w /\ t.bysize = h
  BY DEF IsSht
<1>3. vx <= x /\ x < vx + w /\ vy <= y /\ y < vy + h
  BY <1>1, <1>2 DEF Within, AreaOf, Rect
<1>4. area.x0 <= x /\ x < area.x1 /\ area.y0 <= y /\ y < area.y1 BY <1>1 DEF Within
<1>5. PICK d : d = Bounds(t, area) OBVIOUS
<1>6. /\ d.x0 \in Int /\ d.x1 \in Int /\ d.y0 \in Int /\ d.y1 \in Int
      /\ d.x0 \in {0, -vx, area.x0 - vx} /\ d.x1 \in {w, xsize - vx, area.x1 - vx}
      /\ d.y0 \in {0, -vy, area.y0 - vy} /\ d.y1 \in {h, ysize - vy, area.y1 - vy}
  BY <1>2, <1>5, BoundsAre
<1>7. d.x0 <= x - vx /\ x - vx < d.x1 /\ d.y0 <= y - vy /\ y - vy < d.y1
  BY <1>1, <1>3, <1>4, <1>6, SheetAssumption DEF IsArea
<1>8. x - vx \in Columns(t, d.x0, d.x1)
  <2>1. PICK first, words : Columns(t, d.x0, d.x1) = IF t.vx0 % 4 # 0 THEN d.x0..(d.x1 - 1)
                     ELSE (d.x0..(d.x1 - 1)) \cup ((first + 4 * words)..(d.x1 - 1))
    BY Zenon DEF Columns
  <2>2. x - vx \in d.x0..(d.x1 - 1) BY <1>6, <1>7
  <2> QED BY <2>1, <2>2
<1>9. Visits(t, area, x - vx, y - vy) BY <1>5, <1>7, <1>8 DEF Visits, Bounds
<1>10. <<x - vx, y - vy>> \in CopiedTo(t, area, p) BY <1>1, <1>2, <1>9 DEF CopiedTo
<1> QED BY <1>10

\* A call of sheet_refreshsub, and the sheet s that is seen at p
Drawable(c, area, h0, h1, p, s) ==
  /\ IsCtl(c) /\ IsStack(c) /\ IsArea(area) /\ h0 \in Nat /\ h1 \in Int /\ h1 <= c.top
  /\ s \in Slots /\ s = c.map[p] /\ TopAt(c, p, s) /\ FitsLine(c.sheets0[s])
  /\ Ht(c, s) \in h0..h1 => Fits(area, c.sheets0[s])

\* sheet_refreshsub leaves right what is right on the screen, and makes it right within the
\* area, where a sheet from height h0 to h1 is in the map.
LEMMA DrawnBy ==
  ASSUME NEW c, NEW area, NEW h0, NEW h1, NEW p \in Pixels, NEW s,
         Drawable(c, area, h0, h1, p, s), NEW r, r = sheet_refreshsub(c, area, h0, h1)
  PROVE  /\ VramAt(c, p) => VramAt(r, p)
         /\ Within(area, X(p), Y(p)) /\ Ht(c, s) \in h0..h1 => VramAt(r, p)
<1> DEFINE Owner(q) == c.sheets0[c.map[q]]
           Drawn(q) == /\ \E h \in h0..h1 : c.sheets[h] = c.map[q]
                       /\ CopiedTo(Owner(q), area, q) # {}
           Pixel(sht, b) == sht.buf[b[2] * sht.bxsize + b[1]]
           New(q) == IF Drawn(q)
                       THEN Pixel(Owner(q), CHOOSE b \in CopiedTo(Owner(q), area, q) : TRUE)
                       ELSE c.vram[q]
           v == [q \in Pixels |-> New(q)]
<1>0. /\ IsCtl(c) /\ IsStack(c) /\ IsArea(area) /\ h0 \in Nat /\ h1 \in Int /\ h1 <= c.top
      /\ s \in Slots /\ s = c.map[p] /\ TopAt(c, p, s) /\ FitsLine(c.sheets0[s])
      /\ Ht(c, s) \in h0..h1 => Fits(area, c.sheets0[s])
  BY DEF Drawable
<1>1. r = [c EXCEPT !.vram = v] BY Zenon DEF sheet_refreshsub
<1>2. r.vram = v /\ r.map = c.map /\ r.sheets0 = c.sheets0
  <2> HIDE DEF v
  <2>1. r = Ctl(c.top, c.sheets, c.map, v, c.sheets0) BY <1>0, <1>1 DEF IsCtl, Ctl
  <2> QED BY <2>1, CtlFields
<1>3. r.vram[p] = New(p)
  <2> HIDE DEF New
  <2> QED BY <1>2
<1> PICK t : t = c.sheets0[s] OBVIOUS
<1>4. IsSht(t) /\ Within(AreaOf(t), X(p), Y(p)) /\ Owner(p) = t
  BY <1>0, ShowsInside DEF IsCtl, TopAt, Sees
<1>5. (\E h \in h0..h1 : c.sheets[h] = s) <=> Ht(c, s) \in h0..h1
  <2>1. ASSUME NEW h \in h0..h1, c.sheets[h] = s PROVE Ht(c, s) = h
    <3>1. h \in 0..c.top BY <1>0, StackTyped
    <3> QED BY <1>0, <2>1, <3>1 DEF IsStack
  <2>2. c.sheets[Ht(c, s)] = s BY <1>0 DEF IsStack, TopAt
  <2> QED BY <2>1, <2>2
<1>6. CASE Ht(c, s) \in h0..h1 /\ CopiedTo(t, area, p) # {}
  <2>1. PICK b \in CopiedTo(t, area, p) : b = CHOOSE k \in CopiedTo(t, area, p) : TRUE BY <1>6
  <2>2. New(p) = Pixel(t, b) BY <1>0, <1>4, <1>5, <1>6, <2>1, Zenon
  <2>3. b[2] * t.bxsize + b[1] = BufAt(t, p) BY <1>0, <1>4, <1>6, CopiedIs, Zenon
  <2>4. r.vram[p] = t.buf[BufAt(t, p)] BY <1>3, <2>2, <2>3
  <2> QED BY <1>0, <1>2, <2>4, Zenon DEF VramAt, Look
<1>7. CASE ~(Ht(c, s) \in h0..h1 /\ CopiedTo(t, area, p) # {})
  <2>1. r.vram[p] = c.vram[p] BY <1>0, <1>3, <1>4, <1>5, <1>7
  <2>2. VramAt(c, p) => VramAt(r, p) BY <1>2, <2>1 DEF VramAt, Look
  <2>3. Within(area, X(p), Y(p)) => CopiedTo(t, area, p) # {} BY <1>0, <1>4, CopiedThere
  <2> QED BY <1>7, <2>2, <2>3
<1> QED BY <1>6, <1>7

-----------------------------------------------------------------------------
(* The four ways to change the stack *)

Alike(s, t) ==
  /\ s.flags = t.flags /\ s.vx0 = t.vx0 /\ s.vy0 = t.vy0
  /\ s.bxsize = t.bxsize /\ s.bysize = t.bysize /\ s.buf = t.buf /\ s.col_inv = t.col_inv

\* Sheets that differ only in their height show the same pixels.
LEMMA AlikeSees ==
  ASSUME NEW s, NEW t, Alike(s, t)
  PROVE  AreaOf(s) = AreaOf(t) /\ \A p : Shows(s, p) <=> Shows(t, p)
BY DEF Alike, AreaOf, Shows, BufAt

\* A sheet at another height
LEMMA AtHeight ==
  ASSUME NEW s, IsSht(s), NEW h \in Int, NEW t, t = [s EXCEPT !.height = h]
  PROVE  IsSht(t) /\ t.height = h /\ Alike(t, s)
<1>1. t = Sht(s.flags, h, s.vx0, s.vy0, s.bxsize, s.bysize, s.buf, s.col_inv)
  BY DEF IsSht, Sht
<1>2. t.height = h /\ Alike(t, s) BY <1>1 DEF Alike, Sht
<1> QED BY <1>1, <1>2 DEF IsSht, Alike

\* What Shift does: the places a..b of c have taken the sheets d above them.
Shifted(r, c, a, b, d) ==
  /\ IsCtl(r) /\ r.top = c.top /\ r.map = c.map /\ r.vram = c.vram
  /\ \A h \in Slots : r.sheets[h] = IF h \in a..b THEN c.sheets[h + d] ELSE c.sheets[h]
  /\ \A s \in Slots : /\ Alike(r.sheets0[s], c.sheets0[s])
                      /\ Ht(r, s) = IF Ht(c, s) >= 0 /\ Ht(c, s) - d \in a..b
                                      THEN Ht(c, s) - d ELSE Ht(c, s)

\* What PutAt does: sid is at its height in the stack.
PutThere(r, c, sid, height) ==
  /\ IsCtl(r) /\ r.top = c.top /\ r.map = c.map /\ r.vram = c.vram
  /\ \A h \in Slots : r.sheets[h] = IF h = height THEN sid ELSE c.sheets[h]
  /\ \A s \in Slots : /\ Alike(r.sheets0[s], c.sheets0[s])
                      /\ Ht(r, s) = IF s = sid THEN height ELSE Ht(c, s)

\* The loops of sheet_updown: the places a..b take their neighbours, who learn it.
LEMMA ShiftIs ==
  ASSUME NEW c, IsCtl(c), IsStack(c), NEW a \in Int, NEW b \in Int, NEW d \in {-1, 1},
         \A h \in a..b : h \in Slots /\ h + d \in 0..c.top,
         NEW r, r = Shift(c, a..b, d)
  PROVE  Shifted(r, c, a, b, d)
<1> DEFINE H == a..b
           Comes(h, sid) == c.sheets[h + d] = sid
           f == [h \in Slots |-> IF h \in H THEN c.sheets[h + d] ELSE c.sheets[h]]
           z == [sid \in Slots |->
                  IF \E h \in H : Comes(h, sid)
                    THEN [c.sheets0[sid] EXCEPT !.height = CHOOSE h \in H : Comes(h, sid)]
                    ELSE c.sheets0[sid]]
<1>1. r = Ctl(c.top, f, c.map, c.vram, z)
  <2>1. r = [c EXCEPT !.sheets = f, !.sheets0 = z] BY Zenon DEF Shift
  <2> HIDE DEF f, z
  <2> QED BY <2>1 DEF IsCtl, Ctl
<1>2. r.top = c.top /\ r.sheets = f /\ r.map = c.map /\ r.vram = c.vram /\ r.sheets0 = z
  <2> HIDE DEF f, z
  <2> QED BY <1>1, CtlFields
<1>3. c.top \in Int /\ c.top + 1 <= MAX_SHEETS /\ MAX_SHEETS \in Int
  BY StackTyped
<1>4. f \in [Slots -> Slots \cup {NoSheet}]
  <2>1. \A h \in a..b : h + d \in Slots
    <3> SUFFICES ASSUME NEW h \in a..b PROVE h + d \in Slots OBVIOUS
    <3>1. PICK k \in 0..c.top : k = h + d OBVIOUS
    <3> QED BY <1>3, <3>1 DEF Slots
  <2> QED BY <2>1 DEF IsCtl
<1>5. ASSUME NEW s \in Slots
      PROVE  /\ IsSht(z[s]) /\ Alike(z[s], c.sheets0[s])
             /\ z[s].height = IF Ht(c, s) >= 0 /\ Ht(c, s) - d \in a..b
                                THEN Ht(c, s) - d ELSE Ht(c, s)
  <2>1. IsSht(c.sheets0[s]) /\ c.sheets0[s].height = Ht(c, s) /\ Ht(c, s) \in Int
    BY DEF IsCtl, IsSht, Ht
  <2>2. \A h \in a..b : Comes(h, s) <=> h + d = Ht(c, s)
    <3> SUFFICES ASSUME NEW h \in a..b PROVE c.sheets[h + d] = s <=> h + d = Ht(c, s)
      OBVIOUS
    <3>1. h + d \in 0..c.top OBVIOUS
    <3>2. PICK k \in 0..c.top : k = h + d BY <3>1
    <3>3. Ht(c, c.sheets[k]) = k /\ (Ht(c, s) >= 0 => c.sheets[Ht(c, s)] = s) BY DEF IsStack
    <3>4. k >= 0 BY <1>3, <3>2
    <3> QED BY <3>2, <3>3, <3>4
  <2> HIDE DEF Comes
  <2>3. CASE Ht(c, s) >= 0 /\ Ht(c, s) - d \in a..b
    <3>1. PICK g \in a..b : g = Ht(c, s) - d BY <2>3
    <3>2. Comes(g, s) /\ \A h \in a..b : Comes(h, s) => h = g
      <4>1. PICK n \in Int : n = Ht(c, s) BY <2>1
      <4>2. g + d = n /\ \A h \in a..b : h + d = n => h = g BY <3>1, <4>1
      <4> QED BY <2>2, <4>1, <4>2
    <3>3. (CHOOSE h \in H : Comes(h, s)) = g BY <3>2
    <3>4. z[s] = [c.sheets0[s] EXCEPT !.height = g] BY <3>2, <3>3
    <3> HIDE DEF z
    <3> QED BY <2>1, <2>3, <3>1, <3>4, AtHeight
  <2>4. CASE ~(Ht(c, s) >= 0 /\ Ht(c, s) - d \in a..b)
    <3>1. \A h \in a..b : ~Comes(h, s)
      <4> SUFFICES ASSUME NEW h \in a..b, Comes(h, s) PROVE FALSE OBVIOUS
      <4>1. h + d = Ht(c, s) /\ h + d \in 0..c.top BY <2>2
      <4> QED BY <1>3, <2>4, <4>1
    <3>2. z[s] = c.sheets0[s] BY <3>1
    <3> HIDE DEF z
    <3> QED BY <2>1, <2>4, <3>2 DEF Alike
  <2> QED BY <2>3, <2>4
<1>6. z = [s \in Slots |-> z[s]] OBVIOUS
<1> HIDE DEF z
<1>7. IsCtl(r)
  <2> HIDE DEF f
  <2> QED BY <1>1, <1>2, <1>3, <1>4, <1>5, <1>6 DEF IsCtl
<1> QED BY <1>2, <1>5, <1>7 DEF Ht, Shifted

\* sht is put at its new height.
LEMMA PutAtIs ==
  ASSUME NEW c, IsCtl(c), NEW sid \in Slots, NEW height \in Slots,
         NEW r, r = PutAt(c, sid, height)
  PROVE  PutThere(r, c, sid, height)
<1>1. PICK t : t = [c.sheets0[sid] EXCEPT !.height = height] OBVIOUS
<1>2. IsSht(t) /\ t.height = height /\ Alike(t, c.sheets0[sid])
  <2>1. IsSht(c.sheets0[sid]) /\ height \in Int BY SheetAssumption DEF IsCtl, Slots
  <2> QED BY <1>1, <2>1, AtHeight
<1>3. PICK f, z : f = [c.sheets EXCEPT ![height] = sid] /\ z = [c.sheets0 EXCEPT ![sid] = t]
  OBVIOUS
<1>4. r = Ctl(c.top, f, c.map, c.vram, z)
  <2>1. r = [c EXCEPT !.sheets[height] = sid, !.sheets0[sid].height = height]
    BY Zenon DEF PutAt
  <2> QED BY <1>1, <1>3, <2>1 DEF IsCtl, Ctl
<1>5. r.top = c.top /\ r.sheets = f /\ r.map = c.map /\ r.vram = c.vram /\ r.sheets0 = z
  BY <1>4, CtlFields
<1>6. /\ f \in [Slots -> Slots \cup {NoSheet}]
      /\ \A h \in Slots : f[h] = IF h = height THEN sid ELSE c.sheets[h]
  BY <1>3 DEF IsCtl
<1>7. /\ z = [s \in Slots |-> z[s]]
      /\ \A s \in Slots : z[s] = IF s = sid THEN t ELSE c.sheets0[s]
  BY <1>3 DEF IsCtl
<1>8. IsCtl(r) BY <1>2, <1>4, <1>5, <1>6, <1>7 DEF IsCtl
<1> QED BY <1>2, <1>5, <1>6, <1>7, <1>8 DEF Ht, Alike, PutThere

\* The stack has changed and is consistent; the rest of c is as before.
Restacked(r, c) ==
  /\ IsCtl(r) /\ IsStack(r) /\ r.map = c.map /\ r.vram = c.vram
  /\ \A s \in Slots : Alike(r.sheets0[s], c.sheets0[s])

\* Sheets stay alike over two steps.
LEMMA AlikeTwice ==
  ASSUME NEW s, NEW t, NEW u, Alike(s, t), Alike(t, u) PROVE Alike(s, u)
BY DEF Alike

\* sheet_updown, "lower than before" and still visible: the sheets between go up by one.
LEMMA LowerIs ==
  ASSUME NEW c, IsCtl(c), IsStack(c), NEW sid \in Slots, NEW height \in Nat,
         NEW old \in Nat, old = Ht(c, sid), height < old, NEW r, r = Lower(c, sid, height)
  PROVE  /\ Restacked(r, c) /\ r.top = c.top /\ Ht(r, sid) = height
         /\ \A u \in Slots \ {sid} :
              Ht(r, u) = IF height <= Ht(c, u) /\ Ht(c, u) < old THEN Ht(c, u) + 1 ELSE Ht(c, u)
<1> PICK q : q = Shift(c, (height + 1)..old, -1) OBVIOUS
<1>1. \A h \in (height + 1)..old : h \in Slots /\ h + (-1) \in 0..c.top
  BY StackTyped DEF Slots
<1>2. Shifted(q, c, height + 1, old, -1)
  <2>1. PICK a \in Int : a = height + 1 OBVIOUS
  <2>2. PICK d \in {-1, 1} : d = -1 OBVIOUS
  <2>3. PICK b \in Int : b = old OBVIOUS
  <2>4. /\ q = Shift(c, a..b, d)
        /\ \A h \in a..b : h \in Slots /\ h + d \in 0..c.top
    BY <1>1, <2>1, <2>2, <2>3
  <2>5. Shifted(q, c, a, b, d) BY <2>1, <2>2, <2>3, <2>4, ShiftIs
  <2> QED BY <2>1, <2>2, <2>3, <2>5
<1>3. r = PutAt(q, sid, height) BY Zenon DEF Lower, Ht
<1>4. height \in Slots BY StackTyped DEF Slots
<1>5. PutThere(r, q, sid, height)
  <2>1. IsCtl(q) BY <1>2 DEF Shifted
  <2> QED BY <1>3, <1>4, <2>1, PutAtIs
<1>6. /\ Ht(r, sid) = height
      /\ \A u \in Slots \ {sid} :
           Ht(r, u) = IF height <= Ht(c, u) /\ Ht(c, u) < old THEN Ht(c, u) + 1 ELSE Ht(c, u)
  <2>1. Ht(r, sid) = height BY <1>5 DEF PutThere
  <2>2. ASSUME NEW u \in Slots \ {sid}
        PROVE  Ht(r, u) = IF height <= Ht(c, u) /\ Ht(c, u) < old THEN Ht(c, u) + 1 ELSE Ht(c, u)
    <3>1. Ht(r, u) = Ht(q, u) BY <1>5 DEF PutThere
    <3>2. Ht(q, u) = IF Ht(c, u) >= 0 /\ Ht(c, u) - (-1) \in (height + 1)..old
                       THEN Ht(c, u) - (-1) ELSE Ht(c, u)
      BY <1>2 DEF Shifted
    <3>3. Ht(c, u) \in Int BY StackTyped
    <3> QED BY <3>1, <3>2, <3>3
  <2> QED BY <2>1, <2>2
<1>7. \A h \in Slots : r.sheets[h] = IF h = height THEN sid
                                      ELSE IF height < h /\ h <= old THEN c.sheets[h - 1]
                                      ELSE c.sheets[h]
  BY <1>2, <1>5 DEF Slots, Shifted, PutThere
<1>8. IsStack(r)
  <2>1. r.top \in -1..(MAX_SHEETS - 1) BY <1>2, <1>5 DEF IsStack, Shifted, PutThere
  <2>2. ASSUME NEW h \in 0..c.top
        PROVE  r.sheets[h] \in Slots /\ Ht(r, r.sheets[h]) = h
    <3>1. h \in Slots BY StackTyped
    <3>2. CASE h = height BY <1>6, <1>7, <3>1, <3>2
    <3>3. CASE height < h /\ h <= old
      <4>1. c.sheets[h - 1] \in Slots /\ Ht(c, c.sheets[h - 1]) = h - 1
        BY <3>3, StackTyped DEF IsStack
      <4>2. PICK u \in Slots : u = c.sheets[h - 1] BY <4>1
      <4>3. u # sid /\ r.sheets[h] = u BY <1>7, <3>1, <3>3, <4>1, <4>2
      <4> QED BY <1>6, <3>1, <3>3, <4>1, <4>2, <4>3
    <3>4. CASE ~(height <= h /\ h <= old)
      <4>1. c.sheets[h] \in Slots /\ Ht(c, c.sheets[h]) = h BY DEF IsStack
      <4>2. PICK u \in Slots : u = c.sheets[h] BY <4>1
      <4>3. u # sid /\ r.sheets[h] = u BY <1>7, <3>1, <3>4, <4>1, <4>2
      <4> QED BY <1>6, <3>1, <3>4, <4>1, <4>2, <4>3
    <3> QED BY <3>2, <3>3, <3>4
  <2>3. ASSUME NEW s \in Slots
        PROVE  Ht(r, s) \in -1..c.top /\ (Ht(r, s) >= 0 => r.sheets[Ht(r, s)] = s)
    <3>1. Ht(c, s) \in -1..c.top /\ (Ht(c, s) >= 0 => c.sheets[Ht(c, s)] = s) BY DEF IsStack
    <3>2. s # sid => Ht(c, s) # old BY StackTyped
    <3>3. CASE s = sid BY <1>4, <1>6, <1>7, <3>3, StackTyped
    <3>4. CASE s # sid
      <4>1. PICK k \in -1..c.top : k = Ht(c, s) BY <3>1
      <4>2. PICK l \in Int : l = Ht(r, s) BY <1>6, <3>4, <4>1
      <4>3. l \in -1..c.top /\ l # height
        <5>1. l = IF height <= k /\ k < old THEN k + 1 ELSE k BY <1>6, <3>4, <4>1, <4>2
        <5>2. k # old /\ c.top \in Int /\ old <= c.top BY <3>2, <3>4, <4>1, StackTyped
        <5> QED BY <4>1, <5>1, <5>2
      <4>4. l >= 0 => r.sheets[l] = s
        <5>1. l >= 0 => l \in Slots BY <4>3, StackTyped
        <5> QED BY <1>6, <1>7, <3>1, <3>2, <3>4, <4>1, <4>2, <4>3, <5>1
      <4> QED BY <4>2, <4>3, <4>4
    <3> QED BY <3>3, <3>4
  <2> QED BY <1>2, <1>5, <2>1, <2>2, <2>3 DEF IsStack, Shifted, PutThere
<1>9. \A s \in Slots : Alike(r.sheets0[s], c.sheets0[s])
  BY <1>2, <1>5, AlikeTwice DEF Shifted, PutThere
<1> QED BY <1>2, <1>5, <1>6, <1>8, <1>9 DEF Restacked, Shifted, PutThere

\* sheet_updown, "higher than before" and visible before: the sheets between go down by one.
LEMMA RaiseIs ==
  ASSUME NEW c, IsCtl(c), IsStack(c), NEW sid \in Slots, NEW height \in Nat, height <= c.top,
         NEW old \in Nat, old = Ht(c, sid), old < height, NEW r, r = Raise(c, sid, height)
  PROVE  /\ Restacked(r, c) /\ r.top = c.top /\ Ht(r, sid) = height
         /\ \A u \in Slots \ {sid} :
              Ht(r, u) = IF old < Ht(c, u) /\ Ht(c, u) <= height THEN Ht(c, u) - 1 ELSE Ht(c, u)
<1> PICK q : q = Shift(c, old..(height - 1), 1) OBVIOUS
<1>1. \A h \in old..(height - 1) : h \in Slots /\ h + 1 \in 0..c.top
  BY StackTyped DEF Slots
<1>2. Shifted(q, c, old, height - 1, 1)
  <2>1. PICK b \in Int, d \in {-1, 1} : b = height - 1 /\ d = 1 OBVIOUS
  <2> QED BY <1>1, <2>1, ShiftIs
<1>3. r = PutAt(q, sid, height) BY Zenon DEF Raise, Ht
<1>4. height \in Slots BY StackTyped DEF Slots
<1>5. PutThere(r, q, sid, height)
  <2>1. IsCtl(q) BY <1>2 DEF Shifted
  <2> QED BY <1>3, <1>4, <2>1, PutAtIs
<1>6. /\ Ht(r, sid) = height
      /\ \A u \in Slots \ {sid} :
           Ht(r, u) = IF old < Ht(c, u) /\ Ht(c, u) <= height THEN Ht(c, u) - 1 ELSE Ht(c, u)
  <2>1. Ht(r, sid) = height BY <1>5 DEF PutThere
  <2>2. ASSUME NEW u \in Slots \ {sid}
        PROVE  Ht(r, u) = IF old < Ht(c, u) /\ Ht(c, u) <= height THEN Ht(c, u) - 1 ELSE Ht(c, u)
    <3>1. PICK k \in Int : k = Ht(c, u) BY StackTyped
    <3>2. Ht(q, u) = IF k >= 0 /\ k - 1 \in old..(height - 1) THEN k - 1 ELSE k
      BY <1>2, <3>1 DEF Shifted
    <3>3. Ht(r, u) = Ht(q, u) BY <1>5 DEF PutThere
    <3> QED BY <3>1, <3>2, <3>3
  <2> QED BY <2>1, <2>2
<1>7. \A h \in Slots : r.sheets[h] = IF h = height THEN sid
                                      ELSE IF old <= h /\ h < height THEN c.sheets[h + 1]
                                      ELSE c.sheets[h]
  BY <1>2, <1>5 DEF Slots, Shifted, PutThere
<1>8. IsStack(r)
  <2>1. r.top \in -1..(MAX_SHEETS - 1) BY <1>2, <1>5 DEF IsStack, Shifted, PutThere
  <2>2. ASSUME NEW h \in 0..c.top
        PROVE  r.sheets[h] \in Slots /\ Ht(r, r.sheets[h]) = h
    <3>1. h \in Slots BY StackTyped
    <3>2. CASE h = height BY <1>6, <1>7, <3>1, <3>2
    <3>3. CASE old <= h /\ h < height
      <4>1. c.sheets[h + 1] \in Slots /\ Ht(c, c.sheets[h + 1]) = h + 1
        BY <3>3, StackTyped DEF IsStack
      <4>2. PICK u \in Slots : u = c.sheets[h + 1] BY <4>1
      <4>3. u # sid /\ r.sheets[h] = u BY <1>7, <3>1, <3>3, <4>1, <4>2
      <4> QED BY <1>6, <3>1, <3>3, <4>1, <4>2, <4>3
    <3>4. CASE ~(old <= h /\ h <= height)
      <4>1. c.sheets[h] \in Slots /\ Ht(c, c.sheets[h]) = h BY DEF IsStack
      <4>2. PICK u \in Slots : u = c.sheets[h] BY <4>1
      <4>3. u # sid /\ r.sheets[h] = u BY <1>7, <3>1, <3>4, <4>1, <4>2
      <4> QED BY <1>6, <3>1, <3>4, <4>1, <4>2, <4>3
    <3> QED BY <3>2, <3>3, <3>4
  <2>3. ASSUME NEW s \in Slots
        PROVE  Ht(r, s) \in -1..c.top /\ (Ht(r, s) >= 0 => r.sheets[Ht(r, s)] = s)
    <3>1. Ht(c, s) \in -1..c.top /\ (Ht(c, s) >= 0 => c.sheets[Ht(c, s)] = s) BY DEF IsStack
    <3>2. s # sid => Ht(c, s) # old BY StackTyped
    <3>3. CASE s = sid BY <1>4, <1>6, <1>7, <3>3, StackTyped
    <3>4. CASE s # sid
      <4>1. PICK k \in -1..c.top : k = Ht(c, s) BY <3>1
      <4>2. PICK l \in Int : l = Ht(r, s) BY <1>6, <3>4, <4>1
      <4>3. l \in -1..c.top /\ l # height
        <5>1. l = IF old < k /\ k <= height THEN k - 1 ELSE k BY <1>6, <3>4, <4>1, <4>2
        <5>2. k # old /\ c.top \in Int BY <3>2, <3>4, <4>1, StackTyped
        <5> QED BY <4>1, <5>1, <5>2
      <4>4. l >= 0 => r.sheets[l] = s
        <5>1. l >= 0 => l \in Slots BY <4>3, StackTyped
        <5> QED BY <1>6, <1>7, <3>1, <3>2, <3>4, <4>1, <4>2, <4>3, <5>1
      <4> QED BY <4>2, <4>3, <4>4
    <3> QED BY <3>3, <3>4
  <2> QED BY <1>2, <1>5, <2>1, <2>2, <2>3 DEF IsStack, Shifted, PutThere
<1>9. \A s \in Slots : Alike(r.sheets0[s], c.sheets0[s])
  BY <1>2, <1>5, AlikeTwice DEF Shifted, PutThere
<1> QED BY <1>2, <1>5, <1>6, <1>8, <1>9 DEF Restacked, Shifted, PutThere

\* Only top is assigned.
LEMMA TopAtIs ==
  ASSUME NEW c, IsCtl(c), NEW t \in Int, NEW r, r = [c EXCEPT !.top = t]
  PROVE  /\ IsCtl(r) /\ r.top = t /\ r.map = c.map /\ r.sheets = c.sheets /\ r.sheets0 = c.sheets0
         /\ r.vram = c.vram
<1>1. r = Ctl(t, c.sheets, c.map, c.vram, c.sheets0) BY DEF IsCtl, Ctl
<1>2. /\ r.top = t /\ r.sheets = c.sheets /\ r.map = c.map /\ r.vram = c.vram
      /\ r.sheets0 = c.sheets0
  BY <1>1, CtlFields
<1> QED BY <1>1, <1>2 DEF IsCtl

\* sheet_updown, from hidden to visible: the sheets above go up by one.
LEMMA ShowIs ==
  ASSUME NEW c, IsCtl(c), IsStack(c), NEW sid \in Slots, Ht(c, sid) = -1,
         c.top + 1 < MAX_SHEETS, NEW height \in Nat, height <= c.top + 1,
         NEW r, r = Show(c, sid, height)
  PROVE  /\ Restacked(r, c) /\ r.top = c.top + 1 /\ Ht(r, sid) = height
         /\ \A u \in Slots \ {sid} :
              Ht(r, u) = IF height <= Ht(c, u) THEN Ht(c, u) + 1 ELSE Ht(c, u)
<1> PICK q : q = Shift(c, (height + 1)..(c.top + 1), -1) OBVIOUS
<1> PICK e : e = PutAt(q, sid, height) OBVIOUS
<1>1. \A h \in (height + 1)..(c.top + 1) : h \in Slots /\ h + (-1) \in 0..c.top
  BY StackTyped DEF Slots
<1>2. Shifted(q, c, height + 1, c.top + 1, -1)
  <2>1. PICK a \in Int : a = height + 1 OBVIOUS
  <2>2. PICK b \in Int : b = c.top + 1 BY StackTyped
  <2>3. PICK d \in {-1, 1} : d = -1 OBVIOUS
  <2>4. /\ q = Shift(c, a..b, d)
        /\ \A h \in a..b : h \in Slots /\ h + d \in 0..c.top
    BY <1>1, <2>1, <2>2, <2>3
  <2>5. Shifted(q, c, a, b, d) BY <2>1, <2>2, <2>3, <2>4, ShiftIs
  <2> QED BY <2>1, <2>2, <2>3, <2>5
<1>3. r = [e EXCEPT !.top = e.top + 1] BY Zenon DEF Show
<1>4. height \in Slots BY StackTyped DEF Slots
<1>5. PutThere(e, q, sid, height)
  <2>1. IsCtl(q) BY <1>2 DEF Shifted
  <2> QED BY <1>4, <2>1, PutAtIs
<1>6. e.top = c.top /\ IsCtl(e) /\ c.top \in Int BY <1>2, <1>5, StackTyped DEF Shifted, PutThere
<1>7. /\ IsCtl(r) /\ r.top = c.top + 1 /\ r.map = e.map /\ r.sheets = e.sheets
      /\ r.sheets0 = e.sheets0 /\ r.vram = e.vram
  <2>1. PICK t \in Int : t = c.top + 1 BY <1>6
  <2>2. r = [e EXCEPT !.top = t] BY <1>3, <1>6, <2>1
  <2> QED BY <1>6, <2>1, <2>2, TopAtIs
<1>8. /\ Ht(r, sid) = height
      /\ \A u \in Slots \ {sid} :
           Ht(r, u) = IF height <= Ht(c, u) THEN Ht(c, u) + 1 ELSE Ht(c, u)
  <2>1. Ht(r, sid) = height BY <1>5, <1>7 DEF PutThere, Ht
  <2>2. ASSUME NEW u \in Slots \ {sid}
        PROVE  Ht(r, u) = IF height <= Ht(c, u) THEN Ht(c, u) + 1 ELSE Ht(c, u)
    <3>1. Ht(r, u) = Ht(q, u) BY <1>5, <1>7 DEF PutThere, Ht
    <3>2. Ht(q, u) = IF Ht(c, u) >= 0 /\ Ht(c, u) - (-1) \in (height + 1)..(c.top + 1)
                       THEN Ht(c, u) - (-1) ELSE Ht(c, u)
      BY <1>2 DEF Shifted
    <3>3. Ht(c, u) \in Int /\ Ht(c, u) <= c.top /\ c.top \in Int BY StackTyped
    <3> QED BY <3>1, <3>2, <3>3
  <2> QED BY <2>1, <2>2
<1>9. \A h \in Slots : r.sheets[h] = IF h = height THEN sid
                                      ELSE IF height < h /\ h <= c.top + 1 THEN c.sheets[h - 1]
                                      ELSE c.sheets[h]
  BY <1>2, <1>5, <1>6, <1>7 DEF Slots, Shifted, PutThere
<1>10. IsStack(r)
  <2>1. r.top \in -1..(MAX_SHEETS - 1) BY <1>7, StackTyped
  <2>2. ASSUME NEW h \in 0..(c.top + 1)
        PROVE  r.sheets[h] \in Slots /\ Ht(r, r.sheets[h]) = h
    <3>1. h \in Slots BY StackTyped DEF Slots
    <3>2. CASE h = height BY <1>8, <1>9, <3>1, <3>2
    <3>3. CASE height < h
      <4>0. PICK g \in 0..c.top : g = h - 1 BY <1>6, <3>3
      <4>1. c.sheets[h - 1] \in Slots /\ Ht(c, c.sheets[h - 1]) = h - 1
        BY <4>0 DEF IsStack
      <4>2. PICK u \in Slots : u = c.sheets[h - 1] BY <4>1
      <4>3. u # sid /\ r.sheets[h] = u BY <1>6, <1>9, <3>1, <3>3, <4>1, <4>2
      <4> QED BY <1>8, <3>1, <3>3, <4>1, <4>2, <4>3
    <3>4. CASE h < height
      <4>1. c.sheets[h] \in Slots /\ Ht(c, c.sheets[h]) = h BY <1>6, <3>4 DEF IsStack
      <4>2. PICK u \in Slots : u = c.sheets[h] BY <4>1
      <4>3. u # sid /\ r.sheets[h] = u BY <1>9, <3>1, <3>4, <4>1, <4>2
      <4> QED BY <1>8, <3>1, <3>4, <4>1, <4>2, <4>3
    <3> QED BY <1>6, <3>2, <3>3, <3>4
  <2>3. ASSUME NEW s \in Slots
        PROVE  Ht(r, s) \in -1..(c.top + 1) /\ (Ht(r, s) >= 0 => r.sheets[Ht(r, s)] = s)
    <3>1. Ht(c, s) \in -1..c.top /\ (Ht(c, s) >= 0 => c.sheets[Ht(c, s)] = s) BY DEF IsStack
    <3>2. CASE s = sid BY <1>4, <1>6, <1>8, <1>9, <3>2, StackTyped
    <3>3. CASE s # sid
      <4>1. PICK k \in -1..c.top : k = Ht(c, s) BY <3>1
      <4>2. PICK l \in Int : l = Ht(r, s) BY <1>8, <3>3, <4>1
      <4>3. l \in -1..(c.top + 1) /\ l # height
        <5>1. l = IF height <= k THEN k + 1 ELSE k BY <1>8, <3>3, <4>1, <4>2
        <5>2. c.top \in Int BY StackTyped
        <5> QED BY <4>1, <5>1, <5>2
      <4>4. l >= 0 => r.sheets[l] = s
        <5>1. l >= 0 => l \in Slots BY <1>6, <4>3, StackTyped DEF Slots
        <5> QED BY <1>6, <1>8, <1>9, <3>1, <3>3, <4>1, <4>2, <4>3, <5>1
      <4> QED BY <4>2, <4>3, <4>4
    <3> QED BY <3>2, <3>3
  <2> QED BY <1>7, <2>1, <2>2, <2>3 DEF IsStack
<1>11. \A s \in Slots : Alike(r.sheets0[s], c.sheets0[s])
  BY <1>2, <1>5, <1>7, AlikeTwice DEF Shifted, PutThere
<1>12. r.map = c.map /\ r.vram = c.vram BY <1>2, <1>5, <1>7 DEF Shifted, PutThere
<1> QED BY <1>7, <1>8, <1>10, <1>11, <1>12 DEF Restacked

\* sheet_updown, to hidden: the sheets above go down by one.
LEMMA HideIs ==
  ASSUME NEW c, IsCtl(c), IsStack(c), NEW sid \in Slots, NEW old \in Nat, old = Ht(c, sid),
         NEW r, r = Hide(c, sid)
  PROVE  /\ Restacked(r, c) /\ r.top = c.top - 1 /\ Ht(r, sid) = -1
         /\ \A u \in Slots \ {sid} :
              Ht(r, u) = IF old < Ht(c, u) THEN Ht(c, u) - 1 ELSE Ht(c, u)
<1> PICK q : q = Shift(c, old..(c.top - 1), 1) OBVIOUS
<1>1. \A h \in old..(c.top - 1) : h \in Slots /\ h + 1 \in 0..c.top
  BY StackTyped DEF Slots
<1>2. Shifted(q, c, old, c.top - 1, 1)
  <2>1. PICK b \in Int : b = c.top - 1 BY StackTyped
  <2>2. PICK d \in {-1, 1} : d = 1 OBVIOUS
  <2>3. PICK a \in Int : a = old OBVIOUS
  <2>4. /\ q = Shift(c, a..b, d)
        /\ \A h \in a..b : h \in Slots /\ h + d \in 0..c.top
    BY <1>1, <2>1, <2>2, <2>3
  <2>5. Shifted(q, c, a, b, d) BY <2>1, <2>2, <2>3, <2>4, ShiftIs
  <2> QED BY <2>1, <2>2, <2>3, <2>5
<1>3. r = [q EXCEPT !.top = @ - 1, !.sheets0[sid].height = -1] BY Zenon DEF Hide, Ht
<1>4. PICK t : t = [q.sheets0[sid] EXCEPT !.height = -1] OBVIOUS
<1>5. IsSht(t) /\ t.height = -1 /\ Alike(t, q.sheets0[sid])
  <2>1. IsSht(q.sheets0[sid]) BY <1>2 DEF Shifted, IsCtl
  <2>2. PICK m \in Int : m = -1 OBVIOUS
  <2> QED BY <1>4, <2>1, <2>2, AtHeight
<1>6. IsCtl(q) /\ q.top = c.top /\ q.map = c.map /\ q.vram = c.vram /\ c.top \in Int
  BY <1>2, StackTyped DEF Shifted
<1>7. PICK z : z = [q.sheets0 EXCEPT ![sid] = t] OBVIOUS
<1>8. r = Ctl(c.top - 1, q.sheets, q.map, q.vram, z)
  <2>1. PICK n : n = c.top - 1 OBVIOUS
  <2>2. r = [q EXCEPT !.top = n, !.sheets0 = z]
    BY <1>3, <1>4, <1>6, <1>7, <2>1 DEF IsCtl, Ctl
  <2>3. q = Ctl(q.top, q.sheets, q.map, q.vram, q.sheets0) BY <1>6 DEF IsCtl
  <2>4. r = Ctl(n, q.sheets, q.map, q.vram, z) BY <2>2, <2>3 DEF Ctl
  <2> QED BY <2>1, <2>4
<1>9. /\ r.top = c.top - 1 /\ r.sheets = q.sheets /\ r.map = q.map /\ r.vram = q.vram
      /\ r.sheets0 = z
  BY <1>8, CtlFields
<1>10. /\ z = [s \in Slots |-> z[s]]
       /\ \A s \in Slots : z[s] = IF s = sid THEN t ELSE q.sheets0[s]
  BY <1>6, <1>7 DEF IsCtl
<1>11. IsCtl(r)
  <2>1. \A s \in Slots : IsSht(z[s]) BY <1>5, <1>6, <1>10 DEF IsCtl
  <2>2. /\ q.sheets \in [Slots -> Slots \cup {NoSheet}]
        /\ q.map \in [Pixels -> Slots \cup {NoSheet}] /\ c.top - 1 \in Int
        /\ q.vram = [p \in Pixels |-> q.vram[p]]
    BY <1>6 DEF IsCtl
  <2> QED BY <1>8, <1>9, <1>10, <2>1, <2>2, Zenon DEF IsCtl
<1>12. Ht(r, sid) = -1 BY <1>5, <1>9, <1>10 DEF Ht
<1>13. ASSUME NEW u \in Slots \ {sid}
       PROVE  Ht(r, u) = IF old < Ht(c, u) THEN Ht(c, u) - 1 ELSE Ht(c, u)
  <2>1. Ht(r, u) = Ht(q, u) BY <1>9, <1>10 DEF Ht
  <2>2. Ht(q, u) = IF Ht(c, u) >= 0 /\ Ht(c, u) - 1 \in old..(c.top - 1)
                     THEN Ht(c, u) - 1 ELSE Ht(c, u)
    BY <1>2 DEF Shifted
  <2>3. Ht(c, u) \in Int /\ Ht(c, u) <= c.top BY StackTyped
  <2> QED BY <1>6, <2>1, <2>2, <2>3
<1>14. \A h \in Slots : r.sheets[h] = IF old <= h /\ h < c.top THEN c.sheets[h + 1] ELSE c.sheets[h]
  BY <1>2, <1>6, <1>9 DEF Slots, Shifted
<1>15. IsStack(r)
  <2>1. r.top \in -1..(MAX_SHEETS - 1) BY <1>6, <1>9, StackTyped
  <2>2. ASSUME NEW h \in 0..(c.top - 1)
        PROVE  r.sheets[h] \in Slots /\ Ht(r, r.sheets[h]) = h
    <3>1. h \in Slots BY StackTyped DEF Slots
    <3>2. CASE old <= h
      <4>1. c.sheets[h + 1] \in Slots /\ Ht(c, c.sheets[h + 1]) = h + 1
        BY <3>2, StackTyped DEF IsStack
      <4>2. PICK u \in Slots : u = c.sheets[h + 1] BY <4>1
      <4>3. u # sid /\ r.sheets[h] = u BY <1>6, <1>14, <3>1, <3>2, <4>1, <4>2
      <4> QED BY <1>13, <3>1, <3>2, <4>1, <4>2, <4>3
    <3>3. CASE h < old
      <4>1. c.sheets[h] \in Slots /\ Ht(c, c.sheets[h]) = h BY <1>6, <3>3 DEF IsStack
      <4>2. PICK u \in Slots : u = c.sheets[h] BY <4>1
      <4>3. u # sid /\ r.sheets[h] = u BY <1>14, <3>1, <3>3, <4>1, <4>2
      <4> QED BY <1>13, <3>1, <3>3, <4>1, <4>2, <4>3
    <3> QED BY <3>2, <3>3
  <2>3. ASSUME NEW s \in Slots
        PROVE  Ht(r, s) \in -1..(c.top - 1) /\ (Ht(r, s) >= 0 => r.sheets[Ht(r, s)] = s)
    <3>1. Ht(c, s) \in -1..c.top /\ (Ht(c, s) >= 0 => c.sheets[Ht(c, s)] = s) BY DEF IsStack
    <3>2. s # sid => Ht(c, s) # old BY StackTyped
    <3>3. old <= c.top BY StackTyped
    <3>4. CASE s = sid BY <1>6, <1>12, <3>3, <3>4
    <3>5. CASE s # sid
      <4>1. PICK k \in -1..c.top : k = Ht(c, s) BY <3>1
      <4>2. PICK l \in Int : l = Ht(r, s) BY <1>13, <3>5, <4>1
      <4>3. l \in -1..(c.top - 1) BY <1>6, <1>13, <3>2, <3>3, <3>5, <4>1, <4>2
      <4>4. l >= 0 => r.sheets[l] = s
        <5>1. l >= 0 => l \in Slots BY <1>6, <4>3, StackTyped DEF Slots
        <5> QED BY <1>6, <1>13, <1>14, <3>1, <3>2, <3>5, <4>1, <4>2, <4>3, <5>1
      <4> QED BY <4>2, <4>3, <4>4
    <3> QED BY <3>4, <3>5
  <2> QED BY <1>9, <2>1, <2>2, <2>3 DEF IsStack
<1>16. ASSUME NEW s \in Slots PROVE Alike(r.sheets0[s], c.sheets0[s])
  <2>1. Alike(q.sheets0[s], c.sheets0[s]) BY <1>2 DEF Shifted
  <2>2. CASE s = sid BY <1>5, <1>9, <1>10, <2>1, <2>2, AlikeTwice
  <2>3. CASE s # sid BY <1>9, <1>10, <2>1, <2>3
  <2> QED BY <2>2, <2>3
<1> QED BY <1>6, <1>9, <1>11, <1>12, <1>13, <1>15, <1>16 DEF Restacked
-----------------------------------------------------------------------------
(* The map stays right *)

\* A sheet from h0 up shows something at p.
ShownFrom(c, h0, p) == \E u \in Slots : Ht(c, u) >= h0 /\ Sees(c, u, p)

\* sheet_refreshmap and sheet_refreshsub make the map right, if it is right where they
\* leave it alone.
LEMMA Redraw ==
  ASSUME NEW d, IsCtl(d), IsStack(d), NEW area, NEW h0 \in Nat, NEW k,
         \A p \in Pixels :
           ~(Within(area, X(p), Y(p)) /\ ShownFrom(d, h0, p)) => TopAt(d, p, d.map[p]),
         NEW r, r = Redrawn(d, area, h0, k)
  PROVE  IsCtl(r) /\ Kept(r, d) /\ MapIs(r)
<1> PICK e : e = sheet_refreshmap(d, area, h0) OBVIOUS
<1>1. /\ IsCtl(e) /\ Kept(e, d)
      /\ \A p \in Pixels :
           IF Within(area, X(p), Y(p)) /\ ShownFrom(d, h0, p)
             THEN TopAt(d, p, e.map[p]) ELSE e.map[p] = d.map[p]
  BY RefreshMap DEF ShownFrom
<1>2. IsCtl(r) /\ Kept(r, e) /\ r.map = e.map BY <1>1, RefreshSub DEF Redrawn
<1>3. Kept(r, d) BY <1>1, <1>2 DEF Kept
<1>4. ASSUME NEW p \in Pixels PROVE TopAt(r, p, r.map[p])
  <2>1. TopAt(d, p, r.map[p]) BY <1>1, <1>2
  <2> QED BY <1>3, <2>1 DEF TopAt, Kept, Ht, Sees
<1> QED BY <1>2, <1>3, <1>4 DEF MapIs

\* Where the stack is kept, it stays consistent and the heights are the same.
LEMMA Kept1 ==
  ASSUME NEW r, NEW d, Kept(r, d), IsStack(d) PROVE IsStack(r) /\ \A s : Ht(r, s) = Ht(d, s)
BY DEF Kept, IsStack, Ht

\* What is kept over two steps is kept.
LEMMA KeptTwice ==
  ASSUME NEW r, NEW e, NEW d, Kept(r, e), Kept(e, d) PROVE Kept(r, d)
BY DEF Kept

\* Where the stack and the map are kept, the map stays right.
LEMMA KeptMap ==
  ASSUME NEW r, NEW d, Kept(r, d), r.map = d.map, MapIs(d) PROVE MapIs(r)
<1>1. r.sheets0 = d.sheets0 BY DEF Kept
<1>2. ASSUME NEW p, NEW s, TopAt(d, p, s) PROVE TopAt(r, p, s)
  BY <1>1, <1>2, Zenon DEF TopAt, Ht, Sees
<1> QED BY <1>2 DEF MapIs

\* The sheets of d and c show something at the same pixels.
RestackedSees(d, c) ==
  \A s \in Slots : \A p : Sees(d, s, p) <=> Sees(c, s, p)

\* A sheet shows the same pixels after it was put at another height.
LEMMA RestackedSame ==
  ASSUME NEW d, NEW c, Restacked(d, c) PROVE RestackedSees(d, c)
BY AlikeSees DEF Restacked, RestackedSees, Sees

\* The background fills the screen and lies at its corner, the others are three pixels
\* narrower than it.
Sound(c) ==
  /\ c.sheets0[sht_back].vx0 = 0 /\ c.sheets0[sht_back].bxsize = xsize
  /\ \A s \in Slots \ {sht_back} : c.sheets0[s].bxsize + 3 <= xsize

\* The sheets other than sid are in the stack as they were, in the same order.
InOrder(r, c, sid) ==
  \A u, v \in Slots \ {sid} :
    Ht(r, u) >= 0 /\ Ht(r, u) <= Ht(r, v) <=> Ht(c, u) >= 0 /\ Ht(c, u) <= Ht(c, v)

\* If the sheet on top of the others changes somewhere from s to u, then sid is one of the
\* two, and u is at one of the heights that are redrawn.
Uncovers(d, c, sid, h0, k) ==
  \A s, u \in Slots :
    /\ s # u /\ Ht(c, s) >= 0 /\ (Ht(c, u) >= 0 => Ht(c, u) <= Ht(c, s))
    /\ Ht(d, u) >= 0 /\ (Ht(d, s) >= 0 => Ht(d, s) <= Ht(d, u))
    => sid \in {s, u} /\ Ht(d, u) \in h0..k

\* All of the screen and all visible sheets are redrawn.
AllAnew(d, area, h0, k) ==
  \A p \in Pixels, u \in Slots :
    Ht(d, u) >= 0 => Within(area, X(p), Y(p)) /\ Ht(d, u) \in h0..k

\* Sheets that differ only in their height lie at the same place and look the same.
LEMMA RestackedLooks ==
  ASSUME NEW d, NEW c, Restacked(d, c)
  PROVE  /\ \A s \in Slots, p \in Pixels : Look(d, s, p) = Look(c, s, p)
         /\ \A s \in Slots : AreaOf(d.sheets0[s]) = AreaOf(c.sheets0[s])
<1>1. \A s \in Slots : Alike(d.sheets0[s], c.sheets0[s]) BY DEF Restacked
<1>2. \A s \in Slots, p \in Pixels : Look(d, s, p) = Look(c, s, p)
  BY <1>1 DEF Look, BufAt, Alike
<1> QED BY <1>1, <1>2, AlikeSees

\* The place of a sheet on the screen
LEMMA AreaIs ==
  ASSUME NEW t, IsSht(t), NEW a, a = AreaOf(t)
  PROVE  IsArea(a) /\ a.x0 <= a.x1 /\ a.x0 = t.vx0
<1>1. PICK x \in Int, y \in Int, w \in Nat, h \in Nat :
        t.vx0 = x /\ t.vy0 = y /\ t.bxsize = w /\ t.bysize = h
  BY DEF IsSht
<1>2. a = Rect(x, y, x + w, y + h) BY <1>1 DEF AreaOf
<1>3. PICK x1 \in Int, y1 \in Int : x1 = x + w /\ y1 = y + h OBVIOUS
<1>4. IsArea(a) /\ a.x0 = x /\ a.x1 = x1 BY <1>2, <1>3, RectIs
<1> QED BY <1>1, <1>3, <1>4

\* All that is drawn in an area that is not empty, fits.
LEMMA AllFits ==
  ASSUME NEW area, IsArea(area), area.x0 <= area.x1, NEW t, IsSht(t) PROVE Fits(area, t)
BY DEF IsArea, IsSht, Fits

\* In a sound scene every sheet fits the lines of the screen.
LEMMA SoundFits ==
  ASSUME NEW c, Sound(c), NEW s \in Slots PROVE FitsLine(c.sheets0[s])
BY DEF Sound, FitsLine

\* When the stack is changed and redrawn, the screen stays right.
LEMMA RedrawnVram ==
  ASSUME NEW c, IsCtl(c), Sound(c), NEW sid \in Slots,
         NEW area, area = AreaOf(c.sheets0[sid]), NEW d, Restacked(d, c),
         NEW h0 \in Nat, NEW k \in Int, k <= d.top,
         \/ MapIs(c) /\ VramIs(c) /\ Uncovers(d, c, sid, h0, k)
         \/ AllAnew(d, area, h0, k),
         NEW r, r = Redrawn(d, area, h0, k), Kept(r, d), MapIs(r)
  PROVE  VramIs(r)
<1> PICK e : e = sheet_refreshmap(d, area, h0) OBVIOUS
<1>1. IsCtl(e) /\ Kept(e, d) /\ e.vram = d.vram BY RefreshMap DEF Restacked
<1>2. r = sheet_refreshsub(e, area, h0, k) BY DEF Redrawn
<1>3. Kept(r, e) /\ r.map = e.map BY <1>1, <1>2, RefreshSub
<1>4. IsStack(e) /\ \A s : Ht(e, s) = Ht(d, s) BY <1>1, Kept1 DEF Restacked
<1>5. /\ \A s \in Slots, p \in Pixels : Look(e, s, p) = Look(c, s, p)
      /\ \A s \in Slots, p \in Pixels : Sees(d, s, p) <=> Sees(c, s, p)
  <2>1. e.sheets0 = d.sheets0 BY <1>1 DEF Kept
  <2>2. \A s \in Slots, p \in Pixels : Look(e, s, p) = Look(d, s, p) BY <2>1 DEF Look
  <2> QED BY <2>2, RestackedLooks, RestackedSame DEF RestackedSees
<1>6. IsArea(area) /\ area.x0 <= area.x1 BY AreaIs DEF IsCtl
<1> SUFFICES ASSUME NEW p \in Pixels PROVE VramAt(r, p) BY DEF VramIs
<1>7. PICK u \in Slots : u = r.map[p] /\ TopAt(r, p, u) BY DEF MapIs, TopAt
<1>8. TopAt(d, p, u) BY <1>7, Zenon DEF TopAt, Kept, Ht, Sees
<1>9. TopAt(e, p, u) BY <1>1, <1>8, Zenon DEF TopAt, Kept, Ht, Sees
<1>10. FitsLine(e.sheets0[u])
  <2>1. FitsLine(c.sheets0[u]) BY SoundFits
  <2>2. Alike(e.sheets0[u], c.sheets0[u]) BY <1>1 DEF Kept, Restacked
  <2> QED BY <2>1, <2>2 DEF FitsLine, Alike
<1>11. /\ VramAt(e, p) => VramAt(r, p)
       /\ Within(area, X(p), Y(p)) /\ Ht(e, u) \in h0..k => VramAt(r, p)
  <2>1. u = e.map[p] BY <1>3, <1>7
  <2>2. k <= e.top BY <1>1 DEF Kept
  <2>3. Fits(area, e.sheets0[u])
    <3>1. IsSht(e.sheets0[u]) BY <1>1 DEF IsCtl
    <3> QED BY <1>6, <3>1, AllFits
  <2>4. Drawable(e, area, h0, k, p, u)
    BY <1>1, <1>4, <1>6, <1>9, <1>10, <2>1, <2>2, <2>3 DEF Drawable
  <2> QED BY <1>2, <2>4, DrawnBy, Zenon
<1>12. CASE MapIs(c) /\ VramIs(c) /\ Uncovers(d, c, sid, h0, k)
  <2>1. PICK s \in Slots : s = c.map[p] /\ TopAt(c, p, s) BY <1>12 DEF MapIs, TopAt
  <2>2. CASE s = u
    <3>1. c.vram[p] = Look(c, s, p) BY <1>12, <2>1 DEF VramIs, VramAt
    <3>2. e.vram[p] = Look(e, u, p) BY <1>1, <1>5, <2>2, <3>1 DEF Restacked
    <3>3. u = e.map[p] BY <1>3, <1>7
    <3> QED BY <1>11, <3>2, <3>3 DEF VramAt
  <2>3. CASE s # u
    <3>1. Sees(c, s, p) /\ Sees(c, u, p) /\ Sees(d, s, p) BY <1>5, <1>8, <2>1 DEF TopAt
    <3>2. /\ Ht(c, s) >= 0 /\ (Ht(c, u) >= 0 => Ht(c, u) <= Ht(c, s))
          /\ Ht(d, u) >= 0 /\ (Ht(d, s) >= 0 => Ht(d, s) <= Ht(d, u))
      BY <1>8, <2>1, <3>1 DEF TopAt
    <3>3. sid \in {s, u} /\ Ht(d, u) \in h0..k BY <1>12, <2>3, <3>2 DEF Uncovers
    <3>4. Within(area, X(p), Y(p)) BY <3>1, <3>3, ShowsInside DEF Sees
    <3> QED BY <1>4, <1>11, <3>3, <3>4
  <2> QED BY <2>2, <2>3
<1>13. CASE AllAnew(d, area, h0, k)
  <2>1. Within(area, X(p), Y(p)) /\ Ht(d, u) \in h0..k BY <1>8, <1>13 DEF AllAnew, TopAt
  <2> QED BY <1>4, <1>11, <2>1
<1> QED BY <1>12, <1>13

\* After a call that moves sid in the stack, to -1 if it is taken out.
Moves(r, c, sid, height) ==
  /\ IsCtl(r) /\ IsStack(r) /\ MapIs(r)
  /\ Sound(c) /\ (MapIs(c) => VramIs(c)) => VramIs(r)
  /\ InOrder(r, c, sid)
  /\ \A s \in Slots : Alike(r.sheets0[s], c.sheets0[s])
  /\ Ht(r, sid) = height
  /\ \A s \in Slots \ {sid} : Ht(r, s) >= 0 <=> Ht(c, s) >= 0

\* A new order of the stack, then a right map: together a move.
LEMMA MovesIs ==
  ASSUME NEW c, IsCtl(c), IsStack(c), NEW d, Restacked(d, c), NEW sid \in Slots,
         NEW height, Ht(d, sid) = height, InOrder(d, c, sid),
         NEW area, area = AreaOf(c.sheets0[sid]), NEW h0 \in Nat, NEW k \in Int, k <= d.top,
         (MapIs(c) /\ Uncovers(d, c, sid, h0, k)) \/ AllAnew(d, area, h0, k),
         NEW r, r = Redrawn(d, area, h0, k), IsCtl(r), Kept(r, d), MapIs(r)
  PROVE  Moves(r, c, sid, height)
<1>1. IsStack(r) /\ \A s : Ht(r, s) = Ht(d, s) BY Kept1 DEF Restacked
<1>2. r.sheets0 = d.sheets0 BY DEF Kept
<1>3. Sound(c) /\ (MapIs(c) => VramIs(c)) => VramIs(r) BY RedrawnVram
<1>4. InOrder(r, c, sid) BY <1>1 DEF InOrder
<1>5. \A s \in Slots \ {sid} : Ht(r, s) >= 0 <=> Ht(c, s) >= 0
  <2> SUFFICES ASSUME NEW s \in Slots \ {sid} PROVE Ht(r, s) >= 0 <=> Ht(c, s) >= 0 OBVIOUS
  <2>1. Ht(r, s) \in Int /\ Ht(c, s) \in Int BY <1>1, StackTyped
  <2> QED BY <1>4, <2>1 DEF InOrder
<1> QED BY <1>1, <1>2, <1>3, <1>4, <1>5 DEF Moves, Restacked

\* The map after a sheet was lowered: only the sheets that came over it are painted anew.
LEMMA LowerMap ==
  ASSUME NEW c, IsCtl(c), IsStack(c), MapIs(c), NEW sid \in Slots, NEW height \in Nat,
         NEW old \in Nat, old = Ht(c, sid), height < old,
         NEW area, area = AreaOf(c.sheets0[sid]), NEW r,
         r = Redrawn(Lower(c, sid, height), area, height + 1, old)
  PROVE  Moves(r, c, sid, height)
<1> PICK d : d = Lower(c, sid, height) OBVIOUS
<1>1. /\ Restacked(d, c) /\ d.top = c.top /\ Ht(d, sid) = height
      /\ \A u \in Slots \ {sid} :
           Ht(d, u) = IF height <= Ht(c, u) /\ Ht(c, u) < old THEN Ht(c, u) + 1 ELSE Ht(c, u)
  BY LowerIs
<1>2. RestackedSees(d, c) BY <1>1, RestackedSame
<1>3. IsCtl(d) /\ IsStack(d) /\ d.map = c.map BY <1>1 DEF Restacked
<1>4. ASSUME NEW p \in Pixels, ~(Within(area, X(p), Y(p)) /\ ShownFrom(d, height + 1, p))
      PROVE  TopAt(d, p, d.map[p])
  <2>1. PICK s \in Slots : s = c.map[p] /\ TopAt(c, p, s) BY DEF MapIs, TopAt
  <2>2. /\ Ht(c, s) >= 0 /\ Sees(c, s, p)
        /\ \A u \in Slots : Ht(c, u) >= 0 /\ Sees(c, u, p) => Ht(c, u) <= Ht(c, s)
    BY <2>1 DEF TopAt
  <2>3. \A u \in Slots : Sees(d, u, p) <=> Sees(c, u, p) BY <1>2 DEF RestackedSees
  <2>4. ~Sees(c, sid, p) \/ \A u \in Slots : Sees(d, u, p) => ~(Ht(d, u) >= height + 1)
    BY <1>4, ShowsInside DEF ShownFrom, Sees
  <2>5. \A u \in Slots : Ht(c, u) \in Int /\ (u # sid => Ht(c, u) # old) BY StackTyped
  <2>6. Ht(d, s) >= 0 BY <1>1, <2>2, <2>5
  <2>7. ASSUME NEW u \in Slots, Ht(d, u) >= 0, Sees(d, u, p) PROVE Ht(d, u) <= Ht(d, s)
    <3>1. Ht(c, u) >= 0 BY <1>1, <2>5, <2>7
    <3>2. Ht(c, u) <= Ht(c, s) BY <2>2, <2>3, <2>7, <3>1
    <3> QED BY <1>1, <2>2, <2>3, <2>4, <2>5, <2>7, <3>2
  <2> QED BY <1>3, <2>1, <2>2, <2>3, <2>6, <2>7 DEF TopAt
<1>5. IsCtl(r) /\ Kept(r, d) /\ MapIs(r)
  <2>1. PICK h0 \in Nat : h0 = height + 1 OBVIOUS
  <2> QED BY <1>3, <1>4, <2>1, Redraw
<1>6. InOrder(d, c, sid) BY <1>1, StackTyped DEF InOrder
<1>7. Uncovers(d, c, sid, height + 1, old) BY <1>1, StackTyped DEF Uncovers
<1>8. old <= d.top BY <1>1, StackTyped
<1> QED
  <2>1. PICK h0 \in Nat : h0 = height + 1 OBVIOUS
  <2> QED BY <1>1, <1>5, <1>6, <1>7, <1>8, <2>1, MovesIs

\* The map after a sheet was raised: only it is painted anew.
LEMMA RaiseMap ==
  ASSUME NEW c, IsCtl(c), IsStack(c), MapIs(c), NEW sid \in Slots, NEW height \in Nat,
         height <= c.top, NEW old \in Nat, old = Ht(c, sid), old < height,
         NEW area, area = AreaOf(c.sheets0[sid]), NEW r,
         r = Redrawn(Raise(c, sid, height), area, height, height)
  PROVE  Moves(r, c, sid, height)
<1> PICK d : d = Raise(c, sid, height) OBVIOUS
<1>1. /\ Restacked(d, c) /\ d.top = c.top /\ Ht(d, sid) = height
      /\ \A u \in Slots \ {sid} :
           Ht(d, u) = IF old < Ht(c, u) /\ Ht(c, u) <= height THEN Ht(c, u) - 1 ELSE Ht(c, u)
  BY RaiseIs
<1>2. RestackedSees(d, c) BY <1>1, RestackedSame
<1>3. IsCtl(d) /\ IsStack(d) /\ d.map = c.map BY <1>1 DEF Restacked
<1>4. ASSUME NEW p \in Pixels, ~(Within(area, X(p), Y(p)) /\ ShownFrom(d, height, p))
      PROVE  TopAt(d, p, d.map[p])
  <2>1. PICK s \in Slots : s = c.map[p] /\ TopAt(c, p, s) BY DEF MapIs, TopAt
  <2>2. /\ Ht(c, s) >= 0 /\ Sees(c, s, p)
        /\ \A u \in Slots : Ht(c, u) >= 0 /\ Sees(c, u, p) => Ht(c, u) <= Ht(c, s)
    BY <2>1 DEF TopAt
  <2>3. \A u \in Slots : Sees(d, u, p) <=> Sees(c, u, p) BY <1>2 DEF RestackedSees
  <2>4. ~Sees(c, sid, p) \/ \A u \in Slots : Sees(d, u, p) => ~(Ht(d, u) >= height)
    BY <1>4, ShowsInside DEF ShownFrom, Sees
  <2>5. \A u \in Slots : Ht(c, u) \in Int /\ (u # sid => Ht(c, u) # old) BY StackTyped
  <2>6. ~Sees(c, sid, p) BY <1>1, <2>3, <2>4
  <2>7. Ht(d, s) >= 0 BY <1>1, <2>2, <2>5, <2>6
  <2>8. ASSUME NEW u \in Slots, Ht(d, u) >= 0, Sees(d, u, p) PROVE Ht(d, u) <= Ht(d, s)
    <3>1. Ht(c, u) >= 0 BY <1>1, <2>5, <2>8
    <3>2. Ht(c, u) <= Ht(c, s) BY <2>2, <2>3, <2>8, <3>1
    <3> QED BY <1>1, <2>2, <2>3, <2>5, <2>6, <2>8, <3>2
  <2> QED BY <1>3, <2>1, <2>2, <2>3, <2>7, <2>8 DEF TopAt
<1>5. IsCtl(r) /\ Kept(r, d) /\ MapIs(r) BY <1>3, <1>4, Redraw
<1>6. InOrder(d, c, sid) BY <1>1, StackTyped DEF InOrder
<1>7. Uncovers(d, c, sid, height, height) BY <1>1, StackTyped DEF Uncovers
<1> QED BY <1>1, <1>5, <1>6, <1>7, MovesIs

\* The first sheet that is shown fills the screen.
FillsScreen(c, sid) == \A p \in Pixels : Sees(c, sid, p)

\* The map after a sheet was shown.
LEMMA ShowMap ==
  ASSUME NEW c, IsCtl(c), IsStack(c), NEW sid \in Slots, Ht(c, sid) = -1, c.top + 1 < MAX_SHEETS,
         NEW height \in Nat, height <= c.top + 1,
         MapIs(c) \/ (FillsScreen(c, sid) /\ height = 0 /\ c.top = -1),
         NEW area, area = AreaOf(c.sheets0[sid]), NEW r,
         r = Redrawn(Show(c, sid, height), area, height, height)
  PROVE  Moves(r, c, sid, height)
<1> PICK d : d = Show(c, sid, height) OBVIOUS
<1>1. /\ Restacked(d, c) /\ d.top = c.top + 1 /\ Ht(d, sid) = height
      /\ \A u \in Slots \ {sid} :
           Ht(d, u) = IF height <= Ht(c, u) THEN Ht(c, u) + 1 ELSE Ht(c, u)
  BY ShowIs
<1>2. RestackedSees(d, c) BY <1>1, RestackedSame
<1>3. IsCtl(d) /\ IsStack(d) /\ d.map = c.map BY <1>1 DEF Restacked
<1>4. ASSUME NEW p \in Pixels, ~(Within(area, X(p), Y(p)) /\ ShownFrom(d, height, p))
      PROVE  TopAt(d, p, d.map[p])
  <2>1. \A u \in Slots : Sees(d, u, p) <=> Sees(c, u, p) BY <1>2 DEF RestackedSees
  <2>2. ~Sees(c, sid, p) \/ \A u \in Slots : Sees(d, u, p) => ~(Ht(d, u) >= height)
    BY <1>4, ShowsInside DEF ShownFrom, Sees
  <2>3. \A u \in Slots : Ht(c, u) \in Int BY StackTyped
  <2>4. ~Sees(c, sid, p) BY <1>1, <2>1, <2>2
  <2>5. MapIs(c) BY <2>4 DEF FillsScreen
  <2>6. PICK s \in Slots : s = c.map[p] /\ TopAt(c, p, s) BY <2>5 DEF MapIs, TopAt
  <2>7. /\ Ht(c, s) >= 0 /\ Sees(c, s, p)
        /\ \A u \in Slots : Ht(c, u) >= 0 /\ Sees(c, u, p) => Ht(c, u) <= Ht(c, s)
    BY <2>6 DEF TopAt
  <2>8. Ht(d, s) >= 0 BY <1>1, <2>3, <2>4, <2>7
  <2>9. ASSUME NEW u \in Slots, Ht(d, u) >= 0, Sees(d, u, p) PROVE Ht(d, u) <= Ht(d, s)
    <3>1. Ht(c, u) >= 0 BY <1>1, <2>1, <2>3, <2>4, <2>9
    <3>2. Ht(c, u) <= Ht(c, s) BY <2>1, <2>7, <2>9, <3>1
    <3> QED BY <1>1, <2>1, <2>3, <2>4, <2>7, <2>9, <3>2
  <2> QED BY <1>3, <2>1, <2>6, <2>7, <2>8, <2>9 DEF TopAt
<1>5. IsCtl(r) /\ Kept(r, d) /\ MapIs(r) BY <1>3, <1>4, Redraw
<1>6. InOrder(d, c, sid) BY <1>1, StackTyped DEF InOrder
<1>7. (MapIs(c) /\ Uncovers(d, c, sid, height, height)) \/ AllAnew(d, area, height, height)
  <2>1. Uncovers(d, c, sid, height, height) BY <1>1, StackTyped DEF Uncovers
  <2>2. ASSUME FillsScreen(c, sid), height = 0, c.top = -1 PROVE AllAnew(d, area, height, height)
    <3> SUFFICES ASSUME NEW p \in Pixels, NEW u \in Slots, Ht(d, u) >= 0
                 PROVE  Within(area, X(p), Y(p)) /\ Ht(d, u) \in height..height
      BY DEF AllAnew
    <3>1. Within(area, X(p), Y(p)) BY <2>2, ShowsInside DEF FillsScreen, Sees
    <3>2. u = sid BY <1>1, <2>2, StackTyped
    <3> QED BY <1>1, <3>1, <3>2
  <2> QED BY <2>1, <2>2
<1>8. height <= d.top BY <1>1, StackTyped
<1> QED BY <1>1, <1>5, <1>6, <1>7, <1>8, MovesIs

\* Where a sheet is taken out, another one is seen: one fills the screen.
LEMMA HideMap ==
  ASSUME NEW c, IsCtl(c), IsStack(c), MapIs(c), NEW sid \in Slots, NEW ground \in Slots \ {sid},
         FillsScreen(c, ground), Ht(c, ground) >= 0, NEW old \in Nat, old = Ht(c, sid),
         NEW area, area = AreaOf(c.sheets0[sid]), NEW r,
         r = Redrawn(Hide(c, sid), area, 0, old - 1)
  PROVE  Moves(r, c, sid, -1)
<1> PICK d : d = Hide(c, sid) OBVIOUS
<1>1. /\ Restacked(d, c) /\ d.top = c.top - 1 /\ Ht(d, sid) = -1
      /\ \A u \in Slots \ {sid} :
           Ht(d, u) = IF old < Ht(c, u) THEN Ht(c, u) - 1 ELSE Ht(c, u)
  BY HideIs
<1>2. RestackedSees(d, c) BY <1>1, RestackedSame
<1>3. IsCtl(d) /\ IsStack(d) /\ d.map = c.map BY <1>1 DEF Restacked
<1>4. ASSUME NEW p \in Pixels, ~(Within(area, X(p), Y(p)) /\ ShownFrom(d, 0, p))
      PROVE  TopAt(d, p, d.map[p])
  <2>1. PICK s \in Slots : s = c.map[p] /\ TopAt(c, p, s) BY DEF MapIs, TopAt
  <2>2. /\ Ht(c, s) >= 0 /\ Sees(c, s, p)
        /\ \A u \in Slots : Ht(c, u) >= 0 /\ Sees(c, u, p) => Ht(c, u) <= Ht(c, s)
    BY <2>1 DEF TopAt
  <2>3. \A u \in Slots : Sees(d, u, p) <=> Sees(c, u, p) BY <1>2 DEF RestackedSees
  <2>4. ~Sees(c, sid, p) \/ \A u \in Slots : Sees(d, u, p) => ~(Ht(d, u) >= 0)
    BY <1>4, ShowsInside DEF ShownFrom, Sees
  <2>5. \A u \in Slots : Ht(c, u) \in Int /\ (u # sid => Ht(c, u) # old) BY StackTyped
  <2>6. ~Sees(c, sid, p)
    <3>1. Sees(d, ground, p) BY <2>3 DEF FillsScreen
    <3>2. Ht(d, ground) >= 0 BY <1>1, <2>5
    <3> QED BY <2>4, <3>1, <3>2
  <2>7. Ht(d, s) >= 0 BY <1>1, <2>2, <2>5, <2>6
  <2>8. ASSUME NEW u \in Slots, Ht(d, u) >= 0, Sees(d, u, p) PROVE Ht(d, u) <= Ht(d, s)
    <3>1. Ht(c, u) >= 0 BY <1>1, <2>3, <2>5, <2>6, <2>8
    <3>2. Ht(c, u) <= Ht(c, s) BY <2>2, <2>3, <2>8, <3>1
    <3> QED BY <1>1, <2>2, <2>3, <2>5, <2>6, <2>8, <3>2
  <2> QED BY <1>3, <2>1, <2>2, <2>3, <2>7, <2>8 DEF TopAt
<1>5. IsCtl(r) /\ Kept(r, d) /\ MapIs(r)
  <2>1. 0 \in Nat OBVIOUS
  <2> QED BY <1>3, <1>4, <2>1, Redraw
<1>6. InOrder(d, c, sid) BY <1>1, StackTyped DEF InOrder
<1>7. Uncovers(d, c, sid, 0, old - 1) BY <1>1, StackTyped DEF Uncovers
<1>8. old - 1 <= d.top BY <1>1, StackTyped
<1> QED
  <2>1. PICK h0 \in Nat, k \in Int : h0 = 0 /\ k = old - 1 OBVIOUS
  <2> QED BY <1>1, <1>5, <1>6, <1>7, <1>8, <2>1, MovesIs

\* sheet_updown, to a height that the stack has
LEMMA UpdownIs ==
  ASSUME NEW c, IsCtl(c), IsStack(c), NEW sid \in Slots, NEW wanted \in Int,
         -1 <= wanted, wanted <= c.top + 1,
         Ht(c, sid) >= 0 => wanted <= c.top,
         Ht(c, sid) = -1 => c.top + 1 < MAX_SHEETS,
         MapIs(c) \/ (FillsScreen(c, sid) /\ wanted = 0 /\ Ht(c, sid) = -1 /\ c.top = -1),
         wanted = -1 => \E g \in Slots \ {sid} : FillsScreen(c, g) /\ Ht(c, g) >= 0,
         NEW r, r = sheet_updown(c, sid, wanted)
  PROVE  IF wanted = Ht(c, sid) THEN r = c ELSE Moves(r, c, sid, wanted)
<1>1. c.top \in Int /\ Ht(c, sid) \in Int /\ -1 <= Ht(c, sid) BY StackTyped
<1>2. Corrected(c, wanted) = wanted
  <2>1. PICK t \in Int : t = c.top + 1 BY <1>1
  <2>2. PICK m \in Int : m = -1 OBVIOUS
  <2>3. Min({wanted, t}) = wanted BY <2>1, MinMaxOfTwo
  <2>4. Max({m, wanted}) = wanted
    <3>1. Max({m, wanted}) = IF m >= wanted THEN m ELSE wanted BY MinMaxOfTwo
    <3>2. m <= wanted BY <2>2
    <3> QED BY <3>1, <3>2
  <2> QED BY <2>1, <2>2, <2>3, <2>4 DEF Corrected
<1> PICK area : area = AreaOf(c.sheets0[sid]) OBVIOUS
<1> PICK old \in Int : old = Ht(c, sid) /\ -1 <= old BY <1>1
<1>3. r = IF old > wanted /\ wanted >= 0
            THEN Redrawn(Lower(c, sid, wanted), area, wanted + 1, old)
          ELSE IF old > wanted THEN Redrawn(Hide(c, sid), area, 0, old - 1)
          ELSE IF old < wanted /\ old >= 0
            THEN Redrawn(Raise(c, sid, wanted), area, wanted, wanted)
          ELSE IF old < wanted THEN Redrawn(Show(c, sid, wanted), area, wanted, wanted)
          ELSE c
  <2>1. c.sheets0[sid].height = old BY DEF Ht
  <2>2. r = Updown(c, sid, old, wanted, area) BY <1>2, <2>1 DEF sheet_updown
  <2> QED BY <2>2 DEF Updown
<1>4. CASE old > wanted /\ wanted >= 0
  <2>1. r = Redrawn(Lower(c, sid, wanted), area, wanted + 1, old)
    BY <1>3, <1>4
  <2>2. wanted \in Nat /\ old \in Nat /\ MapIs(c) BY <1>4
  <2> QED BY <1>4, <2>1, <2>2, LowerMap
<1>5. CASE old > wanted /\ ~(wanted >= 0)
  <2>1. r = Redrawn(Hide(c, sid), area, 0, old - 1)
    BY <1>3, <1>5
  <2>2. wanted = -1 /\ old \in Nat /\ MapIs(c) BY <1>5
  <2>3. PICK g \in Slots \ {sid} : FillsScreen(c, g) /\ Ht(c, g) >= 0 BY <2>2
  <2> QED BY <1>5, <2>1, <2>2, <2>3, HideMap
<1>6. CASE old < wanted /\ old >= 0
  <2>1. r = Redrawn(Raise(c, sid, wanted), area, wanted, wanted)
    BY <1>3, <1>6
  <2>2. wanted \in Nat /\ old \in Nat /\ MapIs(c) /\ wanted <= c.top BY <1>6
  <2> QED BY <1>6, <2>1, <2>2, RaiseMap
<1>7. CASE old < wanted /\ ~(old >= 0)
  <2>1. r = Redrawn(Show(c, sid, wanted), area, wanted, wanted)
    BY <1>3, <1>7
  <2>2. wanted \in Nat /\ Ht(c, sid) = -1 /\ c.top + 1 < MAX_SHEETS BY <1>7
  <2> QED BY <1>7, <2>1, <2>2, ShowMap
<1>8. CASE old = wanted BY <1>3, <1>8
<1> QED BY <1>4, <1>5, <1>6, <1>7, <1>8
-----------------------------------------------------------------------------
(* A sheet is moved, drawn into, allocated or freed. *)

\* The sheet sid has become t, the rest is as before.
OneSheet(d, c, sid, t) ==
  /\ IsCtl(d) /\ d.top = c.top /\ d.sheets = c.sheets /\ d.map = c.map /\ d.vram = c.vram
  /\ d.sheets0[sid] = t /\ \A s \in Slots \ {sid} : d.sheets0[s] = c.sheets0[s]

\* One struct SHEET is assigned.
LEMMA OneSheetIs ==
  ASSUME NEW c, IsCtl(c), NEW sid \in Slots, NEW t, IsSht(t),
         NEW d, d = [c EXCEPT !.sheets0 = [c.sheets0 EXCEPT ![sid] = t]]
  PROVE  OneSheet(d, c, sid, t)
<1>1. PICK z : z = [c.sheets0 EXCEPT ![sid] = t] OBVIOUS
<1>2. d = Ctl(c.top, c.sheets, c.map, c.vram, z) BY <1>1 DEF IsCtl, Ctl
<1>3. /\ d.top = c.top /\ d.sheets = c.sheets /\ d.map = c.map /\ d.vram = c.vram
      /\ d.sheets0 = z
  BY <1>2 DEF Ctl
<1>4. /\ z = [s \in Slots |-> z[s]]
      /\ \A s \in Slots : z[s] = IF s = sid THEN t ELSE c.sheets0[s]
  BY <1>1 DEF IsCtl
<1>5. IsCtl(d) BY <1>2, <1>3, <1>4 DEF IsCtl
<1> QED BY <1>3, <1>4, <1>5 DEF OneSheet

\* At the same height it leaves the stack alone.
LEMMA OneSheetStack ==
  ASSUME NEW c, IsStack(c), NEW sid \in Slots, NEW t, t.height = Ht(c, sid),
         NEW d, OneSheet(d, c, sid, t)
  PROVE  IsStack(d) /\ \A s \in Slots : Ht(d, s) = Ht(c, s)
<1>1. \A s \in Slots : Ht(d, s) = Ht(c, s) BY DEF OneSheet, Ht
<1>2. d.top = c.top /\ d.sheets = c.sheets BY DEF OneSheet
<1> QED BY <1>1, <1>2 DEF IsStack

\* The fields of a struct SHEET that is given by its parts.
LEMMA ShtFields ==
  ASSUME NEW f, NEW h, NEW x, NEW y, NEW w, NEW b, NEW d, NEW i, NEW t,
         t = Sht(f, h, x, y, w, b, d, i)
  PROVE  /\ t.flags = f /\ t.height = h /\ t.vx0 = x /\ t.vy0 = y /\ t.bxsize = w
         /\ t.bysize = b /\ t.buf = d /\ t.col_inv = i
         /\ h \in Int /\ x \in Int /\ y \in Int /\ w \in Nat /\ b \in Nat => IsSht(t)
<1>1. /\ t.flags = f /\ t.height = h /\ t.vx0 = x /\ t.vy0 = y /\ t.bxsize = w
      /\ t.bysize = b /\ t.buf = d /\ t.col_inv = i
  BY DEF Sht
<1> QED BY <1>1 DEF IsSht

\* A sheet at another place
MovedTo(s, x, y) == Sht(s.flags, s.height, x, y, s.bxsize, s.bysize, s.buf, s.col_inv)

\* sheet_slide's first assignments: vx0 and vy0.
LEMMA PlacedIs ==
  ASSUME NEW c, IsCtl(c), NEW sid \in Slots, NEW x \in Int, NEW y \in Int,
         NEW d, d = [c EXCEPT !.sheets0[sid].vx0 = x, !.sheets0[sid].vy0 = y]
  PROVE  OneSheet(d, c, sid, MovedTo(c.sheets0[sid], x, y))
<1>1. PICK s : s = c.sheets0[sid] OBVIOUS
<1>2. IsSht(s) BY <1>1 DEF IsCtl
<1>3. PICK t : t = [s EXCEPT !.vx0 = x, !.vy0 = y] OBVIOUS
<1>4. t = MovedTo(s, x, y) BY <1>2, <1>3 DEF IsSht, Sht, MovedTo
<1>5. IsSht(t) BY <1>2, <1>4, ShtFields DEF MovedTo, IsSht
<1>6. d = [c EXCEPT !.sheets0 = [c.sheets0 EXCEPT ![sid] = t]]
  <2>1. c = Ctl(c.top, c.sheets, c.map, c.vram, c.sheets0) BY DEF IsCtl
  <2>2. c.sheets0 = [u \in Slots |-> c.sheets0[u]] BY DEF IsCtl
  <2> QED BY <1>1, <1>3, <2>1, <2>2 DEF Ctl
<1> QED BY <1>1, <1>4, <1>5, <1>6, OneSheetIs

\* In d the sheet sid of c has become t: it lies somewhere else, at the same height h.
Slides(d, c, sid, t, h, old, new) ==
  /\ IsCtl(c) /\ IsStack(c) /\ MapIs(c) /\ OneSheet(d, c, sid, t)
  /\ h \in Nat /\ h = Ht(c, sid) /\ t.height = h /\ t.bxsize = c.sheets0[sid].bxsize
  /\ old = AreaOf(c.sheets0[sid]) /\ new = AreaOf(t)

\* What sheet_slide does to the map
LEMMA SlideMap ==
  ASSUME NEW c, NEW sid \in Slots, NEW ground \in Slots \ {sid},
         FillsScreen(c, ground), Ht(c, ground) >= 0,
         NEW d, NEW t, NEW h, NEW old, NEW new, Slides(d, c, sid, t, h, old, new),
         NEW e, e = sheet_refreshmap(sheet_refreshmap(d, old, 0), new, h)
  PROVE  IsCtl(e) /\ Kept(e, d) /\ MapIs(e) /\ e.vram = d.vram
<1>0. /\ IsStack(c) /\ MapIs(c) /\ OneSheet(d, c, sid, t)
      /\ h \in Nat /\ h = Ht(c, sid) /\ t.height = Ht(c, sid)
      /\ old = AreaOf(c.sheets0[sid]) /\ new = AreaOf(t)
  BY DEF Slides
<1> PICK f : f = sheet_refreshmap(d, old, 0) OBVIOUS
<1>1. IsCtl(d) /\ IsStack(d) /\ \A s \in Slots : Ht(d, s) = Ht(c, s)
  BY <1>0, OneSheetStack DEF OneSheet
<1>2. /\ IsCtl(f) /\ Kept(f, d) /\ f.vram = d.vram
      /\ \A p \in Pixels :
           IF Within(old, X(p), Y(p)) /\ ShownFrom(d, 0, p)
             THEN TopAt(d, p, f.map[p]) ELSE f.map[p] = d.map[p]
  BY <1>1, RefreshMap DEF ShownFrom
<1>3. IsStack(f) /\ \A s : Ht(f, s) = Ht(d, s) BY <1>1, <1>2, Kept1
<1>4. /\ IsCtl(e) /\ Kept(e, f) /\ e.vram = f.vram
      /\ \A p \in Pixels :
           IF Within(new, X(p), Y(p)) /\ ShownFrom(f, h, p)
             THEN TopAt(f, p, e.map[p]) ELSE e.map[p] = f.map[p]
  BY <1>0, <1>2, <1>3, RefreshMap DEF ShownFrom
<1>5. Kept(e, d) BY <1>2, <1>4 DEF Kept
<1>6. \A s \in Slots, p \in Pixels : Sees(e, s, p) <=> Sees(d, s, p) BY <1>5 DEF Kept, Sees
<1>7. \A s \in Slots : Ht(e, s) = Ht(d, s) BY <1>5 DEF Kept, Ht
<1>8. ASSUME NEW p \in Pixels PROVE TopAt(d, p, e.map[p])
  <2>1. \A s \in Slots \ {sid} : Sees(d, s, p) <=> Sees(c, s, p) BY <1>0 DEF OneSheet, Sees
  <2>2. Sees(d, sid, p) => Within(new, X(p), Y(p)) BY <1>0, ShowsInside DEF OneSheet, Sees
  <2>3. Sees(c, sid, p) => Within(old, X(p), Y(p)) BY <1>0, ShowsInside DEF Sees
  <2>4. CASE Within(new, X(p), Y(p)) /\ ShownFrom(f, h, p)
    <3>1. TopAt(f, p, e.map[p]) BY <1>4, <2>4
    <3> QED BY <1>2, <3>1 DEF TopAt, Kept, Ht, Sees
  <2>5. CASE ~(Within(new, X(p), Y(p)) /\ ShownFrom(f, h, p))
    <3>1. e.map[p] = f.map[p] BY <1>4, <2>5
    <3>2. CASE Within(old, X(p), Y(p))
      <4>1. Sees(d, ground, p) /\ Ht(d, ground) >= 0
        BY <1>1, <2>1 DEF FillsScreen
      <4>2. ShownFrom(d, 0, p) BY <4>1 DEF ShownFrom
      <4> QED BY <1>2, <3>1, <3>2, <4>2
    <3>3. CASE ~Within(old, X(p), Y(p))
      <4>1. e.map[p] = c.map[p] BY <1>0, <1>2, <3>1, <3>3 DEF OneSheet
      <4>2. PICK s \in Slots : s = c.map[p] /\ TopAt(c, p, s) BY <1>0 DEF MapIs, TopAt
      <4>3. /\ Ht(c, s) >= 0 /\ Sees(c, s, p)
            /\ \A u \in Slots : Ht(c, u) >= 0 /\ Sees(c, u, p) => Ht(c, u) <= Ht(c, s)
        BY <4>2 DEF TopAt
      <4>4. s # sid BY <2>3, <3>3, <4>3
      <4>5. ~Sees(d, sid, p)
        <5>1. ASSUME Sees(d, sid, p) PROVE ShownFrom(f, h, p)
          <6>1. Sees(f, sid, p) BY <1>2, <5>1 DEF Kept, Sees
          <6>2. Ht(f, sid) >= h BY <1>0, <1>1, <1>3
          <6> QED BY <6>1, <6>2 DEF ShownFrom
        <5> QED BY <2>2, <2>5, <5>1
      <4> QED BY <1>1, <2>1, <4>1, <4>2, <4>3, <4>4, <4>5 DEF TopAt
    <3> QED BY <3>2, <3>3
  <2> QED BY <2>4, <2>5
<1>9. MapIs(e)
  <2> SUFFICES ASSUME NEW p \in Pixels PROVE TopAt(e, p, e.map[p]) BY DEF MapIs
  <2> QED BY <1>6, <1>7, <1>8 DEF TopAt
<1> QED BY <1>2, <1>4, <1>5, <1>9

\* What sheet_slide does to the screen: where sid was seen and is not any more, a sheet
\* under it is drawn; then sid is drawn at its new place.
LEMMA SlideVram ==
  ASSUME NEW c, VramIs(c), Sound(c), NEW sid \in Slots \ {sht_back},
         NEW d, NEW t, NEW h, NEW old, NEW new, Slides(d, c, sid, t, h, old, new),
         NEW e, IsCtl(e), Kept(e, d), MapIs(e), e.vram = d.vram,
         NEW q, q = sheet_refreshsub(e, old, 0, h - 1),
         NEW r, r = sheet_refreshsub(q, new, h, h)
  PROVE  VramIs(r)
<1>0. /\ IsCtl(c) /\ IsStack(c) /\ MapIs(c) /\ OneSheet(d, c, sid, t)
      /\ h \in Nat /\ h = Ht(c, sid) /\ t.height = Ht(c, sid)
      /\ t.bxsize = c.sheets0[sid].bxsize
      /\ old = AreaOf(c.sheets0[sid]) /\ new = AreaOf(t)
  BY DEF Slides
<1>1. /\ IsStack(e) /\ \A s \in Slots : Ht(e, s) = Ht(c, s)
      /\ h <= e.top
  BY <1>0, OneSheetStack, Kept1, StackTyped DEF OneSheet
<1>2. IsCtl(q) /\ Kept(q, e) /\ q.map = e.map BY RefreshSub
<1>3. IsCtl(r) /\ Kept(r, q) /\ r.map = q.map BY <1>2, RefreshSub
<1>4. /\ IsArea(old) /\ old.x0 <= old.x1 /\ IsArea(new) /\ new.x0 <= new.x1
  BY <1>0, AreaIs, Zenon DEF IsCtl, OneSheet
<1>5. /\ e.sheets0[sid] = t /\ q.sheets0 = e.sheets0
      /\ \A s \in Slots \ {sid} : e.sheets0[s] = c.sheets0[s]
  BY <1>0, <1>2 DEF OneSheet, Kept
<1>6. ASSUME NEW s \in Slots PROVE FitsLine(e.sheets0[s]) /\ IsSht(e.sheets0[s])
  <2>1. IsSht(e.sheets0[s]) BY DEF IsCtl
  <2> QED BY <1>0, <1>5, <2>1 DEF Sound, FitsLine
<1> SUFFICES ASSUME NEW p \in Pixels PROVE VramAt(r, p) BY DEF VramIs
<1>7. PICK s \in Slots : s = c.map[p] /\ TopAt(c, p, s) BY <1>0 DEF MapIs, TopAt
<1>8. PICK u \in Slots : u = e.map[p] /\ TopAt(e, p, u) BY DEF MapIs, TopAt
<1>9. /\ VramAt(e, p) => VramAt(q, p)
      /\ Within(old, X(p), Y(p)) /\ Ht(e, u) \in 0..(h - 1) => VramAt(q, p)
  <2>1. PICK h0 \in Nat, k \in Int : h0 = 0 /\ k = h - 1 BY <1>0
  <2>2. k <= e.top BY <1>0, <1>1, <2>1, StackTyped
  <2>3. Drawable(e, old, h0, k, p, u)
    BY <1>1, <1>4, <1>6, <1>8, <2>2, AllFits DEF Drawable
  <2>4. q = sheet_refreshsub(e, old, h0, k) BY <2>1
  <2> QED BY <2>1, <2>3, <2>4, DrawnBy
<1>10. /\ VramAt(q, p) => VramAt(r, p)
       /\ Within(new, X(p), Y(p)) /\ Ht(q, u) \in h..h => VramAt(r, p)
  <2>1. IsStack(q) BY <1>1, <1>2, Kept1
  <2>2. TopAt(q, p, u) BY <1>2, <1>8, Zenon DEF TopAt, Kept, Ht, Sees
  <2>3. h <= q.top BY <1>1, <1>2 DEF Kept
  <2>4. Drawable(q, new, h, h, p, u)
    BY <1>0, <1>2, <1>4, <1>5, <1>6, <1>8, <2>1, <2>2, <2>3, AllFits DEF Drawable
  <2> QED BY <2>4, DrawnBy
<1>11. Ht(q, u) = Ht(c, u) BY <1>1, <1>2, Kept1
<1>12. CASE u = sid
  <2>1. Within(new, X(p), Y(p)) BY <1>0, <1>5, <1>8, <1>12, ShowsInside DEF TopAt, Sees
  <2> QED BY <1>0, <1>10, <1>11, <1>12, <2>1
<1>13. CASE u # sid /\ s = u
  <2>1. c.vram[p] = Look(c, s, p) BY <1>7 DEF VramIs, VramAt
  <2>2. Look(e, u, p) = Look(c, s, p) BY <1>5, <1>13 DEF Look
  <2>3. VramAt(e, p) BY <1>0, <1>8, <1>13, <1>7, <2>1, <2>2 DEF VramAt, OneSheet
  <2> QED BY <1>9, <1>10, <2>3
<1>14. CASE u # sid /\ s # u
  <2>1. Ht(c, u) >= 0 /\ Sees(c, u, p) BY <1>1, <1>5, <1>8, <1>14 DEF TopAt, Sees
  <2>2. Ht(c, u) <= Ht(c, s) BY <1>7, <2>1 DEF TopAt
  <2>3. s = sid
    <3>1. SUFFICES ASSUME s # sid PROVE FALSE OBVIOUS
    <3>2. Ht(e, s) >= 0 /\ Sees(e, s, p) BY <1>1, <1>5, <1>7, <3>1 DEF TopAt, Sees
    <3>3. Ht(c, s) <= Ht(c, u) BY <1>1, <1>8, <3>2 DEF TopAt
    <3> QED BY <1>0, <1>14, <2>1, <2>2, <3>3, StackTyped
  <2>4. Within(old, X(p), Y(p)) BY <1>0, <1>7, <2>3, ShowsInside DEF TopAt, Sees
  <2>5. Ht(e, u) \in 0..(h - 1) BY <1>0, <1>1, <1>14, <2>1, <2>2, <2>3, StackTyped
  <2> QED BY <1>9, <1>10, <2>4, <2>5
<1> QED BY <1>12, <1>13, <1>14

\* After sheet_slide
LEMMA SlideIs ==
  ASSUME NEW c, IsCtl(c), IsStack(c), NEW sid \in Slots, NEW x \in Int, NEW y \in Int,
         Ht(c, sid) >= 0 =>
           MapIs(c) /\ \E g \in Slots \ {sid} : FillsScreen(c, g) /\ Ht(c, g) >= 0,
         NEW r, r = sheet_slide(c, sid, x, y)
  PROVE  /\ IsCtl(r) /\ IsStack(r) /\ r.top = c.top /\ (Ht(c, sid) >= 0 => MapIs(r))
         /\ r.sheets0[sid] = MovedTo(c.sheets0[sid], x, y)
         /\ \A s \in Slots \ {sid} : r.sheets0[s] = c.sheets0[s]
         /\ Ht(c, sid) < 0 => r.map = c.map /\ r.sheets = c.sheets /\ r.vram = c.vram
         /\ Ht(c, sid) >= 0 /\ sid # sht_back /\ Sound(c) /\ VramIs(c) => VramIs(r)
<1>0. PICK d : d = [c EXCEPT !.sheets0[sid].vx0 = x, !.sheets0[sid].vy0 = y] OBVIOUS
<1> PICK t : t = MovedTo(c.sheets0[sid], x, y) OBVIOUS
<1> PICK h \in Int : h = Ht(c, sid) BY StackTyped
<1>1. OneSheet(d, c, sid, t) BY <1>0, PlacedIs
<1>2. t.height = Ht(c, sid) BY ShtFields DEF MovedTo, Ht
<1>3. IsStack(d) BY <1>1, <1>2, OneSheetStack
<1> PICK old : old = AreaOf(c.sheets0[sid]) OBVIOUS
<1> PICK new : new = AreaOf(d.sheets0[sid]) OBVIOUS
<1> PICK e : e = sheet_refreshmap(sheet_refreshmap(d, old, 0), new, h) OBVIOUS
<1>4. r = IF h < 0 THEN d ELSE sheet_refreshsub(sheet_refreshsub(e, old, 0, h - 1), new, h, h)
  <2>1. c.sheets0[sid].height = h BY DEF Ht
  <2> QED BY <1>0, <2>1 DEF sheet_slide
<1>5. CASE h < 0
  <2>1. r = d BY <1>4, <1>5
  <2> QED BY <1>1, <1>3, <1>5, <2>1 DEF OneSheet
<1>6. CASE h >= 0
  <2>1. PICK g \in Slots \ {sid} : FillsScreen(c, g) /\ Ht(c, g) >= 0 BY <1>6
  <2>2. new = AreaOf(t) BY <1>1 DEF OneSheet
  <2>3. Slides(d, c, sid, t, h, old, new)
    <3>1. t.bxsize = c.sheets0[sid].bxsize BY ShtFields DEF MovedTo
    <3> QED BY <1>1, <1>2, <1>6, <2>2, <3>1 DEF Slides
  <2>4. IsCtl(e) /\ Kept(e, d) /\ MapIs(e) /\ e.vram = d.vram BY <2>1, <2>3, SlideMap
  <2>5. PICK q : q = sheet_refreshsub(e, old, 0, h - 1) OBVIOUS
  <2>6. IsCtl(q) /\ Kept(q, e) /\ q.map = e.map BY <2>4, <2>5, RefreshSub
  <2>7. r = sheet_refreshsub(q, new, h, h) BY <1>4, <1>6, <2>5
  <2>8. IsCtl(r) /\ Kept(r, q) /\ r.map = q.map BY <2>6, <2>7, RefreshSub
  <2>9. Kept(r, d) /\ Kept(r, e)
    <3>1. Kept(r, e) BY <2>6, <2>8, KeptTwice
    <3> QED BY <2>4, <3>1, KeptTwice
  <2>10. IsStack(r) BY <1>3, <2>9, Kept1
  <2>11. MapIs(r)
    <3>1. r.map = e.map BY <2>6, <2>8
    <3> QED BY <2>4, <2>9, <3>1, KeptMap, Zenon
  <2>12. r.top = c.top
    <3>1. r.top = d.top BY <2>9 DEF Kept
    <3> QED BY <1>1, <3>1, Zenon DEF OneSheet
  <2>13. /\ r.sheets0[sid] = MovedTo(c.sheets0[sid], x, y)
         /\ \A s \in Slots \ {sid} : r.sheets0[s] = c.sheets0[s]
    <3>1. r.sheets0 = d.sheets0 BY <2>9 DEF Kept
    <3> QED BY <1>1, <3>1, Zenon DEF OneSheet
  <2>14. sid # sht_back /\ Sound(c) /\ VramIs(c) => VramIs(r)
    BY <2>3, <2>4, <2>5, <2>7, SlideVram
  <2> QED BY <1>6, <2>8, <2>10, <2>11, <2>12, <2>13, <2>14
<1> QED BY <1>5, <1>6

\* There is a place in the stack for a sheet that is not in it.
LEMMA HasPlace ==
  ASSUME NEW c, IsStack(c), NEW sid \in Slots, Ht(c, sid) = -1 PROVE c.top + 1 < MAX_SHEETS
<1>1. PICK n \in Nat : n = c.top + 1 BY StackTyped
<1>2. MAX_SHEETS \in Nat /\ n <= MAX_SHEETS /\ MAX_SHEETS >= 3 BY <1>1, StackTyped, SheetAssumption
<1>3. PICK f : f = [i \in 1..n |-> c.sheets[i - 1]] OBVIOUS
<1> DEFINE T == Slots \ {sid}
<1>4. \A i \in 1..n : f[i] \in T /\ Ht(c, f[i]) = i - 1
  <2> SUFFICES ASSUME NEW i \in 1..n PROVE f[i] \in T /\ Ht(c, f[i]) = i - 1 OBVIOUS
  <2>1. PICK h \in 0..c.top : h = i - 1 BY <1>1, StackTyped
  <2>2. f[i] = c.sheets[h] BY <1>3, <2>1
  <2>3. c.sheets[h] \in Slots /\ Ht(c, c.sheets[h]) = h BY DEF IsStack
  <2> QED BY <2>1, <2>2, <2>3
<1>5. f \in Injection(1..n, T)
  <2>1. f \in [1..n -> T] BY <1>3, <1>4
  <2>2. \A i, k \in 1..n : f[i] = f[k] => i = k BY <1>1, <1>4
  <2> QED BY <2>1, <2>2 DEF Injection, IsInjective
<1>6. IsFiniteSet(Slots) /\ Cardinality(Slots) = MAX_SHEETS
  <2>1. IsFiniteSet(0..(MAX_SHEETS - 1)) /\ Cardinality(0..(MAX_SHEETS - 1)) = MAX_SHEETS
    BY <1>2, FS_Interval
  <2> QED BY <2>1 DEF Slots
<1>7. IsFiniteSet(T) /\ Cardinality(T) = MAX_SHEETS - 1 BY <1>6, FS_RemoveElement
<1>8. Cardinality(1..n) = n
  <2>1. PICK one \in Int : one = 1 OBVIOUS
  <2>2. Cardinality(one..n) = IF one > n THEN 0 ELSE n - one + 1 BY FS_Interval
  <2> QED BY <2>1, <2>2
<1>9. Cardinality(1..n) <= Cardinality(T)
  <2> HIDE DEF T
  <2> QED BY <1>5, <1>7, FS_Injection
<1> QED BY <1>1, <1>2, <1>7, <1>8, <1>9, StackTyped

\* What holds after every call
Scene(c) ==
  /\ IsCtl(c) /\ IsStack(c) /\ MapIs(c)
  /\ FillsScreen(c, sht_back) /\ Ht(c, sht_back) >= 0 /\ Ht(c, sht_mouse) >= 0
  /\ \A s \in Slots : s # sht_mouse => c.sheets0[s].col_inv = Opaque
  /\ \A s \in Slots : Ht(c, s) >= 0 => c.sheets0[s].flags # 0

\* Every pixel of the sheet has a colour.
Coloured(t) ==
  /\ DOMAIN t.buf = 0..(t.bxsize * t.bysize - 1)
  /\ \A i \in DOMAIN t.buf : t.buf[i] # -1

\* What holds after every call if no line of a window reaches round to the next one of the
\* screen: the screen shows what the map says.
Seen(c) == Sound(c) /\ VramIs(c) /\ \A s \in Slots : Coloured(c.sheets0[s])

\* Its right edge is not to the left of its left one.
IsStroke(a) == a \in [x0 : Int, y0 : Int, x1 : Int, y1 : Int] /\ a.x0 <= a.x1

\* Windows are three pixels narrower than the screen, the mouse cursor too; nothing is drawn
\* from the right to the left.
WithinLines ==
  /\ xsize >= 5 /\ \A dim \in Windows : dim.bxsize + 3 <= xsize
  /\ \A a \in Strokes : IsStroke(a)

\* A call that changes the sheet sid: the others look the same and keep their order.
Step(r, c, sid) ==
  /\ Scene(r) /\ InOrder(r, c, sid)
  /\ \A s \in Slots \ {sid} : Alike(r.sheets0[s], c.sheets0[s])
  /\ WithinLines /\ Seen(c) => Seen(r)

\* One call after another.
LEMMA StepTwice ==
  ASSUME NEW r, NEW d, NEW c, NEW sid, Step(r, d, sid), Step(d, c, sid) PROVE Step(r, c, sid)
<1>1. InOrder(r, c, sid) BY DEF Step, InOrder
<1>2. \A s \in Slots \ {sid} : Alike(r.sheets0[s], c.sheets0[s]) BY AlikeTwice DEF Step
<1> QED BY <1>1, <1>2 DEF Step

\* No call at all
LEMMA NoStep == ASSUME NEW c, Scene(c), NEW sid PROVE Step(c, c, sid)
BY DEF Step, InOrder, Alike

\* A scene stays sound when a sheet keeps its width and, if it is the background, its place.
LEMMA SoundStays ==
  ASSUME NEW c, Sound(c), NEW r, \A s \in Slots : r.sheets0[s].bxsize = c.sheets0[s].bxsize,
         r.sheets0[sht_back].vx0 = c.sheets0[sht_back].vx0, sht_back \in Slots
  PROVE  Sound(r)
BY DEF Sound

\* The slots of the background, the console and the mouse.
LEMMA FixedSlots ==
  /\ sht_back \in Slots /\ sht_mouse \in Slots /\ 1 \in Slots
  /\ sht_back # sht_mouse /\ sht_back # 1 /\ sht_mouse # 1
BY SheetAssumption DEF Slots, sht_back, sht_mouse

\* A sheet is moved in the stack: sheet_updown.
LEMMA UpdownScene ==
  ASSUME NEW c, Scene(c), NEW sid \in Slots, NEW wanted \in Int, -1 <= wanted, wanted <= c.top,
         wanted = -1 => sid \notin {sht_back, sht_mouse},
         Ht(c, sid) = -1 => c.sheets0[sid].flags # 0,
         NEW r, r = sheet_updown(c, sid, wanted)
  PROVE  /\ Step(r, c, sid) /\ Ht(r, sid) = wanted
         /\ \A s \in Slots : Alike(r.sheets0[s], c.sheets0[s])
<1>1. IF wanted = Ht(c, sid) THEN r = c ELSE Moves(r, c, sid, wanted)
  <2>1. IsCtl(c) /\ IsStack(c) /\ MapIs(c) BY DEF Scene
  <2>2. wanted <= c.top + 1 BY <2>1, StackTyped
  <2>3. Ht(c, sid) = -1 => c.top + 1 < MAX_SHEETS BY <2>1, HasPlace
  <2>4. wanted = -1 => \E g \in Slots \ {sid} : FillsScreen(c, g) /\ Ht(c, g) >= 0
    BY FixedSlots DEF Scene
  <2> QED BY <2>1, <2>2, <2>3, <2>4, UpdownIs
<1>2. CASE wanted = Ht(c, sid) BY <1>1, <1>2, NoStep DEF Alike
<1>3. CASE wanted # Ht(c, sid)
  <2>1. /\ IsCtl(r) /\ IsStack(r) /\ MapIs(r) /\ Ht(r, sid) = wanted
        /\ \A s \in Slots : Alike(r.sheets0[s], c.sheets0[s])
        /\ \A s \in Slots \ {sid} : Ht(r, s) >= 0 <=> Ht(c, s) >= 0
    BY <1>1, <1>3 DEF Moves
  <2>2. \A s \in Slots : /\ r.sheets0[s].col_inv = c.sheets0[s].col_inv
                         /\ r.sheets0[s].flags = c.sheets0[s].flags
    BY <2>1 DEF Alike
  <2>3. \A s \in Slots, p \in Pixels : Sees(r, s, p) <=> Sees(c, s, p)
    BY <2>1, AlikeSees DEF Sees
  <2>4. FillsScreen(r, sht_back) BY <2>3, FixedSlots DEF FillsScreen, Scene
  <2>5. Ht(r, sht_back) >= 0 /\ Ht(r, sht_mouse) >= 0 BY <2>1, FixedSlots DEF Scene
  <2>6. \A s \in Slots : Ht(r, s) >= 0 => r.sheets0[s].flags # 0
    <3> SUFFICES ASSUME NEW s \in Slots, Ht(r, s) >= 0 PROVE c.sheets0[s].flags # 0 BY <2>2
    <3>1. CASE s # sid BY <2>1, <3>1 DEF Scene
    <3>2. CASE s = sid
      <4>1. Ht(c, sid) = -1 \/ Ht(c, sid) >= 0 BY StackTyped DEF Scene
      <4> QED BY <3>2, <4>1 DEF Scene
    <3> QED BY <3>1, <3>2
  <2>7. \A s \in Slots : s # sht_mouse => r.sheets0[s].col_inv = Opaque BY <2>2 DEF Scene
  <2>8. Scene(r) BY <2>1, <2>4, <2>5, <2>6, <2>7 DEF Scene
  <2>9. InOrder(r, c, sid) BY <1>1, <1>3 DEF Moves
  <2>10. ASSUME Seen(c) PROVE Seen(r)
    <3>1. VramIs(r) BY <1>1, <1>3, <2>10 DEF Moves, Seen
    <3>2. Sound(r) BY <2>1, <2>10, FixedSlots, SoundStays DEF Alike, Seen
    <3>3. \A s \in Slots : Coloured(r.sheets0[s]) BY <2>1, <2>10 DEF Alike, Seen, Coloured
    <3> QED BY <3>1, <3>2, <3>3 DEF Seen
  <2> QED BY <2>1, <2>8, <2>9, <2>10 DEF Step
<1> QED BY <1>2, <1>3

\* A sheet is moved on the screen: sheet_slide.
LEMMA SlideScene ==
  ASSUME NEW c, Scene(c), NEW sid \in Slots \ {sht_back}, NEW x \in Int, NEW y \in Int,
         NEW r, r = sheet_slide(c, sid, x, y)
  PROVE  /\ Step(r, c, sid) /\ r.top = c.top
         /\ r.sheets0[sid] = MovedTo(c.sheets0[sid], x, y)
<1>1. IsCtl(c) /\ IsStack(c) /\ MapIs(c) BY DEF Scene
<1>2. \E g \in Slots \ {sid} : FillsScreen(c, g) /\ Ht(c, g) >= 0 BY FixedSlots DEF Scene
<1>3. /\ IsCtl(r) /\ IsStack(r) /\ r.top = c.top /\ (Ht(c, sid) >= 0 => MapIs(r))
      /\ r.sheets0[sid] = MovedTo(c.sheets0[sid], x, y)
      /\ \A s \in Slots \ {sid} : r.sheets0[s] = c.sheets0[s]
      /\ Ht(c, sid) < 0 => r.map = c.map /\ r.sheets = c.sheets /\ r.vram = c.vram
      /\ Ht(c, sid) >= 0 /\ Sound(c) /\ VramIs(c) => VramIs(r)
  BY <1>1, <1>2, SlideIs
<1>4. \A s \in Slots : /\ Ht(r, s) = Ht(c, s) /\ r.sheets0[s].flags = c.sheets0[s].flags
                       /\ r.sheets0[s].col_inv = c.sheets0[s].col_inv
  <2>1. /\ r.sheets0[sid].height = c.sheets0[sid].height
        /\ r.sheets0[sid].flags = c.sheets0[sid].flags
        /\ r.sheets0[sid].col_inv = c.sheets0[sid].col_inv
    BY <1>3, ShtFields DEF MovedTo
  <2> QED BY <1>3, <2>1 DEF Ht
<1>5. \A s \in Slots \ {sid}, p \in Pixels : Sees(r, s, p) <=> Sees(c, s, p)
  BY <1>3 DEF Sees
<1>6. MapIs(r)
  <2>1. CASE Ht(c, sid) >= 0 BY <1>3, <2>1
  <2>2. CASE Ht(c, sid) < 0
    <3> SUFFICES ASSUME NEW p \in Pixels PROVE TopAt(r, p, r.map[p]) BY DEF MapIs
    <3>1. TopAt(c, p, r.map[p]) BY <1>1, <1>3, <2>2 DEF MapIs
    <3>2. PICK s \in Slots : s = r.map[p] BY <3>1 DEF TopAt
    <3>3. /\ Ht(c, s) >= 0 /\ Sees(c, s, p)
          /\ \A u \in Slots : Ht(c, u) >= 0 /\ Sees(c, u, p) => Ht(c, u) <= Ht(c, s)
      BY <3>1, <3>2 DEF TopAt
    <3>4. ASSUME NEW u \in Slots, Ht(c, u) >= 0 PROVE Sees(r, u, p) <=> Sees(c, u, p)
      <4>1. u # sid BY <1>1, <2>2, <3>4, StackTyped
      <4> QED BY <1>5, <4>1
    <3> QED BY <1>4, <3>2, <3>3, <3>4 DEF TopAt
  <2>3. Ht(c, sid) \in Int BY <1>1, StackTyped
  <2> QED BY <2>1, <2>2, <2>3
<1>7. FillsScreen(r, sht_back) BY <1>5, FixedSlots DEF FillsScreen, Scene
<1>8. Scene(r) BY <1>3, <1>4, <1>6, <1>7, FixedSlots DEF Scene
<1>9. InOrder(r, c, sid) BY <1>4 DEF InOrder
<1>10. ASSUME Seen(c) PROVE Seen(r)
  <2>1. VramIs(r)
    <3>1. CASE Ht(c, sid) >= 0 BY <1>3, <1>10, <3>1 DEF Seen
    <3>2. CASE Ht(c, sid) < 0
      <4> SUFFICES ASSUME NEW p \in Pixels PROVE VramAt(r, p) BY DEF VramIs
      <4>1. PICK s \in Slots : s = c.map[p] /\ TopAt(c, p, s) BY <1>1 DEF MapIs, TopAt
      <4>2. s # sid BY <3>2, <4>1, <1>1, StackTyped DEF TopAt
      <4>3. c.vram[p] = Look(c, s, p) BY <1>10, <4>1 DEF Seen, VramIs, VramAt
      <4>4. Look(r, s, p) = Look(c, s, p) BY <1>3, <4>2 DEF Look
      <4> QED BY <1>3, <3>2, <4>1, <4>3, <4>4 DEF VramAt
    <3>3. Ht(c, sid) \in Int BY <1>1, StackTyped
    <3> QED BY <3>1, <3>2, <3>3
  <2>2. /\ r.sheets0[sid].bxsize = c.sheets0[sid].bxsize
        /\ r.sheets0[sid].bysize = c.sheets0[sid].bysize
        /\ r.sheets0[sid].buf = c.sheets0[sid].buf
    BY <1>3, ShtFields DEF MovedTo
  <2>3. Sound(r) BY <1>3, <1>10, <2>2, FixedSlots, SoundStays DEF Seen
  <2>4. \A s \in Slots : Coloured(r.sheets0[s]) BY <1>3, <1>10, <2>2 DEF Seen, Coloured
  <2> QED BY <2>1, <2>3, <2>4 DEF Seen
<1>11. \A s \in Slots \ {sid} : Alike(r.sheets0[s], c.sheets0[s]) BY <1>3 DEF Alike
<1> QED BY <1>3, <1>8, <1>9, <1>10, <1>11 DEF Step

\* A sheet that is not in the stack gets other contents: sheet_alloc, sheet_setbuf and
\* the end of sheet_free.
LEMMA HiddenScene ==
  ASSUME NEW c, Scene(c), NEW sid \in Slots, Ht(c, sid) = -1,
         NEW t, t.height = -1, t.col_inv = Opaque,
         WithinLines /\ Seen(c) => t.bxsize + 3 <= xsize /\ Coloured(t),
         NEW r, OneSheet(r, c, sid, t)
  PROVE  Step(r, c, sid) /\ r.top = c.top
<1>1. IsStack(r) /\ \A s \in Slots : Ht(r, s) = Ht(c, s) BY OneSheetStack DEF Scene
<1>2. sid # sht_back /\ sid # sht_mouse BY DEF Scene
<1>3. \A s \in Slots \ {sid}, p \in Pixels : Sees(r, s, p) <=> Sees(c, s, p) BY DEF OneSheet, Sees
<1>4. MapIs(r)
  <2> SUFFICES ASSUME NEW p \in Pixels PROVE TopAt(r, p, r.map[p]) BY DEF MapIs
  <2>1. TopAt(c, p, r.map[p]) BY DEF MapIs, Scene, OneSheet
  <2> QED BY <1>1, <1>3, <2>1 DEF TopAt
<1>5. FillsScreen(r, sht_back) BY <1>2, <1>3, FixedSlots DEF FillsScreen, Scene
<1>6. \A s \in Slots : s # sht_mouse => r.sheets0[s].col_inv = Opaque BY DEF OneSheet, Scene
<1>7. \A s \in Slots : Ht(r, s) >= 0 => r.sheets0[s].flags # 0 BY <1>1 DEF OneSheet, Scene
<1>8. Scene(r) BY <1>1, <1>2, <1>4, <1>5, <1>6, <1>7, FixedSlots DEF OneSheet, Scene
<1>9. InOrder(r, c, sid) BY <1>1 DEF InOrder
<1>10. r.sheets0[sid] = t /\ \A s \in Slots \ {sid} : r.sheets0[s] = c.sheets0[s] BY DEF OneSheet
<1>11. ASSUME WithinLines, Seen(c) PROVE Seen(r)
  <2>1. VramIs(r)
    <3> SUFFICES ASSUME NEW p \in Pixels PROVE VramAt(r, p) BY DEF VramIs
    <3>1. PICK s \in Slots : s = c.map[p] /\ TopAt(c, p, s) BY DEF Scene, MapIs, TopAt
    <3>2. s # sid BY <3>1 DEF TopAt
    <3>3. c.vram[p] = Look(c, s, p) BY <1>11, <3>1 DEF Seen, VramIs, VramAt
    <3>4. Look(r, s, p) = Look(c, s, p) BY <1>10, <3>2 DEF Look
    <3> QED BY <3>1, <3>3, <3>4 DEF VramAt, OneSheet
  <2>2. Sound(r) BY <1>2, <1>10, <1>11, FixedSlots DEF Sound, Seen
  <2>3. \A s \in Slots : Coloured(r.sheets0[s]) BY <1>10, <1>11 DEF Seen
  <2> QED BY <2>1, <2>2, <2>3 DEF Seen
<1>12. \A s \in Slots \ {sid} : Alike(r.sheets0[s], c.sheets0[s]) BY <1>10 DEF Alike
<1> QED BY <1>8, <1>9, <1>11, <1>12 DEF OneSheet, Step

\* The sheet s with another picture
Redrawing(s, b) == Sht(s.flags, s.height, s.vx0, s.vy0, s.bxsize, s.bysize, b, s.col_inv)

\* Only the picture changes.
LEMMA RedrawingIs ==
  ASSUME NEW s, NEW b, NEW t, t = Redrawing(s, b)
  PROVE  /\ t.height = s.height /\ t.vx0 = s.vx0 /\ t.vy0 = s.vy0 /\ t.bxsize = s.bxsize
         /\ t.bysize = s.bysize /\ t.buf = b /\ t.col_inv = s.col_inv
BY ShtFields DEF Redrawing

\* A sheet that has no transparent colour gets another picture.
LEMMA DrawnScene ==
  ASSUME NEW c, Scene(c), NEW sid \in Slots \ {sht_mouse}, NEW b,
         NEW r, r = [c EXCEPT !.sheets0[sid].buf = b]
  PROVE  Scene(r) /\ OneSheet(r, c, sid, Redrawing(c.sheets0[sid], b))
<1>1. PICK s : s = c.sheets0[sid] OBVIOUS
<1>2. IsSht(s) /\ s.col_inv = Opaque BY <1>1 DEF Scene, IsCtl
<1>3. PICK t : t = [s EXCEPT !.buf = b] OBVIOUS
<1>4. t = Sht(s.flags, s.height, s.vx0, s.vy0, s.bxsize, s.bysize, b, s.col_inv)
  BY <1>2, <1>3 DEF IsSht, Sht
<1>5. /\ IsSht(t) /\ t.height = s.height /\ t.flags = s.flags /\ t.col_inv = Opaque
      /\ t.vx0 = s.vx0 /\ t.vy0 = s.vy0 /\ t.bxsize = s.bxsize /\ t.bysize = s.bysize
  BY <1>2, <1>4, ShtFields DEF IsSht
<1>6. OneSheet(r, c, sid, t)
  <2>1. r = [c EXCEPT !.sheets0 = [c.sheets0 EXCEPT ![sid] = t]]
    <3>1. c = Ctl(c.top, c.sheets, c.map, c.vram, c.sheets0) BY DEF Scene, IsCtl
    <3>2. c.sheets0 = [u \in Slots |-> c.sheets0[u]] BY DEF Scene, IsCtl
    <3> QED BY <1>1, <1>3, <3>1, <3>2 DEF Ctl
  <2> QED BY <1>5, <2>1, OneSheetIs DEF Scene
<1>7. t.height = Ht(c, sid) BY <1>1, <1>5 DEF Ht
<1>8. IsStack(r) /\ \A u \in Slots : Ht(r, u) = Ht(c, u)
  BY <1>6, <1>7, OneSheetStack DEF Scene
<1>9. \A u \in Slots, p \in Pixels : Sees(r, u, p) <=> Sees(c, u, p)
  <2>1. \A p : Shows(t, p) <=> Shows(s, p) BY <1>2, <1>5 DEF Shows, AreaOf
  <2> QED BY <1>1, <1>6, <2>1 DEF OneSheet, Sees
<1>10. MapIs(r)
  <2> SUFFICES ASSUME NEW p \in Pixels PROVE TopAt(r, p, r.map[p]) BY DEF MapIs
  <2>1. TopAt(c, p, r.map[p]) BY <1>6 DEF MapIs, Scene, OneSheet
  <2> QED BY <1>8, <1>9, <2>1 DEF TopAt
<1>11. \A u \in Slots : /\ r.sheets0[u].flags = c.sheets0[u].flags
                        /\ r.sheets0[u].col_inv = c.sheets0[u].col_inv
  BY <1>1, <1>2, <1>5, <1>6 DEF OneSheet
<1>12. FillsScreen(r, sht_back) BY <1>9, FixedSlots DEF FillsScreen, Scene
<1>13. Scene(r) BY <1>6, <1>8, <1>10, <1>11, <1>12, FixedSlots DEF OneSheet, Scene
<1> QED BY <1>1, <1>4, <1>6, <1>13 DEF Redrawing

\* sheet_refresh draws on the screen, and leaves the rest alone.
LEMMA RefreshScene ==
  ASSUME NEW c, Scene(c), NEW sid \in Slots, NEW area, NEW r, r = sheet_refresh(c, sid, area)
  PROVE  Scene(r) /\ r.map = c.map /\ r.sheets0 = c.sheets0
<1>1. CASE c.sheets0[sid].height < 0 BY <1>1 DEF sheet_refresh
<1>2. CASE ~(c.sheets0[sid].height < 0)
  <2>1. PICK a, h : r = sheet_refreshsub(c, a, h, h) BY <1>2, Zenon DEF sheet_refresh
  <2>2. IsCtl(r) /\ Kept(r, c) /\ r.map = c.map BY <2>1, RefreshSub DEF Scene
  <2>3. IsStack(r) /\ \A s : Ht(r, s) = Ht(c, s) BY <2>2, Kept1 DEF Scene
  <2>4. \A s, p : Sees(r, s, p) <=> Sees(c, s, p) BY <2>2 DEF Kept, Sees
  <2>5. MapIs(r) BY <2>2, <2>3, <2>4 DEF MapIs, TopAt, Scene
  <2>6. FillsScreen(r, sht_back) BY <2>4 DEF FillsScreen, Scene
  <2> QED BY <2>2, <2>3, <2>5, <2>6, FixedSlots DEF Kept, Scene
<1> QED BY <1>1, <1>2

\* A pixel of a buffer is given by its column and its line.
LEMMA RowColumn ==
  ASSUME NEW w \in Nat, NEW h \in Nat, NEW x \in 0..(w - 1), NEW y \in 0..(h - 1),
         NEW i, i = y * w + x
  PROVE  i \in 0..(w * h - 1) /\ i % w = x /\ i \div w = y
<1>1. w > 0 /\ y * w \in Nat /\ i \in Nat OBVIOUS
<1>2. i <= w * h - 1
  <2>1. y + 1 <= h OBVIOUS
  <2>2. (y + 1) * w <= h * w BY <2>1
  <2>3. (y + 1) * w = y * w + w OBVIOUS
  <2>4. h * w = w * h OBVIOUS
  <2>5. PICK n \in Int, m \in Int : n = y * w /\ m = w * h OBVIOUS
  <2> QED BY <2>2, <2>3, <2>4, <2>5
<1>3. PICK q \in Int, m \in 0..(w - 1) : q = i \div w /\ m = i % w /\ i = w * q + m
  BY <1>1
<1>4. w * q - w * y = w * (q - y) OBVIOUS
<1>5. w * (q - y) = x - m
  <2>1. y * w = w * y OBVIOUS
  <2>2. PICK a \in Int, b \in Int : a = w * q /\ b = w * y OBVIOUS
  <2> QED BY <1>3, <1>4, <2>1, <2>2
<1>6. q = y
  <2>1. PICK e \in Int : e = q - y OBVIOUS
  <2>2. e >= 1 => w * e >= w BY <1>1
  <2>3. e <= -1 => w * e <= -w BY <1>1
  <2>4. w * e = x - m BY <1>5, <2>1
  <2>5. ~(e >= 1) /\ ~(e <= -1) BY <2>2, <2>3, <2>4
  <2> QED BY <2>1, <2>5
<1>7. m = x
  <2>1. w * (q - y) = 0 BY <1>6
  <2> QED BY <1>5, <2>1
<1> QED BY <1>1, <1>2, <1>3, <1>6, <1>7

\* What lies at p on the screen, if the sheet is there
LEMMA BufAtIs ==
  ASSUME NEW t, IsSht(t), NEW p \in Pixels, Within(AreaOf(t), X(p), Y(p)), NEW i, i = BufAt(t, p)
  PROVE  /\ i \in 0..(t.bxsize * t.bysize - 1)
         /\ i % t.bxsize = X(p) - t.vx0 /\ i \div t.bxsize = Y(p) - t.vy0
<1>1. PICK w \in Nat, h \in Nat, vx \in Int, vy \in Int :
        t.bxsize = w /\ t.bysize = h /\ t.vx0 = vx /\ t.vy0 = vy
  BY DEF IsSht
<1>2. PICK xp \in Int, yp \in Int : xp = X(p) /\ yp = Y(p) BY PixelAt, SheetAssumption
<1>3. vx <= xp /\ xp < vx + w /\ vy <= yp /\ yp < vy + h
  BY <1>1, <1>2 DEF Within, AreaOf, Rect
<1>4. PICK x \in 0..(w - 1), y \in 0..(h - 1) : x = xp - vx /\ y = yp - vy BY <1>3
<1>5. i = y * w + x
  <2>1. i = y * w + xp - vx BY <1>1, <1>2, <1>4 DEF BufAt
  <2>2. PICK n \in Int : n = y * w OBVIOUS
  <2> QED BY <1>4, <2>1, <2>2
<1>6. i \in 0..(w * h - 1) /\ i % w = x /\ i \div w = y BY <1>5, RowColumn
<1> QED BY <1>1, <1>2, <1>4, <1>6, Zenon

\* sheet_alloc and sheet_setbuf
LEMMA AllocatedIs ==
  ASSUME NEW c, IsCtl(c), NEW sid \in Slots, NEW dim \in [bxsize : Nat, bysize : Nat],
         NEW buf, NEW inv, NEW r, r = Allocated(c, sid, dim, buf, inv)
  PROVE  OneSheet(r, c, sid, Sht(1, -1, c.sheets0[sid].vx0, c.sheets0[sid].vy0,
                                 dim.bxsize, dim.bysize, buf, inv))
<1>1. PICK s : s = c.sheets0[sid] OBVIOUS
<1>2. IsSht(s) BY <1>1 DEF IsCtl
<1>3. PICK w \in Nat, h \in Nat : w = dim.bxsize /\ h = dim.bysize OBVIOUS
<1>4. PICK t : t = [s EXCEPT !.flags = 1, !.height = -1, !.buf = buf, !.col_inv = inv,
                             !.bxsize = w, !.bysize = h]
  OBVIOUS
<1>5. t = Sht(1, -1, s.vx0, s.vy0, w, h, buf, inv) BY <1>2, <1>4 DEF IsSht, Sht
<1>6. IsSht(t) BY <1>2, <1>5, ShtFields DEF IsSht
<1>7. r = [c EXCEPT !.sheets0[sid] = t] BY <1>1, <1>3, <1>4 DEF Allocated, IsCtl, Ctl
<1>8. r = [c EXCEPT !.sheets0 = [c.sheets0 EXCEPT ![sid] = t]] BY <1>7 DEF IsCtl, Ctl
<1>9. OneSheet(r, c, sid, t) BY <1>6, <1>8, OneSheetIs
<1> QED BY <1>1, <1>3, <1>5, <1>9
-----------------------------------------------------------------------------
(* The first scene *)

\* No sheet is in the stack yet.
Bare(c) ==
  /\ IsCtl(c) /\ c.top = -1
  /\ \A s \in Slots : Ht(c, s) = -1 /\ (s # sht_mouse => c.sheets0[s].col_inv = Opaque)

\* Before the first sheet is shown the stack is consistent.
LEMMA BareStack == ASSUME NEW c, Bare(c) PROVE IsStack(c)
BY SheetAssumption DEF Bare, IsStack

\* A hidden sheet may be changed before the first one is shown.
LEMMA BareOne ==
  ASSUME NEW c, Bare(c), NEW sid \in Slots,
         NEW t, t.height = -1, sid # sht_mouse => t.col_inv = Opaque,
         NEW d, OneSheet(d, c, sid, t)
  PROVE  Bare(d)
BY DEF Bare, OneSheet, Ht

\* sheet_alloc and sheet_setbuf, before the first sheet is shown.
LEMMA BareAllocated ==
  ASSUME NEW c, Bare(c), NEW sid \in Slots, NEW dim \in [bxsize : Nat, bysize : Nat],
         NEW buf, NEW inv, sid # sht_mouse => inv = Opaque,
         NEW r, r = Allocated(c, sid, dim, buf, inv)
  PROVE  /\ Bare(r)
         /\ r.sheets0[sid] = Sht(1, -1, c.sheets0[sid].vx0, c.sheets0[sid].vy0,
                                 dim.bxsize, dim.bysize, buf, inv)
         /\ \A s \in Slots \ {sid} : r.sheets0[s] = c.sheets0[s]
<1>1. PICK t : t = Sht(1, -1, c.sheets0[sid].vx0, c.sheets0[sid].vy0,
                      dim.bxsize, dim.bysize, buf, inv)
  OBVIOUS
<1>2. OneSheet(r, c, sid, t) BY <1>1, AllocatedIs DEF Bare
<1>3. t.height = -1 /\ t.col_inv = inv BY <1>1, ShtFields
<1>4. Bare(r) BY <1>2, <1>3, BareOne
<1> QED BY <1>1, <1>2, <1>4 DEF OneSheet

\* sheet_slide of a hidden sheet, before the first one is shown.
LEMMA BareSlid ==
  ASSUME NEW c, Bare(c), NEW sid \in Slots, NEW x \in Int, NEW y \in Int,
         NEW r, r = sheet_slide(c, sid, x, y)
  PROVE  /\ Bare(r) /\ r.sheets0[sid] = MovedTo(c.sheets0[sid], x, y)
         /\ \A s \in Slots \ {sid} : r.sheets0[s] = c.sheets0[s]
<1>1. IsCtl(c) /\ IsStack(c) /\ Ht(c, sid) = -1 /\ c.top = -1 BY BareStack DEF Bare
<1>2. /\ IsCtl(r) /\ r.top = c.top /\ r.sheets0[sid] = MovedTo(c.sheets0[sid], x, y)
      /\ \A s \in Slots \ {sid} : r.sheets0[s] = c.sheets0[s]
  BY <1>1, SlideIs
<1>3. /\ r.sheets0[sid].height = c.sheets0[sid].height
      /\ r.sheets0[sid].col_inv = c.sheets0[sid].col_inv
  BY <1>2, ShtFields DEF MovedTo
<1> QED BY <1>1, <1>2, <1>3 DEF Bare, Ht

\* shtctl_init: all sheets are free and hidden.
LEMMA BareInit ==
  /\ Bare(shtctl_init)
  /\ \A s \in Slots :
       /\ shtctl_init.sheets0[s].vx0 = 0 /\ shtctl_init.sheets0[s].vy0 = 0
       /\ shtctl_init.sheets0[s].bxsize = 0 /\ Coloured(shtctl_init.sheets0[s])
<1>1. PICK n : n = Sht(0, -1, 0, 0, 0, 0, <<>>, Opaque) OBVIOUS
<1>2. IsSht(n) /\ n.height = -1 /\ n.col_inv = Opaque /\ n.vx0 = 0 /\ n.vy0 = 0
  BY <1>1, ShtFields
<1>3. PICK st, m, v, z : /\ st = [h \in Slots |-> NoSheet] /\ m = [p \in Pixels |-> NoSheet]
                         /\ v = [p \in Pixels |-> 0] /\ z = [sid \in Slots |-> n]
  OBVIOUS
<1>4. PICK c : c = shtctl_init OBVIOUS
<1>5. c = Ctl(-1, st, m, v, z) BY <1>1, <1>3, <1>4 DEF shtctl_init, Ctl, Sht
<1>6. c.top = -1 /\ c.sheets = st /\ c.map = m /\ c.vram = v /\ c.sheets0 = z
  BY <1>5, CtlFields
<1>7. IsCtl(c)
  <2>1. PICK top \in Int : top = -1 OBVIOUS
  <2>2. c = Ctl(c.top, c.sheets, c.map, c.vram, c.sheets0) /\ c.top \in Int
    BY <1>5, <1>6, <2>1
  <2>3. /\ st \in [Slots -> Slots \cup {NoSheet}] /\ m \in [Pixels -> Slots \cup {NoSheet}]
        /\ v = [p \in Pixels |-> v[p]] /\ z = [s \in Slots |-> z[s]]
        /\ \A s \in Slots : IsSht(z[s])
    BY <1>2, <1>3
  <2> QED BY <1>6, <2>2, <2>3 DEF IsCtl
<1>8. n.bxsize = 0 /\ Coloured(n)
  <2>1. n.bxsize = 0 /\ n.bysize = 0 /\ n.buf = <<>> BY <1>1, ShtFields
  <2>2. DOMAIN n.buf = {} /\ 0..(0 * 0 - 1) = {} BY <2>1
  <2> QED BY <2>1, <2>2 DEF Coloured
<1> QED BY <1>2, <1>3, <1>4, <1>6, <1>7, <1>8 DEF Bare, Ht

\* Every pixel of a new buffer has a colour.
LEMMA PaintedIs ==
  ASSUME NEW sid \in Nat, NEW dim, NEW b, b = Painted(sid, dim),
         NEW t, t.bxsize = dim.bxsize, t.bysize = dim.bysize, t.buf = b
  PROVE  Coloured(t)
<1>1. DOMAIN b = 0..(t.bxsize * t.bysize - 1) BY DEF Painted
<1>2. ASSUME NEW i \in DOMAIN b PROVE b[i] # -1
  <2>1. b[i] = Colour(sid, i, 0) BY <1>2 DEF Painted
  <2>2. i \in Nat BY <1>1
  <2>3. 1000 * (sid + 1) \in Nat /\ 2 * i \in Nat BY <2>2
  <2> QED BY <2>1, <2>3 DEF Colour
<1> QED BY <1>1, <1>2 DEF Coloured

\* Every pixel of the mouse cursor has a colour, the transparent one included.
LEMMA CursorIs ==
  ASSUME NEW t, t.bxsize = 2, t.bysize = 2, t.buf = Cursor PROVE Coloured(t)
<1>1. PICK dim : dim = [bxsize |-> 2, bysize |-> 2] OBVIOUS
<1>2. PICK b : b = Painted(sht_mouse, dim) OBVIOUS
<1>3. PICK u : u = [bxsize |-> 2, bysize |-> 2, buf |-> b] OBVIOUS
<1>4. u.bxsize = 2 /\ u.bysize = 2 /\ u.buf = b BY <1>3
<1>5. Coloured(u)
  <2>1. sht_mouse \in Nat BY DEF sht_mouse
  <2> QED BY <1>1, <1>2, <1>4, <2>1, PaintedIs
<1>6. t.buf = [b EXCEPT ![3] = Transparent] BY <1>1, <1>2 DEF Cursor
<1>7. DOMAIN t.buf = DOMAIN b BY <1>6
<1>8. \A i \in DOMAIN b : t.buf[i] = IF i = 3 THEN Transparent ELSE b[i] BY <1>6
<1>9. Transparent # -1 BY DEF Transparent
<1> QED BY <1>4, <1>5, <1>7, <1>8, <1>9 DEF Coloured

\* Before the first sheet is shown the screen may show anything.
LEMMA BareVram == ASSUME NEW c, Bare(c), MapIs(c) PROVE VramIs(c)
<1> SUFFICES ASSUME NEW p \in Pixels PROVE FALSE BY DEF VramIs
<1>1. PICK s \in Slots : Ht(c, s) >= 0 BY DEF MapIs, TopAt
<1>2. Ht(c, s) = -1 BY DEF Bare
<1> QED BY <1>1, <1>2

\* The background covers the screen.
LEMMA BackgroundFills ==
  ASSUME NEW c, NEW s, s = c.sheets0[sht_back], s.vx0 = 0, s.vy0 = 0, s.bxsize = xsize,
         s.bysize = ysize, s.col_inv = Opaque
  PROVE  FillsScreen(c, sht_back)
<1> SUFFICES ASSUME NEW p \in Pixels PROVE Shows(s, p) BY DEF FillsScreen, Sees
<1>1. X(p) \in 0..(xsize - 1) /\ Y(p) \in 0..(ysize - 1) BY PixelAt
<1>2. xsize \in Nat /\ ysize \in Nat BY SheetAssumption
<1>3. Within(AreaOf(s), X(p), Y(p)) BY <1>1, <1>2 DEF Within, AreaOf, Rect
<1> QED BY <1>3 DEF Shows

\* HariMain's calls leave a right scene: background, console and mouse.
LEMMA InitScene == ASSUME SheetInit PROVE Scene(ctl) /\ (WithinLines => Seen(ctl))
<1>1. PICK dim \in Windows, corner \in Corners, at \in MouseAt :
        LET a == Allocated(shtctl_init, sht_back, [bxsize |-> xsize, bysize |-> ysize],
                           Painted(sht_back, [bxsize |-> xsize, bysize |-> ysize]), Opaque)
            b == Allocated(a, 1, dim, Painted(1, dim), Opaque)
            c == Allocated(b, sht_mouse, [bxsize |-> 2, bysize |-> 2], Cursor, Transparent)
            d == sheet_slide(sheet_slide(c, 1, corner[1], corner[2]), sht_mouse, at[1], at[2])
        IN  ctl = sheet_updown(sheet_updown(sheet_updown(d, sht_back, 0), 1, 1), sht_mouse, 2)
  BY Zenon DEF SheetInit
<1>2. PICK p0, p1 : /\ p0 = Painted(sht_back, [bxsize |-> xsize, bysize |-> ysize])
                    /\ p1 = Painted(1, dim)
  OBVIOUS
<1>3. PICK z0 : z0 = [bxsize |-> xsize, bysize |-> ysize] OBVIOUS
<1>4. PICK z2 : z2 = [bxsize |-> 2, bysize |-> 2] OBVIOUS
<1>5. /\ z0 \in [bxsize : Nat, bysize : Nat] /\ z0.bxsize = xsize /\ z0.bysize = ysize
      /\ z2 \in [bxsize : Nat, bysize : Nat] /\ dim \in [bxsize : Nat, bysize : Nat]
      /\ corner[1] \in Int /\ corner[2] \in Int /\ at[1] \in Int /\ at[2] \in Int
  <2>1. at \in (0..(xsize - 1)) \X (0..(ysize - 1)) /\ corner \in Int \X Int
    BY SheetAssumption
  <2>2. dim \in [bxsize : Nat \ {0}, bysize : Nat \ {0}] BY SheetAssumption
  <2> QED BY <1>3, <1>4, <2>1, <2>2, SheetAssumption
<1>6. PICK a : a = Allocated(shtctl_init, sht_back, z0, p0, Opaque) OBVIOUS
<1>7. PICK b : b = Allocated(a, 1, dim, p1, Opaque) OBVIOUS
<1>8. PICK c : c = Allocated(b, sht_mouse, z2, Cursor, Transparent) OBVIOUS
<1>9. PICK f : f = sheet_slide(c, 1, corner[1], corner[2]) OBVIOUS
<1>10. PICK d : d = sheet_slide(f, sht_mouse, at[1], at[2]) OBVIOUS
<1>11. PICK u : u = sheet_updown(d, sht_back, 0) OBVIOUS
<1>12. PICK v : v = sheet_updown(u, 1, 1) OBVIOUS
<1>13. ctl = sheet_updown(v, sht_mouse, 2)
  BY <1>1, <1>2, <1>3, <1>4, <1>6, <1>7, <1>8, <1>9, <1>10, <1>11, <1>12
<1>14. /\ Bare(a) /\ \A s \in Slots \ {sht_back} : a.sheets0[s] = shtctl_init.sheets0[s]
       /\ a.sheets0[sht_back] = Sht(1, -1, shtctl_init.sheets0[sht_back].vx0,
                                    shtctl_init.sheets0[sht_back].vy0,
                                    z0.bxsize, z0.bysize, p0, Opaque)
  BY <1>5, <1>6, FixedSlots, BareInit, BareAllocated
<1>15. /\ Bare(b) /\ \A s \in Slots \ {1} : b.sheets0[s] = a.sheets0[s]
       /\ b.sheets0[1] = Sht(1, -1, a.sheets0[1].vx0, a.sheets0[1].vy0,
                             dim.bxsize, dim.bysize, p1, Opaque)
  BY <1>5, <1>7, <1>14, FixedSlots, BareAllocated
<1>16. /\ Bare(c) /\ \A s \in Slots \ {sht_mouse} : c.sheets0[s] = b.sheets0[s]
       /\ c.sheets0[sht_mouse] = Sht(1, -1, b.sheets0[sht_mouse].vx0, b.sheets0[sht_mouse].vy0,
                                     z2.bxsize, z2.bysize, Cursor, Transparent)
  BY <1>5, <1>8, <1>15, FixedSlots, BareAllocated
<1>17. /\ Bare(f) /\ f.sheets0[1] = MovedTo(c.sheets0[1], corner[1], corner[2])
       /\ \A s \in Slots \ {1} : f.sheets0[s] = c.sheets0[s]
  BY <1>5, <1>9, <1>16, FixedSlots, BareSlid
<1>18. /\ Bare(d) /\ d.sheets0[sht_mouse] = MovedTo(f.sheets0[sht_mouse], at[1], at[2])
       /\ \A s \in Slots \ {sht_mouse} : d.sheets0[s] = f.sheets0[s]
  <2>1. PICK x \in Int, y \in Int : x = at[1] /\ y = at[2] BY <1>5
  <2>2. d = sheet_slide(f, sht_mouse, x, y) /\ Bare(f) BY <1>10, <1>17, <2>1
  <2>3. PICK m \in Slots : m = sht_mouse BY FixedSlots
  <2>4. /\ Bare(d) /\ d.sheets0[m] = MovedTo(f.sheets0[m], x, y)
        /\ \A s \in Slots \ {m} : d.sheets0[s] = f.sheets0[s]
    BY <2>2, <2>3, BareSlid
  <2> QED BY <2>1, <2>3, <2>4
<1>19. /\ d.sheets0[sht_back].flags = 1 /\ d.sheets0[1].flags = 1 /\ d.sheets0[sht_mouse].flags = 1
  <2>1. c.sheets0[1].flags = 1 BY <1>15, <1>16, FixedSlots, ShtFields
  <2>2. d.sheets0[1].flags = 1 BY <1>17, <1>18, <2>1, FixedSlots, ShtFields DEF MovedTo
  <2>3. f.sheets0[sht_mouse].flags = 1 BY <1>16, <1>17, FixedSlots, ShtFields
  <2>4. d.sheets0[sht_mouse].flags = 1 BY <1>18, <2>3, ShtFields DEF MovedTo
  <2>5. d.sheets0[sht_back] = a.sheets0[sht_back] BY <1>15, <1>16, <1>17, <1>18, FixedSlots
  <2>6. d.sheets0[sht_back].flags = 1 BY <1>14, <2>5, ShtFields
  <2> QED BY <2>2, <2>4, <2>6
<1>20. FillsScreen(d, sht_back)
  <2>1. PICK s : s = d.sheets0[sht_back] OBVIOUS
  <2>2. s = Sht(1, -1, 0, 0, xsize, ysize, p0, Opaque)
    BY <1>5, <1>14, <1>15, <1>16, <1>17, <1>18, <2>1, FixedSlots, BareInit
  <2>3. s.vx0 = 0 /\ s.vy0 = 0 /\ s.bxsize = xsize /\ s.bysize = ysize /\ s.col_inv = Opaque
    BY <2>2, ShtFields
  <2> QED BY <2>1, <2>3, BackgroundFills
<1>21. Moves(u, d, sht_back, 0)
  <2>1. IsCtl(d) /\ IsStack(d) /\ d.top = -1 /\ Ht(d, sht_back) = -1
    BY <1>18, FixedSlots, BareStack DEF Bare
  <2>2. d.top + 1 < MAX_SHEETS BY <2>1, SheetAssumption
  <2>3. IF 0 = Ht(d, sht_back) THEN u = d ELSE Moves(u, d, sht_back, 0)
    BY <1>11, <1>20, <2>1, <2>2, FixedSlots, UpdownIs
  <2> QED BY <2>1, <2>3
<1>22. /\ IsCtl(u) /\ IsStack(u) /\ MapIs(u) /\ Ht(u, sht_back) = 0 /\ Ht(u, 1) = -1 /\ u.top >= 0
       /\ \A s \in Slots : Alike(u.sheets0[s], d.sheets0[s])
       /\ \A s \in Slots \ {sht_back} : Ht(u, s) < 0
  <2>1. /\ IsCtl(u) /\ IsStack(u) /\ MapIs(u) /\ Ht(u, sht_back) = 0
        /\ \A s \in Slots : Alike(u.sheets0[s], d.sheets0[s])
        /\ \A s \in Slots \ {sht_back} : Ht(u, s) >= 0 <=> Ht(d, s) >= 0
    BY <1>21 DEF Moves
  <2>2. \A s \in Slots \ {sht_back} : Ht(u, s) < 0 BY <1>18, <2>1, StackTyped DEF Bare
  <2> QED BY <2>1, <2>2, FixedSlots, StackTyped
<1>23. Moves(v, u, 1, 1)
  <2>1. u.top + 1 < MAX_SHEETS BY <1>22, FixedSlots, HasPlace
  <2>2. 1 <= u.top + 1 BY <1>22, StackTyped
  <2>3. IF 1 = Ht(u, 1) THEN v = u ELSE Moves(v, u, 1, 1)
    BY <1>12, <1>22, <2>1, <2>2, FixedSlots, UpdownIs
  <2> QED BY <1>22, <2>3
<1>24. /\ IsCtl(v) /\ IsStack(v) /\ MapIs(v) /\ Ht(v, 1) = 1 /\ Ht(v, sht_mouse) = -1 /\ v.top >= 1
       /\ \A s \in Slots : Alike(v.sheets0[s], u.sheets0[s])
       /\ Ht(v, sht_back) >= 0 /\ \A s \in Slots \ {sht_back, 1} : Ht(v, s) < 0
  <2>1. /\ IsCtl(v) /\ IsStack(v) /\ MapIs(v) /\ Ht(v, 1) = 1
        /\ \A s \in Slots : Alike(v.sheets0[s], u.sheets0[s])
        /\ \A s \in Slots \ {1} : Ht(v, s) >= 0 <=> Ht(u, s) >= 0
    BY <1>23 DEF Moves
  <2>2. \A s \in Slots \ {sht_back, 1} : Ht(v, s) < 0 BY <1>22, <2>1, StackTyped
  <2>3. Ht(v, sht_back) >= 0 BY <1>22, <2>1, FixedSlots
  <2> QED BY <2>1, <2>2, <2>3, FixedSlots, StackTyped
<1>25. Moves(ctl, v, sht_mouse, 2)
  <2>1. v.top + 1 < MAX_SHEETS BY <1>24, FixedSlots, HasPlace
  <2>2. 2 <= v.top + 1 BY <1>24, StackTyped
  <2>3. IF 2 = Ht(v, sht_mouse) THEN ctl = v ELSE Moves(ctl, v, sht_mouse, 2)
    BY <1>13, <1>24, <2>1, <2>2, FixedSlots, UpdownIs
  <2> QED BY <1>24, <2>3
<1>26. /\ IsCtl(ctl) /\ IsStack(ctl) /\ MapIs(ctl) /\ Ht(ctl, sht_mouse) = 2
       /\ \A s \in Slots : Alike(ctl.sheets0[s], v.sheets0[s])
       /\ \A s \in Slots \ {sht_mouse} : Ht(ctl, s) >= 0 <=> Ht(v, s) >= 0
  BY <1>25 DEF Moves
<1>27. \A s \in Slots : Alike(ctl.sheets0[s], d.sheets0[s]) BY <1>22, <1>24, <1>26, AlikeTwice
<1>28. \A s \in Slots : /\ ctl.sheets0[s].flags = d.sheets0[s].flags
                        /\ ctl.sheets0[s].col_inv = d.sheets0[s].col_inv
  BY <1>27 DEF Alike
<1>29. FillsScreen(ctl, sht_back)
  <2>1. \A p : Sees(ctl, sht_back, p) <=> Sees(d, sht_back, p)
    BY <1>27, FixedSlots, AlikeSees DEF Sees
  <2> QED BY <1>20, <2>1 DEF FillsScreen
<1>30. \A s \in Slots : Ht(ctl, s) >= 0 => ctl.sheets0[s].flags # 0
  <2> SUFFICES ASSUME NEW s \in Slots, Ht(ctl, s) >= 0 PROVE d.sheets0[s].flags # 0 BY <1>28
  <2>1. s \in {sht_back, 1, sht_mouse}
    <3>1. s # sht_mouse => Ht(v, s) >= 0 BY <1>26
    <3>2. Ht(v, s) \in Int BY <1>24, StackTyped
    <3> QED BY <1>24, <3>1, <3>2
  <2> QED BY <1>19, <2>1
<1>31. Ht(ctl, sht_back) >= 0 BY <1>24, <1>26, FixedSlots
<1>32. \A s \in Slots : s # sht_mouse => ctl.sheets0[s].col_inv = Opaque
  BY <1>18, <1>28 DEF Bare
<1>33. Scene(ctl) BY <1>26, <1>29, <1>30, <1>31, <1>32 DEF Scene
<1>34. PICK g : g = d.sheets0[sht_back] OBVIOUS
<1>35. g.vx0 = 0 /\ g.bxsize = z0.bxsize /\ g.bysize = z0.bysize /\ g.buf = p0
  <2>1. g = Sht(1, -1, shtctl_init.sheets0[sht_back].vx0, shtctl_init.sheets0[sht_back].vy0,
                z0.bxsize, z0.bysize, p0, Opaque)
    BY <1>14, <1>15, <1>16, <1>17, <1>18, <1>34, FixedSlots
  <2> QED BY <2>1, FixedSlots, BareInit, ShtFields
<1>36. PICK one : one = d.sheets0[1] OBVIOUS
<1>37. one.bxsize = dim.bxsize /\ one.bysize = dim.bysize /\ one.buf = p1
  <2>1. PICK q : q = c.sheets0[1] OBVIOUS
  <2>2. q = Sht(1, -1, a.sheets0[1].vx0, a.sheets0[1].vy0, dim.bxsize, dim.bysize, p1, Opaque)
    BY <1>15, <1>16, <2>1, FixedSlots
  <2>3. q.bxsize = dim.bxsize /\ q.bysize = dim.bysize /\ q.buf = p1 BY <2>2, ShtFields
  <2>4. one = MovedTo(q, corner[1], corner[2]) BY <1>17, <1>18, <1>36, <2>1, FixedSlots
  <2> QED BY <2>3, <2>4, ShtFields DEF MovedTo
<1>38. PICK m : m = d.sheets0[sht_mouse] OBVIOUS
<1>39. m.bxsize = 2 /\ m.bysize = 2 /\ m.buf = Cursor
  <2>1. PICK q : q = f.sheets0[sht_mouse] OBVIOUS
  <2>2. q = Sht(1, -1, b.sheets0[sht_mouse].vx0, b.sheets0[sht_mouse].vy0,
                z2.bxsize, z2.bysize, Cursor, Transparent)
    BY <1>16, <1>17, <2>1, FixedSlots
  <2>3. q.bxsize = 2 /\ q.bysize = 2 /\ q.buf = Cursor BY <1>4, <2>2, ShtFields
  <2>4. m = MovedTo(q, at[1], at[2]) BY <1>18, <1>38, <2>1
  <2> QED BY <2>3, <2>4, ShtFields DEF MovedTo
<1>40. \A s \in Slots \ {sht_back, 1, sht_mouse} :
         d.sheets0[s].bxsize = 0 /\ Coloured(d.sheets0[s])
  BY <1>14, <1>15, <1>16, <1>17, <1>18, BareInit
<1>41. ASSUME WithinLines PROVE Sound(d)
  <2>1. xsize \in Nat /\ xsize >= 5 /\ dim.bxsize + 3 <= xsize
    BY <1>41, SheetAssumption DEF WithinLines
  <2>2. ASSUME NEW s \in Slots \ {sht_back} PROVE d.sheets0[s].bxsize + 3 <= xsize
    <3>1. CASE s = 1 BY <1>36, <1>37, <2>1, <3>1
    <3>2. CASE s = sht_mouse BY <1>38, <1>39, <2>1, <3>2
    <3>3. CASE s \notin {sht_back, 1, sht_mouse} BY <1>40, <2>1, <3>3
    <3> QED BY <3>1, <3>2, <3>3
  <2> QED BY <1>5, <1>34, <1>35, <2>2 DEF Sound
<1>42. ASSUME NEW s \in Slots PROVE Coloured(d.sheets0[s])
  <2>1. sht_back \in Nat /\ 1 \in Nat BY DEF sht_back
  <2>2. Coloured(g) BY <1>2, <1>3, <1>35, <2>1, PaintedIs
  <2>3. Coloured(one) BY <1>2, <1>37, <2>1, PaintedIs
  <2>4. Coloured(m) BY <1>39, CursorIs
  <2> QED BY <1>34, <1>36, <1>38, <1>40, <2>2, <2>3, <2>4
<1>43. ASSUME WithinLines PROVE Seen(ctl)
  <2>1. Sound(d) BY <1>41, <1>43
  <2>2. MapIs(d) => VramIs(d) BY <1>18, BareVram
  <2>3. VramIs(u) BY <1>21, <2>1, <2>2 DEF Moves
  <2>4. Sound(u) BY <1>22, <2>1, FixedSlots, SoundStays DEF Alike
  <2>5. VramIs(v) BY <1>23, <2>3, <2>4 DEF Moves
  <2>6. Sound(v) BY <1>24, <2>4, FixedSlots, SoundStays DEF Alike
  <2>7. VramIs(ctl) BY <1>25, <2>5, <2>6 DEF Moves
  <2>8. Sound(ctl) BY <1>26, <2>6, FixedSlots, SoundStays DEF Alike
  <2>9. \A s \in Slots : Coloured(ctl.sheets0[s]) BY <1>27, <1>42 DEF Alike, Coloured
  <2> QED BY <2>7, <2>8, <2>9 DEF Seen
<1> QED BY <1>33, <1>43
-----------------------------------------------------------------------------
(* The actions *)

\* A window is in use, and neither the background nor the mouse.
LEMMA WindowIs ==
  ASSUME Scene(ctl), NEW sid \in WindowSlots
  PROVE  sid \in Slots /\ sid # sht_back /\ sid # sht_mouse /\ ctl.sheets0[sid].flags # 0
BY DEF WindowSlots, InUse

\* Some sheet is visible over the background: the mouse, or the background over it.
LEMMA TwoShown ==
  ASSUME Scene(ctl) PROVE ctl.top \in Int /\ ctl.top >= 1 /\ ctl.sheets[1] \in Slots
<1>1. IsStack(ctl) /\ Ht(ctl, sht_back) >= 0 /\ Ht(ctl, sht_mouse) >= 0 BY DEF Scene
<1>2. Ht(ctl, sht_back) # Ht(ctl, sht_mouse) BY <1>1, StackTyped, FixedSlots
<1>3. ctl.top \in Int /\ ctl.top >= 1 BY <1>1, <1>2, StackTyped, FixedSlots
<1> QED BY <1>1, <1>3 DEF IsStack

\* F11 raises the lowest window.
LEMMA F11Scene == ASSUME Scene(ctl), F11 PROVE \E sid \in Slots : Step(ctl', ctl, sid)
<1>1. PICK sid \in Slots : sid = ctl.sheets[1] BY TwoShown
<1>2. PICK w \in Int : w = ctl.top - 1 BY TwoShown
<1>3. Ht(ctl, sid) = 1
  <2>1. PICK one \in 0..ctl.top : one = 1 BY TwoShown
  <2> QED BY <1>1, <2>1 DEF Scene, IsStack
<1>4. ctl' = sheet_updown(ctl, sid, w) BY <1>1, <1>2 DEF F11
<1>5. -1 <= w /\ w <= ctl.top /\ w # -1 BY <1>2, TwoShown
<1> QED BY <1>3, <1>4, <1>5, UpdownScene

\* A click raises a sheet.
LEMMA ClickScene == ASSUME Scene(ctl), NEW sid \in Slots, Click(sid) PROVE Step(ctl', ctl, sid)
<1>1. PICK w \in Int : w = ctl.top - 1 BY TwoShown
<1>2. ctl' = sheet_updown(ctl, sid, w) /\ Ht(ctl, sid) > 0 BY <1>1 DEF Click, Height, Ht
<1>3. -1 <= w /\ w <= ctl.top /\ w # -1 BY <1>1, TwoShown
<1>4. Ht(ctl, sid) # -1 BY <1>2
<1> QED BY <1>2, <1>3, <1>4, UpdownScene

\* A visible window is hidden.
LEMMA HideWindowScene ==
  ASSUME NEW c, Scene(c), NEW sid \in Slots \ {sht_back, sht_mouse}, Ht(c, sid) >= 0,
         NEW r, r = sheet_updown(c, sid, -1)
  PROVE  Step(r, c, sid) /\ Ht(r, sid) = -1
<1>1. PICK w \in Int : w = -1 OBVIOUS
<1>2. -1 <= w /\ w <= c.top BY <1>1, StackTyped DEF Scene
<1>3. Ht(c, sid) # -1 OBVIOUS
<1> QED BY <1>1, <1>2, <1>3, UpdownScene

\* The close button hides a console.
LEMMA ClickCloseScene ==
  ASSUME Scene(ctl), NEW sid \in Slots, ClickClose(sid) PROVE Step(ctl', ctl, sid)
<1>1. sid \in Slots \ {sht_back, sht_mouse} BY WindowIs DEF ClickClose
<1>2. ctl' = sheet_updown(ctl, sid, -1) /\ Ht(ctl, sid) > 0 BY DEF ClickClose, Height, Ht
<1>3. Ht(ctl, sid) >= 0 BY <1>2, StackTyped DEF Scene
<1> QED BY <1>1, <1>2, <1>3, HideWindowScene

\* sheet_free's last assignment
LEMMA FreedIs ==
  ASSUME NEW c, Scene(c), NEW sid \in Slots \ {sht_back, sht_mouse}, Ht(c, sid) = -1,
         NEW r, r = [c EXCEPT !.sheets0[sid].flags = 0]
  PROVE  Step(r, c, sid)
<1>1. PICK s : s = c.sheets0[sid] OBVIOUS
<1>2. IsSht(s) /\ s.col_inv = Opaque /\ s.height = -1 BY <1>1 DEF Scene, IsCtl, Ht
<1>3. PICK t : t = [s EXCEPT !.flags = 0] OBVIOUS
<1>4. t = Sht(0, s.height, s.vx0, s.vy0, s.bxsize, s.bysize, s.buf, s.col_inv)
  BY <1>2, <1>3 DEF IsSht, Sht
<1>5. /\ IsSht(t) /\ t.height = -1 /\ t.col_inv = Opaque
      /\ t.bxsize = s.bxsize /\ t.bysize = s.bysize /\ t.buf = s.buf
  BY <1>2, <1>4, ShtFields DEF IsSht
<1>6. OneSheet(r, c, sid, t)
  <2>1. r = [c EXCEPT !.sheets0 = [c.sheets0 EXCEPT ![sid] = t]]
    <3>1. c = Ctl(c.top, c.sheets, c.map, c.vram, c.sheets0) BY DEF Scene, IsCtl
    <3>2. c.sheets0 = [u \in Slots |-> c.sheets0[u]] BY DEF Scene, IsCtl
    <3> QED BY <1>1, <1>3, <3>1, <3>2 DEF Ctl
  <2> QED BY <1>5, <2>1, OneSheetIs DEF Scene
<1>7. Seen(c) => t.bxsize + 3 <= xsize /\ Coloured(t) BY <1>1, <1>5 DEF Seen, Sound, Coloured
<1> QED BY <1>5, <1>6, <1>7, HiddenScene

\* sheet_free hides the window, if it is visible, and frees its slot.
LEMMA CloseWindowScene ==
  ASSUME Scene(ctl), NEW sid \in Slots, CloseWindow(sid) PROVE Step(ctl', ctl, sid)
<1>1. sid \in Slots \ {sht_back, sht_mouse} BY WindowIs DEF CloseWindow
<1>2. PICK d : d = IF ctl.sheets0[sid].height >= 0 THEN sheet_updown(ctl, sid, -1) ELSE ctl
  OBVIOUS
<1>3. ctl' = [d EXCEPT !.sheets0[sid].flags = 0] BY <1>2, Zenon DEF CloseWindow, sheet_free
<1>4. Step(d, ctl, sid) /\ Ht(d, sid) = -1
  <2>1. CASE Ht(ctl, sid) >= 0
    <3>1. d = sheet_updown(ctl, sid, -1) BY <1>2, <2>1 DEF Ht
    <3> QED BY <1>1, <2>1, <3>1, HideWindowScene
  <2>2. CASE ~(Ht(ctl, sid) >= 0)
    <3>1. d = ctl BY <1>2, <2>2 DEF Ht
    <3>2. Ht(ctl, sid) = -1 BY <1>1, <2>2, StackTyped DEF Scene
    <3> QED BY <3>1, <3>2, NoStep
  <2> QED BY <2>1, <2>2
<1>5. Step(ctl', d, sid)
  <2>1. Scene(d) BY <1>4 DEF Step
  <2> QED BY <1>1, <1>3, <1>4, <2>1, FreedIs
<1> QED BY <1>4, <1>5, StepTwice

\* The mouse moves.
LEMMA MoveMouseScene ==
  ASSUME Scene(ctl), NEW at \in MouseAt, MoveMouse(at) PROVE Step(ctl', ctl, sht_mouse)
<1>1. at \in (0..(xsize - 1)) \X (0..(ysize - 1)) BY SheetAssumption
<1>2. PICK x \in Int, y \in Int : x = at[1] /\ y = at[2] BY <1>1
<1>3. ctl' = sheet_slide(ctl, sht_mouse, x, y) BY <1>2 DEF MoveMouse
<1>4. sht_mouse \in Slots \ {sht_back} BY FixedSlots
<1> QED BY <1>3, <1>4, SlideScene

\* A window is dragged.
LEMMA DragScene ==
  ASSUME Scene(ctl), NEW sid \in Slots, NEW corner \in Corners, Drag(sid, corner)
  PROVE  Step(ctl', ctl, sid)
<1>1. corner \in Int \X Int BY SheetAssumption
<1>2. PICK x \in Int, y \in Int : x = corner[1] /\ y = corner[2] BY <1>1
<1>3. ctl' = sheet_slide(ctl, sid, x, y) BY <1>2 DEF Drag
<1>4. sid \in Slots \ {sht_back} BY WindowIs DEF Drag
<1> QED BY <1>3, <1>4, SlideScene

\* Within the area b has other colours than the buffer of the sheet s, elsewhere the same.
Paints(b, s, area) ==
  /\ DOMAIN b = DOMAIN s.buf
  /\ \A i \in DOMAIN s.buf :
       /\ s.buf[i] # -1 => b[i] # -1
       /\ ~Within(area, i % s.bxsize, i \div s.bxsize) => b[i] = s.buf[i]

\* The area of a stroke that lies in the sheet, and where it is on the screen
StrokeIn(s, stroke) == Clip(stroke, Rect(0, 0, s.bxsize, s.bysize))

\* Draw's assignment to the buffer
LEMMA DrawPaints ==
  ASSUME NEW sid \in Slots, NEW stroke, NEW shade \in {0, 1}, Draw(sid, stroke, shade),
         Coloured(ctl.sheets0[sid]), NEW w \in Nat, NEW h \in Nat,
         w = ctl.sheets0[sid].bxsize, h = ctl.sheets0[sid].bysize,
         NEW area, area = StrokeIn(ctl.sheets0[sid], stroke)
  PROVE  \E b : /\ ctl' = sheet_refresh([ctl EXCEPT !.sheets0[sid].buf = b], sid, area)
                /\ Paints(b, ctl.sheets0[sid], area)
<1> PICK s : s = ctl.sheets0[sid] OBVIOUS
<1> DEFINE Inside(i) == Within(area, i % s.bxsize, i \div s.bxsize)
           b == [i \in DOMAIN s.buf |-> IF Inside(i) THEN Colour(sid, i, shade) ELSE s.buf[i]]
<1>1. ctl' = sheet_refresh([ctl EXCEPT !.sheets0[sid].buf = b], sid, area)
  BY Zenon DEF Draw, StrokeIn
<1>2. ASSUME NEW i \in DOMAIN s.buf PROVE Colour(sid, i, shade) # -1
  <2>1. PICK n \in Int : n = w * h - 1 OBVIOUS
  <2>2. i \in 0..n BY <2>1 DEF Coloured
  <2>3. sid \in Nat BY SheetAssumption DEF Slots
  <2>4. 1000 * (sid + 1) \in Nat /\ 2 * i \in Nat BY <2>2, <2>3
  <2> QED BY <2>4 DEF Colour
<1>3. Paints(b, s, area) BY <1>2, Zenon DEF Paints
<1> HIDE DEF b
<1> QED BY <1>1, <1>3

\* Where a stroke is on the screen: it ends behind the left edge of its sheet, or begins there.
LEMMA StrokeIs ==
  ASSUME NEW t, IsSht(t), NEW stroke, IsStroke(stroke), NEW area, area = StrokeIn(t, stroke),
         NEW a, a = Moved(area, t.vx0, t.vy0)
  PROVE  /\ IsArea(area) /\ IsArea(a) /\ Fits(a, t)
         /\ \A x, y \in Int : Within(a, x, y) <=> Within(area, x - t.vx0, y - t.vy0)
<1>1. PICK vx \in Int, vy \in Int, w \in Nat, h \in Nat :
        t.vx0 = vx /\ t.vy0 = vy /\ t.bxsize = w /\ t.bysize = h
  BY DEF IsSht
<1>2. PICK z \in Int : z = 0 OBVIOUS
<1>3. PICK q : q = Rect(z, z, w, h) OBVIOUS
<1>4. IsArea(q) /\ q.x0 = 0 /\ q.y0 = 0 /\ q.x1 = w /\ q.y1 = h
  BY <1>2, <1>3 DEF Rect, IsArea
<1>5. IsArea(stroke) /\ stroke.x0 <= stroke.x1 BY DEF IsArea, IsStroke
<1>6. area = Clip(stroke, q) BY <1>1, <1>2, <1>3 DEF StrokeIn
<1>7. /\ IsArea(area) /\ area.x0 = (IF stroke.x0 >= 0 THEN stroke.x0 ELSE 0)
      /\ area.x1 = (IF stroke.x1 <= w THEN stroke.x1 ELSE w)
  BY <1>4, <1>5, <1>6, ClipIs
<1>8. PICK x0, y0, x1, y1 :
        x0 = area.x0 + vx /\ y0 = area.y0 + vy /\ x1 = area.x1 + vx /\ y1 = area.y1 + vy
  OBVIOUS
<1>9. x0 \in Int /\ y0 \in Int /\ x1 \in Int /\ y1 \in Int BY <1>1, <1>7, <1>8 DEF IsArea
<1>10. a = Rect(x0, y0, x1, y1) BY <1>1, <1>8 DEF Moved
<1>11. IsArea(a) /\ a.x0 = x0 /\ a.y0 = y0 /\ a.x1 = x1 /\ a.y1 = y1
  BY <1>9, <1>10 DEF Rect, IsArea
<1>12. Fits(a, t)
  <2>1. area.x1 >= 0 \/ area.x0 <= 0 BY <1>5, <1>7 DEF IsArea
  <2> QED BY <1>1, <1>7, <1>8, <1>11, <2>1 DEF Fits, IsArea
<1>13. ASSUME NEW x \in Int, NEW y \in Int
       PROVE  Within(a, x, y) <=> Within(area, x - t.vx0, y - t.vy0)
  BY <1>1, <1>7, <1>8, <1>11 DEF Within, IsArea
<1> QED BY <1>7, <1>11, <1>12, <1>13

\* After a window has drawn, the screen shows it as it is now.
LEMMA DrawSeen ==
  ASSUME NEW c, Scene(c), Seen(c), NEW sid \in Slots, NEW s, s = c.sheets0[sid],
         s.col_inv = Opaque, NEW stroke, IsStroke(stroke), NEW area, area = StrokeIn(s, stroke),
         NEW b, Paints(b, s, area), NEW t, t = Redrawing(s, b),
         NEW d, Scene(d), OneSheet(d, c, sid, t), NEW r, r = sheet_refresh(d, sid, area)
  PROVE  VramIs(r)
<1>1. /\ t.height = s.height /\ t.vx0 = s.vx0 /\ t.vy0 = s.vy0 /\ t.bxsize = s.bxsize
      /\ t.bysize = s.bysize /\ t.buf = b /\ t.col_inv = Opaque
  BY RedrawingIs
<1>2. /\ IsCtl(c) /\ IsStack(c) /\ MapIs(c) /\ VramIs(c) /\ Sound(c)
      /\ IsCtl(d) /\ IsStack(d) /\ MapIs(d) /\ d.map = c.map /\ d.vram = c.vram
      /\ d.sheets0[sid] = t /\ \A u \in Slots \ {sid} : d.sheets0[u] = c.sheets0[u]
  BY DEF Scene, Seen, OneSheet
<1>3. IsSht(s) /\ IsSht(t) BY <1>2 DEF IsCtl
<1> SUFFICES ASSUME NEW p \in Pixels PROVE VramAt(r, p) BY DEF VramIs
<1>4. PICK u \in Slots : u = d.map[p] /\ TopAt(d, p, u) BY <1>2 DEF MapIs, TopAt
<1>5. c.vram[p] = Look(c, u, p) BY <1>2, <1>4 DEF VramIs, VramAt
<1>6. u # sid => VramAt(d, p)
  <2> SUFFICES ASSUME u # sid PROVE VramAt(d, p) OBVIOUS
  <2>1. Look(d, u, p) = Look(c, u, p) BY <1>2 DEF Look
  <2> QED BY <1>2, <1>4, <1>5, <2>1 DEF VramAt
<1>7. CASE Ht(d, sid) < 0
  <2>1. r = d BY <1>7 DEF sheet_refresh, Ht
  <2>2. u # sid BY <1>2, <1>4, <1>7, StackTyped DEF TopAt
  <2> QED BY <1>6, <2>1, <2>2
<1>8. CASE Ht(d, sid) >= 0
  <2>1. PICK h \in Nat : h = Ht(d, sid) /\ h <= d.top BY <1>2, <1>8, StackTyped
  <2>2. PICK a : a = Moved(area, t.vx0, t.vy0) OBVIOUS
  <2>3. r = sheet_refreshsub(d, a, h, h)
    <3>1. d.sheets0[sid].height = h /\ ~(h < 0) BY <2>1 DEF Ht
    <3> QED BY <1>2, <2>2, <3>1 DEF sheet_refresh
  <2>4. area = StrokeIn(t, stroke) BY <1>1 DEF StrokeIn
  <2>5. /\ IsArea(a) /\ Fits(a, t)
        /\ \A x, y \in Int : Within(a, x, y) <=> Within(area, x - t.vx0, y - t.vy0)
    BY <1>3, <2>2, <2>4, StrokeIs
  <2>6. FitsLine(d.sheets0[u])
    <3>1. FitsLine(c.sheets0[u]) BY <1>2, SoundFits
    <3> QED BY <1>1, <1>2, <3>1 DEF FitsLine
  <2>7. Ht(d, u) = h => u = sid BY <1>2, <2>1, StackTyped
  <2>8. Drawable(d, a, h, h, p, u)
    <3>1. Ht(d, u) \in h..h => Fits(a, d.sheets0[u]) BY <1>2, <2>1, <2>5, <2>7
    <3> QED BY <1>2, <1>4, <2>1, <2>5, <2>6, <3>1 DEF Drawable
  <2>9. /\ VramAt(d, p) => VramAt(r, p)
        /\ Within(a, X(p), Y(p)) /\ Ht(d, u) \in h..h => VramAt(r, p)
    BY <2>3, <2>8, DrawnBy
  <2>10. CASE u # sid BY <1>6, <2>9, <2>10
  <2>11. CASE u = sid /\ Within(a, X(p), Y(p)) BY <2>1, <2>9, <2>11
  <2>12. CASE u = sid /\ ~Within(a, X(p), Y(p))
    <3>1. PICK i : i = BufAt(s, p) OBVIOUS
    <3>2. BufAt(t, p) = i BY <1>1, <3>1 DEF BufAt
    <3>3. Within(AreaOf(t), X(p), Y(p)) BY <1>2, <1>4, <2>12, ShowsInside DEF TopAt, Sees
    <3>4. AreaOf(s) = AreaOf(t) BY <1>1 DEF AreaOf
    <3>5. /\ i \in 0..(s.bxsize * s.bysize - 1)
          /\ i % s.bxsize = X(p) - s.vx0 /\ i \div s.bxsize = Y(p) - s.vy0
      BY <1>3, <3>1, <3>3, <3>4, BufAtIs
    <3>6. X(p) \in Int /\ Y(p) \in Int BY PixelAt, SheetAssumption
    <3>7. ~Within(area, i % s.bxsize, i \div s.bxsize) BY <1>1, <2>5, <2>12, <3>5, <3>6
    <3>8. i \in DOMAIN s.buf BY <3>5 DEF Seen, Coloured
    <3>9. b[i] = s.buf[i] BY <3>7, <3>8 DEF Paints
    <3>10. Look(d, u, p) = Look(c, u, p) BY <1>1, <1>2, <2>12, <3>1, <3>2, <3>9 DEF Look
    <3>11. VramAt(d, p) BY <1>2, <1>4, <1>5, <3>10 DEF VramAt
    <3> QED BY <2>9, <3>11
  <2> QED BY <2>10, <2>11, <2>12
<1> QED BY <1>2, <1>7, <1>8, StackTyped

\* A window draws and refreshes.
LEMMA DrawScene ==
  ASSUME Scene(ctl), NEW sid \in Slots, NEW stroke \in Strokes, NEW shade \in {0, 1},
         Draw(sid, stroke, shade)
  PROVE  Step(ctl', ctl, sid)
<1> PICK s : s = ctl.sheets0[sid] OBVIOUS
<1>1. sid \in Slots \ {sht_mouse} BY WindowIs, Zenon DEF Draw
<1>2. IsSht(s) /\ s.col_inv = Opaque BY <1>1 DEF Scene, IsCtl
<1>3. PICK area : area = StrokeIn(s, stroke) OBVIOUS
<1>4. PICK b : /\ ctl' = sheet_refresh([ctl EXCEPT !.sheets0[sid].buf = b], sid, area)
               /\ Seen(ctl) => Paints(b, s, area)
  <2>1. CASE Seen(ctl)
    <3>1. Coloured(s) BY <2>1 DEF Seen
    <3>2. PICK w \in Nat, h \in Nat : w = s.bxsize /\ h = s.bysize BY <1>2 DEF IsSht
    <3> QED BY <1>3, <3>1, <3>2, DrawPaints
  <2>2. CASE ~Seen(ctl)
    <3>1. \E b : ctl' = sheet_refresh([ctl EXCEPT !.sheets0[sid].buf = b], sid,
                                      Clip(stroke, Rect(0, 0, ctl.sheets0[sid].bxsize,
                                                        ctl.sheets0[sid].bysize)))
      BY Zenon DEF Draw
    <3> QED BY <1>3, <2>2, <3>1 DEF StrokeIn
  <2> QED BY <2>1, <2>2
<1>5. PICK d : d = [ctl EXCEPT !.sheets0[sid].buf = b] OBVIOUS
<1>6. PICK t : t = Redrawing(s, b) OBVIOUS
<1>7. Scene(d) /\ OneSheet(d, ctl, sid, t) BY <1>1, <1>5, <1>6, DrawnScene
<1>8. ctl' = sheet_refresh(d, sid, area) BY <1>4, <1>5
<1>9. Scene(ctl') /\ ctl'.sheets0 = d.sheets0
  <2>1. PICK r : r = sheet_refresh(d, sid, area) OBVIOUS
  <2>2. Scene(r) /\ r.sheets0 = d.sheets0 BY <1>7, <2>1, RefreshScene
  <2> QED BY <1>8, <2>1, <2>2
<1>10. /\ d.sheets0[sid] = t /\ \A u \in Slots \ {sid} : d.sheets0[u] = ctl.sheets0[u]
       /\ t.height = s.height /\ t.vx0 = s.vx0 /\ t.bxsize = s.bxsize /\ t.bysize = s.bysize
       /\ t.buf = b
  BY <1>6, <1>7, RedrawingIs DEF OneSheet
<1>11. \A u \in Slots : Ht(ctl', u) = Ht(ctl, u) BY <1>9, <1>10 DEF Ht
<1>12. InOrder(ctl', ctl, sid) BY <1>11 DEF InOrder
<1>13. \A u \in Slots \ {sid} : Alike(ctl'.sheets0[u], ctl.sheets0[u])
  BY <1>9, <1>10 DEF Alike
<1>14. ASSUME WithinLines, Seen(ctl) PROVE Seen(ctl')
  <2>1. IsStroke(stroke) BY <1>14 DEF WithinLines
  <2>2. Paints(b, s, area) BY <1>4, <1>14
  <2>3. VramIs(ctl') BY <1>2, <1>3, <1>6, <1>7, <1>8, <1>14, <2>1, <2>2, DrawSeen
  <2>4. Sound(ctl')
    <3>1. Sound(ctl) BY <1>14 DEF Seen
    <3>2. /\ \A u \in Slots : ctl'.sheets0[u].bxsize = ctl.sheets0[u].bxsize
          /\ ctl'.sheets0[sht_back].vx0 = ctl.sheets0[sht_back].vx0
      BY <1>9, <1>10, FixedSlots
    <3> QED BY <3>1, <3>2, FixedSlots, SoundStays
  <2>5. Coloured(t)
    <3>1. Coloured(s) BY <1>14 DEF Seen
    <3> QED BY <1>10, <2>2, <3>1 DEF Coloured, Paints
  <2>6. \A u \in Slots : Coloured(ctl'.sheets0[u]) BY <1>9, <1>10, <1>14, <2>5 DEF Seen
  <2> QED BY <2>3, <2>4, <2>6 DEF Seen
<1> QED BY <1>9, <1>12, <1>13, <1>14 DEF Step

\* sheet_alloc finds a free slot if there is one.
LEMMA LowestFree ==
  ASSUME \E sid \in Slots : ~InUse(sid)
  PROVE  Min({s \in Slots : ~InUse(s)}) \in {s \in Slots : ~InUse(s)}
<1>1. PICK S : S = {s \in Slots : ~InUse(s)} OBVIOUS
<1>2. S \subseteq Nat /\ S # {} BY <1>1, SheetAssumption DEF Slots
<1>3. \E m \in S : \A k \in S : m <= k BY <1>2, LeastExists
<1>4. Min(S) \in S BY <1>3 DEF Min
<1> QED BY <1>1, <1>4

\* A window is opened: sheet_alloc, sheet_setbuf, sheet_slide and sheet_updown.
LEMMA OpenWindowScene ==
  ASSUME Scene(ctl), NEW dim \in Windows, NEW corner \in Corners, OpenWindow(dim, corner)
  PROVE  \E sid \in Slots : Step(ctl', ctl, sid)
<1>1. PICK sid : sid = Min({s \in Slots : ~InUse(s)}) OBVIOUS
<1>2. sid \in Slots /\ ctl.sheets0[sid].flags = 0 BY <1>1, LowestFree DEF OpenWindow, InUse
<1>3. Ht(ctl, sid) = -1
  <2>1. ~(Ht(ctl, sid) >= 0) BY <1>2 DEF Scene
  <2> QED BY <1>2, <2>1, StackTyped DEF Scene
<1>4. sid # sht_back /\ sid # sht_mouse BY <1>3 DEF Scene
<1>5. PICK x \in Int, y \in Int : x = corner[1] /\ y = corner[2] BY SheetAssumption
<1>6. PICK p : p = Painted(sid, dim) OBVIOUS
<1>7. PICK c : c = Allocated(ctl, sid, dim, p, Opaque) OBVIOUS
<1>8. PICK d : d = sheet_slide(c, sid, x, y) OBVIOUS
<1>9. PICK w \in Int : w = ctl.top BY StackTyped DEF Scene
<1>10. ctl' = sheet_updown(d, sid, w)
  BY <1>1, <1>5, <1>6, <1>7, <1>8, <1>9, Zenon DEF OpenWindow
<1>11. PICK t : t = Sht(1, -1, ctl.sheets0[sid].vx0, ctl.sheets0[sid].vy0,
                        dim.bxsize, dim.bysize, p, Opaque)
  OBVIOUS
<1>12. /\ t.height = -1 /\ t.col_inv = Opaque /\ t.flags = 1
       /\ t.bxsize = dim.bxsize /\ t.bysize = dim.bysize /\ t.buf = p
  BY <1>11, ShtFields
<1>13. OneSheet(c, ctl, sid, t)
  <2>1. dim \in [bxsize : Nat, bysize : Nat]
    <3>1. dim \in [bxsize : Nat \ {0}, bysize : Nat \ {0}] BY SheetAssumption
    <3> QED BY <3>1
  <2> QED BY <1>2, <1>7, <1>11, <2>1, AllocatedIs DEF Scene
<1>14. Step(c, ctl, sid) /\ c.top = ctl.top
  <2>1. sid \in Nat BY <1>2, SheetAssumption DEF Slots
  <2>2. Coloured(t) BY <1>6, <1>12, <2>1, PaintedIs
  <2>3. WithinLines => t.bxsize + 3 <= xsize BY <1>12 DEF WithinLines
  <2> QED BY <1>2, <1>3, <1>12, <1>13, <2>2, <2>3, HiddenScene
<1>15. /\ Step(d, c, sid) /\ d.top = c.top /\ d.sheets0[sid] = MovedTo(c.sheets0[sid], x, y)
  <2>1. sid \in Slots \ {sht_back} /\ Scene(c) BY <1>2, <1>4, <1>14 DEF Step
  <2> QED BY <1>8, <2>1, SlideScene
<1>16. d.sheets0[sid].flags # 0
  <2>1. c.sheets0[sid].flags = 1 BY <1>2, <1>12, <1>13 DEF OneSheet
  <2> QED BY <1>15, <2>1, ShtFields DEF MovedTo
<1>17. -1 <= w /\ w <= d.top /\ w # -1 BY <1>9, <1>14, <1>15, TwoShown
<1>18. Step(ctl', d, sid)
  <2>1. Scene(d) BY <1>15 DEF Step
  <2> QED BY <1>2, <1>10, <1>16, <1>17, <2>1, UpdownScene
<1>19. Step(d, ctl, sid) BY <1>14, <1>15, StepTwice
<1> QED BY <1>2, <1>18, <1>19, StepTwice

\* Every action changes one sheet.
LEMMA NextScene ==
  ASSUME Scene(ctl), SheetNext PROVE \E sid \in Slots : Step(ctl', ctl, sid)
<1> DEFINE OneChanges == \E sid \in Slots : Step(ctl', ctl, sid)
<1>1. CASE F11 BY <1>1, F11Scene
<1>2. ASSUME NEW sid \in Slots, Click(sid) PROVE OneChanges BY <1>2, ClickScene
<1>3. ASSUME NEW sid \in Slots, ClickClose(sid) PROVE OneChanges BY <1>3, ClickCloseScene
<1>4. ASSUME NEW sid \in Slots, CloseWindow(sid) PROVE OneChanges BY <1>4, CloseWindowScene
<1>5. ASSUME NEW sid \in Slots, NEW corner \in Corners, Drag(sid, corner) PROVE OneChanges
  BY <1>5, DragScene
<1>6. ASSUME NEW sid \in Slots, NEW stroke \in Strokes, NEW shade \in {0, 1},
             Draw(sid, stroke, shade)
      PROVE  OneChanges
  BY <1>6, DrawScene
<1>7. ASSUME NEW dim \in Windows, NEW corner \in Corners, OpenWindow(dim, corner)
      PROVE  OneChanges
  BY <1>7, OpenWindowScene
<1>8. ASSUME NEW at \in MouseAt, MoveMouse(at) PROVE OneChanges
  BY <1>8, MoveMouseScene, FixedSlots
<1> QED BY <1>1, <1>2, <1>3, <1>4, <1>5, <1>6, <1>7, <1>8 DEF SheetNext

\* A right scene is what SheetsAgree asks for.
LEMMA SceneAgrees == ASSUME Scene(ctl) PROVE SheetsAgree
<1>1. IsStack(ctl) /\ MapIs(ctl) BY DEF Scene
<1>2. StackOK
  <2>1. ctl.top \in -1..(MAX_SHEETS - 1) BY <1>1 DEF IsStack
  <2>2. \A h \in 0..ctl.top : ctl.sheets[h] \in Slots /\ Height(ctl.sheets[h]) = h
    BY <1>1 DEF IsStack, Height, Ht
  <2>3. ASSUME NEW s \in Slots, Height(s) >= 0
        PROVE  Height(s) <= ctl.top /\ ctl.sheets[Height(s)] = s /\ InUse(s)
    <3>1. Ht(ctl, s) >= 0 BY <2>3 DEF Height, Ht
    <3>2. Ht(ctl, s) <= ctl.top BY <1>1, StackTyped
    <3>3. ctl.sheets[Ht(ctl, s)] = s BY <1>1, <3>1 DEF IsStack
    <3>4. ctl.sheets0[s].flags # 0 BY <3>1 DEF Scene
    <3> QED BY <3>2, <3>3, <3>4 DEF Height, Ht, InUse
  <2> QED BY <2>1, <2>2, <2>3 DEF StackOK
<1>3. MapIsTopmost
  <2> SUFFICES ASSUME NEW p \in Pixels
               PROVE  ctl.map[p] = ctl.sheets[Max({h \in 0..ctl.top :
                                                    Shows(ctl.sheets0[ctl.sheets[h]], p)})]
    BY DEF MapIsTopmost
  <2>1. PICK s : s = ctl.map[p] OBVIOUS
  <2>2. TopAt(ctl, p, s) BY <1>1, <2>1 DEF MapIs
  <2>3. s \in Slots /\ Ht(ctl, s) >= 0 /\ Sees(ctl, s, p) BY <2>2 DEF TopAt
  <2>4. PICK n \in 0..ctl.top : n = Ht(ctl, s) BY <1>1, <2>3, StackTyped
  <2>5. ctl.sheets[n] = s BY <1>1, <2>3, <2>4 DEF IsStack
  <2>6. PICK S : S = {h \in 0..ctl.top : Shows(ctl.sheets0[ctl.sheets[h]], p)} OBVIOUS
  <2>7. n \in S BY <2>3, <2>4, <2>5, <2>6 DEF Sees
  <2>8. \A h \in S : h <= n
    <3> SUFFICES ASSUME NEW h \in S PROVE h <= n OBVIOUS
    <3>1. PICK u : u = ctl.sheets[h] OBVIOUS
    <3>2. h \in 0..ctl.top /\ Sees(ctl, u, p) BY <2>6, <3>1 DEF Sees
    <3>3. u \in Slots /\ Ht(ctl, u) = h BY <1>1, <3>1, <3>2 DEF IsStack
    <3>4. Ht(ctl, u) >= 0 BY <3>2, <3>3
    <3> QED BY <2>2, <2>4, <3>2, <3>3, <3>4 DEF TopAt
  <2>9. Max(S) = n
    <3>1. S \subseteq 0..ctl.top /\ S # {} /\ ctl.top \in Int BY <1>1, <2>6, <2>7, StackTyped
    <3>2. PICK lo \in Int : lo = 0 OBVIOUS
    <3>3. PICK m : m = Max(S) OBVIOUS
    <3>4. m \in S /\ \A k \in S : k <= m BY <3>1, <3>2, <3>3, MaxIs
    <3>5. m <= n /\ n <= m BY <2>7, <2>8, <3>4
    <3>6. m \in Int BY <3>1, <3>4
    <3> QED BY <3>3, <3>5, <3>6
  <2> QED BY <2>1, <2>5, <2>6, <2>9
<1> QED BY <1>2, <1>3 DEF SheetsAgree

\* The heights, the stack and the map agree after every call: whatever is clicked,
\* dragged, opened, closed and drawn, in whatever order (sheet.c:42-262).
THEOREM MapIsRight == SheetSpec => []SheetsAgree
<1>1. SheetInit => Scene(ctl) BY InitScene
<1>2. Scene(ctl) /\ [SheetNext]_ctl => Scene(ctl)'
  <2>1. ASSUME Scene(ctl), [SheetNext]_ctl PROVE Scene(ctl')
    BY <2>1, NextScene DEF Step
  <2> QED BY <2>1 DEF Scene, IsCtl, IsStack, MapIs, FillsScreen, TopAt, Ht, Sees
<1>3. Scene(ctl) => SheetsAgree BY SceneAgrees
<1> QED BY <1>1, <1>2, <1>3, PTL DEF SheetSpec
-----------------------------------------------------------------------------
(* What is seen is a stack of windows. *)

\* The windows of the abstract specification: the lowest first, and what each one shows
StackOf(c) == [i \in 1..(c.top + 1) |-> c.sheets[i - 1]]
LooksOf(c) == [s \in Slots |-> [p \in Pixels |-> IF Sees(c, s, p) THEN Look(c, s, p) ELSE -1]]

\* The stack has every visible sheet once, in the order of the heights.
LEMMA StackIs ==
  ASSUME NEW c, IsStack(c), NEW st, st = StackOf(c)
  PROVE  /\ Stack!IsStack(st)
         /\ \A i \in DOMAIN st : st[i] \in Slots /\ Ht(c, st[i]) = i - 1
         /\ \A u \in Slots : Ht(c, u) >= 0 => \E i \in DOMAIN st : i = Ht(c, u) + 1 /\ st[i] = u
<1>1. PICK n \in Nat : n = c.top + 1 BY StackTyped
<1>2. st = [i \in 1..n |-> c.sheets[i - 1]] /\ DOMAIN st = 1..n BY <1>1 DEF StackOf
<1>3. ASSUME NEW i \in 1..n PROVE st[i] \in Slots /\ Ht(c, st[i]) = i - 1
  <2>1. PICK h \in 0..c.top : h = i - 1 BY <1>1, StackTyped
  <2>2. st[i] = c.sheets[h] BY <1>2, <2>1
  <2> QED BY <2>1, <2>2 DEF IsStack
<1>4. ASSUME NEW u \in Slots, Ht(c, u) >= 0 PROVE \E i \in 1..n : i = Ht(c, u) + 1 /\ st[i] = u
  <2>1. PICK h \in 0..c.top : h = Ht(c, u) BY <1>4, StackTyped
  <2>2. PICK i \in 1..n : i = h + 1 BY <1>1, <2>1, StackTyped
  <2>3. i - 1 = h BY <2>2
  <2>4. st[i] = c.sheets[h] BY <1>2, <2>3
  <2>5. c.sheets[h] = u BY <2>1 DEF IsStack
  <2> QED BY <2>1, <2>2, <2>4, <2>5
<1>5. st \in Seq(Slots) BY <1>2, <1>3
<1>6. \A i, k \in DOMAIN st : st[i] = st[k] => i = k BY <1>2, <1>3
<1> QED BY <1>2, <1>3, <1>4, <1>5, <1>6 DEF Stack!IsStack, Stack!IsInjective

\* The order of the abstract stack is the order of the heights.
LEMMA NotAboveIs ==
  ASSUME NEW c, IsStack(c), NEW st, st = StackOf(c), NEW u \in Slots, NEW v \in Slots
  PROVE  Stack!NotAbove(st, u, v) <=> Ht(c, u) >= 0 /\ Ht(c, u) <= Ht(c, v)
<1>1. /\ \A i \in DOMAIN st : st[i] \in Slots /\ Ht(c, st[i]) = i - 1
      /\ \A s \in Slots : Ht(c, s) >= 0 => \E i \in DOMAIN st : i = Ht(c, s) + 1 /\ st[i] = s
  BY StackIs
<1>2. DOMAIN st \subseteq Nat /\ \A i \in DOMAIN st : i >= 1
  BY StackTyped DEF StackOf
<1>3. Ht(c, u) \in Int /\ Ht(c, v) \in Int BY StackTyped
<1>4. ASSUME NEW i \in DOMAIN st, NEW k \in DOMAIN st, i <= k, st[i] = u, st[k] = v
      PROVE  Ht(c, u) >= 0 /\ Ht(c, u) <= Ht(c, v)
  <2>1. Ht(c, u) = i - 1 /\ Ht(c, v) = k - 1 BY <1>1, <1>4
  <2> QED BY <1>2, <1>4, <2>1
<1>5. ASSUME Ht(c, u) >= 0, Ht(c, u) <= Ht(c, v)
      PROVE  \E i, k \in DOMAIN st : i <= k /\ st[i] = u /\ st[k] = v
  <2>1. Ht(c, v) >= 0 BY <1>3, <1>5
  <2>2. PICK i \in DOMAIN st : i = Ht(c, u) + 1 /\ st[i] = u BY <1>1, <1>5
  <2>3. PICK k \in DOMAIN st : k = Ht(c, v) + 1 /\ st[k] = v BY <1>1, <2>1
  <2> QED BY <1>3, <1>5, <2>2, <2>3
<1> QED BY <1>4, <1>5 DEF Stack!NotAbove

\* A sheet that is seen has a colour there.
LEMMA LookIs ==
  ASSUME NEW c, Scene(c), Seen(c), NEW s \in Slots, NEW p \in Pixels, Sees(c, s, p)
  PROVE  Look(c, s, p) # -1
<1> PICK t : t = c.sheets0[s] OBVIOUS
<1>1. IsSht(t) /\ Coloured(t) BY DEF Scene, IsCtl, Seen
<1>2. Within(AreaOf(t), X(p), Y(p)) BY ShowsInside DEF Sees
<1>3. PICK i : i = BufAt(t, p) OBVIOUS
<1>4. i \in 0..(t.bxsize * t.bysize - 1) BY <1>1, <1>2, <1>3, BufAtIs
<1>5. t.buf[i] # -1 BY <1>1, <1>4 DEF Coloured
<1> QED BY <1>3, <1>5 DEF Look

\* The screen is the picture that the stack gives.
LEMMA PictureIs ==
  ASSUME NEW c, Scene(c), Seen(c) PROVE c.vram = Stack!Picture(StackOf(c), LooksOf(c))
<1> PICK st, lk : st = StackOf(c) /\ lk = LooksOf(c) OBVIOUS
<1>1. IsCtl(c) /\ IsStack(c) /\ MapIs(c) /\ VramIs(c) BY DEF Scene, Seen
<1>2. /\ \A i \in DOMAIN st : st[i] \in Slots /\ Ht(c, st[i]) = i - 1
      /\ \A u \in Slots : Ht(c, u) >= 0 => \E i \in DOMAIN st : i = Ht(c, u) + 1 /\ st[i] = u
  BY <1>1, StackIs
<1>3. PICK n \in Int : DOMAIN st = 1..n
  <2>1. PICK n \in Int : n = c.top + 1 BY <1>1, StackTyped
  <2> QED BY <2>1 DEF StackOf
<1>4. \A s \in Slots, p \in Pixels :
        /\ lk[s][p] # -1 <=> Sees(c, s, p)
        /\ Sees(c, s, p) => lk[s][p] = Look(c, s, p)
  <2>1. \A s \in Slots, p \in Pixels : lk[s][p] = IF Sees(c, s, p) THEN Look(c, s, p) ELSE -1
    BY DEF LooksOf
  <2> QED BY <2>1, LookIs
<1>5. ASSUME NEW p \in Pixels
      PROVE  c.vram[p] = lk[st[Stack!Max({i \in DOMAIN st : lk[st[i]][p] # -1})]][p]
  <2>1. PICK s \in Slots : s = c.map[p] /\ TopAt(c, p, s) BY <1>1 DEF MapIs, TopAt
  <2>2. Ht(c, s) >= 0 /\ Sees(c, s, p) BY <2>1 DEF TopAt
  <2>3. PICK j \in DOMAIN st : j = Ht(c, s) + 1 /\ st[j] = s BY <1>2, <2>2
  <2>4. PICK S : S = {i \in DOMAIN st : lk[st[i]][p] # -1} OBVIOUS
  <2>5. j \in S BY <1>4, <2>2, <2>3, <2>4
  <2>6. ASSUME NEW k \in S PROVE k <= j
    <3>1. PICK u \in Slots : u = st[k] /\ Ht(c, u) = k - 1 /\ k \in 1..n BY <1>2, <1>3, <2>4
    <3>2. Sees(c, u, p) BY <1>4, <2>4, <3>1
    <3>3. Ht(c, u) <= Ht(c, s) BY <2>1, <3>1, <3>2 DEF TopAt
    <3>4. Ht(c, s) = j - 1 BY <1>2, <2>3
    <3> QED BY <1>3, <3>1, <3>3, <3>4
  <2>7. Max(S) = j
    <3>1. PICK lo \in Int : lo = 1 OBVIOUS
    <3>2. S \subseteq lo..n /\ S # {} BY <1>3, <2>4, <2>5, <3>1
    <3>3. PICK m : m = Max(S) OBVIOUS
    <3>4. m \in S /\ \A k \in S : k <= m BY <3>2, <3>3, MaxIs
    <3>5. m <= j /\ j <= m BY <2>5, <2>6, <3>4
    <3>6. m \in Int /\ j \in Int BY <3>2, <3>4, <2>5
    <3> QED BY <3>3, <3>5, <3>6
  <2>8. Stack!Max(S) = Max(S) BY Zenon DEF Stack!Max, Max
  <2>9. c.vram[p] = Look(c, s, p) BY <1>1, <2>1 DEF VramIs, VramAt
  <2> QED BY <1>4, <2>2, <2>3, <2>4, <2>7, <2>8, <2>9
<1>6. c.vram = [p \in Pixels |-> c.vram[p]] BY <1>1 DEF IsCtl
<1> QED BY <1>5, <1>6 DEF Stack!Picture

\* A call of sheet.c moves one sheet in the stack, or changes what it shows.
LEMMA StepRestacks ==
  ASSUME NEW r, NEW c, NEW sid \in Slots, Step(r, c, sid), Scene(c),
         NEW st, NEW lk, NEW st2, NEW lk2,
         st = StackOf(c), lk = LooksOf(c), st2 = StackOf(r), lk2 = LooksOf(r)
  PROVE  /\ Stack!IsStack(st2)
         /\ \A u, v \in Slots \ {sid} : Stack!NotAbove(st2, u, v) <=> Stack!NotAbove(st, u, v)
         /\ \A v \in Slots \ {sid} : lk2[v] = lk[v]
<1>1. IsStack(c) /\ IsStack(r) BY DEF Step, Scene
<1>2. Stack!IsStack(st2) BY <1>1, StackIs
<1>3. ASSUME NEW u \in Slots \ {sid}, NEW v \in Slots \ {sid}
      PROVE  Stack!NotAbove(st2, u, v) <=> Stack!NotAbove(st, u, v)
  <2>1. Stack!NotAbove(st2, u, v) <=> Ht(r, u) >= 0 /\ Ht(r, u) <= Ht(r, v)
    BY <1>1, NotAboveIs
  <2>2. Stack!NotAbove(st, u, v) <=> Ht(c, u) >= 0 /\ Ht(c, u) <= Ht(c, v)
    BY <1>1, NotAboveIs
  <2> QED BY <2>1, <2>2 DEF Step, InOrder
<1>4. ASSUME NEW v \in Slots \ {sid} PROVE lk2[v] = lk[v]
  <2>1. Alike(r.sheets0[v], c.sheets0[v]) BY DEF Step
  <2>2. \A p : Sees(r, v, p) <=> Sees(c, v, p) BY <2>1, AlikeSees DEF Sees
  <2>3. \A p : Look(r, v, p) = Look(c, v, p) BY <2>1 DEF Look, Alike, BufAt
  <2> QED BY <2>2, <2>3 DEF LooksOf
<1> QED BY <1>2, <1>3, <1>4

\* What is seen after each call is the stack of the visible windows, seen from above: the
\* three pictures that sheet.c keeps (heights, stack, map), its clipping and its drawing in
\* words of four pixels are never noticed, if the windows are three pixels narrower than
\* the screen (sheet.c:42-262).
THEOREM WindowsAreAStack == ASSUME WithinLines PROVE SheetSpec => ImplementsStack
<1> DEFINE I == Scene(ctl) /\ Seen(ctl)
<1>1. SheetInit => I BY InitScene
<1>2. I /\ [SheetNext]_ctl => I'
  <2>1. ASSUME I, [SheetNext]_ctl PROVE Scene(ctl') /\ Seen(ctl') BY <2>1, NextScene DEF Step
  <2> QED BY <2>1 DEF Scene, IsCtl, IsStack, MapIs, FillsScreen, TopAt, Ht, Sees, Seen, Sound,
                      VramIs, VramAt, Look, Coloured
<1>3. I => Stack!Init
  <2>1. I => Stack!IsStack(StackOf(ctl)) /\ ctl.vram = Stack!Picture(StackOf(ctl), LooksOf(ctl))
    BY StackIs, PictureIs DEF Scene
  <2> QED BY <2>1 DEF Stack!Init, StackOf, LooksOf, Look, Sees
<1>4. I /\ I' /\ [SheetNext]_ctl => [Stack!Next]_(Stack!vars)
  <2>1. CASE UNCHANGED ctl BY <2>1 DEF Stack!vars
  <2>2. ASSUME I, I', SheetNext PROVE Stack!Next
    <3>1. PICK sid \in Slots : Step(ctl', ctl, sid) BY <2>2, NextScene
    <3>2. PICK st, lk, st2, lk2 : /\ st = StackOf(ctl) /\ lk = LooksOf(ctl)
                                  /\ st2 = StackOf(ctl') /\ lk2 = LooksOf(ctl')
      OBVIOUS
    <3>3. /\ Stack!IsStack(st2)
          /\ \A u, v \in Slots \ {sid} : Stack!NotAbove(st2, u, v) <=> Stack!NotAbove(st, u, v)
          /\ \A v \in Slots \ {sid} : lk2[v] = lk[v]
      BY <2>2, <3>1, <3>2, StepRestacks
    <3>4. Stack!Restack(sid)
      BY <3>2, <3>3 DEF Stack!Restack, StackOf, LooksOf, Look, Sees
    <3>5. Scene(ctl') /\ Seen(ctl') BY <2>2, NextScene DEF Step
    <3>6. ctl'.vram = Stack!Picture(StackOf(ctl'), LooksOf(ctl')) BY <3>5, PictureIs
    <3> QED BY <3>4, <3>6 DEF Stack!Next, StackOf, LooksOf, Look, Sees
  <2> QED BY <2>1, <2>2
<1> QED BY <1>1, <1>2, <1>3, <1>4, PTL DEF SheetSpec, ImplementsStack, Stack!Spec
=============================================================================
