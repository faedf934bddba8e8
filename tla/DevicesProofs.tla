---------------------------- MODULE DevicesProofs ----------------------------
(***************************************************************************)
(* Proofs about task A and its keyboard, with a FIFO and a keycmd of any   *)
(* size, any lock and shift keys, any reports of the mouse in between and  *)
(* any number of bytes that the keyboard fails to receive.                 *)
(*                                                                         *)
(* As long as nothing has been lost: a byte of keycmd_wait is either on    *)
(* its way or has exactly one answer in the FIFO; the bytes that the       *)
(* keyboard has not received yet go on where it is, in pairs, up to the    *)
(* lamps that are wanted; and the last datum of a shift key in the FIFO    *)
(* says whether it is held.  What is on its way from the mouse leads the   *)
(* decoder, byte by byte, to where the mouse has moved the pointer; and a  *)
(* window that is held stays under the place where it was grabbed.         *)
(***************************************************************************)
EXTENDS Devices, Least, SequenceTheorems

\* The bytes of a command
CommandByte == (0..7) \cup {KEYCMD_LED}

\* The shift keys that are held, as bits
Held == {w \in 0..3 : \A k \in {42, 54} \ Shifts : ~IsOn(w, k)}

Typed ==
  /\ fifo \in Seq([dat : Int, nth : Int]) /\ Len(fifo) <= FifoSize
  /\ keycmd \in Seq(CommandByte) /\ Len(keycmd) <= KeycmdSize
  /\ keycmd_wait \in CommandByte \cup {None}
  /\ port \in CommandByte \cup {None}
  /\ key_leds \in 0..7 /\ key_shift \in Held
  /\ keyboard \in [lit : 0..7, held : Held, expects : {"command", "lamps"}]
  /\ failures \in Nat

\* What the mouse sends is told apart from keys.
MouseOnly ==
  /\ mouse = [bytes |-> mouse.bytes, left |-> mouse.left, aim |-> mouse.aim]
  /\ mouse.bytes \in Seq([dat : Int, nth : 0..3])

\* Is this datum of the FIFO an answer?
IsAnswer(b) == b.nth = Key /\ b.dat \in {Ack, Resend}

Unanswered == \A i \in DOMAIN fifo : ~IsAnswer(fifo[i])

AnsweredAt(i) ==
  /\ IsAnswer(fifo[i])
  /\ \A j \in DOMAIN fifo : IsAnswer(fifo[j]) => j = i

Answered == \E i \in DOMAIN fifo : AnsweredAt(i)

UnderWay ==
  /\ keycmd_wait = None => port = None /\ Unanswered
  /\ keycmd_wait # None => (port = keycmd_wait /\ Unanswered) \/ (port = None /\ Answered)

\* Has the keyboard still to receive the byte of keycmd_wait?
Refused == \E i \in DOMAIN fifo : fifo[i].nth = Key /\ fifo[i].dat = Resend
Unreceived == port # None \/ Refused

\* What the keyboard will expect when the bytes of keycmd begin
LampsNext == IF Unreceived THEN keyboard.expects = "command" ELSE keyboard.expects = "lamps"

Pairs ==
  /\ Unreceived => IF keyboard.expects = "lamps" THEN keycmd_wait \in 0..7
                   ELSE keycmd_wait = KEYCMD_LED
  /\ \A i \in DOMAIN keycmd :
       IF LampsNext THEN IF i % 2 = 1 THEN keycmd[i] \in 0..7 ELSE keycmd[i] = KEYCMD_LED
       ELSE IF i % 2 = 0 THEN keycmd[i] \in 0..7 ELSE keycmd[i] = KEYCMD_LED
  /\ Len(keycmd) % 2 = IF LampsNext THEN 1 ELSE 0

LampsArrive ==
  IF keycmd # <<>> THEN keycmd[Len(keycmd)] = key_leds
  ELSE IF Unreceived THEN keycmd_wait = key_leds
  ELSE keyboard.lit = key_leds

\* Does this datum of the FIFO say that the shift key k is pressed or released?
IsAbout(b, k) == b.nth = Key /\ b.dat \in {k, Release(k)}

ShiftArrives(k) ==
  /\ (\A i \in DOMAIN fifo : ~IsAbout(fifo[i], k)) =>
       (IsOn(key_shift, k) <=> IsOn(keyboard.held, k))
  /\ \A i \in DOMAIN fifo :
       IsAbout(fifo[i], k) /\ (\A j \in DOMAIN fifo : j > i => ~IsAbout(fifo[j], k)) =>
         (fifo[i].dat = k <=> IsOn(keyboard.held, k))

ShiftsArrive == \A k \in Shifts : ShiftArrives(k)

Good == Typed /\ MouseOnly /\ UnderWay /\ Pairs /\ LampsArrive /\ ShiftsArrive

IInv == overrun \in BOOLEAN /\ (~overrun => Good)

-----------------------------------------------------------------------------
(* The FIFO *)

\* An interrupt that loses nothing puts its byte behind the others.
LEMMA PutAppends ==
  ASSUME NEW byte \in [dat : Int, nth : Int], overrun \in BOOLEAN,
         fifo \in Seq([dat : Int, nth : Int]), Len(fifo) <= FifoSize,
         Put(byte), ~overrun'
  PROVE  /\ ~overrun
         /\ fifo' = Append(fifo, byte) /\ fifo' \in Seq([dat : Int, nth : Int])
         /\ Len(fifo') <= FifoSize /\ Len(fifo') = Len(fifo) + 1
         /\ DOMAIN fifo' = 1..(Len(fifo) + 1)
         /\ \A i \in DOMAIN fifo : fifo'[i] = fifo[i]
         /\ fifo'[Len(fifo) + 1] = byte
<1> DEFINE T == [dat : Int, nth : Int]
<1>1. ~overrun /\ Len(fifo) # FifoSize
  BY DEF Put
<1>2. Len(fifo) + 1 <= FifoSize
  BY <1>1, TaskAFifoAssumption
<1>3. <<byte>> \in Seq(T) /\ Len(<<byte>>) = 1
  OBVIOUS
<1>4. SubSeq(<<byte>>, 1, 1) = <<byte>>
  BY <1>3, SubSeqFull
<1>5. fifo' = fifo \o <<byte>>
  BY <1>2, <1>3, <1>4, TaskAFifoAssumption DEF Put, Taken
<1>6. fifo' = Append(fifo, byte)
  BY <1>5
<1> QED BY <1>1, <1>2, <1>6

\* Task A takes the first one.
LEMMA TailShifts ==
  ASSUME fifo \in Seq([dat : Int, nth : Int]), Len(fifo) <= FifoSize,
         fifo # <<>>, fifo' = Tail(fifo)
  PROVE  /\ fifo' \in Seq([dat : Int, nth : Int]) /\ Len(fifo') <= FifoSize
         /\ Len(fifo) > 0 /\ Len(fifo') = Len(fifo) - 1
         /\ DOMAIN fifo = 1..Len(fifo) /\ DOMAIN fifo' = 1..(Len(fifo) - 1)
         /\ \A i \in DOMAIN fifo' : fifo'[i] = fifo[i + 1]
         /\ Head(fifo) = fifo[1]
BY TaskAFifoAssumption

\* What an appended byte changes of the answers: a key or a byte of the mouse
\* nothing, an answer is the only one if there was none.
LEMMA AppendAnswers ==
  ASSUME NEW byte \in [dat : Int, nth : Int],
         DOMAIN fifo = 1..Len(fifo), Len(fifo) \in Nat,
         DOMAIN fifo' = 1..(Len(fifo) + 1),
         \A i \in DOMAIN fifo : fifo'[i] = fifo[i],
         fifo'[Len(fifo) + 1] = byte
  PROVE  /\ ~IsAnswer(byte) => /\ Unanswered => Unanswered'
                               /\ Answered => Answered'
                               /\ Refused' <=> Refused
         /\ IsAnswer(byte) /\ Unanswered => Answered' /\ (Refused' <=> byte.dat = Resend)
<1>0. PICK n \in Nat : n = Len(fifo) + 1
  OBVIOUS
<1>1. n \in DOMAIN fifo' /\ fifo'[n] = byte
  BY <1>0
<1>2. \A i \in DOMAIN fifo' : i = n \/ (i \in DOMAIN fifo /\ fifo'[i] = fifo[i])
  BY <1>0
<1>3. \A i \in DOMAIN fifo : i \in DOMAIN fifo' /\ i # n /\ fifo'[i] = fifo[i]
  BY <1>0
<1>4. ASSUME ~IsAnswer(byte)
      PROVE  (Unanswered => Unanswered') /\ (Refused' <=> Refused)
  BY <1>1, <1>2, <1>3, <1>4 DEF Unanswered, Refused, IsAnswer
<1>5. ASSUME ~IsAnswer(byte), Answered
      PROVE  Answered'
  <2>1. PICK i \in DOMAIN fifo : AnsweredAt(i)
    BY <1>5 DEF Answered
  <2>2. AnsweredAt(i)'
    BY <1>1, <1>2, <1>3, <1>5, <2>1 DEF AnsweredAt, IsAnswer
  <2> QED BY <1>3, <2>2 DEF Answered, AnsweredAt, IsAnswer
<1>6. ASSUME IsAnswer(byte), Unanswered
      PROVE  Answered' /\ (Refused' <=> byte.dat = Resend)
  <2>1. AnsweredAt(n)'
    BY <1>1, <1>2, <1>6 DEF AnsweredAt, IsAnswer, Unanswered
  <2>2. Answered'
    BY <1>1, <2>1 DEF Answered, AnsweredAt, IsAnswer
  <2>3. Refused' <=> byte.dat = Resend
    BY <1>1, <1>2, <1>6 DEF Refused, Unanswered, IsAnswer
  <2> QED BY <2>2, <2>3
<1> QED BY <1>4, <1>5, <1>6

\* What is taken from the front: if it is the only answer, none is left.
LEMMA TailAnswers ==
  ASSUME DOMAIN fifo = 1..Len(fifo), Len(fifo) \in Nat, Len(fifo) > 0,
         DOMAIN fifo' = 1..(Len(fifo) - 1),
         \A i \in DOMAIN fifo' : fifo'[i] = fifo[i + 1]
  PROVE  /\ ~IsAnswer(fifo[1]) => /\ Unanswered => Unanswered'
                                  /\ Answered => Answered'
                                  /\ Refused' <=> Refused
         /\ IsAnswer(fifo[1]) => /\ ~Unanswered
                                 /\ Answered => /\ Unanswered' /\ ~Refused'
                                                /\ Refused <=> fifo[1].dat = Resend
<1>1. 1 \in DOMAIN fifo
  OBVIOUS
<1>2. \A i \in DOMAIN fifo' : i + 1 \in DOMAIN fifo /\ i + 1 # 1 /\ fifo'[i] = fifo[i + 1]
  OBVIOUS
<1>3. \A i \in DOMAIN fifo : i = 1 \/ (i - 1 \in DOMAIN fifo' /\ fifo'[i - 1] = fifo[i])
  OBVIOUS
<1>4. ASSUME ~IsAnswer(fifo[1])
      PROVE  (Unanswered => Unanswered') /\ (Refused' <=> Refused)
  BY <1>2, <1>3, <1>4 DEF Unanswered, Refused, IsAnswer
<1>5. ASSUME ~IsAnswer(fifo[1]), Answered
      PROVE  Answered'
  <2>1. PICK i \in DOMAIN fifo : AnsweredAt(i)
    BY <1>5 DEF Answered
  <2>2. i # 1 /\ i - 1 \in DOMAIN fifo' /\ fifo'[i - 1] = fifo[i]
    BY <1>3, <1>5, <2>1 DEF AnsweredAt
  <2>3. \A j \in DOMAIN fifo' : IsAnswer(fifo'[j]) => j = i - 1
    BY <1>2, <2>1 DEF AnsweredAt
  <2>4. AnsweredAt(i - 1)'
    BY <2>1, <2>2, <2>3 DEF AnsweredAt, IsAnswer
  <2> QED BY <2>2, <2>4 DEF Answered, AnsweredAt, IsAnswer
<1>6. ASSUME IsAnswer(fifo[1])
      PROVE  ~Unanswered
  BY <1>1, <1>6 DEF Unanswered
<1>7. ASSUME IsAnswer(fifo[1]), Answered
      PROVE  Unanswered' /\ ~Refused' /\ (Refused <=> fifo[1].dat = Resend)
  <2>1. \A j \in DOMAIN fifo : IsAnswer(fifo[j]) => j = 1
    BY <1>1, <1>7 DEF Answered, AnsweredAt
  <2>2. Unanswered' /\ ~Refused'
    BY <1>2, <2>1 DEF Unanswered, Refused, IsAnswer
  <2>3. Refused <=> fifo[1].dat = Resend
    BY <1>1, <1>7, <2>1 DEF Refused, IsAnswer
  <2> QED BY <2>2, <2>3
<1> QED BY <1>4, <1>5, <1>6, <1>7

\* A datum behind the others is the last one about its key, and one about
\* another key changes nothing.
LEMMA AppendShift ==
  ASSUME NEW byte \in [dat : Int, nth : Int], NEW k \in Shifts, ShiftArrives(k),
         DOMAIN fifo = 1..Len(fifo), Len(fifo) \in Nat,
         DOMAIN fifo' = 1..(Len(fifo) + 1),
         \A i \in DOMAIN fifo : fifo'[i] = fifo[i],
         fifo'[Len(fifo) + 1] = byte,
         IsOn(key_shift, k)' <=> IsOn(key_shift, k),
         IF IsAbout(byte, k) THEN IsOn(keyboard.held, k)' <=> byte.dat = k
                             ELSE IsOn(keyboard.held, k)' <=> IsOn(keyboard.held, k)
  PROVE  ShiftArrives(k)'
<1>0. PICK n \in Nat : n = Len(fifo) + 1
  OBVIOUS
<1>1. n \in DOMAIN fifo' /\ fifo'[n] = byte
  BY <1>0
<1>2. \A i \in DOMAIN fifo' : i = n \/ (i \in DOMAIN fifo /\ fifo'[i] = fifo[i] /\ n > i)
  BY <1>0
<1>3. \A i \in DOMAIN fifo : i \in DOMAIN fifo' /\ n > i /\ fifo'[i] = fifo[i]
  BY <1>0
<1> DEFINE before == IsOn(keyboard.held, k)
           after == IsOn(keyboard.held, k)'
<1>4. ASSUME \A i \in DOMAIN fifo' : ~IsAbout(fifo'[i], k)
      PROVE  IsOn(key_shift, k)' <=> after
  <2>1. ~IsAbout(byte, k) /\ \A i \in DOMAIN fifo : ~IsAbout(fifo[i], k)
    BY <1>1, <1>3, <1>4
  <2> QED BY <2>1 DEF ShiftArrives
<1>5. ASSUME NEW i \in DOMAIN fifo', IsAbout(fifo'[i], k),
             \A j \in DOMAIN fifo' : j > i => ~IsAbout(fifo'[j], k)
      PROVE  fifo'[i].dat = k <=> after
  <2>1. CASE i = n
    BY <1>1, <1>5, <2>1
  <2>2. CASE i # n
    <3>1. i \in DOMAIN fifo /\ fifo'[i] = fifo[i] /\ n > i
      BY <1>2, <2>2
    <3>2. ~IsAbout(byte, k)
      BY <1>1, <1>5, <3>1
    <3>3. \A j \in DOMAIN fifo : j > i => ~IsAbout(fifo[j], k)
      BY <1>3, <1>5
    <3>4. fifo[i].dat = k <=> before
      BY <1>5, <3>1, <3>3 DEF ShiftArrives
    <3> QED BY <3>1, <3>2, <3>4
  <2> QED BY <2>1, <2>2
<1> QED BY <1>4, <1>5 DEF ShiftArrives, IsAbout

\* What task A makes of the datum in front is what it says.
LEMMA TailShift ==
  ASSUME NEW k \in Shifts, ShiftArrives(k),
         DOMAIN fifo = 1..Len(fifo), Len(fifo) \in Nat, Len(fifo) > 0,
         DOMAIN fifo' = 1..(Len(fifo) - 1),
         \A i \in DOMAIN fifo' : fifo'[i] = fifo[i + 1],
         IsOn(keyboard.held, k)' <=> IsOn(keyboard.held, k),
         IF IsAbout(fifo[1], k) THEN IsOn(key_shift, k)' <=> fifo[1].dat = k
                                ELSE IsOn(key_shift, k)' <=> IsOn(key_shift, k)
  PROVE  ShiftArrives(k)'
<1>1. 1 \in DOMAIN fifo
  OBVIOUS
<1>2. \A i \in DOMAIN fifo' : i + 1 \in DOMAIN fifo /\ fifo'[i] = fifo[i + 1]
  OBVIOUS
<1>3. \A i \in DOMAIN fifo : i = 1 \/ (i - 1 \in DOMAIN fifo' /\ fifo'[i - 1] = fifo[i])
  OBVIOUS
<1> DEFINE held == IsOn(keyboard.held, k)
<1>4. ASSUME \A i \in DOMAIN fifo' : ~IsAbout(fifo'[i], k)
      PROVE  IsOn(key_shift, k)' <=> held
  <2>1. \A j \in DOMAIN fifo : j # 1 => ~IsAbout(fifo[j], k)
    BY <1>3, <1>4
  <2>2. CASE IsAbout(fifo[1], k)
    <3>1. \A j \in DOMAIN fifo : j > 1 => ~IsAbout(fifo[j], k)
      BY <2>1
    <3>2. fifo[1].dat = k <=> held
      BY <1>1, <2>2, <3>1 DEF ShiftArrives
    <3> QED BY <2>2, <3>2
  <2>3. CASE ~IsAbout(fifo[1], k)
    BY <2>1, <2>3 DEF ShiftArrives
  <2> QED BY <2>2, <2>3
<1>5. ASSUME NEW i \in DOMAIN fifo', IsAbout(fifo'[i], k),
             \A j \in DOMAIN fifo' : j > i => ~IsAbout(fifo'[j], k)
      PROVE  fifo'[i].dat = k <=> held
  <2>1. i + 1 \in DOMAIN fifo /\ fifo'[i] = fifo[i + 1]
    BY <1>2
  <2>2. \A j \in DOMAIN fifo : j > i + 1 => ~IsAbout(fifo[j], k)
    <3>1. TAKE j \in DOMAIN fifo
    <3>2. HAVE j > i + 1
    <3>3. j - 1 \in DOMAIN fifo' /\ fifo'[j - 1] = fifo[j] /\ j - 1 > i
      BY <1>3, <3>2
    <3> QED BY <1>5, <3>3
  <2> QED BY <1>5, <2>1, <2>2 DEF ShiftArrives
<1> QED BY <1>4, <1>5 DEF ShiftArrives, IsAbout

-----------------------------------------------------------------------------
(* key_leds, key_shift and the keys that are held, as bits *)

LEMMA BitValues ==
  Bit[42] = 1 /\ Bit[54] = 2 /\ Bit[58] = 4 /\ Bit[69] = 2 /\ Bit[70] = 1
BY DEF Bit

LEMMA FlipLeds ==
  ASSUME NEW w \in 0..7, NEW k \in {58, 69, 70}
  PROVE  Flip(w, k) \in 0..7
BY BitValues DEF Flip, IsOn

\* Each of the two bits is turned without the other.
LEMMA ShiftWords ==
  ASSUME NEW w \in Held, NEW k \in Shifts
  PROVE  /\ Flip(w, k) \in Held /\ TurnOn(w, k) \in Held /\ TurnOff(w, k) \in Held
         /\ IsOn(Flip(w, k), k) <=> ~IsOn(w, k)
         /\ IsOn(TurnOn(w, k), k) /\ ~IsOn(TurnOff(w, k), k)
         /\ \A l \in Shifts : l # k =>
              /\ IsOn(Flip(w, k), l) <=> IsOn(w, l)
              /\ IsOn(TurnOn(w, k), l) <=> IsOn(w, l)
              /\ IsOn(TurnOff(w, k), l) <=> IsOn(w, l)
<1>1. w \in 0..3 /\ k \in {42, 54} /\ \A l \in Shifts : l \in {42, 54}
  BY KeyboardAssumption DEF Held
<1>2. \A u \in {Flip(w, k), TurnOn(w, k), TurnOff(w, k)} :
        u \in 0..3 /\ \A l \in {42, 54} : l # k => (IsOn(u, l) <=> IsOn(w, l))
  <2>1. CASE k = 42
    BY <1>1, <2>1, BitValues DEF Flip, TurnOn, TurnOff, IsOn
  <2>2. CASE k = 54
    BY <1>1, <2>2, BitValues DEF Flip, TurnOn, TurnOff, IsOn
  <2> QED BY <1>1, <2>1, <2>2
<1>3. /\ IsOn(Flip(w, k), k) <=> ~IsOn(w, k)
      /\ IsOn(TurnOn(w, k), k) /\ ~IsOn(TurnOff(w, k), k)
  <2>1. CASE k = 42
    BY <1>1, <2>1, BitValues DEF Flip, TurnOn, TurnOff, IsOn
  <2>2. CASE k = 54
    BY <1>1, <2>2, BitValues DEF Flip, TurnOn, TurnOff, IsOn
  <2> QED BY <1>1, <2>1, <2>2
<1>4. \A u \in {Flip(w, k), TurnOn(w, k), TurnOff(w, k)} : u \in Held
  BY <1>2 DEF Held
<1> QED BY <1>1, <1>2, <1>3, <1>4

LEMMA SameWord ==
  ASSUME NEW v \in Held, NEW w \in Held, \A k \in Shifts : IsOn(v, k) <=> IsOn(w, k)
  PROVE  v = w
<1>1. \A k \in {42, 54} : IsOn(v, k) <=> IsOn(w, k)
  BY DEF Held
<1>2. v \in 0..3 /\ w \in 0..3
  BY DEF Held
<1>3. (v % 2 = 1 <=> w % 2 = 1) /\ ((v \div 2) % 2 = 1 <=> (w \div 2) % 2 = 1)
  BY <1>1, <1>2, BitValues DEF IsOn
<1> QED BY <1>2, <1>3

-----------------------------------------------------------------------------
(* The steps *)

\* A datum that is no answer comes: a key, or a byte of the mouse.
LEMMA PutKeeps ==
  ASSUME Good, overrun \in BOOLEAN, NEW byte \in [dat : Int, nth : Int],
         Put(byte), ~overrun', ~IsAnswer(byte),
         UNCHANGED <<key_leds, key_shift, keycmd, keycmd_wait, port, failures>>,
         keyboard' \in [lit : {keyboard.lit}, held : Held, expects : {keyboard.expects}],
         \A k \in Shifts :
           IF IsAbout(byte, k) THEN IsOn(keyboard.held, k)' <=> byte.dat = k
                               ELSE IsOn(keyboard.held, k)' <=> IsOn(keyboard.held, k),
         MouseOnly'
  PROVE  Good'
<1>1. fifo \in Seq([dat : Int, nth : Int]) /\ Len(fifo) <= FifoSize
  BY DEF Good, Typed
<1>2. /\ fifo' \in Seq([dat : Int, nth : Int]) /\ Len(fifo') <= FifoSize
      /\ DOMAIN fifo' = 1..(Len(fifo) + 1)
      /\ \A i \in DOMAIN fifo : fifo'[i] = fifo[i]
      /\ fifo'[Len(fifo) + 1] = byte
  BY <1>1, PutAppends
<1>3. DOMAIN fifo = 1..Len(fifo) /\ Len(fifo) \in Nat
  BY <1>1
<1>4. /\ Unanswered => Unanswered'
      /\ Answered => Answered'
      /\ Refused' <=> Refused
  BY <1>2, <1>3, AppendAnswers
<1>5. keyboard'.lit = keyboard.lit /\ keyboard'.expects = keyboard.expects
  OBVIOUS
<1>6. Typed'
  BY <1>2 DEF Good, Typed
<1>7. UnderWay'
  BY <1>4 DEF Good, UnderWay
<1>8. (Unreceived' <=> Unreceived) /\ (LampsNext' <=> LampsNext)
  BY <1>4, <1>5 DEF Unreceived, LampsNext
<1>9. Pairs'
  BY <1>5, <1>8 DEF Good, Pairs
<1>10. LampsArrive'
  BY <1>5, <1>8 DEF Good, LampsArrive
<1>11. ASSUME NEW k \in Shifts
       PROVE  ShiftArrives(k)'
  BY <1>2, <1>3, AppendShift DEF Good, ShiftsArrive
<1> QED BY <1>6, <1>7, <1>9, <1>10, <1>11 DEF Good, ShiftsArrive

\* Task A takes a datum that is no answer, and sends nothing.
LEMMA TakeKeeps ==
  ASSUME Good, fifo # <<>>, fifo' = Tail(fifo), ~IsAnswer(Head(fifo)),
         UNCHANGED <<key_leds, keycmd, keycmd_wait, port, keyboard, failures>>,
         key_shift' \in Held,
         \A k \in Shifts :
           IF IsAbout(Head(fifo), k) THEN IsOn(key_shift, k)' <=> Head(fifo).dat = k
                                     ELSE IsOn(key_shift, k)' <=> IsOn(key_shift, k),
         MouseOnly'
  PROVE  Good'
<1>1. fifo \in Seq([dat : Int, nth : Int]) /\ Len(fifo) <= FifoSize
  BY DEF Good, Typed
<1>2. /\ fifo' \in Seq([dat : Int, nth : Int]) /\ Len(fifo') <= FifoSize
      /\ DOMAIN fifo = 1..Len(fifo) /\ Len(fifo) \in Nat /\ Len(fifo) > 0
      /\ DOMAIN fifo' = 1..(Len(fifo) - 1)
      /\ \A i \in DOMAIN fifo' : fifo'[i] = fifo[i + 1]
      /\ Head(fifo) = fifo[1]
  BY <1>1, TailShifts
<1>3. /\ Unanswered => Unanswered'
      /\ Answered => Answered'
      /\ Refused' <=> Refused
  BY <1>2, TailAnswers
<1>4. Typed'
  BY <1>2 DEF Good, Typed
<1>5. UnderWay'
  BY <1>3 DEF Good, UnderWay
<1>6. (Unreceived' <=> Unreceived) /\ (LampsNext' <=> LampsNext)
  BY <1>3 DEF Unreceived, LampsNext
<1>7. Pairs' /\ LampsArrive'
  BY <1>6 DEF Good, Pairs, LampsArrive
<1>8. ASSUME NEW k \in Shifts
      PROVE  ShiftArrives(k)'
  BY <1>2, TailShift DEF Good, ShiftsArrive
<1> QED BY <1>4, <1>5, <1>7, <1>8 DEF Good, ShiftsArrive

\* A key is pressed, released, or repeated.
LEMMA PressKeyGood ==
  ASSUME Good, overrun \in BOOLEAN, PressKey, UNCHANGED mouseVars, ~overrun'
  PROVE  Good'
<1> USE DEF Key, Ack, Resend
<1>1. MouseOnly'
  BY DEF Good, MouseOnly, mouseVars
<1>2. keyboard \in [lit : {keyboard.lit}, held : Held, expects : {keyboard.expects}]
  BY DEF Good, Typed
<1>3. UNCHANGED <<key_leds, key_shift, keycmd, keycmd_wait, port, failures>>
  BY DEF PressKey
<1>4. CASE \E k \in Locks : inthandler21(k) /\ UNCHANGED keyboard
  <2>1. PICK k \in Locks : inthandler21(k) /\ UNCHANGED keyboard
    BY <1>4
  <2>2. k \in {58, 69, 70}
    BY KeyboardAssumption
  <2> DEFINE byte == [dat |-> k, nth |-> Key]
  <2>3. byte \in [dat : Int, nth : Int] /\ ~IsAnswer(byte) /\ Put(byte)
    BY <2>1, <2>2 DEF IsAnswer, inthandler21
  <2>4. \A l \in Shifts : ~IsAbout(byte, l)
    BY <2>2, KeyboardAssumption DEF IsAbout, Release
  <2> HIDE DEF byte
  <2> QED BY <1>1, <1>2, <1>3, <2>1, <2>3, <2>4, PutKeeps
<1>5. CASE \E k \in Shifts :
             /\ inthandler21(IF IsOn(keyboard.held, k) THEN Release(k) ELSE k)
             /\ keyboard' = [keyboard EXCEPT !.held = Flip(@, k)]
  <2>1. PICK k \in Shifts :
          /\ inthandler21(IF IsOn(keyboard.held, k) THEN Release(k) ELSE k)
          /\ keyboard' = [keyboard EXCEPT !.held = Flip(@, k)]
    BY <1>5
  <2>2. k \in {42, 54} /\ \A l \in Shifts : l \in {42, 54}
    BY KeyboardAssumption
  <2> DEFINE byte == [dat |-> IF IsOn(keyboard.held, k) THEN Release(k) ELSE k, nth |-> Key]
  <2>3. byte \in [dat : Int, nth : Int] /\ ~IsAnswer(byte) /\ Put(byte)
    BY <2>1, <2>2 DEF IsAnswer, inthandler21, Release
  <2>4. IsAbout(byte, k) /\ (byte.dat = k <=> ~IsOn(keyboard.held, k))
    BY <2>2 DEF IsAbout, Release
  <2>5. \A l \in Shifts : l # k => ~IsAbout(byte, l)
    BY <2>2 DEF IsAbout, Release
  <2> HIDE DEF byte
  <2>6. keyboard.held \in Held
    BY <1>2
  <2>7. keyboard' = [lit |-> keyboard.lit, held |-> Flip(keyboard.held, k),
                     expects |-> keyboard.expects]
    BY <1>2, <2>1
  <2>8. /\ keyboard' \in [lit : {keyboard.lit}, held : Held, expects : {keyboard.expects}]
        /\ IsOn(keyboard.held, k)' <=> ~IsOn(keyboard.held, k)
        /\ \A l \in Shifts : l # k => (IsOn(keyboard.held, l)' <=> IsOn(keyboard.held, l))
    <3>1. keyboard'.held = Flip(keyboard.held, k)
      BY <2>7
    <3>2. \A l \in Shifts : IsOn(keyboard.held, l)' <=> IsOn(Flip(keyboard.held, k), l)
      BY <3>1 DEF IsOn
    <3> QED BY <2>6, <2>7, <3>2, ShiftWords
  <2>9. \A l \in Shifts :
          IF IsAbout(byte, l) THEN IsOn(keyboard.held, l)' <=> byte.dat = l
                              ELSE IsOn(keyboard.held, l)' <=> IsOn(keyboard.held, l)
    BY <2>4, <2>5, <2>8
  <2> QED BY <1>1, <1>3, <2>3, <2>8, <2>9, PutKeeps
<1>6. CASE \E k \in Shifts : IsOn(keyboard.held, k) /\ inthandler21(k) /\ UNCHANGED keyboard
  <2>1. PICK k \in Shifts : IsOn(keyboard.held, k) /\ inthandler21(k) /\ UNCHANGED keyboard
    BY <1>6
  <2>2. k \in {42, 54} /\ \A l \in Shifts : l \in {42, 54}
    BY KeyboardAssumption
  <2> DEFINE byte == [dat |-> k, nth |-> Key]
  <2>3. byte \in [dat : Int, nth : Int] /\ ~IsAnswer(byte) /\ Put(byte) /\ byte.dat = k
    BY <2>1, <2>2 DEF IsAnswer, inthandler21
  <2>4. \A l \in Shifts : l # k => ~IsAbout(byte, l)
    BY <2>2 DEF IsAbout, Release
  <2> HIDE DEF byte
  <2>5. \A l \in Shifts : IsOn(keyboard.held, l)' <=> IsOn(keyboard.held, l)
    BY <2>1 DEF IsOn
  <2>6. \A l \in Shifts :
          IF IsAbout(byte, l) THEN IsOn(keyboard.held, l)' <=> byte.dat = l
                              ELSE IsOn(keyboard.held, l)' <=> IsOn(keyboard.held, l)
    BY <2>1, <2>3, <2>4, <2>5
  <2> QED BY <1>1, <1>2, <1>3, <2>1, <2>3, <2>6, PutKeeps
<1> QED BY <1>4, <1>5, <1>6 DEF PressKey

\* The mouse puts one of its bytes.
LEMMA MouseByteGood ==
  ASSUME Good, overrun \in BOOLEAN, inthandler2c, UNCHANGED keyboardVars, ~overrun'
  PROVE  Good'
<1> DEFINE byte == Head(mouse.bytes)
<1> DEFINE Sent == [dat : Int, nth : 0..3]
<1>0. mouse.bytes \in Seq(Sent) /\ mouse.bytes # <<>>
  BY DEF Good, MouseOnly, inthandler2c
<1> HIDE DEF Sent
<1>1. byte \in Sent /\ Tail(mouse.bytes) \in Seq(Sent)
  BY <1>0, HeadTailProperties
<1> USE DEF Sent
<1>2. byte \in [dat : Int, nth : Int] /\ Put(byte)
  BY <1>1 DEF inthandler2c
<1>3. byte.nth # Key
  BY <1>1 DEF Key
<1> HIDE DEF byte
<1>4. ~IsAnswer(byte) /\ \A k \in Shifts : ~IsAbout(byte, k)
  BY <1>3 DEF IsAnswer, IsAbout
<1>5. MouseOnly'
  <2>1. mouse' = [mouse EXCEPT !.bytes = Tail(@)]
    BY DEF inthandler2c
  <2>2. mouse = [bytes |-> mouse.bytes, left |-> mouse.left, aim |-> mouse.aim]
    BY DEF Good, MouseOnly
  <2>3. mouse' = [bytes |-> Tail(mouse.bytes), left |-> mouse.left, aim |-> mouse.aim]
    BY <2>1, <2>2
  <2> QED BY <1>1, <2>3 DEF MouseOnly
<1>6. UNCHANGED <<key_leds, key_shift, keycmd, keycmd_wait, port, failures, keyboard>>
  BY DEF keyboardVars
<1>7. keyboard' \in [lit : {keyboard.lit}, held : Held, expects : {keyboard.expects}]
  BY <1>6 DEF Good, Typed
<1>8. \A k \in Shifts : IsOn(keyboard.held, k)' <=> IsOn(keyboard.held, k)
  BY <1>6 DEF IsOn
<1> QED BY <1>2, <1>4, <1>5, <1>6, <1>7, <1>8, PutKeeps

\* A movement or a button gives three bytes to send.
LEMMA ReportGood ==
  ASSUME Good, NEW r \in Reports, Report(r), UNCHANGED keyboardVars
  PROVE  Good'
<1>1. r \in [dx : -256..255, dy : -256..255, btn : 0..7]
  BY MouseAssumption
<1>2. Bytes(r) \in Seq([dat : Int, nth : 0..3])
  <2>1. r.dx \in Int /\ r.dy \in Int /\ r.btn \in Int
    BY <1>1
  <2>2. 8 + r.btn + (IF r.dx < 0 THEN 16 ELSE 0) + (IF r.dy < 0 THEN 32 ELSE 0) \in Int
    BY <2>1
  <2>3. r.dx % 256 \in Int /\ r.dy % 256 \in Int
    BY <2>1
  <2> QED BY <2>2, <2>3 DEF Bytes
<1>3. MouseOnly'
  BY <1>2 DEF Report, MouseOnly
<1>4. UNCHANGED <<fifo, key_leds, key_shift, keycmd, keycmd_wait, port, keyboard, failures>>
  BY DEF Report, keyboardVars
<1>5. Typed' /\ (UnderWay' <=> UnderWay) /\ (Pairs' <=> Pairs) /\ (LampsArrive' <=> LampsArrive)
  BY <1>4 DEF Good, Typed, UnderWay, Unanswered, Answered, AnsweredAt, Pairs, LampsNext,
              Unreceived, Refused, LampsArrive
<1>6. ShiftsArrive' <=> ShiftsArrive
  BY <1>4 DEF ShiftsArrive, ShiftArrives, IsOn
<1> QED BY <1>3, <1>5, <1>6 DEF Good

\* The pointer or the window is drawn.
LEMMA DrawGood ==
  ASSUME Good, DrawPointer \/ DrawWindow, UNCHANGED keyboardVars
  PROVE  Good'
<1>1. UNCHANGED <<fifo, key_leds, key_shift, keycmd, keycmd_wait, port, keyboard, failures, mouse>>
  BY DEF DrawPointer, DrawWindow, keyboardVars
<1>2. Typed' /\ (UnderWay' <=> UnderWay) /\ (Pairs' <=> Pairs) /\ (LampsArrive' <=> LampsArrive)
  BY <1>1 DEF Good, Typed, UnderWay, Unanswered, Answered, AnsweredAt, Pairs, LampsNext,
              Unreceived, Refused, LampsArrive
<1>3. (ShiftsArrive' <=> ShiftsArrive) /\ (MouseOnly' <=> MouseOnly)
  BY <1>1 DEF ShiftsArrive, ShiftArrives, IsOn, MouseOnly
<1> QED BY <1>2, <1>3 DEF Good

\* A byte of the mouse is decoded.
LEMMA TakeByteGood ==
  ASSUME Good, TakeByte, UNCHANGED keyboardVars
  PROVE  Good'
<1>1. fifo # <<>> /\ Head(fifo).nth # Key /\ fifo' = Tail(fifo) /\ UNCHANGED mouse
  BY DEF TakeByte
<1>2. ~IsAnswer(Head(fifo)) /\ \A k \in Shifts : ~IsAbout(Head(fifo), k)
  BY <1>1 DEF IsAnswer, IsAbout
<1>3. MouseOnly' /\ key_shift' \in Held
  BY <1>1 DEF Good, Typed, MouseOnly, keyboardVars
<1>4. UNCHANGED <<key_leds, key_shift, keycmd, keycmd_wait, port, keyboard, failures>>
  BY DEF keyboardVars
<1>5. \A k \in Shifts : IsOn(key_shift, k)' <=> IsOn(key_shift, k)
  BY <1>4 DEF IsOn
<1> QED BY <1>1, <1>2, <1>3, <1>4, <1>5, TakeKeeps

\* A shift key is pressed, or repeats its code.
LEMMA ShiftOnGood ==
  ASSUME Good, NEW k \in Shifts, ShiftOn(k), UNCHANGED mouseVars
  PROVE  Good'
<1>1. k \in {42, 54} /\ \A l \in Shifts : l \in {42, 54}
  BY KeyboardAssumption
<1>2. /\ fifo # <<>> /\ fifo' = Tail(fifo) /\ Head(fifo) = [dat |-> k, nth |-> Key]
      /\ UNCHANGED <<key_leds, keycmd, keycmd_wait, port, keyboard, failures>>
      /\ key_shift' = TurnOn(key_shift, k)
  BY DEF ShiftOn, Take
<1>3. ~IsAnswer(Head(fifo))
  BY <1>1, <1>2 DEF IsAnswer, Ack, Resend
<1>4. key_shift \in Held
  BY DEF Good, Typed
<1>5. \A l \in Shifts : IsOn(key_shift, l)' <=> IsOn(TurnOn(key_shift, k), l)
  BY <1>2 DEF IsOn
<1>6. \A l \in Shifts : IsAbout(Head(fifo), l) <=> l = k
  BY <1>1, <1>2 DEF IsAbout, Release
<1>7. \A l \in Shifts :
        IF IsAbout(Head(fifo), l) THEN IsOn(key_shift, l)' <=> Head(fifo).dat = l
                                  ELSE IsOn(key_shift, l)' <=> IsOn(key_shift, l)
  BY <1>2, <1>4, <1>5, <1>6, ShiftWords
<1>8. MouseOnly' /\ key_shift' \in Held
  BY <1>2, <1>4, ShiftWords DEF Good, MouseOnly, mouseVars
<1> QED BY <1>2, <1>3, <1>7, <1>8, TakeKeeps

\* A shift key is released.
LEMMA ShiftOffGood ==
  ASSUME Good, NEW k \in Shifts, ShiftOff(k), UNCHANGED mouseVars
  PROVE  Good'
<1>1. k \in {42, 54} /\ \A l \in Shifts : l \in {42, 54}
  BY KeyboardAssumption
<1>2. /\ fifo # <<>> /\ fifo' = Tail(fifo) /\ Head(fifo) = [dat |-> Release(k), nth |-> Key]
      /\ UNCHANGED <<key_leds, keycmd, keycmd_wait, port, keyboard, failures>>
      /\ key_shift' = TurnOff(key_shift, k)
  BY DEF ShiftOff, Take
<1>3. ~IsAnswer(Head(fifo))
  BY <1>1, <1>2 DEF IsAnswer, Ack, Resend, Release
<1>4. key_shift \in Held
  BY DEF Good, Typed
<1>5. \A l \in Shifts : IsOn(key_shift, l)' <=> IsOn(TurnOff(key_shift, k), l)
  BY <1>2 DEF IsOn
<1>6. \A l \in Shifts : (IsAbout(Head(fifo), l) <=> l = k) /\ Head(fifo).dat # l
  BY <1>1, <1>2 DEF IsAbout, Release
<1>7. \A l \in Shifts :
        IF IsAbout(Head(fifo), l) THEN IsOn(key_shift, l)' <=> Head(fifo).dat = l
                                  ELSE IsOn(key_shift, l)' <=> IsOn(key_shift, l)
  BY <1>2, <1>4, <1>5, <1>6, ShiftWords
<1>8. MouseOnly' /\ key_shift' \in Held
  BY <1>2, <1>4, ShiftWords DEF Good, MouseOnly, mouseVars
<1> QED BY <1>2, <1>3, <1>7, <1>8, TakeKeeps

\* Two more bytes find room behind the others.
LEMMA CommandAppends ==
  ASSUME keycmd \in Seq(CommandByte), Len(keycmd) + 2 <= KeycmdSize,
         NEW lamps \in 0..7, keycmd' = Taken(keycmd, Command(lamps), KeycmdSize)
  PROVE  /\ keycmd' \in Seq(CommandByte) /\ Len(keycmd') = Len(keycmd) + 2
         /\ DOMAIN keycmd' = 1..(Len(keycmd) + 2)
         /\ \A i \in DOMAIN keycmd : keycmd'[i] = keycmd[i]
         /\ keycmd'[Len(keycmd) + 1] = KEYCMD_LED /\ keycmd'[Len(keycmd) + 2] = lamps
<1> DEFINE c == <<KEYCMD_LED, lamps>>
<1>1. c \in Seq(CommandByte) /\ Len(c) = 2 /\ c[1] = KEYCMD_LED /\ c[2] = lamps
  BY DEF CommandByte
<1>2. SubSeq(c, 1, 2) = c
  BY <1>1, SubSeqFull
<1>3. Len(keycmd) \in Nat
  OBVIOUS
<1>4. ~(Len(keycmd) + 2 > KeycmdSize)
  BY <1>3, KeyboardAssumption
<1>5. keycmd' = keycmd \o c
  BY <1>1, <1>2, <1>4 DEF Taken, Command
<1> HIDE DEF c
<1> DEFINE kc == keycmd \o c
<1>6. /\ kc \in Seq(CommandByte) /\ Len(kc) = Len(keycmd) + Len(c)
      /\ \A i \in 1..(Len(keycmd) + Len(c)) :
           kc[i] = IF i <= Len(keycmd) THEN keycmd[i] ELSE c[i - Len(keycmd)]
  BY <1>1, ConcatProperties, Zenon
<1> HIDE DEF kc
<1>7. Len(kc) = Len(keycmd) + 2 /\ DOMAIN kc = 1..(Len(keycmd) + 2)
  BY <1>1, <1>6
<1>8. DOMAIN keycmd = 1..Len(keycmd)
  OBVIOUS
<1>9. \A i \in DOMAIN keycmd : kc[i] = keycmd[i]
  BY <1>1, <1>3, <1>6, <1>8
<1>10. kc[Len(keycmd) + 1] = KEYCMD_LED /\ kc[Len(keycmd) + 2] = lamps
  BY <1>1, <1>3, <1>6, SMTT(20)
<1> QED BY <1>5, <1>6, <1>7, <1>9, <1>10 DEF kc

\* A lock key changes the lamps that are wanted.
LEMMA LockGood ==
  ASSUME Good, NEW k \in Locks, Lock(k), UNCHANGED mouseVars, ~overrun'
  PROVE  Good'
<1>1. k \in {58, 69, 70} /\ \A l \in Shifts : l \in {42, 54}
  BY KeyboardAssumption
<1>2. /\ fifo # <<>> /\ fifo' = Tail(fifo) /\ Head(fifo) = [dat |-> k, nth |-> Key]
      /\ UNCHANGED <<key_shift, keycmd_wait, port, keyboard, failures>>
      /\ key_leds' = Flip(key_leds, k)
      /\ keycmd' = Taken(keycmd, Command(key_leds'), KeycmdSize)
      /\ ~(Len(keycmd) + 2 > KeycmdSize)
  BY DEF Lock, Take
<1>3. fifo \in Seq([dat : Int, nth : Int]) /\ Len(fifo) <= FifoSize
      /\ keycmd \in Seq(CommandByte)
  BY DEF Good, Typed
<1>4. /\ fifo' \in Seq([dat : Int, nth : Int]) /\ Len(fifo') <= FifoSize
      /\ DOMAIN fifo = 1..Len(fifo) /\ Len(fifo) \in Nat /\ Len(fifo) > 0
      /\ DOMAIN fifo' = 1..(Len(fifo) - 1)
      /\ \A i \in DOMAIN fifo' : fifo'[i] = fifo[i + 1]
      /\ Head(fifo) = fifo[1]
  BY <1>2, <1>3, TailShifts
<1>5. key_leds' \in 0..7
  BY <1>1, <1>2, FlipLeds DEF Good, Typed
<1>6. Len(keycmd) \in Nat /\ DOMAIN keycmd = 1..Len(keycmd) /\ Len(keycmd) + 2 <= KeycmdSize
  BY <1>2, <1>3, KeyboardAssumption
<1>7. /\ keycmd' \in Seq(CommandByte) /\ Len(keycmd') = Len(keycmd) + 2
      /\ DOMAIN keycmd' = 1..(Len(keycmd) + 2)
      /\ \A i \in DOMAIN keycmd : keycmd'[i] = keycmd[i]
      /\ keycmd'[Len(keycmd) + 1] = KEYCMD_LED /\ keycmd'[Len(keycmd) + 2] = key_leds'
  BY <1>2, <1>3, <1>5, <1>6, CommandAppends
<1>8. ~IsAnswer(fifo[1]) /\ \A l \in Shifts : ~IsAbout(fifo[1], l)
  <2>1. fifo[1].dat = k
    BY <1>2, <1>4
  <2> QED BY <1>1, <2>1 DEF IsAnswer, IsAbout, Ack, Resend, Release
<1>9. /\ Unanswered => Unanswered'
      /\ Answered => Answered'
      /\ Refused' <=> Refused
  BY <1>4, <1>8, TailAnswers
<1>10. Typed'
  BY <1>2, <1>4, <1>5, <1>6, <1>7 DEF Good, Typed
<1>11. UnderWay'
  BY <1>2, <1>9 DEF Good, UnderWay
<1>12. (Unreceived' <=> Unreceived) /\ (LampsNext' <=> LampsNext)
  BY <1>2, <1>9 DEF Unreceived, LampsNext
<1>13. Pairs'
  <2>1. Unreceived' => IF keyboard'.expects = "lamps" THEN keycmd_wait' \in 0..7
                       ELSE keycmd_wait' = KEYCMD_LED
    BY <1>2, <1>12 DEF Good, Pairs
  <2>2. Len(keycmd') % 2 = IF LampsNext' THEN 1 ELSE 0
    BY <1>6, <1>7, <1>12 DEF Good, Pairs
  <2>3. ASSUME NEW i \in DOMAIN keycmd'
        PROVE  IF LampsNext'
                 THEN IF i % 2 = 1 THEN keycmd'[i] \in 0..7 ELSE keycmd'[i] = KEYCMD_LED
                 ELSE IF i % 2 = 0 THEN keycmd'[i] \in 0..7 ELSE keycmd'[i] = KEYCMD_LED
    <3>1. CASE i \in DOMAIN keycmd
      BY <1>7, <1>12, <3>1 DEF Good, Pairs
    <3>2. CASE i = Len(keycmd) + 1
      BY <1>6, <1>7, <1>12, <3>2, SMTT(20) DEF Good, Pairs
    <3>3. CASE i = Len(keycmd) + 2
      BY <1>5, <1>6, <1>7, <1>12, <3>3 DEF Good, Pairs
    <3> QED BY <1>6, <1>7, <3>1, <3>2, <3>3
  <2> QED BY <2>1, <2>2, <2>3 DEF Pairs
<1>14. LampsArrive'
  BY <1>6, <1>7 DEF LampsArrive
<1>15. ASSUME NEW l \in Shifts
       PROVE  ShiftArrives(l)'
  <2>1. /\ IsOn(keyboard.held, l)' <=> IsOn(keyboard.held, l)
        /\ IsOn(key_shift, l)' <=> IsOn(key_shift, l)
    BY <1>2 DEF IsOn
  <2> QED BY <1>4, <1>8, <2>1, TailShift DEF Good, ShiftsArrive
<1>16. MouseOnly'
  BY DEF Good, MouseOnly, mouseVars
<1> QED BY <1>10, <1>11, <1>13, <1>14, <1>15, <1>16 DEF Good, ShiftsArrive

\* The byte in front of keycmd goes to the port.
LEMMA SendByteGood ==
  ASSUME Good, SendByte, UNCHANGED mouseVars
  PROVE  Good'
<1>1. /\ keycmd # <<>> /\ keycmd_wait = None /\ port = None
      /\ port' = Head(keycmd) /\ keycmd_wait' = Head(keycmd) /\ keycmd' = Tail(keycmd)
      /\ UNCHANGED <<key_leds, key_shift, fifo, keyboard, failures>>
  BY DEF SendByte, ByteWaits, SendReady
<1>2. keycmd \in Seq(CommandByte) /\ Len(keycmd) <= KeycmdSize
  BY DEF Good, Typed
<1>3. /\ keycmd' \in Seq(CommandByte) /\ Len(keycmd) \in Nat /\ Len(keycmd) > 0
      /\ Len(keycmd') = Len(keycmd) - 1 /\ Len(keycmd') <= KeycmdSize
      /\ DOMAIN keycmd = 1..Len(keycmd) /\ DOMAIN keycmd' = 1..(Len(keycmd) - 1)
      /\ \A i \in DOMAIN keycmd' : keycmd'[i] = keycmd[i + 1]
      /\ Head(keycmd) = keycmd[1] /\ keycmd[1] \in CommandByte
  BY <1>1, <1>2, KeyboardAssumption
<1>4. port' # None
  BY <1>1, <1>3 DEF CommandByte, None, KEYCMD_LED
<1>5. Unanswered /\ Unanswered' /\ ~Refused
  BY <1>1 DEF Good, UnderWay, Unanswered, Refused, IsAnswer
<1>6. ~Unreceived /\ Unreceived' /\ (LampsNext <=> keyboard.expects = "lamps")
      /\ (LampsNext' <=> keyboard.expects = "command")
  BY <1>1, <1>4, <1>5 DEF Unreceived, LampsNext
<1>7. keyboard.expects \in {"command", "lamps"}
  BY DEF Good, Typed
<1>8. LampsNext' <=> ~LampsNext
  BY <1>6, <1>7
<1>9. Typed'
  BY <1>1, <1>3 DEF Good, Typed
<1>10. UnderWay'
  BY <1>1, <1>4, <1>5 DEF UnderWay
<1>11. Pairs'
  <2>1. 1 \in DOMAIN keycmd /\ keycmd_wait' = keycmd[1]
    BY <1>1, <1>3
  <2>2. IF keyboard'.expects = "lamps" THEN keycmd_wait' \in 0..7 ELSE keycmd_wait' = KEYCMD_LED
    BY <1>1, <1>6, <2>1 DEF Good, Pairs
  <2>3. Len(keycmd') % 2 = IF LampsNext' THEN 1 ELSE 0
    <3>1. Len(keycmd) % 2 = IF LampsNext THEN 1 ELSE 0
      BY DEF Good, Pairs
    <3> QED BY <1>3, <1>8, <3>1
  <2>4. ASSUME NEW i \in DOMAIN keycmd'
        PROVE  IF LampsNext'
                 THEN IF i % 2 = 1 THEN keycmd'[i] \in 0..7 ELSE keycmd'[i] = KEYCMD_LED
                 ELSE IF i % 2 = 0 THEN keycmd'[i] \in 0..7 ELSE keycmd'[i] = KEYCMD_LED
    <3>1. i + 1 \in DOMAIN keycmd /\ keycmd'[i] = keycmd[i + 1] /\ i \in Nat
      BY <1>3
    <3>2. IF LampsNext
            THEN IF (i + 1) % 2 = 1 THEN keycmd[i + 1] \in 0..7 ELSE keycmd[i + 1] = KEYCMD_LED
            ELSE IF (i + 1) % 2 = 0 THEN keycmd[i + 1] \in 0..7 ELSE keycmd[i + 1] = KEYCMD_LED
      BY <3>1 DEF Good, Pairs
    <3> QED BY <1>8, <3>1, <3>2
  <2> QED BY <2>2, <2>3, <2>4 DEF Pairs
<1>12. LampsArrive'
  <2>1. keycmd[Len(keycmd)] = key_leds
    BY <1>1 DEF Good, LampsArrive
  <2>2. CASE keycmd' # <<>>
    <3>1. Len(keycmd') \in DOMAIN keycmd' /\ keycmd'[Len(keycmd')] = keycmd[Len(keycmd)]
      BY <1>3, <2>2
    <3> QED BY <1>1, <2>1, <2>2, <3>1 DEF LampsArrive
  <2>3. CASE keycmd' = <<>>
    <3>1. Len(keycmd) = 1
      BY <1>3, <2>3
    <3> QED BY <1>1, <1>3, <1>6, <2>1, <2>3, <3>1 DEF LampsArrive
  <2> QED BY <2>2, <2>3
<1>13. ShiftsArrive' /\ MouseOnly'
  BY <1>1 DEF Good, ShiftsArrive, ShiftArrives, IsOn, MouseOnly, mouseVars
<1> QED BY <1>9, <1>10, <1>11, <1>12, <1>13 DEF Good

\* The answer in front of the FIFO is the only one, and nothing is in the port.
LEMMA TakeAnswer ==
  ASSUME Good, NEW answer \in {Ack, Resend}, Take(answer)
  PROVE  /\ fifo' \in Seq([dat : Int, nth : Int]) /\ Len(fifo') <= FifoSize
         /\ keycmd_wait # None /\ port = None
         /\ Unanswered' /\ ~Refused' /\ (Refused <=> answer = Resend)
         /\ UNCHANGED <<keyboard, failures>>
         /\ UNCHANGED key_shift => ShiftsArrive'
<1>1. /\ fifo # <<>> /\ fifo' = Tail(fifo) /\ Head(fifo) = [dat |-> answer, nth |-> Key]
      /\ UNCHANGED <<keyboard, failures>>
  BY DEF Take
<1>2. fifo \in Seq([dat : Int, nth : Int]) /\ Len(fifo) <= FifoSize
  BY DEF Good, Typed
<1>3. /\ fifo' \in Seq([dat : Int, nth : Int]) /\ Len(fifo') <= FifoSize
      /\ DOMAIN fifo = 1..Len(fifo) /\ Len(fifo) \in Nat /\ Len(fifo) > 0
      /\ DOMAIN fifo' = 1..(Len(fifo) - 1)
      /\ \A i \in DOMAIN fifo' : fifo'[i] = fifo[i + 1]
      /\ Head(fifo) = fifo[1]
  BY <1>1, <1>2, TailShifts
<1>4. fifo[1].dat = answer /\ fifo[1].nth = Key
  BY <1>1, <1>3
<1>5. IsAnswer(fifo[1])
  BY <1>4 DEF IsAnswer
<1>6. ~Unanswered
  BY <1>3, <1>5, TailAnswers
<1>7. keycmd_wait # None /\ port = None /\ Answered
  BY <1>6 DEF Good, UnderWay
<1>8. Unanswered' /\ ~Refused' /\ (Refused <=> answer = Resend)
  BY <1>3, <1>4, <1>5, <1>7, TailAnswers
<1>9. ASSUME UNCHANGED key_shift, NEW l \in Shifts
      PROVE  ShiftArrives(l)'
  <2>1. ~IsAbout(fifo[1], l)
    BY <1>4, KeyboardAssumption DEF IsAbout, Ack, Resend, Release
  <2>2. /\ IsOn(keyboard.held, l)' <=> IsOn(keyboard.held, l)
        /\ IsOn(key_shift, l)' <=> IsOn(key_shift, l)
    BY <1>1, <1>9 DEF IsOn
  <2> QED BY <1>3, <2>1, <2>2, TailShift DEF Good, ShiftsArrive
<1> QED BY <1>1, <1>3, <1>7, <1>8, <1>9 DEF ShiftsArrive

\* The keyboard has received the byte: the next one may go.
LEMMA ReceivedGood ==
  ASSUME Good, Received, UNCHANGED mouseVars
  PROVE  Good'
<1>1. /\ Take(Ack) /\ keycmd_wait' = None
      /\ UNCHANGED <<key_leds, key_shift, keycmd, port>>
  BY DEF Received
<1>2. /\ fifo' \in Seq([dat : Int, nth : Int]) /\ Len(fifo') <= FifoSize
      /\ port = None /\ Unanswered' /\ ~Refused' /\ ~Refused
      /\ UNCHANGED <<keyboard, failures>> /\ ShiftsArrive'
  BY <1>1, TakeAnswer DEF Ack, Resend
<1>3. ~Unreceived /\ ~Unreceived' /\ (LampsNext' <=> LampsNext)
  BY <1>1, <1>2 DEF Unreceived, LampsNext
<1>4. Typed'
  BY <1>1, <1>2 DEF Good, Typed
<1>5. UnderWay'
  BY <1>1, <1>2 DEF UnderWay
<1>6. Pairs' /\ LampsArrive'
  BY <1>1, <1>2, <1>3 DEF Good, Pairs, LampsArrive
<1>7. MouseOnly'
  BY DEF Good, MouseOnly, mouseVars
<1> QED BY <1>2, <1>4, <1>5, <1>6, <1>7 DEF Good

\* The keyboard could not: the same byte goes to the port again.
LEMMA SendAgainGood ==
  ASSUME Good, SendAgain, UNCHANGED mouseVars
  PROVE  Good'
<1>1. /\ Take(Resend) /\ port' = keycmd_wait
      /\ UNCHANGED <<key_leds, key_shift, keycmd, keycmd_wait>>
  BY DEF SendAgain, SendReady
<1>2. /\ fifo' \in Seq([dat : Int, nth : Int]) /\ Len(fifo') <= FifoSize
      /\ keycmd_wait # None /\ Unanswered' /\ Refused
      /\ UNCHANGED <<keyboard, failures>> /\ ShiftsArrive'
  BY <1>1, TakeAnswer
<1>3. Unreceived /\ Unreceived' /\ (LampsNext' <=> LampsNext)
  BY <1>1, <1>2 DEF Unreceived, LampsNext
<1>4. Typed'
  BY <1>1, <1>2 DEF Good, Typed
<1>5. UnderWay'
  BY <1>1, <1>2 DEF UnderWay
<1>6. Pairs' /\ LampsArrive'
  BY <1>1, <1>2, <1>3 DEF Good, Pairs, LampsArrive
<1>7. MouseOnly'
  BY DEF Good, MouseOnly, mouseVars
<1> QED BY <1>2, <1>4, <1>5, <1>6, <1>7 DEF Good

\* The keyboard takes the byte from the port and answers.
LEMMA PutAnswer ==
  ASSUME Good, overrun \in BOOLEAN, port # None, NEW answer \in {Ack, Resend},
         inthandler21(answer), ~overrun'
  PROVE  /\ fifo' \in Seq([dat : Int, nth : Int]) /\ Len(fifo') <= FifoSize
         /\ keycmd_wait = port
         /\ Answered' /\ ~Refused /\ (Refused' <=> answer = Resend)
         /\ UNCHANGED key_shift /\ keyboard'.held = keyboard.held => ShiftsArrive'
<1> DEFINE byte == [dat |-> answer, nth |-> Key]
<1>1. byte \in [dat : Int, nth : Int] /\ byte.dat = answer /\ byte.nth = Key /\ Put(byte)
  BY DEF inthandler21, Ack, Resend, Key
<1> HIDE DEF byte
<1>2. fifo \in Seq([dat : Int, nth : Int]) /\ Len(fifo) <= FifoSize
  BY DEF Good, Typed
<1>3. /\ fifo' \in Seq([dat : Int, nth : Int]) /\ Len(fifo') <= FifoSize
      /\ DOMAIN fifo' = 1..(Len(fifo) + 1)
      /\ \A i \in DOMAIN fifo : fifo'[i] = fifo[i]
      /\ fifo'[Len(fifo) + 1] = byte
      /\ DOMAIN fifo = 1..Len(fifo) /\ Len(fifo) \in Nat
  BY <1>1, <1>2, PutAppends
<1>4. keycmd_wait = port /\ Unanswered /\ ~Refused
  BY DEF Good, UnderWay, Unanswered, Refused, IsAnswer
<1>5. IsAnswer(byte)
  BY <1>1 DEF IsAnswer
<1>6. Answered' /\ (Refused' <=> answer = Resend)
  BY <1>1, <1>3, <1>4, <1>5, AppendAnswers
<1>7. ASSUME UNCHANGED key_shift, keyboard'.held = keyboard.held, NEW l \in Shifts
      PROVE  ShiftArrives(l)'
  <2>1. ~IsAbout(byte, l)
    BY <1>1, KeyboardAssumption DEF IsAbout, Ack, Resend, Release
  <2>2. /\ IsOn(keyboard.held, l)' <=> IsOn(keyboard.held, l)
        /\ IsOn(key_shift, l)' <=> IsOn(key_shift, l)
    BY <1>7 DEF IsOn
  <2> QED BY <1>1, <1>3, <2>1, <2>2, AppendShift DEF Good, ShiftsArrive
<1> QED BY <1>3, <1>4, <1>6, <1>7 DEF ShiftsArrive

LEMMA ReceiveGood ==
  ASSUME Good, overrun \in BOOLEAN, Receive, UNCHANGED mouseVars, ~overrun'
  PROVE  Good'
<1>1. port # None /\ port' = None /\ UNCHANGED <<key_leds, key_shift, keycmd, keycmd_wait>>
  BY DEF Receive
<1>2. MouseOnly'
  BY DEF Good, MouseOnly, mouseVars
<1>3. Unreceived /\ (LampsNext <=> keyboard.expects = "command")
  BY <1>1 DEF Unreceived, LampsNext
<1>4. /\ keyboard \in [lit : 0..7, held : Held, expects : {"command", "lamps"}]
      /\ IF keyboard.expects = "lamps" THEN keycmd_wait \in 0..7 ELSE keycmd_wait = KEYCMD_LED
  BY <1>3 DEF Good, Typed, Pairs
<1>5. CASE /\ keyboard' = IF port = KEYCMD_LED THEN [keyboard EXCEPT !.expects = "lamps"]
                          ELSE IF keyboard.expects = "lamps"
                                 THEN [keyboard EXCEPT !.lit = port, !.expects = "command"]
                                 ELSE keyboard
           /\ inthandler21(Ack) /\ UNCHANGED failures
  <2>1. /\ fifo' \in Seq([dat : Int, nth : Int]) /\ Len(fifo') <= FifoSize
        /\ keycmd_wait = port /\ Answered' /\ ~Refused'
        /\ UNCHANGED key_shift /\ keyboard'.held = keyboard.held => ShiftsArrive'
    BY <1>1, <1>5, PutAnswer DEF Ack, Resend
  <2>2. ~Unreceived' /\ (LampsNext' <=> keyboard'.expects = "lamps")
    BY <1>1, <2>1 DEF Unreceived, LampsNext
  <2>3. /\ keyboard' \in [lit : 0..7, held : {keyboard.held}, expects : {"command", "lamps"}]
        /\ keyboard'.expects = "lamps" <=> keyboard.expects = "command"
        /\ keyboard.expects = "lamps" => keyboard'.lit = keycmd_wait
    <3>1. CASE keyboard.expects = "lamps"
      <4>1. port \in 0..7 /\ port # KEYCMD_LED
        BY <1>4, <2>1, <3>1 DEF KEYCMD_LED
      <4>2. keyboard' = [keyboard EXCEPT !.lit = port, !.expects = "command"]
        BY <1>5, <3>1, <4>1
      <4>3. keyboard' = [lit |-> port, held |-> keyboard.held, expects |-> "command"]
        BY <1>4, <4>2
      <4> QED BY <2>1, <3>1, <4>1, <4>3
    <3>2. CASE keyboard.expects = "command"
      BY <1>4, <1>5, <2>1, <3>2
    <3> QED BY <1>4, <3>1, <3>2
  <2>4. Typed'
    BY <1>1, <1>4, <1>5, <2>1, <2>3 DEF Good, Typed
  <2>5. UnderWay'
    BY <1>1, <2>1 DEF UnderWay, Good, Typed
  <2>6. LampsNext' <=> LampsNext
    BY <1>3, <2>2, <2>3
  <2>7. Pairs'
    BY <1>1, <2>2, <2>6 DEF Good, Pairs
  <2>8. LampsArrive'
    <3>1. CASE keycmd # <<>>
      BY <1>1, <3>1 DEF Good, LampsArrive
    <3>2. CASE keycmd = <<>>
      <4>1. ~LampsNext
        <5>1. Len(keycmd) = 0
          BY <3>2
        <5> QED BY <5>1 DEF Good, Pairs
      <4>2. keyboard.expects = "lamps"
        BY <1>3, <1>4, <4>1
      <4>3. keycmd_wait = key_leds
        BY <1>3, <3>2 DEF Good, LampsArrive
      <4> QED BY <1>1, <2>2, <2>3, <3>2, <4>2, <4>3 DEF LampsArrive
    <3> QED BY <3>1, <3>2
  <2> QED BY <1>1, <1>2, <2>1, <2>3, <2>4, <2>5, <2>7, <2>8 DEF Good
<1>6. CASE /\ failures > 0 /\ failures' = failures - 1
           /\ inthandler21(Resend) /\ UNCHANGED keyboard
  <2>1. /\ fifo' \in Seq([dat : Int, nth : Int]) /\ Len(fifo') <= FifoSize
        /\ keycmd_wait = port /\ Answered' /\ Refused' /\ ShiftsArrive'
    BY <1>1, <1>6, PutAnswer
  <2>2. Unreceived' /\ (LampsNext' <=> LampsNext)
    BY <1>3, <1>6, <2>1 DEF Unreceived, LampsNext
  <2>3. failures' \in Nat
    BY <1>6 DEF Good, Typed
  <2>4. Typed'
    BY <1>1, <1>6, <2>1, <2>3 DEF Good, Typed
  <2>5. UnderWay'
    BY <1>1, <2>1 DEF UnderWay
  <2>6. Pairs' /\ LampsArrive'
    BY <1>1, <1>3, <1>6, <2>2 DEF Good, Pairs, LampsArrive
  <2> QED BY <1>2, <2>1, <2>4, <2>5, <2>6 DEF Good
<1> QED BY <1>5, <1>6 DEF Receive

-----------------------------------------------------------------------------
(* The invariant *)

LEMMA InitGood == Init => IInv
<1> SUFFICES ASSUME Init PROVE IInv
  OBVIOUS
<1>1. PICK use \in Uses : KeyboardInit(use.failures) /\ MouseInit(use.reports)
  BY DEF Init
<1>2. use \in [reports : Nat, failures : Nat, keys : BOOLEAN]
  BY DevicesAssumption
<1>3. /\ key_leds \in 0..7 /\ key_shift = 0
      /\ keycmd = <<KEYCMD_LED, key_leds>> /\ keycmd_wait = None /\ port = None
      /\ keyboard \in [lit : 0..7, held : {0}, expects : {"command"}]
      /\ failures \in Nat
  BY <1>1, <1>2 DEF KeyboardInit, Leds
<1>4. fifo = <<>> /\ overrun = FALSE
  BY DEF Init
<1>5. 0 \in Held
  BY BitValues DEF Held, IsOn
<1>6. /\ keycmd \in Seq(CommandByte) /\ Len(keycmd) = 2 /\ DOMAIN keycmd = 1..2
      /\ keycmd[1] = KEYCMD_LED /\ keycmd[2] = key_leds /\ keycmd # <<>>
  BY <1>3 DEF CommandByte
<1>7. /\ fifo \in Seq([dat : Int, nth : Int]) /\ DOMAIN fifo = {} /\ Len(fifo) = 0
  BY <1>4
<1>8. Typed
  BY <1>3, <1>5, <1>6, <1>7, TaskAFifoAssumption, KeyboardAssumption DEF Typed
<1>9. MouseOnly
  BY <1>1 DEF MouseInit, MouseOnly
<1>10. Unanswered /\ ~Unreceived
  BY <1>3, <1>7 DEF Unanswered, Unreceived, Refused
<1>11. UnderWay /\ ~LampsNext
  BY <1>3, <1>10 DEF UnderWay, LampsNext
<1>12. Pairs
  BY <1>3, <1>6, <1>10, <1>11 DEF Pairs
<1>13. LampsArrive
  BY <1>6 DEF LampsArrive
<1>14. ShiftsArrive
  BY <1>3, <1>7 DEF ShiftsArrive, ShiftArrives
<1> QED BY <1>4, <1>8, <1>9, <1>11, <1>12, <1>13, <1>14 DEF IInv, Good

\* What has been lost stays lost, and what is put is noticed.
LEMMA Overrun ==
  ASSUME overrun \in BOOLEAN, [Next]_vars
  PROVE  overrun' \in BOOLEAN /\ (~overrun' => ~overrun)
<1>1. ASSUME NEW byte, Put(byte)
      PROVE  overrun' \in BOOLEAN /\ (~overrun' => ~overrun)
  BY <1>1 DEF Put
<1>2. CASE KeyboardTask
  BY <1>2 DEF KeyboardTask, SendByte, Received, SendAgain, Lock, ShiftOn, ShiftOff
<1>3. CASE MouseTask
  BY <1>3 DEF MouseTask, TakeByte, DrawPointer, DrawWindow
<1>4. CASE Receive
  BY <1>1, <1>4 DEF Receive, inthandler21
<1>5. CASE PressKey
  BY <1>1, <1>5 DEF PressKey, inthandler21
<1>6. CASE \E r \in Reports : Report(r)
  BY <1>6 DEF Report
<1>7. CASE inthandler2c
  BY <1>1, <1>7 DEF inthandler2c
<1>8. CASE UNCHANGED vars
  BY <1>8 DEF vars
<1> QED BY <1>2, <1>3, <1>4, <1>5, <1>6, <1>7, <1>8 DEF Next, TaskA, KeyboardAnswers

LEMMA NextGood == IInv /\ [Next]_vars => IInv'
<1> SUFFICES ASSUME IInv, [Next]_vars PROVE IInv'
  OBVIOUS
<1>1. overrun \in BOOLEAN /\ overrun' \in BOOLEAN /\ (~overrun' => ~overrun)
  BY Overrun DEF IInv
<1> SUFFICES ASSUME ~overrun' PROVE Good'
  BY <1>1 DEF IInv
<1>2. Good
  BY <1>1 DEF IInv
<1>3. CASE KeyboardTask /\ UNCHANGED mouseVars
  <2>1. CASE SendByte
    BY <1>2, <1>3, <2>1, SendByteGood
  <2>2. CASE Received
    BY <1>2, <1>3, <2>2, ReceivedGood
  <2>3. CASE SendAgain
    BY <1>2, <1>3, <2>3, SendAgainGood
  <2>4. ASSUME NEW k \in Locks, Lock(k) PROVE Good'
    BY <1>2, <1>3, <2>4, LockGood
  <2>5. ASSUME NEW k \in Shifts, ShiftOn(k) PROVE Good'
    BY <1>2, <1>3, <2>5, ShiftOnGood
  <2>6. ASSUME NEW k \in Shifts, ShiftOff(k) PROVE Good'
    BY <1>2, <1>3, <2>6, ShiftOffGood
  <2> QED BY <1>3, <2>1, <2>2, <2>3, <2>4, <2>5, <2>6 DEF KeyboardTask
<1>4. CASE MouseTask /\ UNCHANGED keyboardVars
  BY <1>2, <1>4, TakeByteGood, DrawGood DEF MouseTask
<1>5. CASE Receive /\ UNCHANGED mouseVars
  BY <1>1, <1>2, <1>5, ReceiveGood
<1>6. CASE PressKey /\ UNCHANGED mouseVars
  BY <1>1, <1>2, <1>6, PressKeyGood
<1>7. ASSUME NEW r \in Reports, Report(r), UNCHANGED keyboardVars PROVE Good'
  BY <1>2, <1>7, ReportGood
<1>8. CASE inthandler2c /\ UNCHANGED keyboardVars
  BY <1>1, <1>2, <1>8, MouseByteGood
<1>9. CASE UNCHANGED vars
  <2>1. UNCHANGED <<fifo, keyboardVars, mouse>>
    BY <1>9 DEF vars, mouseVars
  <2>2. Typed' /\ (UnderWay' <=> UnderWay) /\ (Pairs' <=> Pairs) /\ (LampsArrive' <=> LampsArrive)
    BY <1>2, <2>1 DEF keyboardVars, Good, Typed, UnderWay, Unanswered, Answered, AnsweredAt,
                      Pairs, LampsNext, Unreceived, Refused, LampsArrive
  <2>3. (ShiftsArrive' <=> ShiftsArrive) /\ (MouseOnly' <=> MouseOnly)
    BY <2>1 DEF keyboardVars, ShiftsArrive, ShiftArrives, IsOn, MouseOnly
  <2> QED BY <1>2, <2>2, <2>3 DEF Good
<1> QED BY <1>3, <1>4, <1>5, <1>6, <1>7, <1>8, <1>9 DEF Next, TaskA, KeyboardAnswers

-----------------------------------------------------------------------------
(* Its consequences *)

LEMMA CountsOne == IInv => OneUnderWay
<1> SUFFICES ASSUME IInv, ~overrun
             PROVE  Cardinality(Answers) + (IF port = None THEN 0 ELSE 1)
                      = (IF keycmd_wait = None THEN 0 ELSE 1)
  BY DEF OneUnderWay
<1>1. Typed /\ UnderWay
  BY DEF IInv, Good
<1>2. ASSUME Unanswered PROVE Cardinality(Answers) = 0
  <2>1. Answers = {}
    BY <1>2 DEF Answers, Unanswered, IsAnswer
  <2> QED BY <2>1, FS_EmptySet
<1>3. ASSUME Answered PROVE Cardinality(Answers) = 1
  <2>1. PICK i \in DOMAIN fifo : AnsweredAt(i)
    BY <1>3 DEF Answered
  <2>2. Answers = {i}
    BY <2>1 DEF Answers, AnsweredAt, IsAnswer
  <2> QED BY <2>2, FS_Singleton
<1> QED BY <1>1, <1>2, <1>3 DEF UnderWay

LEMMA StaysInStep == IInv => InStep
<1> SUFFICES ASSUME IInv, ~overrun
             PROVE  /\ keycmd = <<>> /\ keycmd_wait = None => keyboard.lit = key_leds
                    /\ port \in 0..7 => keyboard.expects = "lamps"
                    /\ fifo = <<>> => key_shift = keyboard.held
  BY DEF InStep
<1>1. Good
  BY DEF IInv
<1>2. ASSUME keycmd = <<>>, keycmd_wait = None PROVE keyboard.lit = key_leds
  <2>1. ~Unreceived
    BY <1>1, <1>2 DEF Good, UnderWay, Unreceived, Unanswered, Refused, IsAnswer
  <2> QED BY <1>1, <1>2, <2>1 DEF Good, LampsArrive
<1>3. ASSUME port \in 0..7 PROVE keyboard.expects = "lamps"
  <2>1. port # None /\ port # KEYCMD_LED
    BY <1>3 DEF None, KEYCMD_LED
  <2>2. keycmd_wait = port /\ Unreceived
    BY <1>1, <2>1 DEF Good, UnderWay, Unreceived
  <2> QED BY <1>1, <2>1, <2>2 DEF Good, Pairs
<1>4. ASSUME fifo = <<>> PROVE key_shift = keyboard.held
  <2>1. DOMAIN fifo = {}
    BY <1>4
  <2>2. \A k \in Shifts : IsOn(key_shift, k) <=> IsOn(keyboard.held, k)
    BY <1>1, <2>1 DEF Good, ShiftsArrive, ShiftArrives
  <2>3. key_shift \in Held /\ keyboard.held \in Held
    BY <1>1 DEF Good, Typed
  <2> QED BY <2>2, <2>3, SameWord
<1> QED BY <1>2, <1>3, <1>4

\* A byte for the keyboard (bootpack.c:129, 240 to 246) is under way once at
\* most, until its acknowledgement has been read.
THEOREM KeyboardWaits == Spec => []OneUnderWay
<1>1. Spec => []IInv
  BY InitGood, NextGood, PTL DEF Spec
<1> QED BY <1>1, CountsOne, PTL

\* What task A believes of the lamps and the shift keys (bootpack.c:189 to 215)
\* is so, once everything that is under way has arrived.
THEOREM KeyboardInStep == Spec => []InStep
<1>1. Spec => []IInv
  BY InitGood, NextGood, PTL DEF Spec
<1> QED BY <1>1, StaysInStep, PTL

-----------------------------------------------------------------------------
(* The mouse: what is on its way, decoded from where the decoder is, leads *)
(* to where the mouse has moved the pointer.                               *)

Point == [x : Int, y : Int]
Byte == [dat : Int, nth : Int]
Decoder == [phase : 0..3, buf : [1..3 -> Byte]]

\* Where the decoder and the pointer are, and where a datum takes them
Places == [m : Decoder, at : Point]
Now == [m |-> mdec, at |-> [x |-> pointer.mx, y |-> pointer.my]]

Shifted(at, d) == InScreen(at.x + d.x, at.y + d.y)

After(s, b) ==
  IF b.nth = Key THEN s
  ELSE [m |-> mouse_decode(s.m, b),
        at |-> IF Completes(s.m) THEN Shifted(s.at, Decoded(mouse_decode(s.m, b).buf))
               ELSE s.at]

\* st goes along the data q, and no byte of a report is misread.
IsRun(st, q) ==
  \A i \in DOMAIN q : /\ st[i] = After(st[i - 1], q[i])
                      /\ q[i].nth # Key => q[i].nth = st[i - 1].m.phase

IsRunTo(st, s, q, aim) ==
  /\ st \in [0..Len(q) -> Places] /\ st[0] = s
  /\ IsRun(st, q)
  /\ st[Len(q)].m.phase = 1 /\ st[Len(q)].at = aim

Leads(s, q, aim) == \E st : IsRunTo(st, s, q, aim)

LEMMA InScreenIs ==
  ASSUME NEW x \in Int, NEW y \in Int
  PROVE  InScreen(x, y) \in [x : Nat, y : Nat]
<1>1. ASSUME NEW a \in Int, NEW b \in Int PROVE Min({a, b}) \in Int
  <2>1. Min({a, b}) = IF a <= b THEN a ELSE b BY DEF Min
  <2> QED BY <2>1
<1>2. ASSUME NEW a \in Int PROVE Max({0, a}) \in Nat
  <2>1. Max({0, a}) = IF 0 >= a THEN 0 ELSE a BY DEF Max
  <2> QED BY <2>1
<1>3. scrnx - 1 \in Int /\ scrny - 1 \in Int BY MouseAssumption
<1>4. Min({scrnx - 1, x}) \in Int /\ Min({scrny - 1, y}) \in Int BY <1>1, <1>3
<1>5. Max({0, Min({scrnx - 1, x})}) \in Nat /\ Max({0, Min({scrny - 1, y})}) \in Nat
  BY <1>2, <1>4
<1> QED BY <1>5 DEF InScreen

LEMMA DecodedIs ==
  ASSUME NEW buf \in [1..3 -> Byte]
  PROVE  Decoded(buf) \in [x : Int, y : Int, btn : Int]
<1>1. buf[1].dat \in Int /\ buf[2].dat \in Int /\ buf[3].dat \in Int BY DEF Byte
<1>2. buf[1].dat % 8 \in Int BY <1>1
<1> QED BY <1>1, <1>2 DEF Decoded, Signed

LEMMA DecoderTyped ==
  ASSUME NEW m \in Decoder, NEW b \in Byte
  PROVE  mouse_decode(m, b) \in Decoder
<1>1. m = [phase |-> m.phase, buf |-> m.buf] /\ m.phase \in 0..3 /\ m.buf \in [1..3 -> Byte]
  BY DEF Decoder
<1>2. ASSUME NEW i \in 1..3 PROVE [m.buf EXCEPT ![i] = b] \in [1..3 -> Byte]
  BY <1>1
<1>3. ASSUME NEW p \in 0..3, NEW i \in 1..3
      PROVE  [m EXCEPT !.phase = p, !.buf[i] = b] \in Decoder
  <2>1. PICK e : e = [m EXCEPT !.phase = p, !.buf[i] = b] OBVIOUS
  <2>2. PICK buf \in [1..3 -> Byte] : buf = [m.buf EXCEPT ![i] = b] BY <1>2
  <2>3. e = [phase |-> p, buf |-> buf] BY <1>1, <2>1, <2>2
  <2> QED BY <2>1, <2>2, <2>3 DEF Decoder
<1>4. CASE m.phase = 0
  <2>1. mouse_decode(m, b) = [m EXCEPT !.phase = IF b.dat = 250 THEN 1 ELSE 0]
    BY <1>4 DEF mouse_decode
  <2> QED BY <1>1, <2>1 DEF Decoder
<1>5. CASE m.phase = 1
  BY <1>3, <1>5 DEF mouse_decode
<1>6. CASE m.phase = 2
  BY <1>3, <1>6 DEF mouse_decode
<1>7. CASE m.phase = 3
  BY <1>3, <1>7 DEF mouse_decode
<1> QED BY <1>1, <1>4, <1>5, <1>6, <1>7

LEMMA AfterTyped ==
  ASSUME NEW s \in Places, NEW b \in Byte
  PROVE  After(s, b) \in Places
<1>1. s.m \in Decoder /\ s.at \in Point BY DEF Places
<1>2. PICK m \in Decoder : m = mouse_decode(s.m, b) BY <1>1, DecoderTyped
<1>3. PICK d \in [x : Int, y : Int, btn : Int] : d = Decoded(m.buf)
  BY DecodedIs DEF Decoder
<1>4. Shifted(s.at, d) \in Point
  <2>1. PICK x \in Int, y \in Int : x = s.at.x + d.x /\ y = s.at.y + d.y BY <1>1, <1>3 DEF Point
  <2>2. InScreen(x, y) \in [x : Nat, y : Nat] BY InScreenIs
  <2> QED BY <2>1, <2>2 DEF Shifted, Point
<1>5. After(s, b) = IF b.nth = Key THEN s
                    ELSE [m |-> m, at |-> IF Completes(s.m) THEN Shifted(s.at, d) ELSE s.at]
  BY <1>2, <1>3 DEF After
<1> QED BY <1>1, <1>4, <1>5 DEF Places

\* Where no byte of the mouse comes, nothing happens.
LEMMA StaysPut ==
  ASSUME NEW q \in Seq(Byte), NEW st, IsRun(st, q),
         NEW k \in 0..Len(q), \A j \in 1..k : q[j].nth = Key
  PROVE  st[k] = st[0]
<1> DEFINE S == {i \in 0..k : st[i] # st[0]}
<1>1. S = {}
  <2> SUFFICES ASSUME S # {} PROVE FALSE
    OBVIOUS
  <2>1. S \subseteq Nat OBVIOUS
  <2> HIDE DEF S
  <2>2. PICK n \in S : \A i \in S : n <= i BY <2>1, LeastExists
  <2> USE DEF S
  <2>3. n \in 0..k /\ n # 0 /\ n \in Nat OBVIOUS
  <2>4. n - 1 \in 0..k /\ n - 1 \notin S /\ n \in DOMAIN q /\ n \in 1..k BY <2>2, <2>3
  <2>5. st[n - 1] = st[0] BY <2>4
  <2>6. st[n] = st[n - 1] BY <2>4 DEF IsRun, After
  <2> QED BY <2>5, <2>6
<1> QED BY <1>1

LEMMA TailPlaces ==
  ASSUME NEW T, NEW q \in Seq(T), q # <<>>
  PROVE  /\ Len(q) \in Nat /\ Len(q) > 0 /\ DOMAIN q = 1..Len(q)
         /\ Len(Tail(q)) = Len(q) - 1 /\ DOMAIN Tail(q) = 1..(Len(q) - 1)
         /\ \A i \in 1..(Len(q) - 1) : Tail(q)[i] = q[i + 1]
OBVIOUS

\* Task A takes the first datum.
LEMMA TailLeads ==
  ASSUME NEW q \in Seq(Byte), q # <<>>, NEW s, NEW aim, Leads(s, q, aim)
  PROVE  /\ q[1].nth # Key => q[1].nth = s.m.phase
         /\ Leads(After(s, q[1]), Tail(q), aim)
<1>1. PICK st : IsRunTo(st, s, q, aim) BY DEF Leads
<1>2. /\ Len(q) \in Nat /\ Len(q) > 0 /\ DOMAIN q = 1..Len(q)
      /\ Len(Tail(q)) = Len(q) - 1 /\ DOMAIN Tail(q) = 1..(Len(q) - 1)
      /\ \A i \in 1..(Len(q) - 1) : Tail(q)[i] = q[i + 1]
  BY TailPlaces
<1>3. PICK n : n = Len(q) - 1 /\ n \in Nat BY <1>2
<1>4. PICK u : u = [i \in 0..n |-> st[i + 1]] OBVIOUS
<1>5. \A i \in 0..n : u[i] = st[i + 1] /\ st[i + 1] \in Places /\ i + 1 \in 0..Len(q)
  BY <1>1, <1>3, <1>4 DEF IsRunTo
<1>6. u \in [0..n -> Places] BY <1>4, <1>5
<1>7. 1 \in DOMAIN q /\ u[0] = After(s, q[1]) /\ (q[1].nth # Key => q[1].nth = s.m.phase)
  BY <1>1, <1>2, <1>3, <1>5 DEF IsRunTo, IsRun
<1>8. IsRun(u, Tail(q))
  <2> SUFFICES ASSUME NEW i \in DOMAIN Tail(q)
               PROVE  /\ u[i] = After(u[i - 1], Tail(q)[i])
                      /\ Tail(q)[i].nth # Key => Tail(q)[i].nth = u[i - 1].m.phase
    BY DEF IsRun
  <2>1. i \in 0..n /\ i - 1 \in 0..n /\ i + 1 \in DOMAIN q /\ Tail(q)[i] = q[i + 1]
    BY <1>2, <1>3
  <2>2. u[i] = st[i + 1] /\ u[i - 1] = st[i]
    BY <1>5, <2>1
  <2>3. /\ st[i + 1] = After(st[i + 1 - 1], q[i + 1])
        /\ q[i + 1].nth # Key => q[i + 1].nth = st[i + 1 - 1].m.phase
    BY <1>1, <2>1 DEF IsRunTo, IsRun
  <2>4. i + 1 - 1 = i BY <1>2
  <2> QED BY <2>1, <2>2, <2>3, <2>4
<1>9. u[n] = st[Len(q)] BY <1>3, <1>5
<1> QED BY <1>1, <1>2, <1>3, <1>6, <1>7, <1>8, <1>9 DEF IsRunTo, Leads

\* A datum of the keyboard comes between the others.
LEMMA KeyLeads ==
  ASSUME NEW p \in Seq(Byte), NEW r \in Seq(Byte), NEW b \in Byte, b.nth = Key,
         NEW s, NEW aim, Leads(s, p \o r, aim)
  PROVE  Leads(s, Append(p, b) \o r, aim)
<1>1. PICK n \in Nat : n = Len(p) OBVIOUS
<1>2. PICK k \in Nat : k = Len(r) OBVIOUS
<1>3. PICK q : q = p \o r OBVIOUS
<1>4. PICK z : z = Append(p, b) \o r OBVIOUS
<1>5. /\ q \in Seq(Byte) /\ Len(q) = n + k
      /\ \A i \in 1..(n + k) : q[i] = IF i <= n THEN p[i] ELSE r[i - n]
  BY <1>1, <1>2, <1>3, ConcatProperties
<1>6. /\ Append(p, b) \in Seq(Byte) /\ Len(Append(p, b)) = n + 1
      /\ \A i \in 1..n : Append(p, b)[i] = p[i]
      /\ Append(p, b)[n + 1] = b
  BY <1>1
<1>7. /\ z \in Seq(Byte) /\ Len(z) = n + 1 + k
      /\ \A i \in 1..(n + 1 + k) : z[i] = IF i <= n + 1 THEN Append(p, b)[i] ELSE r[i - (n + 1)]
  BY <1>1, <1>2, <1>4, <1>6, ConcatProperties
<1>8. PICK st : IsRunTo(st, s, q, aim) BY <1>3 DEF Leads
<1>9. PICK u : u = [i \in 0..(n + k + 1) |-> IF i <= n THEN st[i] ELSE st[i - 1]] OBVIOUS
<1>10. \A i \in 0..(n + k) : st[i] \in Places BY <1>5, <1>8 DEF IsRunTo
<1>11. /\ \A i \in 0..n : u[i] = st[i]
       /\ \A i \in (n + 1)..(n + k + 1) : u[i] = st[i - 1]
  BY <1>9
<1>12. u \in [0..(n + k + 1) -> Places] BY <1>9, <1>10
<1>13. IsRun(u, z)
  <2> SUFFICES ASSUME NEW i \in DOMAIN z
               PROVE  /\ u[i] = After(u[i - 1], z[i])
                      /\ z[i].nth # Key => z[i].nth = u[i - 1].m.phase
    BY DEF IsRun
  <2>1. i \in 1..(n + 1 + k) BY <1>7
  <2>2. CASE i <= n
    <3>1. i \in DOMAIN q /\ q[i] = p[i] /\ z[i] = p[i] BY <1>5, <1>6, <1>7, <2>1, <2>2
    <3>2. u[i] = st[i] /\ u[i - 1] = st[i - 1] BY <1>11, <2>1, <2>2
    <3> QED BY <1>8, <3>1, <3>2 DEF IsRunTo, IsRun
  <2>3. CASE i = n + 1
    <3>1. z[i] = b BY <1>6, <1>7, <2>1, <2>3
    <3>2. u[i] = st[n] /\ u[i - 1] = st[n] BY <1>11, <2>3
    <3> QED BY <3>1, <3>2 DEF After
  <2>4. CASE i > n + 1
    <3>1. i - 1 \in DOMAIN q /\ q[i - 1] = r[i - 1 - n] /\ z[i] = r[i - 1 - n]
      BY <1>5, <1>7, <2>1, <2>4
    <3>2. u[i] = st[i - 1] /\ u[i - 1] = st[i - 1 - 1] BY <1>11, <2>1, <2>4, SMTT(20)
    <3> QED BY <1>8, <3>1, <3>2 DEF IsRunTo, IsRun
  <2> QED BY <2>1, <2>2, <2>3, <2>4
<1>14. u[0] = st[0] /\ u[n + k + 1] = st[n + k] BY <1>11
<1>15. IsRunTo(u, s, z, aim)
  BY <1>5, <1>7, <1>8, <1>12, <1>13, <1>14 DEF IsRunTo
<1> QED BY <1>4, <1>15 DEF Leads

\* The bytes of a report are what mouse_decode puts together again.
LEMMA ReportLeads ==
  ASSUME NEW q \in Seq(Byte), NEW s, NEW aim \in Point, Leads(s, q, aim), NEW r \in Reports
  PROVE  Leads(s, q \o Bytes(r), InScreen(aim.x + r.dx, aim.y - r.dy))
<1>1. PICK dx \in -256..255, dy \in -256..255, btn \in 0..7 :
        dx = r.dx /\ dy = r.dy /\ btn = r.btn
  <2>1. r \in [dx : -256..255, dy : -256..255, btn : 0..7] BY MouseAssumption
  <2> QED BY <2>1
<1>0. PICK sx \in {0, 16}, sy \in {0, 32} :
        sx = (IF dx < 0 THEN 16 ELSE 0) /\ sy = (IF dy < 0 THEN 32 ELSE 0)
  OBVIOUS
<1>2. PICK first \in 8..63 : first = 8 + btn + sx + sy OBVIOUS
<1>3. /\ IsFirst(first)
      /\ Bits(first, 16) <=> dx < 0
      /\ Bits(first, 32) <=> dy < 0
  <2>1. CASE sx = 0 /\ sy = 0 BY <1>0, <1>2, <2>1 DEF IsFirst, Bits
  <2>2. CASE sx = 0 /\ sy = 32 BY <1>0, <1>2, <2>2 DEF IsFirst, Bits
  <2>3. CASE sx = 16 /\ sy = 0 BY <1>0, <1>2, <2>3 DEF IsFirst, Bits
  <2>4. CASE sx = 16 /\ sy = 32 BY <1>0, <1>2, <2>4 DEF IsFirst, Bits
  <2> QED BY <2>1, <2>2, <2>3, <2>4
<1>4. PICK b1 : b1 = [dat |-> first, nth |-> 1] /\ b1 \in Byte
  <2>1. [dat |-> first, nth |-> 1] \in Byte BY <1>2 DEF Byte
  <2> QED BY <2>1
<1>5. dx % 256 \in Int /\ dy % 256 \in Int OBVIOUS
<1>6. PICK b2 : b2 = [dat |-> dx % 256, nth |-> 2] /\ b2 \in Byte
  <2>1. [dat |-> dx % 256, nth |-> 2] \in Byte BY <1>5 DEF Byte
  <2> QED BY <2>1
<1>7. PICK b3 : b3 = [dat |-> dy % 256, nth |-> 3] /\ b3 \in Byte
  <2>1. [dat |-> dy % 256, nth |-> 3] \in Byte BY <1>5 DEF Byte
  <2> QED BY <2>1
<1>8. Bytes(r) = <<b1, b2, b3>> BY <1>0, <1>1, <1>2, <1>4, <1>6, <1>7, SMTT(20) DEF Bytes
<1>9. PICK n \in Nat : n = Len(q) OBVIOUS
<1>10. PICK z : z = q \o Bytes(r) OBVIOUS
<1>11. PICK c : c = <<b1, b2, b3>> OBVIOUS
<1>32. c \in Seq(Byte) BY <1>4, <1>6, <1>7, <1>11
<1>33. Len(c) = 3 /\ c[1] = b1 /\ c[2] = b2 /\ c[3] = b3 BY <1>11
<1>12. /\ z \in Seq(Byte) /\ Len(z) = n + 3
       /\ \A i \in 1..(n + 3) : z[i] = IF i <= n THEN q[i] ELSE c[i - n]
  BY <1>8, <1>9, <1>10, <1>11, <1>32, <1>33, ConcatProperties
<1>13. PICK st : IsRunTo(st, s, q, aim) BY DEF Leads
<1>14. st[n] \in Places /\ st[n].m.phase = 1 /\ st[n].at = aim BY <1>9, <1>13 DEF IsRunTo
<1>15. PICK s1 \in Places : s1 = After(st[n], b1) BY <1>4, <1>14, AfterTyped
<1>16. PICK s2 \in Places : s2 = After(s1, b2) BY <1>6, AfterTyped
<1>17. PICK s3 \in Places : s3 = After(s2, b3) BY <1>7, AfterTyped
<1>18. PICK m \in Decoder : m = st[n].m /\ m.phase = 1 BY <1>14 DEF Places
<1>19. m = [phase |-> 1, buf |-> m.buf] /\ m.buf \in [1..3 -> Byte] BY <1>18 DEF Decoder
<1>20. s1.m = [phase |-> 2, buf |-> [m.buf EXCEPT ![1] = b1]] /\ s1.at = aim
  <2>1. mouse_decode(m, b1) = [m EXCEPT !.phase = 2, !.buf[1] = b1]
    BY <1>3, <1>4, <1>18 DEF mouse_decode
  <2>2. mouse_decode(m, b1) = [phase |-> 2, buf |-> [m.buf EXCEPT ![1] = b1]]
    BY <1>19, <2>1
  <2> QED BY <1>4, <1>14, <1>15, <1>18, <2>2 DEF After, Key, Completes
<1>21. s2.m = [phase |-> 3, buf |-> [s1.m.buf EXCEPT ![2] = b2]] /\ s2.at = aim
  <2>1. mouse_decode(s1.m, b2) = [s1.m EXCEPT !.phase = 3, !.buf[2] = b2]
    BY <1>20 DEF mouse_decode
  <2>2. mouse_decode(s1.m, b2) = [phase |-> 3, buf |-> [s1.m.buf EXCEPT ![2] = b2]]
    BY <1>20, <2>1
  <2> QED BY <1>6, <1>16, <1>20, <2>2 DEF After, Key, Completes
<1>22. /\ s3.m = [phase |-> 1, buf |-> [s2.m.buf EXCEPT ![3] = b3]]
       /\ s3.at = Shifted(aim, Decoded(s3.m.buf))
  <2>1. mouse_decode(s2.m, b3) = [s2.m EXCEPT !.phase = 1, !.buf[3] = b3]
    BY <1>21 DEF mouse_decode
  <2>2. mouse_decode(s2.m, b3) = [phase |-> 1, buf |-> [s2.m.buf EXCEPT ![3] = b3]]
    BY <1>21, <2>1
  <2> QED BY <1>7, <1>17, <1>21, <2>2 DEF After, Key, Completes
<1>23. s3.m.buf[1] = b1 /\ s3.m.buf[2] = b2 /\ s3.m.buf[3] = b3
  BY <1>19, <1>20, <1>21, <1>22
<1>24. Decoded(s3.m.buf).x = dx /\ Decoded(s3.m.buf).y = -dy
  <2>1. Signed(dx % 256, dx < 0) = dx /\ Signed(dy % 256, dy < 0) = dy
    <3>1. CASE dx < 0 /\ dy < 0 BY <3>1 DEF Signed
    <3>2. CASE dx < 0 /\ ~(dy < 0) BY <3>2 DEF Signed
    <3>3. CASE ~(dx < 0) /\ dy < 0 BY <3>3 DEF Signed
    <3>4. CASE ~(dx < 0) /\ ~(dy < 0) BY <3>4 DEF Signed
    <3> QED BY <3>1, <3>2, <3>3, <3>4
  <2>2. Decoded(s3.m.buf) = [x |-> Signed(dx % 256, Bits(first, 16)),
                             y |-> -Signed(dy % 256, Bits(first, 32)), btn |-> first % 8]
    BY <1>4, <1>6, <1>7, <1>23 DEF Decoded
  <2>3. (Bits(first, 16) = (dx < 0)) /\ (Bits(first, 32) = (dy < 0)) BY <1>3 DEF Bits
  <2> QED BY <2>1, <2>2, <2>3
<1>25. s3.at = InScreen(aim.x + r.dx, aim.y - r.dy)
  <2>1. aim.y + -dy = aim.y - dy BY DEF Point
  <2> QED BY <1>1, <1>22, <1>24, <2>1 DEF Shifted
<1>26. PICK u : u = [i \in 0..(n + 3) |-> IF i <= n THEN st[i] ELSE
                                           IF i = n + 1 THEN s1 ELSE IF i = n + 2 THEN s2 ELSE s3]
  OBVIOUS
<1>27. /\ \A i \in 0..n : u[i] = st[i] /\ st[i] \in Places
       /\ u[n + 1] = s1 /\ u[n + 2] = s2 /\ u[n + 3] = s3
  <2>1. \A i \in 0..n : st[i] \in Places BY <1>9, <1>13 DEF IsRunTo
  <2>2. \A i \in 0..n : u[i] = st[i] BY <1>26
  <2> QED BY <1>26, <2>1, <2>2
<1>28. u \in [0..(n + 3) -> Places]
  <2>1. \A i \in 0..(n + 3) : i \in 0..n \/ i = n + 1 \/ i = n + 2 \/ i = n + 3 OBVIOUS
  <2>2. \A i \in 0..(n + 3) : u[i] \in Places BY <1>27, <2>1, <1>15, <1>16, <1>17
  <2> QED BY <1>26, <2>2
<1>29. IsRun(u, z)
  <2> SUFFICES ASSUME NEW i \in DOMAIN z
               PROVE  /\ u[i] = After(u[i - 1], z[i])
                      /\ z[i].nth # Key => z[i].nth = u[i - 1].m.phase
    BY DEF IsRun
  <2>1. i \in 1..(n + 3) BY <1>12
  <2>2. CASE i <= n
    <3>1. i \in DOMAIN q /\ z[i] = q[i] BY <1>9, <1>12, <2>1, <2>2
    <3>2. u[i] = st[i] /\ u[i - 1] = st[i - 1] BY <1>27, <2>1, <2>2
    <3> QED BY <1>13, <3>1, <3>2 DEF IsRunTo, IsRun
  <2>3. CASE i = n + 1
    <3>1. i - n = 1 /\ i - 1 = n /\ n \in 0..n BY <2>3
    <3>2. z[i] = c[1] /\ c[1] = b1 BY <1>33, <1>12, <2>1, <2>3, <3>1
    <3>3. u[i] = s1 /\ u[i - 1] = st[n] BY <1>27, <2>3, <3>1
    <3> QED BY <1>4, <1>14, <1>15, <3>2, <3>3
  <2>4. CASE i = n + 2
    <3>1. z[i] = b2 /\ u[i] = s2 /\ u[i - 1] = s1 BY <1>33, <1>12, <1>27, <2>4
    <3> QED BY <1>6, <1>16, <1>20, <3>1
  <2>5. CASE i = n + 3
    <3>1. z[i] = b3 /\ u[i] = s3 /\ u[i - 1] = s2 BY <1>33, <1>12, <1>27, <2>5
    <3> QED BY <1>7, <1>17, <1>21, <3>1
  <2> QED BY <2>1, <2>2, <2>3, <2>4, <2>5
<1>30. u[0] = s /\ u[n + 3].m.phase = 1 /\ u[n + 3].at = InScreen(aim.x + r.dx, aim.y - r.dy)
  BY <1>13, <1>22, <1>25, <1>27 DEF IsRunTo
<1>31. IsRunTo(u, s, z, InScreen(aim.x + r.dx, aim.y - r.dy))
  BY <1>12, <1>28, <1>29, <1>30 DEF IsRunTo
<1> QED BY <1>10, <1>31 DEF Leads

-----------------------------------------------------------------------------
(* The state of the mouse, whatever has been lost *)

MouseTyped ==
  /\ fifo \in Seq(Byte) /\ Len(fifo) <= FifoSize
  /\ mouse \in [bytes : Seq([dat : Int, nth : 0..3]), left : Int, aim : Point]
  /\ mdec \in Decoder
  /\ pointer \in [mx : Int, my : Int, new_mx : Int, new_my : Int]
  /\ drag \in [mmx : Int, mmy : Int, mmx2 : Int, new_wx : Int, new_wy : Int]
  /\ sheets \in [mouse : Point, window : Point, shown : BOOLEAN]
  /\ grip \in Point

Followed == Leads(Now, OnTheWay, mouse.aim)

\* The cursor is, or will be drawn, where the pointer is.
CursorShown ==
  [x |-> pointer.mx, y |-> pointer.my] =
    IF pointer.new_mx < 0 THEN sheets.mouse ELSE [x |-> pointer.new_mx, y |-> pointer.new_my]

\* Where the window is, or will be drawn
WindowAt == IF drag.new_wx = NotMoved THEN sheets.window
            ELSE [x |-> drag.new_wx, y |-> drag.new_wy]

\* While the window is held, it is where it was grabbed, but for the rounding.
WindowHeld ==
  IF drag.mmx < 0 THEN drag.new_wx = NotMoved
  ELSE /\ WindowAt.y = pointer.my - grip.y /\ WindowAt.x - (pointer.mx - grip.x) \in -2..2
       /\ drag.new_wy = WindowAt.y /\ drag.mmy = pointer.my
       /\ grip.x = drag.mmx - drag.mmx2

MInv ==
  /\ overrun \in BOOLEAN /\ MouseTyped /\ CursorShown /\ WindowHeld
  /\ ~overrun => Followed

\* What an interrupt puts is behind the others, or lost.
LEMMA PutTyped ==
  ASSUME NEW b \in Byte, fifo \in Seq(Byte), Len(fifo) <= FifoSize, overrun \in BOOLEAN, Put(b)
  PROVE  /\ fifo' \in Seq(Byte) /\ Len(fifo') <= FifoSize
         /\ ~overrun' => ~overrun /\ fifo' = Append(fifo, b)
<1>1. CASE ~overrun'
  BY <1>1, PutAppends DEF Byte
<1>2. CASE overrun' /\ Len(fifo) # FifoSize
  <2>1. Len(fifo) \in Nat /\ Len(fifo) + 1 <= FifoSize /\ FifoSize \in Nat
    BY <1>2, TaskAFifoAssumption
  <2>2. <<b>> \in Seq(Byte) /\ Len(<<b>>) = 1 OBVIOUS
  <2>3. SubSeq(<<b>>, 1, 1) = <<b>> BY <2>2, SubSeqFull
  <2>4. fifo' = fifo \o <<b>> BY <2>1, <2>2, <2>3 DEF Put, Taken
  <2>5. fifo' = Append(fifo, b) BY <2>4
  <2> QED BY <1>2, <2>1, <2>5
<1>3. CASE overrun' /\ Len(fifo) = FifoSize
  <2>1. Len(fifo) \in Nat /\ Len(<<b>>) = 1 /\ <<b>> \in Seq(Byte) OBVIOUS
  <2>2. fifo' = fifo \o SubSeq(<<b>>, 1, FifoSize - Len(fifo))
    BY <1>3, <2>1 DEF Put, Taken
  <2>3. FifoSize - Len(fifo) = 0 BY <1>3, <2>1
  <2>4. PICK e : e = SubSeq(<<b>>, 1, 0) OBVIOUS
  <2>5. e \in Seq(Byte) /\ Len(e) = 0
    BY <2>1, <2>4
  <2>6. fifo \o e \in Seq(Byte) /\ Len(fifo \o e) = Len(fifo) + Len(e)
    BY <2>5, ConcatProperties
  <2> QED BY <1>3, <2>1, <2>2, <2>3, <2>4, <2>5, <2>6
<1>4. overrun' \in BOOLEAN BY DEF Put
<1> QED BY <1>1, <1>2, <1>3, <1>4

LEMMA BytesTyped ==
  ASSUME MouseTyped
  PROVE  /\ mouse.bytes \in Seq(Byte) /\ mouse.aim \in Point
         /\ OnTheWay \in Seq(Byte) /\ Now \in Places
<1>1. mouse.bytes \in Seq([dat : Int, nth : 0..3]) /\ mouse.aim \in Point BY DEF MouseTyped
<1>2. mouse.bytes \in Seq(Byte)
  <2>1. [dat : Int, nth : 0..3] \subseteq Byte BY DEF Byte
  <2> QED BY <1>1, <2>1, SeqMonotonic
<1>3. OnTheWay \in Seq(Byte) BY <1>2, ConcatProperties DEF MouseTyped, OnTheWay
<1>4. Now \in Places BY DEF MouseTyped, Now, Places, Point
<1> QED BY <1>1, <1>2, <1>3, <1>4

\* What is behind the first datum of the FIFO
LEMMA OnTheWayTail ==
  ASSUME MouseTyped, fifo # <<>>, fifo' = Tail(fifo), UNCHANGED mouse
  PROVE  /\ OnTheWay # <<>> /\ OnTheWay[1] = Head(fifo) /\ Head(fifo) \in Byte
         /\ OnTheWay' = Tail(OnTheWay)
         /\ fifo' \in Seq(Byte) /\ Len(fifo') <= FifoSize
<1>1. PICK f \in Seq(Byte) : f = fifo BY DEF MouseTyped
<1>2. PICK r \in Seq(Byte) : r = mouse.bytes BY BytesTyped
<1>3. /\ f \o r \in Seq(Byte) /\ Len(f \o r) = Len(f) + Len(r)
      /\ \A i \in 1..(Len(f) + Len(r)) : (f \o r)[i] = IF i <= Len(f) THEN f[i] ELSE r[i - Len(f)]
  BY ConcatProperties
<1>4. /\ Tail(f) \in Seq(Byte) /\ Len(Tail(f)) = Len(f) - 1 /\ Len(f) > 0 /\ Len(f) \in Nat
      /\ \A i \in 1..(Len(f) - 1) : Tail(f)[i] = f[i + 1]
      /\ Head(f) = f[1] /\ f[1] \in Byte
  BY <1>1
<1>5. /\ Tail(f) \o r \in Seq(Byte) /\ Len(Tail(f) \o r) = Len(f) - 1 + Len(r)
      /\ \A i \in 1..(Len(f) - 1 + Len(r)) :
           (Tail(f) \o r)[i] = IF i <= Len(f) - 1 THEN Tail(f)[i] ELSE r[i - (Len(f) - 1)]
  BY <1>4, ConcatProperties
<1>6. PICK n, k : n = Len(f) /\ k = Len(r) /\ n \in Nat /\ k \in Nat /\ n > 0
  <2>1. Len(r) \in Nat OBVIOUS
  <2> QED BY <1>4, <2>1
<1>7. PICK q : q = f \o r /\ q \in Seq(Byte) /\ Len(q) = n + k /\ q # <<>>
  <2>1. Len(f \o r) > 0 BY <1>3, <1>6
  <2>2. f \o r # <<>> BY <2>1
  <2> QED BY <1>3, <1>6, <2>2
<1>8. /\ Tail(q) \in Seq(Byte) /\ Len(Tail(q)) = n + k - 1
      /\ \A i \in 1..(n + k - 1) : Tail(q)[i] = q[i + 1]
  BY <1>6, <1>7
<1>9. \A i \in 1..(n + k - 1) : Tail(q)[i] = (Tail(f) \o r)[i]
  <2> SUFFICES ASSUME NEW i \in 1..(n + k - 1) PROVE Tail(q)[i] = (Tail(f) \o r)[i]
    OBVIOUS
  <2>1. i + 1 \in 1..(n + k) /\ i \in 1..(n - 1 + k) BY <1>6
  <2>2. q[i + 1] = IF i + 1 <= n THEN f[i + 1] ELSE r[i + 1 - n] BY <1>3, <1>6, <1>7, <2>1
  <2>3. (Tail(f) \o r)[i] = IF i <= n - 1 THEN Tail(f)[i] ELSE r[i - (n - 1)] BY <1>5, <1>6, <2>1
  <2>4. i <= n - 1 => Tail(f)[i] = f[i + 1] BY <1>4, <1>6
  <2>5. i + 1 - n = i - (n - 1) /\ (i + 1 <= n <=> i <= n - 1) BY <1>6
  <2> QED BY <1>8, <2>2, <2>3, <2>4, <2>5
<1>10. Tail(q) = Tail(f) \o r
  <2>1. PICK z : z = Tail(f) \o r /\ z \in Seq(Byte) /\ Len(z) = n + k - 1
    <3>1. Len(f) - 1 + Len(r) = n + k - 1 BY <1>6
    <3> QED BY <1>5, <3>1
  <2>2. \A i \in 1..Len(z) : Tail(q)[i] = z[i] BY <1>6, <1>9, <2>1
  <2> QED BY <1>6, <1>8, <2>1, <2>2, SeqEqual
<1>11. q[1] = f[1] BY <1>3, <1>4, <1>6, <1>7
<1> QED BY <1>1, <1>2, <1>4, <1>7, <1>10, <1>11, TailShifts DEF OnTheWay, MouseTyped, Byte

\* What an event leaves of the mouse when it concerns only the keyboard
LEMMA KeyTaken ==
  ASSUME MInv, fifo # <<>>, Head(fifo).nth = Key, fifo' = Tail(fifo),
         UNCHANGED mouseVars, ~overrun' => ~overrun
  PROVE  MouseTyped' /\ CursorShown' /\ WindowHeld' /\ (~overrun' => Followed')
<1>1. UNCHANGED <<mdec, pointer, drag, sheets, mouse, grip>> BY DEF mouseVars
<1>2. MouseTyped BY DEF MInv
<1>3. /\ OnTheWay # <<>> /\ OnTheWay[1] = Head(fifo) /\ OnTheWay' = Tail(OnTheWay)
      /\ fifo' \in Seq(Byte) /\ Len(fifo') <= FifoSize
  BY <1>1, <1>2, OnTheWayTail
<1>4. MouseTyped' BY <1>1, <1>2, <1>3 DEF MouseTyped
<1>5. CursorShown' /\ WindowHeld' BY <1>1 DEF MInv, CursorShown, WindowHeld, WindowAt
<1>6. ASSUME ~overrun' PROVE Followed'
  <2>1. PICK q, s, aim : q \in Seq(Byte) /\ q = OnTheWay /\ s = Now /\ aim = mouse.aim
    BY <1>2, BytesTyped
  <2>2. Leads(s, q, aim) /\ q # <<>> BY <1>3, <1>6, <2>1 DEF MInv, Followed
  <2>3. Leads(After(s, q[1]), Tail(q), aim) BY <2>1, <2>2, TailLeads
  <2>4. After(s, q[1]) = s BY <1>3, <2>1 DEF After
  <2>5. Now' = s /\ mouse'.aim = aim /\ OnTheWay' = Tail(q) BY <1>1, <1>3, <2>1 DEF Now
  <2> QED BY <2>3, <2>4, <2>5 DEF Followed
<1> QED BY <1>4, <1>5, <1>6

LEMMA KeyPut ==
  ASSUME MInv, NEW b \in Byte, b.nth = Key, Put(b), UNCHANGED mouseVars
  PROVE  MouseTyped' /\ CursorShown' /\ WindowHeld' /\ (~overrun' => Followed')
<1>1. UNCHANGED <<mdec, pointer, drag, sheets, mouse, grip>> BY DEF mouseVars
<1>2. MouseTyped BY DEF MInv
<1>3. /\ fifo' \in Seq(Byte) /\ Len(fifo') <= FifoSize
      /\ ~overrun' => ~overrun /\ fifo' = Append(fifo, b)
  BY <1>2, PutTyped DEF MInv, MouseTyped
<1>4. MouseTyped' BY <1>1, <1>2, <1>3 DEF MouseTyped
<1>5. CursorShown' /\ WindowHeld' BY <1>1 DEF MInv, CursorShown, WindowHeld, WindowAt
<1>6. ASSUME ~overrun' PROVE Followed'
  <2>1. PICK f, r, s, aim :
           f \in Seq(Byte) /\ r \in Seq(Byte) /\ f = fifo /\ r = mouse.bytes /\ s = Now /\ aim = mouse.aim
    BY <1>2, BytesTyped DEF MouseTyped
  <2>2. Leads(s, f \o r, aim) BY <1>3, <1>6, <2>1 DEF MInv, Followed, OnTheWay
  <2>3. Leads(s, Append(f, b) \o r, aim) BY <2>1, <2>2, KeyLeads
  <2>4. Now' = s /\ mouse'.aim = aim /\ OnTheWay' = Append(f, b) \o r
    BY <1>1, <1>3, <1>6, <2>1 DEF Now, OnTheWay
  <2> QED BY <2>3, <2>4 DEF Followed
<1> QED BY <1>4, <1>5, <1>6

\* A byte goes from the mouse to the FIFO.
LEMMA MouseBytePut ==
  ASSUME MInv, inthandler2c
  PROVE  MouseTyped' /\ CursorShown' /\ WindowHeld' /\ (~overrun' => Followed')
<1>1. UNCHANGED <<mdec, pointer, drag, sheets, grip>> BY DEF inthandler2c
<1>2. MouseTyped BY DEF MInv
<1>3. PICK r : r = mouse.bytes /\ r \in Seq(Byte) /\ r \in Seq([dat : Int, nth : 0..3]) /\ r # <<>>
  BY <1>2, BytesTyped DEF MouseTyped, inthandler2c
<1>4. PICK b : b = Head(r) /\ b \in Byte BY <1>3, HeadTailProperties
<1>5. Put(b) BY <1>3, <1>4 DEF inthandler2c
<1>6. /\ fifo' \in Seq(Byte) /\ Len(fifo') <= FifoSize
      /\ ~overrun' => ~overrun /\ fifo' = Append(fifo, b)
  BY <1>2, <1>4, <1>5, PutTyped DEF MInv, MouseTyped
<1>7. mouse'.bytes = Tail(r) /\ mouse'.left = mouse.left /\ mouse'.aim = mouse.aim
  BY <1>2, <1>3 DEF inthandler2c, MouseTyped
<1>8. mouse' \in [bytes : Seq([dat : Int, nth : 0..3]), left : Int, aim : Point]
  <2>1. Tail(r) \in Seq([dat : Int, nth : 0..3]) BY <1>3, HeadTailProperties
  <2> QED BY <1>2, <1>3, <2>1 DEF inthandler2c, MouseTyped
<1>9. MouseTyped' BY <1>1, <1>2, <1>6, <1>8 DEF MouseTyped
<1>10. CursorShown' /\ WindowHeld' BY <1>1 DEF MInv, CursorShown, WindowHeld, WindowAt
<1>11. ASSUME ~overrun' PROVE Followed'
  <2>1. PICK f \in Seq(Byte) : f = fifo BY <1>2 DEF MouseTyped
  <2>2. <<b>> \in Seq(Byte) /\ Tail(r) \in Seq(Byte) /\ Append(f, b) = f \o <<b>>
    BY <1>3, <1>4, HeadTailProperties
  <2>3. (f \o <<b>>) \o Tail(r) = f \o (<<b>> \o Tail(r)) BY <2>2, ConcatAssociative
  <2>4. <<b>> \o Tail(r) = r BY <1>3, <1>4
  <2>5. OnTheWay' = OnTheWay BY <1>3, <1>6, <1>7, <1>11, <2>1, <2>2, <2>3, <2>4 DEF OnTheWay
  <2>6. Now' = Now BY <1>1 DEF Now
  <2> QED BY <1>6, <1>7, <1>11, <2>5, <2>6 DEF MInv, Followed
<1> QED BY <1>9, <1>10, <1>11

LEMMA Reported ==
  ASSUME MInv, NEW r \in Reports, Report(r)
  PROVE  MouseTyped' /\ CursorShown' /\ WindowHeld' /\ (~overrun' => Followed')
<1>1. UNCHANGED <<mdec, fifo, overrun, pointer, drag, sheets, grip>> BY DEF Report
<1>2. MouseTyped /\ ~overrun /\ mouse.bytes = <<>> BY DEF MInv, Report
<1>3. r.dx \in Int /\ r.dy \in Int /\ r.btn \in Int BY MouseAssumption
<1>4. Bytes(r) \in Seq([dat : Int, nth : 0..3])
  <2>1. 8 + r.btn + (IF r.dx < 0 THEN 16 ELSE 0) + (IF r.dy < 0 THEN 32 ELSE 0) \in Int
    BY <1>3
  <2>2. r.dx % 256 \in Int /\ r.dy % 256 \in Int BY <1>3
  <2> QED BY <2>1, <2>2 DEF Bytes
<1>5. PICK aim \in Point : aim = mouse.aim BY <1>2 DEF MouseTyped
<1>6. InScreen(aim.x + r.dx, aim.y - r.dy) \in Point
  <2>1. PICK x \in Int, y \in Int : x = aim.x + r.dx /\ y = aim.y - r.dy BY <1>3 DEF Point
  <2>2. InScreen(x, y) \in [x : Nat, y : Nat] BY InScreenIs
  <2> QED BY <2>1, <2>2 DEF Point
<1>7. mouse' = [bytes |-> Bytes(r), left |-> mouse.left - 1,
                aim |-> InScreen(aim.x + r.dx, aim.y - r.dy)]
  BY <1>5 DEF Report
<1>8. MouseTyped' BY <1>1, <1>2, <1>4, <1>6, <1>7 DEF MouseTyped
<1>9. CursorShown' /\ WindowHeld' BY <1>1 DEF MInv, CursorShown, WindowHeld, WindowAt
<1>10. PICK f, s : f \in Seq(Byte) /\ f = fifo /\ s = Now BY <1>2 DEF MouseTyped
<1>11. f \o <<>> = f BY ConcatEmptySeq
<1>12. Leads(s, f, aim) BY <1>2, <1>5, <1>10, <1>11 DEF MInv, Followed, OnTheWay
<1>13. Leads(s, f \o Bytes(r), InScreen(aim.x + r.dx, aim.y - r.dy))
  BY <1>10, <1>12, ReportLeads
<1>14. Now' = s /\ OnTheWay' = f \o Bytes(r) /\ mouse'.aim = InScreen(aim.x + r.dx, aim.y - r.dy)
  BY <1>1, <1>7, <1>10 DEF Now, OnTheWay
<1>15. Followed' BY <1>13, <1>14 DEF Followed
<1> QED BY <1>8, <1>9, <1>15

LEMMA Drawn ==
  ASSUME MInv, DrawPointer \/ DrawWindow
  PROVE  MouseTyped' /\ CursorShown' /\ WindowHeld' /\ (~overrun' => Followed')
<1>1. UNCHANGED <<mdec, fifo, overrun, mouse, grip>> BY DEF DrawPointer, DrawWindow
<1>2. MouseTyped BY DEF MInv
<1>3. CASE DrawPointer
  <2>1. UNCHANGED drag /\ pointer.new_mx >= 0 BY <1>3 DEF DrawPointer
  <2>2. /\ pointer' \in [mx : Int, my : Int, new_mx : Int, new_my : Int]
        /\ pointer'.mx = pointer.mx /\ pointer'.my = pointer.my /\ pointer'.new_mx = None
    BY <1>2, <1>3, SMTT(20) DEF DrawPointer, MouseTyped, None
  <2>3. /\ sheets'.mouse = [x |-> pointer.new_mx, y |-> pointer.new_my]
        /\ sheets'.window = sheets.window
        /\ sheets' \in [mouse : Point, window : Point, shown : BOOLEAN]
    BY <1>2, <1>3 DEF DrawPointer, MouseTyped, Point
  <2>4. MouseTyped' BY <1>1, <1>2, <2>1, <2>2, <2>3 DEF MouseTyped
  <2>5. CursorShown' BY <1>2, <2>1, <2>2, <2>3 DEF CursorShown, MInv, None, MouseTyped
  <2>6. WindowHeld' BY <1>1, <2>1, <2>2, <2>3 DEF WindowHeld, WindowAt, MInv
  <2>7. Now' = Now /\ OnTheWay' = OnTheWay BY <1>1, <2>2 DEF Now, OnTheWay
  <2> QED BY <1>1, <2>4, <2>5, <2>6, <2>7 DEF MInv, Followed
<1>4. CASE DrawWindow
  <2>1. UNCHANGED pointer /\ drag.new_wx # NotMoved BY <1>4 DEF DrawWindow
  <2>2. /\ drag' \in [mmx : Int, mmy : Int, mmx2 : Int, new_wx : Int, new_wy : Int]
        /\ drag'.mmx = drag.mmx /\ drag'.mmy = drag.mmy /\ drag'.mmx2 = drag.mmx2
        /\ drag'.new_wx = NotMoved /\ drag'.new_wy = drag.new_wy
    BY <1>2, <1>4, SMTT(20) DEF DrawWindow, MouseTyped, NotMoved
  <2>3. /\ sheets'.window = [x |-> drag.new_wx, y |-> drag.new_wy]
        /\ sheets'.mouse = sheets.mouse
        /\ sheets' \in [mouse : Point, window : Point, shown : BOOLEAN]
    BY <1>2, <1>4 DEF DrawWindow, MouseTyped, Point
  <2>4. MouseTyped' BY <1>1, <1>2, <2>1, <2>2, <2>3 DEF MouseTyped
  <2>5. CursorShown' BY <2>1, <2>3 DEF CursorShown, MInv
  <2>6. WindowAt' = WindowAt BY <2>1, <2>2, <2>3 DEF WindowAt
  <2>7. WindowHeld' BY <1>1, <2>1, <2>2, <2>6 DEF WindowHeld, MInv
  <2>8. Now' = Now /\ OnTheWay' = OnTheWay BY <1>1, <2>1 DEF Now, OnTheWay
  <2> QED BY <1>1, <2>4, <2>5, <2>7, <2>8 DEF MInv, Followed
<1> QED BY <1>3, <1>4

\* The window follows the pointer; its x is rounded to a multiple of four.
LEMMA RoundedIs ==
  ASSUME NEW x \in Int, drag.mmx2 \in Int
  PROVE  /\ Rounded(x) \in Int /\ Rounded(x) # NotMoved
         /\ Rounded(x) - (drag.mmx2 + x) \in -2..2
<1>1. PICK v \in Int : v = drag.mmx2 + x + 2 OBVIOUS
<1>2. PICK k \in Int : k = v \div 4 OBVIOUS
<1>3. v - k * 4 \in 0..3 BY <1>2
<1>4. Rounded(x) = k * 4 BY <1>1, <1>2 DEF Rounded
<1>5. k * 4 # NotMoved BY DEF NotMoved
<1> QED BY <1>1, <1>3, <1>4, <1>5

\* What the handling of a report does with the window
LEMMA Handled ==
  ASSUME MInv, NEW d \in [x : Int, y : Int, btn : Int], Handle(d)
  PROVE  /\ pointer' \in [mx : Int, my : Int, new_mx : Int, new_my : Int]
         /\ [x |-> pointer'.mx, y |-> pointer'.my] = Shifted(Now.at, d)
         /\ drag' \in [mmx : Int, mmy : Int, mmx2 : Int, new_wx : Int, new_wy : Int]
         /\ sheets' \in [mouse : Point, window : Point, shown : BOOLEAN]
         /\ grip' \in Point
         /\ CursorShown' /\ WindowHeld'
<1>1. /\ MouseTyped /\ WindowHeld
      /\ pointer \in [mx : Int, my : Int, new_mx : Int, new_my : Int]
      /\ drag \in [mmx : Int, mmy : Int, mmx2 : Int, new_wx : Int, new_wy : Int]
      /\ sheets \in [mouse : Point, window : Point, shown : BOOLEAN]
      /\ grip \in Point
  BY DEF MInv, MouseTyped
<1>2. PICK at : at = Moved(d) /\ pointer' = at
                /\ \/ HasLeft(d.btn) /\ (Press(at) \/ Follow(at))
                   \/ ~HasLeft(d.btn) /\ ButtonUp
  BY DEF Handle
<1>3. PICK x \in Nat, y \in Nat :
        Shifted(Now.at, d) = [x |-> x, y |-> y] /\ at = [mx |-> x, my |-> y, new_mx |-> x, new_my |-> y]
  <2>1. PICK px \in Int, py \in Int : px = pointer.mx + d.x /\ py = pointer.my + d.y
    BY <1>1
  <2>2. PICK p : p = InScreen(px, py) /\ p \in [x : Nat, y : Nat] BY InScreenIs
  <2>3. PICK x, y : x \in Nat /\ y \in Nat /\ p = [x |-> x, y |-> y] BY <2>2
  <2> QED BY <1>2, <2>1, <2>2, <2>3 DEF Moved, Shifted, Now
<1>4. pointer' = [mx |-> x, my |-> y, new_mx |-> x, new_my |-> y] BY <1>2, <1>3
<1>5. /\ pointer' \in [mx : Int, my : Int, new_mx : Int, new_my : Int]
      /\ [x |-> pointer'.mx, y |-> pointer'.my] = Shifted(Now.at, d)
      /\ CursorShown'
  BY <1>3, <1>4 DEF CursorShown
<1>6. CASE Press(at)
  <2>1. PICK w : w = Inside(at) /\ w \in Point /\ w.x = x - sheets.window.x /\ w.y = y - sheets.window.y
    <3>1. sheets.window \in [x : Int, y : Int] BY <1>1 DEF Point
    <3>2. PICK sx \in Int, sy \in Int : sx = sheets.window.x /\ sy = sheets.window.y BY <3>1
    <3>3. PICK wx \in Int, wy \in Int : wx = x - sx /\ wy = y - sy OBVIOUS
    <3>4. at.mx = x /\ at.my = y BY <1>3
    <3>5. Inside(at) = [x |-> wx, y |-> wy] BY <3>2, <3>3, <3>4 DEF Inside
    <3>6. [x |-> wx, y |-> wy] \in Point BY DEF Point
    <3>7. Inside(at) \in Point /\ Inside(at).x = wx /\ Inside(at).y = wy BY <3>5, <3>6
    <3> QED BY <3>2, <3>3, <3>7
  <2>2. drag.mmx < 0 /\ drag.new_wx = NotMoved BY <1>1, <1>6 DEF Press, WindowHeld
  <2>3. sheets' \in [mouse : Point, window : Point, shown : BOOLEAN] /\ sheets'.window = sheets.window
    <3>1. OnClose(w) \in BOOLEAN BY DEF OnClose
    <3> QED BY <1>1, <1>6, <2>1, <3>1 DEF Press
  <2>4. CASE OnTitle(w)
    <3>1. drag' = Grabbed(at) /\ grip' = w BY <1>6, <2>1, <2>4 DEF Press
    <3>2. PICK s \in Point : s = sheets.window BY <1>1
    <3>3. drag' = [mmx |-> x, mmy |-> y, mmx2 |-> s.x, new_wx |-> NotMoved, new_wy |-> s.y]
      BY <1>1, <1>3, <2>2, <3>1, <3>2 DEF Grabbed
    <3>4. drag' \in [mmx : Int, mmy : Int, mmx2 : Int, new_wx : Int, new_wy : Int]
      BY <3>3 DEF Point, NotMoved
    <3>5. WindowAt' = s BY <2>3, <3>2, <3>3 DEF WindowAt
    <3>6. s.x \in Int /\ s.y \in Int BY DEF Point
    <3>7. WindowHeld' BY <1>4, <2>1, <3>1, <3>2, <3>3, <3>5, <3>6 DEF WindowHeld
    <3> QED BY <1>5, <2>1, <2>3, <3>1, <3>4, <3>7
  <2>5. CASE ~OnTitle(w)
    <3>1. drag' = drag /\ grip' = grip BY <1>6, <2>1, <2>5 DEF Press
    <3>2. WindowHeld' BY <2>2, <3>1 DEF WindowHeld
    <3> QED BY <1>1, <1>5, <2>3, <3>1, <3>2
  <2> QED BY <2>4, <2>5
<1>7. CASE Follow(at)
  <2>1. /\ drag.mmx >= 0 /\ sheets' = sheets /\ grip' = grip
        /\ drag' = [drag EXCEPT !.new_wx = Rounded(at.mx - drag.mmx),
                                !.new_wy = @ + at.my - drag.mmy, !.mmy = at.my]
    BY <1>7 DEF Follow
  <2>2. PICK k \in Int : k = x - drag.mmx BY <1>1
  <2>3. PICK wx : wx = Rounded(k) /\ wx \in Int /\ wx # NotMoved /\ wx - (drag.mmx2 + k) \in -2..2
    BY <1>1, RoundedIs
  <2>4. PICK wy \in Int : wy = drag.new_wy + y - drag.mmy BY <1>1
  <2>5. drag' = [mmx |-> drag.mmx, mmy |-> y, mmx2 |-> drag.mmx2, new_wx |-> wx, new_wy |-> wy]
    BY <1>1, <1>3, <2>1, <2>2, <2>3, <2>4
  <2>6. drag' \in [mmx : Int, mmy : Int, mmx2 : Int, new_wx : Int, new_wy : Int]
    BY <1>1, <2>3, <2>5
  <2>7. WindowAt' = [x |-> wx, y |-> wy] BY <2>3, <2>5 DEF WindowAt
  <2>8. /\ WindowAt.y = pointer.my - grip.y /\ drag.new_wy = WindowAt.y
        /\ drag.mmy = pointer.my /\ grip.x = drag.mmx - drag.mmx2
    BY <1>1, <2>1 DEF WindowHeld
  <2>9. grip.x \in Int /\ grip.y \in Int BY <1>1 DEF Point
  <2>10. wy = y - grip.y BY <1>1, <2>4, <2>8, <2>9
  <2>11. wx - (x - grip.x) \in -2..2 BY <1>1, <2>2, <2>3, <2>8, <2>9
  <2>12. WindowHeld'
    <3>1. pointer'.mx = x /\ pointer'.my = y BY <1>4
    <3>2. drag'.mmx = drag.mmx /\ drag'.mmx2 = drag.mmx2 /\ drag'.mmy = y /\ drag'.new_wy = wy
      BY <2>5
    <3>3. WindowAt'.x = wx /\ WindowAt'.y = wy BY <2>7
    <3>4. grip' = grip /\ ~(drag'.mmx < 0) BY <1>1, <2>1, <3>2
    <3> QED BY <2>8, <2>10, <2>11, <3>1, <3>2, <3>3, <3>4 DEF WindowHeld
  <2> QED BY <1>1, <1>5, <2>1, <2>6, <2>12
<1>8. CASE ButtonUp
  <2>1. /\ drag' = [drag EXCEPT !.mmx = None, !.new_wx = NotMoved] /\ grip' = grip
        /\ sheets' = IF drag.new_wx = NotMoved THEN sheets
                     ELSE [sheets EXCEPT !.window = [x |-> drag.new_wx, y |-> drag.new_wy]]
    BY <1>8 DEF ButtonUp
  <2>2. /\ drag' \in [mmx : Int, mmy : Int, mmx2 : Int, new_wx : Int, new_wy : Int]
        /\ drag'.mmx < 0 /\ drag'.new_wx = NotMoved
    <3>1. PICK my \in Int, mx2 \in Int, wy \in Int :
            my = drag.mmy /\ mx2 = drag.mmx2 /\ wy = drag.new_wy
      BY <1>1
    <3>2. drag' = [mmx |-> None, mmy |-> my, mmx2 |-> mx2, new_wx |-> NotMoved, new_wy |-> wy]
      BY <1>1, <2>1, <3>1
    <3>3. None \in Int /\ None < 0 /\ NotMoved \in Int BY DEF None, NotMoved
    <3> QED BY <3>2, <3>3
  <2>3. sheets' \in [mouse : Point, window : Point, shown : BOOLEAN]
    BY <1>1, <2>1 DEF Point
  <2>4. WindowHeld' BY <2>2 DEF WindowHeld
  <2> QED BY <1>1, <1>5, <2>1, <2>2, <2>3, <2>4
<1> QED BY <1>2, <1>6, <1>7, <1>8

LEMMA ByteDecoded ==
  ASSUME MInv, TakeByte
  PROVE  MouseTyped' /\ CursorShown' /\ WindowHeld' /\ (~overrun' => Followed')
<1>1. /\ fifo # <<>> /\ Head(fifo).nth # Key /\ fifo' = Tail(fifo)
      /\ UNCHANGED <<overrun, mouse>>
  BY DEF TakeByte
<1>2. MouseTyped /\ CursorShown /\ WindowHeld BY DEF MInv
<1>3. /\ OnTheWay # <<>> /\ OnTheWay[1] = Head(fifo) /\ Head(fifo) \in Byte
      /\ OnTheWay' = Tail(OnTheWay)
      /\ fifo' \in Seq(Byte) /\ Len(fifo') <= FifoSize
  BY <1>1, <1>2, OnTheWayTail
<1>4. PICK b \in Byte : b = Head(fifo) BY <1>3
<1>5. PICK m : /\ m = mouse_decode(mdec, b) /\ mdec' = m
               /\ \/ Completes(mdec) /\ Handle(Decoded(m.buf))
                  \/ ~Completes(mdec) /\ UNCHANGED <<pointer, drag, sheets, grip>>
  BY <1>4 DEF TakeByte
<1>6. m \in Decoder BY <1>2, <1>5, DecoderTyped DEF MouseTyped
<1>7. /\ pointer' \in [mx : Int, my : Int, new_mx : Int, new_my : Int]
      /\ drag' \in [mmx : Int, mmy : Int, mmx2 : Int, new_wx : Int, new_wy : Int]
      /\ sheets' \in [mouse : Point, window : Point, shown : BOOLEAN]
      /\ grip' \in Point /\ CursorShown' /\ WindowHeld'
      /\ Now' = After(Now, b)
  <2>1. Now.m = mdec /\ Now.at = [x |-> pointer.mx, y |-> pointer.my] BY DEF Now
  <2>2. b.nth # Key BY <1>1, <1>4
  <2>3. CASE ~Completes(mdec)
    <3>1. UNCHANGED <<pointer, drag, sheets, grip>> BY <1>5, <2>3
    <3>2. Now' = After(Now, b) BY <1>5, <2>1, <2>2, <2>3, <3>1 DEF After, Now
    <3>3. CursorShown' /\ WindowHeld' BY <1>2, <3>1 DEF CursorShown, WindowHeld, WindowAt
    <3> QED BY <1>2, <3>1, <3>2, <3>3 DEF MouseTyped
  <2>4. CASE Completes(mdec)
    <3>1. PICK d : d = Decoded(m.buf) /\ d \in [x : Int, y : Int, btn : Int] /\ Handle(d)
      BY <1>5, <1>6, <2>4, DecodedIs DEF Decoder
    <3>2. /\ pointer' \in [mx : Int, my : Int, new_mx : Int, new_my : Int]
          /\ [x |-> pointer'.mx, y |-> pointer'.my] = Shifted(Now.at, d)
          /\ drag' \in [mmx : Int, mmy : Int, mmx2 : Int, new_wx : Int, new_wy : Int]
          /\ sheets' \in [mouse : Point, window : Point, shown : BOOLEAN]
          /\ grip' \in Point /\ CursorShown' /\ WindowHeld'
      BY <3>1, Handled
    <3>3. Now' = [m |-> m, at |-> Shifted(Now.at, d)] BY <1>5, <3>2 DEF Now
    <3>4. After(Now, b) = [m |-> m, at |-> Shifted(Now.at, d)]
      BY <1>5, <2>1, <2>2, <2>4, <3>1 DEF After
    <3> QED BY <3>2, <3>3, <3>4
  <2> QED BY <2>3, <2>4
<1>8. MouseTyped' BY <1>1, <1>2, <1>3, <1>5, <1>6, <1>7 DEF MouseTyped
<1>9. ASSUME ~overrun' PROVE Followed'
  <2>1. PICK q, s, aim : q \in Seq(Byte) /\ q = OnTheWay /\ s = Now /\ aim = mouse.aim
    BY <1>2, BytesTyped
  <2>2. Leads(s, q, aim) /\ q # <<>> BY <1>1, <1>3, <1>9, <2>1 DEF MInv, Followed
  <2>3. Leads(After(s, q[1]), Tail(q), aim) BY <2>1, <2>2, TailLeads
  <2>4. Now' = After(s, q[1]) /\ mouse'.aim = aim /\ OnTheWay' = Tail(q)
    BY <1>1, <1>3, <1>4, <1>7, <2>1
  <2> QED BY <2>3, <2>4 DEF Followed
<1> QED BY <1>7, <1>8, <1>9

LEMMA MouseBegins == Init => MInv
<1> SUFFICES ASSUME Init PROVE MInv
  OBVIOUS
<1>1. PICK use \in Uses : MouseInit(use.reports) BY DEF Init
<1>2. use.reports \in Nat BY DevicesAssumption
<1>3. fifo = <<>> /\ overrun = FALSE BY DEF Init
<1>4. PICK mid \in Point : mid = [x |-> (scrnx - 16) \div 2, y |-> (scrny - 28 - 16) \div 2]
  <2>1. (scrnx - 16) \div 2 \in Int /\ (scrny - 28 - 16) \div 2 \in Int BY MouseAssumption
  <2> QED BY <2>1 DEF Point
<1>5. /\ mdec = [phase |-> 0, buf |-> [i \in 1..3 |-> [dat |-> 0, nth |-> i]]]
      /\ pointer = [mx |-> mid.x, my |-> mid.y, new_mx |-> None, new_my |-> 0]
      /\ sheets = [mouse |-> mid, window |-> Corner, shown |-> TRUE]
      /\ mouse = [bytes |-> <<[dat |-> 250, nth |-> 0]>>, left |-> use.reports, aim |-> mid]
      /\ drag = [mmx |-> None, mmy |-> None, mmx2 |-> 0, new_wx |-> NotMoved, new_wy |-> 0]
      /\ grip = [x |-> 0, y |-> 0]
  BY <1>1, <1>4 DEF MouseInit
<1>6. PICK b : b = [dat |-> 250, nth |-> 0] OBVIOUS
<1>7. b \in Byte /\ b \in [dat : Int, nth : 0..3] BY <1>6 DEF Byte
<1>8. mdec \in Decoder
  <2>1. [i \in 1..3 |-> [dat |-> 0, nth |-> i]] \in [1..3 -> Byte] BY DEF Byte
  <2> QED BY <1>5, <2>1 DEF Decoder
<1>9. MouseTyped
  <2>1. fifo \in Seq(Byte) /\ Len(fifo) <= FifoSize BY <1>3, TaskAFifoAssumption
  <2>2. mouse \in [bytes : Seq([dat : Int, nth : 0..3]), left : Int, aim : Point]
    BY <1>2, <1>5, <1>6, <1>7
  <2>3. pointer \in [mx : Int, my : Int, new_mx : Int, new_my : Int] BY <1>5 DEF None, Point
  <2>4. drag \in [mmx : Int, mmy : Int, mmx2 : Int, new_wx : Int, new_wy : Int]
    BY <1>5 DEF None, NotMoved
  <2>5. sheets \in [mouse : Point, window : Point, shown : BOOLEAN] /\ grip \in Point
    BY <1>5, MouseAssumption DEF Point
  <2> QED BY <1>8, <2>1, <2>2, <2>3, <2>4, <2>5 DEF MouseTyped
<1>10. CursorShown /\ WindowHeld
  BY <1>4, <1>5 DEF CursorShown, WindowHeld, None, NotMoved, Point
<1>11. Followed
  <2>1. PICK q : q = <<b>> OBVIOUS
  <2>2. q \in Seq(Byte) /\ Len(q) = 1 /\ q[1] = b /\ DOMAIN q = {1} BY <1>7, <2>1
  <2>3. OnTheWay = q BY <1>3, <1>5, <1>6, <2>1, <2>2, ConcatEmptySeq DEF OnTheWay
  <2>4. Now = [m |-> mdec, at |-> mid] /\ Now \in Places
    BY <1>4, <1>5, <1>9, BytesTyped DEF Now, Point
  <2>5. PICK s : s = After(Now, b) /\ s \in Places BY <1>7, <2>4, AfterTyped
  <2>6. s.m.phase = 1 /\ s.at = mid
    <3>1. mouse_decode(mdec, b) = [mdec EXCEPT !.phase = 1] BY <1>5, <1>6 DEF mouse_decode
    <3>2. mouse_decode(mdec, b).phase = 1 BY <1>5, <3>1
    <3> QED BY <1>5, <1>6, <2>4, <2>5, <3>2 DEF After, Key, Completes
  <2>7. PICK st : st = [i \in 0..1 |-> IF i = 0 THEN Now ELSE s] OBVIOUS
  <2>8. st \in [0..1 -> Places] /\ st[0] = Now /\ st[1] = s BY <2>4, <2>5, <2>7
  <2>9. IsRun(st, q)
    <3>1. \A i \in 1..1 : i = 1 /\ i - 1 = 0 OBVIOUS
    <3> QED BY <1>5, <1>6, <2>2, <2>4, <2>5, <2>8, <3>1, SMTT(20) DEF IsRun
  <2>10. IsRunTo(st, Now, q, mid) BY <2>2, <2>6, <2>8, <2>9 DEF IsRunTo
  <2> QED BY <1>5, <2>3, <2>10 DEF Followed, Leads
<1> QED BY <1>3, <1>9, <1>10, <1>11 DEF MInv

LEMMA MouseGoesOn == MInv /\ [Next]_vars => MInv'
<1> SUFFICES ASSUME MInv, [Next]_vars PROVE MInv'
  OBVIOUS
<1>1. overrun \in BOOLEAN /\ overrun' \in BOOLEAN /\ (~overrun' => ~overrun)
  BY Overrun DEF MInv
<1> SUFFICES MouseTyped' /\ CursorShown' /\ WindowHeld' /\ (~overrun' => Followed')
  BY <1>1 DEF MInv
<1>2. ASSUME UNCHANGED <<fifo, mouseVars>>
      PROVE  MouseTyped' /\ CursorShown' /\ WindowHeld' /\ (~overrun' => Followed')
  <2>1. UNCHANGED <<fifo, mdec, pointer, drag, sheets, mouse, grip>> BY <1>2 DEF mouseVars
  <2>2. MouseTyped' BY <2>1 DEF MInv, MouseTyped
  <2>3. CursorShown' /\ WindowHeld' BY <2>1 DEF MInv, CursorShown, WindowHeld, WindowAt
  <2>4. Now' = Now /\ OnTheWay' = OnTheWay /\ mouse'.aim = mouse.aim BY <2>1 DEF Now, OnTheWay
  <2> QED BY <1>1, <2>2, <2>3, <2>4 DEF MInv, Followed
<1>3. CASE KeyboardTask /\ UNCHANGED mouseVars
  <2>1. ASSUME NEW datum, Take(datum) PROVE fifo # <<>> /\ Head(fifo).nth = Key /\ fifo' = Tail(fifo)
    BY <2>1 DEF Take
  <2>2. CASE SendByte BY <1>2, <1>3, <2>2 DEF SendByte
  <2>3. CASE ~SendByte
    <3>1. fifo # <<>> /\ Head(fifo).nth = Key /\ fifo' = Tail(fifo)
      BY <1>3, <2>1, <2>3 DEF KeyboardTask, Received, SendAgain, Lock, ShiftOn, ShiftOff
    <3> QED BY <1>1, <1>3, <3>1, KeyTaken
  <2> QED BY <2>2, <2>3
<1>4. CASE MouseTask
  BY <1>4, ByteDecoded, Drawn DEF MouseTask
<1>5. CASE (Receive \/ PressKey) /\ UNCHANGED mouseVars
  <2>1. ASSUME NEW data \in Int, inthandler21(data)
        PROVE  \E b \in Byte : b.nth = Key /\ Put(b)
    <3>1. PICK b : b = [dat |-> data, nth |-> Key] OBVIOUS
    <3>2. b \in Byte /\ b.nth = Key BY <3>1 DEF Byte, Key
    <3> QED BY <2>1, <3>1, <3>2 DEF inthandler21
  <2>2. \A k \in Locks \cup Shifts : k \in Int /\ Release(k) \in Int
    BY KeyboardAssumption DEF Release
  <2>3. Ack \in Int /\ Resend \in Int BY DEF Ack, Resend
  <2>4. PICK data \in Int : inthandler21(data)
    BY <1>5, <2>2, <2>3 DEF Receive, PressKey
  <2>5. PICK b \in Byte : b.nth = Key /\ Put(b) BY <2>1, <2>4
  <2> QED BY <1>5, <2>5, KeyPut
<1>6. ASSUME NEW r \in Reports, Report(r)
      PROVE  MouseTyped' /\ CursorShown' /\ WindowHeld' /\ (~overrun' => Followed')
  BY <1>6, Reported
<1>7. CASE inthandler2c
  BY <1>7, MouseBytePut
<1>8. CASE UNCHANGED vars
  BY <1>2, <1>8 DEF vars
<1> QED BY <1>3, <1>4, <1>5, <1>6, <1>7, <1>8 DEF Next, TaskA, KeyboardAnswers

LEMMA DecoderInStep == MInv => PointerFollows
<1> SUFFICES ASSUME MInv, ~overrun PROVE PointerFollows
  BY DEF PointerFollows
<1>1. PICK q : q = OnTheWay /\ q \in Seq(Byte) BY BytesTyped DEF MInv
<1>2. PICK st : IsRunTo(st, Now, q, mouse.aim) BY <1>1 DEF MInv, Followed, Leads
<1>3. st[0] = Now /\ IsRun(st, q) /\ st[Len(q)].at = mouse.aim /\ Len(q) \in Nat /\ DOMAIN q = 1..Len(q)
  BY <1>1, <1>2 DEF IsRunTo
<1>4. ASSUME NEW i \in Undecoded, \A j \in Undecoded : i <= j
      PROVE  OnTheWay[i].nth = mdec.phase
  <2>1. i \in DOMAIN q /\ q[i].nth # Key BY <1>1, <1>4 DEF Undecoded
  <2>2. PICK k : k = i - 1 /\ k \in 0..Len(q) BY <1>3, <2>1
  <2>3. \A j \in 1..k : q[j].nth = Key
    <3> SUFFICES ASSUME NEW j \in 1..k, q[j].nth # Key PROVE FALSE
      OBVIOUS
    <3>1. j \in DOMAIN q /\ j < i BY <1>3, <2>1, <2>2
    <3>2. j \in Undecoded BY <1>1, <3>1 DEF Undecoded
    <3> QED BY <1>3, <1>4, <2>1, <3>1, <3>2
  <2>4. st[k] = st[0] BY <1>1, <1>3, <2>2, <2>3, StaysPut
  <2>5. q[i].nth = st[i - 1].m.phase BY <1>3, <2>1 DEF IsRun
  <2> QED BY <1>1, <1>3, <2>2, <2>4, <2>5 DEF Now
<1>5. ASSUME Undecoded = {}
      PROVE  [x |-> pointer.mx, y |-> pointer.my] = mouse.aim
  <2>1. \A j \in 1..Len(q) : q[j].nth = Key BY <1>1, <1>3, <1>5 DEF Undecoded
  <2>2. st[Len(q)] = st[0] BY <1>1, <1>3, <2>1, StaysPut
  <2> QED BY <1>3, <2>2 DEF Now
<1> QED BY <1>4, <1>5 DEF PointerFollows, MInv, CursorShown

\* The pointer goes where the mouse goes (mouse.c:37 to 78, bootpack.c:248 to
\* 265): no report is misread, and none is forgotten when drawing is put off.
THEOREM PointerIsFollowed == Spec => []PointerFollows
<1>1. Spec => []MInv BY MouseBegins, MouseGoesOn, PTL DEF Spec
<1> QED BY <1>1, DecoderInStep, PTL

LEMMA LetGoInPlace ==
  ASSUME MInv, [Next]_vars, LetGo
  PROVE  /\ sheets'.window.y = pointer.my - grip.y
         /\ sheets'.window.x - (pointer.mx - grip.x) \in -2..2
<1>1. /\ drag \in [mmx : Int, mmy : Int, mmx2 : Int, new_wx : Int, new_wy : Int]
      /\ sheets \in [mouse : Point, window : Point, shown : BOOLEAN]
  BY DEF MInv, MouseTyped
<1>2. drag'.mmx # drag.mmx /\ ~(drag.mmx < 0)
  BY <1>1 DEF LetGo
<1>3. TakeByte
  <2>1. drag' # drag BY <1>2
  <2>2. ~(DrawWindow \/ DrawPointer)
    BY <1>1, <1>2 DEF DrawWindow, DrawPointer
  <2>3. ~UNCHANGED mouseVars BY <2>1 DEF mouseVars
  <2>4. \A r \in Reports : ~Report(r) BY <2>1 DEF Report
  <2>5. ~inthandler2c BY <2>1 DEF inthandler2c
  <2>6. ~UNCHANGED vars BY <2>3 DEF vars
  <2>7. Next BY <2>6
  <2> QED BY <2>2, <2>3, <2>4, <2>5, <2>7 DEF Next, TaskA, KeyboardAnswers, MouseTask
<1>4. PICK at : Press(at) \/ Follow(at) \/ ButtonUp
  BY <1>2, <1>3 DEF TakeByte, Handle
<1>5. ButtonUp
  <2>1. ~Press(at) BY <1>2 DEF Press
  <2>2. ~Follow(at) BY <1>1, <1>2 DEF Follow
  <2> QED BY <1>4, <2>1, <2>2
<1>6. sheets'.window = WindowAt BY <1>1, <1>5 DEF ButtonUp, WindowAt
<1>7. WindowAt.y = pointer.my - grip.y /\ WindowAt.x - (pointer.mx - grip.x) \in -2..2
  BY <1>2 DEF MInv, WindowHeld
<1> QED BY <1>6, <1>7

\* When the button is let go (bootpack.c:322 to 329), the window is where the
\* hand is: no movement that was to be drawn is lost.
THEOREM NoMovementLost == Spec => NothingLost
<1>1. Spec => []MInv BY MouseBegins, MouseGoesOn, PTL DEF Spec
<1>2. MInv /\ [Next]_vars =>
        [LetGo => /\ sheets'.window.y = pointer.my - grip.y
                  /\ sheets'.window.x - (pointer.mx - grip.x) \in -2..2]_mouseVars
  BY LetGoInPlace
<1> QED BY <1>1, <1>2, PTL DEF Spec, NothingLost
=============================================================================
