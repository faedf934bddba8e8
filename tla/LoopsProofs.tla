----------------------------- MODULE LoopsProofs -----------------------------
(***************************************************************************)
(* Proofs about the parts of the system that work alone: the boot sector   *)
(* (for any number of cylinders that fits below 0xa0000), the fields of    *)
(* the descriptors (for all numbers of 32 bits), the range decoder of      *)
(* tek.c (for all widths, models and contexts), the memory test (for any   *)
(* memory), the prompt of a console (for any size and any text) and the    *)
(* files of an application (for any diskette).  They have no state in      *)
(* common, except that the files are those that the boot sector has read.  *)
(***************************************************************************)
EXTENDS Files, Dsctbl, TekRange, Memtest, Prompt, Least, SequenceTheorems

-----------------------------------------------------------------------------
(* The boot sector: whatever fails on the way, every request is legal and every
   sector is read to its place. *)

Here == Number(CH, DH, CL)

BootInv ==
  /\ pc \in {"readfast", "retry", "done", "error"}
  /\ CH \in 0..(CYLS - 1) /\ DH \in 0..1 /\ CL \in 1..18
  /\ AL \in Nat /\ SI \in Nat
  /\ \A p \in DOMAIN memory : memory[p] = p - 64
  /\ pc \in {"readfast", "retry"} =>
       /\ Here > 0
       /\ ES = 32 * (64 + Here)
       /\ BX = 36 * CYLS - Here
       /\ DOMAIN memory = 65..(63 + Here)
  /\ pc = "retry" =>
       /\ AL > 0 /\ CL + AL <= 19 /\ AL <= BX
       /\ ((64 + Here) % 128) + AL <= 128
  /\ pc = "done" => DOMAIN memory = 65..(64 + Sectors)

\* The places of sectors below 1 MB, their paragraphs, as numbers and in a
\* register of 16 bits, and the sectors up to the next border of 64 KB
Window == 0..2047
Paragraph(q) == 32 * q
Register(q) == (q * 32) % 65536
PlaceBorder(q) == 128 - (q % 128)

\* The shifts of readfast take the place modulo 128 out of ES.
LEMMA Border == ASSUME NEW q \in Window PROVE ToBorder(Paragraph(q)) = PlaceBorder(q)
<1> USE DEF Window
<1>1. ((32 * q) * 8) % 65536 = 256 * (q % 256)
  <2>1. (32 * q) * 8 = 256 * q OBVIOUS
  <2>2. (256 * q) % 65536 = 256 * (q % 256) OBVIOUS
  <2> QED BY <2>1, <2>2
<1>2. (256 * (q % 256)) \div 256 = q % 256 OBVIOUS
<1>3. (q % 256) % 128 = q % 128 OBVIOUS
<1> QED BY <1>1, <1>2, <1>3 DEF ToBorder, Paragraph, PlaceBorder

\* ES counts paragraphs of 16 bytes.
LEMMA Paragraphs == ASSUME NEW q \in Nat, NEW e, e = 32 * q PROVE e \div 32 = q
OBVIOUS

\* After a request, ES is where its last sector ends.
LEMMA Moved == ASSUME NEW q \in Window PROVE Register(q) = Paragraph(q)
BY DEF Window, Register, Paragraph

\* The sectors of a request lie behind those that have been read.
LEMMA JoinedPlaces ==
  ASSUME NEW h \in Nat \ {0}, NEW n \in Nat
  PROVE  (65..(63 + h)) \cup ((64 + h)..(64 + h + n - 1)) = 65..(63 + h + n)
<1>1. ASSUME NEW p \in 65..(63 + h + n)
      PROVE  p \in (65..(63 + h)) \cup ((64 + h)..(64 + h + n - 1))
  BY <1>1
<1>2. ASSUME NEW p \in (65..(63 + h)) \cup ((64 + h)..(64 + h + n - 1))
      PROVE  p \in 65..(63 + h + n)
  <2>1. CASE p \in 65..(63 + h) BY <2>1
  <2>2. CASE p \in (64 + h)..(64 + h + n - 1)
    <3>1. p \in Int /\ p >= 64 + h /\ h >= 1 /\ p <= 64 + h + n - 1 BY <2>2
    <3>2. p >= 65 /\ p <= 63 + h + n BY <3>1
    <3> QED BY <3>1, <3>2
  <2> QED BY <1>2, <2>1, <2>2
<1> QED BY <1>1, <1>2

\* The numbers of the sectors that are read
LEMMA HereRange == ASSUME BootInv PROVE Here \in 0..(36 * CYLS - 1)
BY BootAssumption DEF BootInv, Here, Number

\* The second sector of the diskette is the first to be read.
LEMMA BootInitInv == ASSUME Init PROVE BootInv
<1>1. Here = 1 BY DEF Init, Here, Number
<1> QED BY <1>1, BootAssumption DEF Init, BootInv

\* The smaller of two numbers is one of them and not above the other.
LEMMA Least2Bound ==
  ASSUME NEW a \in Int, NEW b \in Int
  PROVE  /\ Least2(a, b) \in {a, b} /\ Least2(a, b) \in Int
         /\ Least2(a, b) <= a /\ Least2(a, b) <= b
BY DEF Least2

\* A request is chosen that no border divides.
LEMMA ReadfastInv == ASSUME BootInv, readfast PROVE BootInv'
<1> DEFINE q == 64 + Here
<1>1. q \in 0..2047 /\ BX \in Nat \ {0} /\ CL \in 1..18 /\ ES = 32 * q
  <2>1. Here \in 0..(36 * CYLS - 1) /\ CYLS \in 1..33 BY HereRange, BootAssumption
  <2>2. BX = 36 * CYLS - Here /\ CL \in 1..18 /\ ES = 32 * q BY DEF BootInv, readfast
  <2> HIDE DEF Here
  <2> QED BY <2>1, <2>2
<1>2. ToBorder(ES) \in 1..128 /\ ToBorder(ES) = 128 - (q % 128)
  <2>1. q \in 0..2047 /\ ES = 32 * q BY <1>1
  <2> HIDE DEF q
  <2>2. q \in Window /\ ES = Paragraph(q) BY <2>1 DEF Window, Paragraph
  <2>3. ToBorder(ES) = PlaceBorder(q) BY <2>2, Border
  <2>4. PlaceBorder(q) \in 1..128 /\ PlaceBorder(q) = 128 - (q % 128)
    BY <2>1 DEF PlaceBorder
  <2> QED BY <2>3, <2>4
<1>3. Remaining(BX) \in 1..BX BY <1>1 DEF Remaining
<1>4. ToTrackEnd(CL) \in 1..18 /\ ToTrackEnd(CL) = 19 - CL BY <1>1 DEF ToTrackEnd
<1>5. AL' \in Nat \ {0} /\ AL' <= ToBorder(ES) /\ AL' <= BX /\ AL' <= ToTrackEnd(CL)
  <2> DEFINE a == ToBorder(ES)  b == Remaining(BX)  c == ToTrackEnd(CL)
  <2>1. a \in Nat \ {0} /\ b \in Nat \ {0} /\ c \in Nat \ {0} BY <1>1, <1>2, <1>3, <1>4
  <2>2. AL' = Least2(Least2(a, b), c) BY DEF readfast
  <2> HIDE DEF a, b, c
  <2>3. /\ Least2(a, b) \in {a, b} /\ Least2(a, b) \in Int
        /\ Least2(a, b) <= a /\ Least2(a, b) <= b
    BY <2>1, Least2Bound
  <2>4. AL' \in {a, b, c} /\ AL' <= a /\ AL' <= b /\ AL' <= c
    <3> DEFINE d == Least2(a, b)
    <3>1. d \in Int /\ c \in Int /\ d \in {a, b} /\ d <= a /\ d <= b BY <2>1, <2>3
    <3>2. AL' = Least2(d, c) BY <2>2
    <3> HIDE DEF d
    <3>3. AL' \in {d, c} /\ AL' <= d /\ AL' <= c BY <3>1, <3>2, Least2Bound
    <3> QED BY <2>1, <3>1, <3>3
  <2>5. AL' \in Nat \ {0} BY <2>1, <2>4
  <2>6. b <= BX BY <1>1, <1>3 DEF b
  <2>7. AL' <= BX BY <1>1, <2>1, <2>4, <2>5, <2>6
  <2> QED BY <2>4, <2>5, <2>7 DEF a, c
<1>6. Here' = Here BY DEF readfast, Here, Number
<1>7. AL' \in Nat /\ AL' > 0 /\ CL + AL' <= 19 /\ AL' <= BX
  <2>1. AL' \in Nat \ {0} /\ CL \in 1..18 /\ AL' <= 19 - CL BY <1>1, <1>4, <1>5
  <2>2. AL' <= BX BY <1>5
  <2>3. AL' > 0 /\ CL + AL' <= 19 /\ AL' \in Nat
    <3> DEFINE a == AL'
    <3>1. a \in Nat \ {0} /\ a <= 19 - CL /\ CL \in 1..18 BY <2>1
    <3> HIDE DEF a
    <3>2. a > 0 /\ CL + a <= 19 /\ a \in Nat BY <3>1
    <3> QED BY <3>2 DEF a
  <2> QED BY <2>2, <2>3
<1>8. (q % 128) + AL' <= 128
  <2> HIDE DEF q
  <2>1. q % 128 \in 0..127 BY <1>1
  <2> QED BY <2>1, <1>2, <1>5
<1> HIDE DEF q
<1>9. pc' = "retry" /\ SI' = 0 /\ UNCHANGED <<ES, CH, DH, CL, BX, memory>> /\ pc = "readfast"
  BY DEF readfast
<1>10. ((64 + Here) % 128) + AL' <= 128 BY <1>8 DEF q
<1> QED BY <1>6, <1>7, <1>9, <1>10 DEF BootInv

\* A request that was served moves on by as many sectors as it had.
LEMMA BootNextInv == ASSUME BootInv, next PROVE BootInv'
<1> DEFINE q == 64 + Here
<1>1. /\ CH \in 0..(CYLS - 1) /\ DH \in 0..1 /\ CL \in 1..18 /\ SI \in Nat
      /\ AL \in 1..18 /\ CL + AL <= 19 /\ AL <= BX
      /\ pc = "retry" /\ Here > 0 /\ ES = 32 * q /\ BX = 36 * CYLS - Here
      /\ DOMAIN memory = 65..(63 + Here)
      /\ \A p \in DOMAIN memory : memory[p] = p - 64
  BY SMTT(20) DEF BootInv, next
<1>2. Here \in 0..(36 * CYLS - 1) /\ q \in 0..2047 BY HereRange, BootAssumption
<1>3. ES \div 32 = q
  <2>1. q \in Nat /\ ES = 32 * q BY <1>1, <1>2
  <2> HIDE DEF q
  <2> QED BY <2>1, Paragraphs
<1>4. Places = q..(q + AL - 1) BY <1>3 DEF Places
<1>5. /\ DOMAIN memory' = 65..(63 + Here + AL)
      /\ \A p \in DOMAIN memory' : memory'[p] = p - 64
  <2>1. memory' = [p \in DOMAIN memory \cup Places |->
                    IF p \in Places THEN Here + p - q ELSE memory[p]]
    BY <1>3 DEF next, Read, Here
  <2>2. DOMAIN memory \cup Places = 65..(63 + Here + AL)
    <3>1. Here \in Nat \ {0} /\ AL \in Nat BY <1>1, <1>2, BootAssumption
    <3> QED BY <1>1, <1>4, <3>1, JoinedPlaces
  <2>3. \A p \in Places : Here + p - q = p - 64
    <3>1. Here \in Nat /\ AL \in Nat \ {0} BY <1>1, <1>2, BootAssumption
    <3> QED BY <1>4, <3>1
  <2> QED BY <1>1, <2>1, <2>2, <2>3
<1>6. CASE BX = AL
  <2>1. pc' = "done" /\ UNCHANGED <<CH, DH, CL, AL, SI>> BY <1>6 DEF next
  <2>2. 63 + Here + AL = 64 + Sectors BY <1>1, <1>2, <1>6, BootAssumption DEF Sectors
  <2> QED BY <1>1, <1>5, <2>1, <2>2 DEF BootInv, Sectors
<1>7. CASE BX # AL
  <2>1. /\ CH' = Following[1] /\ DH' = Following[2] /\ CL' = Following[3]
        /\ pc' = "readfast" /\ BX' = BX - AL /\ UNCHANGED <<AL, SI>>
    BY <1>7 DEF next
  <2>2. Here + AL \in 1..(36 * CYLS - 1)
    BY <1>1, <1>2, <1>7, BootAssumption
  <2>3. CH' \in 0..(CYLS - 1) /\ DH' \in 0..1 /\ CL' \in 1..18 /\ Here' = Here + AL
    <3>1. CASE CL + AL <= 18
      BY <3>1, <2>1, <1>1 DEF Following, Here, Number
    <3>2. CASE CL + AL > 18 /\ DH = 0
      BY <3>2, <2>1, <1>1 DEF Following, Here, Number
    <3>3. CASE CL + AL > 18 /\ DH = 1
      BY <3>3, <2>1, <2>2, <1>1, BootAssumption DEF Following, Here, Number
    <3> QED BY <3>1, <3>2, <3>3, <1>1
  <2>4. ES' = 32 * (64 + Here + AL)
    <3>1. ES' = ((q + AL) * 32) % 65536 BY <1>3 DEF next
    <3>2. q + AL \in 0..2047 /\ q + AL = 64 + Here + AL
      <4>1. Here \in Nat /\ AL \in Nat /\ Here + AL <= 36 * CYLS - 1 /\ CYLS \in 1..33
        BY <1>1, <1>2, <2>2, BootAssumption
      <4> QED BY <4>1
    <3> DEFINE r == q + AL
    <3>3. r \in Window /\ ES' = Register(r) /\ r = 64 + Here + AL
      BY <3>1, <3>2 DEF Window, Register
    <3> HIDE DEF r, q
    <3>4. ES' = Paragraph(r) BY <3>3, Moved
    <3> QED BY <3>3, <3>4 DEF Paragraph
  <2>5. BX' = 36 * CYLS - (Here + AL) BY <1>1, <1>2, <2>1, BootAssumption
  <2>6. AL' \in Nat /\ SI' \in Nat BY <1>1, <2>1
  <2>7. /\ ES' = 32 * (64 + Here') /\ BX' = 36 * CYLS - Here'
        /\ DOMAIN memory' = 65..(63 + Here') /\ Here' > 0
    <3>1. Here \in Int /\ AL \in Int /\ Here' = Here + AL BY <1>1, <1>2, <2>3, BootAssumption
    <3>2. 64 + Here + AL = 64 + Here' /\ 63 + Here + AL = 63 + Here' BY <3>1
    <3> QED BY <1>1, <1>2, <1>5, <2>4, <2>5, <3>1, <3>2, BootAssumption
  <2> QED BY <1>5, <2>1, <2>3, <2>6, <2>7 DEF BootInv
<1> QED BY <1>6, <1>7

\* A request that failed changes nothing but the number of failures.
LEMMA FailInv == ASSUME BootInv, Fail PROVE BootInv'
<1>1. Here' = Here BY DEF Fail, Here, Number
<1> QED BY <1>1 DEF BootInv, Fail

\* The two properties are parts of the invariant.
LEMMA InvFollows == ASSUME BootInv PROVE RequestIsLegal /\ InPlace
<1>1. CASE pc = "retry"
  <2>1. Here \in 0..(36 * CYLS - 1) BY HereRange
  <2>2. ES \div 32 = 64 + Here BY <1>1, <2>1, BootAssumption DEF BootInv
  <2> QED BY <1>1, <2>2, BootAssumption DEF BootInv, RequestIsLegal, InPlace
<1>2. CASE pc # "retry"
  BY <1>2 DEF BootInv, RequestIsLegal, InPlace
<1> QED BY <1>1, <1>2

\* The boot sector reads every sector to its place, and asks the disk BIOS for
\* nothing that it or the DMA controller cannot do, on a diskette of any number
\* of cylinders and whatever requests fail.
THEOREM SectorsInPlace == Spec => []SectorsArrive
<1>1. BootInv /\ [Next]_vars => BootInv'
  <2> SUFFICES ASSUME BootInv, [Next]_vars PROVE BootInv'
    OBVIOUS
  <2>1. CASE UNCHANGED vars
    BY <2>1 DEF vars, BootInv, Here, Number
  <2> QED BY <2>1, ReadfastInv, BootNextInv, FailInv DEF Next, Ended
<1>2. BootInv => SectorsArrive BY InvFollows DEF SectorsArrive
<1> QED BY <1>1, <1>2, BootInitInv, PTL DEF Spec

-----------------------------------------------------------------------------
(* The fields of the descriptors, for all numbers of 32 bits *)

DsctblInv ==
  /\ asked = [segment |-> asked.segment, gate |-> asked.gate]
  /\ IsSegment(asked.segment) /\ IsGate(asked.gate)
  /\ sd = Segment(asked.segment) /\ gd = Gate(asked.gate)

-----------------------------------------------------------------------------
(* Numbers in parts *)

LEMMA BasePut ==
  ASSUME NEW n, Long(n)
  PROVE  In3(n % Half, (n \div Half) % 256, n \div HighByte) = n
BY SMT DEF Long, In3, Half, HighByte

LEMMA OffsetPut ==
  ASSUME NEW n, Long(n)
  PROVE  In3(n % Half, n \div Half, 0) = n
BY SMT DEF Long, In3, Half, HighByte

LEMMA GateRightsPut ==
  ASSUME NEW ar \in Nat, ar < Half
  PROVE  (ar % 256) + 256 * (ar \div 256) = ar
BY SMT DEF Half

LEMMA LimitPut ==
  ASSUME NEW n \in Nat, n <= FieldMax
  PROVE  n \div Half \in 0..15 /\ In3(n % Half, n \div Half, 0) = n
BY SMT DEF FieldMax, Half, HighByte, In3

\* Four bits of the limit below those of ar
LEMMA Nibbles ==
  ASSUME NEW h \in 0..15, NEW r \in 0..15
  PROVE  /\ (h % 16) + 16 * r = h + 16 * r
         /\ (h + 16 * r) % 16 = h
         /\ (h + 16 * r) \div 16 = r
         /\ (h + 16 * r) \div 128 = r \div 8
BY SMT

LEMMA Rights ==
  ASSUME NEW ar \in Nat, ar < Half
  PROVE  ar \div Page \in 0..15
BY SMT DEF Half, Page

LEMMA HighPut ==
  ASSUME NEW n \in Nat, n <= FieldMax, NEW ar \in Nat, ar < Half
  PROVE  /\ High(n, ar) % 16 = n \div Half
         /\ High(n, ar) \div 16 = ar \div Page
         /\ High(n, ar) \div 128 = (ar \div Page) \div 8
BY LimitPut, Rights, Nibbles DEF High

LEMMA GBit ==
  ASSUME NEW ar \in Nat, ar < G_bit
  PROVE  /\ ar < Half /\ ar + G_bit \in Nat /\ ar + G_bit < Half
         /\ (ar + G_bit) % 256 = ar % 256
         /\ (ar + G_bit) \div Page = 8 + (ar \div Page)
         /\ ar \div Page \in 0..7
<1>1. ar < Half /\ ar + G_bit \in Nat /\ ar + G_bit < Half BY SMT DEF Half, G_bit
<1>2. (ar + G_bit) % 256 = ar % 256 BY SMT DEF G_bit
<1>3. (ar + G_bit) \div Page = 8 + (ar \div Page) BY SMT DEF G_bit, Page
<1>4. ar \div Page \in 0..7 BY SMT DEF G_bit, Page
<1> QED BY <1>1, <1>2, <1>3, <1>4

LEMMA GSeen ==
  ASSUME NEW r \in 0..7
  PROVE  r \div 8 = 0 /\ (8 + r) \div 8 = 1 /\ r % 8 = r /\ (8 + r) % 8 = r
BY SMT

LEMMA InPages ==
  ASSUME NEW n, Long(n)
  PROVE  /\ n \in Nat
         /\ n \div Page \in Nat /\ n \div Page <= FieldMax
         /\ Page * (n \div Page) + Page - 1 - n \in 0..(Page - 1)
<1>1. n \in Nat BY DEF Long
<1>2. n < Half * Half BY SMT DEF Long, Half
<1>3. n \div Page \in Nat /\ n \div Page <= FieldMax
  <2>1. n < Page * (FieldMax + 1) BY SMT, <1>1, <1>2 DEF Half, Page, FieldMax
  <2>2. n \div Page \in Nat /\ Page * (n \div Page) <= n BY SMT, <1>1 DEF Page
  <2> QED BY SMT, <1>1, <2>1, <2>2 DEF Page, FieldMax
<1>4. Page * (n \div Page) + Page - 1 - n \in 0..(Page - 1) BY SMT, <1>1 DEF Page
<1> QED BY <1>1, <1>3, <1>4

-----------------------------------------------------------------------------
(* The fields *)

LEMMA BaseRead ==
  ASSUME NEW s, IsSegment(s)
  PROVE  BaseOf(Segment(s)) = s.base
<1>1. Long(s.base) BY DEF IsSegment
<1>2. BaseOf(Segment(s)) = In3(s.base % Half, (s.base \div Half) % 256, s.base \div HighByte)
  BY DEF BaseOf, Segment
<1> QED BY <1>1, <1>2, BasePut

\* A limit and rights that fit into their fields
LEMMA FieldsRead ==
  ASSUME NEW s, NEW n \in Nat, n <= FieldMax, NEW ar \in Nat, ar < Half,
         Granular(s) = [limit |-> n, ar |-> ar]
  PROVE  /\ LimitOf(Segment(s)) = IF (ar \div Page) \div 8 = 1 THEN Page * n + Page - 1 ELSE n
         /\ RightsOf(Segment(s)) = <<ar % 256, (ar \div Page) % 8>>
<1>1. /\ Segment(s).limit_low = n % Half
      /\ Segment(s).access_right = ar % 256
      /\ Segment(s).limit_high = High(n, ar)
  BY DEF Segment
<1>2. /\ High(n, ar) % 16 = n \div Half
      /\ High(n, ar) \div 16 = ar \div Page
      /\ High(n, ar) \div 128 = (ar \div Page) \div 8
      /\ In3(n % Half, n \div Half, 0) = n
  BY HighPut, LimitPut
<1>3. LimitOf(Segment(s)) = IF (ar \div Page) \div 8 = 1 THEN Page * n + Page - 1 ELSE n
  BY <1>1, <1>2 DEF LimitOf
<1>4. RightsOf(Segment(s)) = <<ar % 256, (ar \div Page) % 8>>
  BY <1>1, <1>2 DEF RightsOf
<1> QED BY <1>3, <1>4

LEMMA SegmentRead ==
  ASSUME NEW s, IsSegment(s)
  PROVE  /\ LimitOf(Segment(s)) - s.limit \in 0..(IF s.limit <= FieldMax THEN 0 ELSE Page - 1)
         /\ RightsOf(Segment(s)) = <<s.ar % 256, s.ar \div Page>>
<1> DEFINE n == s.limit
           ar == s.ar
<1>1. Long(n) /\ ar \in Nat /\ ar < G_bit BY DEF IsSegment
<1>2. Granular(s) = IF n > FieldMax THEN [limit |-> n \div Page, ar |-> ar + G_bit]
                    ELSE [limit |-> n, ar |-> ar]
  BY DEF Granular
<1> HIDE DEF n, ar
<1>3. /\ n \in Nat
      /\ n \div Page \in Nat /\ n \div Page <= FieldMax
      /\ Page * (n \div Page) + Page - 1 - n \in 0..(Page - 1)
  BY <1>1, InPages
<1>4. /\ ar < Half /\ ar + G_bit \in Nat /\ ar + G_bit < Half
      /\ (ar + G_bit) % 256 = ar % 256
      /\ (ar + G_bit) \div Page = 8 + (ar \div Page)
      /\ ar \div Page \in 0..7
  BY <1>1, GBit
<1>8. /\ (ar \div Page) \div 8 = 0 /\ ((ar + G_bit) \div Page) \div 8 = 1
      /\ (ar \div Page) % 8 = ar \div Page
      /\ ((ar + G_bit) \div Page) % 8 = ar \div Page
  BY <1>4, GSeen
<1>5. FieldMax \in Nat /\ Page \in Nat \ {0} BY SMT DEF FieldMax, Page
<1>6. CASE n > FieldMax
  <2>1. Granular(s) = [limit |-> n \div Page, ar |-> ar + G_bit] BY <1>2, <1>6
  <2>2. /\ LimitOf(Segment(s)) = Page * (n \div Page) + Page - 1
        /\ RightsOf(Segment(s)) = <<ar % 256, ar \div Page>>
    BY <2>1, <1>3, <1>4, <1>8, FieldsRead
  <2>3. ~(n <= FieldMax) BY <1>3, <1>5, <1>6
  <2>4. LimitOf(Segment(s)) - n \in 0..(IF n <= FieldMax THEN 0 ELSE Page - 1)
    <3>1. LimitOf(Segment(s)) - n \in 0..(Page - 1) BY <1>3, <1>5, <2>2
    <3>2. (IF n <= FieldMax THEN 0 ELSE Page - 1) = Page - 1 BY <2>3
    <3> QED BY <3>1, <3>2
  <2> QED BY <2>2, <2>4 DEF n, ar
<1>7. CASE ~(n > FieldMax)
  <2>1. Granular(s) = [limit |-> n, ar |-> ar] BY <1>2, <1>7
  <2>2. n \in Nat /\ n <= FieldMax BY <1>3, <1>5, <1>7
  <2>3. /\ LimitOf(Segment(s)) = n
        /\ RightsOf(Segment(s)) = <<ar % 256, ar \div Page>>
    <3>1. (ar \div Page) \div 8 # 1 BY <1>8
    <3> QED BY <2>1, <2>2, <3>1, <1>1, <1>4, <1>8, FieldsRead
  <2>4. n - n \in 0..0 BY <1>3
  <2>5. LimitOf(Segment(s)) - n \in 0..(IF n <= FieldMax THEN 0 ELSE Page - 1)
    BY <2>2, <2>3, <2>4
  <2> QED BY <2>3, <2>5 DEF n, ar
<1> QED BY <1>6, <1>7

LEMMA GateRead ==
  ASSUME NEW g, IsGate(g)
  PROVE  /\ In3(Gate(g).offset_low, Gate(g).offset_high, 0) = g.offset
         /\ Gate(g).selector = g.selector
         /\ Gate(g).access_right + 256 * Gate(g).dw_count = g.ar
<1>1. Long(g.offset) /\ g.ar \in Nat /\ g.ar < Half BY DEF IsGate
<1>2. /\ Gate(g).offset_low = g.offset % Half /\ Gate(g).offset_high = g.offset \div Half
      /\ Gate(g).selector = g.selector
      /\ Gate(g).access_right = g.ar % 256 /\ Gate(g).dw_count = g.ar \div 256
  BY DEF Gate
<1> QED BY <1>1, <1>2, OffsetPut, GateRightsPut

-----------------------------------------------------------------------------
(* The steps *)

LEMMA DsctblInitInv == DsctblInit => DsctblInv
<1>1. Long(0) BY SMT DEF Long, Half
<1>2. 0 < G_bit /\ 0 < Half BY SMT DEF G_bit, Half
<1> QED BY <1>1, <1>2 DEF DsctblInit, DsctblInv, Nowhere, IsSegment, IsGate

LEMMA DsctblNextInv == DsctblInv /\ [DsctblNext]_dsctblVars => DsctblInv'
<1> SUFFICES ASSUME DsctblInv, [DsctblNext]_dsctblVars PROVE DsctblInv' OBVIOUS
<1>1. ASSUME NEW s \in Segments, set_segmdesc(s) PROVE DsctblInv'
  <2>1. asked' = [segment |-> s, gate |-> asked.gate]
    BY <1>1 DEF set_segmdesc, DsctblInv
  <2>2. IsSegment(s) BY DsctblAssumption
  <2> QED BY <1>1, <2>1, <2>2 DEF set_segmdesc, DsctblInv
<1>2. ASSUME NEW g \in Gates, set_gatedesc(g) PROVE DsctblInv'
  <2>1. asked' = [segment |-> asked.segment, gate |-> g]
    BY <1>2 DEF set_gatedesc, DsctblInv
  <2>2. IsGate(g) BY DsctblAssumption
  <2> QED BY <1>2, <2>1, <2>2 DEF set_gatedesc, DsctblInv
<1>3. CASE UNCHANGED dsctblVars
  <2>1. asked' = asked /\ sd' = sd /\ gd' = gd BY <1>3 DEF dsctblVars
  <2> QED BY <2>1 DEF DsctblInv
<1> QED BY <1>1, <1>2, <1>3 DEF DsctblNext

(* set_segmdesc, set_gatedesc: the processor reads from a descriptor what   *)
(* was asked for, for every limit, base and offset of 32 bits.              *)
THEOREM ReadBack == DsctblSpec => []DescribesWhatWasAsked
<1>1. ASSUME DsctblInv PROVE DescribesWhatWasAsked
  <2>1. /\ IsSegment(asked.segment) /\ IsGate(asked.gate)
        /\ sd = Segment(asked.segment) /\ gd = Gate(asked.gate)
    BY <1>1 DEF DsctblInv
  <2> QED BY <2>1, BaseRead, SegmentRead, GateRead DEF DescribesWhatWasAsked
<1> QED BY <1>1, DsctblInitInv, DsctblNextInv, PTL DEF DsctblSpec

-----------------------------------------------------------------------------
(* The range decoder of tek.c never loses its place, and no probability
   becomes 0 or 1, for all widths, models and contexts. *)

RangeTypeOK ==
  /\ range \in Nat /\ code \in Nat
  /\ prob \in [Contexts -> 1..(One - 1)]
  /\ bm \in Models
  /\ lt \in Nat

RangeInv == RangeTypeOK /\ InPlaceOf

-----------------------------------------------------------------------------
(* Division *)

LEMMA Divided ==
  ASSUME NEW n \in Nat, NEW k \in Nat \ {0}
  PROVE  /\ n \div k \in Nat
         /\ k * (n \div k) <= n
         /\ n < k * (n \div k) + k
OBVIOUS

LEMMA Product ==
  ASSUME NEW n \in Nat, NEW k \in Nat, NEW l \in Nat, n <= k
  PROVE  n * l \in Nat /\ n * l <= k * l
OBVIOUS

\* Rounding down to a multiple of t
LEMMA WholeBounds ==
  ASSUME NEW p \in Nat, NEW t \in Nat \ {0}
  PROVE  Whole(p, t) \in 0..p /\ (p >= t => Whole(p, t) >= t)
<1>1. p \div t \in Nat /\ t * (p \div t) <= p /\ p < t * (p \div t) + t
  BY Divided
<1>2. Whole(p, t) = t * (p \div t) BY <1>1 DEF Whole
<1>3. ASSUME p >= t PROVE p \div t >= 1
  <2> SUFFICES ASSUME p \div t = 0 PROVE FALSE BY <1>1
  <2> QED BY <1>1, <1>3
<1>4. ASSUME p >= t PROVE t * (p \div t) >= t
  BY <1>1, <1>3, <1>4, Product, SMT
<1> QED BY <1>1, <1>2, <1>4

\* At most half of it
LEMMA Halved ==
  ASSUME NEW n \in Nat, NEW k \in Nat \ {0, 1}
  PROVE  n \div k \in Nat /\ 2 * (n \div k) <= n
<1>1. n \div k \in Nat /\ k * (n \div k) <= n BY Divided
<1>2. 2 * (n \div k) <= k * (n \div k) BY <1>1, Product
<1> QED BY <1>1, <1>2

-----------------------------------------------------------------------------
(* Probabilities *)

LEMMA PrbBounds ==
  ASSUME NEW b \in Models
  PROVE  Prb0(b) \in b.t..(One - 1) /\ Prb1(b) \in 1..(One - 1)
<1>1. /\ b.t \in Nat \ {0} /\ b.m \in Nat \ {0, 1} /\ b.t < One /\ One \in Nat
      /\ Whole(One, b.t) = One
  BY RangeAssumption
<1>2. One \div b.t \in Nat /\ One = b.t * (One \div b.t)
  BY <1>1, Divided DEF Whole
<1>3. One >= 2 * b.t
  <2>1. One \div b.t # 0 /\ One \div b.t # 1 BY <1>1, <1>2
  <2>2. One \div b.t >= 2 BY <1>2, <2>1
  <2> QED BY <1>1, <1>2, <2>2, Product
<1>4. b.m * b.t \in Nat /\ b.m * b.t >= 2 * b.t BY <1>1, Product
<1> QED BY <1>1, <1>3, <1>4 DEF Prb0, Prb1

LEMMA FixedBounds ==
  ASSUME NEW b \in Models, NEW p \in 1..(One - 1)
  PROVE  Fixed(p, b) \in 1..(One - 1)
<1>1. b.t \in Nat \ {0} /\ One \in Nat BY RangeAssumption
<1>2. Prb0(b) \in b.t..(One - 1) /\ Prb1(b) \in 1..(One - 1) BY PrbBounds
<1>3. Whole(p, b.t) \in 0..p /\ (p >= b.t => Whole(p, b.t) >= b.t)
  BY <1>1, WholeBounds
<1> QED BY <1>1, <1>2, <1>3 DEF Fixed

\* A bit moves its probability by at most half of what is left.
LEMMA MovedBounds ==
  ASSUME NEW b \in Models, NEW p \in 1..(One - 1)
  PROVE  Up(p, b) \in 1..(One - 1) /\ Down(p, b) \in 1..(One - 1)
<1>1. b.t \in Nat \ {0} /\ b.m \in Nat \ {0, 1} /\ One \in Nat BY RangeAssumption
<1>2. One - p \in Nat BY <1>1
<1>3. (One - p) \div b.m \in Nat /\ 2 * ((One - p) \div b.m) <= One - p
  BY <1>1, <1>2, Halved
<1>4. p \div b.m \in Nat /\ 2 * (p \div b.m) <= p BY <1>1, Halved
<1>5. Whole((One - p) \div b.m, b.t) \in 0..((One - p) \div b.m)
  BY <1>1, <1>3, WholeBounds
<1>6. Whole(p \div b.m, b.t) \in 0..(p \div b.m) BY <1>1, <1>4, WholeBounds
<1>7. Up(p, b) \in 1..(One - 1) BY <1>1, <1>3, <1>5 DEF Up
<1>8. Down(p, b) \in 1..(One - 1) BY <1>1, <1>4, <1>6 DEF Down
<1> QED BY <1>7, <1>8

\* Neither part of the range is empty.
LEMMA ShareBounds ==
  ASSUME NEW r \in Nat, r >= Top, NEW p \in 1..(One - 1)
  PROVE  Share(r, p) \in 1..(r - 1)
<1> DEFINE w == Whole(r, Grain)
<1>1. /\ Grain \in Nat \ {0} /\ Top \in Nat \ {0} /\ One \in Nat \ {0, 1}
      /\ Top >= One /\ Whole(Top, Grain) = Top
  BY RangeAssumption
<1>2. w \in 0..r BY <1>1, WholeBounds
<1>3. w >= Top
  <2>1. /\ Top \div Grain \in Nat /\ Top = (Top \div Grain) * Grain
        /\ r \div Grain \in Nat /\ Grain * (r \div Grain) <= r
        /\ r < Grain * (r \div Grain) + Grain
    BY <1>1, Divided DEF Whole
  <2>2. ASSUME r \div Grain < Top \div Grain PROVE FALSE
    <3>1. r \div Grain + 1 <= Top \div Grain BY <2>1, <2>2
    <3>2. (r \div Grain + 1) * Grain <= (Top \div Grain) * Grain
      BY <1>1, <2>1, <3>1, Product
    <3> QED BY <1>1, <2>1, <3>2
  <2>3. (Top \div Grain) * Grain <= (r \div Grain) * Grain
    BY <1>1, <2>1, <2>2, Product
  <2> QED BY <2>1, <2>3 DEF Whole
<1> HIDE DEF w
<1>4. w \in Nat /\ w >= One /\ w * p \in Nat BY <1>1, <1>2, <1>3
<1>5. w * p >= w BY <1>4, Product
<1>6. w * p <= w * One - w
  <2>1. p * w <= (One - 1) * w BY <1>1, <1>4, Product
  <2> QED BY <1>1, <1>4, <2>1
<1>7. /\ (w * p) \div One \in Nat
      /\ One * ((w * p) \div One) <= w * p
      /\ w * p < One * ((w * p) \div One) + One
  BY <1>1, <1>4, Divided
<1>8. (w * p) \div One # 0 BY <1>1, <1>4, <1>5, <1>7
<1>9. (w * p) \div One < w
  <2> SUFFICES ASSUME w <= (w * p) \div One PROVE FALSE BY <1>4, <1>7
  <2>1. w * One <= ((w * p) \div One) * One BY <1>1, <1>4, <1>7, Product
  <2> QED BY <1>1, <1>4, <1>6, <1>7, <2>1
<1> QED BY <1>2, <1>4, <1>7, <1>8, <1>9 DEF Share, w

-----------------------------------------------------------------------------
(* The steps *)

LEMMA RangeInitInv == RangeInit => RangeInv
<1> SUFFICES ASSUME RangeInit PROVE RangeInv OBVIOUS
<1>1. /\ Radix \in Nat \ {0, 1} /\ Top \in Nat \ {0} /\ One \in Nat \ {0, 1}
      /\ Top >= One
  BY RangeAssumption
<1>2. Word \in Nat /\ Word >= 2
  <2>1. 2 * Top <= Radix * Top BY <1>1, Product
  <2> QED BY <1>1, <2>1 DEF Word
<1>3. InPlaceOf BY <1>2 DEF RangeInit, InPlaceOf
<1>4. One \div 2 \in 1..(One - 1) BY <1>1
<1>5. prob \in [Contexts -> 1..(One - 1)]
  BY <1>1, <1>4 DEF RangeInit
<1> QED BY <1>2, <1>3, <1>5 DEF RangeInit, RangeInv, RangeTypeOK

LEMMA NormalizeInv ==
  ASSUME RangeInv, Normalize
  PROVE  RangeInv'
<1>1. Radix \in Nat \ {0, 1} /\ Top \in Nat \ {0} BY RangeAssumption
<1>2. PICK byte \in 0..(Radix - 1) : code' = code * Radix + byte
  BY DEF Normalize
<1>3. range \in Nat \ {0} /\ code \in 0..(range - 1) /\ range <= Top - 1 /\ range' = range * Radix
  BY <1>1 DEF RangeInv, RangeTypeOK, InPlaceOf, Normalize
<1>4. range * Radix \in Nat /\ range * Radix <= Radix * Top - Radix
  <2>1. range * Radix <= (Top - 1) * Radix BY <1>1, <1>3, Product
  <2> QED BY <1>1, <1>3, <2>1
<1>5. range * Radix >= Radix BY <1>1, <1>3, Product
<1>6. code * Radix \in Nat /\ code * Radix <= range * Radix - Radix
  <2>1. code <= range - 1 /\ range - 1 \in Nat /\ code \in Nat BY <1>3
  <2>2. code * Radix <= (range - 1) * Radix BY <1>1, <2>1, Product
  <2> QED BY <1>1, <1>3, <2>1, <2>2
<1>7. InPlaceOf' BY <1>1, <1>2, <1>3, <1>4, <1>5, <1>6 DEF InPlaceOf, Word
<1>8. RangeTypeOK' BY <1>1, <1>2, <1>3, <1>4, <1>6 DEF RangeTypeOK, RangeInv, Normalize
<1> QED BY <1>7, <1>8 DEF RangeInv

LEMMA GetBitInv ==
  ASSUME RangeInv, NEW c \in Contexts, GetBit(c)
  PROVE  RangeInv'
<1> DEFINE p == IF lt > 0 THEN Fixed(prob[c], bm) ELSE prob[c]
           i == Share(range, p)
<1>1. /\ range \in Nat /\ code \in 0..(range - 1) /\ range \in 1..(Word - 1)
      /\ prob \in [Contexts -> 1..(One - 1)] /\ bm \in Models /\ lt \in Nat
      /\ range >= Top
  BY DEF RangeInv, RangeTypeOK, InPlaceOf, GetBit
<1>2. p \in 1..(One - 1) BY <1>1, FixedBounds
<1>3. i \in 1..(range - 1) BY <1>1, <1>2, ShareBounds
<1>4. Up(p, bm) \in 1..(One - 1) /\ Down(p, bm) \in 1..(One - 1)
  BY <1>1, <1>2, MovedBounds
<1>5. /\ range' = Taken(range, code, i)[1] /\ code' = Taken(range, code, i)[2]
      /\ prob' = [prob EXCEPT ![c] = IF code < i THEN Up(p, bm) ELSE Down(p, bm)]
      /\ lt' = IF lt = 0 THEN 0 ELSE lt - 1
      /\ bm' = bm
  BY DEF GetBit
<1> HIDE DEF p, i
<1>6. Word \in Nat BY RangeAssumption DEF Word
<1>7. CASE code < i
  <2>1. range' = i /\ code' = code BY <1>5, <1>7 DEF Taken
  <2> QED BY <1>1, <1>3, <1>4, <1>5, <1>6, <1>7, <2>1 DEF RangeInv, RangeTypeOK, InPlaceOf
<1>8. CASE ~(code < i)
  <2>1. range' = range - i /\ code' = code - i BY <1>5, <1>8 DEF Taken
  <2> QED BY <1>1, <1>3, <1>4, <1>5, <1>6, <1>8, <2>1 DEF RangeInv, RangeTypeOK, InPlaceOf
<1> QED BY <1>7, <1>8

LEMMA GetEvenBitInv ==
  ASSUME RangeInv, GetEvenBit
  PROVE  RangeInv'
<1>1. Top \in Nat \ {0} /\ One \in Nat \ {0, 1} /\ Top >= One /\ Word \in Nat
  BY RangeAssumption DEF Word
<1> QED BY <1>1 DEF RangeInv, RangeTypeOK, InPlaceOf, GetEvenBit

\* The place is never lost.
LEMMA RangeNextInv == RangeInv /\ [RangeNext]_rangeVars => RangeInv'
<1> SUFFICES ASSUME RangeInv, [RangeNext]_rangeVars PROVE RangeInv' OBVIOUS
<1>1. CASE Normalize BY <1>1, NormalizeInv
<1>2. CASE Renew
  BY <1>2, RangeAssumption DEF Renew, RangeInv, RangeTypeOK, InPlaceOf
<1>3. CASE \E c \in Contexts : GetBit(c) BY <1>3, GetBitInv
<1>4. CASE GetEvenBit BY <1>4, GetEvenBitInv
<1>5. CASE UNCHANGED rangeVars BY <1>5 DEF rangeVars, RangeInv, RangeTypeOK, InPlaceOf
<1> QED BY <1>1, <1>2, <1>3, <1>4, <1>5 DEF RangeNext

(* tek.c's decoder: whatever the file says and whatever models follow each  *)
(* other, code stays in the range that is left, that in its word, and each   *)
(* bit stays possible.                                                      *)
THEOREM KeepsItsPlace == RangeSpec => []RangeOK
<1>1. RangeInv => InPlaceOf BY DEF RangeInv
<1>2. RangeInv => BothPossible
  BY ShareBounds DEF RangeInv, RangeTypeOK, BothPossible
<1>3. RangeInv => RangeOK BY <1>1, <1>2 DEF RangeOK
<1> QED BY <1>3, RangeInitInv, RangeNextInv, PTL DEF RangeSpec

-----------------------------------------------------------------------------
(* The memory test, for any memory with any holes *)

\* A machine whose cache is not enabled, and memory with another word
NoCache(f) == [memory |-> f, cache |-> <<>>, enabled |-> FALSE]
WithWord(f, q, v) == [k \in DOMAIN f |-> IF k = q THEN v ELSE f[k]]
Words(f) == f = [p \in DOMAIN f |-> f[p]]

\* Between two pages the memory is as it was, and the cache has not been used.
Machine(on) == [memory |-> before, cache |-> <<>>, enabled |-> on]

\* All pages before this one have memory.
Passed(p) == p \in start..(end + 1) /\ start..(p - 1) \subseteq DOMAIN before

MemtestInv ==
  /\ is486 \in BOOLEAN /\ mts \in {"eflags", "loop", "fin", "done"}
  /\ Words(before) /\ DOMAIN before \subseteq Pages
  /\ Passed(page)
  /\ mts = "eflags" => page = start /\ \E on \in {FALSE, is486} : machine = Machine(on)
  /\ mts \in {"loop", "fin"} => flg486 = is486 /\ machine = Machine(FALSE)
  /\ mts = "loop" => page <= end
  /\ mts \in {"fin", "done"} => page \notin DOMAIN before
  /\ mts = "done" => machine = Machine(is486)

\* Without the cache a word is written where there is memory, and only there.
LEMMA WordWritten ==
  ASSUME NEW f, Words(f), NEW q, NEW v, NEW m, m = NoCache(f)
  PROVE  WriteWord(m, q, v) = NoCache(WithWord(f, q, v))
BY DEF WriteWord, NoCache, WithWord, Words

LEMMA WordRead ==
  ASSUME NEW f, NEW q, NEW m, m = NoCache(f)
  PROVE  /\ q \in DOMAIN f => ReadWord(m, q) = f[q]
         /\ q \notin DOMAIN f => ReadWord(m, q) = Floating
BY DEF ReadWord, NoCache

\* A page is found to have memory just when it has, and its word is put back.
LEMMA PageTested ==
  ASSUME machine = Machine(FALSE), Words(before)
  PROVE  Tested.machine = machine /\ (Tested.ok <=> page \in DOMAIN before)
<1> DEFINE Holding(v) == WithWord(before, page, v)
           old == ReadWord(machine, page)
           m0 == WriteWord(machine, page, pat0)
           m1 == Complement(m0, page)
           m2 == Complement(m1, page)
<1>1. pat0 # pat1 /\ Inverted(pat0) = pat1 /\ Inverted(pat1) = pat0
  BY DEF pat0, pat1, Inverted
<1>2. machine = NoCache(before) BY DEF Machine, NoCache
<1>3. ASSUME NEW v, NEW u
      PROVE  /\ Words(Holding(v)) /\ WithWord(Holding(v), page, u) = Holding(u)
             /\ DOMAIN Holding(v) = DOMAIN before
             /\ page \in DOMAIN before => Holding(v)[page] = v
  BY DEF WithWord, Words
<1>4. ASSUME NEW v, NEW u, NEW m, m = NoCache(Holding(v)) PROVE WriteWord(m, page, u) = NoCache(Holding(u))
  <2>1. PICK f : f = Holding(v) OBVIOUS
  <2>2. Words(f) /\ m = NoCache(f) /\ WithWord(f, page, u) = Holding(u) BY <1>3, <1>4, <2>1
  <2> HIDE DEF Holding
  <2> QED BY <2>2, WordWritten
<1>5. ASSUME NEW v, NEW m, m = NoCache(Holding(v))
      PROVE  /\ page \in DOMAIN before => ReadWord(m, page) = v
             /\ page \notin DOMAIN before => ReadWord(m, page) = Floating
  <2>1. PICK f : f = Holding(v) OBVIOUS
  <2>2. /\ DOMAIN f = DOMAIN before /\ m = NoCache(f)
        /\ page \in DOMAIN before => f[page] = v
    BY <1>3, <1>5, <2>1
  <2> HIDE DEF Holding
  <2> QED BY <2>2, WordRead
<1>6. m0 = NoCache(Holding(pat0)) BY <1>2, WordWritten
<1>7. Holding(old) = before
  <2>1. page \in DOMAIN before => old = before[page] BY <1>2, WordRead
  <2> HIDE DEF old
  <2> QED BY <2>1 DEF WithWord, Words
<1>8. Tested = IF ReadWord(m1, page) # pat1 THEN [ok |-> FALSE, machine |-> WriteWord(m1, page, old)]
               ELSE [ok |-> ReadWord(m2, page) = pat0, machine |-> WriteWord(m2, page, old)]
  BY DEF Tested
<1> HIDE DEF Holding, old, m0
<1>9. m1 = NoCache(Holding(Inverted(ReadWord(m0, page)))) BY <1>4, <1>6 DEF Complement
<1> HIDE DEF m1
<1>10. m2 = NoCache(Holding(Inverted(ReadWord(m1, page)))) BY <1>4, <1>9 DEF Complement
<1> HIDE DEF m2
<1>11. WriteWord(m1, page, old) = machine /\ WriteWord(m2, page, old) = machine
  BY <1>2, <1>4, <1>7, <1>9, <1>10
<1>12. CASE page \in DOMAIN before
  <2>1. ReadWord(m0, page) = pat0 BY <1>5, <1>6, <1>12
  <2>2. ReadWord(m1, page) = pat1 BY <1>1, <1>5, <1>9, <1>12, <2>1
  <2>3. ReadWord(m2, page) = pat0 BY <1>1, <1>5, <1>10, <1>12, <2>2
  <2> QED BY <1>8, <1>11, <1>12, <2>2, <2>3
<1>13. CASE page \notin DOMAIN before
  <2>1. ReadWord(m1, page) = Floating /\ ReadWord(m2, page) = Floating BY <1>5, <1>9, <1>10, <1>13
  <2> QED BY <1>1, <1>8, <1>11, <1>13, <2>1
<1> QED BY <1>12, <1>13

LEMMA MemtestInitInv == MemtestInit => MemtestInv
<1> SUFFICES ASSUME MemtestInit PROVE MemtestInv OBVIOUS
<1>1. start \in Nat /\ end \in Nat /\ start <= end BY MemtestAssumption
<1>2. Words(before) /\ DOMAIN before \subseteq Pages
  BY DEF MemtestInit, Words
<1>3. Passed(page) BY <1>1 DEF Passed, MemtestInit
<1> QED BY <1>2, <1>3 DEF MemtestInit, MemtestInv, Machine

LEMMA MemtestNextInv == MemtestInv /\ [MemtestNext]_memtestVars => MemtestInv'
<1> SUFFICES ASSUME MemtestInv, [MemtestNext]_memtestVars PROVE MemtestInv' OBVIOUS
<1>0. start \in Nat /\ end \in Nat /\ start <= end BY MemtestAssumption
<1>1. CASE Recognise
  <2>1. mts = "eflags" /\ mts' = "loop" /\ flg486' = is486 /\ page = start
        /\ is486' = is486 /\ before' = before /\ page' = page
    BY <1>1 DEF Recognise, MemtestInv
  <2>2. PICK on \in {FALSE, is486} : machine = Machine(on) BY <2>1 DEF MemtestInv
  <2>3. machine' = Machine(FALSE)
    <3>1. CASE is486
      <4>1. machine' = CacheDisabled(machine) BY <1>1, <2>1, <3>1 DEF Recognise
      <4> QED BY <2>2, <4>1 DEF CacheDisabled, Machine
    <3>2. CASE ~is486
      <4>1. machine' = machine BY <1>1, <2>1, <3>2 DEF Recognise
      <4>2. is486 = FALSE BY <3>2 DEF MemtestInv
      <4> QED BY <2>2, <4>1, <4>2
    <3> QED BY <3>1, <3>2
  <2>4. Passed(page)' BY <2>1 DEF Passed, MemtestInv
  <2> QED BY <1>0, <2>1, <2>3, <2>4 DEF MemtestInv, Machine
<1>2. CASE TestPage
  <2>1. /\ mts = "loop" /\ machine = Machine(FALSE) /\ flg486 = is486 /\ page <= end
        /\ Words(before) /\ Passed(page)
        /\ DOMAIN before \subseteq Pages
        /\ is486' = is486 /\ before' = before /\ flg486' = flg486
        /\ machine' = Tested.machine
        /\ page' = IF Tested.ok THEN page + 1 ELSE page
        /\ mts' = IF Tested.ok /\ page' <= end THEN "loop" ELSE "fin"
    BY <1>2 DEF TestPage, MemtestInv
  <2>2. Tested.machine = machine /\ (Tested.ok <=> page \in DOMAIN before) BY <2>1, PageTested
  <2>3. page \in start..end BY <1>0, <2>1 DEF Passed
  <2>4. machine' = Machine(FALSE)' BY <2>1, <2>2 DEF Machine
  <2>5. CASE page \in DOMAIN before
    <3>1. page' = page + 1 /\ mts' = IF page' <= end THEN "loop" ELSE "fin"
      BY <2>1, <2>2, <2>5
    <3>2. Passed(page)'
      BY <1>0, <2>1, <2>3, <2>5, <3>1 DEF Passed
    <3>3. ~(page' <= end) => page' \notin DOMAIN before
      BY <1>0, <2>1, <2>3, <3>1 DEF Pages
    <3> QED BY <1>0, <2>1, <2>3, <2>4, <3>1, <3>2, <3>3 DEF MemtestInv
  <2>6. CASE page \notin DOMAIN before
    <3>1. page' = page /\ mts' = "fin" BY <2>1, <2>2, <2>6
    <3>2. Passed(page)' BY <2>1, <3>1 DEF Passed
    <3> QED BY <2>1, <2>4, <2>6, <3>1, <3>2 DEF MemtestInv
  <2> QED BY <2>5, <2>6
<1>3. CASE Finish
  <2>1. /\ mts = "fin" /\ mts' = "done" /\ machine = Machine(FALSE) /\ flg486 = is486
        /\ is486' = is486 /\ before' = before /\ page' = page
        /\ page \notin DOMAIN before /\ is486 \in BOOLEAN
    BY <1>3 DEF Finish, MemtestInv
  <2>2. machine' = Machine(is486)'
    BY <1>3, <2>1 DEF Finish, Machine
  <2>3. Passed(page)' BY <2>1 DEF Passed, MemtestInv
  <2> QED BY <2>1, <2>2, <2>3 DEF MemtestInv
<1>4. CASE UNCHANGED memtestVars
  BY <1>4 DEF memtestVars, MemtestInv, Passed, Machine, Words
<1> QED BY <1>1, <1>2, <1>3, <1>4 DEF MemtestNext

LEMMA MemtestInvMeasured == MemtestInv => MemoryMeasured
BY DEF MemtestInv, MemoryMeasured, Passed, Machine

\* memtest finds the first page without memory on a 386 and on a 486, wherever
\* the memory has holes and whatever is read there; every word of the memory is
\* as it was, and the cache of a 486 is enabled again.
THEOREM MemtestMeasures == MemtestSpec => []MemoryMeasured
BY MemtestInitInv, MemtestNextInv, MemtestInvMeasured, PTL DEF MemtestSpec

-----------------------------------------------------------------------------
(* The prompt: what cons_putchar does to the window, whatever is printed, and
   the messages that switch the cursor and make it blink. *)

Cells == Chars \cup {"space", "cursor", "mark"}
Rows == [1..Cols -> Cells]
Printed == Chars \cup {"space", "mark"}
Colours == {"off", "white", "black"}
Consoles == [sht : BOOLEAN, x : 1..Cols, y : 1..Lines, c : Colours, shown : [1..Lines -> Rows]]
Data == Chars \cup {"0", "1", "on", "off", "back", "enter", "close"}

\* The window is empty from the column x on.
Empty(s, x) ==
  s.sht => /\ \A k \in 1..Cols : k >= x => s.shown[s.y][k] = "space"
           /\ \A l \in 1..Lines : l > s.y => s.shown[l] = BlankLine

NoCursor(s) == \A l \in 1..Lines, k \in 1..Cols : s.shown[l][k] # "cursor"

\* Between two characters of a text
Tidy(s) == s \in Consoles /\ Empty(s, s.x) /\ NoCursor(s)

\* What a text leaves alone
Same(s, t) == t.sht = s.sht /\ t.c = s.c

\* struct CONSOLE, field by field
Record(sht, x, y, c, pic) == [sht |-> sht, x |-> x, y |-> y, c |-> c, shown |-> pic]

LEMMA RecordFields ==
  ASSUME NEW sht \in BOOLEAN, NEW x \in 1..Cols, NEW y \in 1..Lines, NEW c \in Colours,
         NEW pic \in [1..Lines -> Rows], NEW t, t = Record(sht, x, y, c, pic)
  PROVE  /\ t \in Consoles
         /\ t.sht = sht /\ t.x = x /\ t.y = y /\ t.c = c /\ t.shown = pic
BY DEF Record, Consoles

LEMMA ConsoleFields ==
  ASSUME NEW s \in Consoles
  PROVE  /\ s = Record(s.sht, s.x, s.y, s.c, s.shown)
         /\ s.sht \in BOOLEAN /\ s.x \in 1..Cols /\ s.y \in 1..Lines /\ s.c \in Colours
         /\ s.shown \in [1..Lines -> Rows]
BY DEF Record, Consoles

LEMMA ConsoleExcept ==
  ASSUME NEW s \in Consoles, NEW v
  PROVE  /\ [s EXCEPT !.x = v] = Record(s.sht, v, s.y, s.c, s.shown)
         /\ [s EXCEPT !.y = v] = Record(s.sht, s.x, v, s.c, s.shown)
         /\ [s EXCEPT !.c = v] = Record(s.sht, s.x, s.y, v, s.shown)
         /\ [s EXCEPT !.shown = v] = Record(s.sht, s.x, s.y, s.c, v)
         /\ [s EXCEPT !.sht = v] = Record(v, s.x, s.y, s.c, s.shown)
BY DEF Record, Consoles

LEMMA Sizes == Cols \in Nat /\ Cols >= 3 /\ Lines \in Nat \ {0}
BY PromptAssumption

LEMMA BlankRow == BlankLine \in Rows /\ \A k \in 1..Cols : BlankLine[k] = "space"
BY DEF BlankLine, Rows, Cells

LEMMA PaintResult ==
  ASSUME NEW s \in Consoles, NEW cell \in Cells
  PROVE  /\ Paint(s, cell) \in Consoles /\ Same(s, Paint(s, cell))
         /\ Paint(s, cell).x = s.x /\ Paint(s, cell).y = s.y
         /\ \A l \in 1..Lines, k \in 1..Cols :
              Paint(s, cell).shown[l][k] =
                IF s.sht /\ l = s.y /\ k = s.x THEN cell ELSE s.shown[l][k]
         /\ \A l \in 1..Lines : l # s.y => Paint(s, cell).shown[l] = s.shown[l]
<1>1. CASE s.sht
  <2>1. Paint(s, cell) = [s EXCEPT !.shown = [s.shown EXCEPT ![s.y] = [s.shown[s.y] EXCEPT ![s.x] = cell]]]
    BY <1>1 DEF Paint
  <2>0. s.sht \in BOOLEAN /\ s.x \in 1..Cols /\ s.y \in 1..Lines /\ s.c \in Colours
    BY ConsoleFields
  <2>2. s.shown \in [1..Lines -> Rows] /\ s.y \in 1..Lines /\ s.x \in 1..Cols BY DEF Consoles
  <2>3. PICK row : row = [s.shown[s.y] EXCEPT ![s.x] = cell] OBVIOUS
  <2>4. row \in Rows /\ \A k \in 1..Cols : row[k] = IF k = s.x THEN cell ELSE s.shown[s.y][k]
    BY <2>2, <2>3 DEF Rows
  <2>5. PICK pic : pic = [s.shown EXCEPT ![s.y] = row] OBVIOUS
  <2>6. pic \in [1..Lines -> Rows] /\ \A l \in 1..Lines : pic[l] = IF l = s.y THEN row ELSE s.shown[l]
    BY <2>2, <2>4, <2>5
  <2>7. Paint(s, cell) = [s EXCEPT !.shown = pic] BY <2>1, <2>3, <2>5
  <2>8. Paint(s, cell) = Record(s.sht, s.x, s.y, s.c, pic) BY <2>7, ConsoleExcept
  <2>9. PICK t : t = Paint(s, cell) OBVIOUS
  <2>10. /\ t \in Consoles /\ t.sht = s.sht /\ t.x = s.x /\ t.y = s.y /\ t.c = s.c
         /\ t.shown = pic
    BY <2>0, <2>6, <2>8, <2>9, RecordFields
  <2>11. ASSUME NEW l \in 1..Lines, NEW k \in 1..Cols
         PROVE  t.shown[l][k] = IF s.sht /\ l = s.y /\ k = s.x THEN cell ELSE s.shown[l][k]
    BY <1>1, <2>4, <2>6, <2>10
  <2>12. \A l \in 1..Lines : l # s.y => t.shown[l] = s.shown[l] BY <2>6, <2>10
  <2> QED BY <2>9, <2>10, <2>11, <2>12 DEF Same
<1>2. CASE ~s.sht BY <1>2 DEF Paint, Same, Consoles
<1> QED BY <1>1, <1>2

LEMMA ScrolledResult ==
  ASSUME NEW pic \in [1..Lines -> Rows]
  PROVE  /\ Append(Tail(pic), BlankLine) \in [1..Lines -> Rows]
         /\ \A l \in 1..Lines : Append(Tail(pic), BlankLine)[l] = IF l < Lines THEN pic[l + 1] ELSE BlankLine
<1>1. Lines \in Nat \ {0} BY PromptAssumption
<1>2. pic \in Seq(Rows) /\ Len(pic) = Lines /\ pic # <<>> BY <1>1
<1>3. PICK tl : tl = Tail(pic) OBVIOUS
<1>4. tl \in Seq(Rows) /\ Len(tl) = Lines - 1 /\ \A l \in 1..(Lines - 1) : tl[l] = pic[l + 1]
  BY <1>1, <1>2, <1>3
<1>5. PICK q : q = Append(tl, BlankLine) OBVIOUS
<1>8. q \in Seq(Rows) /\ Len(q) = Lines
  <2>1. BlankLine \in Rows BY BlankRow
  <2>2. Len(q) = Len(tl) + 1 /\ q \in Seq(Rows) BY <1>4, <1>5, <2>1
  <2> QED BY <1>1, <1>4, <2>2
<1>9. \A l \in 1..(Lines - 1) : q[l] = pic[l + 1] BY <1>1, <1>4, <1>5
<1>10. q[Lines] = BlankLine BY <1>1, <1>4, <1>5
<1>6. q \in Seq(Rows) /\ Len(q) = Lines /\ \A l \in 1..Lines : q[l] = IF l < Lines THEN pic[l + 1] ELSE BlankLine
  BY <1>1, <1>8, <1>9, <1>10
<1>7. q \in [1..Lines -> Rows] BY <1>6
<1> QED BY <1>3, <1>5, <1>6, <1>7

\* A new line is empty, whether it is the next one or scrolled into the window.
LEMMA NewlineTidy ==
  ASSUME NEW s \in Consoles, Empty(s, Cols + 1), NoCursor(s)
  PROVE  Tidy(cons_newline(s)) /\ Same(s, cons_newline(s)) /\ cons_newline(s).x = 1
<1>0. Cols \in Nat /\ Cols >= 3 /\ Lines \in Nat \ {0} BY PromptAssumption
<1>1. /\ s.sht \in BOOLEAN /\ s.y \in 1..Lines /\ s.c \in Colours /\ s.shown \in [1..Lines -> Rows]
      /\ s = Record(s.sht, s.x, s.y, s.c, s.shown)
  BY ConsoleFields
<1>2. CASE s.y < Lines
  <2>1. cons_newline(s) = [[s EXCEPT !.y = s.y + 1] EXCEPT !.x = 1] BY <1>2 DEF cons_newline
  <2>2. PICK t : t = cons_newline(s) OBVIOUS
  <2>3. t \in Consoles /\ t.y = s.y + 1 /\ t.x = 1 /\ t.shown = s.shown /\ Same(s, t)
    <3>1. t = Record(s.sht, 1, s.y + 1, s.c, s.shown)
      <4>1. PICK u : u = [s EXCEPT !.y = s.y + 1] OBVIOUS
      <4>2. u = Record(s.sht, s.x, s.y + 1, s.c, s.shown) BY <4>1, ConsoleExcept
      <4>0. s.y + 1 \in 1..Lines BY <1>0, <1>1, <1>2
      <4>3. /\ u \in Consoles /\ u.sht = s.sht /\ u.y = s.y + 1 /\ u.c = s.c
            /\ u.shown = s.shown
        BY <1>1, <4>0, <4>2, ConsoleFields, RecordFields
      <4>4. t = [u EXCEPT !.x = 1] BY <2>1, <2>2, <4>1
      <4>5. t = Record(u.sht, 1, u.y, u.c, u.shown) BY <4>3, <4>4, ConsoleExcept
      <4> QED BY <4>3, <4>5
    <3>2. 1 \in 1..Cols /\ s.y + 1 \in 1..Lines BY <1>0, <1>1, <1>2
    <3> QED BY <1>1, <3>1, <3>2, RecordFields DEF Same
  <2>4. Empty(t, 1)
    <3>1. ASSUME s.sht, NEW l \in 1..Lines, l > s.y PROVE s.shown[l] = BlankLine
      BY <3>1 DEF Empty
    <3>2. s.y + 1 \in 1..Lines /\ s.y + 1 > s.y BY <1>0, <1>1, <1>2
    <3>3. ASSUME t.sht, NEW k \in 1..Cols PROVE t.shown[t.y][k] = "space"
      BY <2>3, <3>1, <3>2, <3>3, BlankRow DEF Same
    <3>4. ASSUME t.sht, NEW l \in 1..Lines, l > t.y PROVE t.shown[l] = BlankLine
      <4>1. l > s.y BY <1>1, <2>3, <3>4
      <4> QED BY <2>3, <3>1, <3>4, <4>1 DEF Same
    <3> QED BY <3>3, <3>4 DEF Empty
  <2>5. NoCursor(t) BY <2>3 DEF NoCursor
  <2> QED BY <2>2, <2>3, <2>4, <2>5 DEF Tidy
<1>3. CASE s.y = Lines /\ s.sht
  <2>1. PICK pic : pic = Append(Tail(s.shown), BlankLine) OBVIOUS
  <2>2. pic \in [1..Lines -> Rows]
        /\ \A l \in 1..Lines : pic[l] = IF l < Lines THEN s.shown[l + 1] ELSE BlankLine
    BY <1>1, <2>1, ScrolledResult
  <2>3. cons_newline(s) = [[s EXCEPT !.shown = pic] EXCEPT !.x = 1]
    <3>1. Scrolled(s) = [s EXCEPT !.shown = Append(Tail(s.shown), BlankLine)] BY <1>3 DEF Scrolled
    <3>2. cons_newline(s) = [Scrolled(s) EXCEPT !.x = 1] BY <1>0, <1>3 DEF cons_newline
    <3> QED BY <2>1, <3>1, <3>2
  <2>4. PICK t : t = cons_newline(s) OBVIOUS
  <2>5. t \in Consoles /\ t.y = Lines /\ t.x = 1 /\ t.shown = pic /\ Same(s, t)
    <3>1. t = Record(s.sht, 1, s.y, s.c, pic)
      <4>1. PICK u : u = [s EXCEPT !.shown = pic] OBVIOUS
      <4>2. u = Record(s.sht, s.x, s.y, s.c, pic) BY <4>1, ConsoleExcept
      <4>3. /\ u \in Consoles /\ u.sht = s.sht /\ u.y = s.y /\ u.c = s.c /\ u.shown = pic
        BY <1>1, <2>2, <4>2, ConsoleFields, RecordFields
      <4>4. t = [u EXCEPT !.x = 1] BY <2>3, <2>4, <4>1
      <4>5. t = Record(u.sht, 1, u.y, u.c, u.shown) BY <4>3, <4>4, ConsoleExcept
      <4> QED BY <4>3, <4>5
    <3>2. 1 \in 1..Cols BY <1>0
    <3>3. s.sht \in BOOLEAN /\ s.y \in 1..Lines /\ s.c \in Colours BY <1>1
    <3>4. t \in Consoles /\ t.sht = s.sht /\ t.x = 1 /\ t.y = s.y /\ t.c = s.c /\ t.shown = pic
      BY <2>2, <3>1, <3>2, <3>3, RecordFields
    <3> QED BY <1>3, <3>4 DEF Same
  <2>6. Empty(t, 1)
    <3>1. Lines \in 1..Lines /\ ~(Lines < Lines) BY <1>0
    <3>2. t.shown[t.y] = BlankLine BY <2>2, <2>5, <3>1
    <3>3. ~(\E l \in 1..Lines : l > t.y) BY <1>0, <2>5
    <3> QED BY <3>2, <3>3, BlankRow DEF Empty
  <2>7. ASSUME NEW l \in 1..Lines, NEW k \in 1..Cols PROVE t.shown[l][k] # "cursor"
    <3>1. CASE l < Lines
      <4>1. l + 1 \in 1..Lines /\ t.shown[l] = s.shown[l + 1] BY <1>0, <2>2, <2>5, <3>1
      <4> QED BY <4>1 DEF NoCursor
    <3>2. CASE ~(l < Lines) BY <2>2, <2>5, <3>2, BlankRow
    <3> QED BY <3>1, <3>2
  <2> QED BY <2>4, <2>5, <2>6, <2>7 DEF Tidy, NoCursor
<1>4. CASE s.y = Lines /\ ~s.sht
  <2>1. cons_newline(s) = [s EXCEPT !.x = 1] BY <1>0, <1>4 DEF cons_newline, Scrolled
  <2>2. PICK t : t = cons_newline(s) OBVIOUS
  <2>3. t \in Consoles /\ t.x = 1 /\ t.shown = s.shown /\ Same(s, t)
    <3>1. t = Record(s.sht, 1, s.y, s.c, s.shown) BY <2>1, <2>2, ConsoleExcept
    <3>2. 1 \in 1..Cols BY <1>0
    <3> QED BY <1>1, <3>1, <3>2, RecordFields DEF Same
  <2> QED BY <1>4, <2>2, <2>3 DEF Tidy, Empty, NoCursor, Same
<1> QED BY <1>0, <1>1, <1>2, <1>3, <1>4

LEMMA AdvanceTidy ==
  ASSUME NEW s \in Consoles, Empty(s, s.x + 1), NoCursor(s)
  PROVE  Tidy(Advance(s)) /\ Same(s, Advance(s))
<1>0. Cols \in Nat /\ Cols >= 3 /\ s.x \in 1..Cols BY PromptAssumption DEF Consoles
<1>1. CASE s.x = Cols BY <1>1, NewlineTidy DEF Advance
<1>2. CASE s.x # Cols
  <2>1. PICK t : t = [s EXCEPT !.x = s.x + 1] OBVIOUS
  <2>2. t = Advance(s) BY <1>2, <2>1 DEF Advance
  <2>3. t \in Consoles /\ t.x = s.x + 1 /\ t.y = s.y /\ t.shown = s.shown /\ Same(s, t)
    BY <1>0, <1>2, <2>1 DEF Consoles, Same
  <2> QED BY <2>2, <2>3 DEF Tidy, Empty, NoCursor, Same
<1> QED BY <1>1, <1>2

\* Nothing is painted but where the cursor is.
LEMMA PaintEmpty ==
  ASSUME NEW s \in Consoles, Empty(s, s.x + 1), NEW cell \in Cells
  PROVE  Empty(Paint(s, cell), s.x + 1)
<1>1. Cols \in Nat /\ Lines \in Nat /\ s.x \in 1..Cols /\ s.y \in 1..Lines
  BY PromptAssumption DEF Consoles
<1>2. PICK t : t = Paint(s, cell) OBVIOUS
<1>3. /\ t.sht = s.sht /\ t.x = s.x /\ t.y = s.y
      /\ \A l \in 1..Lines, k \in 1..Cols :
           t.shown[l][k] = IF s.sht /\ l = s.y /\ k = s.x THEN cell ELSE s.shown[l][k]
      /\ \A l \in 1..Lines : l # s.y => t.shown[l] = s.shown[l]
  BY <1>2, PaintResult DEF Same
<1>4. Empty(t, s.x + 1)
  <2>1. ASSUME s.sht, NEW k \in 1..Cols, k >= s.x + 1 PROVE t.shown[t.y][k] = "space"
    <3>1. k # s.x BY <1>1, <2>1
    <3>2. s.shown[s.y][k] = "space" BY <2>1 DEF Empty
    <3> QED BY <1>1, <1>3, <3>1, <3>2
  <2>2. ASSUME s.sht, NEW l \in 1..Lines, l > t.y PROVE t.shown[l] = BlankLine
    <3>1. l > s.y /\ l # s.y BY <1>1, <1>3, <2>2
    <3>2. s.shown[l] = BlankLine BY <2>2, <3>1 DEF Empty
    <3> QED BY <1>3, <3>1, <3>2
  <2> QED BY <1>3, <2>1, <2>2 DEF Empty
<1> QED BY <1>2, <1>4

LEMMA PaintNoCursor ==
  ASSUME NEW s \in Consoles, NoCursor(s), NEW cell \in Printed
  PROVE  NoCursor(Paint(s, cell))
<1>1. cell \in Cells /\ cell # "cursor" BY PromptAssumption DEF Printed, Cells
<1> QED BY <1>1, PaintResult DEF NoCursor

LEMMA PutTidy ==
  ASSUME NEW s, Tidy(s), NEW cell \in Printed
  PROVE  Tidy(Advance(Paint(s, cell))) /\ Same(s, Advance(Paint(s, cell)))
<1>1. s \in Consoles /\ NoCursor(s) /\ cell \in Cells BY DEF Tidy, Printed, Cells
<1>2. Empty(s, s.x + 1)
  <2>1. Cols \in Nat /\ s.x \in 1..Cols BY <1>1, PromptAssumption, ConsoleFields
  <2>2. \A k \in 1..Cols : k >= s.x + 1 => k >= s.x BY <2>1
  <2> QED BY <2>2 DEF Tidy, Empty
<1>3. PICK t : t = Paint(s, cell) OBVIOUS
<1>4. t \in Consoles /\ t.x = s.x /\ Same(s, t) BY <1>1, <1>3, PaintResult
<1>5. Empty(t, t.x + 1) /\ NoCursor(t) BY <1>1, <1>2, <1>3, <1>4, PaintEmpty, PaintNoCursor
<1>6. Tidy(Advance(t)) /\ Same(t, Advance(t)) BY <1>4, <1>5, AdvanceTidy
<1> QED BY <1>3, <1>4, <1>6 DEF Same
\* A tab prints at least one space and at most four.
LEMMA TabStopRange == ASSUME NEW s \in Consoles PROVE TabStop(s) \in 1..4
<1> DEFINE Stops(n) == (s.x + n - 1) % 4 = 0 \/ s.x + n > Cols
           First(n) == Stops(n) /\ \A k \in 1..(n - 1) : /\ (s.x + k - 1) % 4 # 0
                                                         /\ s.x + k <= Cols
<1>1. Cols \in Nat /\ s.x \in Nat
  <2>1. s.x \in 1..Cols BY ConsoleFields
  <2> QED BY <2>1, Sizes
<1>2. Stops(1) \/ Stops(2) \/ Stops(3) \/ Stops(4)
  <2>1. s.x % 4 = 0 \/ (s.x + 1) % 4 = 0 \/ (s.x + 2) % 4 = 0 \/ (s.x + 3) % 4 = 0 BY <1>1
  <2> QED BY <1>1, <2>1
<1>3. \A k \in 1..4 : ~Stops(k) => (s.x + k - 1) % 4 # 0 /\ s.x + k <= Cols BY <1>1
<1>4. \E n \in 1..4 : First(n)
  <2>1. 1..0 = {} /\ 1..1 = {1} /\ 1..2 = {1, 2} /\ 1..3 = {1, 2, 3} OBVIOUS
  <2>2. /\ First(1) <=> Stops(1) /\ \A k \in {} : (s.x + k - 1) % 4 # 0 /\ s.x + k <= Cols
        /\ First(2) <=> Stops(2) /\ \A k \in {1} : (s.x + k - 1) % 4 # 0 /\ s.x + k <= Cols
        /\ First(3) <=> Stops(3) /\ \A k \in {1, 2} : (s.x + k - 1) % 4 # 0 /\ s.x + k <= Cols
        /\ First(4) <=> Stops(4) /\ \A k \in {1, 2, 3} : (s.x + k - 1) % 4 # 0 /\ s.x + k <= Cols
    BY <2>1
  <2> HIDE DEF Stops, First
  <2>3. CASE Stops(1) BY <2>2, <2>3
  <2>4. CASE ~Stops(1) /\ Stops(2) BY <1>3, <2>2, <2>4
  <2>5. CASE ~Stops(1) /\ ~Stops(2) /\ Stops(3) BY <1>3, <2>2, <2>5
  <2>6. CASE ~Stops(1) /\ ~Stops(2) /\ ~Stops(3) /\ Stops(4) BY <1>3, <2>2, <2>6
  <2> QED BY <1>2, <2>3, <2>4, <2>5, <2>6
<1>5. TabStop(s) = CHOOSE n \in 1..4 : First(n) BY DEF TabStop
<1> HIDE DEF First
<1> QED BY <1>4, <1>5

\* The spaces of a tab, one after the other
SpacesRun(s, n, g) == g = [i \in 0..n |-> IF i = 0 THEN s ELSE PutSpace(g[i - 1])]

LEMMA SpacesRunExists == ASSUME NEW s, NEW n \in Nat PROVE \E g : SpacesRun(s, n, g)
<1> DEFINE S == {m \in Nat : ~\E g : SpacesRun(s, m, g)}
<1> SUFFICES ASSUME S # {} PROVE FALSE OBVIOUS
<1>1. PICK m \in S : \A k \in S : m <= k BY LeastExists
<1>2. m # 0
  <2>1. SpacesRun(s, 0, [i \in 0..0 |-> s]) BY DEF SpacesRun
  <2> QED BY <2>1
<1>3. m - 1 \in Nat /\ m - 1 \notin S BY <1>1, <1>2
<1>4. PICK g : SpacesRun(s, m - 1, g) BY <1>3
<1>5. PICK h : h = [i \in 0..m |-> IF i = 0 THEN s ELSE PutSpace(g[i - 1])] OBVIOUS
<1>6. ASSUME NEW i \in 0..(m - 1) PROVE h[i] = g[i]
  <2>1. g[i] = IF i = 0 THEN s ELSE PutSpace(g[i - 1]) BY <1>4 DEF SpacesRun
  <2>2. i \in 0..m BY <1>3
  <2> QED BY <1>5, <2>1, <2>2
<1>7. ASSUME NEW i \in 0..m PROVE h[i] = IF i = 0 THEN s ELSE PutSpace(h[i - 1])
  <2>1. CASE i = 0 BY <1>5, <2>1
  <2>2. CASE i # 0
    <3>1. i - 1 \in 0..(m - 1) BY <1>3, <2>2
    <3> QED BY <1>5, <1>6, <2>2, <3>1
  <2> QED BY <2>1, <2>2
<1>8. SpacesRun(s, m, h)
  <2>1. h = [i \in 0..m |-> h[i]] BY <1>5
  <2> QED BY <1>7, <2>1 DEF SpacesRun
<1> QED BY <1>8

LEMMA SpacesTidy ==
  ASSUME NEW s, Tidy(s), NEW n \in Nat
  PROVE  Tidy(Spaces(s, n)) /\ Same(s, Spaces(s, n))
<1>1. PICK g : SpacesRun(s, n, g) /\ Spaces(s, n) = g[n]
  <2>1. Spaces(s, n) = (CHOOSE g : SpacesRun(s, n, g))[n] BY Zenon DEF Spaces, SpacesRun
  <2> QED BY <2>1, SpacesRunExists
<1> DEFINE Good(m) == Tidy(g[m]) /\ Same(s, g[m])
           S == {m \in 0..n : ~Good(m)}
<1>2. ASSUME S # {} PROVE FALSE
  <2>1. S \subseteq Nat OBVIOUS
  <2>2. PICK m \in S : \A k \in S : m <= k BY <1>2, <2>1, LeastExists
  <2>3. m # 0
    <3>1. g[0] = s BY <1>1 DEF SpacesRun
    <3> QED BY <3>1 DEF Same
  <2>4. m - 1 \in 0..n /\ m - 1 \notin S BY <2>2, <2>3
  <2>5. g[m] = PutSpace(g[m - 1]) BY <1>1, <2>2, <2>3 DEF SpacesRun
  <2>6. PICK t : t = g[m - 1] OBVIOUS
  <2>7. Tidy(t) /\ Same(s, t) BY <2>4, <2>6
  <2>8. Tidy(PutSpace(t)) /\ Same(t, PutSpace(t)) BY <2>7, PutTidy DEF PutSpace, Printed
  <2> QED BY <2>2, <2>5, <2>6, <2>7, <2>8 DEF Same
<1>3. n \in 0..n OBVIOUS
<1> QED BY <1>1, <1>2, <1>3

LEMMA PutcharTidy ==
  ASSUME NEW s, Tidy(s), NEW chr \in Printed \cup {"tab", "newline"}
  PROVE  Tidy(cons_putchar(s, chr)) /\ Same(s, cons_putchar(s, chr))
<1>1. CASE chr = "tab"
  <2>1. TabStop(s) \in Nat BY TabStopRange DEF Tidy
  <2> QED BY <1>1, <2>1, SpacesTidy DEF cons_putchar
<1>2. CASE chr = "newline"
  <2>1. s \in Consoles /\ NoCursor(s) /\ Empty(s, s.x) BY DEF Tidy
  <2>2. Empty(s, Cols + 1)
    <3>1. \A k \in 1..Cols : k >= Cols + 1 => FALSE BY Sizes
    <3> QED BY <2>1, <3>1 DEF Empty
  <2> QED BY <1>2, <2>1, <2>2, NewlineTidy DEF cons_putchar
<1>3. CASE chr \notin {"tab", "newline"}
  <2>1. cons_putchar(s, chr) = Advance(Paint(s, chr)) BY <1>3 DEF cons_putchar
  <2> QED BY <1>3, <2>1, PutTidy
<1> QED BY <1>1, <1>2, <1>3

TextRun(s, text, n, g) ==
  g = [i \in 0..n |-> IF i = 0 THEN s ELSE cons_putchar(g[i - 1], text[i])]

LEMMA TextRunExists == ASSUME NEW s, NEW text, NEW n \in Nat PROVE \E g : TextRun(s, text, n, g)
<1> DEFINE S == {m \in Nat : ~\E g : TextRun(s, text, m, g)}
<1> SUFFICES ASSUME S # {} PROVE FALSE OBVIOUS
<1>1. PICK m \in S : \A k \in S : m <= k BY LeastExists
<1>2. m # 0
  <2>1. TextRun(s, text, 0, [i \in 0..0 |-> s]) BY DEF TextRun
  <2> QED BY <2>1
<1>3. m - 1 \in Nat /\ m - 1 \notin S BY <1>1, <1>2
<1>4. PICK g : TextRun(s, text, m - 1, g) BY <1>3
<1>5. PICK h : h = [i \in 0..m |-> IF i = 0 THEN s ELSE cons_putchar(g[i - 1], text[i])] OBVIOUS
<1>6. ASSUME NEW i \in 0..(m - 1) PROVE h[i] = g[i]
  <2>1. g[i] = IF i = 0 THEN s ELSE cons_putchar(g[i - 1], text[i]) BY <1>4 DEF TextRun
  <2>2. i \in 0..m BY <1>3
  <2> QED BY <1>5, <2>1, <2>2
<1>7. ASSUME NEW i \in 0..m PROVE h[i] = IF i = 0 THEN s ELSE cons_putchar(h[i - 1], text[i])
  <2>1. CASE i = 0 BY <1>5, <2>1
  <2>2. CASE i # 0
    <3>1. i - 1 \in 0..(m - 1) BY <1>3, <2>2
    <3> QED BY <1>5, <1>6, <2>2, <3>1
  <2> QED BY <2>1, <2>2
<1>8. TextRun(s, text, m, h)
  <2>1. h = [i \in 0..m |-> h[i]] BY <1>5
  <2> QED BY <1>7, <2>1 DEF TextRun
<1> QED BY <1>8

\* What is printed
Written == Seq(Printed \cup {"tab", "newline"})

\* Whatever is printed, the window stays tidy.
LEMMA TextTidy ==
  ASSUME NEW s, Tidy(s), NEW text \in Written
  PROVE  Tidy(cons_putstr0(s, text)) /\ Same(s, cons_putstr0(s, text))
<1>0. PICK n \in Nat : n = Len(text) BY DEF Written
<1>1. PICK g : TextRun(s, text, n, g) /\ cons_putstr0(s, text) = g[n]
  <2>1. cons_putstr0(s, text) = (CHOOSE g : TextRun(s, text, Len(text), g))[Len(text)]
    BY Zenon DEF cons_putstr0, TextRun
  <2> QED BY <1>0, <2>1, TextRunExists
<1> DEFINE Good(m) == Tidy(g[m]) /\ Same(s, g[m])
           S == {m \in 0..n : ~Good(m)}
<1>2. ASSUME S # {} PROVE FALSE
  <2>1. S \subseteq Nat OBVIOUS
  <2>2. PICK m \in S : \A k \in S : m <= k BY <1>2, <2>1, LeastExists
  <2>3. m # 0
    <3>1. g[0] = s BY <1>1 DEF TextRun
    <3> QED BY <3>1 DEF Same
  <2>4. m - 1 \in 0..n /\ m - 1 \notin S /\ m \in 1..Len(text) BY <1>0, <2>2, <2>3
  <2>5. g[m] = cons_putchar(g[m - 1], text[m]) BY <1>1, <2>2, <2>3 DEF TextRun
  <2>6. PICK t : t = g[m - 1] OBVIOUS
  <2>7. Tidy(t) /\ Same(s, t) BY <2>4, <2>6
  <2>8. text[m] \in Printed \cup {"tab", "newline"} BY <2>4 DEF Written
  <2>9. Tidy(cons_putchar(t, text[m])) /\ Same(t, cons_putchar(t, text[m]))
    BY <2>7, <2>8, PutcharTidy
  <2> QED BY <2>2, <2>5, <2>6, <2>7, <2>9 DEF Same
<1>3. n \in 0..n OBVIOUS
<1> QED BY <1>1, <1>2, <1>3
-----------------------------------------------------------------------------
(* The line between two messages *)

\* Columns below x show cmdline, behind the prompt.
LineHas(s, line) ==
  s.sht => /\ s.shown[s.y][1] = "mark"
           /\ \A k \in 1..Cols : 2 <= k /\ k < s.x => s.shown[s.y][k] = line[k - 2]

CursorCell(c) == IF c = "white" THEN "cursor" ELSE "space"

\* The cursor is where the next character goes, or nowhere.
CursorOnlyHere(s) ==
  \A l \in 1..Lines, k \in 1..Cols : s.shown[l][k] = "cursor" => s.sht /\ l = s.y /\ k = s.x

\* The line, but for the column of the cursor
Ready(s, line) ==
  /\ s \in Consoles /\ s.x >= 2
  /\ LineHas(s, line) /\ Empty(s, s.x + 1) /\ CursorOnlyHere(s)

\* All of it
Shows(s, line) ==
  /\ Ready(s, line)
  /\ s.sht => s.shown[s.y][s.x] = CursorCell(s.c)

Lines0 == [0..(Cols - 1) -> Chars \cup {"junk", "0"}]

LEMMA CellNames ==
  /\ "space" \in Cells /\ "cursor" \in Cells /\ "mark" \in Cells /\ "space" \in Printed /\ "mark" \in Printed
  /\ Chars \subseteq Cells /\ Chars \subseteq Printed
  /\ \A chr \in Chars : chr \notin {"space", "cursor", "mark", "tab", "newline"}
BY PromptAssumption DEF Cells, Printed

\* Painting the cursor, or a space, leaves the rest of the line.
LEMMA PaintReady ==
  ASSUME NEW s, NEW line, Ready(s, line), NEW cell \in {"space", "cursor"}
  PROVE  /\ Ready(Paint(s, cell), line) /\ Same(s, Paint(s, cell))
         /\ Paint(s, cell).x = s.x /\ Paint(s, cell).y = s.y
         /\ s.sht => Paint(s, cell).shown[s.y][s.x] = cell
<1>0. s \in Consoles /\ cell \in Cells BY CellNames DEF Ready
<1>1. Cols \in Nat /\ s.x \in 1..Cols /\ s.y \in 1..Lines /\ s.x >= 2
  BY <1>0, ConsoleFields, Sizes DEF Ready
<1>2. PICK t : t = Paint(s, cell) OBVIOUS
<1>3. /\ t \in Consoles /\ t.sht = s.sht /\ t.c = s.c /\ t.x = s.x /\ t.y = s.y
      /\ \A l \in 1..Lines, k \in 1..Cols :
           t.shown[l][k] = IF s.sht /\ l = s.y /\ k = s.x THEN cell ELSE s.shown[l][k]
  BY <1>0, <1>2, PaintResult DEF Same
<1>4. Empty(t, t.x + 1) BY <1>0, <1>2, <1>3, PaintEmpty DEF Ready
<1>5. LineHas(t, line)
  <2>1. ASSUME s.sht, NEW k \in 1..Cols, k < s.x PROVE t.shown[t.y][k] = s.shown[s.y][k]
    <3>1. k # s.x BY <1>1, <2>1
    <3> QED BY <1>1, <1>3, <3>1
  <2>2. 1 \in 1..Cols /\ 1 < s.x BY <1>1
  <2> QED BY <1>3, <2>1, <2>2 DEF LineHas, Ready
<1>6. CursorOnlyHere(t)
  <2> SUFFICES ASSUME NEW l \in 1..Lines, NEW k \in 1..Cols, t.shown[l][k] = "cursor"
               PROVE  t.sht /\ l = t.y /\ k = t.x
    BY DEF CursorOnlyHere
  <2>1. CASE s.sht /\ l = s.y /\ k = s.x BY <1>3, <2>1
  <2>2. CASE ~(s.sht /\ l = s.y /\ k = s.x) BY <1>3, <2>2 DEF Ready, CursorOnlyHere
  <2> QED BY <2>1, <2>2
<1> QED BY <1>1, <1>2, <1>3, <1>4, <1>5, <1>6 DEF Ready, Same

\* "show the cursor again": a line that is ready shows what it should, if the
\* column of the cursor is empty or the cursor is on.
LEMMA DrawCursorShows ==
  ASSUME NEW s, NEW line, Ready(s, line), s.c = "off" /\ s.sht => s.shown[s.y][s.x] = "space"
  PROVE  Shows(DrawCursor(s), line) /\ Same(s, DrawCursor(s))
<1>1. s \in Consoles /\ s.c \in Colours BY ConsoleFields DEF Ready
<1>2. CASE s.c = "off" BY <1>2 DEF DrawCursor, Shows, CursorCell, Same
<1>3. CASE s.c # "off"
  <2>1. PICK cell \in {"space", "cursor"} : cell = CursorCell(s.c) BY DEF CursorCell
  <2>2. DrawCursor(s) = Paint(s, cell) BY <1>3, <2>1 DEF DrawCursor, CursorCell
  <2>3. PICK t : t = Paint(s, cell) OBVIOUS
  <2>4. Ready(t, line) /\ Same(s, t) /\ t.x = s.x /\ t.y = s.y /\ (s.sht => t.shown[s.y][s.x] = cell)
    BY <2>3, PaintReady
  <2>5. t.sht => t.shown[t.y][t.x] = CursorCell(t.c) BY <2>1, <2>4 DEF Same
  <2> QED BY <2>2, <2>3, <2>4, <2>5 DEF Shows
<1> QED BY <1>2, <1>3

LEMMA ColourChanged ==
  ASSUME NEW s, NEW line, Ready(s, line), NEW c \in Colours
  PROVE  LET t == [s EXCEPT !.c = c]
         IN  /\ Ready(t, line) /\ t.sht = s.sht /\ t.c = c
             /\ t.x = s.x /\ t.y = s.y /\ t.shown = s.shown
<1>1. s \in Consoles BY DEF Ready
<1>2. PICK t : t = [s EXCEPT !.c = c] OBVIOUS
<1>3. /\ t \in Consoles /\ t.sht = s.sht /\ t.c = c
      /\ t.x = s.x /\ t.y = s.y /\ t.shown = s.shown
  <2>1. t = Record(s.sht, s.x, s.y, c, s.shown) BY <1>1, <1>2, ConsoleExcept
  <2> QED BY <1>1, <2>1, ConsoleFields, RecordFields
<1> QED BY <1>2, <1>3 DEF Ready, LineHas, Empty, CursorOnlyHere

\* At the beginning of a line the prompt makes it ready, with nothing typed yet.
LEMMA PromptShows ==
  ASSUME NEW s, Tidy(s), s.x = 1, NEW line
  PROVE  Shows(NewPrompt(s), line) /\ Same(s, NewPrompt(s))
<1>0. s \in Consoles /\ s.y \in 1..Lines /\ 1 \in 1..Cols /\ "mark" \in Cells
  BY Sizes, ConsoleFields, CellNames DEF Tidy
<1>1. PICK p : p = Paint(s, "mark") OBVIOUS
<1>2. /\ p \in Consoles /\ p.sht = s.sht /\ p.c = s.c /\ p.x = 1 /\ p.y = s.y
      /\ s.sht => p.shown[s.y][1] = "mark"
  BY <1>0, <1>1, PaintResult DEF Same
<1>3. cons_putchar(s, "mark") = Advance(p) BY <1>1 DEF cons_putchar
<1>4. Tidy(Advance(p)) BY <1>1, PutTidy, CellNames
<1>5. PICK t : t = Advance(p) OBVIOUS
<1>6. t = [p EXCEPT !.x = 2] BY <1>2, <1>5, Sizes DEF Advance
<1>7. t.sht = s.sht /\ t.c = s.c /\ t.x = 2 /\ t.y = s.y /\ t.shown = p.shown
  <2>1. 2 \in 1..Cols BY Sizes
  <2> QED BY <1>2, <1>6, <2>1, ConsoleExcept, ConsoleFields, RecordFields
<1>8. t \in Consoles /\ Empty(t, 2) /\ NoCursor(t) BY <1>4, <1>5, <1>7 DEF Tidy
<1>9. Empty(t, 3) BY <1>8, Sizes DEF Empty
<1>10. LineHas(t, line)
  <2>1. \A k \in 1..Cols : ~(2 <= k /\ k < 2) BY Sizes
  <2> QED BY <1>2, <1>7, <2>1 DEF LineHas
<1>11. Ready(t, line) BY <1>7, <1>8, <1>9, <1>10 DEF Ready, CursorOnlyHere, NoCursor
<1>12. t.sht => t.shown[t.y][t.x] = "space"
  <2>1. 2 \in 1..Cols /\ 2 >= 2 BY Sizes
  <2> QED BY <1>7, <1>8, <2>1 DEF Empty
<1>13. NewPrompt(s) = DrawCursor(t) BY <1>3, <1>5 DEF NewPrompt
<1> QED BY <1>7, <1>11, <1>12, <1>13, DrawCursorShows DEF Same
\* A backspace takes back one character of the line, but not the prompt, if the
\* cursor is on.
LEMMA BackShows ==
  ASSUME NEW s, NEW line, Shows(s, line), s.sht => s.c # "off"
  PROVE  Shows(DrawCursor(BackOne(s)), line) /\ Same(s, DrawCursor(BackOne(s)))
<1>0. Ready(s, line) /\ s \in Consoles BY DEF Shows, Ready
<1>1. CASE ~(s.x > 2) BY <1>0, <1>1, DrawCursorShows DEF BackOne
<1>2. CASE s.x > 2
  <2>1. PICK p : p = Paint(s, "space") OBVIOUS
  <2>2. /\ Ready(p, line) /\ p.sht = s.sht /\ p.c = s.c /\ p.x = s.x /\ p.y = s.y
        /\ s.sht => p.shown[s.y][s.x] = "space"
    BY <1>0, <2>1, PaintReady DEF Same
  <2>3. PICK t : t = [p EXCEPT !.x = p.x - 1] OBVIOUS
  <2>4. t = BackOne(s) BY <1>2, <2>1, <2>3 DEF BackOne
  <2>5. p \in Consoles /\ p.x \in 1..Cols /\ p.y \in 1..Lines BY <2>2, ConsoleFields DEF Ready
  <2>6. /\ t \in Consoles /\ t.sht = p.sht /\ t.c = p.c /\ t.x = p.x - 1 /\ t.y = p.y
        /\ t.shown = p.shown
    <3>1. p.x - 1 \in 1..Cols BY <1>2, <2>2, <2>5, Sizes
    <3>2. t = Record(p.sht, p.x - 1, p.y, p.c, p.shown) BY <2>3, <2>5, ConsoleExcept
    <3> QED BY <2>5, <3>1, <3>2, ConsoleFields, RecordFields
  <2>7. Empty(t, p.x)
    <3>1. ASSUME p.sht, NEW k \in 1..Cols, k >= p.x PROVE p.shown[p.y][k] = "space"
      <4>1. k = p.x \/ k >= p.x + 1 BY <2>5, <3>1, Sizes
      <4> QED BY <2>2, <3>1, <4>1 DEF Ready, Empty
    <3> QED BY <2>2, <2>6, <3>1 DEF Ready, Empty
  <2>8. Empty(t, t.x + 1)
    <3>1. t.x + 1 = p.x BY <2>5, <2>6, Sizes
    <3> QED BY <2>7, <3>1
  <2>9. LineHas(t, line)
    <3>1. \A k \in 1..Cols : k < t.x => k < p.x BY <2>5, <2>6, Sizes
    <3> QED BY <2>2, <2>6, <3>1 DEF Ready, LineHas
  <2>10. CursorOnlyHere(t) BY <2>2, <2>6 DEF Ready, CursorOnlyHere
  <2>11. t.x >= 2 BY <1>2, <2>2, <2>5, <2>6, Sizes
  <2>12. Ready(t, line) BY <2>6, <2>8, <2>9, <2>10, <2>11 DEF Ready
  <2> QED BY <2>2, <2>4, <2>6, <2>12, DrawCursorShows DEF Same
<1> QED BY <1>1, <1>2

\* A character goes into the line and into cmdline, at the same place.
LEMMA CharacterShows ==
  ASSUME NEW s, NEW line \in Lines0, Shows(s, line), s.x < Cols, NEW chr \in Chars
  PROVE  /\ Shows(DrawCursor(cons_putchar(s, chr)), [line EXCEPT ![s.x - 2] = chr])
         /\ Same(s, DrawCursor(cons_putchar(s, chr)))
<1>0. s \in Consoles /\ Ready(s, line) /\ chr \in Cells /\ s.x \in 1..Cols /\ s.x >= 2
      /\ s.y \in 1..Lines /\ Cols \in Nat
  BY ConsoleFields, CellNames, Sizes DEF Shows, Ready
<1>1. PICK p : p = Paint(s, chr) OBVIOUS
<1>2. /\ p \in Consoles /\ p.sht = s.sht /\ p.c = s.c /\ p.x = s.x /\ p.y = s.y
      /\ \A l \in 1..Lines, k \in 1..Cols :
           p.shown[l][k] = IF s.sht /\ l = s.y /\ k = s.x THEN chr ELSE s.shown[l][k]
  BY <1>0, <1>1, PaintResult DEF Same
<1>3. Empty(p, s.x + 1) BY <1>0, <1>1, PaintEmpty DEF Ready
<1>4. cons_putchar(s, chr) = Advance(p) BY <1>1, CellNames DEF cons_putchar
<1>5. PICK t : t = Advance(p) OBVIOUS
<1>6. t = [p EXCEPT !.x = p.x + 1] BY <1>0, <1>2, <1>5 DEF Advance
<1>7. /\ t \in Consoles /\ t.sht = s.sht /\ t.c = s.c /\ t.x = s.x + 1 /\ t.y = s.y
      /\ t.shown = p.shown
  <2>1. s.x + 1 \in 1..Cols BY <1>0
  <2>2. t = Record(p.sht, p.x + 1, p.y, p.c, p.shown) BY <1>2, <1>6, ConsoleExcept
  <2> QED BY <1>2, <2>1, <2>2, ConsoleFields, RecordFields
<1>8. PICK after : after = [line EXCEPT ![s.x - 2] = chr] OBVIOUS
<1>9. after[s.x - 2] = chr /\ \A k \in 1..Cols : 2 <= k /\ k < s.x => after[k - 2] = line[k - 2]
  <2>1. s.x - 2 \in 0..(Cols - 1) /\ \A k \in 1..Cols : 2 <= k => k - 2 \in 0..(Cols - 1) BY <1>0
  <2>2. \A k \in 1..Cols : k < s.x => k - 2 # s.x - 2 BY <1>0
  <2> QED BY <1>8, <2>1, <2>2 DEF Lines0
<1>10. LineHas(t, after)
  <2>1. ASSUME s.sht PROVE t.shown[t.y][1] = "mark"
    <3>1. 1 \in 1..Cols /\ 1 # s.x BY <1>0
    <3> QED BY <1>0, <1>2, <1>7, <2>1, <3>1 DEF Ready, LineHas
  <2>2. ASSUME s.sht, NEW k \in 1..Cols, 2 <= k, k < t.x PROVE t.shown[t.y][k] = after[k - 2]
    <3>1. CASE k = s.x BY <1>0, <1>2, <1>7, <1>9, <2>2, <3>1
    <3>2. CASE k # s.x
      <4>1. k < s.x BY <1>0, <1>7, <2>2, <3>2
      <4>2. s.shown[s.y][k] = line[k - 2] BY <1>0, <2>2, <4>1 DEF Ready, LineHas
      <4> QED BY <1>0, <1>2, <1>7, <1>9, <2>2, <3>2, <4>1, <4>2
    <3> QED BY <3>1, <3>2
  <2> QED BY <1>7, <2>1, <2>2 DEF LineHas
<1>11. Empty(t, t.x)
  BY <1>2, <1>3, <1>7 DEF Empty
<1>12. Empty(t, t.x + 1)
  <2>1. \A k \in 1..Cols : k >= t.x + 1 => k >= t.x BY <1>0, <1>7
  <2> QED BY <1>11, <2>1 DEF Empty
<1>13. CursorOnlyHere(t)
  <2> SUFFICES ASSUME NEW l \in 1..Lines, NEW k \in 1..Cols, t.shown[l][k] = "cursor"
               PROVE  FALSE
    BY DEF CursorOnlyHere
  <2>1. CASE s.sht /\ l = s.y /\ k = s.x BY <1>2, <1>7, <2>1, CellNames
  <2>2. CASE ~(s.sht /\ l = s.y /\ k = s.x) BY <1>0, <1>2, <1>7, <2>2 DEF Ready, CursorOnlyHere
  <2> QED BY <2>1, <2>2
<1>14. t.x >= 2 BY <1>0, <1>7
<1>15. Ready(t, after) BY <1>7, <1>10, <1>12, <1>13, <1>14 DEF Ready
<1>16. t.sht => t.shown[t.y][t.x] = "space"
  <2>1. t.x \in 1..Cols /\ t.x >= t.x BY <1>0, <1>7
  <2> QED BY <1>11, <2>1 DEF Empty
<1>17. Shows(DrawCursor(t), after) /\ Same(t, DrawCursor(t)) BY <1>15, <1>16, DrawCursorShows
<1> QED BY <1>4, <1>5, <1>7, <1>8, <1>17 DEF Same

\* The line that has been entered keeps no cursor.
LEMMA EndLineTidy ==
  ASSUME NEW s, NEW line, Shows(s, line)
  PROVE  Tidy(EndLine(s)) /\ EndLine(s).x = 1 /\ Same(s, EndLine(s))
<1>1. PICK p : p = Paint(s, "space") OBVIOUS
<1>2. /\ Ready(p, line) /\ p.sht = s.sht /\ p.c = s.c /\ p.x = s.x /\ p.y = s.y
      /\ s.sht => p.shown[s.y][s.x] = "space"
  BY <1>1, PaintReady DEF Shows, Same
<1>3. p \in Consoles /\ Cols \in Nat /\ p.x \in 1..Cols BY <1>2, ConsoleFields, Sizes DEF Ready
<1>4. NoCursor(p) BY <1>2 DEF Ready, CursorOnlyHere, NoCursor
<1>5. Empty(p, Cols + 1)
  <2>1. \A k \in 1..Cols : ~(k >= Cols + 1) BY <1>3
  <2> QED BY <1>2, <2>1 DEF Ready, Empty
<1>6. EndLine(s) = cons_newline(p) BY <1>1 DEF EndLine
<1> QED BY <1>2, <1>3, <1>4, <1>5, <1>6, NewlineTidy DEF Same

LEMMA ClsTidy ==
  ASSUME NEW s, Tidy(s), s.x = 1
  PROVE  Tidy(cmd_cls(s)) /\ cmd_cls(s).x = 1 /\ Same(s, cmd_cls(s))
<1>0. s \in Consoles /\ 1 \in 1..Lines /\ 1 \in 1..Cols BY Sizes DEF Tidy
<1>1. PICK pic : pic = [l \in 1..Lines |-> BlankLine] OBVIOUS
<1>2. pic \in [1..Lines -> Rows] BY <1>1, BlankRow
<1>3. PICK u : u = [s EXCEPT !.shown = pic] OBVIOUS
<1>4. u \in Consoles /\ u.sht = s.sht /\ u.x = 1 /\ u.c = s.c /\ u.shown = pic
  <2>1. u = Record(s.sht, s.x, s.y, s.c, pic) BY <1>0, <1>3, ConsoleExcept
  <2> QED BY <1>0, <1>2, <2>1, ConsoleFields, RecordFields
<1>5. PICK t : t = [u EXCEPT !.y = 1] OBVIOUS
<1>6. t \in Consoles /\ t.sht = s.sht /\ t.x = 1 /\ t.y = 1 /\ t.c = s.c /\ t.shown = pic
  <2>1. t = Record(u.sht, u.x, 1, u.c, u.shown) BY <1>4, <1>5, ConsoleExcept
  <2> QED BY <1>0, <1>4, <2>1, ConsoleFields, RecordFields
<1>7. t = cmd_cls(s) BY <1>1, <1>3, <1>5 DEF cmd_cls
<1>8. Tidy(t) BY <1>0, <1>1, <1>6, BlankRow DEF Tidy, Empty, NoCursor
<1> QED BY <1>6, <1>7, <1>8 DEF Same
-----------------------------------------------------------------------------
(* The messages *)

Switches == {"on", "off"}
Blinking == {"0", "1"}

\* Whether the cursor is on after a datum
SwitchedBy(on, d) == IF d \in Switches THEN d ELSE on

\* The data of q lead from the cursor's state a to the state b, and a backspace
\* is only met where the cursor is on.
Switching(q, a, b) ==
  \E f \in [0..Len(q) -> Switches] :
    /\ f[0] = a /\ f[Len(q)] = b
    /\ \A i \in 1..Len(q) : /\ f[i] = SwitchedBy(f[i - 1], q[i])
                            /\ q[i] = "back" => f[i - 1] = "on"

LEMMA SwitchingAppend ==
  ASSUME NEW q \in Seq(Data), NEW a, NEW b, Switching(q, a, b), NEW d \in Data,
         d = "back" => b = "on"
  PROVE  Switching(Append(q, d), a, SwitchedBy(b, d))
<1>1. PICK f \in [0..Len(q) -> Switches] :
        /\ f[0] = a /\ f[Len(q)] = b
        /\ \A i \in 1..Len(q) : /\ f[i] = SwitchedBy(f[i - 1], q[i])
                                /\ q[i] = "back" => f[i - 1] = "on"
  BY DEF Switching
<1>2. PICK n \in Nat : n = Len(q) OBVIOUS
<1>3. PICK r : r = Append(q, d) OBVIOUS
<1>4. Len(r) = n + 1 /\ r[n + 1] = d /\ \A i \in 1..n : r[i] = q[i] BY <1>2, <1>3
<1>5. PICK g : g = [i \in 0..(n + 1) |-> IF i = n + 1 THEN SwitchedBy(b, d) ELSE f[i]] OBVIOUS
<1>6. \A i \in 0..n : g[i] = f[i] BY <1>5
<1>7. g[n + 1] = SwitchedBy(b, d) BY <1>5
<1>8. g \in [0..(n + 1) -> Switches]
  <2>1. SwitchedBy(b, d) \in Switches
    <3>1. b \in Switches BY <1>1, <1>2
    <3> QED BY <3>1 DEF SwitchedBy
  <2>2. \A i \in 0..n : f[i] \in Switches BY <1>2
  <2>3. \A i \in 0..(n + 1) : i # n + 1 => i \in 0..n OBVIOUS
  <2> QED BY <1>5, <2>1, <2>2, <2>3
<1>9. ASSUME NEW i \in 1..(n + 1)
      PROVE  /\ g[i] = SwitchedBy(g[i - 1], r[i])
             /\ r[i] = "back" => g[i - 1] = "on"
  <2>1. CASE i = n + 1
    <3>1. g[i - 1] = b BY <1>1, <1>2, <1>6, <2>1
    <3> QED BY <1>4, <1>7, <2>1, <3>1
  <2>2. CASE i # n + 1
    <3>1. i \in 1..n /\ i - 1 \in 0..n /\ i \in 0..n BY <2>2
    <3> QED BY <1>1, <1>2, <1>4, <1>6, <3>1
  <2> QED BY <2>1, <2>2
<1>10. g[0] = a BY <1>1, <1>6
<1> QED BY <1>3, <1>4, <1>7, <1>8, <1>9, <1>10 DEF Switching

LEMMA SwitchingTake ==
  ASSUME NEW q \in Seq(Data), q # <<>>, NEW a, NEW b, Switching(q, a, b)
  PROVE  /\ Switching(Tail(q), SwitchedBy(a, Head(q)), b)
         /\ Head(q) = "back" => a = "on"
<1>1. PICK f \in [0..Len(q) -> Switches] :
        /\ f[0] = a /\ f[Len(q)] = b
        /\ \A i \in 1..Len(q) : /\ f[i] = SwitchedBy(f[i - 1], q[i])
                                /\ q[i] = "back" => f[i - 1] = "on"
  BY DEF Switching
<1>2. PICK n \in Nat : Len(q) = n + 1
  <2>1. Len(q) \in Nat /\ Len(q) # 0 BY EmptySeq
  <2> QED BY <2>1
<1>3. PICK r : r = Tail(q) OBVIOUS
<1>4. Len(r) = n /\ \A i \in 1..n : r[i] = q[i + 1] BY <1>2, <1>3
<1>5. Head(q) = q[1] OBVIOUS
<1>6. PICK g : g = [i \in 0..n |-> f[i + 1]] OBVIOUS
<1>7. g \in [0..n -> Switches]
  <2>1. \A i \in 0..n : i + 1 \in 0..Len(q) BY <1>2
  <2> QED BY <1>6, <2>1
<1>8. 1 \in 1..Len(q) /\ f[1] = SwitchedBy(a, q[1]) /\ (q[1] = "back" => a = "on")
  <2>1. 1 \in 1..Len(q) /\ 1 - 1 = 0 BY <1>2
  <2> QED BY <1>1, <2>1
<1>9. g[0] = SwitchedBy(a, q[1]) /\ g[n] = b
  <2>1. 0 \in 0..n /\ n \in 0..n /\ 0 + 1 = 1 OBVIOUS
  <2> QED BY <1>1, <1>2, <1>6, <1>8, <2>1
<1>10. ASSUME NEW i \in 1..n
       PROVE  /\ g[i] = SwitchedBy(g[i - 1], r[i])
              /\ r[i] = "back" => g[i - 1] = "on"
  <2>1. i + 1 \in 1..Len(q) /\ i \in 0..n /\ i - 1 \in 0..n /\ (i + 1) - 1 = i /\ (i - 1) + 1 = i
    BY <1>2
  <2>2. f[i + 1] = SwitchedBy(f[i], q[i + 1]) /\ (q[i + 1] = "back" => f[i] = "on") BY <1>1, <2>1
  <2>3. g[i] = f[i + 1] /\ g[i - 1] = f[i] BY <1>6, <2>1
  <2> QED BY <1>4, <2>2, <2>3
<1> QED BY <1>3, <1>4, <1>5, <1>7, <1>8, <1>9, <1>10 DEF Switching

\* Without a datum that switches it, the cursor stays on or off.
LEMMA SwitchingStays ==
  ASSUME NEW q \in Seq(Data), NEW a, NEW b, Switching(q, a, b),
         \A i \in DOMAIN q : q[i] \notin Switches
  PROVE  a = b
<1>1. PICK f \in [0..Len(q) -> Switches] :
        /\ f[0] = a /\ f[Len(q)] = b
        /\ \A i \in 1..Len(q) : f[i] = SwitchedBy(f[i - 1], q[i])
  BY DEF Switching
<1>2. PICK n \in Nat : n = Len(q) OBVIOUS
<1> DEFINE S == {m \in 0..n : f[m] # a}
<1>3. ASSUME S # {} PROVE FALSE
  <2>1. S \subseteq Nat OBVIOUS
  <2>2. PICK m \in S : \A k \in S : m <= k BY <1>3, <2>1, LeastExists
  <2>3. m # 0 /\ m \in 0..n /\ f[m] # a BY <1>1, <2>2
  <2>4. m \in 1..n /\ m - 1 \in 0..n /\ m - 1 \notin S BY <2>2, <2>3
  <2>5. f[m - 1] = a BY <2>4
  <2>6. f[m] = f[m - 1] BY <1>1, <1>2, <2>4 DEF SwitchedBy
  <2> QED BY <2>3, <2>5, <2>6
<1> QED BY <1>1, <1>2, <1>3

\* The places of the cursor's timer's messages
BlinksIn(q) == {i \in DOMAIN q : q[i] \in Blinking}

\* The timer runs, or its message waits.
BlinkOnce(q, t) == IF t = "idle" THEN \E i \in DOMAIN q : BlinksIn(q) = {i} ELSE BlinksIn(q) = {}

LEMMA BlinksAppend ==
  ASSUME NEW q \in Seq(Data), NEW d \in Data
  PROVE  BlinksIn(Append(q, d)) = IF d \in Blinking THEN BlinksIn(q) \cup {Len(q) + 1}
                                  ELSE BlinksIn(q)
<1>1. PICK n \in Nat : n = Len(q) OBVIOUS
<1>2. PICK r : r = Append(q, d) OBVIOUS
<1>3. DOMAIN r = 1..(n + 1) /\ DOMAIN q = 1..n /\ r[n + 1] = d /\ \A i \in 1..n : r[i] = q[i]
  BY <1>1, <1>2
<1>4. \A i : i \in 1..(n + 1) <=> i \in 1..n \/ i = n + 1 OBVIOUS
<1>5. ~(n + 1 \in 1..n) OBVIOUS
<1>6. \A i : i \in BlinksIn(r) <=> i \in BlinksIn(q) \/ (i = n + 1 /\ d \in Blinking)
  BY <1>3, <1>4, <1>5 DEF BlinksIn
<1> QED BY <1>1, <1>2, <1>6

LEMMA BlinksTake ==
  ASSUME NEW q \in Seq(Data), q # <<>>
  PROVE  /\ DOMAIN Tail(q) \subseteq Nat /\ 1 \in DOMAIN q
         /\ \A i \in Nat : i \in DOMAIN Tail(q) <=> i # 0 /\ i + 1 \in DOMAIN q
         /\ \A i \in Nat : i \in BlinksIn(Tail(q)) <=> i # 0 /\ i + 1 \in BlinksIn(q)
         /\ 1 \in BlinksIn(q) <=> Head(q) \in Blinking
<1>1. PICK n \in Nat : Len(q) = n + 1
  <2>1. Len(q) \in Nat /\ Len(q) # 0 BY EmptySeq
  <2> QED BY <2>1
<1>2. PICK r : r = Tail(q) OBVIOUS
<1>3. DOMAIN r = 1..n /\ DOMAIN q = 1..(n + 1) /\ (\A i \in 1..n : r[i] = q[i + 1]) /\ Head(q) = q[1]
  BY <1>1, <1>2
<1>4. \A i \in Nat : i \in 1..n <=> i # 0 /\ i + 1 \in 1..(n + 1) OBVIOUS
<1>5. 1 \in 1..(n + 1) OBVIOUS
<1>6. \A i \in Nat : i \in BlinksIn(r) <=> i # 0 /\ i + 1 \in BlinksIn(q)
  BY <1>3, <1>4 DEF BlinksIn
<1>7. 1 \in BlinksIn(q) <=> Head(q) \in Blinking BY <1>3, <1>5 DEF BlinksIn
<1> QED BY <1>2, <1>3, <1>4, <1>5, <1>6, <1>7

\* A message that is not the timer's leaves the balance; the timer's message
\* ends it until the timer is set again.
LEMMA BlinkOnceTake ==
  ASSUME NEW q \in Seq(Data), q # <<>>, NEW t, BlinkOnce(q, t)
  PROVE  /\ Head(q) \notin Blinking => BlinkOnce(Tail(q), t)
         /\ Head(q) \in Blinking => BlinksIn(Tail(q)) = {}
<1>1. CASE Head(q) \in Blinking
  <2>1. 1 \in BlinksIn(q) BY <1>1, BlinksTake
  <2>2. BlinksIn(q) = {1} BY <2>1 DEF BlinkOnce
  <2>3. ASSUME NEW i \in BlinksIn(Tail(q)) PROVE FALSE
    <3>1. i \in Nat BY BlinksTake DEF BlinksIn
    <3>2. i # 0 /\ i + 1 \in BlinksIn(q) BY <2>3, <3>1, BlinksTake
    <3> QED BY <2>2, <3>1, <3>2
  <2> QED BY <1>1, <2>3
<1>2. CASE Head(q) \notin Blinking
  <2>1. 1 \notin BlinksIn(q) BY <1>2, BlinksTake
  <2>2. CASE t = "idle"
    <3>1. PICK i \in DOMAIN q : BlinksIn(q) = {i} BY <2>2 DEF BlinkOnce
    <3>2. i \in Nat /\ i # 0 /\ i # 1 BY <2>1, <3>1
    <3>3. PICK k \in Nat : k = i - 1 /\ k # 0 /\ k + 1 = i BY <3>2
    <3>4. k + 1 \in DOMAIN q /\ k + 1 \in BlinksIn(q) BY <3>1, <3>3
    <3>7. k \in DOMAIN Tail(q) BY <3>3, <3>4, BlinksTake
    <3>8. k \in BlinksIn(Tail(q)) BY <3>3, <3>4, BlinksTake
    <3>5. ASSUME NEW m \in BlinksIn(Tail(q)) PROVE m = k
      <4>1. m \in Nat BY BlinksTake DEF BlinksIn
      <4>2. m + 1 \in BlinksIn(q) BY <3>5, <4>1, BlinksTake
      <4> QED BY <3>1, <3>3, <4>1, <4>2
    <3>6. BlinksIn(Tail(q)) = {k} BY <3>5, <3>8
    <3> QED BY <1>2, <2>2, <3>6, <3>7 DEF BlinkOnce
  <2>3. CASE t # "idle"
    <3>1. ASSUME NEW m \in BlinksIn(Tail(q)) PROVE FALSE
      <4>1. m \in Nat BY BlinksTake DEF BlinksIn
      <4>2. m + 1 \in BlinksIn(q) BY <3>1, <4>1, BlinksTake
      <4> QED BY <2>3, <4>2 DEF BlinkOnce
    <3> QED BY <1>2, <2>3, <3>1 DEF BlinkOnce
  <2> QED BY <2>2, <2>3
<1> QED BY <1>1, <1>2
-----------------------------------------------------------------------------
(* The invariant *)

OnOff(c) == IF c = "off" THEN "off" ELSE "on"
KeysHere(w) == IF w = "key" THEN "on" ELSE "off"

MessagesOK ==
  ~overrun => /\ fifo \in Seq(Data)
              /\ Switching(fifo, OnOff(cons.c), KeysHere(window))
              /\ cons.sht /\ mode # "gone" => BlinkOnce(fifo, timer)

ScreenOK ==
  /\ cons \in Consoles /\ cmdline \in Lines0 /\ CursorOnlyHere(cons)
  /\ mode = "prompt" => Shows(cons, cmdline)
  /\ mode = "app" => Tidy(cons)

TimerOK ==
  /\ timer \in {"0", "1", "idle"}
  /\ ~cons.sht \/ mode = "gone" => timer = "idle"

PromptInv ==
  /\ overrun \in BOOLEAN
  /\ mode \in {"prompt", "app", "gone"} /\ window \in {"key", "open", "closed"}
  /\ MessagesOK /\ ScreenOK /\ TimerOK

\* What is put arrives, unless the FIFO overflows.
LEMMA PutResult ==
  ASSUME fifo \in Seq(Data), NEW data \in Seq(Data), Put(data), ~overrun'
  PROVE  fifo' = fifo \o data
<1>1. PICK n \in Nat : n = Len(data) OBVIOUS
<1>2. ~(Len(fifo) + Len(data) > FifoSize) BY DEF Put
<1>3. Len(fifo) + Len(data) <= FifoSize BY <1>2, PromptAssumption
<1>4. fifo' = fifo \o SubSeq(data, 1, n) BY <1>1, <1>3 DEF Put
<1>5. SubSeq(data, 1, n) = data BY <1>1
<1> QED BY <1>4, <1>5

LEMMA PutOne ==
  ASSUME fifo \in Seq(Data), NEW d \in Data, Put(<<d>>), ~overrun'
  PROVE  fifo' = Append(fifo, d)
<1>1. <<d>> \in Seq(Data) OBVIOUS
<1>2. fifo' = fifo \o <<d>> BY <1>1, PutResult
<1>3. fifo \o <<d>> = Append(fifo, d) OBVIOUS
<1> QED BY <1>2, <1>3

\* A datum other than the timer's
LEMMA OtherDatum ==
  ASSUME NEW q \in Seq(Data), NEW a, NEW b, Switching(q, a, b), NEW t,
         NEW d \in Data \ Blinking, d = "back" => b = "on"
  PROVE  /\ Append(q, d) \in Seq(Data)
         /\ Switching(Append(q, d), a, SwitchedBy(b, d))
         /\ BlinkOnce(q, t) => BlinkOnce(Append(q, d), t)
<1>1. BlinksIn(Append(q, d)) = BlinksIn(q) BY BlinksAppend
<1>2. \A i \in DOMAIN q : i \in DOMAIN Append(q, d)
  <2>1. PICK r : r = Append(q, d) OBVIOUS
  <2>2. Len(r) = Len(q) + 1 /\ DOMAIN r = 1..Len(r) /\ DOMAIN q = 1..Len(q) BY <2>1
  <2> QED BY <2>1, <2>2
<1>3. BlinkOnce(q, t) => BlinkOnce(Append(q, d), t) BY <1>1, <1>2 DEF BlinkOnce
<1>4. Append(q, d) \in Seq(Data) OBVIOUS
<1> QED BY <1>3, <1>4, SwitchingAppend

LEMMA DataNames ==
  /\ Chars \subseteq Data /\ Keys \subseteq Chars /\ AppData \subseteq Chars
  /\ {"0", "1", "on", "off", "back", "enter", "close"} \subseteq Data
  /\ \A d \in Chars : d \notin Switches /\ d \notin Blinking /\ d # "back"
  /\ \A d \in {"back", "enter", "close"} : d \notin Switches /\ d \notin Blinking
  /\ \A d \in Switches : d \notin Blinking /\ d # "back"
  /\ \A d \in Blinking : d \notin Switches /\ d # "back"
BY PromptAssumption DEF Data, Chars, Switches, Blinking

\* What puts leaves the screen.
LEMMA PutKeeps ==
  ASSUME PromptInv, NEW data, Put(data), UNCHANGED <<cons, cmdline, mode>>,
         timer' \in {timer, "idle"}, window' \in {"key", "open", "closed"},
         ~overrun' => MessagesOK'
  PROVE  PromptInv'
<1>1. ScreenOK'
  BY DEF PromptInv, ScreenOK, Consoles, Lines0, CursorOnlyHere, Shows, Tidy, Ready,
         LineHas, Empty, NoCursor
<1>2. TimerOK' BY DEF PromptInv, TimerOK
<1>3. overrun' \in BOOLEAN BY DEF PromptInv, Put
<1>4. MessagesOK' BY DEF MessagesOK
<1> QED BY <1>1, <1>2, <1>3, <1>4 DEF PromptInv

LEMMA TickInv == ASSUME PromptInv, Tick PROVE PromptInv'
<1>1. ASSUME ~overrun' PROVE MessagesOK'
  <2>1. ~overrun BY DEF Tick, Put
  <2>2. /\ fifo \in Seq(Data) /\ Switching(fifo, OnOff(cons.c), KeysHere(window))
        /\ cons.sht /\ mode # "gone" => BlinkOnce(fifo, timer)
    BY <2>1 DEF PromptInv, MessagesOK
  <2>3. timer \in Blinking /\ timer \in Data BY DataNames DEF PromptInv, TimerOK, Tick, Blinking
  <2>4. fifo' = Append(fifo, timer) BY <1>1, <2>2, <2>3, PutOne DEF Tick
  <2>5. Switching(Append(fifo, timer), OnOff(cons.c), SwitchedBy(KeysHere(window), timer))
    BY <2>2, <2>3, DataNames, SwitchingAppend
  <2>6. Switching(fifo', OnOff(cons'.c), KeysHere(window'))
    BY <2>3, <2>4, <2>5, DataNames DEF SwitchedBy, Tick
  <2>7. ASSUME cons.sht, mode # "gone" PROVE BlinkOnce(fifo', timer')
    <3>1. BlinksIn(fifo) = {} BY <2>2, <2>7 DEF BlinkOnce, Tick
    <3>2. BlinksIn(fifo') = {Len(fifo) + 1} BY <2>2, <2>3, <2>4, <3>1, BlinksAppend
    <3>3. Len(fifo) + 1 \in DOMAIN fifo' BY <3>2 DEF BlinksIn
    <3> QED BY <3>2, <3>3 DEF BlinkOnce, Tick
  <2>8. fifo' \in Seq(Data) BY <2>2, <2>3, <2>4
  <2> QED BY <2>6, <2>7, <2>8 DEF MessagesOK, Tick
<1> QED BY <1>1, PutKeeps DEF PromptInv, Tick

\* One datum from task A or from a timer of the application
LEMMA DatumInv ==
  ASSUME PromptInv, NEW d \in Data \ Blinking, Put(<<d>>),
         UNCHANGED <<cons, cmdline, timer, mode>>,
         window' \in {"key", "open", "closed"},
         KeysHere(window') = SwitchedBy(KeysHere(window), d),
         d = "back" => window = "key"
  PROVE  PromptInv'
<1>1. ASSUME ~overrun' PROVE MessagesOK'
  <2>1. ~overrun BY DEF Put
  <2>2. /\ fifo \in Seq(Data) /\ Switching(fifo, OnOff(cons.c), KeysHere(window))
        /\ cons.sht /\ mode # "gone" => BlinkOnce(fifo, timer)
    BY <2>1 DEF PromptInv, MessagesOK
  <2>3. fifo' = Append(fifo, d) BY <1>1, <2>2, PutOne
  <2>4. d = "back" => KeysHere(window) = "on" BY DEF KeysHere
  <2>5. /\ Append(fifo, d) \in Seq(Data)
        /\ Switching(Append(fifo, d), OnOff(cons.c), SwitchedBy(KeysHere(window), d))
        /\ BlinkOnce(fifo, timer) => BlinkOnce(Append(fifo, d), timer)
    BY <2>2, <2>4, OtherDatum
  <2> QED BY <2>2, <2>3, <2>5 DEF MessagesOK
<1> QED BY <1>1, PutKeeps

LEMMA TypeInv == ASSUME PromptInv, Type PROVE PromptInv'
<1>1. PICK d \in Keys \cup {"back", "enter"} : Put(<<d>>) BY DEF Type
<1>2. d \in Data \ Blinking /\ d \notin Switches BY DataNames
<1>3. UNCHANGED <<cons, cmdline, timer, mode, window>> /\ window = "key" BY DEF Type
<1> QED BY <1>1, <1>2, <1>3, DatumInv DEF SwitchedBy, PromptInv

LEMMA KeywinInv == ASSUME PromptInv, keywin_on \/ keywin_off PROVE PromptInv'
<1>1. CASE keywin_on
  BY <1>1, DataNames, DatumInv DEF keywin_on, SwitchedBy, KeysHere, Switches, PromptInv
<1>2. CASE keywin_off
  BY <1>2, DataNames, DatumInv DEF keywin_off, SwitchedBy, KeysHere, Switches, PromptInv
<1> QED BY <1>1, <1>2

LEMMA AppTimerInv == ASSUME PromptInv, AppTimer PROVE PromptInv'
<1>1. PICK d \in AppData : Put(<<d>>) BY DEF AppTimer
<1>2. d \in Data \ Blinking /\ d \notin Switches /\ d # "back" BY DataNames
<1>3. UNCHANGED <<cons, cmdline, timer, mode, window>> BY DEF AppTimer
<1> QED BY <1>1, <1>2, <1>3, DatumInv DEF SwitchedBy, PromptInv

LEMMA ClickCloseInv == ASSUME PromptInv, ClickClose PROVE PromptInv'
<1> DEFINE data == (IF window = "key" THEN <<>> ELSE <<"on">>) \o <<"off", "close">>
<1>0. Put(data) /\ window' = "closed" /\ UNCHANGED <<cons, cmdline, timer, mode>>
  BY DEF ClickClose
<1>1. ASSUME ~overrun' PROVE MessagesOK'
  <2>1. ~overrun BY <1>0 DEF Put
  <2>2. /\ fifo \in Seq(Data) /\ Switching(fifo, OnOff(cons.c), KeysHere(window))
        /\ cons.sht /\ mode # "gone" => BlinkOnce(fifo, timer)
    BY <2>1 DEF PromptInv, MessagesOK
  <2>0. "on" \in Data \ Blinking /\ "off" \in Data \ Blinking /\ "close" \in Data \ Blinking
    BY DataNames DEF Switches
  <2>3. ASSUME NEW q \in Seq(Data), NEW b, Switching(q, OnOff(cons.c), b),
               cons.sht /\ mode # "gone" => BlinkOnce(q, timer),
               fifo' = q \o <<"off", "close">>
        PROVE  MessagesOK'
    <3>1. PICK r : r = Append(q, "off") OBVIOUS
    <3>2. /\ r \in Seq(Data) /\ Switching(r, OnOff(cons.c), SwitchedBy(b, "off"))
          /\ BlinkOnce(q, timer) => BlinkOnce(r, timer)
      BY <2>0, <2>3, <3>1, OtherDatum
    <3>3. SwitchedBy(b, "off") = "off" /\ SwitchedBy("off", "close") = "off"
      BY DEF SwitchedBy, Switches
    <3>4. /\ Append(r, "close") \in Seq(Data)
          /\ Switching(Append(r, "close"), OnOff(cons.c), "off")
          /\ BlinkOnce(r, timer) => BlinkOnce(Append(r, "close"), timer)
        <4>1. r \in Seq(Data) /\ Switching(r, OnOff(cons.c), "off") BY <3>2, <3>3
        <4>2. "close" # "back" OBVIOUS
        <4>3. "close" \in Data \ Blinking BY <2>0
        <4>4. PICK z : z = "close" OBVIOUS
        <4>5. /\ Append(r, z) \in Seq(Data)
              /\ Switching(Append(r, z), OnOff(cons.c), SwitchedBy("off", z))
              /\ BlinkOnce(r, timer) => BlinkOnce(Append(r, z), timer)
          BY <4>1, <4>2, <4>3, <4>4, OtherDatum
        <4> QED BY <3>3, <4>4, <4>5
    <3>5. q \o <<"off", "close">> = Append(Append(q, "off"), "close") OBVIOUS
    <3>6. fifo' = Append(r, "close") BY <2>3, <3>1, <3>5
    <3>7. KeysHere(window') = "off" BY <1>0 DEF KeysHere
    <3> QED BY <1>0, <2>3, <3>2, <3>4, <3>6, <3>7 DEF MessagesOK
  <2>4. CASE window = "key"
    <3>1. data = <<"off", "close">> BY <2>4
    <3>2. <<"off", "close">> \in Seq(Data) BY <2>0
    <3>3. fifo' = fifo \o <<"off", "close">> BY <1>0, <1>1, <2>2, <3>1, <3>2, PutResult
    <3> QED BY <2>2, <2>3, <3>3
  <2>5. CASE window # "key"
    <3>1. data = <<"on">> \o <<"off", "close">> BY <2>5
    <3>2. <<"on">> \in Seq(Data) /\ <<"off", "close">> \in Seq(Data) BY <2>0
    <3>8. data \in Seq(Data) BY <3>1, <3>2, ConcatProperties
    <3>3. fifo' = fifo \o (<<"on">> \o <<"off", "close">>) BY <1>0, <1>1, <2>2, <3>1, <3>8, PutResult
    <3>4. PICK q : q = Append(fifo, "on") OBVIOUS
    <3>5. /\ q \in Seq(Data) /\ Switching(q, OnOff(cons.c), SwitchedBy(KeysHere(window), "on"))
          /\ BlinkOnce(fifo, timer) => BlinkOnce(q, timer)
      BY <2>0, <2>2, <3>4, OtherDatum
    <3>6. fifo \o <<"on">> = q BY <2>2, <3>4
    <3>7. fifo' = q \o <<"off", "close">> BY <2>2, <3>2, <3>3, <3>6, ConcatAssociative
    <3> QED BY <2>2, <2>3, <3>5, <3>7
  <2> QED BY <2>4, <2>5
<1> HIDE DEF data
<1> QED BY <1>0, <1>1, PutKeeps
\* What is left when a datum has been taken
LEMMA TakeResult ==
  ASSUME PromptInv, ~overrun, NEW d, Take(d), window' = window
  PROVE  /\ d \in Data /\ fifo' \in Seq(Data)
         /\ d = "back" => OnOff(cons.c) = "on"
         /\ Switching(fifo', SwitchedBy(OnOff(cons.c), d), KeysHere(window'))
         /\ cons.sht /\ mode # "gone" =>
              /\ d \notin Blinking => BlinkOnce(fifo', timer)
              /\ d \in Blinking => BlinksIn(fifo') = {}
<1>1. /\ fifo \in Seq(Data) /\ Switching(fifo, OnOff(cons.c), KeysHere(window))
      /\ cons.sht /\ mode # "gone" => BlinkOnce(fifo, timer)
  BY DEF PromptInv, MessagesOK
<1>2. fifo # <<>> /\ Head(fifo) = d /\ fifo' = Tail(fifo) BY DEF Take
<1>3. d \in Data /\ fifo' \in Seq(Data) BY <1>1, <1>2
<1> QED BY <1>1, <1>2, <1>3, SwitchingTake, BlinkOnceTake

\* Most messages are taken without a change of the timer or of the switch.
LEMMA TakenInv ==
  ASSUME PromptInv, ~overrun, NEW d, Take(d), d \notin Blinking \cup Switches,
         UNCHANGED <<overrun, window>>,
         mode' \in {"prompt", "app", "gone"},
         OnOff(cons'.c) = OnOff(cons.c),
         cons'.sht /\ mode' # "gone" => cons.sht /\ mode # "gone" /\ timer' = timer,
         ScreenOK', TimerOK'
  PROVE  PromptInv'
<1>1. /\ fifo' \in Seq(Data)
      /\ Switching(fifo', OnOff(cons.c), KeysHere(window'))
      /\ cons.sht /\ mode # "gone" => BlinkOnce(fifo', timer)
  BY TakeResult DEF SwitchedBy
<1> QED BY <1>1 DEF PromptInv, MessagesOK

\* A line that shows what it should has the cursor at its place only.
LEMMA ShowsScreen ==
  ASSUME NEW s, NEW line \in Lines0, Shows(s, line)
  PROVE  s \in Consoles /\ CursorOnlyHere(s)
BY DEF Shows, Ready

LEMMA TidyScreen ==
  ASSUME NEW s, Tidy(s) PROVE s \in Consoles /\ CursorOnlyHere(s)
BY DEF Tidy, CursorOnlyHere, NoCursor

LEMMA BlinkInv ==
  ASSUME PromptInv, ~overrun, mode = "prompt", NEW d \in {"0", "1"}, Blink(d)
  PROVE  PromptInv'
<1>0. /\ Take(d) /\ UNCHANGED <<cmdline, overrun, mode, window>>
      /\ timer' = IF cons.sht THEN NextBlink(d) ELSE timer
      /\ d \in Blinking /\ d \notin Switches
  BY DEF Blink, Blinking, Switches
<1>1. Shows(cons, cmdline) /\ cmdline \in Lines0 /\ Ready(cons, cmdline)
  BY DEF PromptInv, ScreenOK, Shows
<1>2. Shows(cons', cmdline) /\ cons'.sht = cons.sht /\ OnOff(cons'.c) = OnOff(cons.c)
  <2>1. CASE ~cons.sht \/ cons.c = "off" BY <1>1, <2>1 DEF Blink
  <2>2. CASE cons.sht /\ cons.c # "off"
    <3>1. PICK c \in {"white", "black"} : c = IF d = "1" THEN "white" ELSE "black" OBVIOUS
    <3>2. PICK t : t = [cons EXCEPT !.c = c] OBVIOUS
    <3>3. cons' = DrawCursor(t) BY <2>2, <3>1, <3>2 DEF Blink
    <3>4. Ready(t, cmdline) /\ t.sht = cons.sht /\ t.c = c
      BY <1>1, <3>2, ColourChanged DEF Colours
    <3>5. Shows(cons', cmdline) /\ Same(t, cons') BY <3>3, <3>4, DrawCursorShows
    <3> QED BY <2>2, <3>4, <3>5 DEF Same, OnOff
  <2> QED BY <2>1, <2>2
<1>3. ScreenOK'
  BY <1>0, <1>1, <1>2, ShowsScreen DEF ScreenOK
<1>4. TimerOK' BY <1>0, <1>2 DEF PromptInv, TimerOK, NextBlink
<1>5. /\ fifo' \in Seq(Data)
      /\ Switching(fifo', OnOff(cons.c), KeysHere(window'))
      /\ cons.sht => BlinksIn(fifo') = {}
  BY <1>0, TakeResult DEF SwitchedBy
<1>6. cons.sht => BlinkOnce(fifo', timer') BY <1>0, <1>5 DEF BlinkOnce, NextBlink
<1> QED BY <1>0, <1>2, <1>3, <1>4, <1>5, <1>6 DEF PromptInv, MessagesOK

LEMMA SwitchInv ==
  ASSUME PromptInv, ~overrun, mode = "prompt", CursorOn \/ CursorOff
  PROVE  PromptInv'
<1>0. UNCHANGED <<cmdline, timer, overrun, mode, window>> BY DEF CursorOn, CursorOff
<1>1. Shows(cons, cmdline) /\ cmdline \in Lines0 /\ Ready(cons, cmdline)
  BY DEF PromptInv, ScreenOK, Shows
<1>2. PICK d \in Switches : Take(d) /\ (d = "on" => CursorOn) /\ (d = "off" => CursorOff)
  BY DEF CursorOn, CursorOff, Switches
<1>3. Shows(cons', cmdline) /\ cons'.sht = cons.sht /\ OnOff(cons'.c) = d
  <2>1. CASE d = "on"
    <3>1. PICK t : t = [cons EXCEPT !.c = "white"] OBVIOUS
    <3>2. cons' = DrawCursor(t) BY <1>2, <2>1, <3>1 DEF CursorOn
    <3>3. Ready(t, cmdline) /\ t.sht = cons.sht /\ t.c = "white"
      BY <1>1, <3>1, ColourChanged DEF Colours
    <3>4. Shows(cons', cmdline) /\ Same(t, cons') BY <3>2, <3>3, DrawCursorShows
    <3> QED BY <2>1, <3>3, <3>4 DEF Same, OnOff
  <2>2. CASE d = "off"
    <3>1. PICK p : p = Paint(cons, "space") OBVIOUS
    <3>2. /\ Ready(p, cmdline) /\ p.sht = cons.sht /\ p.x = cons.x /\ p.y = cons.y
          /\ cons.sht => p.shown[cons.y][cons.x] = "space"
      BY <1>1, <3>1, PaintReady DEF Same
    <3>3. PICK t : t = [p EXCEPT !.c = "off"] OBVIOUS
    <3>4. /\ Ready(t, cmdline) /\ t.sht = p.sht /\ t.c = "off" /\ t.x = p.x /\ t.y = p.y
          /\ t.shown = p.shown
      BY <3>2, <3>3, ColourChanged DEF Colours
    <3>5. cons' = t BY <1>2, <2>2, <3>1, <3>3 DEF CursorOff
    <3> QED BY <2>2, <3>2, <3>4, <3>5 DEF Shows, CursorCell, OnOff
  <2> QED BY <2>1, <2>2 DEF Switches
<1>4. ScreenOK' BY <1>0, <1>1, <1>3, ShowsScreen DEF ScreenOK
<1>5. TimerOK' BY <1>0, <1>3 DEF PromptInv, TimerOK
<1>6. /\ fifo' \in Seq(Data)
      /\ Switching(fifo', d, KeysHere(window'))
      /\ cons.sht => BlinkOnce(fifo', timer)
  BY <1>0, <1>2, TakeResult, DataNames DEF SwitchedBy
<1> QED BY <1>0, <1>3, <1>4, <1>5, <1>6 DEF PromptInv, MessagesOK

LEMMA CloseInv ==
  ASSUME PromptInv, ~overrun, mode = "prompt", CloseClicked
  PROVE  PromptInv'
<1>0. Take("close") /\ UNCHANGED <<cons, cmdline, overrun, window>> /\ mode' = "gone"
      /\ timer' = IF cons.sht THEN "idle" ELSE timer
  BY DEF CloseClicked, cmd_exit
<1>1. ScreenOK' BY <1>0, ShowsScreen DEF PromptInv, ScreenOK
<1>2. TimerOK' BY <1>0 DEF PromptInv, TimerOK
<1>3. "close" \notin Blinking \cup Switches BY DEF Blinking, Switches
<1> QED BY <1>0, <1>1, <1>2, <1>3, TakenInv

LEMMA BackspaceInv ==
  ASSUME PromptInv, ~overrun, mode = "prompt", Backspace
  PROVE  PromptInv'
<1>0. Take("back") /\ UNCHANGED <<cmdline, timer, overrun, mode, window>>
      /\ cons' = DrawCursor(BackOne(cons))
  BY DEF Backspace
<1>1. Shows(cons, cmdline) /\ cmdline \in Lines0 BY DEF PromptInv, ScreenOK
<1>2. cons.c # "off" BY <1>0, TakeResult DEF OnOff
<1>3. Shows(cons', cmdline) /\ Same(cons, cons') BY <1>0, <1>1, <1>2, BackShows
<1>4. ScreenOK' BY <1>0, <1>1, <1>3, ShowsScreen DEF ScreenOK
<1>5. TimerOK' BY <1>0, <1>3 DEF PromptInv, TimerOK, Same
<1>6. "back" \notin Blinking \cup Switches BY DEF Blinking, Switches
<1> QED BY <1>0, <1>3, <1>4, <1>5, <1>6, TakenInv DEF Same

LEMMA CharacterInv ==
  ASSUME PromptInv, ~overrun, mode = "prompt", NEW chr \in Chars, Character(chr)
  PROVE  PromptInv'
<1>0. Take(chr) /\ UNCHANGED <<timer, overrun, mode, window>> BY DEF Character
<1>1. Shows(cons, cmdline) /\ cmdline \in Lines0 /\ cons \in Consoles
  BY DEF PromptInv, ScreenOK
<1>2. Shows(cons', cmdline') /\ cmdline' \in Lines0 /\ Same(cons, cons')
  <2>1. CASE cons.x < Cols
    <3>1. /\ cmdline' = [cmdline EXCEPT ![cons.x - 2] = chr]
          /\ cons' = DrawCursor(cons_putchar(cons, chr))
      BY <2>1 DEF Character
    <3>2. cmdline' \in Lines0 BY <1>1, <3>1 DEF Lines0
    <3> QED BY <1>1, <2>1, <3>1, <3>2, CharacterShows
  <2>2. CASE ~(cons.x < Cols)
    <3>1. cons' = DrawCursor(cons) /\ cmdline' = cmdline BY <2>2 DEF Character
    <3>2. Ready(cons, cmdline) /\ (cons.c = "off" /\ cons.sht => cons.shown[cons.y][cons.x] = "space")
      BY <1>1 DEF Shows, CursorCell
    <3> QED BY <1>1, <3>1, <3>2, DrawCursorShows
  <2> QED BY <2>1, <2>2
<1>3. ScreenOK' BY <1>0, <1>2, ShowsScreen DEF ScreenOK
<1>4. TimerOK' BY <1>0, <1>2 DEF PromptInv, TimerOK, Same
<1>5. chr \notin Blinking \cup Switches BY DataNames
<1> QED BY <1>0, <1>2, <1>3, <1>4, <1>5, TakenInv DEF Same
\* Back in the loop there is a prompt, or the console has gone.
LEMMA BackInLoopResult ==
  ASSUME PromptInv, NEW s, Tidy(s), s.x = 1, Same(cons, s), cmdline' \in Lines0, BackInLoop(s)
  PROVE  /\ ScreenOK' /\ TimerOK' /\ mode' \in {"prompt", "gone"} /\ Same(cons, cons')
         /\ cons'.sht /\ mode' # "gone" => timer' = timer
<1>1. CASE ShowPrompt(s)
  <2>1. cons' = NewPrompt(s) /\ mode' = "prompt" /\ timer' = timer /\ s.sht
    BY <1>1 DEF ShowPrompt
  <2>2. Shows(cons', cmdline') /\ Same(s, cons') BY <2>1, PromptShows
  <2>3. ScreenOK' BY <2>1, <2>2, ShowsScreen DEF ScreenOK
  <2>4. TimerOK' BY <2>1, <2>2 DEF PromptInv, TimerOK, Same
  <2> QED BY <2>1, <2>2, <2>3, <2>4 DEF Same
<1>2. CASE ~s.sht /\ cons' = s /\ cmd_exit
  <2>1. mode' = "gone" /\ timer' = timer /\ ~cons.sht /\ cons' = s
    BY <1>2 DEF cmd_exit, Same
  <2>2. ScreenOK' BY <2>1, TidyScreen DEF ScreenOK
  <2>3. TimerOK' BY <2>1 DEF PromptInv, TimerOK
  <2> QED BY <2>1, <2>2, <2>3 DEF Same
<1> QED BY <1>1, <1>2 DEF BackInLoop

\* A command, or an application, prints its text and ends the line.
LEMMA PrintedLine ==
  ASSUME NEW s, Tidy(s), NEW t \in Texts \cup {<<>>, <<"newline", "newline">>}
  PROVE  LET e == cons_newline(cons_putstr0(s, t))
         IN  Tidy(e) /\ e.x = 1 /\ Same(s, e)
<1>1. t \in Written
  <2>1. Chars \cup {"space", "mark", "tab", "newline"} = Printed \cup {"tab", "newline"} BY DEF Printed
  <2>2. CASE t \in Texts BY <2>1, <2>2, PromptAssumption DEF Written
  <2>3. CASE t = <<>> BY <2>3 DEF Written
  <2>4. CASE t = <<"newline", "newline">>
    <3>1. "newline" \in Printed \cup {"tab", "newline"} OBVIOUS
    <3> QED BY <2>4, <3>1 DEF Written
  <2> QED BY <2>2, <2>3, <2>4
<1>2. PICK u : u = cons_putstr0(s, t) OBVIOUS
<1>3. Tidy(u) /\ Same(s, u) BY <1>1, <1>2, TextTidy
<1>4. u \in Consoles /\ NoCursor(u) BY <1>3 DEF Tidy
<1>5. Empty(u, Cols + 1)
  <2>1. \A k \in 1..Cols : k >= Cols + 1 => FALSE BY Sizes
  <2> QED BY <1>3, <2>1 DEF Tidy, Empty
<1>6. Tidy(cons_newline(u)) /\ Same(u, cons_newline(u)) /\ cons_newline(u).x = 1
  BY <1>4, <1>5, NewlineTidy
<1> QED BY <1>2, <1>3, <1>6 DEF Same

LEMMA EnterInv ==
  ASSUME PromptInv, ~overrun, mode = "prompt", Enter
  PROVE  PromptInv'
<1>0. Take("enter") /\ UNCHANGED <<overrun, window>>
      /\ cmdline' = [cmdline EXCEPT ![cons.x - 2] = "0"] /\ RunCommand(EndLine(cons))
  BY DEF Enter
<1>1. Shows(cons, cmdline) /\ cmdline \in Lines0 BY DEF PromptInv, ScreenOK
<1>2. PICK s : s = EndLine(cons) OBVIOUS
<1>3. Tidy(s) /\ s.x = 1 /\ Same(cons, s) BY <1>1, <1>2, EndLineTidy
<1>4. cmdline' \in Lines0 BY <1>0, <1>1 DEF Lines0
<1>5. "enter" \notin Blinking \cup Switches BY DEF Blinking, Switches
<1>6. ASSUME NEW e, Tidy(e), e.x = 1, Same(s, e), BackInLoop(e) PROVE PromptInv'
  <2>1. Same(cons, e) BY <1>3, <1>6 DEF Same
  <2>2. /\ ScreenOK' /\ TimerOK' /\ mode' \in {"prompt", "gone"} /\ Same(cons, cons')
        /\ cons'.sht /\ mode' # "gone" => timer' = timer
    BY <1>4, <1>6, <2>1, BackInLoopResult
  <2> QED BY <1>0, <1>5, <2>2, TakenInv DEF Same
<1>7. ASSUME cons' = s, cmd_exit PROVE PromptInv'
  <2>1. mode' = "gone" /\ timer' = IF cons.sht THEN "idle" ELSE timer BY <1>7 DEF cmd_exit
  <2>2. ScreenOK' BY <1>3, <1>4, <1>7, <2>1, TidyScreen DEF ScreenOK
  <2>3. TimerOK' BY <1>7, <2>1 DEF PromptInv, TimerOK
  <2> QED BY <1>0, <1>3, <1>5, <1>7, <2>1, <2>2, <2>3, TakenInv DEF Same
<1>8. ASSUME cons' = s, mode' = "app", timer' = timer PROVE PromptInv'
  <2>1. ScreenOK' BY <1>3, <1>4, <1>8, TidyScreen DEF ScreenOK
  <2>2. TimerOK' BY <1>3, <1>8 DEF PromptInv, TimerOK, Same
  <2> QED BY <1>0, <1>3, <1>5, <1>8, <2>1, <2>2, TakenInv DEF Same
<1>9. \/ BackInLoop(s)
      \/ \E t \in Texts : BackInLoop(cons_newline(cons_putstr0(s, t)))
      \/ BackInLoop(cmd_cls(s))
      \/ cons' = s /\ cmd_exit
      \/ cons' = s /\ mode' = "app" /\ timer' = timer
  BY <1>0, <1>2 DEF RunCommand, BackInLoop
<1>10. CASE BackInLoop(s) BY <1>3, <1>6, <1>10 DEF Same
<1>11. CASE \E t \in Texts : BackInLoop(cons_newline(cons_putstr0(s, t)))
  <2>1. PICK t \in Texts : BackInLoop(cons_newline(cons_putstr0(s, t))) BY <1>11
  <2>2. PICK e : e = cons_newline(cons_putstr0(s, t)) OBVIOUS
  <2>3. Tidy(e) /\ e.x = 1 /\ Same(s, e) BY <1>3, <2>2, PrintedLine
  <2> QED BY <1>6, <2>1, <2>2, <2>3
<1>12. CASE BackInLoop(cmd_cls(s)) BY <1>3, <1>6, <1>12, ClsTidy
<1> QED BY <1>7, <1>8, <1>9, <1>10, <1>11, <1>12

\* While an application runs the window is tidy.
LEMMA AppTakenInv ==
  ASSUME PromptInv, ~overrun, mode = "app", NEW d, Take(d), d \notin Blinking \cup Switches,
         UNCHANGED <<cmdline, overrun, mode, window>>, Tidy(cons'), cons'.c = cons.c,
         cons'.sht => cons.sht /\ timer' = timer,
         TimerOK'
  PROVE  PromptInv'
<1>1. ScreenOK' BY TidyScreen DEF PromptInv, ScreenOK
<1> QED BY <1>1, TakenInv

LEMMA AppPrintsInv == ASSUME PromptInv, mode = "app", AppPrints PROVE PromptInv'
<1>1. PICK t \in Texts : cons' = cons_putstr0(cons, t) BY DEF AppPrints
<1>2. UNCHANGED <<cmdline, timer, fifo, overrun, mode, window>> BY DEF AppPrints
<1>3. Tidy(cons) BY DEF PromptInv, ScreenOK
<1>4. t \in Written
  <2>1. Chars \cup {"space", "mark", "tab", "newline"} = Printed \cup {"tab", "newline"} BY DEF Printed
  <2> QED BY <2>1, PromptAssumption DEF Written
<1>5. Tidy(cons') /\ Same(cons, cons') BY <1>1, <1>3, <1>4, TextTidy
<1>6. ScreenOK' BY <1>2, <1>5, TidyScreen DEF PromptInv, ScreenOK
<1>7. TimerOK' BY <1>2, <1>5 DEF PromptInv, TimerOK, Same
<1>8. MessagesOK' BY <1>2, <1>5 DEF PromptInv, MessagesOK, Same
<1> QED BY <1>2, <1>6, <1>7, <1>8 DEF PromptInv

LEMMA GetBlinkInv ==
  ASSUME PromptInv, ~overrun, mode = "app", NEW d \in {"0", "1"}, GetBlink(d)
  PROVE  PromptInv'
<1>0. /\ Take(d) /\ UNCHANGED <<cons, cmdline, overrun, mode, window>>
      /\ timer' = IF cons.sht THEN "1" ELSE timer
      /\ d \in Blinking /\ d \notin Switches
  BY DEF GetBlink, Blinking, Switches
<1>1. /\ fifo' \in Seq(Data)
      /\ Switching(fifo', OnOff(cons.c), KeysHere(window'))
      /\ cons.sht => BlinksIn(fifo') = {}
  BY <1>0, TakeResult DEF SwitchedBy
<1>2. TimerOK' BY <1>0 DEF PromptInv, TimerOK
<1>3. ScreenOK' BY <1>0 DEF PromptInv, ScreenOK
<1>4. MessagesOK' BY <1>0, <1>1 DEF MessagesOK, BlinkOnce
<1> QED BY <1>0, <1>2, <1>3, <1>4 DEF PromptInv

LEMMA GetCursorInv ==
  ASSUME PromptInv, ~overrun, mode = "app", NEW d \in {"on", "off"}, GetCursor(d)
  PROVE  PromptInv'
<1>0. /\ Take(d) /\ UNCHANGED <<cmdline, timer, overrun, mode, window>>
      /\ d \in Switches
  BY DEF GetCursor, Switches
<1>1. PICK c \in Colours : c = IF d = "on" THEN "white" ELSE "off" BY DEF Colours
<1>2. cons' = [cons EXCEPT !.c = c] BY <1>1 DEF GetCursor
<1>3. Tidy(cons) /\ cons \in Consoles BY DEF PromptInv, ScreenOK
<1>4. /\ cons' \in Consoles /\ cons'.sht = cons.sht /\ cons'.c = c
      /\ cons'.x = cons.x /\ cons'.y = cons.y /\ cons'.shown = cons.shown
  <2>1. cons' = Record(cons.sht, cons.x, cons.y, c, cons.shown) BY <1>2, <1>3, ConsoleExcept
  <2> QED BY <1>3, <2>1, ConsoleFields, RecordFields
<1>5. Tidy(cons') BY <1>3, <1>4 DEF Tidy, Empty, NoCursor
<1>6. ScreenOK' BY <1>0, <1>5, TidyScreen DEF PromptInv, ScreenOK
<1>7. TimerOK' BY <1>0, <1>4 DEF PromptInv, TimerOK
<1>8. /\ fifo' \in Seq(Data)
      /\ Switching(fifo', d, KeysHere(window'))
      /\ cons.sht => BlinkOnce(fifo', timer)
  BY <1>0, TakeResult, DataNames DEF SwitchedBy
<1>9. OnOff(cons'.c) = d BY <1>1, <1>4 DEF OnOff
<1>10. MessagesOK' BY <1>0, <1>4, <1>8, <1>9 DEF MessagesOK
<1> QED BY <1>0, <1>6, <1>7, <1>10 DEF PromptInv

LEMMA GetCloseInv ==
  ASSUME PromptInv, ~overrun, mode = "app", GetClose
  PROVE  PromptInv'
<1>0. /\ Take("close") /\ UNCHANGED <<cmdline, overrun, mode, window>>
      /\ timer' = "idle" /\ cons' = [cons EXCEPT !.sht = FALSE]
  BY DEF GetClose
<1>1. Tidy(cons) /\ cons \in Consoles BY DEF PromptInv, ScreenOK
<1>2. /\ cons' \in Consoles /\ cons'.sht = FALSE /\ cons'.c = cons.c
      /\ cons'.x = cons.x /\ cons'.y = cons.y /\ cons'.shown = cons.shown
  <2>0. PICK no \in BOOLEAN : no = FALSE OBVIOUS
  <2>1. cons' = Record(no, cons.x, cons.y, cons.c, cons.shown) BY <1>0, <1>1, <2>0, ConsoleExcept
  <2>2. /\ cons.x \in 1..Cols /\ cons.y \in 1..Lines
        /\ cons.c \in Colours /\ cons.shown \in [1..Lines -> Rows]
    BY <1>1, ConsoleFields
  <2>3. /\ cons' \in Consoles /\ cons'.sht = no /\ cons'.c = cons.c
        /\ cons'.x = cons.x /\ cons'.y = cons.y /\ cons'.shown = cons.shown
    BY <2>1, <2>2, RecordFields
  <2> QED BY <2>0, <2>3
<1>3. Tidy(cons') BY <1>1, <1>2 DEF Tidy, Empty, NoCursor
<1>4. TimerOK' BY <1>0 DEF TimerOK
<1>5. "close" \notin Blinking \cup Switches BY DEF Blinking, Switches
<1> QED BY <1>0, <1>2, <1>3, <1>4, <1>5, AppTakenInv

LEMMA GetKeyInv ==
  ASSUME PromptInv, ~overrun, mode = "app", GetKey
  PROVE  PromptInv'
<1>1. PICK d \in Chars \cup {"back", "enter"} : Take(d) BY DEF GetKey
<1>2. UNCHANGED <<cons, cmdline, timer, overrun, mode, window>> BY DEF GetKey
<1>3. d \notin Blinking \cup Switches BY DataNames
<1>4. Tidy(cons') BY <1>2 DEF PromptInv, ScreenOK
<1>5. TimerOK' BY <1>2 DEF PromptInv, TimerOK
<1> QED BY <1>1, <1>2, <1>3, <1>4, <1>5, AppTakenInv

LEMMA PromptAppEndsInv ==
  ASSUME PromptInv, ~overrun, mode = "app", AppEnds
  PROVE  PromptInv'
<1>0. UNCHANGED <<cmdline, fifo, overrun, window>> BY DEF AppEnds
<1>1. PICK t \in {<<>>, <<"newline", "newline">>} : BackInLoop(cons_newline(cons_putstr0(cons, t)))
  BY DEF AppEnds
<1>2. PICK e : e = cons_newline(cons_putstr0(cons, t)) OBVIOUS
<1>3. Tidy(e) /\ e.x = 1 /\ Same(cons, e) BY <1>2, PrintedLine DEF PromptInv, ScreenOK
<1>4. cmdline' \in Lines0 BY <1>0 DEF PromptInv, ScreenOK
<1>5. /\ ScreenOK' /\ TimerOK' /\ mode' \in {"prompt", "gone"} /\ Same(cons, cons')
      /\ cons'.sht /\ mode' # "gone" => timer' = timer
  BY <1>1, <1>2, <1>3, <1>4, BackInLoopResult
<1>6. MessagesOK' BY <1>0, <1>5 DEF PromptInv, MessagesOK, Same
<1> QED BY <1>0, <1>5, <1>6 DEF PromptInv

LEMMA PromptInitInv == PromptInit => PromptInv
<1> SUFFICES ASSUME PromptInit PROVE PromptInv OBVIOUS
<1>1. PICK s \in BOOLEAN :
        cons = cons_putchar([sht |-> s, x |-> 1, y |-> 1, c |-> "off",
                             shown |-> [y \in 1..Lines |-> BlankLine]], "mark")
  BY DEF PromptInit
<1>2. PICK pic : pic = [y \in 1..Lines |-> BlankLine] OBVIOUS
<1>3. PICK e : e = Record(s, 1, 1, "off", pic) OBVIOUS
<1>4. pic \in [1..Lines -> Rows] BY <1>2, BlankRow
<1>5. e \in Consoles /\ e.sht = s /\ e.x = 1 /\ e.y = 1 /\ e.c = "off" /\ e.shown = pic
  <2>1. 1 \in 1..Cols /\ 1 \in 1..Lines /\ "off" \in Colours BY Sizes DEF Colours
  <2> QED BY <1>3, <1>4, <2>1, RecordFields
<1>6. Tidy(e)
  <2>1. 1 \in 1..Lines BY Sizes
  <2> QED BY <1>2, <1>5, <2>1, BlankRow DEF Tidy, Empty, NoCursor
<1>7. cons = cons_putchar(e, "mark") BY <1>1, <1>2, <1>3 DEF Record
<1>8. NewPrompt(e) = DrawCursor(cons) BY <1>7 DEF NewPrompt
<1>9. Tidy(cons) /\ Same(e, cons) BY <1>6, <1>7, PutcharTidy, CellNames
<1>10. DrawCursor(cons) = cons BY <1>5, <1>9 DEF DrawCursor, Same
<1>11. cmdline \in Lines0 BY DEF PromptInit, Lines0
<1>12. Shows(cons, cmdline) BY <1>5, <1>6, <1>8, <1>10, PromptShows
<1>13. ScreenOK BY <1>11, <1>12, ShowsScreen DEF ScreenOK, PromptInit
<1>14. TimerOK BY DEF TimerOK, PromptInit
<1>15. cons.c = "off" BY <1>5, <1>9 DEF Same
<1>16. CASE cons.sht /\ window = "open" /\ fifo = <<>>
  <2>1. fifo \in Seq(Data) /\ Len(fifo) = 0 BY <1>16
  <2>2. Switching(fifo, "off", "off")
    <3>1. PICK f : f = [i \in 0..0 |-> "off"] OBVIOUS
    <3>2. f \in [0..0 -> Switches] /\ f[0] = "off" BY <3>1 DEF Switches
    <3> QED BY <2>1, <3>2 DEF Switching
  <2>3. BlinkOnce(fifo, timer)
    <3>1. timer = "1" /\ BlinksIn(fifo) = {} BY <1>16 DEF PromptInit, BlinksIn
    <3> QED BY <3>1 DEF BlinkOnce
  <2> QED BY <1>13, <1>14, <1>15, <1>16, <2>1, <2>2, <2>3
          DEF PromptInv, PromptInit, MessagesOK, OnOff, KeysHere
<1>17. CASE ~cons.sht /\ window = "closed" /\ fifo \in {<<k, "enter">> : k \in Keys}
  <2>1. PICK k \in Keys : fifo = <<k, "enter">> BY <1>17
  <2>2. k \in Data /\ "enter" \in Data BY DataNames
  <2>3. fifo \in Seq(Data) /\ Len(fifo) = 2 /\ fifo[1] = k /\ fifo[2] = "enter" BY <2>1, <2>2
  <2>4. k # "back" /\ k \notin Switches /\ "enter" \notin Switches BY DataNames
  <2>5. Switching(fifo, "off", "off")
    <3>1. PICK f : f = [i \in 0..2 |-> "off"] OBVIOUS
    <3>2. f \in [0..2 -> Switches] /\ f[0] = "off" /\ f[2] = "off" BY <3>1 DEF Switches
    <3>3. \A i \in 1..2 : /\ f[i] = SwitchedBy(f[i - 1], fifo[i])
                          /\ fifo[i] = "back" => f[i - 1] = "on"
      BY <2>3, <2>4, <3>1 DEF SwitchedBy
    <3> QED BY <2>3, <3>2, <3>3 DEF Switching
  <2> QED BY <1>13, <1>14, <1>15, <1>17, <2>3, <2>5
          DEF PromptInv, PromptInit, MessagesOK, OnOff, KeysHere
<1> QED BY <1>16, <1>17 DEF PromptInit

LEMMA PromptNextInv == PromptInv /\ [PromptNext]_promptVars => PromptInv'
<1> SUFFICES ASSUME PromptInv, [PromptNext]_promptVars PROVE PromptInv' OBVIOUS
<1>1. CASE Tick BY <1>1, TickInv
<1>2. CASE Loop
  <2>1. ~overrun /\ mode = "prompt" BY <1>2 DEF Loop
  <2> QED BY <1>2, <2>1, BlinkInv, SwitchInv, CloseInv, BackspaceInv, EnterInv, CharacterInv
          DEF Loop
<1>3. CASE hrb_api
  <2>1. ~overrun /\ mode = "app" BY <1>3 DEF hrb_api
  <2> QED BY <1>3, <2>1, AppPrintsInv, AppTimerInv, GetCloseInv, GetKeyInv, PromptAppEndsInv,
             GetBlinkInv, GetCursorInv
          DEF hrb_api
<1>4. CASE TaskA BY <1>4, TypeInv, KeywinInv, ClickCloseInv DEF TaskA
<1>5. CASE UNCHANGED promptVars
  BY <1>5 DEF promptVars, PromptInv, MessagesOK, ScreenOK, TimerOK, Consoles, CursorOnlyHere,
         Shows, Tidy, Ready, LineHas, Empty, NoCursor
<1> QED BY <1>1, <1>2, <1>3, <1>4, <1>5 DEF PromptNext

-----------------------------------------------------------------------------
(* What follows from it *)

LEMMA LineFollows == PromptInv => LineIsCmdline
<1> SUFFICES ASSUME PromptInv, mode = "prompt", cons.sht
             PROVE  LET line == cons.shown[cons.y]
                    IN  /\ cons.x >= 2 /\ line[1] = "mark"
                        /\ \A x \in 2..(cons.x - 1) : line[x] = cmdline[x - 2]
                        /\ line[cons.x] = IF cons.c = "white" THEN "cursor" ELSE "space"
                        /\ \A x \in (cons.x + 1)..Cols : line[x] = "space"
  BY DEF LineIsCmdline
<1>1. Shows(cons, cmdline) /\ Ready(cons, cmdline) /\ cons \in Consoles
  BY DEF PromptInv, ScreenOK, Shows
<1>2. Cols \in Nat /\ cons.x \in 1..Cols /\ cons.x >= 2 BY <1>1, ConsoleFields, Sizes DEF Ready
<1>3. \A x \in 2..(cons.x - 1) : x \in 1..Cols /\ 2 <= x /\ x < cons.x BY <1>2
<1>4. \A x \in (cons.x + 1)..Cols : x \in 1..Cols /\ x >= cons.x + 1 BY <1>2
<1> QED BY <1>1, <1>2, <1>3, <1>4 DEF Shows, Ready, LineHas, Empty, CursorCell

\* The line on the screen is the command that is run, whatever is typed, printed
\* and switched in between, for consoles of any size.
THEOREM LineIsRun == PromptSpec => []LineIsCmdline
<1> QED BY PromptInitInv, PromptNextInv, LineFollows, PTL DEF PromptSpec

LEMMA BlinkFollows == PromptInv => OneBlink
<1> SUFFICES ASSUME PromptInv PROVE OneBlink OBVIOUS
<1>1. ~cons.sht \/ mode = "gone" => timer = "idle" BY DEF PromptInv, TimerOK
<1>2. ASSUME ~overrun, cons.sht, mode # "gone"
      PROVE  Blinks + (IF timer = "idle" THEN 0 ELSE 1) = 1
  <2>1. BlinkOnce(fifo, timer) BY <1>2 DEF PromptInv, MessagesOK
  <2>2. Blinks = Cardinality(BlinksIn(fifo)) BY DEF Blinks, BlinksIn, Blinking
  <2>3. CASE timer = "idle"
    <3>1. PICK i \in DOMAIN fifo : BlinksIn(fifo) = {i} BY <2>1, <2>3 DEF BlinkOnce
    <3>2. Blinks = 1 BY <2>2, <3>1, FS_Singleton
    <3> QED BY <2>3, <3>2
  <2>4. CASE timer # "idle"
    <3>1. BlinksIn(fifo) = {} BY <2>1, <2>4 DEF BlinkOnce
    <3>2. Blinks = 0 BY <2>2, <3>1, FS_EmptySet
    <3> QED BY <2>4, <3>2
  <2> QED BY <2>3, <2>4
<1> QED BY <1>1, <1>2 DEF OneBlink

\* A console never stops blinking and never blinks twice as fast: its timer runs
\* or its message waits, through every application and every close.
THEOREM BlinksOnce == PromptSpec => []OneBlink
<1> QED BY PromptInitInv, PromptNextInv, BlinkFollows, PTL DEF PromptSpec

LEMMA CursorFollows == PromptInv => OneCursor
<1> SUFFICES ASSUME PromptInv PROVE OneCursor OBVIOUS
<1>1. NoGhostCursor
  <2> SUFFICES ASSUME NEW l \in 1..Lines, NEW k \in 1..Cols, cons.shown[l][k] = "cursor"
               PROVE  mode # "app" /\ l = cons.y /\ k = cons.x
    BY DEF NoGhostCursor
  <2>1. l = cons.y /\ k = cons.x BY DEF PromptInv, ScreenOK, CursorOnlyHere
  <2>2. mode # "app" BY DEF PromptInv, ScreenOK, Tidy, NoCursor
  <2> QED BY <2>1, <2>2
<1>2. ASSUME ~overrun, FocusHandled PROVE cons.c # "off" <=> window = "key"
  <2>1. fifo \in Seq(Data) /\ Switching(fifo, OnOff(cons.c), KeysHere(window))
    BY <1>2 DEF PromptInv, MessagesOK
  <2>2. OnOff(cons.c) = KeysHere(window)
    BY <1>2, <2>1, SwitchingStays DEF FocusHandled, Switches
  <2> QED BY <2>2 DEF OnOff, KeysHere
<1> QED BY <1>1, <1>2 DEF OneCursor, CursorIsFocus

\* No cursor is left behind, and the cursor follows the keys, whoever has taken
\* the messages that switch it.
THEOREM CursorFollowsKeys == PromptSpec => []OneCursor
<1> QED BY PromptInitInv, PromptNextInv, CursorFollows, PTL DEF PromptSpec

-----------------------------------------------------------------------------
(* The files of an application: what each of them reads is the file, and the
   memory is that of the open files. *)

Byte == Nat \X Nat

-----------------------------------------------------------------------------
(* The table of clusters *)

LEMMA Digits ==
  ASSUME NEW a \in Nat, NEW b \in Nat, NEW k \in Nat \ {0}, a < k, NEW n, n = a + k * b
  PROVE  n % k = a /\ n \div k = b
<1>1. n \in Nat BY SMT
<1>2. PICK q \in Nat, r \in Nat : q = n \div k /\ r = n % k /\ n = k * q + r /\ r < k
  BY <1>1
<1>3. q = b
  <2>1. CASE q > b
    <3>1. PICK e \in Nat : q = b + 1 + e BY <2>1, <1>2
    <3>2. k * q = k * b + k + k * e BY <3>1
    <3>3. k * e \in Nat OBVIOUS
    <3> QED BY <1>2, <3>2, <3>3
  <2>2. CASE q < b
    <3>1. PICK e \in Nat : b = q + 1 + e BY <2>2, <1>2
    <3>2. k * b = k * q + k + k * e BY <3>1
    <3>3. k * e \in Nat OBVIOUS
    <3> QED BY <1>2, <3>2, <3>3
  <2> QED BY <1>2, <2>1, <2>2
<1> QED BY <1>2, <1>3

\* The two entries that three bytes of 1 / k each hold, in units s, k, l and p
\* (16, 256, 4096 and 65536)
Lower(w, k, l) == ((w % k) + k * ((w \div k) % k)) % l
Upper1(w, s, k, l, p) == ((((w \div k) % k) \div s) + s * ((w \div p) % k)) % l

\* 12 bits
IsEntry(a) == a \in Nat /\ a < 4096

IsDigit(a, k) == a \in Nat /\ k \in Nat \ {0} /\ a < k

LEMMA Parts ==
  ASSUME NEW k, NEW a, NEW b \in Nat, IsDigit(a, k), NEW n, n = a + k * b
  PROVE  n % k = a /\ n \div k = b
BY Zenon, Digits DEF IsDigit

LEMMA TwoEntries ==
  ASSUME NEW a, NEW b, IsEntry(a), IsEntry(b), NEW w, w = a + 4096 * b
  PROVE  Lower(w, 256, 4096) = a /\ Upper1(w, 16, 256, 4096, 65536) = b
<1>0. a \in Nat /\ a < 4096 /\ b \in Nat /\ b < 4096 BY DEF IsEntry
<1>1. PICK a0 \in 0..255, a1 \in 0..15 : a = a0 + 256 * a1 BY <1>0
<1>2. PICK b0 \in 0..15, b1 \in 0..255 : b = b0 + 16 * b1 BY <1>0
<1>3. PICK m \in Nat : m = a1 + 16 * b0 /\ m < 256 OBVIOUS
<1>4. PICK v \in Nat : v = m + 256 * b1 OBVIOUS
<1>5. PICK u \in Nat : u = a0 + 256 * m /\ u < 65536 BY <1>3
<1>6. w = a0 + 256 * v /\ w = u + 65536 * b1 /\ u = a + 4096 * b0
  <2>1. u = a0 + 256 * a1 + 4096 * b0 BY <1>3, <1>5
  <2>2. w = a + 4096 * b0 + 65536 * b1 BY <1>0, <1>2
  <2>3. 256 * v = 256 * m + 65536 * b1 BY <1>3, <1>4
  <2> QED BY <1>1, <1>4, <1>5, <2>1, <2>2, <2>3
<1>7. PICK s, k, l, p : s = 16 /\ k = 256 /\ l = 4096 /\ p = 65536 OBVIOUS
<1>8. /\ IsDigit(a0, k) /\ IsDigit(m, k) /\ IsDigit(b1, k) /\ IsDigit(a1, s)
      /\ IsDigit(u, p) /\ IsDigit(a, l) /\ IsDigit(b, l)
  BY <1>0, <1>3, <1>5, <1>7 DEF IsDigit
<1>9. /\ a0 \in Nat /\ b0 \in Nat /\ b1 \in Nat /\ 0 \in Nat
      /\ w = a0 + k * v /\ v = m + k * b1 /\ m = a1 + s * b0 /\ w = u + p * b1 /\ u = a + l * b0
      /\ b1 = b1 + k * 0 /\ b = b + l * 0 /\ u = a0 + k * m /\ b = b0 + s * b1
  BY <1>0, <1>2, <1>3, <1>4, <1>5, <1>6, <1>7
<1>10. w % k = a0 /\ w \div k = v /\ v % k = m /\ m \div s = b0 /\ w \div p = b1
  BY <1>8, <1>9, Parts
<1>11. b1 % k = b1 /\ b % l = b /\ u % l = a BY <1>8, <1>9, Parts
<1>12. Lower(w, k, l) = a
  <2>1. (w % k) + k * ((w \div k) % k) = u BY <1>9, <1>10
  <2> QED BY <1>11, <2>1 DEF Lower
<1>13. Upper1(w, s, k, l, p) = b
  <2>1. (((w \div k) % k) \div s) + s * ((w \div p) % k) = b BY <1>9, <1>10, <1>11
  <2> QED BY <1>11, <2>1 DEF Upper1
<1> QED BY <1>7, <1>12, <1>13

\* The three bytes in which w lies
LiesAt(img, m, w) ==
  /\ img[3 * m] = w % 256
  /\ img[3 * m + 1] = (w \div 256) % 256
  /\ img[3 * m + 2] = (w \div 65536) % 256

LEMMA BytesOfThree ==
  ASSUME NEW m \in Nat, m < 1440, NEW d, NEW img, img = FatImage(d), NEW w \in Nat, w = TwoLinks(d, m)
  PROVE  LiesAt(img, m, w)
<1>1. ASSUME NEW r \in Nat, r < 3 PROVE img[3 * m + r] = ByteOf(w, r)
  <2>1. PICK j \in Nat : j = 3 * m + r OBVIOUS
  <2>2. j \div 3 = m /\ j % 3 = r BY <1>1, <2>1, Parts DEF IsDigit
  <2>4. j \in FatBytes BY <1>1, <2>1 DEF FatBytes
  <2>3. FatImage(d)[j] = ByteOf(TwoLinks(d, j \div 3), j % 3) BY <2>4 DEF FatImage
  <2> QED BY <2>1, <2>2, <2>3
<1>2. img[3 * m] = ByteOf(w, 0)
  <2>1. 3 * m + 0 = 3 * m OBVIOUS
  <2> QED BY <1>1, <2>1
<1>3. img[3 * m + 1] = ByteOf(w, 1) BY <1>1
<1>4. img[3 * m + 2] = ByteOf(w, 2) BY <1>1
<1>5. ByteOf(w, 0) = w % 256
  <2>1. ByteOf(w, 0) = (w \div 1) % 256 BY DEF ByteOf
  <2>2. w \div 1 = w OBVIOUS
  <2> QED BY <2>1, <2>2
<1>6. ByteOf(w, 1) = (w \div 256) % 256 BY DEF ByteOf
<1>7. ByteOf(w, 2) = (w \div 65536) % 256 BY DEF ByteOf
<1> QED BY <1>2, <1>3, <1>4, <1>5, <1>6, <1>7 DEF LiesAt

LEMMA EvenOrOdd ==
  ASSUME NEW n \in Nat
  PROVE  /\ n \div 2 \in Nat /\ n < 2880 => n \div 2 < 1440
         /\ n % 2 = 0 => n = 2 * (n \div 2)
         /\ n % 2 # 0 => n % 2 = 1 /\ n = 2 * (n \div 2) + 1
OBVIOUS

\* file_readfat finds what the formatter has written.
LEMMA EntryIsLinked ==
  ASSUME NEW d, \A c \in Nat : IsEntry(Linked(d, c)), NEW n \in Nat, n < 2880
  PROVE  Entry(FatImage(d), n) = Linked(d, n)
<1>1. PICK m \in Nat : m = n \div 2 /\ m < 1440 BY EvenOrOdd
<1>2. PICK img : img = FatImage(d) OBVIOUS
<1>3. PICK even \in Nat, odd \in Nat : even = 2 * m /\ odd = 2 * m + 1 BY <1>1
<1>4. PICK a, b : a = Linked(d, even) /\ b = Linked(d, odd) /\ IsEntry(a) /\ IsEntry(b)
  OBVIOUS
<1>5. PICK w : w = a + 4096 * b OBVIOUS
<1>6. w \in Nat BY <1>4, <1>5 DEF IsEntry
<1>7. LiesAt(img, m, w)
  <2>1. w = TwoLinks(d, m) BY <1>3, <1>4, <1>5 DEF TwoLinks
  <2> QED BY <1>1, <1>2, <1>6, <2>1, BytesOfThree
<1>8. Lower(w, 256, 4096) = a /\ Upper1(w, 16, 256, 4096, 65536) = b
  BY <1>4, <1>5, TwoEntries
<1>9. m * 3 = 3 * m OBVIOUS
<1>10. CASE n % 2 = 0
  <2>1. Entry(img, n) = (img[3 * m] + 256 * img[3 * m + 1]) % 4096
    BY <1>1, <1>9, <1>10 DEF Entry
  <2>2. Entry(img, n) = Lower(w, 256, 4096) BY <1>7, <2>1 DEF Lower, LiesAt
  <2>3. n = even BY <1>1, <1>3, <1>10, EvenOrOdd
  <2> QED BY <1>2, <1>4, <1>8, <2>2, <2>3
<1>11. CASE n % 2 # 0
  <2>1. Entry(img, n) = ((img[3 * m + 1] \div 16) + 16 * img[3 * m + 2]) % 4096
    BY <1>1, <1>9, <1>11 DEF Entry
  <2>2. Entry(img, n) = Upper1(w, 16, 256, 4096, 65536) BY <1>7, <2>1 DEF Upper1, LiesAt
  <2>3. n = odd BY <1>1, <1>3, <1>11, EvenOrOdd
  <2> QED BY <1>2, <1>4, <1>8, <2>2, <2>3
<1> QED BY <1>10, <1>11
-----------------------------------------------------------------------------
(* The chain of a file *)

LEMMA Constants ==
  /\ Sector \in Nat \ {0} /\ PageSize \in Nat \ {0} /\ Handles \in Nat /\ MaxPages \in Nat
  /\ Amounts \subseteq Int
BY FilesAssumption, DiskFileAssumption

\* No cluster number is beyond the last cylinder.
LEMMA SectorsBound == Sectors \in Nat /\ Sectors < 1200
BY BootAssumption DEF Sectors

LEMMA EntryFields ==
  ASSUME NEW d \in Disks, NEW f \in DOMAIN d
  PROVE  /\ d[f].clusters \in Seq(Nat) /\ d[f].size \in Nat /\ d[f].unpacked \in Nat
         /\ f \in Nat /\ f # 0
<1>1. d \in Seq(Entries) BY FilesAssumption
<1>2. d[f] \in Entries /\ f \in Nat \ {0} BY <1>1
<1> QED BY <1>2 DEF Entries

LEMMA Clusters ==
  ASSUME NEW d \in Disks, NEW f \in DOMAIN d, NEW i \in DOMAIN d[f].clusters
  PROVE  /\ d[f].clusters[i] \in Nat
         /\ d[f].size = 0 => d[f].clusters[i] = 0
         /\ d[f].size > 0 => d[f].clusters[i] >= 2 /\ d[f].clusters[i] <= Sectors - 31
<1>1. d[f].clusters[i] \in IF d[f].size > 0 THEN 2..(Sectors - 31) ELSE {0}
  BY FilesAssumption
<1>2. PICK c, n : c = d[f].clusters[i] /\ n = d[f].size OBVIOUS
<1>3. c \in Nat /\ n \in Nat BY <1>2, EntryFields
<1> QED BY <1>1, <1>2, <1>3, SectorsBound

LEMMA Enough ==
  ASSUME NEW d \in Disks, NEW f \in DOMAIN d
  PROVE  Len(d[f].clusters) * Sector >= d[f].size
BY FilesAssumption

LEMMA Unshared ==
  ASSUME NEW d \in Disks, NEW f \in DOMAIN d, NEW g \in DOMAIN d, d[f].size > 0,
         NEW i \in DOMAIN d[f].clusters, NEW k \in DOMAIN d[g].clusters,
         d[f].clusters[i] = d[g].clusters[k]
  PROVE  f = g /\ i = k
BY FilesAssumption

\* The file and the place of a cluster, and what the table says of it
LinkedAt(d, f, i, c) ==
  /\ f \in DOMAIN d /\ i \in DOMAIN d[f].clusters /\ d[f].clusters[i] = c
  /\ Linked(d, c) = IF i < Len(d[f].clusters) THEN d[f].clusters[i + 1] ELSE EndOfChain

LEMMA LinkChosen ==
  ASSUME NEW d, NEW c, \E f \in DOMAIN d : Has(d[f], c)
  PROVE  \E f, i : LinkedAt(d, f, i, c)
<1>1. PICK f : f = Owner(d, c) OBVIOUS
<1>2. f \in DOMAIN d /\ Has(d[f], c) BY <1>1 DEF Owner
<1>3. PICK s : s = d[f].clusters OBVIOUS
<1>4. PICK i : i = CHOOSE k \in DOMAIN s : s[k] = c OBVIOUS
<1>5. i \in DOMAIN s /\ s[i] = c BY <1>2, <1>3, <1>4 DEF Has
<1>6. NextIn(s, c) = IF i < Len(s) THEN s[i + 1] ELSE EndOfChain BY <1>4 DEF NextIn
<1>7. Linked(d, c) = NextIn(s, c) BY <1>1, <1>3 DEF Linked
<1> QED BY <1>2, <1>3, <1>5, <1>6, <1>7 DEF LinkedAt

LEMMA LinkedIsEntry ==
  ASSUME NEW d \in Disks, NEW c \in Nat
  PROVE  IsEntry(Linked(d, c))
<1>1. CASE \E f \in DOMAIN d : Has(d[f], c)
  <2>0. PICK f, i : LinkedAt(d, f, i, c) BY <1>1, LinkChosen
  <2>1. /\ f \in DOMAIN d /\ i \in DOMAIN d[f].clusters
        /\ Linked(d, c) = IF i < Len(d[f].clusters) THEN d[f].clusters[i + 1] ELSE EndOfChain
    BY <2>0 DEF LinkedAt
  <2>2. CASE i < Len(d[f].clusters)
    <3>1. i + 1 \in DOMAIN d[f].clusters BY <2>1, <2>2, EntryFields
    <3>2. PICK e : e = d[f].clusters[i + 1] OBVIOUS
    <3>3. e \in Nat /\ (e = 0 \/ e <= Sectors - 31) BY <2>1, <3>1, <3>2, Clusters, EntryFields
    <3> QED BY <2>1, <2>2, <3>2, <3>3, SectorsBound DEF IsEntry
  <2>3. CASE ~(i < Len(d[f].clusters)) BY <2>1, <2>3 DEF IsEntry, EndOfChain
  <2> QED BY <2>2, <2>3
<1>2. CASE ~\E f \in DOMAIN d : Has(d[f], c)
  <2>1. Linked(d, c) = 0 BY <1>2 DEF Linked
  <2> QED BY <2>1 DEF IsEntry
<1> QED BY <1>1, <1>2

\* From one cluster of a file to the next
LEMMA NextCluster ==
  ASSUME NEW d \in Disks, NEW f \in DOMAIN d, d[f].size > 0, NEW i \in Nat, i # 0,
         i < Len(d[f].clusters)
  PROVE  Entry(FatImage(d), d[f].clusters[i]) = d[f].clusters[i + 1]
<1>1. i \in DOMAIN d[f].clusters BY EntryFields
<1>2. PICK c : c = d[f].clusters[i] OBVIOUS
<1>3. c \in Nat /\ c < 2880 BY <1>1, <1>2, Clusters, SectorsBound
<1>4. Entry(FatImage(d), c) = Linked(d, c) BY <1>3, LinkedIsEntry, EntryIsLinked
<1>5. Linked(d, c) = d[f].clusters[i + 1]
  <2>1. \E g \in DOMAIN d : Has(d[g], c) BY <1>1, <1>2 DEF Has
  <2>2. PICK g, k : LinkedAt(d, g, k, c) BY <2>1, LinkChosen
  <2>3. f = g /\ i = k BY <1>1, <1>2, <2>2, Unshared DEF LinkedAt
  <2> QED BY <2>2, <2>3 DEF LinkedAt
<1> QED BY <1>2, <1>4, <1>5

\* ClusterAfter is the only such function.
ChainRun(clustno, img, last, c) ==
  c = [k \in 0..last |-> IF k = 0 THEN clustno ELSE Entry(img, c[k - 1])]

LEMMA ChainOfFile ==
  ASSUME NEW d \in Disks, NEW f \in DOMAIN d, d[f].size > 0, NEW last \in Nat,
         last < Len(d[f].clusters), NEW k \in 0..last
  PROVE  ClusterAfter(d[f].clusters[1], FatImage(d), last)[k] = d[f].clusters[k + 1]
<1>1. PICK s, img : s = d[f].clusters /\ img = FatImage(d) OBVIOUS
<1>2. ChainRun(s[1], img, last, [m \in 0..last |-> s[m + 1]])
  <2>1. PICK g : g = [m \in 0..last |-> s[m + 1]] OBVIOUS
  <2>2. ASSUME NEW m \in 0..last PROVE g[m] = IF m = 0 THEN s[1] ELSE Entry(img, g[m - 1])
    <3>1. CASE m = 0 BY <2>1, <3>1
    <3>2. CASE m # 0
      <4>1. m - 1 \in 0..last /\ m \in Nat /\ m < Len(s) /\ (m - 1) + 1 = m
        BY <1>1, <3>2, EntryFields
      <4>2. g[m] = s[m + 1] /\ g[m - 1] = s[m] BY <2>1, <4>1
      <4>3. Entry(img, s[m]) = s[m + 1] BY <1>1, <3>2, <4>1, NextCluster
      <4> QED BY <3>2, <4>2, <4>3
    <3> QED BY <3>1, <3>2
  <2>3. g = [m \in 0..last |-> g[m]] BY <2>1
  <2>4. ChainRun(s[1], img, last, g) BY <2>2, <2>3 DEF ChainRun
  <2> QED BY <2>1, <2>4
<1>3. PICK c : c = ClusterAfter(s[1], img, last) /\ ChainRun(s[1], img, last, c)
  <2>1. ClusterAfter(s[1], img, last) = CHOOSE c : ChainRun(s[1], img, last, c)
    BY Zenon DEF ClusterAfter, ChainRun
  <2> QED BY <1>2, <2>1
<1> DEFINE S == {m \in 0..last : c[m] # s[m + 1]}
<1>4. ASSUME S # {} PROVE FALSE
  <2>1. S \subseteq Nat OBVIOUS
  <2>2. PICK m \in S : \A n \in S : m <= n BY <1>4, <2>1, LeastExists
  <2>3. c[m] = IF m = 0 THEN s[1] ELSE Entry(img, c[m - 1]) BY <1>3, <2>2 DEF ChainRun
  <2>4. m # 0 BY <2>2, <2>3
  <2>5. m - 1 \in 0..last /\ m - 1 \notin S /\ (m - 1) + 1 = m BY <2>2, <2>4
  <2>6. c[m - 1] = s[m] BY <2>5
  <2>7. m \in Nat /\ m < Len(s) BY <1>1, <2>2, EntryFields
  <2>8. Entry(img, s[m]) = s[m + 1] BY <1>1, <2>4, <2>7, NextCluster
  <2> QED BY <2>2, <2>3, <2>4, <2>6, <2>8
<1> QED BY <1>1, <1>3, <1>4
-----------------------------------------------------------------------------
(* The bytes of a file *)

LEMMA Quotients ==
  ASSUME NEW n \in Nat, NEW m \in Nat, n <= m, NEW k \in Nat \ {0}
  PROVE  /\ n \div k \in Nat /\ n % k \in Nat /\ n \div k <= m \div k
         /\ \A l \in Nat : m < l * k => m \div k < l
<1>1. PICK q \in Nat, r \in Nat : q = n \div k /\ r = n % k /\ n = k * q + r /\ r < k OBVIOUS
<1>2. PICK p \in Nat, t \in Nat : p = m \div k /\ t = m % k /\ m = k * p + t /\ t < k OBVIOUS
<1>3. q <= p
  <2> SUFFICES ASSUME q > p PROVE FALSE OBVIOUS
  <2>1. PICK e \in Nat : q = p + 1 + e OBVIOUS
  <2>2. k * q = k * p + k + k * e BY <2>1
  <2>3. k * e \in Nat OBVIOUS
  <2> QED BY <1>1, <1>2, <2>2, <2>3
<1>4. ASSUME NEW l \in Nat, m < l * k, p >= l PROVE FALSE
  <2>1. PICK e \in Nat : p = l + e BY <1>4
  <2>2. k * p = l * k + k * e BY <2>1
  <2>3. k * e \in Nat OBVIOUS
  <2> QED BY <1>2, <1>4, <2>2, <2>3
<1> QED BY <1>1, <1>2, <1>3, <1>4

\* The image holds every cluster.
Image == \A c \in Nat : c >= 2 /\ c <= Sectors - 31 => memory[64 + 31 + c] = 31 + c

\* The cluster of the byte i of a file, from 0
ClusterOf(d, f, i) == d[f].clusters[(i \div Sector) + 1]

LEMMA ByteCluster ==
  ASSUME NEW d \in Disks, NEW f \in DOMAIN d, NEW i \in Nat, i < d[f].size
  PROVE  /\ ClusterOf(d, f, i) \in Nat /\ i % Sector \in Nat
         /\ ClusterOf(d, f, i) >= 2 /\ ClusterOf(d, f, i) <= Sectors - 31
         /\ ClusterAfter(d[f].clusters[1], FatImage(d), (d[f].size - 1) \div Sector)[i \div Sector]
              = ClusterOf(d, f, i)
<1>1. PICK n, l : n = d[f].size /\ l = Len(d[f].clusters) OBVIOUS
<1>2. n \in Nat /\ n > 0 /\ l \in Nat /\ n <= l * Sector /\ n - 1 \in Nat
  BY <1>1, EntryFields, Enough, Constants
<1>3. PICK last : last = (n - 1) \div Sector OBVIOUS
<1>4. n - 1 < l * Sector
  <2>1. PICK p \in Nat : p = l * Sector BY <1>2, Constants
  <2> QED BY <1>2, <2>1
<1>5. last \in Nat /\ last < l BY <1>2, <1>3, <1>4, Constants, Quotients
<1>6. PICK k : k = i \div Sector OBVIOUS
<1>7. k \in Nat /\ k <= last /\ i % Sector \in Nat
  <2>1. i <= n - 1 BY <1>1, <1>2
  <2> QED BY <1>2, <1>3, <1>6, <2>1, Constants, Quotients
<1>8. k + 1 \in DOMAIN d[f].clusters BY <1>1, <1>5, <1>7, EntryFields
<1>9. ClusterAfter(d[f].clusters[1], FatImage(d), last)[k] = d[f].clusters[k + 1]
  BY <1>1, <1>2, <1>5, <1>7, ChainOfFile
<1> QED BY <1>1, <1>2, <1>3, <1>6, <1>7, <1>8, <1>9, Clusters DEF ClusterOf

Loaded(f) ==
  [i \in 1..disk[f].size |->
     InImage(file_loadfile(disk[f].clusters[1], disk[f].size, FatImage(disk))[i])]

\* Along its chain of clusters, the file is what its author knows.
LEMMA LoadsStored ==
  ASSUME disk \in Disks, Image, NEW f \in DOMAIN disk
  PROVE  Loaded(f) = Stored(disk, f)
<1>1. PICK n : n = disk[f].size OBVIOUS
<1>2. n \in Nat BY <1>1, EntryFields
<1>3. PICK last, img, s : /\ last = (n - 1) \div Sector
                          /\ img = FatImage(disk) /\ s = disk[f].clusters[1]
  OBVIOUS
<1>4. ASSUME NEW i \in 1..n
      PROVE  InImage(file_loadfile(s, n, img)[i])
               = OnDisk(<<disk[f].clusters[((i - 1) \div Sector) + 1], (i - 1) % Sector>>)
  <2>1. PICK j \in Nat : j = i - 1 /\ j < n BY <1>2
  <2>2. PICK c, r : c = ClusterOf(disk, f, j) /\ r = j % Sector OBVIOUS
  <2>3. c \in Nat /\ c >= 2 /\ c <= Sectors - 31
    BY <1>1, <2>1, <2>2, ByteCluster
  <2>4. ClusterAfter(s, img, last)[j \div Sector] = c
    BY <1>1, <1>3, <2>1, <2>2, ByteCluster
  <2>5. file_loadfile(s, n, img)[i] = <<c, r>>
    <3>1. n # 0 BY <2>1
    <3>2. file_loadfile(s, n, img)
            = [m \in 1..n |-> <<ClusterAfter(s, img, last)[(m - 1) \div Sector], (m - 1) % Sector>>]
      BY <1>3, <3>1 DEF file_loadfile
    <3> QED BY <2>1, <2>2, <2>4, <3>2
  <2>6. InImage(<<c, r>>) = OnDisk(<<c, r>>)
    <3>1. memory[64 + 31 + c] = 31 + c BY <2>3 DEF Image
    <3>2. PICK b : b = <<c, r>> OBVIOUS
    <3>3. b[1] = c /\ b[2] = r BY <3>2
    <3>4. InImage(b) = OnDisk(b) BY <3>1, <3>3 DEF InImage, OnDisk
    <3> QED BY <3>2, <3>4
  <2>7. c = disk[f].clusters[((i - 1) \div Sector) + 1] /\ r = (i - 1) % Sector
    BY <2>1, <2>2 DEF ClusterOf
  <2> QED BY <2>5, <2>6, <2>7
<1> QED BY <1>1, <1>3, <1>4 DEF Loaded, Stored

LEMMA ContentTyped ==
  ASSUME NEW d \in Disks, NEW f \in DOMAIN d
  PROVE  /\ Content(d, f) \in Seq(Byte)
         /\ Len(Content(d, f)) = IF d[f].unpacked > 0 THEN d[f].unpacked ELSE d[f].size
<1>1. PICK n, u : n = d[f].size /\ u = d[f].unpacked OBVIOUS
<1>2. n \in Nat /\ u \in Nat /\ f \in Nat BY <1>1, EntryFields
<1>3. CASE u = 0
  <2>1. Content(d, f)
          = [i \in 1..n |-> OnDisk(<<d[f].clusters[((i - 1) \div Sector) + 1], (i - 1) % Sector>>)]
    BY <1>1, <1>3 DEF Content, Stored
  <2>2. ASSUME NEW i \in 1..n
        PROVE  OnDisk(<<d[f].clusters[((i - 1) \div Sector) + 1], (i - 1) % Sector>>) \in Byte
    <3>1. PICK j \in Nat : j = i - 1 /\ j < n BY <1>2
    <3>2. PICK c, r : c = ClusterOf(d, f, j) /\ r = j % Sector OBVIOUS
    <3>3. c \in Nat /\ r \in Nat BY <1>1, <3>1, <3>2, ByteCluster
    <3>4. OnDisk(<<c, r>>) = <<31 + c, r>> BY DEF OnDisk
    <3>5. <<31 + c, r>> \in Byte BY <3>3 DEF Byte
    <3> QED BY <3>1, <3>2, <3>4, <3>5 DEF ClusterOf
  <2>3. Content(d, f) \in [1..n -> Byte] BY <2>1, <2>2
  <2> QED BY <1>1, <1>2, <1>3, <2>3
<1>4. CASE u # 0
  <2>1. Content(d, f) = [i \in 1..u |-> <<f, i>>] BY <1>1, <1>4 DEF Content, Unpacked
  <2>2. Content(d, f) \in [1..u -> Byte] BY <1>2, <2>1 DEF Byte
  <2> QED BY <1>1, <1>2, <1>4, <2>2
<1> QED BY <1>3, <1>4
-----------------------------------------------------------------------------
(* Memory *)

LEMMA OfTwo ==
  ASSUME NEW a \in Int, NEW b \in Int
  PROVE  /\ Max({a, b}) = IF a >= b THEN a ELSE b
         /\ Min({a, b}) = IF a <= b THEN a ELSE b
<1>1. PICK g : g = (IF a >= b THEN a ELSE b) OBVIOUS
<1>2. PICK l : l = (IF a <= b THEN a ELSE b) OBVIOUS
<1>3. g \in {a, b} /\ \A y \in {a, b} : g >= y BY <1>1
<1>4. l \in {a, b} /\ \A y \in {a, b} : l <= y BY <1>2
<1>5. \A x \in {a, b} : (\A y \in {a, b} : x >= y) => x = g BY <1>3
<1>6. \A x \in {a, b} : (\A y \in {a, b} : x <= y) => x = l BY <1>4
<1>7. Max({a, b}) = g BY <1>3, <1>5 DEF Max
<1>8. Min({a, b}) = l BY <1>4, <1>6 DEF Min
<1> QED BY <1>1, <1>2, <1>7, <1>8

LEMMA MinIsIn ==
  ASSUME NEW S, S \subseteq Nat, S # {}
  PROVE  Min(S) \in S
<1>1. PICK m \in S : \A k \in S : m <= k BY LeastExists
<1> QED BY <1>1 DEF Min

LEMMA PagesNeeded ==
  ASSUME NEW size \in Nat
  PROVE  PagesOf(size) \in Nat /\ (PagesOf(size) = 0 <=> size = 0)
<1>1. PICK n \in Nat : n = size + PageSize - 1 BY Constants
<1>2. PICK q \in Nat, r \in Nat : q = n \div PageSize /\ n = PageSize * q + r /\ r < PageSize
  BY <1>1, Constants
<1>3. PagesOf(size) = q BY <1>1, <1>2 DEF PagesOf
<1>4. CASE q = 0
  <2>1. PageSize * q = 0 BY <1>4, Constants
  <2>2. size = 0 BY <1>1, <1>2, <2>1, Constants
  <2> QED BY <1>3, <1>4, <2>2
<1>5. CASE q # 0
  <2>1. PICK e \in Nat : q = e + 1 BY <1>5
  <2>2. PageSize * q = PageSize * e + PageSize BY <2>1, Constants
  <2>3. PageSize * e \in Nat BY Constants
  <2>4. size # 0 BY <1>1, <1>2, <2>2, <2>3, Constants
  <2> QED BY <1>3, <1>5, <2>4
<1> QED BY <1>4, <1>5

Behind(a, b) == a.addr + a.pages <= b.addr
Separate(a, b) == Behind(a, b) \/ Behind(b, a)

\* An area that is given out lies in memory and apart from the others.
Fits(h, a, pages) ==
  /\ a = [addr |-> a.addr, pages |-> pages]
  /\ a.addr \in 1..MaxPages /\ a.addr + pages - 1 <= MaxPages
  /\ pages > 0 => \A b \in h : Separate(a, b)

LEMMA Allocated ==
  ASSUME NEW h, NEW size \in Nat, HasRoom(h, size)
  PROVE  Fits(h, memman_alloc_4k(h, size), PagesOf(size))
<1>1. PICK n \in Nat : n = PagesOf(size) BY PagesNeeded
<1>2. Room(h, n) # {} BY <1>1 DEF HasRoom
<1>3. Room(h, n) \subseteq Nat BY Constants DEF Room
<1>4. PICK a : a = Min(Room(h, n)) /\ a \in Room(h, n) BY <1>2, <1>3, MinIsIn
<1>5. /\ a \in 1..MaxPages /\ a + n - 1 <= MaxPages
      /\ \A b \in h : a + Max({n, 1}) <= b.addr \/ b.addr + b.pages <= a
  BY <1>4 DEF Room
<1>6. memman_alloc_4k(h, size) = [addr |-> a, pages |-> n] BY <1>1, <1>4 DEF memman_alloc_4k
<1>7. PICK e : e = [addr |-> a, pages |-> n] OBVIOUS
<1>8. e.addr = a /\ e.pages = n BY <1>7
<1>9. ASSUME n > 0, NEW b \in h PROVE Separate(e, b)
  <2>1. Max({n, 1}) = n BY <1>9, OfTwo
  <2> QED BY <1>5, <1>8, <2>1 DEF Separate, Behind
<1>10. Fits(h, e, n) BY <1>5, <1>7, <1>8, <1>9 DEF Fits
<1> QED BY <1>1, <1>6, <1>7, <1>10

\* It is a new one.
LEMMA FitsIsNew ==
  ASSUME NEW h, NEW n \in Nat, n > 0, NEW a, Fits(h, a, n)
  PROVE  a \notin h
<1> SUFFICES ASSUME a \in h PROVE FALSE OBVIOUS
<1>1. Separate(a, a) /\ a.addr \in Nat /\ a.pages = n BY Constants DEF Fits
<1> QED BY <1>1 DEF Separate, Behind

LEMMA FileLoaded ==
  ASSUME disk \in Disks, Image, NEW f \in DOMAIN disk, CanLoad(f)
  PROVE  \E a : /\ Fits(heap, a, PagesOf(LoadedSize(f)))
                /\ file_loadfile2(f).addr = a.addr
                /\ file_loadfile2(f).heap = With(heap, a)
                /\ file_loadfile2(f).bytes = Content(disk, f)
<1>1. PICK n, u : n = disk[f].size /\ u = disk[f].unpacked OBVIOUS
<1>2. n \in Nat /\ u \in Nat BY <1>1, EntryFields
<1>3. u > 0 => n >= 17 BY <1>1, FilesAssumption
<1>4. PICK first : first = memman_alloc_4k(heap, n) OBVIOUS
<1>5. Fits(heap, first, PagesOf(n)) BY <1>1, <1>2, <1>4, Allocated DEF CanLoad
<1>6. PICK both : both = With(heap, first) OBVIOUS
<1>7. PICK second : second = memman_alloc_4k(both, u) OBVIOUS
<1>8. Fits(both, second, PagesOf(u)) BY <1>1, <1>2, <1>4, <1>6, <1>7, Allocated DEF CanLoad
<1>9. CASE u > 0
  <2>1. file_loadfile2(f) = [heap |-> Kept(heap, first, second), addr |-> second.addr,
                             bytes |-> Unpacked(disk, f)]
    BY <1>1, <1>3, <1>4, <1>6, <1>7, <1>9 DEF file_loadfile2
  <2>2. PagesOf(n) \in Nat /\ PagesOf(n) > 0 /\ PagesOf(u) \in Nat /\ PagesOf(u) > 0
    BY <1>2, <1>3, <1>9, PagesNeeded
  <2>3. first \notin heap BY <1>5, <2>2, FitsIsNew
  <2>4. first.pages # 0 /\ second.pages # 0 BY <1>5, <1>8, <2>2 DEF Fits
  <2>5. both = heap \cup {first} BY <1>6, <2>4 DEF With
  <2>6. second \notin both BY <1>8, <2>2, FitsIsNew
  <2>7. Kept(heap, first, second) = heap \cup {second}
    BY <1>6, <2>3, <2>4, <2>5, <2>6 DEF Kept, With
  <2>8. With(heap, second) = heap \cup {second} BY <2>4 DEF With
  <2>9. Fits(heap, second, PagesOf(u)) BY <1>8, <2>5 DEF Fits
  <2>10. LoadedSize(f) = u /\ Content(disk, f) = Unpacked(disk, f)
    BY <1>1, <1>9 DEF LoadedSize, Content
  <2> QED BY <2>1, <2>7, <2>8, <2>9, <2>10
<1>10. CASE u = 0
  <2>1. file_loadfile2(f) = [heap |-> both, addr |-> first.addr, bytes |-> Loaded(f)]
    BY <1>1, <1>4, <1>6, <1>10 DEF file_loadfile2, Loaded
  <2>2. LoadedSize(f) = n /\ Content(disk, f) = Stored(disk, f)
    BY <1>1, <1>10 DEF LoadedSize, Content
  <2> QED BY <1>5, <1>6, <2>1, <2>2, LoadsStored
<1> QED BY <1>2, <1>9, <1>10
-----------------------------------------------------------------------------
(* The invariant: what each open file has read is a part of the file, its buffer
   holds all of it, and memory has the areas of the open files, which are apart. *)

FileHandles == [buf : 0..MaxPages, size : Nat, pos : Nat]
Readings == [file : Nat, from : Nat, bytes : Seq(Byte)]

FilesTyped ==
  /\ disk \in Disks
  /\ fhandle \in [1..Handles -> FileHandles]
  /\ seen \in [1..Handles -> Readings]
  /\ contents \in [1..MaxPages -> Seq(Byte)]

\* The bytes of the file that h has open
Opened(h) == Content(disk, seen[h].file)

FileRead(h) ==
  /\ seen[h].file \in DOMAIN disk
  /\ fhandle[h].size = LoadedSize(seen[h].file)
  /\ seen[h].from <= fhandle[h].pos /\ fhandle[h].pos <= fhandle[h].size
  /\ seen[h].bytes = SubSeq(Opened(h), seen[h].from + 1, fhandle[h].pos)
  /\ fhandle[h].size > 0 => contents[fhandle[h].buf] = Opened(h)

FilesInv ==
  /\ FilesTyped
  /\ \A h \in InUse : FileRead(h)
  /\ heap = {Area(h) : h \in Needed}
  /\ \A h, k \in Needed : h # k => Separate(Area(h), Area(k))

LEMMA Uses ==
  /\ \A h : h \in InUse <=> h \in 1..Handles /\ fhandle[h].buf # 0
  /\ \A h : h \in Needed <=> h \in InUse /\ fhandle[h].size > 0
BY DEF InUse, Unused, Needed

LEMMA HandleFields ==
  ASSUME FilesTyped, NEW h \in 1..Handles
  PROVE  /\ fhandle[h].buf \in 0..MaxPages /\ fhandle[h].size \in Nat /\ fhandle[h].pos \in Nat
         /\ seen[h].file \in Nat /\ seen[h].from \in Nat /\ seen[h].bytes \in Seq(Byte)
<1>1. fhandle[h] \in FileHandles /\ seen[h] \in Readings BY DEF FilesTyped
<1> QED BY <1>1 DEF FileHandles, Readings

\* A handle that a step has nothing to do with
LEMMA OtherHandle ==
  ASSUME NEW k, FileRead(k), disk' = disk, fhandle'[k] = fhandle[k], seen'[k] = seen[k],
         fhandle[k].size > 0 => contents'[fhandle[k].buf] = contents[fhandle[k].buf]
  PROVE  FileRead(k)'
BY DEF FileRead, Opened, LoadedSize

\* The areas of two needed buffers begin at different places.
LEMMA OtherBuffer ==
  ASSUME FilesTyped, NEW h \in Needed, NEW a, NEW n \in Nat, n > 0, a.pages = n,
         Separate(Area(h), a), a.addr \in Nat
  PROVE  fhandle[h].buf # a.addr /\ Area(h) # a
<1>1. h \in 1..Handles /\ fhandle[h].size > 0 BY Uses
<1>2. PICK b, s : b = fhandle[h].buf /\ s = fhandle[h].size OBVIOUS
<1>3. b \in Nat /\ s \in Nat /\ s > 0 BY <1>1, <1>2, HandleFields, Constants
<1>4. PICK p : p = PagesOf(s) OBVIOUS
<1>5. p \in Nat /\ p > 0 BY <1>3, <1>4, PagesNeeded
<1>6. Area(h) = [addr |-> b, pages |-> p] BY <1>2, <1>4 DEF Area
<1>7. b + p <= a.addr \/ a.addr + n <= b BY <1>6 DEF Separate, Behind
<1> QED BY <1>2, <1>3, <1>5, <1>6, <1>7

LEMMA NeededInHeap == ASSUME FilesInv, NEW h \in Needed PROVE Area(h) \in heap
BY DEF FilesInv

LEMMA ApiOpenInv ==
  ASSUME FilesInv, Image, NEW nm, ApiOpen(nm)
  PROVE  FilesInv'
<1>1. PICK f, h, new : /\ f = file_search(nm, disk) /\ h = Min(Unused)
                       /\ new = file_loadfile2(f)
  OBVIOUS
<1>2. f \in DOMAIN disk
  <2>1. disk \in Seq(Entries) BY FilesAssumption DEF FilesInv, FilesTyped
  <2>2. f # 0 BY <1>1 DEF ApiOpen
  <2>3. PICK I : I = {i \in 1..Len(disk) : IsFile(disk[i]) /\ disk[i].name = Filled(nm)} OBVIOUS
  <2>4. f = IF I # {} THEN Min(I) ELSE 0
    BY <1>1, <2>2, <2>3 DEF file_search, SelectInSeq
  <2>5. I \subseteq Nat BY <2>3
  <2>6. f \in I BY <2>2, <2>4, <2>5, MinIsIn
  <2> QED BY <2>1, <2>3, <2>6
<1>3. h \in Unused /\ h \in 1..Handles /\ fhandle[h].buf = 0
  <2>1. Unused # {} BY DEF ApiOpen
  <2>2. Unused \subseteq 1..Handles BY DEF Unused
  <2>3. Unused \subseteq Nat BY <2>2, Constants
  <2> QED BY <1>1, <2>1, <2>2, <2>3, MinIsIn DEF Unused
<1>4. PICK a : /\ Fits(heap, a, PagesOf(LoadedSize(f)))
               /\ new.addr = a.addr /\ new.heap = With(heap, a) /\ new.bytes = Content(disk, f)
  BY <1>1, <1>2, FileLoaded DEF ApiOpen, FilesInv, FilesTyped
<1>5. PICK size, e, s : /\ size = LoadedSize(f)
                        /\ e = [buf |-> a.addr, size |-> size, pos |-> 0]
                        /\ s = [file |-> f, from |-> 0, bytes |-> <<>>]
  OBVIOUS
<1>6. /\ fhandle' = [fhandle EXCEPT ![h] = e] /\ seen' = [seen EXCEPT ![h] = s]
      /\ heap' = With(heap, a) /\ disk' = disk
      /\ contents' = IF Content(disk, f) = <<>> THEN contents
                     ELSE [contents EXCEPT ![a.addr] = Content(disk, f)]
  BY <1>1, <1>4, <1>5 DEF ApiOpen
<1>7. /\ Content(disk, f) \in Seq(Byte) /\ Len(Content(disk, f)) = size /\ size \in Nat
      /\ f \in Nat
  BY <1>2, <1>5, ContentTyped, EntryFields DEF FilesInv, FilesTyped, LoadedSize
<1>8. a.addr \in 1..MaxPages /\ a = [addr |-> a.addr, pages |-> PagesOf(size)]
  BY <1>4, <1>5 DEF Fits
<1>9. FilesTyped'
  <2>1. e \in FileHandles BY <1>5, <1>7, <1>8, Constants DEF FileHandles
  <2>2. s \in Readings BY <1>5, <1>7 DEF Readings
  <2>3. fhandle' \in [1..Handles -> FileHandles] BY <1>6, <2>1 DEF FilesInv, FilesTyped
  <2>4. seen' \in [1..Handles -> Readings] BY <1>6, <2>2 DEF FilesInv, FilesTyped
  <2>5. contents' \in [1..MaxPages -> Seq(Byte)]
    BY <1>6, <1>7, <1>8 DEF FilesInv, FilesTyped
  <2> QED BY <1>6, <2>3, <2>4, <2>5 DEF FilesInv, FilesTyped
<1>10. /\ fhandle'[h] = e /\ seen'[h] = s
       /\ \A k \in 1..Handles : k # h => fhandle'[k] = fhandle[k] /\ seen'[k] = seen[k]
  BY <1>3, <1>6 DEF FilesInv, FilesTyped
<1>11. e.buf = a.addr /\ e.size = size /\ e.pos = 0 /\ s.file = f /\ s.from = 0 /\ s.bytes = <<>>
  BY <1>5
<1>12. \A k : k \in InUse' <=> k \in InUse \/ k = h
  <2>1. \A k : k \in InUse' <=> k \in 1..Handles /\ fhandle'[k].buf # 0 BY DEF InUse, Unused
  <2>2. fhandle'[h].buf # 0 BY <1>8, <1>10, <1>11, Constants
  <2> QED BY <1>3, <1>10, <2>1, <2>2, Uses
<1>13. \A k : k \in Needed' <=> k \in Needed \/ (k = h /\ size > 0)
  <2>1. \A k : k \in Needed' <=> k \in InUse' /\ fhandle'[k].size > 0 BY DEF Needed
  <2>2. h \notin InUse BY <1>3, Uses
  <2>3. \A k \in InUse : fhandle'[k] = fhandle[k] BY <1>10, <2>2, Uses
  <2> QED BY <1>10, <1>11, <1>12, <2>1, <2>2, <2>3, Uses
<1>14. h \notin InUse /\ h \notin Needed BY <1>3, Uses
<1>15. /\ Area(h)' = a
       /\ \A k \in Needed : Area(k)' = Area(k)
  <2>1. Area(h)' = [addr |-> e.buf, pages |-> PagesOf(e.size)] BY <1>10 DEF Area
  <2>2. \A k \in Needed : fhandle'[k] = fhandle[k] BY <1>10, <1>14, Uses
  <2> QED BY <1>8, <1>11, <2>1, <2>2 DEF Area
<1>16. PagesOf(size) \in Nat /\ (PagesOf(size) = 0 <=> size = 0) BY <1>7, PagesNeeded
<1>17. a.pages = PagesOf(size) /\ a.addr \in Nat BY <1>8, Constants
<1>18. ASSUME size > 0, NEW k \in Needed
       PROVE  Separate(a, Area(k)) /\ Separate(Area(k), a) /\ fhandle[k].buf # a.addr
  <2>1. Separate(a, Area(k)) BY <1>4, <1>5, <1>16, <1>18, NeededInHeap DEF Fits
  <2>2. Separate(Area(k), a) BY <2>1 DEF Separate
  <2> QED BY <1>16, <1>17, <1>18, <2>1, <2>2, OtherBuffer DEF FilesInv
<1>19. Content(disk, f) = <<>> <=> size = 0 BY <1>7
<1>20. ASSUME NEW k \in InUse' PROVE FileRead(k)'
  <2>1. CASE k = h
    <3>1. seen'[h].file = f /\ seen'[h].from = 0 /\ seen'[h].bytes = <<>> BY <1>10, <1>11
    <3>2. fhandle'[h].buf = a.addr /\ fhandle'[h].size = size /\ fhandle'[h].pos = 0
      BY <1>10, <1>11
    <3>3. SubSeq(Content(disk, f), 0 + 1, 0) = <<>> BY SubSeqEmpty
    <3>4. size > 0 => contents'[a.addr] = Content(disk, f)
      BY <1>6, <1>8, <1>19 DEF FilesInv, FilesTyped
    <3>5. LoadedSize(seen[h].file)' = size BY <1>5, <1>6, <3>1 DEF LoadedSize
    <3>6. Opened(h)' = Content(disk, f) BY <1>6, <3>1 DEF Opened
    <3>7. seen'[h].bytes = SubSeq(Opened(h)', seen'[h].from + 1, fhandle'[h].pos)
      BY <3>1, <3>2, <3>3, <3>6
    <3>8. seen'[h].file \in DOMAIN disk' BY <1>2, <1>6, <3>1
    <3>9. fhandle'[h].size > 0 => contents'[fhandle'[h].buf] = Opened(h)'
      BY <3>2, <3>4, <3>6
    <3>10. seen'[h].from <= fhandle'[h].pos /\ fhandle'[h].pos <= fhandle'[h].size
      BY <1>7, <3>1, <3>2
    <3> QED BY <2>1, <3>2, <3>5, <3>7, <3>8, <3>9, <3>10 DEF FileRead
  <2>2. CASE k # h
    <3>1. k \in InUse /\ k \in 1..Handles BY <1>12, <2>2, Uses
    <3>2. FileRead(k) BY <3>1 DEF FilesInv
    <3>3. ASSUME fhandle[k].size > 0 PROVE contents'[fhandle[k].buf] = contents[fhandle[k].buf]
      <4>1. k \in Needed BY <3>1, <3>3, Uses
      <4>2. CASE size = 0 BY <1>6, <1>19, <4>2
      <4>3. CASE size # 0
        <5>1. fhandle[k].buf # a.addr BY <1>7, <1>18, <4>1, <4>3
        <5>2. contents' = [contents EXCEPT ![a.addr] = Content(disk, f)] BY <1>6, <1>19, <4>3
        <5>3. fhandle[k].buf \in 1..MaxPages
          BY <3>1, HandleFields, Uses, Constants DEF FilesInv
        <5> QED BY <1>8, <5>1, <5>2, <5>3 DEF FilesInv, FilesTyped
      <4> QED BY <4>2, <4>3
    <3> QED BY <1>6, <1>10, <2>2, <3>1, <3>2, <3>3, OtherHandle
  <2> QED BY <2>1, <2>2
<1>21. heap' = {Area(k)' : k \in Needed'}
  <2>1. CASE size = 0
    <3>1. heap' = heap BY <1>6, <1>16, <1>17, <2>1 DEF With
    <3>3. ~(size > 0) BY <2>1
    <3>2. Needed' = Needed BY Zenon, <1>13, <3>3
    <3> QED BY <1>15, <3>1, <3>2 DEF FilesInv
  <2>2. CASE size # 0
    <3>1. heap' = heap \cup {a} BY <1>6, <1>16, <1>17, <2>2 DEF With
    <3>2. Needed' = Needed \cup {h} BY <1>7, <1>13, <2>2
    <3>3. heap = {Area(k) : k \in Needed} BY DEF FilesInv
    <3> QED BY <1>15, <3>1, <3>2, <3>3
  <2> QED BY <2>1, <2>2
<1>22. ASSUME NEW k \in Needed', NEW m \in Needed', k # m PROVE Separate(Area(k)', Area(m)')
  <2>1. CASE k = h
    <3>1. m \in Needed /\ size > 0 BY <1>13, <1>22, <1>14, <2>1
    <3> QED BY <1>15, <1>18, <2>1, <3>1
  <2>2. CASE m = h
    <3>1. k \in Needed /\ size > 0 BY <1>13, <1>22, <1>14, <2>2
    <3> QED BY <1>15, <1>18, <2>2, <3>1
  <2>3. CASE k # h /\ m # h
    <3>1. k \in Needed /\ m \in Needed BY <1>13, <2>3
    <3> QED BY <1>15, <1>22, <3>1 DEF FilesInv
  <2> QED BY <2>1, <2>2, <2>3
<1> QED BY <1>9, <1>20, <1>21, <1>22 DEF FilesInv, Separate
LEMMA NotNeeded ==
  ASSUME FilesInv, NEW h \in InUse, h \notin Needed
  PROVE  Area(h) \notin heap
<1>1. h \in 1..Handles /\ ~(fhandle[h].size > 0) /\ fhandle[h].size \in Nat
  BY Uses, HandleFields DEF FilesInv
<1>2. Area(h).pages = 0
  <2>1. PagesOf(fhandle[h].size) = 0 BY <1>1, PagesNeeded
  <2> QED BY <2>1 DEF Area
<1>3. ASSUME NEW k \in Needed PROVE Area(k).pages # 0
  <2>1. fhandle[k].size \in Nat /\ fhandle[k].size > 0 BY Uses, HandleFields DEF FilesInv
  <2>2. PagesOf(fhandle[k].size) # 0 BY <2>1, PagesNeeded
  <2> QED BY <2>2 DEF Area
<1> QED BY <1>2, <1>3 DEF FilesInv

\* The areas of two handles differ.
LEMMA AreasDiffer ==
  ASSUME FilesInv, NEW h \in Needed, NEW k \in Needed, h # k
  PROVE  Area(h) # Area(k) /\ fhandle[h].buf # fhandle[k].buf
<1>1. k \in 1..Handles /\ fhandle[k].size > 0 /\ fhandle[k].size \in Nat /\ fhandle[k].buf \in Nat
  BY Uses, HandleFields, Constants DEF FilesInv
<1>2. PICK a, n : a = Area(k) /\ n = PagesOf(fhandle[k].size) OBVIOUS
<1>3. n \in Nat /\ n > 0 BY <1>1, <1>2, PagesNeeded
<1>4. a.addr = fhandle[k].buf /\ a.pages = n BY <1>2 DEF Area
<1>5. Separate(Area(h), a) BY <1>2 DEF FilesInv
<1>6. fhandle[h].buf # a.addr /\ Area(h) # a
  BY <1>1, <1>3, <1>4, <1>5, OtherBuffer DEF FilesInv
<1> QED BY <1>2, <1>4, <1>6

LEMMA ApiCloseInv ==
  ASSUME FilesInv, NEW h \in InUse, ApiClose(h)
  PROVE  FilesInv'
<1>1. /\ fhandle' = [fhandle EXCEPT ![h] = Closed] /\ seen' = [seen EXCEPT ![h] = NothingSeen]
      /\ heap' = heap \ {Area(h)} /\ disk' = disk
      /\ contents' = IF fhandle[h].size = 0 THEN contents
                     ELSE [contents EXCEPT ![fhandle[h].buf] = <<>>]
  BY DEF ApiClose
<1>2. h \in 1..Handles BY Uses
<1>3. fhandle[h].buf \in 1..MaxPages BY <1>2, Uses, HandleFields, Constants DEF FilesInv
<1>4. FilesTyped'
  <2>1. Closed \in FileHandles BY Constants DEF Closed, FileHandles
  <2>2. NothingSeen \in Readings BY DEF NothingSeen, Readings
  <2>3. contents' \in [1..MaxPages -> Seq(Byte)] BY <1>1, <1>3 DEF FilesInv, FilesTyped
  <2> QED BY <1>1, <2>1, <2>2, <2>3 DEF FilesInv, FilesTyped
<1>5. /\ fhandle'[h].buf = 0
      /\ \A k \in 1..Handles : k # h => fhandle'[k] = fhandle[k] /\ seen'[k] = seen[k]
  BY <1>1, <1>2 DEF FilesInv, FilesTyped, Closed
<1>6. \A k : k \in InUse' <=> k \in InUse /\ k # h
  <2>1. \A k : k \in InUse' <=> k \in 1..Handles /\ fhandle'[k].buf # 0 BY DEF InUse, Unused
  <2> QED BY <1>2, <1>5, <2>1, Uses
<1>7. \A k : k \in Needed' <=> k \in Needed /\ k # h
  <2>1. \A k : k \in Needed' <=> k \in InUse' /\ fhandle'[k].size > 0 BY DEF Needed
  <2>2. \A k \in InUse : k # h => fhandle'[k] = fhandle[k] BY <1>5, Uses
  <2> QED BY <1>6, <2>1, <2>2, Uses
<1>8. \A k \in Needed : k # h => Area(k)' = Area(k)
  BY <1>5, Uses DEF Area
<1>9. ASSUME NEW k \in InUse' PROVE FileRead(k)'
  <2>1. k \in InUse /\ k # h /\ k \in 1..Handles BY <1>6, Uses
  <2>2. FileRead(k) BY <2>1 DEF FilesInv
  <2>3. ASSUME fhandle[k].size > 0 PROVE contents'[fhandle[k].buf] = contents[fhandle[k].buf]
    <3>1. CASE fhandle[h].size = 0 BY <1>1, <3>1
    <3>2. CASE fhandle[h].size # 0
      <4>1. fhandle[h].size \in Nat /\ fhandle[h].size > 0 BY <1>2, <3>2, HandleFields DEF FilesInv
      <4>2. k \in Needed /\ h \in Needed BY <2>1, <2>3, <4>1, Uses
      <4>3. fhandle[k].buf # fhandle[h].buf BY <2>1, <4>2, AreasDiffer
      <4>4. fhandle[k].buf \in 1..MaxPages BY <2>1, Uses, HandleFields, Constants DEF FilesInv
      <4> QED BY <1>1, <1>3, <3>2, <4>3, <4>4 DEF FilesInv, FilesTyped
    <3> QED BY <3>1, <3>2
  <2> QED BY <1>1, <1>5, <2>1, <2>2, <2>3, OtherHandle
<1>10. heap' = {Area(k)' : k \in Needed'}
  <2>1. heap = {Area(k) : k \in Needed} BY DEF FilesInv
  <2>2. CASE h \in Needed
    <3>1. \A k \in Needed : k # h => Area(k) # Area(h) BY <2>2, AreasDiffer
    <3> QED BY <1>1, <1>7, <1>8, <2>1, <2>2, <3>1
  <2>3. CASE h \notin Needed
    <3>1. Area(h) \notin heap BY <2>3, NotNeeded
    <3>2. heap' = heap BY <1>1, <3>1
    <3>3. \A k : k \in Needed' <=> k \in Needed BY <1>7, <2>3
    <3>4. \A k \in Needed : Area(k)' = Area(k) BY <1>8, <2>3
    <3> QED BY <2>1, <3>2, <3>3, <3>4
  <2> QED BY <2>2, <2>3
<1>11. ASSUME NEW k \in Needed', NEW m \in Needed', k # m PROVE Separate(Area(k)', Area(m)')
  BY <1>7, <1>8, <1>11 DEF FilesInv
<1> QED BY <1>4, <1>9, <1>10, <1>11 DEF FilesInv, Separate

LEMMA CloseFilesInv ==
  ASSUME FilesInv, CloseFiles
  PROVE  FilesInv'
<1>1. \A h \in 1..Handles : fhandle'[h] = Closed BY DEF CloseFiles
<1>2. InUse' = {} BY <1>1 DEF InUse, Unused, Closed
<1>3. Needed' = {} BY <1>2 DEF Needed
<1>4. FilesTyped'
  <2>1. Closed \in FileHandles BY Constants DEF Closed, FileHandles
  <2>2. NothingSeen \in Readings BY DEF NothingSeen, Readings
  <2> QED BY <2>1, <2>2 DEF CloseFiles, FilesInv, FilesTyped
<1>5. heap' = {}
  <2>1. heap \subseteq {Area(h) : h \in InUse} BY Uses DEF FilesInv
  <2> QED BY <2>1 DEF CloseFiles
<1> QED BY <1>2, <1>3, <1>4, <1>5 DEF FilesInv

LEMMA FilesInitInv == ASSUME FilesInit PROVE FilesInv
<1>1. \A h \in 1..Handles : fhandle[h] = Closed BY DEF FilesInit
<1>2. InUse = {} BY <1>1 DEF InUse, Unused, Closed
<1>3. Needed = {} BY <1>2 DEF Needed
<1>4. FilesTyped
  <2>1. Closed \in FileHandles BY Constants DEF Closed, FileHandles
  <2>2. NothingSeen \in Readings BY DEF NothingSeen, Readings
  <2> QED BY <2>1, <2>2 DEF FilesInit, FilesTyped
<1> QED BY <1>2, <1>3, <1>4 DEF FilesInit, FilesInv
LEMMA PartOf ==
  ASSUME NEW s \in Seq(Byte), NEW m \in Nat, NEW n \in Nat, n <= Len(s)
  PROVE  /\ SubSeq(s, m + 1, n) \in Seq(Byte)
         /\ Len(SubSeq(s, m + 1, n)) = IF m <= n THEN n - m ELSE 0
<1>1. \A i \in (m + 1)..n : s[i] \in Byte OBVIOUS
<1>2. SubSeq(s, m + 1, n) \in Seq(Byte)
      /\ Len(SubSeq(s, m + 1, n)) = IF m + 1 <= n THEN n - (m + 1) + 1 ELSE 0
  BY <1>1, SubSeqProperties
<1>3. (IF m + 1 <= n THEN n - (m + 1) + 1 ELSE 0) = IF m <= n THEN n - m ELSE 0 OBVIOUS
<1> QED BY <1>2, <1>3

LEMMA OpenedTyped ==
  ASSUME FilesInv, NEW h \in InUse
  PROVE  Opened(h) \in Seq(Byte) /\ Len(Opened(h)) = fhandle[h].size
BY ContentTyped DEF FilesInv, FilesTyped, FileRead, Opened, LoadedSize

\* A handle that has moved, or from which some bytes were read
LEMMA MovedInv ==
  ASSUME FilesInv, FilesTyped', NEW h \in InUse,
         NEW pos \in Nat, pos <= fhandle[h].size, NEW from \in Nat, from <= pos,
         UNCHANGED <<disk, heap, contents>>,
         \A k \in 1..Handles : k # h => fhandle'[k] = fhandle[k] /\ seen'[k] = seen[k],
         fhandle'[h].buf = fhandle[h].buf, fhandle'[h].size = fhandle[h].size,
         fhandle'[h].pos = pos,
         seen'[h].file = seen[h].file, seen'[h].from = from,
         seen'[h].bytes = SubSeq(Opened(h), from + 1, pos)
  PROVE  FilesInv'
<1>1. \A k \in 1..Handles : fhandle'[k].buf = fhandle[k].buf /\ fhandle'[k].size = fhandle[k].size
  OBVIOUS
<1>2. \A k : k \in InUse' <=> k \in InUse
  <2>1. \A k : k \in InUse' <=> k \in 1..Handles /\ fhandle'[k].buf # 0 BY DEF InUse, Unused
  <2> QED BY <1>1, <2>1, Uses
<1>3. \A k : k \in Needed' <=> k \in Needed
  <2>1. \A k : k \in Needed' <=> k \in InUse' /\ fhandle'[k].size > 0 BY DEF Needed
  <2> QED BY <1>1, <1>2, <2>1, Uses
<1>4. \A k \in 1..Handles : Area(k)' = Area(k) BY <1>1 DEF Area
<1>5. ASSUME NEW k \in InUse' PROVE FileRead(k)'
  <2>1. k \in InUse /\ FileRead(k) BY <1>2 DEF FilesInv
  <2>2. CASE k = h
    <3>1. Opened(h)' = Opened(h) /\ LoadedSize(seen[h].file)' = LoadedSize(seen[h].file)
      BY DEF Opened, LoadedSize
    <3> QED BY <2>1, <2>2, <3>1 DEF FileRead
  <2>3. CASE k # h BY <2>1, <2>3, OtherHandle, Uses
  <2> QED BY <2>2, <2>3
<1>6. heap' = {Area(k)' : k \in Needed'}
  <2>1. heap = {Area(k) : k \in Needed} BY DEF FilesInv
  <2>2. \A k \in Needed : k \in 1..Handles BY Uses
  <2> QED BY <1>3, <1>4, <2>1, <2>2
<1>7. ASSUME NEW k \in Needed', NEW m \in Needed', k # m PROVE Separate(Area(k)', Area(m)')
  <2>1. k \in Needed /\ m \in Needed BY <1>3
  <2> QED BY <1>4, <1>7, <2>1, Uses DEF FilesInv
<1> QED BY <1>5, <1>6, <1>7 DEF FilesInv, Separate

LEMMA WithinSize ==
  ASSUME NEW pos \in Int, NEW size \in Nat
  PROVE  Within(pos, size) \in Nat /\ Within(pos, size) <= size
<1>6. pos \in Int /\ size \in Int OBVIOUS
<1>1. Min({pos, size}) = IF pos <= size THEN pos ELSE size BY Zenon, <1>6, OfTwo
<1>2. PICK m \in Int : m = Min({pos, size}) /\ m <= size BY <1>1
<1>3. 0 \in Int OBVIOUS
<1>4. Max({0, m}) = IF 0 >= m THEN 0 ELSE m BY Zenon, <1>3, OfTwo
<1>5. Within(pos, size) = Max({0, m}) BY <1>2 DEF Within
<1> QED BY <1>2, <1>4, <1>5

LEMMA ApiSeekInv ==
  ASSUME FilesInv, NEW h \in InUse, NEW by \in Amounts, ApiSeek(h, by)
  PROVE  FilesInv'
<1>1. PICK whence \in {0, fhandle[h].pos, fhandle[h].size} :
        LET pos == Within(whence + by, fhandle[h].size)
        IN  /\ fhandle' = [fhandle EXCEPT ![h].pos = pos]
            /\ seen' = [seen EXCEPT ![h].from = pos, ![h].bytes = <<>>]
  BY DEF ApiSeek
<1>2. PICK pos : pos = Within(whence + by, fhandle[h].size) OBVIOUS
<1>3. /\ fhandle' = [fhandle EXCEPT ![h].pos = pos]
      /\ seen' = [seen EXCEPT ![h].from = pos, ![h].bytes = <<>>]
  BY <1>1, <1>2
<1>4. h \in 1..Handles /\ fhandle[h] \in FileHandles /\ seen[h] \in Readings
  BY Uses DEF FilesInv, FilesTyped
<1>5. pos \in Nat /\ pos <= fhandle[h].size
  <2>1. fhandle[h].pos \in Nat /\ fhandle[h].size \in Nat BY <1>4 DEF FileHandles
  <2>2. by \in Int /\ whence \in Int BY <2>1, Constants
  <2>3. PICK x \in Int : x = whence + by BY <2>2
  <2> QED BY <1>2, <2>1, <2>3, WithinSize
<1>16. <<>> \in Seq(Byte) BY EmptySeq
<1>0. PICK z \in Seq(Byte) : z = <<>> BY <1>16
<1>6. PICK e, s : /\ e = [fhandle[h] EXCEPT !.pos = pos]
                  /\ s = [seen[h] EXCEPT !.from = pos, !.bytes = z]
  OBVIOUS
<1>7. /\ e \in FileHandles /\ e.buf = fhandle[h].buf /\ e.size = fhandle[h].size /\ e.pos = pos
  BY <1>4, <1>5, <1>6 DEF FileHandles
<1>8. s \in Readings /\ s.file = seen[h].file /\ s.from = pos /\ s.bytes = z
  BY <1>4, <1>5, <1>6 DEF Readings
<1>9. fhandle' = [fhandle EXCEPT ![h] = e] /\ seen' = [seen EXCEPT ![h] = s]
  BY <1>0, <1>3, <1>4, <1>6 DEF FilesInv, FilesTyped
<1>10. UNCHANGED <<disk, heap, contents>> BY DEF ApiSeek
<1>11. FilesTyped' BY <1>7, <1>8, <1>9, <1>10 DEF FilesInv, FilesTyped
<1>12. /\ fhandle'[h] = e /\ seen'[h] = s
       /\ \A k \in 1..Handles : k # h => fhandle'[k] = fhandle[k] /\ seen'[k] = seen[k]
  BY <1>4, <1>9 DEF FilesInv, FilesTyped
<1>13. SubSeq(Opened(h), pos + 1, pos) = <<>>
  <2>1. pos + 1 \in Int /\ pos \in Int /\ pos < pos + 1 BY <1>5
  <2> QED BY <2>1, SubSeqEmpty
<1>14. seen'[h].bytes = SubSeq(Opened(h), pos + 1, pos) BY <1>0, <1>8, <1>12, <1>13
<1>15. pos <= pos BY <1>5
<1> QED BY <1>5, <1>7, <1>8, <1>10, <1>11, <1>12, <1>14, <1>15, MovedInv

\* A read that ends at pos goes on where the last one has stopped.
ReadTo(h, wanted, pos) ==
  /\ fhandle[h].pos <= pos /\ pos <= fhandle[h].size
  /\ fhandle[h].pos + Len(ReadBytes(h, wanted)) = pos
  /\ seen[h].bytes \o ReadBytes(h, wanted) = SubSeq(Opened(h), seen[h].from + 1, pos)

LEMMA ReadFollows ==
  ASSUME FilesInv, NEW h \in InUse, NEW wanted \in Int
  PROVE  \E pos \in Nat : ReadTo(h, wanted, pos)
<1>1. PICK s, m, k, n : /\ s = Opened(h) /\ m = seen[h].from /\ k = fhandle[h].pos
                        /\ n = fhandle[h].size
  OBVIOUS
<1>2. m \in Nat /\ k \in Nat /\ n \in Nat /\ seen[h].bytes \in Seq(Byte)
  BY <1>1, HandleFields, Uses DEF FilesInv
<1>3. s \in Seq(Byte) /\ Len(s) = n BY <1>1, OpenedTyped
<1>4. m <= k /\ k <= n /\ seen[h].bytes = SubSeq(s, m + 1, k) /\ (n > 0 => contents[fhandle[h].buf] = s)
  BY <1>1 DEF FilesInv, FileRead
<1>5. PICK e : e = Min({k + wanted, n}) OBVIOUS
<1>6. e \in Int /\ e <= n
  <2>1. PICK x \in Int : x = k + wanted BY <1>2
  <2>2. n \in Int BY <1>2
  <2>3. Min({x, n}) = IF x <= n THEN x ELSE n BY Zenon, <2>1, <2>2, OfTwo
  <2> QED BY <1>2, <1>5, <2>1, <2>3
<1>7. PICK bytes : bytes = ReadBytes(h, wanted) OBVIOUS
<1>8. bytes = SubSeq(contents[fhandle[h].buf], k + 1, e)
  BY <1>1, <1>5, <1>7 DEF ReadBytes
<1>9. CASE e <= k
  <2>1. k + 1 \in Int /\ e < k + 1 BY <1>2, <1>6, <1>9
  <2>2. bytes = <<>> BY <1>6, <1>8, <2>1, SubSeqEmpty
  <2>3. seen[h].bytes \o bytes = seen[h].bytes BY <1>2, <2>2
  <2>4. Len(bytes) = 0 BY <2>2
  <2>5. k + Len(bytes) = k /\ k <= k BY <1>2, <2>4
  <2>6. ReadTo(h, wanted, k) BY <1>1, <1>4, <1>7, <2>3, <2>5 DEF ReadTo
  <2> QED BY <1>2, <2>6
<1>10. CASE e > k
  <2>1. e \in Nat /\ n > 0 /\ k <= e BY <1>2, <1>6, <1>10
  <2>2. bytes = SubSeq(s, k + 1, e) BY <1>4, <1>8, <2>1
  <2>3. Len(bytes) = e - k BY <1>2, <1>3, <1>6, <2>1, <2>2, PartOf
  <2>4. SubSeq(s, m + 1, k) \o SubSeq(s, k + 1, e) = SubSeq(s, m + 1, e)
    <3>1. /\ m + 1 \in 1..(Len(s) + 1) /\ k \in ((m + 1) - 1)..Len(s) /\ e \in k..Len(s)
      BY <1>2, <1>3, <1>4, <1>6, <2>1
    <3> QED BY <1>3, <3>1, ConcatAdjacentSubSeq
  <2>5. k + Len(bytes) = e BY <1>2, <2>1, <2>3
  <2>6. seen[h].bytes \o bytes = SubSeq(s, m + 1, e) BY <1>4, <2>2, <2>4
  <2>7. ReadTo(h, wanted, e) BY <1>1, <1>6, <1>7, <2>1, <2>5, <2>6 DEF ReadTo
  <2> QED BY <2>1, <2>7
<1> QED BY <1>2, <1>6, <1>9, <1>10

LEMMA ApiReadInv ==
  ASSUME FilesInv, NEW h \in InUse, NEW wanted \in Amounts, ApiRead(h, wanted)
  PROVE  FilesInv'
<1>1. PICK bytes : bytes = ReadBytes(h, wanted) OBVIOUS
<1>2. /\ seen' = [seen EXCEPT ![h].bytes = @ \o bytes]
      /\ fhandle' = [fhandle EXCEPT ![h].pos = @ + Len(bytes)]
      /\ UNCHANGED <<disk, heap, contents>>
  BY <1>1 DEF ApiRead
<1>3. h \in 1..Handles /\ fhandle[h] \in FileHandles /\ seen[h] \in Readings
  BY Uses DEF FilesInv, FilesTyped
<1>4. PICK from : from = seen[h].from /\ from \in Nat /\ from <= fhandle[h].pos
  BY <1>3 DEF FilesInv, FileRead, Readings
<1>5. wanted \in Int BY Constants
<1>6. PICK pos \in Nat : /\ fhandle[h].pos <= pos /\ pos <= fhandle[h].size
                         /\ fhandle[h].pos + Len(bytes) = pos
                         /\ seen[h].bytes \o bytes = SubSeq(Opened(h), from + 1, pos)
  BY <1>1, <1>4, <1>5, ReadFollows DEF ReadTo
<1>7. PICK t : t = SubSeq(Opened(h), from + 1, pos) OBVIOUS
<1>8. t \in Seq(Byte) BY <1>4, <1>6, <1>7, OpenedTyped, PartOf
<1>9. PICK e, s : e = [fhandle[h] EXCEPT !.pos = pos] /\ s = [seen[h] EXCEPT !.bytes = t] OBVIOUS
<1>10. /\ e \in FileHandles /\ e.buf = fhandle[h].buf /\ e.size = fhandle[h].size /\ e.pos = pos
  BY <1>3, <1>9 DEF FileHandles
<1>11. s \in Readings /\ s.file = seen[h].file /\ s.from = from /\ s.bytes = t
  BY <1>3, <1>4, <1>8, <1>9 DEF Readings
<1>12. fhandle' = [fhandle EXCEPT ![h] = e] /\ seen' = [seen EXCEPT ![h] = s]
  <2>1. fhandle' = [fhandle EXCEPT ![h].pos = pos] BY <1>2, <1>6
  <2>2. seen' = [seen EXCEPT ![h].bytes = t] BY <1>2, <1>6, <1>7
  <2> QED BY <1>3, <1>9, <2>1, <2>2
<1>13. FilesTyped' BY <1>2, <1>10, <1>11, <1>12 DEF FilesInv, FilesTyped
<1>14. /\ fhandle'[h] = e /\ seen'[h] = s
       /\ \A k \in 1..Handles : k # h => fhandle'[k] = fhandle[k] /\ seen'[k] = seen[k]
  BY <1>3, <1>12 DEF FilesInv, FilesTyped
<1>15. fhandle[h].pos \in Nat /\ fhandle[h].size \in Nat BY <1>3 DEF FileHandles
<1>16. from <= pos BY <1>4, <1>6, <1>15
<1> QED BY <1>2, <1>4, <1>6, <1>7, <1>10, <1>11, <1>13, <1>14, <1>16, MovedInv

LEMMA FilesFollow ==
  ASSUME FilesInv
  PROVE  HeapExact /\ ReadInOrder
<1>1. HeapExact
  <2>1. heap = {Area(h) : h \in Needed} BY DEF FilesInv
  <2>2. IsFiniteSet(Needed)
    <3>1. IsFiniteSet(1..Handles) BY Constants, FS_Interval
    <3>2. Needed \subseteq 1..Handles BY Uses
    <3> QED BY <3>1, <3>2, FS_Subset
  <2>3. PICK f : f = [h \in Needed |-> Area(h)] OBVIOUS
  <2>4. f \in [Needed -> heap] BY <2>1, <2>3
  <2>5. f \in Injection(Needed, heap)
    <3>1. \A h, k \in Needed : f[h] = f[k] => h = k BY <2>3, AreasDiffer
    <3> QED BY <2>4, <3>1 DEF Injection, IsInjective
  <2>6. f \in Surjection(Needed, heap)
    <3>1. \A a \in heap : \E h \in Needed : f[h] = a BY <2>1, <2>3
    <3> QED BY <2>4, <3>1 DEF Surjection
  <2>7. Cardinality(heap) = Cardinality(Needed)
    BY <2>2, <2>5, <2>6, FS_Surjection
  <2> QED BY <2>1, <2>7 DEF HeapExact
<1>2. ReadInOrder
  <2>1. ASSUME NEW h \in InUse
        PROVE  /\ fhandle[h].size = Len(Content(disk, seen[h].file))
               /\ fhandle[h].pos \in 0..fhandle[h].size
               /\ seen[h].bytes = SubSeq(Content(disk, seen[h].file), seen[h].from + 1, fhandle[h].pos)
    <3>1. FileRead(h) /\ Len(Opened(h)) = fhandle[h].size BY OpenedTyped DEF FilesInv
    <3>2. fhandle[h].pos \in Nat /\ fhandle[h].size \in Nat
      BY HandleFields, Uses DEF FilesInv
    <3>3. fhandle[h].pos \in 0..fhandle[h].size BY <3>1, <3>2 DEF FileRead
    <3> QED BY <3>1, <3>3 DEF FileRead, Opened
  <2> QED BY <2>1 DEF ReadInOrder
<1> QED BY <1>1, <1>2

-----------------------------------------------------------------------------
(* The runs: the boot sector, and then an application with its files *)

\* What the boot sector has read, asmhead.nas copies to ADR_DISKIMG.
LEMMA ImageIsRead == ASSUME BootInv, pc = "done" PROVE Image
<1>1. DOMAIN memory = 65..(64 + Sectors) BY DEF BootInv
<1>2. Sectors \in Nat BY SectorsBound
<1>3. ASSUME NEW c \in Nat, c >= 2, c <= Sectors - 31 PROVE memory[64 + 31 + c] = 31 + c
  <2>1. PICK p : p = 64 + 31 + c OBVIOUS
  <2>2. p \in 65..(64 + Sectors) BY <1>2, <1>3, <2>1
  <2>3. memory[p] = p - 64 BY <1>1, <2>2 DEF BootInv
  <2> QED BY <1>3, <2>1, <2>3
<1> QED BY <1>3 DEF Image

\* A call of the application, or its end
LEMMA FilesNextInv == ASSUME FilesInv, Image, FilesNext PROVE FilesInv'
<1>1. ASSUME NEW nm \in Names, ApiOpen(nm) PROVE FilesInv' BY <1>1, ApiOpenInv
<1>2. ASSUME NEW h \in InUse, ApiClose(h) PROVE FilesInv' BY <1>2, ApiCloseInv
<1>3. ASSUME NEW h \in InUse, NEW n \in Amounts, ApiSeek(h, n) PROVE FilesInv'
  BY <1>3, ApiSeekInv
<1>4. ASSUME NEW h \in InUse, NEW n \in Amounts, ApiRead(h, n) PROVE FilesInv'
  BY <1>4, ApiReadInv
<1>5. CASE CloseFiles BY <1>5, CloseFilesInv
<1> QED BY <1>1, <1>2, <1>3, <1>4, <1>5 DEF FilesNext

LEMMA StepInv ==
  ASSUME BootInv, FilesInv, [Step]_<<vars, filesVars>>
  PROVE  BootInv' /\ FilesInv'
<1>1. ASSUME UNCHANGED vars PROVE BootInv' BY <1>1 DEF vars, BootInv, Here, Number
<1>2. ASSUME UNCHANGED filesVars PROVE FilesInv'
  <2>1. disk' = disk /\ fhandle' = fhandle /\ heap' = heap /\ contents' = contents /\ seen' = seen
    BY <1>2 DEF filesVars
  <2>2. FilesTyped' BY <2>1 DEF FilesInv, FilesTyped
  <2>3. InUse' = InUse /\ Needed' = Needed BY <2>1 DEF InUse, Unused, Needed
  <2>4. \A h : Area(h)' = Area(h) BY <2>1 DEF Area
  <2>5. \A h : Opened(h)' = Opened(h) BY Zenon, <2>1 DEF Opened
  <2>6. \A h : LoadedSize(seen[h].file)' = LoadedSize(seen[h].file) BY <2>1 DEF LoadedSize
  <2>7. \A h \in InUse : FileRead(h)' BY <2>1, <2>5, <2>6 DEF FilesInv, FileRead
  <2> QED BY <2>1, <2>2, <2>3, <2>4, <2>7 DEF FilesInv
<1>3. ASSUME Next PROVE BootInv'
  BY <1>1, <1>3, ReadfastInv, BootNextInv, FailInv DEF Next, Ended
<1>4. ASSUME pc = "done", FilesNext PROVE FilesInv' BY <1>4, ImageIsRead, FilesNextInv
<1> QED BY <1>1, <1>2, <1>3, <1>4 DEF Step

LEMMA FilesHold == FilesSpec => [](BootInv /\ FilesInv)
<1>1. FilesInit => BootInv /\ FilesInv BY BootInitInv, FilesInitInv DEF FilesInit
<1>2. BootInv /\ FilesInv /\ [Step]_<<vars, filesVars>> => (BootInv /\ FilesInv)'
  BY StepInv
<1> QED BY <1>1, <1>2, PTL DEF FilesSpec

\* The memory that is allocated is at all times that of the open files, one area for
\* each that is not empty: opening (also what is unpacked, whose packed copy is freed),
\* closing and the end of the application lose nothing and free nothing twice.
THEOREM HeapIsExact == FilesSpec => []HeapExact
<1>1. BootInv /\ FilesInv => HeapExact BY FilesFollow
<1> QED BY <1>1, FilesHold, PTL

\* For every diskette and any calls of api_fopen, api_fseek, api_fread and
\* api_fclose, what is read from a file is the file, from where reading began and in
\* one piece: the boot sector, the table of clusters and file_loadfile lose no byte.
THEOREM FilesReadInOrder == FilesSpec => []ReadInOrder
<1>1. BootInv /\ FilesInv => ReadInOrder BY FilesFollow
<1> QED BY <1>1, FilesHold, PTL
=============================================================================
