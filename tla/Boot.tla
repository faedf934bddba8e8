-------------------------------- MODULE Boot --------------------------------
(***************************************************************************)
(* The boot sector, ipl09.nas: readfast reads the first CYLS cylinders of  *)
(* the diskette in as few requests as it can.  A request stays on a track  *)
(* and, for the DMA controller, within 64KB of memory; one that fails is   *)
(* made again, five times at most.                                         *)
(*                                                                         *)
(* The registers are numbers of 8 or 16 bits.  The disk BIOS is external.  *)
(***************************************************************************)
EXTENDS Integers

CONSTANT CYLS              \* 9

\* So far there is memory below 0xa0000.
ASSUME BootAssumption == CYLS \in 1..33

VARIABLES pc,              \* "readfast", "retry", "done" or "error"
          ES, CH, DH, CL,  \* where to read to; cylinder, head, sector
          BX,              \* sectors that are left
          AL,              \* sectors of this request
          SI,              \* failures of this request
          memory           \* memory[p] is the sector that was read to 512 * p

vars == <<pc, ES, CH, DH, CL, BX, AL, SI, memory>>

\* The number of a sector on the diskette, from 0
Number(cylinder, head, sector) == (cylinder * 2 + head) * 18 + sector - 1

Least2(a, b) == IF a <= b THEN a ELSE b

Init ==
  /\ pc = "readfast"
  /\ ES = 2080                                 \* 0x0820
  /\ CH = 0 /\ DH = 0 /\ CL = 2
  /\ BX = 18 * 2 * CYLS - 1
  /\ AL = 0 /\ SI = 0
  /\ memory = [p \in {} |-> 0]

\* The sectors up to the next border of 64KB: SHL AX,3, of which AH is taken
ToBorder(es) == 128 - ((((es * 8) % 65536) \div 256) % 128)

\* Mutant: BL alone is compared.
LowByte(bx) == bx % 256

\* BL, or 18 if BX has more than eight bits
Remaining(bx) == IF bx \div 256 # 0 THEN 18 ELSE bx % 256

\* Mutant: one sector more than the track has.
ToTrackEndAndOne(cl) == 20 - cl

ToTrackEnd(cl) == 19 - cl

readfast ==
  /\ pc = "readfast"
  /\ AL' = Least2(Least2(ToBorder(ES), Remaining(BX)), ToTrackEnd(CL))
  /\ SI' = 0
  /\ pc' = "retry"
  /\ UNCHANGED <<ES, CH, DH, CL, BX, memory>>

\* INT 0x13 reads the sectors.
Places == (ES \div 32)..(ES \div 32 + AL - 1)
Read == [p \in DOMAIN memory \cup Places |->
          IF p \in Places THEN Number(CH, DH, CL) + p - ES \div 32 ELSE memory[p]]

\* Mutant: the head is not changed back at the next cylinder.
HeadKept == IF CL + AL <= 18 THEN <<CH, DH, CL + AL>>
            ELSE IF DH + 1 < 2 THEN <<CH, DH + 1, 1>> ELSE <<CH + 1, DH, 1>>

\* The cylinder, head and sector after a request
Following == IF CL + AL <= 18 THEN <<CH, DH, CL + AL>>
             ELSE IF DH + 1 < 2 THEN <<CH, DH + 1, 1>> ELSE <<CH + 1, 0, 1>>

\* "to next, if there is no error"
next ==
  /\ pc = "retry"
  /\ memory' = Read
  /\ ES' = (((ES \div 32) + AL) * 32) % 65536
  /\ BX' = BX - AL
  /\ IF BX = AL THEN pc' = "done" /\ UNCHANGED <<CH, DH, CL>>
     ELSE /\ pc' = "readfast"
          /\ CH' = Following[1] /\ DH' = Following[2] /\ CL' = Following[3]
  /\ UNCHANGED <<AL, SI>>

\* The request fails; what it has left in memory is read again.
Fail ==
  /\ pc = "retry"
  /\ SI' = SI + 1
  /\ pc' = IF SI + 1 >= 5 THEN "error" ELSE "retry"
  /\ UNCHANGED <<ES, CH, DH, CL, BX, AL, memory>>

\* The program has been started, or the processor halts for ever.
Ended == pc \in {"done", "error"} /\ UNCHANGED vars

Next == readfast \/ next \/ Fail \/ Ended

\* The BIOS answers every request.
Spec == Init /\ [][Next]_vars /\ WF_vars(readfast) /\ WF_vars(next \/ Fail)

-----------------------------------------------------------------------------
(* Properties *)

Sectors == 18 * 2 * CYLS - 1

\* Every request is one that the disk BIOS and the DMA controller can serve:
\* of one track, of one area of 64KB, and not empty.
RequestIsLegal ==
  pc = "retry" =>
    /\ AL > 0 /\ CL \in 1..18 /\ CL + AL <= 19
    /\ DH \in 0..1 /\ CH < CYLS
    /\ ((ES \div 32) % 128) + AL <= 128

\* Sector n is read to 0x8000 + 512 * n and nowhere else, whatever fails on the
\* way; when haribote.sys is started all of them are there.
InPlace ==
  /\ \A p \in DOMAIN memory : memory[p] = p - 64
  /\ pc = "done" => DOMAIN memory = 65..(64 + Sectors)

\* readfast asks for what can be read, and it gets where it belongs.
SectorsArrive == RequestIsLegal /\ InPlace

\* The boot sector starts the program or says that it cannot.
BootEnds == <>(pc \in {"done", "error"})
=============================================================================
