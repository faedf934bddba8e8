------------------------------ MODULE TaskAFifo -----------------------------
(* The FIFO of task A, in which the bytes of the keyboard and of the mouse  *)
(* come together (bootpack.c; what it does is Fifo's).                      *)
EXTENDS Integers, Sequences

CONSTANTS FifoSize         \* its places

ASSUME TaskAFifoAssumption == FifoSize \in Nat \ {0}

VARIABLES fifo,            \* the bytes: [dat, nth], the n-th of a mouse report
          overrun          \* was anything refused?

None == -1
Key == -1                  \* nth of a byte from the keyboard: 256, not 512

\* What a FIFO of this size takes of these data
Taken(q, data, size) ==
  q \o SubSeq(data, 1, IF Len(q) + Len(data) > size THEN size - Len(q) ELSE Len(data))

\* An interrupt handler
Put(byte) ==
  /\ fifo' = Taken(fifo, <<byte>>, FifoSize)
  /\ overrun' = (overrun \/ Len(fifo) = FifoSize)
=============================================================================
