---------------------------- MODULE BoundedQueue ----------------------------
(***************************************************************************)
(* What a FIFO32 promises to the tasks and handlers of Haribote OS: a      *)
(* bounded queue with one consumer.  Data leave in the order in which they *)
(* were accepted, a datum is refused exactly when the queue is full, and   *)
(* the consumer sleeps only while there is nothing to consume.  fifo.c is  *)
(* shown to implement this in Fifo.tla.                                    *)
(***************************************************************************)
EXTENDS Naturals, Sequences

CONSTANTS Data,      \* what may be put in the queue
          Capacity,  \* how many data it holds
          Refused,   \* what a call returns when it can do nothing
          Accepted   \* what a successful put returns

VARIABLES queue,     \* the data accepted and not yet taken
          overrun,   \* has a datum ever been refused?
          asleep,    \* is the consumer asleep?
          ret        \* what the last call returned

vars == <<queue, overrun, asleep, ret>>

Init ==
  /\ queue = <<>>
  /\ overrun = FALSE
  /\ asleep = FALSE
  /\ ret = Accepted

Put(d) ==
  \/ /\ Len(queue) < Capacity
     /\ queue' = Append(queue, d)
     /\ asleep' = FALSE
     /\ ret' = Accepted
     /\ UNCHANGED overrun
  \/ /\ Len(queue) = Capacity
     /\ overrun' = TRUE
     /\ ret' = Refused
     /\ UNCHANGED <<queue, asleep>>

Take ==
  /\ ~asleep
  /\ \/ /\ queue # <<>>
        /\ queue' = Tail(queue)
        /\ ret' = Head(queue)
     \/ /\ queue = <<>>
        /\ ret' = Refused
        /\ UNCHANGED queue
  /\ UNCHANGED <<overrun, asleep>>

Sleep ==
  /\ ~asleep
  /\ queue = <<>>
  /\ asleep' = TRUE
  /\ UNCHANGED <<queue, overrun, ret>>

Next == Take \/ Sleep \/ \E d \in Data : Put(d)

Spec == Init /\ [][Next]_vars
=============================================================================
