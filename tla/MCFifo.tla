------------------------------- MODULE MCFifo -------------------------------
(* A FIFO of three places and two different data: every position of p and q, *)
(* a full buffer, an overrun and a wrapped buffer all happen.                 *)
EXTENDS Fifo
=============================================================================
