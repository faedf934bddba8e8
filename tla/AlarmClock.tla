----------------------------- MODULE AlarmClock -----------------------------
(***************************************************************************)
(* What the timers of Haribote OS promise their users: a timer that is set *)
(* rings once, at the first tick at which its time has come, unless it is  *)
(* cancelled; the timers that ring at the same tick ring in the order of   *)
(* their deadlines.  One timer, Metronome, is set again by the tick that   *)
(* makes it ring.  Timer.tla shows that timer.c implements this.           *)
(***************************************************************************)
EXTENDS Integers, FiniteSets, Sequences

CONSTANTS Timers,     \* the timers
          Metronome,  \* the timer that is set again when it rings
          Delays,     \* the delays a timer may be set to
          Beats,      \* the delays Metronome may be set to
          Off         \* the deadline of a timer that is not running

VARIABLES now,        \* the time
          deadline,   \* the deadline of each timer
          rung        \* the timers that rang in the last step, in order

vars == <<now, deadline, rung>>

Init ==
  /\ now = 0
  /\ \E d \in Beats :
       deadline = [t \in Timers |-> IF t = Metronome THEN d ELSE Off]
  /\ rung = <<>>

Set(t, d) ==
  /\ deadline[t] = Off
  /\ deadline' = [deadline EXCEPT ![t] = now + d]
  /\ rung' = <<>>
  /\ UNCHANGED now

Cancel(S) ==
  /\ deadline' = [t \in Timers |-> IF t \in S THEN Off ELSE deadline[t]]
  /\ rung' = <<>>
  /\ UNCHANGED now

Due == {t \in Timers : deadline[t] # Off /\ deadline[t] <= now + 1}

\* s lists the timers of Due, the earlier deadlines first.
InOrder(s) ==
  /\ {s[i] : i \in DOMAIN s} = Due
  /\ \A i, j \in DOMAIN s : i < j => deadline[s[i]] <= deadline[s[j]]

Tick ==
  /\ now' = now + 1
  /\ rung' \in [1..Cardinality(Due) -> Timers]
  /\ InOrder(rung')
  /\ \E d \in Beats :
       deadline' = [t \in Timers |->
                      IF t \notin Due THEN deadline[t]
                      ELSE IF t = Metronome THEN now' + d ELSE Off]

Next ==
  \/ Tick
  \/ \E t \in Timers, d \in Delays : Set(t, d)
  \/ \E S \in SUBSET (Timers \ {Metronome}) : Cancel(S)

Spec == Init /\ [][Next]_vars
=============================================================================
