----------------------------- MODULE WindowStack -----------------------------
(***************************************************************************)
(* What sheet.c promises: windows lie on top of each other, and the screen *)
(* shows at each pixel the topmost window that is not transparent there.   *)
(***************************************************************************)
EXTENDS Integers, Sequences, FiniteSetsExt, SequencesExt

CONSTANTS Windows, Pixels,
          Clear     \* no colour: the window is transparent, or not there

VARIABLES stack,    \* the visible windows, the lowest first
          looks,    \* looks[w][p]: what w wants to show at p, or Clear
          screen    \* what is seen

vars == <<stack, looks, screen>>

\* The picture that a stack of windows gives.
Picture(st, lk) ==
  [p \in Pixels |->
     lk[st[Max({i \in DOMAIN st : lk[st[i]][p] # Clear})]][p]]

\* Each window is in it once at most.
IsStack(st) == st \in Seq(Windows) /\ IsInjective(st)

\* u is in the stack, at v or under it.
NotAbove(st, u, v) == \E i, k \in DOMAIN st : i <= k /\ st[i] = u /\ st[k] = v

Init == IsStack(stack) /\ screen = Picture(stack, looks)

\* A window moves, or draws, or is replaced by a new one while it is hidden.
Change(w) ==
  /\ stack' = stack
  /\ \A v \in Windows \ {w} : looks'[v] = looks[v]

\* A window is shown, raised, lowered, or hidden: the others keep their order.
Restack(w) ==
  /\ IsStack(stack')
  /\ \A u, v \in Windows \ {w} : NotAbove(stack', u, v) <=> NotAbove(stack, u, v)
  /\ \A v \in Windows \ {w} : looks'[v] = looks[v]

Next == /\ \E w \in Windows : Change(w) \/ Restack(w)
        /\ screen' = Picture(stack', looks')

Spec == Init /\ [][Next]_vars
=============================================================================
