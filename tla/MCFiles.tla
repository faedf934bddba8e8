------------------------------ MODULE MCFiles -------------------------------
(* Diskettes with a file of three clusters, one of exactly one cluster, an   *)
(* empty one, a compressed one and a directory of the same name as a file.   *)
(* Names of at most three and two characters.                                *)
EXTENDS Files, TLC

MCUpper == ("a" :> "A") @@ ("B" :> "B")

File(name, clusters, size, unpacked) ==
  [name |-> name, type |-> 32, clusters |-> clusters, size |-> size, unpacked |-> unpacked]

Disk(c1, c2, c3) ==
  <<[File(<<"A", " ", " ", " ", " ">>, <<6>>, 8, 0) EXCEPT !.type = 16],
    File(<<"A", " ", " ", " ", " ">>, <<c1, c2, c3>>, 20, 0),
    File(<<"A", "B", "A", "B", "A">>, <<7>>, 8, 0),
    File(<<"B", " ", " ", "A", " ">>, <<0>>, 0, 0),
    File(<<"B", " ", " ", "B", " ">>, <<172, 8, 9>>, 17, 36)>>

\* Scattered, and backwards
MCDisks == {Disk(2, 219, 291), Disk(292, 85, 5)}
MCNames == {<<"a">>, <<"a", "B", "a", "B", "a">>, <<"B", ".", "a">>, <<"B", ".", "B">>}
MCAmounts == {-4, 8}
=============================================================================
