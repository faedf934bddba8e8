---------------------------- MODULE MCAlgorithms ----------------------------
(* The loops that only work on data: a behaviour is one of one of them, and *)
(* the others stay where they begin.                                        *)
EXTENDS FileName, TekLz, TekRange, TekLzma, TextOut, LineWin, Calc, TView, Memtest, Dsctbl, TLC

VARIABLES part

rangeStart == <<Word - 1, 0, [c \in Contexts |-> One \div 2], [t |-> 1, m |-> 4, lt |-> FALSE], 0>>

testStart ==
  <<FALSE, [memory |-> <<>>, cache |-> <<>>, enabled |-> FALSE], <<>>, FALSE, "eflags", start>>

\* Only the range decoder and the memory test begin in several states.
Init ==
  /\ part \in {"name", "lz", "range", "lzma", "text", "line", "calc", "view", "test", "dsctbl"}
  /\ RangeInit
  /\ part = "range" \/ rangeVars = rangeStart
  /\ MemtestInit
  /\ part = "test" \/ memtestVars = testStart
  /\ NameInit /\ LzInit /\ LzmaInit /\ TextInit /\ LineInit
  /\ CalcInit /\ TViewInit /\ DsctblInit

Next ==
  /\ UNCHANGED part
  /\ \/ part = "name" /\ NameNext
     \/ part # "name" /\ UNCHANGED <<name, a>>
  /\ \/ part = "lz" /\ LzNext
     \/ part # "lz" /\ UNCHANGED lzVars
  /\ \/ part = "range" /\ RangeNext
     \/ part # "range" /\ UNCHANGED rangeVars
  /\ \/ part = "lzma" /\ LzmaNext
     \/ part # "lzma" /\ UNCHANGED lzmaVars
  /\ \/ part = "text" /\ TextNext
     \/ part # "text" /\ UNCHANGED textVars
  /\ \/ part = "line" /\ LineNext
     \/ part # "line" /\ UNCHANGED lineVars
  /\ \/ part = "calc" /\ CalcNext
     \/ part # "calc" /\ UNCHANGED calcVars
  /\ \/ part = "view" /\ TViewNext
     \/ part # "view" /\ UNCHANGED tviewVars
  /\ \/ part = "test" /\ MemtestNext
     \/ part # "test" /\ UNCHANGED memtestVars
  /\ \/ part = "dsctbl" /\ DsctblNext
     \/ part # "dsctbl" /\ UNCHANGED dsctblVars

Spec ==
  Init /\ [][Next]_<<part, name, a, lzVars, rangeVars, lzmaVars, textVars, lineVars,
                     calcVars, tviewVars, memtestVars, dsctblVars>>

-----------------------------------------------------------------------------
(* File names of at most three and two characters, a small letter and a     *)
(* capital                                                                  *)
MCUpper == ("a" :> "A") @@ ("B" :> "B")

\* Copies and rounds: counts, distances and lengths around every border between
\* numbers of different lengths, bytes of bits that fall between data
Copy(d, m, h) == [dis |-> d, len |-> m, how |-> h]
Round(n, copies) == [bytes |-> [k \in 1..n |-> (7 * k) % 251], copies |-> copies]
Hows == {"rep", "near", "far"}

MCPlans ==
  {<<Round(n, <<Copy(d, m, h)>>)>> :
     n \in {9, 15, 16, 17, 18}, d \in {1, 2, 9}, m \in {2, 16, 17}, h \in Hows}
  \cup {<<Round(20, <<Copy(d, 2, h), Copy(e, 3, h), Copy(d, 2, h), Copy(f, 2, h), Copy(e, 18, h)>>),
          Round(1, <<>>)>> : d \in {3, 14}, e \in {1, 4, 11}, f \in {2, 14, 20}, h \in Hows}
  \cup {<<Round(1, [k \in 1..n |-> Copy(1, 2, "rep")]), Round(2, <<Copy(3, m, h)>>)>> :
          n \in {1, 15, 16, 17, 18}, m \in {15, 144, 145, 150}, h \in Hows}
  \cup {<<Round(150, <<Copy(d, 2, h), Copy(2, 2, h), Copy(d, 2, h)>>)>> :
          d \in {8, 135, 136, 139}, h \in Hows}
  \cup {<<Round(300, <<Copy(300, 2, "far")>>)>>}
  \cup {<<Round(4, <<Copy(4, 2, h), Copy(3, 3, h)>>)>> : h \in Hows}

\* Models that follow the bits by 1/2 to 1/8 and in parts of 1 to 4
MCModels == [t : {1, 2, 4}, m : {2, 8}, lt : {TRUE}] \cup {[t |-> 1, m |-> 4, lt |-> FALSE]}

\* Characters at the borders of the encodings
MCKanji == ({1, 2, 62, 63, 94} \X {1, 64, 94}) \cup {<<1, 63>>}

\* All directions and slopes, and lines long enough for their rounding to add up
MCLines ==
  [x0 : {0, 9}, y0 : {0, 9}, x1 : 0..9, y1 : 0..9]
    \cup [x0 : {0}, y0 : {0}, x1 : {200}, y1 : 190..200]

\* All short texts of characters of one and two bytes, tabs and newlines
MCTexts ==
  LET Characters == {<<"x">>, <<"1", "2">>, <<"tab">>, <<NL>>}
  IN  UNION {[1..n -> Characters] : n \in 1..3}
        \cup {<< <<"x">>, <<"0x0d">>, <<NL>>, c, d >> : c \in Characters, d \in Characters}

\* Limits and bases around the borders of their fields
MCSegments ==
  [limit : {0, 103, 65535, 65536, 1048574, 1048575, 1048576, 1052671, 1052672, 2147483647},
   base : {0, 255, 65535, 65536, 16777215, 16777216, 1450744508, 2147483647},
   ar : {130, 16538, 16626}]
MCGates == [offset : {65535, 2147483647}, selector : {16}, ar : {142, 238}]
=============================================================================
