------------------------------ MODULE MCTables ------------------------------
(* The two lists that the system hands out from: the timers, and the free   *)
(* memory.  A behaviour is one of one of them, and the other stays as it is *)
(* after the boot.                                                          *)
EXTENDS Timer, Memman

VARIABLES part

TablesInit == Init /\ MemInit /\ part \in {"timers", "memory"}

TablesNext ==
  /\ UNCHANGED part
  /\ \/ part = "timers" /\ Next /\ UNCHANGED memVars
     \/ part = "memory" /\ MemNext /\ UNCHANGED vars

TablesSpec == TablesInit /\ [][TablesNext]_<<part, vars, memVars>>

\* The two areas that HariMain gives to the manager, and a gap between them
MCAreas == {Area(1, 4), Area(7, 3)}
=============================================================================
