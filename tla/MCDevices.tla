----------------------------- MODULE MCDevices ------------------------------
(* A window of 40 x 30 pixels on a screen of 60 x 60; keys alone, the mouse *)
(* alone, and both.                                                         *)
EXTENDS Devices

MCReports == {[dx |-> m[1], dy |-> m[2], btn |-> b] :
                m \in {<<-140, 5>>, <<15, 0>>, <<0, -6>>}, b \in {0, 1}}
MCCorner == [x |-> 6, y |-> 2]

MCUses == {[reports |-> 0, failures |-> 1, keys |-> TRUE],
           [reports |-> 2, failures |-> 1, keys |-> FALSE],
           [reports |-> 3, failures |-> 0, keys |-> FALSE]}
=============================================================================
