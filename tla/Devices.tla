------------------------------ MODULE Devices -------------------------------
(***************************************************************************)
(* Task A with both devices: their bytes come through one FIFO in any      *)
(* order, and a byte for the keyboard goes before everything else.         *)
(***************************************************************************)
EXTENDS Keyboard, Mouse

CONSTANTS Uses             \* bound: the reports of a behaviour, the bytes that the
                           \* keyboard fails to receive, and whether keys are pressed
                           \* (without any, the lamps are off from the beginning)

ASSUME DevicesAssumption == Uses \subseteq [reports : Nat, failures : Nat, keys : BOOLEAN]

VARIABLES keys

vars == <<fifo, overrun, keyboardVars, mouseVars, keys>>

Init ==
  /\ fifo = <<>> /\ overrun = FALSE
  /\ \E use \in Uses : KeyboardInit(use.failures) /\ MouseInit(use.reports) /\ keys = use.keys
  /\ keys \/ (key_leds = 0 /\ keyboard.lit = 0)

TaskA == \/ KeyboardTask /\ UNCHANGED <<mouseVars, keys>>
         \/ ~ByteWaits /\ MouseTask /\ UNCHANGED <<keyboardVars, keys>>

KeyboardAnswers == Receive /\ UNCHANGED <<mouseVars, keys>>

Next ==
  \/ TaskA \/ KeyboardAnswers
  \/ keys /\ PressKey /\ UNCHANGED <<mouseVars, keys>>
  \/ ((\E r \in Reports : Report(r)) \/ inthandler2c) /\ UNCHANGED <<keyboardVars, keys>>

\* Task A has the highest level that is in use, and the keyboard answers.
Spec == Init /\ [][Next]_vars /\ WF_vars(TaskA) /\ WF_vars(KeyboardAnswers)
=============================================================================
