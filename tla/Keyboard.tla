------------------------------ MODULE Keyboard ------------------------------
(***************************************************************************)
(* Keyboard input of task A: keyboard.c and the keyboard part of HariMain. *)
(* The lamps of the keyboard are set by commands of two bytes.  A byte is  *)
(* sent, and the next one waits in keycmd until the keyboard has           *)
(* acknowledged it; what it could not receive is sent again.  The answers  *)
(* come through the same FIFO as the keys.                                 *)
(*                                                                         *)
(* The keyboard is external; it is modelled from how HariMain treats it.   *)
(***************************************************************************)
EXTENDS TaskAFifo, FiniteSets

CONSTANTS Locks,           \* the lock keys that are used
          Shifts,          \* the shift keys that are used
          KeycmdSize       \* places in keycmd

ASSUME KeyboardAssumption ==
  /\ Locks \subseteq {58, 69, 70}           \* 0x3a, 0x45, 0x46
  /\ Shifts \subseteq {42, 54}              \* 0x2a, 0x36
  /\ KeycmdSize \in Nat /\ KeycmdSize >= 2

KEYCMD_LED == 237          \* 0xed
Ack == 250                 \* 0xfa
Resend == 254              \* 0xfe
Release(k) == k + 128      \* the code of a key that is released

\* The bits of key_leds and of key_shift
Bit == [k \in {42, 54, 58, 69, 70} |->
         CASE k = 58 -> 4 [] k \in {54, 69} -> 2 [] k \in {42, 70} -> 1]
IsOn(word, k) == (word \div Bit[k]) % 2 = 1

TurnOn(word, k) == IF IsOn(word, k) THEN word ELSE word + Bit[k]
TurnOff(word, k) == IF IsOn(word, k) THEN word - Bit[k] ELSE word
Flip(word, k) == IF IsOn(word, k) THEN word - Bit[k] ELSE word + Bit[k]

VARIABLES key_leds, key_shift, keycmd, keycmd_wait,
          port,            \* the byte in the keyboard controller
          keyboard,        \* the keyboard: its lamps, the keys that are held, and
                           \* whether it has had KEYCMD_LED
          failures         \* the bytes that the keyboard will yet fail to receive

keyboardVars == <<key_leds, key_shift, keycmd, keycmd_wait, port, keyboard, failures>>

-----------------------------------------------------------------------------
(* The keyboard and its interrupt *)

inthandler21(data) == Put([dat |-> data, nth |-> Key])

\* A key is pressed or released.  Bound: the model follows a behaviour until
\* something is lost, as no property speaks of what comes after.
PressKey ==
  /\ ~overrun
  /\ \/ \E k \in Locks : inthandler21(k) /\ UNCHANGED keyboard
     \/ \E k \in Shifts :
          /\ inthandler21(IF IsOn(keyboard.held, k) THEN Release(k) ELSE k)
          /\ keyboard' = [keyboard EXCEPT !.held = Flip(@, k)]
     \/ \E k \in Shifts :            \* a key that is held repeats its code
          /\ IsOn(keyboard.held, k) /\ inthandler21(k) /\ UNCHANGED keyboard
  /\ UNCHANGED <<key_leds, key_shift, keycmd, keycmd_wait, port, failures>>

\* The keyboard takes the byte of the port and answers.  After KEYCMD_LED the
\* next byte goes to the lamps.
Receive ==
  /\ port # None
  /\ port' = None
  /\ \/ /\ keyboard' = IF port = KEYCMD_LED THEN [keyboard EXCEPT !.expects = "lamps"]
                       ELSE IF keyboard.expects = "lamps"
                              THEN [keyboard EXCEPT !.lit = port, !.expects = "command"]
                              ELSE keyboard
        /\ inthandler21(Ack)
        /\ UNCHANGED failures
     \/ /\ failures > 0
        /\ failures' = failures - 1
        /\ inthandler21(Resend)
        /\ UNCHANGED keyboard
  /\ UNCHANGED <<key_leds, key_shift, keycmd, keycmd_wait>>

-----------------------------------------------------------------------------
(* HariMain *)

\* What the locks that are used can be
Leds == {w \in 0..7 : \A k \in {58, 69, 70} \ Locks : ~IsOn(w, k)}

KeyboardInit(n) ==
  /\ key_leds \in Leds
  /\ key_shift = 0
  /\ keycmd = <<KEYCMD_LED, key_leds>>
  /\ keycmd_wait = None
  /\ port = None
  /\ keyboard \in [lit : Leds, held : {0}, expects : {"command"}]
  /\ failures = n

\* Mutant: the next byte does not wait for the answer to the last one.
ByteWaitsForNothing == keycmd # <<>>

\* fifo32_status(&keycmd) > 0 && keycmd_wait < 0
ByteWaits == keycmd # <<>> /\ keycmd_wait = None

\* wait_KBC_sendready and io_out8
SendReady(byte) == port = None /\ port' = byte

\* The top of the loop: a byte is sent.
SendByte ==
  /\ ByteWaits
  /\ SendReady(Head(keycmd))
  /\ keycmd_wait' = Head(keycmd)
  /\ keycmd' = Tail(keycmd)
  /\ UNCHANGED <<key_leds, key_shift, fifo, overrun, keyboard, failures>>

\* fifo32_get; task A looks at keycmd before it takes the next datum.
Take(datum) ==
  /\ ~ByteWaits
  /\ fifo # <<>> /\ Head(fifo) = [dat |-> datum, nth |-> Key]
  /\ fifo' = Tail(fifo)
  /\ UNCHANGED <<keyboard, failures>>

\* Mutant: the lamps come before their command.
CommandBackwards(lamps) == <<lamps, KEYCMD_LED>>

Command(lamps) == <<KEYCMD_LED, lamps>>

\* CapsLock, NumLock, ScrollLock
Lock(k) ==
  /\ Take(k)
  /\ key_leds' = Flip(key_leds, k)
  /\ keycmd' = Taken(keycmd, Command(key_leds'), KeycmdSize)
  /\ overrun' = (overrun \/ Len(keycmd) + 2 > KeycmdSize)
  /\ UNCHANGED <<key_shift, keycmd_wait, port>>

ShiftOn(k) ==
  /\ Take(k)
  /\ key_shift' = TurnOn(key_shift, k)
  /\ UNCHANGED <<key_leds, keycmd, keycmd_wait, overrun, port>>

ShiftOff(k) ==
  /\ Take(Release(k))
  /\ key_shift' = TurnOff(key_shift, k)
  /\ UNCHANGED <<key_leds, keycmd, keycmd_wait, overrun, port>>

\* Mutant: the next byte goes on waiting.
ReceivedUnnoticed ==
  /\ Take(Ack)
  /\ UNCHANGED <<key_leds, key_shift, keycmd, keycmd_wait, overrun, port>>

\* "the keyboard has received the data"
Received ==
  /\ Take(Ack)
  /\ keycmd_wait' = None
  /\ UNCHANGED <<key_leds, key_shift, keycmd, overrun, port>>

\* Mutant: the byte that the keyboard could not receive is given up.
NotSentAgain ==
  /\ Take(Resend)
  /\ keycmd_wait' = None
  /\ UNCHANGED <<key_leds, key_shift, keycmd, overrun, port>>

\* "the keyboard could not receive the data"
SendAgain ==
  /\ Take(Resend)
  /\ SendReady(keycmd_wait)
  /\ UNCHANGED <<key_leds, key_shift, keycmd, keycmd_wait, overrun>>

KeyboardTask ==
         \/ SendByte \/ Received \/ SendAgain
         \/ \E k \in Locks : Lock(k)
         \/ \E k \in Shifts : ShiftOn(k) \/ ShiftOff(k)

-----------------------------------------------------------------------------
(* Properties *)

Answers == {i \in DOMAIN fifo : fifo[i].nth = Key /\ fifo[i].dat \in {Ack, Resend}}

\* One byte is under way until its acknowledgement has been read: exactly one
\* of the port and the FIFO has the byte or its answer.
OneUnderWay ==
  ~overrun => Cardinality(Answers) + (IF port = None THEN 0 ELSE 1)
                = (IF keycmd_wait = None THEN 0 ELSE 1)

\* What the kernel believes of the keyboard is so: with no command pending the
\* lamps show key_leds, whatever the BIOS had left them at and whatever had to be
\* sent again, and it never takes lamps for a command; with no key pending,
\* key_shift holds the shift keys that are held (unless a FIFO has overrun).
InStep ==
  ~overrun => /\ keycmd = <<>> /\ keycmd_wait = None => keyboard.lit = key_leds
              /\ port \in 0..7 => keyboard.expects = "lamps"
              /\ fifo = <<>> => key_shift = keyboard.held

\* A byte that the keyboard does not receive is sent until it does, so what
\* waits behind it is not stuck (unless a FIFO has overrun).
BytesGetThrough == keycmd_wait # None ~> keycmd_wait = None \/ overrun
=============================================================================
