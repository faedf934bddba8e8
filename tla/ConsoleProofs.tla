--------------------------- MODULE ConsoleProofs ---------------------------
(***************************************************************************)
(* Proofs about the life of consoles, applications and windows, for any    *)
(* number of task and sheet slots.                                         *)
(***************************************************************************)
EXTENDS Console, Least

Kinds == {"console", "task", "sheet"}
States == {"FREE", "START", "PROMPT", "OPEN", "APP", "ENDING", "ASTRAY", "GONE"}

\* A sheet is free, being made for a console, or a window of either kind.
Blank == {}
Making == {SHEET_USE}
OfApp == {SHEET_USE, APP}
OfConsole == {SHEET_USE, CURSOR}
Flags == {Blank, Making, OfApp, OfConsole}

Kind(s) == sheets0[s].flags
Shown(s) == Contains(stack, s)
Sheet(t) == tasks0[t].sht
Asked(t) == tasks0[t].asked
Opens(t) == tasks0[t].opens

Message0 == [kind : Kinds, slot : Tasks \cup Sheets]

TasksOK ==
  tasks0 \in [Tasks -> [state : States, sht : Sheets \cup {NULL}, asked : BOOLEAN,
                       opens : Sheets \cup {NULL}]]
SheetsOK == sheets0 \in [Sheets -> [flags : Flags, task : Tasks \cup {NULL}]]
StackOK == stack \in Seq(Sheets) /\ IsInjective(stack)
KeysOK == key_win \in Sheets \cup {NULL, sht_back}
FifoOK == fifo \in Seq(Message0) /\ IsInjective(fifo)

TypeOK == TasksOK /\ SheetsOK /\ StackOK /\ KeysOK /\ FifoOK

\* Who owns a window, and whether it can be seen
WindowOK(s) ==
  /\ Kind(s) = Blank => ~Shown(s)
  /\ Kind(s) = Making => /\ Owner(s) = NULL /\ ~Shown(s)
                    /\ \E t \in Tasks : State(t) = "OPEN" /\ Opens(t) = s
  /\ Kind(s) = OfApp => Owner(s) \in Tasks /\ State(Owner(s)) \in {"APP", "ENDING", "ASTRAY"}
  /\ Kind(s) = OfConsole =>
       /\ Owner(s) \in Tasks /\ State(Owner(s)) # "FREE"
       /\ \/ Sheet(Owner(s)) = s
          \/ Sheet(Owner(s)) = NULL /\ Message("sheet", s) \in Messages

\* What a task has while it is in use
TaskOK(t) ==
  State(t) # "FREE" =>
    /\ Sheet(t) # NULL =>
         Sheet(t) \in Sheets /\ Kind(Sheet(t)) = OfConsole /\ Owner(Sheet(t)) = t
    /\ Asked(t) => Sheet(t) # NULL /\ ~Shown(Sheet(t))
    /\ State(t) = "OPEN" =>
         /\ Opens(t) \in Sheets /\ Kind(Opens(t)) = Making
         /\ \A u \in Tasks : State(u) = "OPEN" /\ Opens(u) = Opens(t) => u = t
    /\ State(t) = "GONE" => Farewell(t) \in Messages

\* A message means what it meant when it was sent.
MessageOK(m) ==
  /\ m.kind = "console" =>
       /\ m.slot \in Sheets /\ Kind(m.slot) = OfConsole /\ Owner(m.slot) \in Tasks
       /\ State(Owner(m.slot)) = "GONE" /\ Sheet(Owner(m.slot)) = m.slot
  /\ m.kind = "task" => m.slot \in Tasks /\ State(m.slot) = "GONE" /\ Sheet(m.slot) = NULL
  /\ m.kind = "sheet" =>
       /\ m.slot \in Sheets /\ Kind(m.slot) = OfConsole /\ Owner(m.slot) \in Tasks
       /\ State(Owner(m.slot)) # "FREE" /\ Sheet(Owner(m.slot)) = NULL
       /\ ~Shown(m.slot)

\* A console without a window gives up the window first, and then itself.
SheetFirst ==
  \A i, j \in DOMAIN fifo :
    /\ fifo[i].kind = "task" /\ fifo[j].kind = "sheet"
    /\ Owner(fifo[j].slot) = fifo[i].slot
    => j < i

AllOK ==
  /\ \A s \in Sheets : WindowOK(s)
  /\ \A t \in Tasks : TaskOK(t)
  /\ \A m \in Messages : MessageOK(m)
  /\ SheetFirst

Inv == TypeOK /\ AllOK

IInv == Inv /\ MemoryExact
-----------------------------------------------------------------------------
(* The flags of a sheet *)

LEMMA KindsDiffer ==
  /\ Blank # Making /\ Blank # OfApp /\ Blank # OfConsole
  /\ Making # OfApp /\ Making # OfConsole /\ OfApp # OfConsole
BY DEF Blank, Making, OfApp, OfConsole, SHEET_USE, APP, CURSOR

LEMMA SlotsAre == NULL \notin Tasks /\ NULL \notin Sheets /\ sht_back \notin Sheets /\ sht_back # NULL
BY ConsoleAssumption DEF NULL, sht_back

-----------------------------------------------------------------------------
(* The stack and the FIFO *)

\* A window that is not in a stack is put on top.
LEMMA StackAppend ==
  ASSUME NEW st \in Seq(Sheets), IsInjective(st), NEW s \in Sheets, ~Contains(st, s)
  PROVE  /\ Append(st, s) \in Seq(Sheets) /\ IsInjective(Append(st, s))
         /\ \A x : Contains(Append(st, s), x) <=> Contains(st, x) \/ x = s
BY DEF IsInjective, Contains

\* A window is taken out.
LEMMA StackHide ==
  ASSUME NEW st \in Seq(Sheets), IsInjective(st), NEW s \in Sheets
  PROVE  /\ Hidden(st, s) \in Seq(Sheets) /\ IsInjective(Hidden(st, s))
         /\ \A x : Contains(Hidden(st, s), x) <=> Contains(st, x) /\ x # s
<1>1. CASE ~Contains(st, s)
  BY <1>1 DEF Hidden, Contains
<1>2. CASE Contains(st, s)
  <2> DEFINE h == Height(st, s)
             r == [i \in 1..(Len(st) - 1) |-> IF i < h THEN st[i] ELSE st[i + 1]]
  <2>1. h \in 1..Len(st) /\ st[h] = s
    BY <1>2 DEF Contains, Height
  <2>2. Hidden(st, s) = r BY <1>2 DEF Hidden
  <2> HIDE DEF h
  <2>3. \A i \in 1..(Len(st) - 1) : r[i] \in Sheets BY <2>1
  <2>4. r \in Seq(Sheets) /\ Len(r) = Len(st) - 1 BY <2>1, <2>3
  <2>5. IsInjective(r) BY <2>1 DEF IsInjective
  <2>6. ASSUME NEW x, Contains(r, x) PROVE Contains(st, x) /\ x # s
    BY <2>1, <2>4, <2>6 DEF Contains, IsInjective
  <2>7. ASSUME NEW x, Contains(st, x), x # s PROVE Contains(r, x)
    <3>1. PICK i \in 1..Len(st) : st[i] = x BY <2>7 DEF Contains
    <3>2. CASE i < h
      <4>1. i \in 1..Len(r) /\ r[i] = x BY <2>1, <2>4, <3>1, <3>2
      <4> QED BY <4>1 DEF Contains
    <3>3. CASE i > h
      <4>1. i - 1 \in 1..Len(r) /\ r[i - 1] = x BY <2>1, <2>4, <3>1, <3>3
      <4> QED BY <4>1 DEF Contains
    <3> QED BY <2>1, <2>7, <3>1, <3>2, <3>3
  <2> QED BY <2>2, <2>4, <2>5, <2>6, <2>7
<1> QED BY <1>1, <1>2

\* A window is put on top of the others.
LEMMA StackRaise ==
  ASSUME NEW st \in Seq(Sheets), IsInjective(st), NEW s \in Sheets
  PROVE  /\ Raised(st, s) \in Seq(Sheets) /\ IsInjective(Raised(st, s))
         /\ \A x : Contains(Raised(st, s), x) <=> Contains(st, x) \/ x = s
<1>1. /\ Hidden(st, s) \in Seq(Sheets) /\ IsInjective(Hidden(st, s))
      /\ \A x : Contains(Hidden(st, s), x) <=> Contains(st, x) /\ x # s
  BY StackHide
<1>2. ~Contains(Hidden(st, s), s) BY <1>1
<1> HIDE DEF Hidden
<1> QED BY <1>1, <1>2, StackAppend DEF Raised

Content(q) == {q[i] : i \in DOMAIN q}

\* A message is sent.
LEMMA FifoAppend ==
  ASSUME NEW q \in Seq(Message0), IsInjective(q), NEW m \in Message0, m \notin Content(q)
  PROVE  /\ Append(q, m) \in Seq(Message0) /\ IsInjective(Append(q, m))
         /\ Content(Append(q, m)) = Content(q) \cup {m}
         /\ DOMAIN q = 1..Len(q) /\ DOMAIN Append(q, m) = 1..(Len(q) + 1)
         /\ \A i \in 1..Len(q) : Append(q, m)[i] = q[i]
         /\ Append(q, m)[Len(q) + 1] = m
<1>1. /\ Append(q, m) \in Seq(Message0)
      /\ DOMAIN q = 1..Len(q) /\ DOMAIN Append(q, m) = 1..(Len(q) + 1)
      /\ \A i \in 1..Len(q) : Append(q, m)[i] = q[i]
      /\ Append(q, m)[Len(q) + 1] = m /\ Len(q) \in Nat
  OBVIOUS
<1>2. IsInjective(Append(q, m)) BY <1>1 DEF IsInjective, Content
<1>3. Content(Append(q, m)) = Content(q) \cup {m} BY <1>1 DEF Content
<1> QED BY <1>1, <1>2, <1>3

\* Task A takes the first message.
LEMMA FifoTake ==
  ASSUME NEW q \in Seq(Message0), IsInjective(q), q # <<>>
  PROVE  /\ Head(q) \in Message0 /\ Head(q) = q[1] /\ 1 \in DOMAIN q
         /\ Tail(q) \in Seq(Message0) /\ IsInjective(Tail(q))
         /\ Content(Tail(q)) = Content(q) \ {Head(q)}
         /\ \A i \in DOMAIN Tail(q) : i \in Nat /\ i + 1 \in DOMAIN q /\ Tail(q)[i] = q[i + 1]
<1>1. /\ Head(q) \in Message0 /\ Head(q) = q[1] /\ Tail(q) \in Seq(Message0)
      /\ DOMAIN q = 1..Len(q) /\ DOMAIN Tail(q) = 1..(Len(q) - 1)
      /\ \A i \in 1..(Len(q) - 1) : Tail(q)[i] = q[i + 1]
      /\ Len(q) \in Nat /\ Len(q) > 0
  OBVIOUS
<1>2. IsInjective(Tail(q)) BY <1>1 DEF IsInjective
<1>3. Content(Tail(q)) = Content(q) \ {Head(q)}
  <2>1. ASSUME NEW m \in Content(Tail(q)) PROVE m \in Content(q) \ {Head(q)}
    BY <1>1 DEF Content, IsInjective
  <2>2. ASSUME NEW m \in Content(q), m # Head(q) PROVE m \in Content(Tail(q))
    <3>1. PICK i \in 1..Len(q) : q[i] = m BY <1>1 DEF Content
    <3>2. i - 1 \in 1..(Len(q) - 1) /\ Tail(q)[i - 1] = m BY <1>1, <2>2, <3>1
    <3> QED BY <1>1, <3>2 DEF Content
  <2> QED BY <2>1, <2>2
<1> QED BY <1>1, <1>2, <1>3

\* The first free slot is one of them.
LEMMA MinIn ==
  ASSUME NEW S, S \subseteq Nat, S # {} PROVE Min(S) \in S
BY LeastExists DEF Min
-----------------------------------------------------------------------------
(* What an action can do to the windows, tasks and messages, and that each *)
(* of these things leaves them in order                                    *)

SameTask(u) ==
  State(u)' = State(u) /\ Sheet(u)' = Sheet(u) /\ Asked(u)' = Asked(u) /\ Opens(u)' = Opens(u)
SameSheet(s) ==
  Kind(s)' = Kind(s) /\ Owner(s)' = Owner(s) /\ (Shown(s)' <=> Shown(s))
SameFifo == fifo' = fifo /\ Messages' = Messages

LEMMA FarewellIs ==
  ASSUME NEW t \in Tasks
  PROVE  Farewell(t) = Message(IF Sheet(t) = NULL THEN "task" ELSE "console",
                               IF Sheet(t) = NULL THEN t ELSE Sheet(t))
BY DEF Farewell, Sheet, Message

LEMMA MessagesTyped ==
  ASSUME fifo \in Seq(Message0)
  PROVE  \A m \in Messages : m.kind \in Kinds /\ m = Message(m.kind, m.slot)
<1> SUFFICES ASSUME NEW m \in Messages PROVE m.kind \in Kinds /\ m = Message(m.kind, m.slot)
  OBVIOUS
<1>1. PICK i \in DOMAIN fifo : m = fifo[i] BY DEF Messages
<1>2. m \in Message0 BY <1>1
<1> QED BY <1>2 DEF Message0, Message

\* Task A takes a message.
LEMMA MessageTaken ==
  ASSUME fifo \in Seq(Message0), IsInjective(fifo), fifo # <<>>, fifo' = Tail(fifo)
  PROVE  /\ Head(fifo) = fifo[1] /\ 1 \in DOMAIN fifo /\ Head(fifo) \in Messages
         /\ fifo' \in Seq(Message0) /\ IsInjective(fifo')
         /\ Messages' = Messages \ {Head(fifo)}
         /\ \A i \in DOMAIN fifo' : i \in Nat /\ i + 1 \in DOMAIN fifo /\ fifo'[i] = fifo[i + 1]
<1>1. Messages = Content(fifo) /\ Messages' = Content(fifo') BY DEF Messages, Content
<1>2. /\ Head(fifo) = fifo[1] /\ 1 \in DOMAIN fifo
      /\ fifo' \in Seq(Message0) /\ IsInjective(fifo')
      /\ Content(fifo') = Content(fifo) \ {Head(fifo)}
      /\ \A i \in DOMAIN fifo' : i \in Nat /\ i + 1 \in DOMAIN fifo /\ fifo'[i] = fifo[i + 1]
  BY FifoTake
<1>3. Head(fifo) \in Messages BY <1>2 DEF Messages
<1> QED BY <1>1, <1>2, <1>3

LEMMA FarewellKept == \A t \in Tasks : Sheet(t)' = Sheet(t) => Farewell(t)' = Farewell(t)
BY DEF Farewell, Sheet

\* The order of the messages is about windows that stay what they are.
LEMMA OrderKept ==
  ASSUME AllOK, fifo' = fifo, \A s \in Sheets : Kind(s) = OfConsole => Owner(s)' = Owner(s)
  PROVE  SheetFirst'
<1> SUFFICES ASSUME NEW i \in DOMAIN fifo, NEW j \in DOMAIN fifo,
                    fifo[i].kind = "task", fifo[j].kind = "sheet",
                    Owner(fifo[j].slot)' = fifo[i].slot
             PROVE  j < i
  BY DEF SheetFirst
<1>1. PICK s : s = fifo[j].slot OBVIOUS
<1>2. s \in Sheets /\ Kind(s) = OfConsole BY <1>1 DEF AllOK, MessageOK, Messages
<1>3. Owner(s)' = Owner(s) BY <1>2
<1>4. Owner(fifo[j].slot) = fifo[i].slot BY <1>1, <1>3
<1> QED BY <1>4 DEF AllOK, SheetFirst

\* A console or its application goes on.
LEMMA StateChanges ==
  ASSUME AllOK, NEW t \in Tasks, State(t) \notin {"FREE", "OPEN", "GONE"},
         State(t)' \in {"START", "PROMPT", "APP", "ENDING", "ASTRAY"},
         State(t)' \in {"APP", "ENDING", "ASTRAY"} \/ \A s \in Sheets : ~(Kind(s) = OfApp /\ Owner(s) = t),
         Sheet(t)' = Sheet(t), Asked(t)' = Asked(t), Opens(t)' = Opens(t),
         \A u \in Tasks \ {t} : SameTask(u),
         \A s \in Sheets : SameSheet(s), fifo' = fifo, Messages' = Messages
  PROVE  AllOK'
<1>1. ASSUME NEW s \in Sheets PROVE WindowOK(s)'
  BY <1>1 DEF AllOK, WindowOK, SameSheet, SameTask
<1>2. ASSUME NEW u \in Tasks PROVE TaskOK(u)'
  BY <1>2, FarewellKept DEF AllOK, TaskOK, SameSheet, SameTask
<1>3. ASSUME NEW m \in Messages PROVE MessageOK(m)'
  BY <1>3 DEF AllOK, MessageOK, SameSheet, SameTask
<1>4. SheetFirst' BY OrderKept DEF SameSheet
<1> QED BY <1>1, <1>2, <1>3, <1>4 DEF AllOK

\* Windows are raised.
LEMMA NothingChanges ==
  ASSUME AllOK, \A u \in Tasks : SameTask(u), \A s \in Sheets : SameSheet(s),
         fifo' = fifo, Messages' = Messages
  PROVE  AllOK'
<1>1. ASSUME NEW s \in Sheets PROVE WindowOK(s)'
  BY <1>1 DEF AllOK, WindowOK, SameSheet, SameTask
<1>2. ASSUME NEW u \in Tasks PROVE TaskOK(u)'
  BY <1>2, FarewellKept DEF AllOK, TaskOK, SameSheet, SameTask
<1>3. ASSUME NEW m \in Messages PROVE MessageOK(m)'
  BY <1>3 DEF AllOK, MessageOK, SameSheet, SameTask
<1>4. SheetFirst' BY OrderKept DEF SameSheet
<1> QED BY <1>1, <1>2, <1>3, <1>4 DEF AllOK

\* The window of a console is hidden, and the console is asked to end.
LEMMA HideAndAsk ==
  ASSUME AllOK, NEW w \in Sheets, Kind(w) = OfConsole, Shown(w), ~Shown(w)',
         Kind(w)' = Kind(w), Owner(w)' = Owner(w),
         \A s \in Sheets \ {w} : SameSheet(s),
         NEW t \in Tasks, t = Owner(w), Asked(t)',
         State(t)' = State(t), Sheet(t)' = Sheet(t), Opens(t)' = Opens(t),
         \A u \in Tasks \ {t} : SameTask(u), fifo' = fifo, Messages' = Messages
  PROVE  AllOK'
<1>0. Sheet(t) = w BY DEF AllOK, WindowOK, MessageOK, Message
<1>1. ASSUME NEW s \in Sheets PROVE WindowOK(s)'
  BY <1>1 DEF AllOK, WindowOK, SameSheet, SameTask
<1>2. ASSUME NEW u \in Tasks PROVE TaskOK(u)'
  <2>1. TaskOK(u) BY <1>2 DEF AllOK
  <2>2. /\ Sheet(u)' = Sheet(u) /\ Farewell(u)' = Farewell(u)
        /\ \A v \in Tasks : State(v)' = State(v) /\ Opens(v)' = Opens(v)
    BY <1>2, FarewellKept DEF SameTask
  <2>3. \A s \in Sheets : Kind(s)' = Kind(s) /\ Owner(s)' = Owner(s)
    BY DEF SameSheet
  <2>4. ASSUME Asked(u)', State(u) # "FREE" PROVE Sheet(u) # NULL /\ ~Shown(Sheet(u))'
    <3>1. CASE u = t BY <1>0, <2>2, <3>1, SlotsAre
    <3>2. CASE u # t
      <4>1. Asked(u) BY <1>2, <2>4, <3>2 DEF SameTask
      <4>2. Sheet(u) \in Sheets \ {w} /\ ~Shown(Sheet(u)) BY <2>1, <2>4, <3>2, <4>1 DEF TaskOK
      <4>3. PICK s : s = Sheet(u) OBVIOUS
      <4>4. ~Shown(s)' BY <4>2, <4>3 DEF SameSheet
      <4> QED BY <2>2, <4>2, <4>3, <4>4, SlotsAre
    <3> QED BY <3>1, <3>2
  <2> QED BY <1>2, <2>1, <2>2, <2>3, <2>4 DEF TaskOK
<1>3. ASSUME NEW m \in Messages PROVE MessageOK(m)'
  BY <1>3 DEF AllOK, MessageOK, SameSheet, SameTask
<1>4. SheetFirst' BY OrderKept DEF SameSheet
<1> QED BY <1>1, <1>2, <1>3, <1>4 DEF AllOK

\* A console takes a sheet for a new one.
LEMMA MakesSheet ==
  ASSUME AllOK, NEW w \in Sheets, Kind(w) = Blank, Kind(w)' = Making, Owner(w)' = NULL,
         Shown(w)' = Shown(w), \A s \in Sheets \ {w} : SameSheet(s),
         NEW t \in Tasks, State(t) = "PROMPT", State(t)' = "OPEN", Opens(t)' = w,
         Sheet(t)' = Sheet(t), Asked(t)' = Asked(t),
         \A u \in Tasks \ {t} : SameTask(u), fifo' = fifo, Messages' = Messages
  PROVE  AllOK'
<1> USE KindsDiffer
<1>1. ASSUME NEW s \in Sheets PROVE WindowOK(s)'
  BY <1>1 DEF AllOK, WindowOK, SameSheet, SameTask
<1>2. ASSUME NEW u \in Tasks PROVE TaskOK(u)'
  BY <1>2, FarewellKept DEF AllOK, TaskOK, SameSheet, SameTask
<1>3. ASSUME NEW m \in Messages PROVE MessageOK(m)'
  BY <1>3 DEF AllOK, MessageOK, SameSheet, SameTask
<1>4. SheetFirst' BY OrderKept DEF SameSheet
<1> QED BY <1>1, <1>2, <1>3, <1>4 DEF AllOK

\* A new console, with a sheet that was free or has been made for it, or with none
LEMMA NewConsole ==
  ASSUME AllOK, NEW n \in Tasks, State(n) = "FREE", State(n)' = "START", ~Asked(n)',
         NEW w \in Sheets \cup {NULL}, Sheet(n)' = w,
         w # NULL => /\ Kind(w) \in {Blank, Making} /\ Kind(w)' = OfConsole
                     /\ Owner(w)' = n,
         \A s \in Sheets \ {w} : SameSheet(s),
         \A u \in Tasks \ {n} :
           /\ Sheet(u)' = Sheet(u) /\ Asked(u)' = Asked(u)
           /\ IF State(u) = "OPEN" /\ Opens(u) = w THEN State(u)' = "PROMPT"
              ELSE State(u)' = State(u) /\ Opens(u)' = Opens(u),
         fifo' = fifo, Messages' = Messages
  PROVE  AllOK'
<1> USE KindsDiffer, SlotsAre
<1>1. ASSUME NEW s \in Sheets PROVE WindowOK(s)'
  BY <1>1 DEF AllOK, WindowOK, SameSheet
<1>2. ASSUME NEW u \in Tasks PROVE TaskOK(u)'
  BY <1>2, FarewellKept DEF AllOK, TaskOK, SameSheet
<1>3. ASSUME NEW m \in Messages PROVE MessageOK(m)'
  BY <1>3 DEF AllOK, MessageOK, SameSheet
<1>4. SheetFirst' BY OrderKept DEF SameSheet
<1> QED BY <1>1, <1>2, <1>3, <1>4 DEF AllOK

\* An application opens a window.
LEMMA AppOpens ==
  ASSUME AllOK, NEW w \in Sheets, Kind(w) = Blank, Kind(w)' = OfApp,
         NEW t \in Tasks, State(t) = "APP", Owner(w)' = t,
         \A s \in Sheets \ {w} : SameSheet(s),
         \A u \in Tasks : SameTask(u), fifo' = fifo, Messages' = Messages
  PROVE  AllOK'
<1> USE KindsDiffer
<1>1. ASSUME NEW s \in Sheets PROVE WindowOK(s)'
  BY <1>1 DEF AllOK, WindowOK, SameSheet, SameTask
<1>2. ASSUME NEW u \in Tasks PROVE TaskOK(u)'
  BY <1>2, FarewellKept DEF AllOK, TaskOK, SameSheet, SameTask
<1>3. ASSUME NEW m \in Messages PROVE MessageOK(m)'
  BY <1>3 DEF AllOK, MessageOK, SameSheet, SameTask
<1>4. SheetFirst' BY OrderKept DEF SameSheet
<1> QED BY <1>1, <1>2, <1>3, <1>4 DEF AllOK

\* A window of an application is closed.
LEMMA AppCloses ==
  ASSUME AllOK, NEW w \in Sheets, Kind(w) = OfApp, Kind(w)' = Blank, ~Shown(w)',
         \A s \in Sheets \ {w} : SameSheet(s),
         \A u \in Tasks : SameTask(u), fifo' = fifo, Messages' = Messages
  PROVE  AllOK'
<1> USE KindsDiffer
<1>1. ASSUME NEW s \in Sheets PROVE WindowOK(s)'
  BY <1>1 DEF AllOK, WindowOK, SameSheet, SameTask
<1>2. ASSUME NEW u \in Tasks PROVE TaskOK(u)'
  BY <1>2, FarewellKept DEF AllOK, TaskOK, SameSheet, SameTask
<1>3. ASSUME NEW m \in Messages PROVE MessageOK(m)'
  BY <1>3 DEF AllOK, MessageOK, SameSheet, SameTask
<1>4. SheetFirst' BY OrderKept DEF SameSheet
<1> QED BY <1>1, <1>2, <1>3, <1>4 DEF AllOK

\* A console ends: its message is the last one.
LEMMA ConsoleEnds ==
  ASSUME AllOK, NEW t \in Tasks, State(t) \notin {"FREE", "OPEN", "GONE"}, State(t)' = "GONE",
         \A s \in Sheets : ~(Kind(s) = OfApp /\ Owner(s) = t),
         Sheet(t)' = Sheet(t), Asked(t)' = Asked(t), Opens(t)' = Opens(t),
         \A u \in Tasks \ {t} : SameTask(u),
         \A s \in Sheets : SameSheet(s),
         fifo \in Seq(Message0), IsInjective(fifo), fifo' = Append(fifo, Farewell(t))
  PROVE  AllOK' /\ fifo' \in Seq(Message0) /\ IsInjective(fifo')
<1> USE SlotsAre
<1>1. /\ Farewell(t) \in Message0
      /\ Farewell(t) = Message(IF Sheet(t) = NULL THEN "task" ELSE "console",
                               IF Sheet(t) = NULL THEN t ELSE Sheet(t))
  BY DEF AllOK, TaskOK, Farewell, Sheet, Message, Message0, Kinds
<1>2. Farewell(t) \notin Messages
  BY <1>1 DEF AllOK, MessageOK, TaskOK, Message
<1>3. /\ fifo' \in Seq(Message0) /\ IsInjective(fifo')
      /\ Messages' = Messages \cup {Farewell(t)}
      /\ DOMAIN fifo = 1..Len(fifo) /\ DOMAIN fifo' = 1..(Len(fifo) + 1)
      /\ \A i \in 1..Len(fifo) : fifo'[i] = fifo[i]
      /\ fifo'[Len(fifo) + 1] = Farewell(t) /\ Len(fifo) \in Nat
  <2>1. Farewell(t) \notin Content(fifo) BY <1>2 DEF Messages, Content
  <2> QED BY <1>1, <2>1, FifoAppend DEF Messages, Content
<1>4. ASSUME NEW s \in Sheets PROVE WindowOK(s)'
  BY <1>3, <1>4 DEF AllOK, WindowOK, SameSheet, SameTask
<1>5. ASSUME NEW u \in Tasks PROVE TaskOK(u)'
  BY <1>3, <1>5, FarewellKept DEF AllOK, TaskOK, SameSheet, SameTask
<1>6. ASSUME NEW m \in Messages' PROVE MessageOK(m)'
  <2>1. CASE m \in Messages
    BY <2>1 DEF AllOK, MessageOK, SameSheet, SameTask
  <2>2. CASE m = Farewell(t)
    BY <1>1, <2>2 DEF AllOK, TaskOK, MessageOK, SameSheet, SameTask, Message
  <2> QED BY <1>3, <1>6, <2>1, <2>2
<1>7. SheetFirst'
  <2> SUFFICES ASSUME NEW i \in DOMAIN fifo', NEW j \in DOMAIN fifo',
                      fifo'[i].kind = "task", fifo'[j].kind = "sheet",
                      Owner(fifo[j].slot)' = fifo'[i].slot
               PROVE  j < i
    BY DEF SheetFirst
  <2>1. j \in 1..Len(fifo) /\ fifo'[j] = fifo[j]
    BY <1>1, <1>3 DEF Message
  <2>2. PICK s : s = fifo[j].slot OBVIOUS
  <2>3. s \in Sheets BY <2>1, <2>2, <1>3 DEF AllOK, MessageOK, Messages
  <2>4. Owner(s)' = Owner(s) BY <2>3 DEF SameSheet
  <2>5. Owner(s) = fifo'[i].slot BY <2>1, <2>2, <2>4
  <2>6. CASE i = Len(fifo) + 1 BY <1>3, <2>1, <2>6
  <2>7. CASE i \in 1..Len(fifo)
    BY <1>3, <2>1, <2>2, <2>5, <2>7 DEF AllOK, SheetFirst
  <2> QED BY <1>3, <2>6, <2>7
<1> QED BY <1>3, <1>4, <1>5, <1>6, <1>7 DEF AllOK

\* An application goes on without the window of its console.
LEMMA WindowGivenUp ==
  ASSUME AllOK, NEW t \in Tasks, State(t) = "APP", Asked(t),
         State(t)' = State(t), Sheet(t)' = NULL, ~Asked(t)', Opens(t)' = Opens(t),
         \A u \in Tasks \ {t} : SameTask(u),
         \A s \in Sheets : SameSheet(s),
         fifo \in Seq(Message0), IsInjective(fifo),
         fifo' = Append(fifo, Message("sheet", Sheet(t)))
  PROVE  AllOK' /\ fifo' \in Seq(Message0) /\ IsInjective(fifo')
<1> USE SlotsAre
<1> DEFINE w == Sheet(t)
           f == Message("sheet", w)
<1>1. w \in Sheets /\ Kind(w) = OfConsole /\ Owner(w) = t /\ ~Shown(w)
  BY DEF AllOK, TaskOK
<1>2. f \notin Messages /\ f \in Message0
  BY <1>1 DEF AllOK, MessageOK, TaskOK, Message, Message0, Kinds
<1> HIDE DEF w
<1>3. /\ fifo' \in Seq(Message0) /\ IsInjective(fifo')
      /\ Messages' = Messages \cup {f}
      /\ DOMAIN fifo = 1..Len(fifo) /\ DOMAIN fifo' = 1..(Len(fifo) + 1)
      /\ \A i \in 1..Len(fifo) : fifo'[i] = fifo[i]
      /\ fifo'[Len(fifo) + 1] = f /\ Len(fifo) \in Nat
  <2>1. f \notin Content(fifo) BY <1>2 DEF Messages, Content
  <2> QED BY <1>2, <2>1, FifoAppend DEF Messages, Content, w
<1>4. ASSUME NEW s \in Sheets PROVE WindowOK(s)'
  BY <1>1, <1>3, <1>4 DEF AllOK, WindowOK, SameSheet, SameTask, w
<1>5. ASSUME NEW u \in Tasks PROVE TaskOK(u)'
  BY <1>1, <1>3, <1>5, FarewellKept DEF AllOK, TaskOK, SameSheet, SameTask
<1>6. ASSUME NEW m \in Messages' PROVE MessageOK(m)'
  <2>1. CASE m \in Messages
    BY <2>1 DEF AllOK, MessageOK, SameSheet, SameTask
  <2>2. CASE m = f
    BY <1>1, <2>2 DEF AllOK, MessageOK, SameSheet, SameTask, Message
  <2> QED BY <1>3, <1>6, <2>1, <2>2
<1>7. SheetFirst'
  <2> SUFFICES ASSUME NEW i \in DOMAIN fifo', NEW j \in DOMAIN fifo',
                      fifo'[i].kind = "task", fifo'[j].kind = "sheet",
                      Owner(fifo[j].slot)' = fifo'[i].slot
               PROVE  j < i
    BY DEF SheetFirst
  <2>1. i \in 1..Len(fifo) /\ fifo'[i] = fifo[i]
    BY <1>3 DEF Message
  <2>2. PICK s : s = fifo'[j].slot OBVIOUS
  <2>3. s \in Sheets
    BY <1>1, <1>3, <2>2 DEF AllOK, MessageOK, Messages, Message
  <2>4. Owner(s) = fifo[i].slot BY <2>1, <2>2, <2>3 DEF SameSheet
  <2>5. CASE j = Len(fifo) + 1
    <3>1. fifo[i].slot = t BY <1>1, <1>3, <2>2, <2>4, <2>5 DEF Message
    <3>2. State(t) = "GONE" BY <2>1, <1>3, <3>1 DEF AllOK, MessageOK, Messages
    <3> QED BY <3>2
  <2>6. CASE j \in 1..Len(fifo)
    BY <1>3, <2>1, <2>2, <2>4, <2>6 DEF AllOK, SheetFirst
  <2> QED BY <1>3, <2>5, <2>6
<1> QED BY <1>3, <1>4, <1>5, <1>6, <1>7 DEF AllOK

\* Task A frees a console: its window and its task, or its task alone.
LEMMA TaskFreed ==
  ASSUME AllOK, NEW t \in Tasks, NEW w \in Sheets \cup {NULL}, State(t)' = "FREE",
         fifo \in Seq(Message0), IsInjective(fifo), fifo # <<>>, fifo' = Tail(fifo),
         \/ Head(fifo) = Message("console", w) /\ w \in Sheets /\ Owner(w) = t
         \/ Head(fifo) = Message("task", t) /\ w = NULL,
         \A u \in Tasks \ {t} : SameTask(u),
         w # NULL => Kind(w)' = Blank /\ ~Shown(w)',
         \A s \in Sheets \ {w} : SameSheet(s)
  PROVE  AllOK' /\ fifo' \in Seq(Message0) /\ IsInjective(fifo')
<1> USE SlotsAre, KindsDiffer
<1>1. /\ Head(fifo) = fifo[1] /\ 1 \in DOMAIN fifo /\ Head(fifo) \in Messages
      /\ fifo' \in Seq(Message0) /\ IsInjective(fifo')
      /\ Messages' = Messages \ {Head(fifo)}
      /\ \A i \in DOMAIN fifo' : i \in Nat /\ i + 1 \in DOMAIN fifo /\ fifo'[i] = fifo[i + 1]
  BY MessageTaken
<1>2. MessageOK(Head(fifo)) BY <1>1 DEF AllOK
<1>3. State(t) = "GONE" /\ Sheet(t) = w /\ Head(fifo) = Farewell(t)
  BY <1>2, FarewellIs DEF MessageOK, Message
<1>4. ASSUME NEW s \in Sheets, Message("sheet", s) \in Messages
      PROVE  Owner(s) # t /\ Message("sheet", s) \in Messages'
  <2>1. Message("sheet", s) # Head(fifo) BY DEF Message
  <2>2. Sheet(Owner(s)) = NULL BY <1>4 DEF AllOK, MessageOK, Message
  <2>3. CASE w # NULL BY <1>1, <1>3, <1>4, <2>1, <2>2, <2>3
  <2>4. CASE w = NULL
    <3>1. Head(fifo) = Message("task", t) BY <2>4
    <3>2. PICK j \in DOMAIN fifo : fifo[j] = Message("sheet", s) BY <1>4 DEF Messages
    <3>3. Owner(s) = t => j < 1
      BY <1>1, <3>1, <3>2 DEF AllOK, SheetFirst, Message
    <3>4. j \in 1..Len(fifo) BY <3>2
    <3> QED BY <1>1, <1>4, <2>1, <3>3, <3>4
  <2> QED BY <2>3, <2>4
<1>5. ASSUME NEW s \in Sheets PROVE WindowOK(s)'
  <2>1. CASE s = w BY <2>1 DEF WindowOK
  <2>2. CASE s # w
    <3>1. WindowOK(s) /\ SameSheet(s) BY <1>5, <2>2 DEF AllOK
    <3>2. Owner(s) \in Tasks /\ Kind(s) \in {OfApp, OfConsole} => Owner(s) # t
      BY <1>3, <1>4, <2>2, <3>1 DEF WindowOK
    <3> QED BY <1>3, <1>4, <3>1, <3>2 DEF WindowOK, SameSheet, SameTask
  <2> QED BY <2>1, <2>2
<1>6. ASSUME NEW u \in Tasks PROVE TaskOK(u)'
  <2>1. CASE u = t BY <2>1 DEF TaskOK
  <2>2. CASE u # t
    <3>1. TaskOK(u) /\ SameTask(u) /\ TaskOK(t) BY <1>6, <2>2 DEF AllOK
    <3>2. Sheet(u) # NULL /\ State(u) # "FREE" => Sheet(u) \in Sheets \ {w}
      BY <1>3, <2>2, <3>1 DEF TaskOK
    <3>3. State(u) = "OPEN" => Opens(u) \in Sheets \ {w}
      BY <1>3, <3>1 DEF TaskOK
    <3>4. State(u) # "FREE" => Farewell(u) # Farewell(t)
      BY <2>2, <1>3, <3>2, FarewellIs DEF Message
    <3>5. State(u)' = "GONE" => Farewell(u)' \in Messages'
      BY <1>1, <1>3, <3>1, <3>4, FarewellKept DEF TaskOK, SameTask
    <3>6. \A v \in Tasks : State(v)' = "OPEN" => State(v) = "OPEN" /\ Opens(v)' = Opens(v)
      BY DEF SameTask
    <3> QED BY <3>1, <3>2, <3>3, <3>5, <3>6 DEF TaskOK, SameSheet, SameTask
  <2> QED BY <2>1, <2>2
<1>7. ASSUME NEW m \in Messages' PROVE MessageOK(m)'
  <2>1. m \in Messages /\ m # Head(fifo) BY <1>1, <1>7
  <2>2. MessageOK(m) /\ m.kind \in Kinds /\ m = Message(m.kind, m.slot)
    BY <2>1, MessagesTyped DEF AllOK
  <2>3. CASE m.kind = "console"
    <3>1. Owner(m.slot) # t
      BY <1>3, <2>1, <2>2, <2>3, FarewellIs DEF MessageOK
    <3>2. m.slot \in Sheets \ {w}
      BY <1>3, <2>2, <2>3, <3>1 DEF MessageOK
    <3> QED BY <2>2, <2>3, <3>1, <3>2 DEF MessageOK, SameSheet, SameTask
  <2>4. CASE m.kind = "task"
    <3>1. m.slot # t BY <1>3, <2>1, <2>2, <2>4, FarewellIs DEF MessageOK
    <3> QED BY <2>2, <2>4, <3>1 DEF MessageOK, SameTask
  <2>5. CASE m.kind = "sheet"
    <3>1. m.slot \in Sheets /\ Sheet(Owner(m.slot)) = NULL BY <2>2, <2>5 DEF MessageOK
    <3>2. Owner(m.slot) # t BY <1>4, <2>1, <2>2, <2>5, <3>1
    <3>3. m.slot # w
      BY <1>2, <1>3, <3>1, <3>2 DEF MessageOK, Message
    <3> QED BY <2>2, <2>5, <3>1, <3>2, <3>3 DEF MessageOK, SameSheet, SameTask
  <2> QED BY <2>2, <2>3, <2>4, <2>5 DEF Kinds
<1>8. SheetFirst'
  <2> SUFFICES ASSUME NEW i \in DOMAIN fifo', NEW j \in DOMAIN fifo',
                      fifo'[i].kind = "task", fifo'[j].kind = "sheet",
                      Owner(fifo[j].slot)' = fifo'[i].slot
               PROVE  j < i
    BY DEF SheetFirst
  <2>1. PICK s : s = fifo'[j].slot OBVIOUS
  <2>2. fifo[j + 1] \in Messages /\ fifo[j + 1] = fifo'[j] BY <1>1 DEF Messages
  <2>3. MessageOK(fifo[j + 1]) /\ fifo[j + 1] = Message("sheet", s)
    BY <2>1, <2>2, MessagesTyped DEF AllOK
  <2>4. s \in Sheets /\ Sheet(Owner(s)) = NULL BY <2>3 DEF MessageOK, Message
  <2>5. s # w BY <1>2, <1>3, <1>4, <2>2, <2>3, <2>4 DEF MessageOK, Message
  <2>6. Owner(s) = fifo[i + 1].slot BY <1>1, <2>1, <2>4, <2>5 DEF SameSheet
  <2>7. j + 1 < i + 1
    BY <1>1, <2>1, <2>6 DEF AllOK, SheetFirst
  <2> QED BY <1>1, <2>7
<1> QED BY <1>1, <1>5, <1>6, <1>7, <1>8 DEF AllOK

\* Task A frees a window that was given up.
LEMMA WindowFreed ==
  ASSUME AllOK, fifo \in Seq(Message0), IsInjective(fifo), fifo # <<>>, fifo' = Tail(fifo),
         NEW w, Head(fifo) = Message("sheet", w),
         Kind(w)' = Blank, ~Shown(w)', \A s \in Sheets \ {w} : SameSheet(s),
         \A u \in Tasks : SameTask(u)
  PROVE  AllOK' /\ fifo' \in Seq(Message0) /\ IsInjective(fifo')
<1> USE SlotsAre, KindsDiffer
<1>1. /\ Head(fifo) = fifo[1] /\ 1 \in DOMAIN fifo /\ Head(fifo) \in Messages
      /\ fifo' \in Seq(Message0) /\ IsInjective(fifo')
      /\ Messages' = Messages \ {Head(fifo)}
      /\ \A i \in DOMAIN fifo' : i \in Nat /\ i + 1 \in DOMAIN fifo /\ fifo'[i] = fifo[i + 1]
  BY MessageTaken
<1>2. /\ w \in Sheets /\ Kind(w) = OfConsole
      /\ Owner(w) \in Tasks /\ Sheet(Owner(w)) = NULL /\ State(Owner(w)) # "FREE"
  BY <1>1 DEF AllOK, MessageOK, Message
<1>3. ASSUME NEW t \in Tasks, State(t) # "FREE" PROVE Sheet(t) # w
  BY <1>2, <1>3 DEF AllOK, TaskOK
<1>4. ASSUME NEW s \in Sheets PROVE WindowOK(s)'
  <2>1. CASE s = w BY <2>1 DEF WindowOK
  <2>2. CASE s # w
    <3>1. WindowOK(s) /\ SameSheet(s) BY <1>4, <2>2 DEF AllOK
    <3>2. Message("sheet", s) \in Messages => Message("sheet", s) \in Messages'
      BY <1>1, <2>2 DEF Message
    <3> QED BY <3>1, <3>2 DEF WindowOK, SameSheet, SameTask
  <2> QED BY <2>1, <2>2
<1>5. ASSUME NEW u \in Tasks PROVE TaskOK(u)'
  <2>1. TaskOK(u) /\ SameTask(u) BY <1>5 DEF AllOK
  <2>2. State(u) = "OPEN" => Opens(u) \in Sheets \ {w} BY <1>2, <2>1 DEF TaskOK
  <2>3. Farewell(u) # Message("sheet", w) BY DEF Farewell, Message
  <2>4. \A v \in Tasks : State(v)' = State(v) /\ Opens(v)' = Opens(v) BY DEF SameTask
  <2> QED BY <1>1, <1>3, <2>1, <2>2, <2>3, <2>4, FarewellKept DEF TaskOK, SameSheet, SameTask
<1>6. ASSUME NEW m \in Messages' PROVE MessageOK(m)'
  <2>1. m \in Messages /\ m # Head(fifo) BY <1>1, <1>6
  <2>2. MessageOK(m) /\ m.kind \in Kinds /\ m = Message(m.kind, m.slot)
    BY <2>1, MessagesTyped DEF AllOK
  <2>3. CASE m.kind = "console"
    <3>1. m.slot # w BY <1>3, <2>2, <2>3 DEF MessageOK
    <3> QED BY <2>2, <2>3, <3>1 DEF MessageOK, SameSheet, SameTask
  <2>4. CASE m.kind = "task"
    BY <2>2, <2>4 DEF MessageOK, SameTask
  <2>5. CASE m.kind = "sheet"
    <3>1. m.slot # w BY <2>1, <2>2, <2>5
    <3> QED BY <2>2, <2>5, <3>1 DEF MessageOK, SameSheet, SameTask
  <2> QED BY <2>2, <2>3, <2>4, <2>5 DEF Kinds
<1>7. SheetFirst'
  <2> SUFFICES ASSUME NEW i \in DOMAIN fifo', NEW j \in DOMAIN fifo',
                      fifo'[i].kind = "task", fifo'[j].kind = "sheet",
                      Owner(fifo[j].slot)' = fifo'[i].slot
               PROVE  j < i
    BY DEF SheetFirst
  <2>1. PICK s : s = fifo'[j].slot OBVIOUS
  <2>2. fifo[j + 1] \in Messages /\ fifo[j + 1] = fifo'[j] BY <1>1 DEF Messages
  <2>3. MessageOK(fifo[j + 1]) /\ fifo[j + 1] = Message("sheet", s)
    BY <2>1, <2>2, MessagesTyped DEF AllOK
  <2>4. s \in Sheets BY <2>3 DEF MessageOK, Message
  <2>5. fifo'[j] \in Messages' BY DEF Messages
  <2>6. s # w BY <1>1, <2>2, <2>3, <2>5
  <2>7. Owner(s) = fifo[i + 1].slot BY <1>1, <2>1, <2>4, <2>6 DEF SameSheet
  <2>8. j + 1 < i + 1
    BY <1>1, <2>1, <2>7 DEF AllOK, SheetFirst
  <2> QED BY <1>1, <2>8
<1> QED BY <1>1, <1>4, <1>5, <1>6, <1>7 DEF AllOK
-----------------------------------------------------------------------------
(* What the updates of the structures do, field by field *)

LEMMA FieldsTyped ==
  ASSUME TypeOK
  PROVE  /\ \A t \in Tasks : /\ State(t) \in States /\ Asked(t) \in BOOLEAN
                              /\ Sheet(t) \in Sheets \cup {NULL} /\ Opens(t) \in Sheets \cup {NULL}
         /\ \A s \in Sheets : Kind(s) \in Flags /\ Owner(s) \in Tasks \cup {NULL}
<1>1. ASSUME NEW t \in Tasks
      PROVE  /\ State(t) \in States /\ Asked(t) \in BOOLEAN
             /\ Sheet(t) \in Sheets \cup {NULL} /\ Opens(t) \in Sheets \cup {NULL}
  BY DEF TypeOK, TasksOK, State, Asked, Sheet, Opens
<1>2. ASSUME NEW s \in Sheets PROVE Kind(s) \in Flags /\ Owner(s) \in Tasks \cup {NULL}
  BY SlotsAre DEF TypeOK, SheetsOK, Kind, Owner
<1> QED BY <1>1, <1>2

\* The test at the beginning of each event
LEMMA FocusTyped == TypeOK => Focus \in Sheets \cup {NULL, sht_back}
<1>1. StackOK /\ stack # <<>> => Last(stack) \in Sheets BY DEF StackOK, Last
<1> QED BY <1>1 DEF TypeOK, KeysOK, Focus

\* What is used, in terms of the flags
LEMMA FlagsAre ==
  ASSUME TypeOK, NEW s \in Sheets
  PROVE  /\ Used(s) <=> Kind(s) # Blank
         /\ APP \in sheets0[s].flags <=> Kind(s) = OfApp
         /\ CURSOR \in sheets0[s].flags <=> Kind(s) = OfConsole
         /\ {SHEET_USE, APP} \subseteq sheets0[s].flags <=> Kind(s) = OfApp
<1>1. s # sht_back /\ Kind(s) \in Flags BY SlotsAre, FieldsTyped
<1>2. Kind(s) = sheets0[s].flags BY DEF Kind
<1> QED BY <1>1, <1>2 DEF Used, Flags, Blank, Making, OfApp, OfConsole, SHEET_USE, APP, CURSOR

LEMMA StackedIsSheet == StackOK => \A x : Shown(x) => x \in Sheets
BY DEF StackOK, Shown, Contains

\* The state of one task changes.
LEMMA StateSet ==
  ASSUME TypeOK, NEW t \in Tasks, NEW x \in States, tasks0' = [tasks0 EXCEPT ![t].state = x]
  PROVE  /\ TasksOK'
         /\ State(t)' = x /\ Sheet(t)' = Sheet(t) /\ Asked(t)' = Asked(t) /\ Opens(t)' = Opens(t)
         /\ \A u \in Tasks \ {t} : SameTask(u)
BY DEF TypeOK, TasksOK, State, Asked, Sheet, Opens, SameTask

\* A sheet gets new contents.
LEMMA SheetSet ==
  ASSUME TypeOK, NEW s \in Sheets, NEW f \in Flags, NEW o \in Tasks \cup {NULL},
         sheets0' = [sheets0 EXCEPT ![s] = [flags |-> f, task |-> o]]
  PROVE  /\ SheetsOK'
         /\ Kind(s)' = f /\ Owner(s)' = o
         /\ \A r \in Sheets \ {s} : Kind(r)' = Kind(r) /\ Owner(r)' = Owner(r)
BY SlotsAre DEF TypeOK, SheetsOK, Kind, Owner

\* A sheet is freed.
LEMMA SheetFreed ==
  ASSUME TypeOK, NEW s \in Sheets, FreeSheet(s)
  PROVE  /\ SheetsOK' /\ StackOK'
         /\ Kind(s)' = Blank /\ ~Shown(s)'
         /\ \A r \in Sheets \ {s} : SameSheet(r)
<1>1. /\ SheetsOK' /\ Kind(s)' = Blank
      /\ \A r \in Sheets \ {s} : Kind(r)' = Kind(r) /\ Owner(r)' = Owner(r)
  BY SlotsAre DEF FreeSheet, TypeOK, SheetsOK, Kind, Owner, Blank, Flags
<1>2. StackOK' /\ \A r : Contains(stack', r) <=> Contains(stack, r) /\ r # s
  <2>1. stack' = Hidden(stack, s) BY DEF FreeSheet
  <2>2. stack \in Seq(Sheets) /\ IsInjective(stack) BY DEF TypeOK, StackOK
  <2> QED BY <2>1, <2>2, StackHide DEF StackOK
<1>3. \A r : Shown(r)' <=> Contains(stack', r) BY DEF Shown, Contains
<1>4. \A r : Shown(r) <=> Contains(stack, r) BY DEF Shown
<1> QED BY <1>1, <1>2, <1>3, <1>4 DEF SameSheet

\* No sheet changes, no task changes, no message is sent or taken.
LEMMA SheetsKept ==
  ASSUME UNCHANGED <<sheets0, stack>> PROVE \A s \in Sheets : SameSheet(s)
BY DEF SameSheet, Kind, Owner, Shown

LEMMA FieldsKept ==
  ASSUME UNCHANGED sheets0 PROVE \A s \in Sheets : Kind(s)' = Kind(s) /\ Owner(s)' = Owner(s)
BY DEF Kind, Owner

LEMMA TasksKept ==
  ASSUME UNCHANGED tasks0 PROVE \A t \in Tasks : SameTask(t)
BY DEF SameTask, State, Asked, Sheet, Opens

LEMMA FifoKept == UNCHANGED fifo => Messages' = Messages
BY DEF Messages
-----------------------------------------------------------------------------
(* The memory of consoles *)

Active == {t \in Tasks : State(t) # "FREE"}
Loaded == {t \in Tasks : State(t) \notin {"FREE", "START", "GONE"}}
Buffers == {s \in Sheets : Kind(s) \in {Making, OfConsole}}

Stacks == UNION {Blocks(t) : t \in Active}
Fats == {<<"fat", t>> : t \in Loaded}
Images == {<<"buf", s>> : s \in Buffers}

HeldOK == held = Stacks \cup Fats \cup Images

LEMMA MemoryIs == TypeOK => (MemoryExact <=> HeldOK)
<1> SUFFICES ASSUME TypeOK PROVE MemoryExact <=> HeldOK
  OBVIOUS
<1> DEFINE A == {u \in Tasks : Alive(u)}
           L == {u \in Tasks : Alive(u) /\ State(u) \notin {"START", "GONE"}}
           B == {r \in Sheets : Used(r) /\ APP \notin sheets0[r].flags}
<1>1. A = Active BY DEF Alive, Active
<1>2. L = Loaded BY DEF Alive, Loaded
<1>3. B = Buffers
  BY FlagsAre, FieldsTyped, KindsDiffer DEF Buffers, Flags
<1>4. MemoryExact <=> held = (UNION {Blocks(t) : t \in A}) \cup {<<"fat", t>> : t \in L}
                               \cup {<<"buf", s>> : s \in B}
  BY DEF MemoryExact
<1> HIDE DEF A, L, B
<1> QED BY <1>1, <1>2, <1>3, <1>4 DEF HeldOK, Stacks, Fats, Images

LEMMA HeldIs == (TypeOK => (MemoryExact <=> HeldOK)) /\ (TypeOK => (MemoryExact <=> HeldOK))'
BY MemoryIs, PTL

LEMMA StacksGrow ==
  ASSUME NEW t, Active' = Active \cup {t} PROVE Stacks' = Stacks \cup Blocks(t)
BY DEF Stacks

LEMMA StacksShrink ==
  ASSUME NEW t, Active' = Active \ {t} PROVE Stacks' = Stacks \ Blocks(t)
<1>1. \A u : u # t => Blocks(u) \cap Blocks(t) = {} BY DEF Blocks
<1>2. \A x : x \in Stacks <=> \E u \in Active : x \in Blocks(u) BY DEF Stacks
<1>3. \A x : x \in Stacks' <=> \E u \in Active \ {t} : x \in Blocks(u) BY DEF Stacks
<1>4. ASSUME NEW x PROVE x \in Stacks' <=> x \in Stacks /\ x \notin Blocks(t)
  BY <1>1, <1>2, <1>3
<1> QED BY <1>4

LEMMA FatsGrow ==
  ASSUME NEW t, Loaded' = Loaded \cup {t} PROVE Fats' = Fats \cup {<<"fat", t>>}
BY DEF Fats

LEMMA FatsShrink ==
  ASSUME NEW t, Loaded' = Loaded \ {t} PROVE Fats' = Fats \ {<<"fat", t>>}
<1>1. \A u : <<"fat", u>> = <<"fat", t>> <=> u = t OBVIOUS
<1>2. \A x : x \in Fats <=> \E u \in Loaded : x = <<"fat", u>> BY DEF Fats
<1>3. \A x : x \in Fats' <=> \E u \in Loaded \ {t} : x = <<"fat", u>> BY DEF Fats
<1>4. ASSUME NEW x PROVE x \in Fats' <=> x \in Fats /\ x # <<"fat", t>>
  BY <1>1, <1>2, <1>3
<1> QED BY <1>4

LEMMA ImagesGrow ==
  ASSUME NEW s, Buffers' = Buffers \cup {s} PROVE Images' = Images \cup {<<"buf", s>>}
BY DEF Images

LEMMA ImagesShrink ==
  ASSUME NEW s, Buffers' = Buffers \ {s} PROVE Images' = Images \ {<<"buf", s>>}
<1>1. \A r : <<"buf", r>> = <<"buf", s>> <=> r = s OBVIOUS
<1>2. \A x : x \in Images <=> \E r \in Buffers : x = <<"buf", r>> BY DEF Images
<1>3. \A x : x \in Images' <=> \E r \in Buffers \ {s} : x = <<"buf", r>> BY DEF Images
<1>4. ASSUME NEW x PROVE x \in Images' <=> x \in Images /\ x # <<"buf", s>>
  BY <1>1, <1>2, <1>3
<1> QED BY <1>4

\* Blocks of different kinds are different.
LEMMA KindsApart ==
  ASSUME NEW t
  PROVE  /\ <<"fat", t>> \notin Stacks \cup Images
         /\ <<"buf", t>> \notin Stacks \cup Fats
         /\ (Fats \cup Images) \cap Blocks(t) = {}
<1>1. ASSUME NEW x, x \in Fats PROVE x \notin Blocks(t) /\ x # <<"buf", t>>
  <2>1. PICK u \in Loaded : x = <<"fat", u>> BY <1>1 DEF Fats
  <2> QED BY <2>1 DEF Blocks
<1>2. ASSUME NEW x, x \in Images PROVE x \notin Blocks(t) /\ x # <<"fat", t>>
  <2>1. PICK r \in Buffers : x = <<"buf", r>> BY <1>2 DEF Images
  <2> QED BY <2>1 DEF Blocks
<1>3. ASSUME NEW x, x \in Stacks PROVE x # <<"fat", t>> /\ x # <<"buf", t>>
  <2>1. PICK u \in Active : x \in Blocks(u) BY <1>3 DEF Stacks
  <2> QED BY <2>1 DEF Blocks
<1> QED BY <1>1, <1>2, <1>3

\* Memory is used by the same consoles and windows.
LEMMA HeldKept ==
  /\ Active' = Active => Stacks' = Stacks
  /\ Loaded' = Loaded => Fats' = Fats
  /\ Buffers' = Buffers => Images' = Images
BY DEF Stacks, Fats, Images

\* What is in use stays what it is.
LEMMA SlotsKept ==
  /\ (\A u \in Tasks : State(u)' = State(u)) => Active' = Active /\ Loaded' = Loaded
  /\ (\A s \in Sheets : Kind(s)' = Kind(s)) => Buffers' = Buffers
BY DEF Active, Loaded, Buffers

-----------------------------------------------------------------------------
(* The actions, by what they do *)

\* An event of task A that closes and opens nothing
LEMMA ViewStep ==
  ASSUME IInv, UNCHANGED <<tasks0, sheets0, fifo, held>>, StackOK', KeysOK',
         \A s \in Sheets : Shown(s)' <=> Shown(s)
  PROVE  IInv'
<1>1. /\ \A s \in Sheets : SameSheet(s) /\ Kind(s)' = Kind(s)
      /\ \A t \in Tasks : SameTask(t) /\ State(t)' = State(t)
  BY FieldsKept, TasksKept DEF SameSheet, SameTask
<1>2. AllOK' BY <1>1, FifoKept, NothingChanges DEF IInv, Inv
<1>3. TypeOK' BY DEF IInv, Inv, TypeOK, TasksOK, SheetsOK, FifoOK
<1>4. HeldOK' BY <1>1, SlotsKept, HeldKept, HeldIs DEF IInv, Inv, HeldOK
<1> QED BY <1>2, <1>3, <1>4, HeldIs DEF IInv, Inv

\* A console or its application goes on.
LEMMA StateStep ==
  ASSUME IInv, NEW t \in Tasks, State(t) \notin {"FREE", "OPEN", "GONE"},
         NEW x \in {"PROMPT", "APP", "ENDING", "ASTRAY"},
         x = "PROMPT" => \A s \in Sheets : ~(Kind(s) = OfApp /\ Owner(s) = t),
         tasks0' = [tasks0 EXCEPT ![t].state = x],
         UNCHANGED <<sheets0, fifo>>, StackOK', KeysOK',
         \A s \in Sheets : Shown(s)' <=> Shown(s),
         held' = IF State(t) = "START" THEN held \cup {<<"fat", t>>} ELSE held
  PROVE  IInv'
<1>1. \A s \in Sheets : SameSheet(s) /\ Kind(s)' = Kind(s)
  BY FieldsKept DEF SameSheet
<1>2. /\ TasksOK'
      /\ State(t)' = x /\ Sheet(t)' = Sheet(t) /\ Asked(t)' = Asked(t) /\ Opens(t)' = Opens(t)
      /\ \A u \in Tasks \ {t} : SameTask(u)
  BY StateSet DEF States, IInv, Inv
<1>3. AllOK' BY <1>1, <1>2, FifoKept, StateChanges DEF IInv, Inv
<1>4. TypeOK' BY <1>2 DEF IInv, Inv, TypeOK, SheetsOK, FifoOK
<1>5. HeldOK'
  <2>1. Active' = Active BY <1>2 DEF Active, SameTask
  <2>2. Buffers' = Buffers BY <1>1, SlotsKept
  <2>3. Loaded' = Loaded \cup {t} BY <1>2 DEF Loaded, SameTask
  <2>4. State(t) # "START" => Loaded \cup {t} = Loaded BY DEF Loaded
  <2>5. HeldOK BY HeldIs DEF IInv, Inv
  <2> QED BY <2>1, <2>2, <2>3, <2>4, <2>5, HeldKept, FatsGrow DEF HeldOK
<1> QED BY <1>3, <1>4, <1>5, HeldIs DEF IInv, Inv

\* An application's window is closed.
LEMMA CloseStep ==
  ASSUME IInv, NEW w \in Sheets, Kind(w) = OfApp, FreeSheet(w),
         UNCHANGED <<tasks0, key_win, fifo, held>>
  PROVE  IInv'
<1>1. /\ SheetsOK' /\ StackOK' /\ Kind(w)' = Blank /\ ~Shown(w)'
      /\ \A s \in Sheets \ {w} : SameSheet(s)
  BY SheetFreed DEF IInv, Inv
<1>2. \A t \in Tasks : SameTask(t) /\ State(t)' = State(t) BY TasksKept DEF SameTask
<1>3. AllOK' BY <1>1, <1>2, FifoKept, AppCloses DEF IInv, Inv
<1>4. TypeOK' BY <1>1 DEF IInv, Inv, TypeOK, TasksOK, KeysOK, FifoOK
<1>5. HeldOK'
  <2>1. Buffers' = Buffers BY <1>1, KindsDiffer DEF Buffers, SameSheet
  <2> QED BY <1>2, <2>1, SlotsKept, HeldKept, HeldIs DEF IInv, Inv, HeldOK
<1> QED BY <1>3, <1>4, <1>5, HeldIs DEF IInv, Inv

\* A console ends.
LEMMA ExitStep ==
  ASSUME IInv, NEW t \in Tasks, State(t) \in {"PROMPT", "ENDING"}, cmd_exit(t),
         \A s \in Sheets : ~(Kind(s) = OfApp /\ Owner(s) = t)
  PROVE  IInv'
<1>1. \A s \in Sheets : SameSheet(s) /\ Kind(s)' = Kind(s)
  BY SheetsKept, FieldsKept DEF cmd_exit
<1>2. /\ TasksOK'
      /\ State(t)' = "GONE" /\ Sheet(t)' = Sheet(t) /\ Asked(t)' = Asked(t) /\ Opens(t)' = Opens(t)
      /\ \A u \in Tasks \ {t} : SameTask(u)
  BY StateSet DEF States, cmd_exit, IInv, Inv
<1>3. fifo' = Append(fifo, Farewell(t)) /\ fifo \in Seq(Message0) /\ IsInjective(fifo)
  BY DEF cmd_exit, IInv, Inv, TypeOK, FifoOK
<1>4. AllOK' /\ FifoOK' BY <1>1, <1>2, <1>3, ConsoleEnds DEF IInv, Inv, FifoOK
<1>5. TypeOK' BY <1>2, <1>4 DEF cmd_exit, IInv, Inv, TypeOK, SheetsOK, StackOK, KeysOK
<1>6. HeldOK'
  <2>1. Active' = Active BY <1>2 DEF Active, SameTask
  <2>2. Buffers' = Buffers BY <1>1, SlotsKept
  <2>3. Loaded' = Loaded \ {t} BY <1>2 DEF Loaded, SameTask
  <2>4. HeldOK BY HeldIs DEF IInv, Inv
  <2>5. held' = held \ {<<"fat", t>>} BY DEF cmd_exit
  <2>6. Stacks' = Stacks /\ Images' = Images BY <2>1, <2>2, HeldKept
  <2>7. Fats' = Fats \ {<<"fat", t>>} BY <2>3, FatsShrink
  <2>8. <<"fat", t>> \notin Stacks \cup Images BY KindsApart
  <2>9. held = Stacks \cup Fats \cup Images BY <2>4 DEF HeldOK
  <2>10. held' = Stacks' \cup Fats' \cup Images'
    <3>1. PICK x : x = <<"fat", t>> OBVIOUS
    <3> QED BY <2>5, <2>6, <2>7, <2>8, <2>9, <3>1
  <2> QED BY <2>10 DEF HeldOK
<1> QED BY <1>4, <1>5, <1>6, HeldIs DEF IInv, Inv

\* A task slot gets a new console.
LEMMA TaskSet ==
  ASSUME TypeOK, NEW n \in Tasks, NEW w \in Sheets \cup {NULL}, tasks0' = [tasks0 EXCEPT ![n] = Opened(w)]
  PROVE  /\ TasksOK'
         /\ State(n)' = "START" /\ Sheet(n)' = w /\ ~Asked(n)'
         /\ \A u \in Tasks \ {n} : SameTask(u)
<1>1. Opened(w) = [state |-> "START", sht |-> w, asked |-> FALSE, opens |-> NULL]
  BY DEF Opened
<1> QED BY <1>1 DEF TypeOK, TasksOK, States, State, Asked, Sheet, Opens, SameTask

\* A window appears.
LEMMA WindowOnTop ==
  ASSUME IInv, NEW w \in Sheets, Kind(w) \in {Blank, Making}, stack' = Append(stack, w)
  PROVE  StackOK' /\ \A s \in Sheets : Shown(s)' <=> Shown(s) \/ s = w
<1>1. ~Contains(stack, w) BY DEF IInv, Inv, AllOK, WindowOK, Shown
<1>2. stack \in Seq(Sheets) /\ IsInjective(stack) BY DEF IInv, Inv, TypeOK, StackOK
<1>3. /\ stack' \in Seq(Sheets) /\ IsInjective(stack')
      /\ \A s : Contains(stack', s) <=> Contains(stack, s) \/ s = w
  BY <1>1, <1>2, StackAppend
<1>4. \A s : Shown(s)' <=> Contains(stack', s) BY DEF Shown, Contains
<1> QED BY <1>3, <1>4 DEF StackOK, Shown

\* A free slot is found.
LEMMA FreeTask == FreeTasks # {} => Min(FreeTasks) \in Tasks /\ State(Min(FreeTasks)) = "FREE"
<1> SUFFICES ASSUME FreeTasks # {} PROVE Min(FreeTasks) \in FreeTasks BY DEF FreeTasks
<1>1. FreeTasks \subseteq Nat BY ConsoleAssumption DEF FreeTasks
<1> QED BY <1>1, MinIn

LEMMA FreeSheetFound ==
  TypeOK /\ FreeSheets # {} => Min(FreeSheets) \in Sheets /\ Kind(Min(FreeSheets)) = Blank
<1> SUFFICES ASSUME TypeOK, FreeSheets # {} PROVE Min(FreeSheets) \in FreeSheets
  BY FlagsAre DEF FreeSheets
<1>1. FreeSheets \subseteq Nat BY ConsoleAssumption DEF FreeSheets
<1> QED BY <1>1, MinIn

\* A new console, with a window or with none
LEMMA ConsoleStep ==
  ASSUME IInv, NEW n \in Tasks, State(n) = "FREE", NEW w \in Sheets \cup {NULL},
         TasksOK', State(n)' = "START", Sheet(n)' = w, ~Asked(n)',
         \A u \in Tasks \ {n} :
           /\ Sheet(u)' = Sheet(u) /\ Asked(u)' = Asked(u)
           /\ IF State(u) = "OPEN" /\ Opens(u) = w THEN State(u)' = "PROMPT"
              ELSE State(u)' = State(u) /\ Opens(u)' = Opens(u),
         IF w = NULL THEN UNCHANGED <<sheets0, stack>>
         ELSE /\ Kind(w) \in {Blank, Making} /\ stack' = Append(stack, w)
              /\ sheets0' = [sheets0 EXCEPT ![w] = [flags |-> OfConsole, task |-> n]],
         held' = held \cup Blocks(n)
                      \cup (IF w = NULL \/ Kind(w) = Making THEN {} ELSE {<<"buf", w>>}),
         KeysOK', UNCHANGED fifo
  PROVE  IInv'
<1> USE SlotsAre, KindsDiffer
<1>1. CASE w = NULL
  <2>1. \A s \in Sheets : SameSheet(s) /\ Kind(s)' = Kind(s)
    BY <1>1, SheetsKept, FieldsKept
  <2>2. AllOK' BY <1>1, <2>1, FifoKept, NewConsole DEF IInv, Inv
  <2>3. TypeOK' BY <1>1 DEF IInv, Inv, TypeOK, SheetsOK, StackOK, FifoOK
  <2>4. Active' = Active \cup {n} BY DEF Active
  <2>5. Loaded' = Loaded BY DEF Loaded
  <2>6. Buffers' = Buffers BY <2>1, SlotsKept
  <2>7. held' = held \cup Blocks(n) BY <1>1
  <2>8. HeldOK BY HeldIs DEF IInv, Inv
  <2>9. HeldOK' BY <2>4, <2>5, <2>6, <2>7, <2>8, HeldKept, StacksGrow DEF HeldOK
  <2> QED BY <2>2, <2>3, <2>9, HeldIs DEF IInv, Inv
<1>2. CASE w # NULL
  <2>0. OfConsole \in Flags BY DEF Flags
  <2>1. /\ SheetsOK' /\ Kind(w)' = OfConsole /\ Owner(w)' = n
        /\ \A r \in Sheets \ {w} : Kind(r)' = Kind(r) /\ Owner(r)' = Owner(r)
    BY <1>2, <2>0, SheetSet DEF IInv, Inv
  <2>2. StackOK' /\ \A s \in Sheets : Shown(s)' <=> Shown(s) \/ s = w
    BY <1>2, WindowOnTop
  <2>3. \A s \in Sheets \ {w} : SameSheet(s) BY <2>1, <2>2 DEF SameSheet
  <2>4. AllOK' BY <1>2, <2>1, <2>3, FifoKept, NewConsole DEF IInv, Inv
  <2>5. TypeOK' BY <2>1, <2>2 DEF IInv, Inv, TypeOK, FifoOK
  <2>6. Active' = Active \cup {n} BY DEF Active
  <2>7. Loaded' = Loaded BY DEF Loaded
  <2>8. Buffers' = Buffers \cup {w} BY <1>2, <2>1 DEF Buffers
  <2>9. HeldOK BY HeldIs DEF IInv, Inv
  <2>10. Images' = Images \cup {<<"buf", w>>} BY <2>8, ImagesGrow
  <2>11. Kind(w) = Making => Images' = Images
    <3>1. Kind(w) = Making => Buffers' = Buffers BY <1>2, <2>8 DEF Buffers
    <3> QED BY <3>1, HeldKept
  <2>12. held' = held \cup Blocks(n) \cup (IF Kind(w) = Making THEN {} ELSE {<<"buf", w>>})
    BY <1>2
  <2>13. HeldOK'
    BY <2>6, <2>7, <2>9, <2>10, <2>11, <2>12, HeldKept, StacksGrow DEF HeldOK
  <2> QED BY <2>4, <2>5, <2>13, HeldIs DEF IInv, Inv
<1> QED BY <1>1, <1>2

\* A console's window that was given up is closed, or a console with its window.
LEMMA SheetTaken ==
  ASSUME IInv, NEW w \in Sheets, Kind(w) = OfConsole, FreeSheet(w)
  PROVE  /\ SheetsOK' /\ StackOK' /\ Kind(w)' = Blank /\ ~Shown(w)'
         /\ \A s \in Sheets \ {w} : SameSheet(s)
         /\ Images' = Images \ {<<"buf", w>>}
<1>1. /\ SheetsOK' /\ StackOK' /\ Kind(w)' = Blank /\ ~Shown(w)'
      /\ \A s \in Sheets \ {w} : SameSheet(s)
  BY SheetFreed DEF IInv, Inv
<1>2. Buffers' = Buffers \ {w} BY <1>1, KindsDiffer DEF Buffers, SameSheet
<1> QED BY <1>1, <1>2, ImagesShrink

-----------------------------------------------------------------------------
(* Every action of task A keeps the invariant. *)

\* What is known about a window in the stack
LEMMA StackedWindow ==
  ASSUME IInv, NEW s, Contains(stack, s)
  PROVE  /\ s \in Sheets /\ Shown(s) /\ Kind(s) \in {OfApp, OfConsole}
         /\ Owner(s) \in Tasks /\ State(Owner(s)) # "FREE"
         /\ APP \in sheets0[s].flags <=> Kind(s) = OfApp
<1>1. Shown(s) BY DEF Shown
<1>2. s \in Sheets BY <1>1, StackedIsSheet DEF IInv, Inv, TypeOK
<1> QED BY <1>1, <1>2, FieldsTyped, FlagsAre, KindsDiffer DEF IInv, Inv, AllOK, WindowOK, Flags

\* A window in the stack is raised.
LEMMA RaisedWindow ==
  ASSUME IInv, NEW s \in Sheets, Contains(stack, s), stack' = Raised(stack, s)
  PROVE  StackOK' /\ \A r \in Sheets : Shown(r)' <=> Shown(r)
<1>1. stack \in Seq(Sheets) /\ IsInjective(stack) BY DEF IInv, Inv, TypeOK, StackOK
<1>2. /\ stack' \in Seq(Sheets) /\ IsInjective(stack')
      /\ \A r : Contains(stack', r) <=> Contains(stack, r) \/ r = s
  BY <1>1, StackRaise
<1>3. \A r : Shown(r)' <=> Contains(stack', r) BY DEF Shown, Contains
<1> QED BY <1>2, <1>3 DEF StackOK, Shown

LEMMA EventStep == ASSUME IInv, Event PROVE IInv'
<1>1. KeysOK' BY FocusTyped DEF IInv, Inv, Event, KeysOK
<1>2. StackOK' /\ \A s \in Sheets : Shown(s)' <=> Shown(s)
  BY DEF IInv, Inv, TypeOK, StackOK, Shown, Event
<1> QED BY <1>1, <1>2, ViewStep DEF Event

LEMMA TabStep == ASSUME IInv, Tab PROVE IInv'
<1>1. PICK f : f = Focus OBVIOUS
<1>2. Contains(stack, f) BY <1>1 DEF Tab
<1>3. \E h \in DOMAIN stack : stack[h] = f BY <1>2 DEF Contains
<1>4. PICK h : h = Height(stack, f) OBVIOUS
<1>5. h \in DOMAIN stack BY <1>3, <1>4 DEF Height
<1>6. stack \in Seq(Sheets) BY DEF IInv, Inv, TypeOK, StackOK
<1>7. key_win' = IF h = 1 THEN Last(stack) ELSE stack[h - 1] BY <1>1, <1>4 DEF Tab
<1>8. key_win' \in Sheets BY <1>5, <1>6, <1>7 DEF Last
<1>9. KeysOK' BY <1>8 DEF KeysOK
<1>10. StackOK' /\ \A s \in Sheets : Shown(s)' <=> Shown(s)
  BY DEF IInv, Inv, TypeOK, StackOK, Shown, Tab
<1> QED BY <1>9, <1>10, ViewStep DEF Tab

LEMMA F11Step == ASSUME IInv, F11 PROVE IInv'
<1>1. KeysOK' BY FocusTyped DEF IInv, Inv, F11, KeysOK
<1>2. stack[1] \in Sheets /\ Contains(stack, stack[1])
  BY DEF IInv, Inv, TypeOK, StackOK, F11, Contains
<1>3. StackOK' /\ \A s \in Sheets : Shown(s)' <=> Shown(s) BY <1>2, RaisedWindow DEF F11
<1> QED BY <1>1, <1>3, ViewStep DEF F11

LEMMA ClickStep == ASSUME IInv, NEW s \in Sheets, Click(s) PROVE IInv'
<1>1. KeysOK' BY DEF Click, KeysOK
<1>2. StackOK' /\ \A r \in Sheets : Shown(r)' <=> Shown(r) BY RaisedWindow DEF Click
<1> QED BY <1>1, <1>2, ViewStep DEF Click

LEMMA BreakKeyStep == ASSUME IInv, BreakKey PROVE IInv'
<1>1. PICK f, t : f = Focus /\ t = Owner(f) OBVIOUS
<1>2. f \in Sheets \cup {sht_back} BY <1>1, FocusTyped DEF IInv, Inv, BreakKey
<1>3. Owner(f) # NULL BY <1>1 DEF BreakKey
<1>4. f # sht_back BY <1>3 DEF Owner
<1>5. t \in Tasks BY <1>1, <1>2, <1>3, <1>4, FieldsTyped DEF IInv, Inv
<1>6. State(t) = "APP" /\ tasks0' = [tasks0 EXCEPT ![t].state = "ENDING"]
  BY <1>1 DEF BreakKey
<1>7. KeysOK' BY FocusTyped DEF IInv, Inv, BreakKey, KeysOK
<1>8. StackOK' /\ \A s \in Sheets : Shown(s)' <=> Shown(s)
  BY DEF IInv, Inv, TypeOK, StackOK, Shown, BreakKey
<1>9. UNCHANGED <<sheets0, fifo>> /\ held' = held BY DEF BreakKey
<1> QED BY <1>5, <1>6, <1>7, <1>8, <1>9, StateStep

LEMMA BreakMouseStep == ASSUME IInv, NEW s \in Sheets, BreakMouse(s) PROVE IInv'
<1>1. PICK t : t = Owner(s) OBVIOUS
<1>2. Contains(stack, s) /\ APP \in sheets0[s].flags BY DEF BreakMouse
<1>3. Kind(s) = OfApp BY <1>2, StackedWindow
<1>4. t \in Tasks /\ State(t) \in {"APP", "ENDING", "ASTRAY"}
  BY <1>1, <1>3 DEF IInv, Inv, AllOK, WindowOK
<1>5. \E x \in {"ENDING", "ASTRAY"} : tasks0' = [tasks0 EXCEPT ![t].state = x]
  <2>1. tasks0' = [tasks0 EXCEPT ![t].state =
                     IF tasks0[t].state = "APP" THEN "ENDING" ELSE "ASTRAY"]
    BY <1>1 DEF BreakMouse
  <2> QED BY <2>1
<1>6. KeysOK' BY DEF BreakMouse, KeysOK
<1>7. StackOK' /\ \A r \in Sheets : Shown(r)' <=> Shown(r) BY RaisedWindow DEF BreakMouse
<1>8. UNCHANGED <<sheets0, fifo>> /\ held' = held BY DEF BreakMouse
<1> QED BY <1>4, <1>5, <1>6, <1>7, <1>8, StateStep

LEMMA AskToCloseStep == ASSUME IInv, NEW s \in Sheets, AskToClose(s) PROVE IInv'
<1>1. PICK t : t = Owner(s) OBVIOUS
<1>2. Contains(stack, s) /\ APP \notin sheets0[s].flags BY DEF AskToClose
<1>3. Shown(s) /\ Kind(s) = OfConsole /\ t \in Tasks BY <1>1, <1>2, StackedWindow
<1>4. tasks0' = [tasks0 EXCEPT ![t].asked = TRUE] BY <1>1 DEF AskToClose
<1>5. /\ TasksOK'
      /\ State(t)' = State(t) /\ Sheet(t)' = Sheet(t) /\ Asked(t)' /\ Opens(t)' = Opens(t)
      /\ \A u \in Tasks \ {t} : SameTask(u)
  BY <1>3, <1>4 DEF IInv, Inv, TypeOK, TasksOK, State, Asked, Sheet, Opens, SameTask
<1>6. /\ stack' \in Seq(Sheets) /\ IsInjective(stack')
      /\ \A r : Contains(stack', r) <=> Contains(stack, r) /\ r # s
  <2>1. stack' = Hidden(stack, s) BY DEF AskToClose
  <2>2. stack \in Seq(Sheets) /\ IsInjective(stack) BY DEF IInv, Inv, TypeOK, StackOK
  <2> QED BY <2>1, <2>2, StackHide
<1>7. \A r : Shown(r)' <=> Contains(stack', r) BY DEF Shown, Contains
<1>8. \A r \in Sheets : Kind(r)' = Kind(r) /\ Owner(r)' = Owner(r)
  BY FieldsKept DEF AskToClose
<1>9. ~Shown(s)' /\ \A r \in Sheets \ {s} : SameSheet(r)
  BY <1>6, <1>7, <1>8 DEF SameSheet, Shown
<1>10. KeysOK'
  <2>1. key_win' = IF stack' = <<>> THEN sht_back ELSE Last(stack')
    BY DEF AskToClose, BelowMouse
  <2> QED BY <1>6, <2>1 DEF KeysOK, Last
<1>11. fifo' = fifo /\ Messages' = Messages /\ held' = held /\ UNCHANGED sheets0
  BY FifoKept DEF AskToClose
<1>12. AllOK' BY <1>1, <1>3, <1>5, <1>8, <1>9, <1>11, HideAndAsk DEF IInv, Inv
<1>13. TypeOK'
  BY <1>5, <1>6, <1>10, <1>11 DEF IInv, Inv, TypeOK, SheetsOK, StackOK, FifoOK
<1>14. HeldOK'
  <2>1. \A u \in Tasks : State(u)' = State(u) BY <1>5 DEF SameTask
  <2> QED BY <1>8, <1>11, <2>1, SlotsKept, HeldKept, HeldIs DEF IInv, Inv, HeldOK
<1> QED BY <1>12, <1>13, <1>14, HeldIs DEF IInv, Inv

LEMMA open_consoleStep == ASSUME IInv, open_console PROVE IInv'
<1>1. PICK n, w : n = Min(FreeTasks) /\ w = Min(FreeSheets) OBVIOUS
<1>2. n \in Tasks /\ State(n) = "FREE" BY <1>1, FreeTask DEF open_console
<1>3. w \in Sheets /\ Kind(w) = Blank BY <1>1, FreeSheetFound DEF open_console, IInv, Inv
<1>4. tasks0' = [tasks0 EXCEPT ![n] = Opened(w)] BY <1>1 DEF open_console
<1>5. /\ TasksOK' /\ State(n)' = "START" /\ Sheet(n)' = w /\ ~Asked(n)'
      /\ \A u \in Tasks \ {n} : SameTask(u)
  BY <1>2, <1>3, <1>4, TaskSet DEF IInv, Inv
<1>6. /\ stack' = Append(stack, w)
      /\ sheets0' = [sheets0 EXCEPT ![w] = [flags |-> OfConsole, task |-> n]]
  BY <1>1 DEF open_console, OfConsole
<1>7. \A u \in Tasks : ~(State(u) = "OPEN" /\ Opens(u) = w)
  BY <1>3, KindsDiffer DEF IInv, Inv, AllOK, TaskOK
<1>8. \A u \in Tasks \ {n} :
        /\ Sheet(u)' = Sheet(u) /\ Asked(u)' = Asked(u)
        /\ IF State(u) = "OPEN" /\ Opens(u) = w THEN State(u)' = "PROMPT"
           ELSE State(u)' = State(u) /\ Opens(u)' = Opens(u)
  BY <1>5, <1>7 DEF SameTask
<1>9. held' = held \cup Blocks(n) \cup {<<"buf", w>>} /\ key_win' = w /\ UNCHANGED fifo
  BY <1>1 DEF open_console
<1>10. KeysOK' BY <1>3, <1>9 DEF KeysOK
<1> QED BY <1>2, <1>3, <1>5, <1>6, <1>8, <1>9, <1>10, SlotsAre, KindsDiffer, ConsoleStep

\* The message that task A takes
LEMMA FirstMessage ==
  ASSUME IInv, fifo # <<>>, NEW k, NEW x, Head(fifo).kind = k, Head(fifo).slot = x
  PROVE  /\ fifo \in Seq(Message0) /\ IsInjective(fifo)
         /\ Head(fifo) = Message(k, x) /\ Head(fifo) \in Messages /\ MessageOK(Message(k, x))
<1>1. fifo \in Seq(Message0) /\ IsInjective(fifo) BY DEF IInv, Inv, TypeOK, FifoOK
<1>2. Head(fifo) = fifo[1] /\ 1 \in DOMAIN fifo BY <1>1, FifoTake
<1>3. Head(fifo) \in Messages BY <1>2 DEF Messages
<1>4. Head(fifo) = Message(k, x) BY <1>1, <1>3, MessagesTyped
<1>5. MessageOK(Head(fifo)) BY <1>3 DEF IInv, Inv, AllOK
<1> QED BY <1>1, <1>3, <1>4, <1>5

LEMMA close_consoleStep == ASSUME IInv, close_console PROVE IInv'
<1>1. PICK w : w = Head(fifo).slot OBVIOUS
<1>2. /\ fifo \in Seq(Message0) /\ IsInjective(fifo) /\ fifo # <<>>
      /\ Head(fifo) = Message("console", w) /\ MessageOK(Message("console", w))
  BY <1>1, FirstMessage DEF close_console
<1>3. PICK t : t = Owner(w) OBVIOUS
<1>4. /\ w \in Sheets /\ Kind(w) = OfConsole /\ t \in Tasks
      /\ State(t) = "GONE" /\ Sheet(t) = w
  BY <1>2, <1>3 DEF MessageOK, Message
<1>5. sheets0[w].task = t BY <1>3, <1>4, SlotsAre DEF Owner
<1>6. /\ FreeSheet(w) /\ tasks0' = [tasks0 EXCEPT ![t].state = "FREE"]
      /\ held' = held \ (Blocks(t) \cup {<<"buf", w>>})
      /\ fifo' = Tail(fifo) /\ key_win' = Focus
  BY <1>1, <1>5 DEF close_console
<1>7. /\ SheetsOK' /\ StackOK' /\ Kind(w)' = Blank /\ ~Shown(w)'
      /\ \A s \in Sheets \ {w} : SameSheet(s)
      /\ Images' = Images \ {<<"buf", w>>}
  BY <1>4, <1>6, SheetTaken
<1>8. TasksOK' /\ State(t)' = "FREE" /\ \A u \in Tasks \ {t} : SameTask(u)
  BY <1>4, <1>6, StateSet DEF States, IInv, Inv
<1>9. AllOK' /\ FifoOK'
  <2>1. AllOK /\ w \in Sheets \cup {NULL} BY <1>4 DEF IInv, Inv
  <2>2. \/ Head(fifo) = Message("console", w) /\ w \in Sheets /\ Owner(w) = t
        \/ Head(fifo) = Message("task", t) /\ w = NULL
    BY <1>2, <1>3, <1>4
  <2>3. w # NULL => Kind(w)' = Blank /\ ~Shown(w)' BY <1>7
  <2>4. fifo' = Tail(fifo) BY <1>6
  <2>5. t \in Tasks BY <1>4
  <2>6. \A s \in Sheets \ {w} : SameSheet(s) BY <1>7
  <2>7. fifo \in Seq(Message0) /\ IsInjective(fifo) /\ fifo # <<>> BY <1>2
  <2> QED BY <1>8, <2>1, <2>2, <2>3, <2>4, <2>5, <2>6, <2>7, TaskFreed DEF FifoOK
<1>10. KeysOK' BY <1>6, FocusTyped DEF IInv, Inv, KeysOK
<1>11. TypeOK' BY <1>7, <1>8, <1>9, <1>10 DEF TypeOK
<1>12. HeldOK'
  <2>1. Active' = Active \ {t} BY <1>8 DEF Active, SameTask
  <2>2. Loaded' = Loaded BY <1>4, <1>8 DEF Loaded, SameTask
  <2>3. HeldOK BY HeldIs DEF IInv, Inv
  <2>4. Stacks' = Stacks \ Blocks(t) /\ Fats' = Fats BY <2>1, <2>2, StacksShrink, HeldKept
  <2>5. Images' = Images \ {<<"buf", w>>} BY <1>7
  <2>6. (Fats \cup Images) \cap Blocks(t) = {} /\ <<"buf", w>> \notin Stacks \cup Fats
    BY KindsApart
  <2>7. held = Stacks \cup Fats \cup Images BY <2>3 DEF HeldOK
  <2>8. held' = Stacks' \cup Fats' \cup Images'
    <3>1. PICK x : x = <<"buf", w>> OBVIOUS
    <3>2. PICK B : B = Blocks(t) OBVIOUS
    <3> QED BY <1>6, <2>4, <2>5, <2>6, <2>7, <3>1, <3>2
  <2> QED BY <2>8 DEF HeldOK
<1> QED BY <1>9, <1>11, <1>12, HeldIs DEF IInv, Inv

LEMMA close_constaskStep == ASSUME IInv, close_constask PROVE IInv'
<1>1. PICK t : t = Head(fifo).slot OBVIOUS
<1>2. /\ fifo \in Seq(Message0) /\ IsInjective(fifo) /\ fifo # <<>>
      /\ Head(fifo) = Message("task", t) /\ MessageOK(Message("task", t))
  BY <1>1, FirstMessage DEF close_constask
<1>3. t \in Tasks /\ State(t) = "GONE" BY <1>2 DEF MessageOK, Message
<1>4. /\ tasks0' = [tasks0 EXCEPT ![t].state = "FREE"] /\ held' = held \ Blocks(t)
      /\ fifo' = Tail(fifo) /\ key_win' = Focus /\ UNCHANGED <<sheets0, stack>>
  BY <1>1 DEF close_constask
<1>5. TasksOK' /\ State(t)' = "FREE" /\ \A u \in Tasks \ {t} : SameTask(u)
  BY <1>3, <1>4, StateSet DEF States, IInv, Inv
<1>6. \A s \in Sheets : SameSheet(s) /\ Kind(s)' = Kind(s) BY <1>4, SheetsKept, FieldsKept
<1>7. AllOK' /\ FifoOK'
  BY <1>2, <1>3, <1>4, <1>5, <1>6, TaskFreed DEF IInv, Inv, FifoOK
<1>8. KeysOK' BY <1>4, FocusTyped DEF IInv, Inv, KeysOK
<1>9. TypeOK' BY <1>4, <1>5, <1>7, <1>8 DEF IInv, Inv, TypeOK, SheetsOK, StackOK
<1>10. HeldOK'
  <2>1. Active' = Active \ {t} BY <1>5 DEF Active, SameTask
  <2>2. Loaded' = Loaded BY <1>3, <1>5 DEF Loaded, SameTask
  <2>3. Buffers' = Buffers BY <1>6, SlotsKept
  <2>4. HeldOK BY HeldIs DEF IInv, Inv
  <2>5. Stacks' = Stacks \ Blocks(t) /\ Fats' = Fats /\ Images' = Images
    BY <2>1, <2>2, <2>3, StacksShrink, HeldKept
  <2>6. (Fats \cup Images) \cap Blocks(t) = {} BY KindsApart
  <2> QED BY <1>4, <2>4, <2>5, <2>6 DEF HeldOK
<1> QED BY <1>7, <1>9, <1>10, HeldIs DEF IInv, Inv

LEMMA close_sheetStep == ASSUME IInv, close_sheet PROVE IInv'
<1>1. PICK w : w = Head(fifo).slot OBVIOUS
<1>2. /\ fifo \in Seq(Message0) /\ IsInjective(fifo) /\ fifo # <<>>
      /\ Head(fifo) = Message("sheet", w) /\ MessageOK(Message("sheet", w))
  BY <1>1, FirstMessage DEF close_sheet
<1>3. w \in Sheets /\ Kind(w) = OfConsole BY <1>2 DEF MessageOK, Message
<1>4. /\ FreeSheet(w) /\ held' = held \ {<<"buf", w>>}
      /\ fifo' = Tail(fifo) /\ key_win' = Focus /\ UNCHANGED tasks0
  BY <1>1 DEF close_sheet
<1>5. /\ SheetsOK' /\ StackOK' /\ Kind(w)' = Blank /\ ~Shown(w)'
      /\ \A s \in Sheets \ {w} : SameSheet(s)
      /\ Images' = Images \ {<<"buf", w>>}
  BY <1>3, <1>4, SheetTaken
<1>6. \A t \in Tasks : SameTask(t) /\ State(t)' = State(t) BY <1>4, TasksKept DEF SameTask
<1>7. AllOK' /\ FifoOK'
  BY <1>2, <1>4, <1>5, <1>6, WindowFreed DEF IInv, Inv, FifoOK
<1>8. KeysOK' BY <1>4, FocusTyped DEF IInv, Inv, KeysOK
<1>9. TypeOK' BY <1>4, <1>5, <1>7, <1>8 DEF IInv, Inv, TypeOK, TasksOK
<1>10. HeldOK'
  <2>1. HeldOK BY HeldIs DEF IInv, Inv
  <2>2. Stacks' = Stacks /\ Fats' = Fats BY <1>6, SlotsKept, HeldKept
  <2> QED BY <1>4, <1>5, <2>1, <2>2, KindsApart DEF HeldOK
<1> QED BY <1>7, <1>9, <1>10, HeldIs DEF IInv, Inv

-----------------------------------------------------------------------------
(* Every step of a console and its application keeps the invariant. *)

\* The windows of an application
LEMMA OwnWindowsAre ==
  ASSUME IInv, NEW t \in Tasks
  PROVE  OwnWindows(t) = {s \in Sheets : Kind(s) = OfApp /\ Owner(s) = t}
BY FlagsAre DEF OwnWindows, IInv, Inv

\* Only a task that runs an application or cleans up behind one has windows of its own.
LEMMA NoWindows ==
  ASSUME IInv, NEW t \in Tasks, State(t) \notin {"APP", "ENDING", "ASTRAY"} \/ OwnWindows(t) = {}
  PROVE  \A s \in Sheets : ~(Kind(s) = OfApp /\ Owner(s) = t)
BY OwnWindowsAre DEF IInv, Inv, AllOK, WindowOK

\* Nothing but the state of the console changes.
LEMMA GoesOn ==
  ASSUME IInv, UNCHANGED <<sheets0, stack, key_win, fifo>>
  PROVE  StackOK' /\ KeysOK' /\ \A s \in Sheets : Shown(s)' <=> Shown(s)
BY DEF IInv, Inv, TypeOK, StackOK, KeysOK, Shown

LEMMA StartStep == ASSUME IInv, NEW t \in Tasks, Start(t) PROVE IInv'
<1>1. StackOK' /\ KeysOK' /\ \A s \in Sheets : Shown(s)' <=> Shown(s) BY GoesOn DEF Start
<1>2. \A s \in Sheets : ~(Kind(s) = OfApp /\ Owner(s) = t) BY NoWindows DEF Start
<1>3. /\ tasks0' = [tasks0 EXCEPT ![t].state = "PROMPT"] /\ State(t) = "START"
      /\ held' = held \cup {<<"fat", t>>} /\ UNCHANGED <<sheets0, fifo>>
  BY DEF Start
<1> QED BY <1>1, <1>2, <1>3, StateStep

LEMMA cmd_appStep == ASSUME IInv, NEW t \in Tasks, cmd_app(t) PROVE IInv'
<1>1. StackOK' /\ KeysOK' /\ \A s \in Sheets : Shown(s)' <=> Shown(s) BY GoesOn DEF cmd_app
<1>2. /\ tasks0' = [tasks0 EXCEPT ![t].state = "APP"] /\ State(t) = "PROMPT"
      /\ held' = held /\ UNCHANGED <<sheets0, fifo>>
  BY DEF cmd_app
<1> QED BY <1>1, <1>2, StateStep

LEMMA AppEndsStep == ASSUME IInv, NEW t \in Tasks, AppEnds(t) PROVE IInv'
<1>1. StackOK' /\ KeysOK' /\ \A s \in Sheets : Shown(s)' <=> Shown(s) BY GoesOn DEF AppEnds
<1>2. /\ tasks0' = [tasks0 EXCEPT ![t].state = "ENDING"] /\ State(t) = "APP"
      /\ held' = held /\ UNCHANGED <<sheets0, fifo>>
  BY DEF AppEnds
<1> QED BY <1>1, <1>2, StateStep

LEMMA ExitActionStep == ASSUME IInv, NEW t \in Tasks, Exit(t) PROVE IInv'
<1>1. \A s \in Sheets : ~(Kind(s) = OfApp /\ Owner(s) = t) BY NoWindows DEF Exit
<1> QED BY <1>1, ExitStep DEF Exit

LEMMA BackStep == ASSUME IInv, NEW t \in Tasks, Back(t) PROVE IInv'
<1>1. \A s \in Sheets : ~(Kind(s) = OfApp /\ Owner(s) = t) BY NoWindows DEF Back
<1>2. CASE cmd_exit(t) BY <1>1, <1>2, ExitStep DEF Back
<1>3. CASE ~cmd_exit(t)
  <2>1. UNCHANGED <<sheets0, stack, key_win, fifo, held>> BY <1>3 DEF Back
  <2>2. StackOK' /\ KeysOK' /\ \A s \in Sheets : Shown(s)' <=> Shown(s) BY <2>1, GoesOn
  <2>3. tasks0' = [tasks0 EXCEPT ![t].state = "PROMPT"] /\ State(t) = "ENDING"
    BY <1>3 DEF Back
  <2>4. held' = held /\ UNCHANGED <<sheets0, fifo>> BY <2>1
  <2> QED BY <1>1, <2>2, <2>3, <2>4, StateStep
<1> QED BY <1>2, <1>3

LEMMA ApiCloseStep == ASSUME IInv, NEW t \in Tasks, ApiClose(t) PROVE IInv'
<1>1. PICK w \in OwnWindows(t) : FreeSheet(w) BY DEF ApiClose
<1>2. w \in Sheets /\ Kind(w) = OfApp BY <1>1, OwnWindowsAre
<1>3. UNCHANGED <<tasks0, key_win, fifo, held>> BY DEF ApiClose
<1> QED BY <1>1, <1>2, <1>3, CloseStep

LEMMA CleanUpStep == ASSUME IInv, NEW t \in Tasks, CleanUp(t) PROVE IInv'
<1>1. PICK w : w = Min(OwnWindows(t)) OBVIOUS
<1>2. FreeSheet(w) /\ OwnWindows(t) # {} BY <1>1 DEF CleanUp
<1>3. OwnWindows(t) \subseteq Nat BY ConsoleAssumption DEF OwnWindows
<1>4. w \in OwnWindows(t) BY <1>1, <1>2, <1>3, MinIn
<1>5. w \in Sheets /\ Kind(w) = OfApp BY <1>4, OwnWindowsAre
<1>6. UNCHANGED <<tasks0, key_win, fifo, held>> BY DEF CleanUp
<1> QED BY <1>2, <1>5, <1>6, CloseStep

LEMMA cmd_ncstStep == ASSUME IInv, NEW t \in Tasks, cmd_ncst(t) PROVE IInv'
<1>1. PICK n : n = Min(FreeTasks) OBVIOUS
<1>2. n \in Tasks /\ State(n) = "FREE" BY <1>1, FreeTask DEF cmd_ncst
<1>3. tasks0' = [tasks0 EXCEPT ![n] = Opened(NULL)] BY <1>1 DEF cmd_ncst
<1>4. /\ TasksOK' /\ State(n)' = "START" /\ Sheet(n)' = NULL /\ ~Asked(n)'
      /\ \A u \in Tasks \ {n} : SameTask(u)
  BY <1>2, <1>3, TaskSet DEF IInv, Inv
<1>5. \A u \in Tasks : ~(State(u) = "OPEN" /\ Opens(u) = NULL)
  BY SlotsAre DEF IInv, Inv, AllOK, TaskOK
<1>6. \A u \in Tasks \ {n} :
        /\ Sheet(u)' = Sheet(u) /\ Asked(u)' = Asked(u)
        /\ IF State(u) = "OPEN" /\ Opens(u) = NULL THEN State(u)' = "PROMPT"
           ELSE State(u)' = State(u) /\ Opens(u)' = Opens(u)
  BY <1>4, <1>5 DEF SameTask
<1>7. held' = held \cup Blocks(n) \cup {} /\ UNCHANGED <<sheets0, stack, key_win, fifo>>
  BY <1>1 DEF cmd_ncst
<1>8. KeysOK' BY <1>7 DEF IInv, Inv, TypeOK, KeysOK
<1> QED BY <1>2, <1>4, <1>6, <1>7, <1>8, ConsoleStep

LEMMA OpenSheetStep == ASSUME IInv, NEW t \in Tasks, OpenSheet(t) PROVE IInv'
<1>1. PICK w : w = Min(FreeSheets) OBVIOUS
<1>2. w \in Sheets /\ Kind(w) = Blank BY <1>1, FreeSheetFound DEF OpenSheet, IInv, Inv
<1>3. State(t) = "PROMPT" BY DEF OpenSheet
<1>4. /\ TasksOK'
      /\ State(t)' = "OPEN" /\ Opens(t)' = w /\ Sheet(t)' = Sheet(t) /\ Asked(t)' = Asked(t)
      /\ \A u \in Tasks \ {t} : SameTask(u)
  <2>1. tasks0' = [tasks0 EXCEPT ![t].state = "OPEN", ![t].opens = w] BY <1>1 DEF OpenSheet
  <2> QED BY <1>2, <2>1 DEF IInv, Inv, TypeOK, TasksOK, States, State, Asked, Sheet, Opens, SameTask
<1>5. sheets0' = [sheets0 EXCEPT ![w] = [flags |-> Making, task |-> NULL]]
  BY <1>1 DEF OpenSheet, Making
<1>6. Making \in Flags BY DEF Flags
<1>7. /\ SheetsOK' /\ Kind(w)' = Making /\ Owner(w)' = NULL
      /\ \A r \in Sheets \ {w} : Kind(r)' = Kind(r) /\ Owner(r)' = Owner(r)
  BY <1>2, <1>5, <1>6, SheetSet DEF IInv, Inv
<1>8. /\ UNCHANGED <<stack, key_win, fifo>> /\ held' = held \cup {<<"buf", w>>}
  BY <1>1 DEF OpenSheet
<1>9. \A s \in Sheets : Shown(s)' <=> Shown(s) BY <1>8 DEF Shown
<1>10. \A s \in Sheets \ {w} : SameSheet(s) BY <1>7, <1>9 DEF SameSheet
<1>11. Shown(w)' = Shown(w) BY <1>8 DEF Shown
<1>12. AllOK'
  BY <1>2, <1>3, <1>4, <1>7, <1>8, <1>10, <1>11, FifoKept, MakesSheet DEF IInv, Inv
<1>13. TypeOK' BY <1>4, <1>7, <1>8 DEF IInv, Inv, TypeOK, StackOK, KeysOK, FifoOK
<1>14. HeldOK'
  <2>1. Active' = Active /\ Loaded' = Loaded BY <1>3, <1>4 DEF Active, Loaded, SameTask
  <2>2. Buffers' = Buffers \cup {w} BY <1>2, <1>7 DEF Buffers
  <2>3. HeldOK BY HeldIs DEF IInv, Inv
  <2> QED BY <1>8, <2>1, <2>2, <2>3, HeldKept, ImagesGrow DEF HeldOK
<1> QED BY <1>12, <1>13, <1>14, HeldIs DEF IInv, Inv

LEMMA OpenTaskStep == ASSUME IInv, NEW t \in Tasks, OpenTask(t) PROVE IInv'
<1>1. PICK n, w : n = Min(FreeTasks) /\ w = Opens(t) OBVIOUS
<1>2. n \in Tasks /\ State(n) = "FREE" BY <1>1, FreeTask DEF OpenTask
<1>3. State(t) = "OPEN" BY DEF OpenTask
<1>4. /\ w \in Sheets /\ Kind(w) = Making
      /\ \A u \in Tasks : State(u) = "OPEN" /\ Opens(u) = w => u = t
  BY <1>1, <1>3 DEF IInv, Inv, AllOK, TaskOK
<1>5. n # t BY <1>2, <1>3
<1>6. tasks0' = [tasks0 EXCEPT ![t].state = "PROMPT", ![t].opens = NULL, ![n] = Opened(w)]
  BY <1>1 DEF OpenTask, Opens
<1>7. /\ TasksOK'
      /\ State(n)' = "START" /\ Sheet(n)' = w /\ ~Asked(n)'
      /\ State(t)' = "PROMPT" /\ Sheet(t)' = Sheet(t) /\ Asked(t)' = Asked(t)
      /\ \A u \in Tasks \ {n, t} : SameTask(u)
  <2>1. Opened(w) = [state |-> "START", sht |-> w, asked |-> FALSE, opens |-> NULL]
    BY DEF Opened
  <2> DEFINE back == [tasks0 EXCEPT ![t].state = "PROMPT", ![t].opens = NULL]
  <2>2. TasksOK BY DEF IInv, Inv, TypeOK
  <2>3. /\ back \in [Tasks -> [state : States, sht : Sheets \cup {NULL}, asked : BOOLEAN,
                               opens : Sheets \cup {NULL}]]
        /\ back[t].state = "PROMPT" /\ back[t].sht = Sheet(t) /\ back[t].asked = Asked(t)
        /\ \A u \in Tasks \ {t} : back[u] = tasks0[u]
    BY <2>2 DEF TasksOK, States, Sheet, Asked
  <2>4. tasks0' = [back EXCEPT ![n] = Opened(w)] BY <1>6
  <2> HIDE DEF back
  <2>5. TasksOK' BY <1>2, <1>4, <2>1, <2>3, <2>4 DEF TasksOK, States
  <2>6. tasks0'[n] = Opened(w) /\ \A u \in Tasks \ {n} : tasks0'[u] = back[u]
    BY <1>2, <2>3, <2>4
  <2> QED BY <1>2, <1>5, <2>1, <2>3, <2>5, <2>6 DEF State, Asked, Sheet, Opens, SameTask
<1>8. \A u \in Tasks \ {n} :
        /\ Sheet(u)' = Sheet(u) /\ Asked(u)' = Asked(u)
        /\ IF State(u) = "OPEN" /\ Opens(u) = w THEN State(u)' = "PROMPT"
           ELSE State(u)' = State(u) /\ Opens(u)' = Opens(u)
  BY <1>1, <1>3, <1>4, <1>7 DEF SameTask
<1>9. /\ stack' = Append(stack, w)
      /\ sheets0' = [sheets0 EXCEPT ![w] = [flags |-> OfConsole, task |-> n]]
  BY <1>1 DEF OpenTask, OfConsole, Opens
<1>10. held' = held \cup Blocks(n) \cup {} /\ UNCHANGED <<key_win, fifo>>
  BY <1>1 DEF OpenTask
<1>11. KeysOK' BY <1>10 DEF IInv, Inv, TypeOK, KeysOK
<1> QED BY <1>2, <1>4, <1>7, <1>8, <1>9, <1>10, <1>11, SlotsAre, ConsoleStep

LEMMA ApiOpenStep == ASSUME IInv, NEW t \in Tasks, ApiOpen(t) PROVE IInv'
<1>1. PICK w : w = Min(FreeSheets) OBVIOUS
<1>2. w \in Sheets /\ Kind(w) = Blank BY <1>1, FreeSheetFound DEF ApiOpen, IInv, Inv
<1>3. /\ sheets0' = [sheets0 EXCEPT ![w] = [flags |-> OfApp, task |-> t]]
      /\ stack' = Append(stack, w) /\ State(t) = "APP"
  BY <1>1 DEF ApiOpen, OfApp
<1>4. OfApp \in Flags BY DEF Flags
<1>5. /\ SheetsOK' /\ Kind(w)' = OfApp /\ Owner(w)' = t
      /\ \A r \in Sheets \ {w} : Kind(r)' = Kind(r) /\ Owner(r)' = Owner(r)
  BY <1>2, <1>3, <1>4, SheetSet DEF IInv, Inv
<1>6. StackOK' /\ \A s \in Sheets : Shown(s)' <=> Shown(s) \/ s = w
  BY <1>2, <1>3, WindowOnTop
<1>7. \A s \in Sheets \ {w} : SameSheet(s) BY <1>5, <1>6 DEF SameSheet
<1>8. UNCHANGED <<tasks0, key_win, fifo, held>> BY DEF ApiOpen
<1>9. \A u \in Tasks : SameTask(u) /\ State(u)' = State(u) BY <1>8, TasksKept DEF SameTask
<1>10. AllOK' BY <1>2, <1>3, <1>5, <1>7, <1>8, <1>9, FifoKept, AppOpens DEF IInv, Inv
<1>11. TypeOK' BY <1>5, <1>6, <1>8 DEF IInv, Inv, TypeOK, TasksOK, KeysOK, FifoOK
<1>12. HeldOK'
  <2>1. Buffers' = Buffers BY <1>2, <1>5, KindsDiffer DEF Buffers
  <2> QED BY <1>8, <1>9, <2>1, SlotsKept, HeldKept, HeldIs DEF IInv, Inv, HeldOK
<1> QED BY <1>10, <1>11, <1>12, HeldIs DEF IInv, Inv

LEMMA ApiGetkeyCloseStep == ASSUME IInv, NEW t \in Tasks, ApiGetkeyClose(t) PROVE IInv'
<1>1. State(t) = "APP" /\ Asked(t) BY DEF ApiGetkeyClose, Asked
<1>2. tasks0' = [tasks0 EXCEPT ![t].asked = FALSE, ![t].sht = NULL] BY DEF ApiGetkeyClose
<1>3. /\ TasksOK'
      /\ State(t)' = State(t) /\ Sheet(t)' = NULL /\ ~Asked(t)' /\ Opens(t)' = Opens(t)
      /\ \A u \in Tasks \ {t} : SameTask(u)
  BY <1>2 DEF IInv, Inv, TypeOK, TasksOK, State, Asked, Sheet, Opens, SameTask
<1>4. /\ fifo' = Append(fifo, Message("sheet", Sheet(t)))
      /\ UNCHANGED <<sheets0, stack, key_win, held>>
  BY DEF ApiGetkeyClose, Message, Sheet
<1>5. \A s \in Sheets : SameSheet(s) /\ Kind(s)' = Kind(s) BY <1>4, SheetsKept, FieldsKept
<1>6. fifo \in Seq(Message0) /\ IsInjective(fifo) BY DEF IInv, Inv, TypeOK, FifoOK
<1>7. AllOK' /\ FifoOK'
  BY <1>1, <1>3, <1>4, <1>5, <1>6, WindowGivenUp DEF IInv, Inv, FifoOK
<1>8. TypeOK' BY <1>3, <1>4, <1>7 DEF IInv, Inv, TypeOK, SheetsOK, StackOK, KeysOK
<1>9. HeldOK'
  <2>1. \A u \in Tasks : State(u)' = State(u) BY <1>3 DEF SameTask
  <2> QED BY <1>4, <1>5, <2>1, SlotsKept, HeldKept, HeldIs DEF IInv, Inv, HeldOK
<1> QED BY <1>7, <1>8, <1>9, HeldIs DEF IInv, Inv

-----------------------------------------------------------------------------
LEMMA Initially == Init => IInv
<1> SUFFICES ASSUME Init PROVE IInv OBVIOUS
<1> USE SlotsAre, KindsDiffer
<1>1. PICK n, w : n = Min(Tasks) /\ w = Min(Sheets) OBVIOUS
<1>2. n \in Tasks /\ w \in Sheets BY <1>1, ConsoleAssumption, MinIn
<1>3. tasks0 = [t \in Tasks |-> IF t = n THEN Opened(w) ELSE NoTask] BY <1>1 DEF Init
<1>4. sheets0 = [s \in Sheets |-> IF s = w THEN [flags |-> OfConsole, task |-> n] ELSE NoSheet]
  BY <1>1 DEF Init, OfConsole
<1>5. /\ stack = <<w>> /\ key_win = w /\ fifo = <<>>
      /\ held = Blocks(n) \cup {<<"buf", w>>}
  BY <1>1 DEF Init
<1>6. /\ TasksOK
      /\ \A t \in Tasks : /\ State(t) = IF t = n THEN "START" ELSE "FREE"
                          /\ Sheet(t) = IF t = n THEN w ELSE NULL
                          /\ ~Asked(t)
  BY <1>2, <1>3 DEF TasksOK, Opened, NoTask, States, State, Sheet, Asked
<1>7. /\ SheetsOK
      /\ \A s \in Sheets : /\ Kind(s) = IF s = w THEN OfConsole ELSE Blank
                           /\ s = w => Owner(s) = n
  BY <1>2, <1>4 DEF SheetsOK, NoSheet, Kind, Owner, Flags, Blank
<1>8. StackOK /\ \A s \in Sheets : Shown(s) <=> s = w
  BY <1>2, <1>5 DEF StackOK, IsInjective, Shown, Contains
<1>9. FifoOK /\ DOMAIN fifo = {} /\ Messages = {}
  BY <1>5 DEF FifoOK, IsInjective, Messages
<1>10. TypeOK BY <1>2, <1>5, <1>6, <1>7, <1>8, <1>9 DEF TypeOK, KeysOK
<1>11. AllOK
  BY <1>2, <1>6, <1>7, <1>8, <1>9 DEF AllOK, WindowOK, TaskOK, SheetFirst
<1>12. HeldOK
  <2>1. Active = {n} BY <1>2, <1>6 DEF Active
  <2>2. Loaded = {} BY <1>6 DEF Loaded
  <2>3. Buffers = {w} BY <1>2, <1>7 DEF Buffers
  <2>4. Stacks = Blocks(n) BY <2>1 DEF Stacks
  <2>5. Fats = {} BY <2>2 DEF Fats
  <2>6. Images = {<<"buf", w>>} BY <2>3 DEF Images
  <2> QED BY <1>5, <2>4, <2>5, <2>6 DEF HeldOK
<1> QED BY <1>10, <1>11, <1>12, HeldIs DEF IInv, Inv

LEMMA Stuttering == ASSUME IInv, UNCHANGED vars PROVE IInv'
<1>1. /\ UNCHANGED <<tasks0, sheets0, fifo, held>> /\ UNCHANGED <<sheets0, stack, key_win, fifo>>
  BY DEF vars
<1>2. StackOK' /\ KeysOK' /\ \A s \in Sheets : Shown(s)' <=> Shown(s) BY <1>1, GoesOn
<1> QED BY <1>1, <1>2, ViewStep

LEMMA Inductive == IInv /\ [Next]_vars => IInv'
<1> SUFFICES ASSUME IInv, [Next]_vars PROVE IInv' OBVIOUS
<1>1. CASE TaskA
  <2>1. CASE Event BY <2>1, EventStep
  <2>2. CASE Tab BY <2>2, TabStep
  <2>3. CASE BreakKey BY <2>3, BreakKeyStep
  <2>4. CASE open_console BY <2>4, open_consoleStep
  <2>5. CASE F11 BY <2>5, F11Step
  <2>6. CASE Closing BY <2>6, close_consoleStep, close_constaskStep, close_sheetStep DEF Closing
  <2>7. ASSUME NEW s \in Sheets, Click(s) \/ BreakMouse(s) \/ AskToClose(s) PROVE IInv'
    BY <2>7, ClickStep, BreakMouseStep, AskToCloseStep
  <2> QED BY <1>1, <2>1, <2>2, <2>3, <2>4, <2>5, <2>6, <2>7 DEF TaskA
<1>2. ASSUME NEW t \in Tasks, console_task(t) PROVE IInv'
  BY <1>2, StartStep, OpenSheetStep, OpenTaskStep, cmd_ncstStep, ExitActionStep, cmd_appStep,
     ApiOpenStep, ApiCloseStep, ApiGetkeyCloseStep, AppEndsStep, CleanUpStep, BackStep
  DEF console_task
<1>3. CASE UNCHANGED vars BY <1>3, Stuttering
<1> QED BY <1>1, <1>2, <1>3 DEF Next

\* In every state of every run the windows, the consoles and the messages agree.
THEOREM Invariance == Spec => []IInv
BY Initially, Inductive, PTL DEF Spec

\* A console draws only into a window that is its own: nothing frees or reuses
\* the window of a console that still has it.
THEOREM DrawsOnlyOnOwn == Spec => []DrawsOnOwn
<1>1. IInv => DrawsOnOwn
  <2> SUFFICES ASSUME IInv, NEW t \in Tasks, Alive(t), tasks0[t].sht # NULL
               PROVE  /\ Used(tasks0[t].sht) /\ Owner(tasks0[t].sht) = t
                      /\ CURSOR \in sheets0[tasks0[t].sht].flags
    BY DEF DrawsOnOwn
  <2>1. PICK s : s = tasks0[t].sht OBVIOUS
  <2>2. s \in Sheets /\ Kind(s) = OfConsole /\ Owner(s) = t
    BY <2>1 DEF IInv, Inv, AllOK, TaskOK, Sheet, Alive
  <2> QED BY <2>1, <2>2, FlagsAre, KindsDiffer DEF IInv, Inv
<1> QED BY <1>1, Invariance, PTL

\* Every window has an owner that is alive, or is being made for a new console.
THEOREM WindowsHaveOwners == Spec => []OwnersLive
<1>1. IInv => OwnersLive
  <2> SUFFICES ASSUME IInv, NEW s \in Sheets, Used(s)
               PROVE  \/ /\ Alive(Owner(s))
                         /\ APP \in sheets0[s].flags => State(Owner(s)) \in {"APP", "ENDING", "ASTRAY"}
                      \/ /\ Owner(s) = NULL /\ ~Contains(stack, s)
                         /\ \E t \in Tasks : State(t) = "OPEN" /\ tasks0[t].opens = s
    BY DEF OwnersLive
  <2>1. Kind(s) \in {Making, OfApp, OfConsole} /\ (APP \in sheets0[s].flags <=> Kind(s) = OfApp)
    BY FlagsAre, FieldsTyped DEF IInv, Inv, Flags
  <2>2. WindowOK(s) BY DEF IInv, Inv, AllOK
  <2> QED BY <2>1, <2>2, KindsDiffer DEF WindowOK, Alive, Shown, Opens
<1> QED BY <1>1, Invariance, PTL

\* Each console is closed once, by a message that still means what it meant
\* when it was sent.
THEOREM ConsolesClosedOnce == Spec => []ClosedOnce
<1>1. IInv => ClosedOnce
  <2> SUFFICES ASSUME IInv PROVE ClosedOnce OBVIOUS
  <2>1. IsInjective(fifo) BY DEF IInv, Inv, TypeOK, FifoOK
  <2>2. ASSUME NEW t \in Tasks
        PROVE  State(t) = "GONE" <=>
                 \/ Message("task", t) \in Messages
                 \/ \E s \in Sheets : Message("console", s) \in Messages /\ Owner(s) = t
                                      /\ tasks0[t].sht = s
    <3>1. ASSUME State(t) = "GONE"
          PROVE  \/ Message("task", t) \in Messages
                 \/ \E s \in Sheets : Message("console", s) \in Messages /\ Owner(s) = t
                                      /\ tasks0[t].sht = s
      BY <2>2, <3>1, FarewellIs DEF IInv, Inv, AllOK, TaskOK, Sheet
    <3>2. ASSUME Message("task", t) \in Messages PROVE State(t) = "GONE"
      BY <3>2 DEF IInv, Inv, AllOK, MessageOK, Message
    <3>3. ASSUME NEW s \in Sheets, Message("console", s) \in Messages, Owner(s) = t
          PROVE  State(t) = "GONE"
      BY <3>3 DEF IInv, Inv, AllOK, MessageOK, Message
    <3> QED BY <3>1, <3>2, <3>3
  <2>3. ASSUME NEW s \in Sheets, Message("sheet", s) \in Messages
        PROVE  Used(s) /\ \A t \in Tasks : Alive(t) => tasks0[t].sht # s
    <3>1. Kind(s) = OfConsole /\ Sheet(Owner(s)) = NULL
      BY <2>3 DEF IInv, Inv, AllOK, MessageOK, Message
    <3>2. Used(s) BY <3>1, FlagsAre, KindsDiffer DEF IInv, Inv
    <3>3. ASSUME NEW t \in Tasks, Alive(t) PROVE tasks0[t].sht # s
      BY <3>1, <3>3, SlotsAre DEF IInv, Inv, AllOK, TaskOK, Alive, Sheet
    <3> QED BY <3>2, <3>3
  <2> QED BY <2>1, <2>2, <2>3 DEF ClosedOnce
<1> QED BY <1>1, Invariance, PTL

\* No console leaves memory behind, and none gives back what is still in use.
THEOREM NoMemoryLeak == Spec => []MemoryExact
BY Invariance, PTL DEF IInv

=============================================================================
