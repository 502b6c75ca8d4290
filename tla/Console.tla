------------------------------- MODULE Console -------------------------------
(***************************************************************************)
(* The console as its readers see it: the serial port and the keyboard     *)
(* with their drivers (kern/dev/serial.c, keyboard.c), the ring of         *)
(* kern/dev/console.c, and console_read of kern/fs/file.c with the         *)
(* scheduler under it.  Nobody takes characters from the devices but       *)
(* cons_getc: the interrupt handler only acknowledges.  console_read       *)
(* enables interrupts before it yields, so a timer interrupt may come      *)
(* inside the kernel, with a spinlock held, and leaves it on the page      *)
(* table of a process.                                                     *)
(***************************************************************************)
EXTENDS Integers, Sequences, SequencesExt, FiniteSets

CONSTANTS Readers,      \* processes that read the console
          Idle,         \* the process that is always ready to run
          NoProc,
          SIZE,         \* CONSOLE_BUFFER_SIZE
          LINE,         \* the number of bytes a reader asks for
          SerialChars,  \* what comes in on the serial line
          Keys,         \* the keys of the keyboard that are used
          MaxTyped      \* bound: bytes the two devices receive

ASSUME ConsoleAssumption ==
  /\ SIZE \in Nat \ {0} /\ LINE \in Nat \ {0} /\ MaxTyped \in Nat
  /\ Idle \notin Readers /\ NoProc \notin Readers \cup {Idle}

VARIABLES serial,   \* bytes the serial port has received
          kbd,      \* scan codes the keyboard controller has received
          down,     \* the keys that are down
          typed,    \* bytes received so far
          shift,    \* the driver's flags
          cons,     \* the ring: buf, rpos, wpos
          owed,     \* history: characters put into the ring and not taken
          over,     \* history: the ring has been overrun
          lk,       \* the holder of cons_lk
          cur,      \* the process that runs
          ready,    \* the ready queue
          irq,      \* whether interrupts are enabled in the kernel
          kpt,      \* whether the kernel runs on its own page table
          proc,     \* the readers
          stop      \* "hung": waits for a spinlock with interrupts off, or
                    \* for one it holds; "lost": the context of a process or
                    \* the memory of a reader was overwritten

dev == <<serial, kbd, down, typed>>
ring == <<cons, owed, over>>
run == <<cur, ready, irq, kpt>>
vars == <<dev, shift, ring, lk, run, proc, stop>>

(* pc says where a reader is; iret that it was interrupted, and will go on  *)
(* with interrupts enabled; line is what console_read has gathered, and     *)
(* mine (a history) the characters it took for it.                          *)
User == [pc |-> "user", iret |-> TRUE, line |-> <<>>, mine |-> <<>>]

Init ==
  /\ serial = <<>> /\ kbd = <<>> /\ down = {} /\ typed = 0
  /\ shift = {}
  /\ cons = [buf |-> [k \in 0 .. SIZE - 1 |-> "NO"], rpos |-> 0, wpos |-> 0]
  /\ owed = <<>> /\ over = FALSE /\ lk = NoProc
  /\ cur = Idle
  /\ ready = SetToSeq(Readers)
  /\ irq = FALSE /\ kpt = TRUE
  /\ proc = [r \in Readers |-> User] /\ stop = "no"

-----------------------------------------------------------------------------

(* The devices.  Keys of the right half of the keyboard send E0 first.      *)
Extended(k) == k \in {"rctl", "kpenter"}

SerialByte(c) ==
  /\ typed < MaxTyped /\ typed' = typed + 1
  /\ serial' = Append(serial, c)
  /\ UNCHANGED <<kbd, down>>

Scan(k, dir) ==
  kbd' = kbd \o (IF Extended(k) THEN <<<<"E0", k>>>> ELSE <<>>) \o <<<<dir, k>>>>

KeyPress(k) ==
  /\ typed < MaxTyped /\ typed' = typed + 1
  /\ k \notin down /\ down' = down \cup {k} /\ Scan(k, "make")
  /\ UNCHANGED serial

KeyRelease(k) ==
  /\ k \in down /\ down' = down \ {k} /\ Scan(k, "break")
  /\ UNCHANGED <<serial, typed>>

(* What a device receives is not seen before its driver looks; so the bytes *)
(* that came since the last time may all come when it is about to.          *)
Device ==
  /\ stop = "no" /\ cur # Idle /\ proc[cur].pc \in {"serial_intr", "keyboard_intr"}
  /\ \/ \E c \in SerialChars : SerialByte(c)
     \/ \E k \in Keys : KeyPress(k) \/ KeyRelease(k)
  /\ UNCHANGED <<shift, ring, lk, run, proc, stop>>

-----------------------------------------------------------------------------

(* The tables of keyboard.c.  An index is a key and whether the code has    *)
(* its highest bit set.                                                     *)
shiftcode(x, k) ==
  CASE k = "shift" /\ ~x -> {"SHIFT"}
    [] k \in {"ctl", "rctl"} -> {"CTL"}
    [] OTHER -> {}
togglecode(x, k) == IF k = "caps" /\ ~x THEN {"CAPSLOCK"} ELSE {}

normalmap(x, k) ==
  CASE k = "c" /\ ~x -> "c" [] k = "enter" /\ ~x -> "NL" [] k = "kpenter" /\ x -> "NL"
    [] k = "back" /\ ~x -> "BS" [] OTHER -> "NO"
shiftmap(x, k) == IF k = "c" /\ ~x THEN "C" ELSE normalmap(x, k)
ctlmap(x, k) ==
  CASE k = "c" /\ ~x -> "^C" [] k = "enter" /\ ~x -> "CR" [] OTHER -> "NO"

charcode(f, x, k) ==
  IF "CTL" \in f THEN ctlmap(x, k)
  ELSE IF "SHIFT" \in f THEN shiftmap(x, k) ELSE normalmap(x, k)
SwapCase(c) == CASE c = "c" -> "C" [] c = "C" -> "c" [] OTHER -> c

(* Mutant: a release does not end an E0 code.                               *)
kbd_proc_data_KeepsE0(f, b) ==
  LET x == "E0ESC" \in f
      f1 == (f \ {"E0ESC"}) \cup shiftcode(x, b[2])
      f2 == SymDiff(f1, togglecode(x, b[2]))
      c == charcode(f2, x, b[2])
  IN  CASE b[1] = "E0" -> <<f \cup {"E0ESC"}, "NO">>
        [] b[1] = "break" -> <<f \ shiftcode(x, b[2]), "NO">>
        [] OTHER -> <<f2, IF "CAPSLOCK" \in f2 THEN SwapCase(c) ELSE c>>

(* kbd_proc_data: the flags and the character after byte b.                 *)
kbd_proc_data(f, b) ==
  LET x == "E0ESC" \in f
      f1 == (f \ {"E0ESC"}) \cup shiftcode(x, b[2])
      f2 == SymDiff(f1, togglecode(x, b[2]))
      c == charcode(f2, x, b[2])
  IN  CASE b[1] = "E0" -> <<f \cup {"E0ESC"}, "NO">>
        [] b[1] = "break" -> <<f \ (shiftcode(x, b[2]) \cup {"E0ESC"}), "NO">>
        [] OTHER -> <<f2, IF "CAPSLOCK" \in f2 THEN SwapCase(c) ELSE c>>

(* One turn of cons_intr's loop: character c goes into the ring.  When the  *)
(* write position meets the read position, a ring full of characters is     *)
(* taken for an empty one.                                                  *)
ConsIntr(c) ==
  LET w == (cons.wpos + 1) % SIZE
  IN  IF c = "NO" THEN UNCHANGED ring
      ELSE /\ cons' = [cons EXCEPT !.buf[cons.wpos] = c, !.wpos = w]
           /\ owed' = Append(owed, c)
           /\ over' = (over \/ w = cons.rpos)

-----------------------------------------------------------------------------

Runs(p) == stop = "no" /\ cur = p
At(r, pc) == Runs(r) /\ proc[r].pc = pc
Goto(r, pc) == proc' = [proc EXCEPT ![r].pc = pc]

(* A reader calls console_read, in a system call: _alltraps disables        *)
(* interrupts, and trap takes the page table of the kernel.                 *)
Read(r) ==
  /\ At(r, "user")
  /\ proc' = [proc EXCEPT ![r] = [User EXCEPT !.pc = "serial", !.iret = FALSE]]
  /\ irq' = FALSE /\ kpt' = TRUE
  /\ UNCHANGED <<dev, shift, ring, lk, cur, ready, stop>>

(* spinlock_acquire of cons_lk, three times in cons_getc.  With interrupts  *)
(* off nobody else can release it.                                          *)
Holding == [serial |-> "serial_intr", keyboard |-> "keyboard_intr", take |-> "getc"]

Acquire(r) ==
  /\ Runs(r) /\ proc[r].pc \in DOMAIN Holding
  /\ \/ lk = NoProc /\ lk' = r /\ Goto(r, Holding[proc[r].pc]) /\ UNCHANGED stop
     \/ lk # NoProc /\ ~irq /\ stop' = "hung" /\ UNCHANGED <<lk, proc>>
  /\ UNCHANGED <<dev, shift, ring, run>>

(* The drivers give the ring what their device holds, a byte at a time.     *)
SerialIntr(r) ==
  /\ At(r, "serial_intr")
  /\ IF serial # <<>>
     THEN /\ ConsIntr(Head(serial)) /\ serial' = Tail(serial)
          /\ UNCHANGED <<lk, proc>>
     ELSE lk' = NoProc /\ Goto(r, "keyboard") /\ UNCHANGED <<serial, ring>>
  /\ UNCHANGED <<kbd, down, typed, shift, run, stop>>

(* Mutant: the keyboard is left to its interrupt.                           *)
KeyboardIntrNone(r) ==
  /\ At(r, "keyboard_intr")
  /\ lk' = NoProc /\ Goto(r, "take")
  /\ UNCHANGED <<dev, shift, ring, run, stop>>

KeyboardIntr(r) ==
  /\ At(r, "keyboard_intr")
  /\ IF kbd # <<>>
     THEN /\ ConsIntr(kbd_proc_data(shift, Head(kbd))[2])
          /\ shift' = kbd_proc_data(shift, Head(kbd))[1] /\ kbd' = Tail(kbd)
          /\ UNCHANGED <<lk, proc>>
     ELSE lk' = NoProc /\ Goto(r, "take") /\ UNCHANGED <<kbd, shift, ring>>
  /\ UNCHANGED <<serial, down, typed, run, stop>>

(* The line after character c, and whether console_read returns it.         *)
Edit(line, c) ==
  CASE c = "BS" -> IF line # <<>> THEN Front(line) ELSE <<>>
    [] c = "^C" -> <<>>
    [] c = "^D" -> line
    [] c = "CR" -> Append(line, "NL")
    [] OTHER -> Append(line, c)
Ends(line, c) ==
  \/ c \in {"^C", "^D", "CR", "NL"}
  \/ c # "BS" /\ Len(Edit(line, c)) = LINE

(* The end of cons_getc, and what console_read does with its result.  The   *)
(* place of a character that was taken is not read again before it is       *)
(* written, so its contents are forgotten.                                  *)
Getc(r) ==
  LET c == cons.buf[cons.rpos]
      me == proc[r]
      line == Edit(me.line, c)
      done == Ends(me.line, c)
  IN  /\ At(r, "getc")
      /\ lk' = NoProc
      /\ IF cons.rpos = cons.wpos
         THEN Goto(r, "wait") /\ UNCHANGED ring
         ELSE /\ cons' = [cons EXCEPT !.rpos = (@ + 1) % SIZE, !.buf[cons.rpos] = "NO"]
              /\ owed' = (IF owed = <<>> THEN owed ELSE Tail(owed))
              /\ proc' = [proc EXCEPT ![r] =
                   [pc |-> IF done THEN "return" ELSE "serial", iret |-> FALSE,
                    line |-> line, mine |-> Append(me.mine, c)]]
              /\ UNCHANGED over
      /\ UNCHANGED <<dev, shift, run, stop>>

(* sys_read copies the line to the reader, and the trap returns.  The copy  *)
(* goes to physical addresses, which the page table of a process maps to    *)
(* something else.                                                          *)
Return(r) ==
  /\ At(r, "return")
  /\ IF kpt \/ proc[r].line = <<>>
     THEN proc' = [proc EXCEPT ![r] = User] /\ irq' = FALSE /\ kpt' = TRUE /\ UNCHANGED stop
     ELSE stop' = "lost" /\ UNCHANGED <<proc, irq, kpt>>
  /\ UNCHANGED <<dev, shift, ring, lk, cur, ready>>

(* intr_local_enable.                                                       *)
Enable(r) ==
  /\ At(r, "wait")
  /\ irq' = TRUE /\ Goto(r, "enabled")
  /\ UNCHANGED <<dev, shift, ring, lk, cur, ready, kpt, stop>>

(* thread_yield takes sched_lk ...                                          *)
Lock(r) ==
  /\ At(r, "enabled") /\ Goto(r, "locked")
  /\ UNCHANGED <<dev, shift, ring, lk, run, stop>>

(* ... makes the next process current and gives it back ...                 *)
Yield(r) ==
  /\ At(r, "locked")
  /\ ready' = Append(ready, r) /\ Goto(r, "switch")
  /\ UNCHANGED <<dev, shift, ring, lk, cur, irq, kpt, stop>>

(* ... and switches.  A process that called thread_yield goes on with       *)
(* interrupts and page table as they are; one that was interrupted returns  *)
(* from its trap, with interrupts on and its own page table.                *)
Resume(p, on, kernel) ==
  LET inside == p # Idle /\ proc[p].pc # "user"
  IN  /\ cur' = p
      /\ irq' = (inside /\ (on \/ proc[p].iret))
      /\ kpt' = (inside => kernel /\ ~proc[p].iret)

Switch(r) ==
  /\ At(r, "switch")
  /\ ready' = Tail(ready) /\ Resume(Head(ready), irq, kpt)
  /\ proc' = [proc EXCEPT ![r].pc = "serial", ![r].iret = FALSE]
  /\ UNCHANGED <<dev, shift, ring, lk, stop>>

InKernel == cur # Idle /\ proc[cur].pc # "user"
In(pc) == InKernel /\ proc[cur].pc = pc

(* A timer interrupt: sched_update wants sched_lk, which the process it     *)
(* interrupts may hold.  Before the end of the time slice it returns to     *)
(* where it came from; at the end of it, it yields.  In the middle of a     *)
(* context switch it saves the context of one process as that of another.   *)
Timer ==
  /\ stop = "no" /\ (InKernel => irq)
  /\ \/ In("locked") /\ stop' = "hung" /\ UNCHANGED <<run, proc>>
     \/ /\ InKernel /\ ~In("locked")
        /\ kpt' = FALSE /\ UNCHANGED <<cur, ready, irq, proc, stop>>
     \/ In("switch") /\ stop' = "lost" /\ UNCHANGED <<run, proc>>
     \/ /\ ~In("locked") /\ ~In("switch")
        /\ ready' = Append(Tail(ready), cur) /\ Resume(Head(ready), FALSE, TRUE)
        /\ proc' = IF cur = Idle THEN proc ELSE [proc EXCEPT ![cur].iret = TRUE]
        /\ UNCHANGED stop
  /\ UNCHANGED <<dev, shift, ring, lk>>

Kernel(r) == \/ Acquire(r) \/ SerialIntr(r) \/ KeyboardIntr(r) \/ Getc(r)
             \/ Return(r) \/ Enable(r) \/ Lock(r) \/ Yield(r) \/ Switch(r)

Next == Device \/ Timer \/ \E r \in Readers : Read(r) \/ Kernel(r)

(* The timer ticks, and a time slice is longer than a step of the kernel.   *)
Fairness == /\ WF_vars(Timer /\ ~InKernel)
            /\ \A r \in Readers : SF_vars(Kernel(r))

Spec == Init /\ [][Next]_vars /\ Fairness

-----------------------------------------------------------------------------

Window == [j \in 1 .. (cons.wpos - cons.rpos) % SIZE |->
             cons.buf[(cons.rpos + j - 1) % SIZE]]

Modifiers == {<<"SHIFT", {"shift"}>>, <<"CTL", {"ctl", "rctl"}>>}

(* What a terminal shows for the characters of s: those that were typed and *)
(* not erased by a later backspace, with a newline for a return, and        *)
(* nothing after an interrupt.                                              *)
Count(s, from, to, C) == Cardinality({k \in from .. to : s[k] \in C})
Shown(s) ==
  LET erase == {"BS"}
      other == Range(s) \ {"BS", "^D"}
      keep == {k \in DOMAIN s : s[k] \in other /\
                 \A m \in k .. Len(s) : Count(s, k, m, other) > Count(s, k, m, erase)}
      nth(j) == CHOOSE k \in keep : Cardinality({i \in keep : i <= k}) = j
  IN  IF Last(s) = "^C" THEN <<>>
      ELSE [j \in 1 .. Cardinality(keep) |->
              IF s[nth(j)] = "CR" THEN "NL" ELSE s[nth(j)]]

(* Input is kept from the device to the line.  The ring is a queue as long  *)
(* as fewer than SIZE characters wait in it: what the drivers put in comes  *)
(* out once and in order, whoever takes it and wherever the timer strikes.  *)
(* Once the controller is empty, the modifiers kbd_proc_data remembers are  *)
(* those whose key is down.  The line console_read returns is what a        *)
(* terminal shows for the characters it took, and fits.                     *)
InputKept ==
  /\ ~over => Window = owed
  /\ kbd = <<>> =>
       \A m \in Modifiers :
         /\ m[1] \in shift => m[2] \cap down # {}
         /\ Cardinality(m[2] \cap Keys) = 1 /\ m[2] \cap down # {} => m[1] \in shift
  /\ \A r \in Readers :
       proc[r].pc = "return" => /\ proc[r].line = Shown(proc[r].mine)
                                /\ Len(proc[r].line) <= LINE

(* While somebody reads, no character stays in the devices or the ring,     *)
(* unless the timer has stopped the machine: polling by turns is enough,    *)
(* though no interrupt handler moves a character.                           *)
Waiting == serial # <<>> \/ kbd # <<>> \/ cons.rpos # cons.wpos
Reading == \E r \in Readers : proc[r].pc # "user"
ReadersServed == Waiting /\ Reading ~> ~Waiting \/ ~Reading \/ stop # "no"
==============================================================================
