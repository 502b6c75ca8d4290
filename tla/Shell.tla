-------------------------------- MODULE Shell --------------------------------
(***************************************************************************)
(* The command loop of user/shell/shell.c and the processes of a pipeline: *)
(* run_pipeline makes a pipe and spawns a process for each stage, closes   *)
(* what it handed on, and waits for all of them, while LS, CAT and ROT13   *)
(* read and write.  A pipe is the bounded channel that Pipe implements; it *)
(* lives as long as somebody holds an end of it.                           *)
(***************************************************************************)
EXTENDS ShellParse

CONSTANTS Lines,       \* the lines a user may type
          MaxLines,    \* bound: lines typed
          NOFILE,      \* descriptors of the shell, beyond the console
          NPIPE,       \* pipes of the system
          MAX_CHILDREN,\* children of the shell, over its life
          QUOTA,       \* children whose memory fits into the shell's quota
          PIPESIZE,    \* items in a pipe
          BUFSIZE,     \* items a process reads at once
          Listing,     \* what sys_ls returns
          Files,       \* the files: a function from names to sequences
          Rot(_)       \* rot13_char

ASSUME ShellConstants ==
  /\ NOFILE \in Nat /\ NPIPE \in Nat /\ MAX_CHILDREN \in Nat /\ QUOTA \in Nat
  /\ PIPESIZE \in Nat \ {0} /\ BUFSIZE \in Nat \ {0}

VARIABLES sh,      \* the shell: where it is in run_pipeline, and its variables
          ofile,   \* its descriptors
          pipe,    \* what is in each pipe
          kid,     \* its children
          console, \* what was printed since the last line was typed
          typed    \* the number of lines typed

vars == <<sh, ofile, pipe, kid, console, typed>>

Fds == 1 .. NOFILE
PipeIds == 1 .. NPIPE
Kids == 1 .. MAX_CHILDREN
Nothing == <<"none", 0>>
Console == <<"console", 0>>
ReadEnd(k) == <<"read", k>>
WriteEnd(k) == <<"write", k>>
Unborn == [prog |-> <<>>, st |-> "unborn", in |-> Nothing, out |-> Nothing,
           file |-> <<>>, buf |-> <<>>]
Idle == [pc |-> "prompt", stages |-> <<>>, i |-> 0, in |-> 0, r |-> 0, w |-> 0,
         f |-> 0, pids |-> <<>>, ok |-> FALSE]

Holds(end) == \/ \E fd \in Fds : ofile[fd] = end
              \/ \E c \in Kids : kid[c].in = end \/ kid[c].out = end
FreePipes == {k \in PipeIds : ~Holds(ReadEnd(k)) /\ ~Holds(WriteEnd(k))}
FreeFds == {fd \in Fds : ofile[fd] = Nothing}
Alive == {c \in Kids : kid[c].st \notin {"unborn", "dead"}}
Born == {c \in Kids : kid[c].st # "unborn"}

Init ==
  /\ sh = Idle /\ typed = 0 /\ console = <<>>
  /\ ofile = [fd \in Fds |-> Nothing]
  /\ pipe = [k \in PipeIds |-> <<>>]
  /\ kid = [c \in Kids |-> Unborn]

-----------------------------------------------------------------------------

CatNames == {<<"CAT">>, <<"biral">>, <<"BIRAL">>}
IsProcessCmd(name) == name \in CatNames \cup {<<"LS">>, <<"ROT13">>}
Program(name) == IF name \in CatNames THEN <<"CAT">> ELSE name

(* runcmd: a line with a bar, or with a process for its first word, is a    *)
(* pipeline.  Of the built-in commands only the value returned matters      *)
(* here: the main loop ends when it is negative, as shell_trap and          *)
(* shell_spawn return it without an argument.                               *)
RunCmd(line) ==
  LET argv == Stage(line)
      p == ParsePipeline(line)
      start == [Idle EXCEPT !.pc = "pipe", !.stages = p.out, !.i = 1]
      piped == \/ \E k \in DOMAIN line : line[k] = "|"
               \/ argv.ok /\ argv.out # <<>> /\ IsProcessCmd(argv.out[1])
  IN  IF piped
      THEN IF /\ p.ok /\ p.out # <<>>
              /\ \A k \in DOMAIN p.out : IsProcessCmd(p.out[k][1])
           THEN start ELSE Idle
      ELSE IF argv.ok /\ argv.out \in {<<<<"trap">>>>, <<<<"spawn">>>>}
      THEN [Idle EXCEPT !.pc = "gone"]
      ELSE Idle

ReadLine(line) ==
  /\ sh.pc = "prompt" /\ typed < MaxLines
  /\ typed' = typed + 1 /\ console' = <<>>
  /\ sh' = RunCmd(line)
  /\ UNCHANGED <<ofile, pipe, kid>>

-----------------------------------------------------------------------------

n == Len(sh.stages)
stage == sh.stages[sh.i]
hasArg == Len(stage) = 2
Go(pc) == sh' = [sh EXCEPT !.pc = pc]
Close(fd) == ofile' = [ofile EXCEPT ![fd] = Nothing]

(* sys_pipe, for every stage but the last.                                  *)
MakePipe ==
  /\ sh.pc = "pipe" /\ sh.i < n
  /\ IF FreePipes # {} /\ Cardinality(FreeFds) >= 2
     THEN LET k == Min(FreePipes)
              r == Min(FreeFds)
              w == Min(FreeFds \ {r})
          IN  /\ ofile' = [ofile EXCEPT ![r] = ReadEnd(k), ![w] = WriteEnd(k)]
              /\ pipe' = [pipe EXCEPT ![k] = <<>>]
              /\ sh' = [sh EXCEPT !.r = r, !.w = w, !.pc = "launch"]
     ELSE /\ sh' = [sh EXCEPT !.r = 0, !.w = 0, !.pc = "fail_in"]
          /\ UNCHANGED <<ofile, pipe>>
  /\ UNCHANGED <<kid, console, typed>>

LastStage ==
  /\ sh.pc = "pipe" /\ sh.i = n
  /\ sh' = [sh EXCEPT !.r = 0, !.w = 0, !.pc = "launch"]
  /\ UNCHANGED <<ofile, pipe, kid, console, typed>>

(* launch_process_stage up to the spawn: the argument of LS is a directory  *)
(* (here none exists but the current one), that of CAT and ROT13 a file.    *)
Launch ==
  /\ sh.pc = "launch"
  /\ IF Len(stage) > 2 \/ (stage[1] = <<"LS">> /\ hasArg /\ stage[2] # <<".">>)
     THEN Go("fail_in") /\ UNCHANGED ofile
     ELSE IF hasArg /\ stage[1] # <<"LS">>
     THEN IF stage[2] \in DOMAIN Files /\ FreeFds # {}
          THEN LET fd == Min(FreeFds)
               IN  /\ ofile' = [ofile EXCEPT ![fd] = <<"file", 0>>]
                   /\ sh' = [sh EXCEPT !.f = fd, !.pc = "spawn"]
          ELSE Go("fail_in") /\ UNCHANGED ofile
     ELSE sh' = [sh EXCEPT !.f = 0, !.pc = "spawn"] /\ UNCHANGED ofile
  /\ UNCHANGED <<pipe, kid, console, typed>>

(* sys_spawn: the child holds its standard input and output, and no other   *)
(* descriptor of the shell.                                                 *)
Object(fd) == IF fd = 0 THEN Console ELSE ofile[fd]

Child ==
  [prog |-> Program(stage[1]), st |-> "run", buf |-> <<>>,
   in |-> Object(IF sh.f # 0 THEN sh.f ELSE sh.in), out |-> Object(sh.w),
   file |-> IF sh.f # 0 THEN Files[stage[2]] ELSE <<>>]

Spawn ==
  /\ sh.pc = "spawn"
  /\ IF Born # Kids /\ Cardinality(Alive) < QUOTA
     THEN LET c == Min(Kids \ Born)
          IN  /\ kid' = [kid EXCEPT ![c] = Child]
              /\ sh' = [sh EXCEPT !.pids = Append(@, c), !.pc = "close_file"]
     ELSE Go("fail_file") /\ UNCHANGED kid
  /\ UNCHANGED <<ofile, pipe, console, typed>>

(* The closes of run_pipeline, one system call each: after a stage was      *)
(* started, and after one could not be.                                     *)
CloseStep(fd, then) ==
  /\ IF fd = 0 THEN UNCHANGED ofile ELSE Close(fd)
  /\ sh' = then
  /\ UNCHANGED <<pipe, kid, console, typed>>

To(pc) == [sh EXCEPT !.pc = pc]

CloseFile ==
  /\ sh.pc = "close_file"
  /\ CloseStep(sh.f, To("close_in"))
CloseIn ==
  /\ sh.pc = "close_in"
  /\ CloseStep(sh.in, To("close_w"))

CloseW ==
  /\ sh.pc = "close_w"
  /\ CloseStep(sh.w,
       IF sh.i < n THEN [sh EXCEPT !.in = sh.r, !.i = @ + 1, !.pc = "pipe"]
       ELSE To("close_last"))

(* The descriptor of the last pipe is closed a second time.                 *)
CloseLast ==
  /\ sh.pc = "close_last"
  /\ CloseStep(sh.in, [sh EXCEPT !.pc = "wait", !.i = 1])

FailFile ==
  /\ sh.pc = "fail_file"
  /\ CloseStep(sh.f, To("fail_in"))
FailIn ==
  /\ sh.pc = "fail_in"
  /\ CloseStep(sh.in, To("fail_r"))

(* Mutant: the pipe of a stage that could not be started stays open.        *)
FailRKept ==
  /\ sh.pc = "fail_r"
  /\ CloseStep(0, To("fail_w"))

FailR ==
  /\ sh.pc = "fail_r"
  /\ CloseStep(sh.r, To("fail_w"))
FailW ==
  /\ sh.pc = "fail_w"
  /\ CloseStep(sh.w, Idle)

(* sys_waitpid for one child after the other.                               *)
Wait ==
  /\ sh.pc = "wait"
  /\ kid[sh.pids[sh.i]].st = "dead"
  /\ sh' = IF sh.i < n THEN [sh EXCEPT !.i = @ + 1]
           ELSE [sh EXCEPT !.pc = "prompt", !.ok = TRUE]
  /\ UNCHANGED <<ofile, pipe, kid, console, typed>>

ShellStep ==
  \/ MakePipe \/ LastStage \/ Launch \/ Spawn
  \/ CloseFile \/ CloseIn \/ CloseW \/ CloseLast
  \/ FailFile \/ FailIn \/ FailR \/ FailW \/ Wait

-----------------------------------------------------------------------------

Take(s) == SubSeq(s, 1, Min({BUFSIZE, Len(s)}))
Drop(s) == SubSeq(s, Min({BUFSIZE, Len(s)}) + 1, Len(s))
Become(c, k) == kid' = [kid EXCEPT ![c] = k]

(* LS: sys_ls, and then one write after the other.                          *)
List(c) ==
  /\ kid[c].st = "run" /\ kid[c].prog = <<"LS">>
  /\ Become(c, [kid[c] EXCEPT !.buf = Listing, !.st = "write"])
  /\ UNCHANGED <<sh, ofile, pipe, console, typed>>

(* CAT and ROT13: a read of the file, or of the pipe once it has something  *)
(* or nobody can write to it any more; zero is the end.                     *)
Change(c, s) ==
  IF kid[c].prog = <<"ROT13">> THEN [k \in DOMAIN s |-> Rot(s[k])] ELSE s

After(c, s) == IF s = <<>> THEN "close" ELSE "write"

ReadFile(c) ==
  /\ kid[c].st = "run" /\ kid[c].prog # <<"LS">> /\ kid[c].in[1] = "file"
  /\ LET s == Take(kid[c].file)
     IN  Become(c, [kid[c] EXCEPT !.file = Drop(@), !.buf = Change(c, s),
                                  !.st = After(c, s)])
  /\ UNCHANGED <<sh, ofile, pipe, console, typed>>

(* Mutant: an empty pipe is taken for one that has ended.                   *)
ReadPipeEnds(c) ==
  /\ kid[c].st = "run" /\ kid[c].prog # <<"LS">> /\ kid[c].in[1] = "read"
  /\ LET k == kid[c].in[2]
         s == Take(pipe[k])
     IN  /\ pipe' = [pipe EXCEPT ![k] = Drop(@)]
         /\ Become(c, [kid[c] EXCEPT !.buf = Change(c, s), !.st = After(c, s)])
  /\ UNCHANGED <<sh, ofile, console, typed>>

ReadPipe(c) ==
  /\ kid[c].st = "run" /\ kid[c].prog # <<"LS">> /\ kid[c].in[1] = "read"
  /\ LET k == kid[c].in[2]
         s == Take(pipe[k])
     IN  /\ s # <<>> \/ ~Holds(WriteEnd(k))
         /\ pipe' = [pipe EXCEPT ![k] = Drop(@)]
         /\ Become(c, [kid[c] EXCEPT !.buf = Change(c, s), !.st = After(c, s)])
  /\ UNCHANGED <<sh, ofile, console, typed>>

(* sys_write, an item at a time: it fails when the pipe has no reader, and  *)
(* since none can come back so does every later write of the program.       *)
Wrote(c, rest) ==
  LET next == IF rest # <<>> THEN "write"
              ELSE IF kid[c].prog = <<"LS">> THEN "close" ELSE "run"
  IN  Become(c, [kid[c] EXCEPT !.buf = rest, !.st = next])

(* Mutant: a write to a pipe that nobody reads waits for room.              *)
WriteOutWaits(c) ==
  /\ kid[c].st = "write"
  /\ IF kid[c].buf = <<>> THEN Wrote(c, <<>>) /\ UNCHANGED <<pipe, console>>
     ELSE IF kid[c].out = Console
     THEN /\ console' = Append(console, Head(kid[c].buf))
          /\ Wrote(c, Tail(kid[c].buf)) /\ UNCHANGED pipe
     ELSE LET k == kid[c].out[2]
          IN  /\ Len(pipe[k]) < PIPESIZE
              /\ pipe' = [pipe EXCEPT ![k] = Append(@, Head(kid[c].buf))]
              /\ Wrote(c, Tail(kid[c].buf)) /\ UNCHANGED console
  /\ UNCHANGED <<sh, ofile, typed>>

WriteOut(c) ==
  /\ kid[c].st = "write"
  /\ IF kid[c].buf = <<>> THEN Wrote(c, <<>>) /\ UNCHANGED <<pipe, console>>
     ELSE IF kid[c].out = Console
     THEN /\ console' = Append(console, Head(kid[c].buf))
          /\ Wrote(c, Tail(kid[c].buf)) /\ UNCHANGED pipe
     ELSE LET k == kid[c].out[2]
          IN  /\ UNCHANGED console
              /\ IF ~Holds(ReadEnd(k)) THEN Wrote(c, <<>>) /\ UNCHANGED pipe
                 ELSE /\ Len(pipe[k]) < PIPESIZE
                      /\ pipe' = [pipe EXCEPT ![k] = Append(@, Head(kid[c].buf))]
                      /\ Wrote(c, Tail(kid[c].buf))
  /\ UNCHANGED <<sh, ofile, typed>>

(* The program closes its output, ROT13 its input too, and returns from     *)
(* main; the exit closes what is still open.                                *)
CloseOut(c) ==
  /\ kid[c].st = "close"
  /\ Become(c, [kid[c] EXCEPT !.out = Nothing,
                              !.st = IF kid[c].prog = <<"ROT13">>
                                     THEN "close0" ELSE "exit"])
  /\ UNCHANGED <<sh, ofile, pipe, console, typed>>

CloseInput(c) ==
  /\ kid[c].st = "close0"
  /\ Become(c, [kid[c] EXCEPT !.in = Nothing, !.st = "exit"])
  /\ UNCHANGED <<sh, ofile, pipe, console, typed>>

Exit(c) ==
  /\ kid[c].st = "exit"
  /\ Become(c, [kid[c] EXCEPT !.in = Nothing, !.st = "dead"])
  /\ UNCHANGED <<sh, ofile, pipe, console, typed>>

KidStep(c) ==
  \/ List(c) \/ ReadFile(c) \/ ReadPipe(c) \/ WriteOut(c)
  \/ CloseOut(c) \/ CloseInput(c) \/ Exit(c)

Next == (\E line \in Lines : ReadLine(line)) \/ ShellStep \/ \E c \in Kids : KidStep(c)

(* Every process that can run is scheduled in turn.                         *)
Spec == /\ Init /\ [][Next]_vars
        /\ WF_vars(ShellStep) /\ \A c \in Kids : WF_vars(KidStep(c))

-----------------------------------------------------------------------------

(* What a pipeline should print: LS and a process with a file do not look   *)
(* at their input.                                                          *)
RECURSIVE Printed(_, _)
Printed(stages, k) ==
  LET s == stages[k]
      in == IF Len(s) = 2 THEN Files[s[2]] ELSE Printed(stages, k - 1)
  IN  IF s[1] = <<"LS">> THEN Listing
      ELSE IF s[1] = <<"ROT13">> THEN [j \in DOMAIN in |-> Rot(in[j])]
      ELSE in

(* When the shell prompts again after a pipeline it ran to the end, all of  *)
(* its output has been printed, in order.                                   *)
OutputComplete ==
  sh.pc = "prompt" /\ sh.ok => console = Printed(sh.stages, n)

(* A prompt finds the shell with the descriptors it started with, whatever  *)
(* failed in the last pipeline, and once its children have ended every pipe *)
(* is free again.                                                           *)
PromptClean ==
  sh.pc = "prompt" =>
    /\ FreeFds = Fds
    /\ Alive = {} => FreePipes = PipeIds

(* Every line leads back to a prompt, or out of the shell: no process of a  *)
(* pipeline waits for ever for input or for room, and so no waitpid does.   *)
PromptReturns == sh.pc # "prompt" ~> sh.pc \in {"prompt", "gone"}

(* The cursor of parse_pipeline and parse_stage finds the stages and words  *)
(* between the bars and blanks of every short line, and refuses what does   *)
(* not fit.                                                                 *)
TestLines == UNION {[1 .. k -> {"a", " ", "|"}] : k \in 0 .. 2 * MAXARGS + 1}

ParseCorrect ==
  typed = 0 => \A line \in TestLines : ParsePipeline(line) = ParseRef(line)
=============================================================================
