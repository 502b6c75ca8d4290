--------------------------- MODULE ShellCommands ---------------------------
(***************************************************************************)
(* The file commands built into user/shell/shell.c, each as the sequence   *)
(* of system calls it makes: operators from a state to a state.            *)
(* What they print is left out.                                            *)
(*                                                                         *)
(* g says what the local variables the shell never initialises hold when a *)
(* command starts: the bytes after the text in a buffer (tail), a path     *)
(* (junk), whether the bytes after a file name start with a zero (clean);  *)
(* and whether sys_pwd meets a recycled inode slot (stale).                *)
(***************************************************************************)
EXTENDS UserCalls, FiniteSetsExt

CONSTANTS CPBUF,   \* cells of the buffer of cp_file and shell_append
          DEPTH    \* bound on the recursion of cp -r and rm -r

ASSUME ShellAssumption == CPBUF \in Nat \ {0} /\ DEPTH \in Nat

(* A recursion that does not end.                                           *)
Endless(s) == [s EXCEPT !.halt = "undefined"]

(* is_file_exist and is_dir: a state and a truth value.                     *)
IsFileExist(s, path) ==
  LET o == open(s, path, {})
  IN  IF o[2] = None THEN <<o[1], FALSE>> ELSE <<close(o[1], o[2])[1], TRUE>>

(* A mutant: the descriptor of a path that is a directory stays open.       *)
IsDir_LeavesOpen(s, path) ==
  LET o == open(s, path, {})
      d == is_dir(o[1], o[2])[2] = 1
  IN  IF o[2] = None THEN <<o[1], FALSE>>
      ELSE <<IF d THEN o[1] ELSE close(o[1], o[2])[1], d>>

IsDir(s, path) ==
  LET e == IsFileExist(s, path)
      o == open(e[1], path, {})
  IN  IF ~e[2] THEN e
      ELSE IF o[2] = None THEN <<o[1], FALSE>>
      ELSE <<close(o[1], o[2])[1], is_dir(o[1], o[2])[2] = 1>>

(* ls_dir: sys_pwd leaves the saved path as it was, so what the command     *)
(* returns to is junk.                                                      *)
LsDir(s, path, g) ==
  LET l == ls(chdir(pwd(s, g.stale)[1], path)[1])
  IN  <<chdir(l[1], g.junk)[1], l[3]>>

(* extract_filename copies the last name of a path without a terminator.    *)
ExtractFilename(path, g) ==
  LET slash == {k \in DOMAIN path : path[k] = "/"} \cup {0}
      name == SubSeq(path, Max(slash) + 1, Len(path))
  IN  IF g.clean THEN name ELSE <<"junk">>

(* cp_file: one read, and a write of the bytes up to the first zero.        *)
CpFile(s, dest, src, g) ==
  LET d == IsDir(s, src)
      o == open(d[1], src, {})
      r == read(o[1], o[2], CPBUF)
      c == close(r[1], o[2])
      n == open(c[1], dest, {"CREATE", "RDWR"})
      w == write(n[1], n[2], r[3] \o g.tail)
  IN  IF d[2] THEN mkdir(d[1], dest)[1] ELSE close(w[1], n[2])[1]

(* _shell_cp, and its loop over the names of a directory.                   *)
RECURSIVE ShellCp(_, _, _, _, _, _), CpEach(_, _, _, _, _, _)
ShellCp(s, dest, src, rec, g, fuel) ==
  LET e == IsFileExist(s, src)
      d == IsDir(e[1], src)
      x == IsFileExist(d[1], dest)
      xd == IsDir(x[1], dest)
      inside == dest \o <<"/">> \o ExtractFilename(src, g)
      made == CpFile(x[1], dest, src, g)
      l == LsDir(made, src, g)
  IN  IF s.halt # "no" \/ ~e[2] THEN e[1]
      ELSE IF fuel = 0 THEN Endless(s)
      ELSE IF d[2] /\ ~rec THEN d[1]
      ELSE IF x[2] /\ xd[2] THEN ShellCp(xd[1], inside, src, rec, g, fuel - 1)
      ELSE IF ~d[2] THEN CpFile(xd[1], dest, src, g)
      ELSE IF x[2] THEN xd[1]
      ELSE CpEach(l[1], l[2], dest, src, g, fuel - 1)
CpEach(s, names, dest, src, g, fuel) ==
  IF names = <<>> THEN s
  ELSE LET n == Head(names)
           s1 == IF n \in {".", ".."} THEN s
                 ELSE ShellCp(s, dest \o <<"/", n>>, src \o <<"/", n>>, TRUE, g, fuel)
       IN  CpEach(s1, Tail(names), dest, src, g, fuel)

(* _shell_rm, and its loop: into the directory, its entries, up, and the    *)
(* directory itself.                                                        *)
RECURSIVE ShellRmPath(_, _, _, _), RmEach(_, _, _)
ShellRmPath(s, path, rec, fuel) ==
  LET d == IsDir(s, path)
      l == ls(chdir(d[1], path)[1])
      up == chdir(RmEach(l[1], l[3], fuel - 1), <<"..">>)[1]
  IN  IF s.halt # "no" THEN s
      ELSE IF fuel = 0 THEN Endless(s)
      ELSE IF ~d[2] THEN unlink(d[1], path)[1]
      ELSE IF ~rec THEN d[1]
      ELSE unlink(up, path)[1]
RmEach(s, names, fuel) ==
  IF names = <<>> THEN s
  ELSE LET n == Head(names)
       IN  RmEach(IF n \in {".", ".."} THEN s ELSE ShellRmPath(s, <<n>>, TRUE, fuel),
                  Tail(names), fuel)

-----------------------------------------------------------------------------

(* The commands.                                                            *)
ShellCd(s, path) == chdir(s, path)[1]
ShellPwd(s, g) == pwd(s, g.stale)[1]
ShellMkdir(s, path) == mkdir(s, path)[1]

ShellLs(s, path, g) ==
  IF path = <<>> THEN ls(s)[1] ELSE LsDir(s, path, g)[1]

ShellCopy(s, dest, src, rec, g) == ShellCp(s, dest, src, rec, g, DEPTH)

ShellRm(s, path, rec) ==
  LET e == IsFileExist(s, path)
  IN  IF e[2] THEN ShellRmPath(e[1], path, rec, DEPTH) ELSE e[1]

(* shell_mv removes the source whatever became of the copy.                 *)
ShellMv(s, src, dest, g) ==
  LET e == IsFileExist(s, src)
      d == IsDir(e[1], src)
      x == IsFileExist(d[1], dest)
      xd == IsDir(x[1], dest)
      copied == ShellCp(IF d[2] THEN xd[1] ELSE d[1], dest, src, TRUE, g, DEPTH)
  IN  IF ~e[2] THEN e[1]
      ELSE IF d[2] /\ x[2] /\ ~xd[2] THEN xd[1]
      ELSE ShellRmPath(copied, src, d[2], DEPTH)

(* _shell_cat reads to the end of the file, a buffer at a time.             *)
RECURSIVE CatLoop(_, _)
CatLoop(s, fd) ==
  LET r == read(s, fd, CPBUF)
  IN  IF s.halt # "no" \/ r[2] <= 0 THEN r[1] ELSE CatLoop(r[1], fd)

ShellCat(s, path) ==
  LET o == open(s, path, {})
  IN  IF o[2] = None THEN o[1] ELSE close(CatLoop(o[1], o[2]), o[2])[1]

ShellTouch(s, path) ==
  LET o == open(s, path, {})
      c == open(o[1], path, {"CREATE"})
  IN  IF o[2] # None THEN close(o[1], o[2])[1] ELSE close(c[1], c[2])[1]

ShellWrite(s, text, path) ==
  LET o == open(s, path, {"CREATE", "RDWR"})
  IN  IF o[2] = None THEN o[1]
      ELSE close(write(o[1], o[2], text)[1], o[2])[1]

(* shell_append writes the whole file again, the text behind it.            *)
ShellAppend(s, text, path, g) ==
  LET o == open(s, path, {})
      r == read(o[1], o[2], CPBUF)
      n == open(close(r[1], o[2])[1], path, {"CREATE", "RDWR"})
      w == write(n[1], n[2], r[3] \o text \o g.tail)
  IN  IF o[2] = None THEN o[1]
      ELSE IF n[2] = None THEN n[1]
      ELSE close(w[1], n[2])[1]
=============================================================================
