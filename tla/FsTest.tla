------------------------------- MODULE FsTest -------------------------------
(***************************************************************************)
(* user/fstest/fstest.c, the repository's file system test, as programs    *)
(* over the calls of FileSys.  A test is the sequence of its calls, each   *)
(* with what it demands of the result; the repeat counts of its loops and  *)
(* the sizes of its writes are scaled to the block size.                   *)
(***************************************************************************)
EXTENDS FileSys

CONSTANTS TestImage, \* the file system the tests start on
          NSMALL,    \* rounds of smallfile (100 in the code)
          FileNames, \* names of createtest and of bigdir (52 and 500)
          NIREF      \* rounds of iref (51)

ASSUME FsTestAssumption == NSMALL \in Nat /\ NIREF \in Nat

(* The steps: a call, and the outcome wanted ("ok", "fail" or "any").       *)
NoStep == [NoCall EXCEPT !.fd = 0] @@ [want |-> "any"]

Open(p, m, w) == <<[NoStep EXCEPT !.do = "open", !.path = p, !.mode = m, !.want = w]>>
Write(c, w) == <<[NoStep EXCEPT !.do = "write", !.cells = c, !.want = w]>>
Read(n, c) == <<[NoStep EXCEPT !.do = "read", !.n = n, !.cells = c, !.want = "ok"]>>
Close == <<[NoStep EXCEPT !.do = "close"]>>
Unlink(p, w) == <<[NoStep EXCEPT !.do = "unlink", !.path = p, !.want = w]>>
Mkdir(p, w) == <<[NoStep EXCEPT !.do = "mkdir", !.path = p, !.want = w]>>
Chdir(p, w) == <<[NoStep EXCEPT !.do = "chdir", !.path = p, !.want = w]>>
Link(p, q, w) ==
  <<[NoStep EXCEPT !.do = "link", !.path = p, !.to = q, !.want = w]>>

(* A step of a test: t has the state, the descriptor in the variable fd,    *)
(* and whether every demand so far was met.                                 *)
Perform(t, st) ==
  LET r == IF st.do = "use" THEN <<t.s, st.n, <<>>>>
           ELSE Kernel(t.s, [st EXCEPT !.fd = t.fd])
      met == /\ st.want = "ok" => r[2] # None
             /\ st.want = "fail" => r[2] = None
             /\ st.do = "write" /\ st.want = "ok" => r[2] = Len(st.cells)
             /\ st.do = "read" => r[3] = st.cells
  IN  [s |-> r[1], fd |-> IF st.do \in {"open", "use"} THEN r[2] ELSE t.fd,
       ok |-> met]

RECURSIVE Execute(_, _)
Execute(t, prog) ==
  IF prog = <<>> \/ ~t.ok \/ t.s.halt # "no" THEN t
  ELSE Execute(Perform(t, Head(prog)), Tail(prog))

Repeat(n, prog(_)) == FlattenSeq([k \in 1 .. n |-> prog(k)])
Bytes(b, n) == [k \in 1 .. n |-> <<b, "">>]
At(p, n) == p \o <<"/", n>>
RW == {"RDWR"}
CREATE == {"CREATE"}
CREATERW == {"CREATE", "RDWR"}

-----------------------------------------------------------------------------

smallfile ==
  LET p == <<"small">>
      ab == Bytes(1, 2) \o Bytes(2, 2)
  IN  Open(p, CREATERW, "ok")
      \o Repeat(NSMALL, LAMBDA k : Write(Bytes(1, 2), "ok") \o Write(Bytes(2, 2), "ok"))
      \o Close \o Open(p, {}, "ok")
      \o Read(4 * NSMALL, Repeat(NSMALL, LAMBDA k : ab))
      \o Close \o Unlink(p, "ok")

bigfile1 ==
  LET p == <<"big">>
  IN  Open(p, CREATERW, "ok")
      \o Repeat(MAXFILE, LAMBDA k : Write(Bytes(k, BSIZE), "ok"))
      \o Close \o Open(p, {}, "ok")
      \o Repeat(MAXFILE, LAMBDA k : Read(BSIZE, Bytes(k, BSIZE)))
      \o Read(BSIZE, <<>>) \o Close \o Unlink(p, "ok")

createtest ==
  Repeat(Len(FileNames), LAMBDA k : Open(<<FileNames[k]>>, CREATERW, "any") \o Close)
  \o Repeat(Len(FileNames), LAMBDA k : Unlink(<<FileNames[k]>>, "any"))

rmdot ==
  LET p == <<"dots">>
  IN  Mkdir(p, "ok") \o Chdir(p, "ok")
      \o Unlink(<<".">>, "fail") \o Unlink(<<"..">>, "fail")
      \o Chdir(<<"/">>, "any")
      \o Unlink(At(p, "."), "fail") \o Unlink(At(p, ".."), "fail")
      \o Unlink(p, "ok")

(* Names of fourteen and fifteen characters are cut to the same entry.      *)
fourteen ==
  LET a == <<"n14">>
      b == <<"n15">>
  IN  Mkdir(a, "ok") \o Mkdir(At(a, "n15"), "ok")
      \o Open(At(At(b, "n15"), "n15"), CREATE, "ok") \o Close
      \o Open(At(At(a, "n14"), "n14"), {}, "ok") \o Close
      \o Mkdir(At(a, "n14"), "fail") \o Mkdir(At(a, "n15"), "fail")

(* Writes of one block and a half, read back by halves.                     *)
bigfile2 ==
  LET p == <<"bigfile">>
      half == (BSIZE \div 2) + 1
      rounds == (MAXFILE * BSIZE) \div (2 * half)
  IN  Unlink(p, "any") \o Open(p, CREATERW, "ok")
      \o Repeat(rounds, LAMBDA k : Write(Bytes(k, 2 * half), "ok"))
      \o Close \o Open(p, {}, "ok")
      \o Repeat(2 * rounds, LAMBDA k : Read(half, Bytes((k + 1) \div 2, half)))
      \o Read(half, <<>>) \o Close \o Unlink(p, "any")

(* The end of subdir: the files go first, then the directories.             *)
subdirEnd ==
  LET dd == <<"dd">>
      dddd == At(dd, "dd")
  IN  Unlink(At(dddd, "ffff"), "ok") \o Unlink(At(dd, "ff"), "ok")
      \o Unlink(dd, "fail") \o Unlink(dddd, "ok") \o Unlink(dd, "ok")

subdir ==
  LET ff == <<"ff">>
      dd == <<"dd">>
      dddd == At(dd, "dd")
      up(p) == At(p, "..")
  IN  Unlink(ff, "any") \o Mkdir(dd, "ok")
      \o Open(At(dd, "ff"), CREATERW, "ok") \o Write(Bytes(1, 2), "any") \o Close
      \o Unlink(dd, "fail") \o Mkdir(dddd, "ok")
      \o Open(At(dddd, "ff"), CREATERW, "ok") \o Write(Bytes(2, 2), "any") \o Close
      \o Open(At(up(dddd), "ff"), {}, "ok") \o Read(BSIZE, Bytes(1, 2)) \o Close
      \o Link(At(dddd, "ff"), At(dddd, "ffff"), "ok")
      \o Unlink(At(dddd, "ff"), "ok") \o Open(At(dddd, "ff"), {}, "fail")
      \o Chdir(dd, "ok") \o Chdir(At(up(up(dd)), "dd"), "ok")
      \o Chdir(At(up(up(up(dd))), "dd"), "ok") \o Chdir(At(<<".">>, ".."), "ok")
      \o Open(At(dddd, "ffff"), {}, "ok") \o Read(BSIZE, Bytes(2, 2)) \o Close
      \o Open(At(dddd, "ff"), {}, "fail")
      \o Open(At(At(dd, "ff"), "ff"), CREATERW, "fail")
      \o Open(At(At(dd, "xx"), "ff"), CREATERW, "fail")
      \o Open(dd, CREATE, "fail") \o Open(dd, RW, "fail") \o Open(dd, {"WRONLY"}, "fail")
      \o Link(At(At(dd, "ff"), "ff"), At(dddd, "xx"), "fail")
      \o Link(At(At(dd, "xx"), "ff"), At(dddd, "xx"), "fail")
      \o Link(At(dd, "ff"), At(dddd, "ffff"), "fail")
      \o Mkdir(At(At(dd, "ff"), "ff"), "fail") \o Mkdir(At(At(dd, "xx"), "ff"), "fail")
      \o Mkdir(At(dddd, "ffff"), "fail")
      \o Unlink(At(At(dd, "xx"), "ff"), "fail") \o Unlink(At(At(dd, "ff"), "ff"), "fail")
      \o Chdir(At(dd, "ff"), "fail") \o Chdir(At(dd, "xx"), "fail")
      \o subdirEnd

linktest ==
  LET f1 == <<"lf1">>
      f2 == <<"lf2">>
  IN  Unlink(f1, "any") \o Unlink(f2, "any")
      \o Open(f1, CREATERW, "ok") \o Write(Bytes(1, 3), "ok") \o Close
      \o Link(f1, f2, "ok") \o Unlink(f1, "any") \o Open(f1, {}, "fail")
      \o Open(f2, {}, "ok") \o Read(BSIZE, Bytes(1, 3)) \o Close
      \o Link(f2, f2, "fail") \o Unlink(f2, "any")
      \o Link(f2, f1, "fail") \o Link(<<".">>, f1, "fail")

(* The second descriptor, fd1, is 1: the first one stays open over it.      *)
unlinkread ==
  LET p == <<"unlinkread">>
      swap(fd) == <<[NoStep EXCEPT !.do = "use", !.n = fd]>>
  IN  Open(p, CREATERW, "ok") \o Write(Bytes(1, 3), "any") \o Close
      \o Open(p, RW, "ok") \o Unlink(p, "ok")
      \o Open(p, CREATERW, "ok") \o Write(Bytes(2, 2), "any") \o Close \o swap(0)
      \o Read(BSIZE, Bytes(1, 3)) \o Write(Bytes(1, 5), "ok")
      \o Close \o Unlink(p, "any")

dirfile ==
  LET p == <<"dirfile">>
      xx == At(p, "xx")
  IN  Open(p, CREATE, "ok") \o Close \o Chdir(p, "fail")
      \o Open(xx, {}, "fail") \o Open(xx, CREATE, "fail")
      \o Mkdir(xx, "fail") \o Unlink(xx, "fail") \o Link(<<"README">>, xx, "fail")
      \o Unlink(p, "ok")
      \o Open(<<".">>, RW, "fail") \o Open(<<".">>, {}, "ok")
      \o Write(Bytes(1, 1), "fail") \o Close

iref ==
  LET p == <<"irefd">>
      round == Mkdir(p, "ok") \o Chdir(p, "ok") \o Mkdir(<<>>, "any")
               \o Link(<<"README">>, <<>>, "any") \o Open(<<>>, CREATE, "any")
               \o Close \o Open(<<"xx">>, CREATE, "any") \o Close
               \o Unlink(<<"xx">>, "any")
  IN  Repeat(NIREF, LAMBDA k : round) \o Chdir(<<"/">>, "any")

(* A directory that uses indirect blocks.                                   *)
bigdir ==
  LET p == <<"bd">>
  IN  Unlink(p, "any") \o Open(p, CREATE, "ok") \o Close
      \o Repeat(Len(FileNames), LAMBDA k : Link(p, <<FileNames[k]>>, "ok"))
      \o Unlink(p, "any")
      \o Repeat(Len(FileNames), LAMBDA k : Unlink(<<FileNames[k]>>, "ok"))

(* main: the mark of a finished run, then every test; a test that fails     *)
(* returns, and the next one starts.                                        *)
FsTests ==
  LET mark == <<"usertests.ran">>
  IN  <<Open(mark, {}, "fail") \o Open(mark, CREATE, "any") \o Close,
        smallfile, bigfile1, createtest, rmdot, fourteen, bigfile2, subdir,
        linktest, unlinkread, dirfile, iref, bigdir>>

(* The verdicts of tests run in order, from state s on.                     *)
RECURSIVE Verdicts(_, _)
Verdicts(s, tests) ==
  LET t == Execute([s |-> s, fd |-> 0, ok |-> TRUE], Head(tests))
  IN  IF tests = <<>> THEN <<>>
      ELSE <<t.ok /\ t.s.halt = "no">> \o Verdicts(t.s, Tail(tests))
=============================================================================
