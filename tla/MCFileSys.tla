----------------------------- MODULE MCFileSys -----------------------------
(***************************************************************************)
(* Instance of FsClient: a directory a with a file b in it, a file f at    *)
(* the root, and a disk and an inode table that fill up.                   *)
(***************************************************************************)
EXTENDS FsClient

MCTruncated == [n \in {"n15"} |-> "n14"]
MCFileNames == <<"x1", "x2", "x3", "x4", "x5">>
MCTestImage ==
  MkFs(40, 16, 4, 2, <<[name |-> "README", cells |-> Bytes(1, 1)]>>)

MCText == <<<<1, "">>, <<2, "">>, <<3, "">>>>
MCImage ==
  LET s == MkFs(13, 6, 2, 2, <<[name |-> "f", cells |-> Bytes(5, 1)]>>)
      t == ShellMkdir(s, <<"a">>)
  IN  ShellWrite([t EXCEPT !.cwd = ROOTINO], MCText, <<"a", "/", "b">>)

MCPaths == {<<"/", "a">>, <<"f">>, <<"/", "a", "/", "b">>}
MCGarbage ==
  {[tail |-> <<>>, junk |-> <<"junk">>, clean |-> TRUE, stale |-> FALSE],
   [tail |-> Bytes(9, 2), junk |-> <<"/">>, clean |-> FALSE, stale |-> TRUE]}
=============================================================================
