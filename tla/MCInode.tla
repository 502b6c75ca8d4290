------------------------------ MODULE MCInode ------------------------------
(***************************************************************************)
(* Instance of Inode: a root with a directory d and a file x, a directory  *)
(* d in d, and two processes that open, create, link, remove and change    *)
(* into them.                                                              *)
(***************************************************************************)
EXTENDS Inode, TLC

MCNames == {"..", "d", "x"}
MCTree ==
  1 :> [n \in MCNames |-> CASE n = ".." -> 1 [] n = "d" -> 2 [] OTHER -> 3]
  @@ 2 :> [n \in MCNames |-> CASE n = ".." -> 1 [] n = "d" -> 4 [] OTHER -> 0]
  @@ 4 :> [n \in MCNames |-> IF n = ".." THEN 2 ELSE 0]

MCCalls ==
  {<<"open", <<"/", "x">>, <<>>>>, <<"creat", <<"d", "x">>, <<>>>>,
   <<"mkdir", <<"d">>, <<>>>>, <<"chdir", <<"d", "d">>, <<>>>>,
   <<"chdir", <<"x", "..">>, <<>>>>, <<"chdir", <<"..">>, <<>>>>,
   <<"unlink", <<"/", "d">>, <<>>>>, <<"unlink", <<"x">>, <<>>>>,
   <<"link", <<"x">>, <<"d", "x">>>>, <<"unlink", <<"d", "x">>, <<>>>>,
   <<"unlink", <<"/", "d", "d">>, <<>>>>}

Processes == Permutations(Procs)
=============================================================================
