------------------------------ MODULE MCShell ------------------------------
(***************************************************************************)
(* Instance of Shell: pipelines of up to three processes, more items than  *)
(* a pipe holds, and too few pipes and children for all of them.  A word   *)
(* is one character of the line, and no first process reads the console.   *)
(***************************************************************************)
EXTENDS Shell

MCListing == <<"n1", "n2", "n3">>
MCFiles == [f \in {<<"f">>} |-> <<"x", "y">>]
MCRot(c) ==
  CASE c = "n1" -> "a1" [] c = "n2" -> "a2" [] c = "n3" -> "a3"
    [] c = "x" -> "k" [] c = "y" -> "l" [] OTHER -> c

MCLines ==
  {<<"LS", " ", "|", "ROT13", "|", " ", "CAT">>,
   <<"CAT", " ", "f", "|", "LS">>,
   <<"CAT", " ", "f", "|", "ROT13", " ", "g">>,
   <<"LS", "|", "CAT", "|">>,
   <<"LS", "|", "help">>,
   <<"LS", "|", "|", "CAT">>,
   <<"LS", " ", "g">>,
   <<"trap">>}
=============================================================================
