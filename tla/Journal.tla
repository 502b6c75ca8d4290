------------------------------- MODULE Journal -------------------------------
(***************************************************************************)
(* What the log promises: a store that changes only by whole transactions. *)
(* The writes of the one open transaction are pending; they become durable *)
(* all at once, or a crash forgets all of them.                            *)
(***************************************************************************)
CONSTANTS Sectors, Blocks

VARIABLES store,        \* the durable contents of each sector
          pending       \* the writes of the open transaction, by sector

jVars == <<store, pending>>

NoWrites == [s \in {} |-> store[s]]

JInit == store \in [Sectors -> Blocks] /\ pending = NoWrites

JWrite(s, b) ==
  /\ pending' = [t \in DOMAIN pending \cup {s} |->
                   IF t = s THEN b ELSE pending[t]]
  /\ UNCHANGED store

JCommit ==
  /\ store' = [s \in Sectors |-> IF s \in DOMAIN pending THEN pending[s]
                                                       ELSE store[s]]
  /\ pending' = NoWrites

JCrash == pending' = NoWrites /\ UNCHANGED store

JNext == (\E s \in Sectors, b \in Blocks : JWrite(s, b)) \/ JCommit \/ JCrash

JSpec == JInit /\ [][JNext]_jVars
=============================================================================
