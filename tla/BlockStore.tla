------------------------------ MODULE BlockStore ------------------------------
(***************************************************************************)
(* What the buffer cache promises its users: every sector is a register    *)
(* with a lock.  A process that has got a sector is the only one to read   *)
(* or change it until it releases it.                                      *)
(***************************************************************************)
CONSTANTS Procs, Sectors, Blocks

VARIABLES value,        \* the contents of each sector
          owner         \* the processes that have got each sector

bVars == <<value, owner>>

BInit == value \in [Sectors -> Blocks] /\ owner = [s \in Sectors |-> {}]

BGet(p, s) ==
  /\ owner[s] = {}
  /\ owner' = [owner EXCEPT ![s] = {p}]
  /\ UNCHANGED value

BChange(p, s, d) ==
  /\ owner[s] = {p}
  /\ value' = [value EXCEPT ![s] = d]
  /\ UNCHANGED owner

BRelease(p, s) ==
  /\ owner[s] = {p}
  /\ owner' = [owner EXCEPT ![s] = {}]
  /\ UNCHANGED value

Transfer == \E p \in Procs, s \in Sectors : BGet(p, s) \/ BRelease(p, s)

Change == \E p \in Procs, s \in Sectors, d \in Blocks : BChange(p, s, d)

BNext == \/ owner' # owner /\ Transfer
         \/ value' # value /\ Change

BSpec == BInit /\ [][BNext]_bVars
=============================================================================
