------------------------------- MODULE Channel -------------------------------
(***************************************************************************)
(* What a pipe promises: a bounded first-in first-out channel of bytes     *)
(* with a write end and a read end, each closed once and for all.          *)
(***************************************************************************)
EXTENDS Naturals, Sequences

CONSTANTS Bytes, Capacity

VARIABLES buf, wopen, ropen

chVars == <<buf, wopen, ropen>>

ChInit == buf = <<>> /\ wopen = TRUE /\ ropen = TRUE

Send(b) ==
  /\ wopen
  /\ Len(buf) < Capacity
  /\ buf' = Append(buf, b)
  /\ UNCHANGED <<wopen, ropen>>

Receive ==
  /\ ropen
  /\ buf # <<>>
  /\ buf' = Tail(buf)
  /\ UNCHANGED <<wopen, ropen>>

CloseWrite == wopen /\ wopen' = FALSE /\ UNCHANGED <<buf, ropen>>

CloseRead == ropen /\ ropen' = FALSE /\ UNCHANGED <<buf, wopen>>

ChNext == (\E b \in Bytes : Send(b)) \/ Receive \/ CloseWrite \/ CloseRead

ChSpec == ChInit /\ [][ChNext]_chVars
=============================================================================
