------------------------------- MODULE Params --------------------------------
(***************************************************************************)
(* The process identifiers of lib/x86.h.  The same number names a thread   *)
(* control block, a kernel context and a resource container.               *)
(***************************************************************************)
EXTENDS Naturals

CONSTANT NUM_IDS

ASSUME NumIdsAssumption == NUM_IDS \in Nat /\ NUM_IDS > 2

Ids == 0 .. NUM_IDS - 1

(* The index NUM_IDS represents the null pointer in every link field. *)
NULL == NUM_IDS
=============================================================================
