----------------------------- MODULE MCAxiFabric -----------------------------
(***************************************************************************)
(* A DDR burst and an MMIO access, both from outside the DMA window, so    *)
(* that master 3 is refused either; two IDs.  The read and the write       *)
(* machine share no register: a behaviour exercises one of them, with all  *)
(* its masters, chosen at the start.                                       *)
(***************************************************************************)
EXTENDS AxiFabric

VARIABLE kind     \* "read" or "write"

MCRequests == {[dst |-> 0, window |-> FALSE, len |-> 1, id |-> 1],
               [dst |-> 1, window |-> FALSE, len |-> 0, id |-> 2]}
All == 0 .. 3
Active == {0, 1, 3}

MCInit == FabricInit /\ kind \in {"read", "write"}
MCNext == /\ \/ kind = "read" /\ ReadNext /\ UNCHANGED writeVars
             \/ kind = "write" /\ WriteNext /\ UNCHANGED readVars
             \/ Reset
          /\ UNCHANGED kind
MCFairness ==
  /\ WF_fabricVars(kind = "read" /\ ReadMachine /\ UNCHANGED writeVars)
  /\ WF_fabricVars(kind = "write" /\ WriteMachine /\ UNCHANGED readVars)
MCSpec == MCInit /\ [][MCNext]_<<fabricVars, kind>> /\ MCFairness
=============================================================================
