--------------------------- MODULE MCCacheProgress ---------------------------
(***************************************************************************)
(* What the caches must end: requests and scans inside one cache (L1Cache) *)
(* and FENCE.I across the core and both caches (CachedCore), in one state  *)
(* graph; which of the two a behaviour is about is chosen at the start.    *)
(***************************************************************************)
EXTENDS MCL1Cache

VARIABLES
  scope,     \* "cache" or "core"
  fetch_pc, if_stage, id_stage, fence_i_valid, halted, access, i_busy, i_addr,
  i_data, istate, icopy, dstate, dcache, dcopy, fstate, fence_i_fault,
  clean_fault, core_mem, since

Core == INSTANCE CachedCore WITH NAddrs <- 2, Values <- {"x"}, mem <- core_mem
coreVars == <<fetch_pc, if_stage, id_stage, fence_i_valid, halted, access,
              i_busy, i_addr, i_data, istate, icopy, dstate, dcache, dcopy,
              fstate, fence_i_fault, clean_fault, core_mem, since>>

MCInit == scope \in {"cache", "core"} /\ Init /\ Core!Init
MCNext == \/ scope = "cache" /\ Next /\ UNCHANGED <<scope, coreVars>>
          \/ scope = "core" /\ Core!Next /\ UNCHANGED <<scope, vars>>

(* The fairness of each module, of the one that is looked at.              *)
Runs(A) == scope = "core" /\ A
MCFairness == /\ WF_vars(scope = "cache" /\ Advance)
              /\ WF_coreVars(Runs(Core!FetchAnswer))
              /\ WF_coreVars(Runs(Core!FetchDrop))
              /\ WF_coreVars(Runs(Core!DataStep))
              /\ WF_coreVars(Runs(Core!Maintain))
              /\ WF_coreVars(Runs(Core!FenceStep))
MCSpec == MCInit /\ [][MCNext]_<<scope, vars, coreVars>> /\ MCFairness

-----------------------------------------------------------------------------
(* rv32_cached_core.sv: a FENCE.I always leaves EX, whatever fetch or      *)
(* access was outstanding when it came.                                    *)
FenceEnds == Core!FenceEnds
=============================================================================
