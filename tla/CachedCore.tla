------------------------------ MODULE CachedCore ------------------------------
(***************************************************************************)
(* How rtl/top/rv32_cached_core.sv ties the pipeline to its two caches:    *)
(* one fetch and one data access outstanding, and the FENCE.I sequence     *)
(* that cleans the data cache and then invalidates the instruction cache.  *)
(* A cache is what it holds: copies for fetches, dirty words for data      *)
(* (L1Cache.tla is the cache itself; its CleanIsComplete and               *)
(* ImplementsMemory justify the actions here).  Of the pipeline there is   *)
(* the front end, whether FENCE.I is in EX, and the one load or store in   *)
(* MEM or WB.                                                              *)
(***************************************************************************)
EXTENDS Naturals

CONSTANTS NAddrs, Values

Addrs == 0 .. NAddrs - 1
Nothing == "nothing"

ASSUME CoreAssumption ==
  NAddrs \in Nat \ {0} /\ Values # {} /\ Nothing \notin Values

VARIABLES
  fetch_pc,                 \* address to fetch
  if_stage, id_stage,       \* the instructions after it
  fence_i_valid, halted,    \* FENCE.I in EX; a fatal trap has stopped the core
  access,                   \* the access in MEM or WB
  i_busy, i_addr, i_data,   \* the outstanding fetch and its answer
  istate, icopy,            \* instruction cache
  dstate, dcache, dcopy,    \* data port, data cache and its dirty words
  fstate, fence_i_fault, clean_fault,
  mem,
  since                     \* history: addresses stored to since the last FENCE.I

pipe == <<fetch_pc, if_stage, id_stage, fence_i_valid, halted, access>>
fetch == <<i_busy, i_addr, i_data, istate, icopy>>
data == <<dstate, dcache, dcopy>>
fence == <<fstate, fence_i_fault, clean_fault>>
vars == <<pipe, fetch, data, fence, mem, since>>

NoAccess == [kind |-> "none"]
Accesses == [kind : {"load"}, addr : Addrs]
            \cup [kind : {"store"}, addr : Addrs, value : Values]
FollowingOn(a) == a + 1
Following(a) == IF a = NAddrs - 1 THEN 0 ELSE a + 1

(* An invalid stage, and one that holds what was fetched from fetch_pc.    *)
Bubble == [valid |-> FALSE, addr |-> 0, word |-> Nothing]
Holds(word) == [valid |-> TRUE, addr |-> fetch_pc, word |-> word]

Init ==
  /\ fetch_pc = 0 /\ if_stage = Bubble /\ id_stage = Bubble
  /\ fence_i_valid = FALSE /\ halted = FALSE
  /\ access = NoAccess
  /\ i_busy = FALSE /\ i_addr = 0 /\ i_data = Nothing
  /\ istate = "IDLE" /\ icopy = [a \in Addrs |-> Nothing]
  /\ dstate = "D_IDLE" /\ dcache = "IDLE" /\ dcopy = [a \in Addrs |-> Nothing]
  /\ fstate = "F_IDLE" /\ fence_i_fault = FALSE /\ clean_fault = FALSE
  /\ mem \in [Addrs -> Values]
  /\ since = {}

-----------------------------------------------------------------------------
(* Fetch: req_valid and req_ready of the instruction cache.                *)
FetchRequest ==
  /\ ~halted /\ ~i_busy /\ fstate = "F_IDLE" /\ ~fence_i_valid /\ istate = "IDLE"
  /\ i_busy' = TRUE /\ i_addr' = fetch_pc
  /\ istate' = "LOOKUP"
  /\ UNCHANGED <<i_data, icopy, pipe, data, fence, mem, since>>

(* A copy, or what memory holds, which is then kept in place of some other *)
(* line; or an error.                                                      *)
FetchAnswer ==
  /\ istate = "LOOKUP"
  /\ istate' = "RESPONSE"
  /\ \/ i_data' = icopy[i_addr] /\ i_data' # Nothing /\ UNCHANGED icopy
     \/ /\ icopy[i_addr] = Nothing
        /\ i_data' = mem[i_addr]
        /\ \E a \in Addrs :
             icopy' = [[icopy EXCEPT ![a] = Nothing] EXCEPT ![i_addr] = mem[i_addr]]
     \/ i_data' = Nothing /\ UNCHANGED icopy
  /\ UNCHANGED <<i_busy, i_addr, pipe, data, fence, mem, since>>

imem_readyAnyAddr == i_busy /\ istate = "RESPONSE" /\ fstate = "F_IDLE"
imem_ready == i_busy /\ istate = "RESPONSE" /\ i_addr = fetch_pc /\ fstate = "F_IDLE"

(* The pipeline moves: ID goes to EX, and IF takes the answer, or a bubble *)
(* when there is none or an interrupt is pending, or a fault when the PMP  *)
(* refuses fetch_pc, an answer being dropped.  A load or store enters MEM  *)
(* when MEM and WB have none, and so does FENCE.I enter EX.  What an error *)
(* delivered traps in EX; if it looks like FENCE.I, after the fence.  When *)
(* one leaves, IF and ID are empty, and fstate is idle before the next.    *)
Advance ==
  /\ ~halted /\ ~fence_i_valid
  /\ \/ /\ id_stage.valid => id_stage.word # Nothing
        /\ UNCHANGED <<access, fence_i_valid>>
     \/ /\ id_stage.word # Nothing
        /\ access = NoAccess /\ access' \in Accesses
        /\ UNCHANGED fence_i_valid
     \/ /\ id_stage.valid
        /\ access = NoAccess /\ fstate = "F_IDLE" /\ fence_i_valid' = TRUE
        /\ UNCHANGED access
  /\ id_stage' = if_stage
  /\ \/ /\ imem_ready
        /\ if_stage' = Holds(i_data) /\ fetch_pc' = Following(fetch_pc)
        /\ i_busy' = FALSE /\ istate' = "IDLE"
     \/ /\ if_stage' = Bubble
        /\ UNCHANGED <<fetch_pc, i_busy, istate>>
     \/ /\ if_stage' = Holds(Nothing) /\ fetch_pc' = Following(fetch_pc)
        /\ IF i_busy /\ istate = "RESPONSE"
           THEN i_busy' = FALSE /\ istate' = "IDLE" ELSE UNCHANGED <<i_busy, istate>>
  /\ UNCHANGED <<i_addr, i_data, icopy, halted, data, fence, mem, since>>

DropUnlessFence == i_addr # fetch_pc \/ halted
Drop == i_addr # fetch_pc \/ fence_i_valid \/ halted
FetchDrop ==
  /\ i_busy /\ istate = "RESPONSE" /\ Drop
  /\ i_busy' = FALSE /\ istate' = "IDLE"
  /\ UNCHANGED <<i_addr, i_data, icopy, pipe, data, fence, mem, since>>

-----------------------------------------------------------------------------
(* A branch, trap, return or interrupt: younger instructions are dropped.  *)
Redirect ==
  /\ ~fence_i_valid /\ ~halted
  /\ if_stage' = Bubble /\ id_stage' = Bubble /\ fetch_pc' \in Addrs
  /\ UNCHANGED <<fence_i_valid, halted, access, fetch, data, fence, mem, since>>

DataRequest ==
  /\ access # NoAccess
  /\ dstate = "D_IDLE" /\ fstate = "F_IDLE" /\ ~fence_i_valid /\ dcache = "IDLE"
  /\ dstate' = IF access.kind = "store" THEN "D_WRITE" ELSE "D_READ"
  /\ dcache' = "LOOKUP"
  /\ UNCHANGED <<dcopy, pipe, fetch, fence, mem, since>>

(* A dirty word is written back, by an eviction or by cleaning; one that   *)
(* fails may have reached memory all the same, and stays.                  *)
WriteBack ==
  /\ dcache \in {"LOOKUP", "SCAN"}
  /\ \E a \in Addrs : /\ dcopy[a] # Nothing
                      /\ mem' = [mem EXCEPT ![a] = dcopy[a]]
                      /\ dcopy' \in {dcopy, [dcopy EXCEPT ![a] = Nothing]}
  /\ UNCHANGED <<dstate, dcache, pipe, fetch, fence, since>>

DataAnswer ==
  /\ dcache = "LOOKUP"
  /\ dcache' = "RESPONSE"
  /\ \/ /\ access.kind = "store"
        /\ dcopy' = [dcopy EXCEPT ![access.addr] = access.value]
        /\ since' = since \cup {access.addr}
     \/ UNCHANGED <<dcopy, since>>
  /\ UNCHANGED <<dstate, pipe, fetch, fence, mem>>

(* The core takes the answer, which may be an error and trap.              *)
DataTaken ==
  /\ dstate # "D_IDLE" /\ dcache = "RESPONSE"
  /\ dstate' = "D_IDLE" /\ dcache' = "IDLE"
  /\ access' = NoAccess
  /\ \/ UNCHANGED <<fetch_pc, if_stage, id_stage>>
     \/ if_stage' = Bubble /\ id_stage' = Bubble /\ fetch_pc' \in Addrs
  /\ UNCHANGED <<fence_i_valid, halted, dcopy, fetch, fence, mem, since>>

-----------------------------------------------------------------------------
FirstInvalidate == "F_INVALIDATE"
First == "F_CLEAN"
FenceStart == /\ fstate = "F_IDLE" /\ fence_i_valid
              /\ fstate' = First /\ fence_i_fault' = FALSE
              /\ UNCHANGED <<clean_fault, pipe, fetch, data, mem, since>>

CleanStart == /\ dcache = "IDLE" /\ fstate = "F_CLEAN"
              /\ dcache' = "SCAN" /\ clean_fault' = FALSE
              /\ UNCHANGED <<dstate, dcopy, pipe, fetch, fstate, fence_i_fault, mem, since>>

(* The scan ends with nothing dirty, or at a write-back that failed.       *)
CleanEnd == /\ dcache = "SCAN"
            /\ clean_fault' \in BOOLEAN
            /\ ~clean_fault' => \A a \in Addrs : dcopy[a] = Nothing
            /\ dcache' = "DONE"
            /\ UNCHANGED <<dstate, dcopy, pipe, fetch, fstate, fence_i_fault, mem, since>>

CleanSeen == /\ fstate = "F_CLEAN" /\ dcache = "DONE"
             /\ fstate' = IF clean_fault THEN "F_DONE" ELSE "F_INVALIDATE"
             /\ fence_i_fault' = clean_fault
             /\ UNCHANGED <<clean_fault, pipe, fetch, data, mem, since>>

CleanRelease == /\ dcache = "DONE" /\ fstate # "F_CLEAN"
                /\ dcache' = "IDLE"
                /\ UNCHANGED <<dstate, dcopy, pipe, fetch, fence, mem, since>>

InvalidateStart == /\ istate = "IDLE" /\ fstate = "F_INVALIDATE"
                   /\ istate' = "SCAN"
                   /\ UNCHANGED <<i_busy, i_addr, i_data, icopy, pipe, data, fence, mem, since>>

InvalidateEnd == /\ istate = "SCAN"
                 /\ istate' = "DONE"
                 /\ UNCHANGED <<i_busy, i_addr, i_data, icopy, pipe, data, fence, mem, since>>

(* Valid bits are cleared at the edge that sees maintenance done.          *)
InvalidateSeen == /\ fstate = "F_INVALIDATE" /\ istate = "DONE"
                  /\ fstate' = "F_DONE"
                  /\ icopy' = [a \in Addrs |-> Nothing]
                  /\ UNCHANGED <<i_busy, i_addr, i_data, istate, fence_i_fault, clean_fault,
                                 pipe, data, mem, since>>

InvalidateRelease ==
  /\ istate = "DONE" /\ fstate # "F_INVALIDATE"
  /\ istate' = "IDLE"
  /\ UNCHANGED <<i_busy, i_addr, i_data, icopy, pipe, data, fence, mem, since>>

(* FENCE.I leaves EX and refetches what follows it.  After a fault the     *)
(* core stops for good, unless its own fetch had failed and traps instead. *)
RefetchOnlyIf == if_stage' = Bubble /\ UNCHANGED id_stage
Refetch == if_stage' = Bubble /\ id_stage' = Bubble
FenceLeave ==
  /\ fence_i_valid /\ fstate = "F_DONE"
  /\ fence_i_valid' = FALSE
  /\ Refetch /\ fetch_pc' \in Addrs
  /\ halted' \in (IF fence_i_fault THEN BOOLEAN ELSE {FALSE})
  /\ since' = IF fence_i_fault THEN since ELSE {}
  /\ UNCHANGED <<access, fetch, data, fence, mem>>

(* By now, a clock later, both caches have seen their request withdrawn.   *)
FenceIdle == /\ fstate = "F_DONE" /\ ~fence_i_valid
             /\ dcache # "DONE" /\ istate # "DONE"
             /\ fstate' = "F_IDLE"
             /\ UNCHANGED <<fence_i_fault, clean_fault, pipe, fetch, data, mem, since>>

(* rst_n: what was dirty is lost, and memory holds what is current.        *)
Reset ==
  /\ fetch_pc' = 0 /\ if_stage' = Bubble /\ id_stage' = Bubble
  /\ fence_i_valid' = FALSE /\ halted' = FALSE
  /\ access' = NoAccess
  /\ i_busy' = FALSE /\ i_addr' = 0 /\ i_data' = Nothing
  /\ istate' = "IDLE" /\ icopy' = [a \in Addrs |-> Nothing]
  /\ dstate' = "D_IDLE" /\ dcache' = "IDLE" /\ dcopy' = [a \in Addrs |-> Nothing]
  /\ fstate' = "F_IDLE" /\ fence_i_fault' = FALSE /\ clean_fault' = FALSE
  /\ since' = {}
  /\ UNCHANGED mem

-----------------------------------------------------------------------------
FetchStep == FetchRequest \/ FetchAnswer \/ FetchDrop
DataStep == DataRequest \/ DataAnswer \/ DataTaken
Maintain == \/ CleanStart \/ CleanEnd \/ CleanRelease
            \/ InvalidateStart \/ InvalidateEnd \/ InvalidateRelease
FenceStep == FenceStart \/ CleanSeen \/ InvalidateSeen \/ FenceLeave \/ FenceIdle
Next == FetchStep \/ Advance \/ Redirect
        \/ DataStep \/ WriteBack \/ Maintain \/ FenceStep \/ Reset

Spec == Init /\ [][Next]_vars

(* The caches and the two state machines advance at every clock, and       *)
(* memory answers what the caches ask.                                     *)
Fairness == /\ WF_vars(FetchAnswer) /\ WF_vars(FetchDrop)
            /\ WF_vars(DataStep) /\ WF_vars(Maintain) /\ WF_vars(FenceStep)

FairSpec == Spec /\ Fairness

-----------------------------------------------------------------------------
Words == Values \cup {Nothing}
Stages == [valid : BOOLEAN, addr : Addrs, word : Words]

TypeOK ==
  /\ fetch_pc \in Addrs /\ if_stage \in Stages /\ id_stage \in Stages
  /\ fence_i_valid \in BOOLEAN /\ halted \in BOOLEAN
  /\ access \in {NoAccess} \cup Accesses
  /\ i_busy \in BOOLEAN /\ i_addr \in Addrs /\ i_data \in Words
  /\ istate \in {"IDLE", "LOOKUP", "RESPONSE", "SCAN", "DONE"}
  /\ icopy \in [Addrs -> Words]
  /\ dstate \in {"D_IDLE", "D_READ", "D_WRITE"}
  /\ dcache \in {"IDLE", "LOOKUP", "RESPONSE", "SCAN", "DONE"}
  /\ dcopy \in [Addrs -> Words]
  /\ fstate \in {"F_IDLE", "F_CLEAN", "F_INVALIDATE", "F_DONE"}
  /\ fence_i_fault \in BOOLEAN /\ clean_fault \in BOOLEAN
  /\ mem \in [Addrs -> Values] /\ since \subseteq Addrs

(* What a load would return.                                               *)
Current(a) == IF dcopy[a] # Nothing THEN dcopy[a] ELSE mem[a]

(* An instruction waiting in the front end is the current content of its   *)
(* own address, unless that was stored to since the last FENCE.I: neither  *)
(* the copies of the instruction cache, nor an answer that was outstanding *)
(* during a redirect or a fence, nor what IF and ID held when it entered   *)
(* EX, gets past a FENCE.I (cached_core lines 71-75 and 108-117).          *)
Fresh(stage) == stage.word # Nothing /\ stage.addr \notin since =>
                  stage.word = Current(stage.addr)
FetchesFresh == Fresh(if_stage) /\ Fresh(id_stage)

(* A FENCE.I always leaves EX: cleaning waits for no fetch and no access   *)
(* that in turn waits for the fence (cached_core lines 75, 91 and 108-117).*)
FenceEnds == fence_i_valid ~> ~fence_i_valid
=============================================================================
