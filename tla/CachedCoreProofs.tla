--------------------------- MODULE CachedCoreProofs ---------------------------
(***************************************************************************)
(* Proofs about CachedCore for any number of addresses and any values:     *)
(* that its types are kept, and that no instruction fetched before a       *)
(* FENCE.I, and no copy or answer that holds one, survives it.             *)
(***************************************************************************)
EXTENDS CachedCore, TLAPS

Clean == \A a \in Addrs : dcopy[a] = Nothing

(* Who is busy with what: an access and FENCE.I exclude each other, the    *)
(* data cache serves one or the other, and a fetch has the instruction     *)
(* cache to itself.                                                        *)
Phases ==
  /\ fence_i_valid => access = NoAccess
  /\ dcache \in {"LOOKUP", "RESPONSE"} => access # NoAccess
  /\ dcache = "SCAN" => fstate = "F_CLEAN"
  /\ dcache = "DONE" => fstate # "F_IDLE"
  /\ fstate \in {"F_CLEAN", "F_INVALIDATE"} => fence_i_valid
  /\ i_busy <=> istate \in {"LOOKUP", "RESPONSE"}
  /\ istate = "SCAN" => fstate = "F_INVALIDATE"

(* How far FENCE.I has come.                                               *)
Progress ==
  /\ dcache = "DONE" /\ fstate = "F_CLEAN" /\ ~clean_fault => Clean
  /\ fstate = "F_INVALIDATE" => Clean /\ ~fence_i_fault
  /\ fstate = "F_DONE" /\ fence_i_valid /\ ~fence_i_fault =>
       Clean /\ ~i_busy /\ \A a \in Addrs : icopy[a] = Nothing

(* What has not been stored to since the last FENCE.I is the same          *)
(* everywhere: memory, the copies of both caches, the answer and the front *)
(* end.                                                                    *)
Agreed ==
  \A a \in Addrs \ since :
    /\ dcopy[a] \in {Nothing, mem[a]}
    /\ icopy[a] \in {Nothing, mem[a]}
    /\ i_busy /\ istate = "RESPONSE" /\ i_addr = a => i_data \in {Nothing, mem[a]}

Same(stage) == stage.addr \notin since => stage.word \in {Nothing, mem[stage.addr]}
FrontAgreed == Same(if_stage) /\ Same(id_stage)

Inv == TypeOK /\ Phases /\ Progress /\ Agreed /\ FrontAgreed

-----------------------------------------------------------------------------
LEMMA AddrFacts ==
  /\ 0 \in Addrs
  /\ \A a \in Addrs : Following(a) \in Addrs
BY CoreAssumption DEF Addrs, Following

LEMMA StageFacts ==
  /\ Bubble \in Stages /\ Bubble.word = Nothing
  /\ \A w \in Words : fetch_pc \in Addrs =>
       Holds(w) \in Stages /\ Holds(w).word = w /\ Holds(w).addr = fetch_pc
  /\ Nothing \in Words
BY AddrFacts DEF Stages, Bubble, Holds, Words

LEMMA InitInv == Init => Inv
<1> SUFFICES ASSUME Init PROVE Inv
  OBVIOUS
<1> USE AddrFacts, CoreAssumption DEF Init
<1>1. TypeOK
  BY DEF TypeOK, Words, Stages, Bubble
<1>2. Phases
  BY DEF Phases
<1>3. Progress
  BY DEF Progress
<1>4. Agreed
  BY DEF Agreed
<1>5. FrontAgreed
  BY DEF FrontAgreed, Same, Bubble
<1> QED
  BY <1>1, <1>2, <1>3, <1>4, <1>5 DEF Inv

LEMMA FetchRequestInv == ASSUME Inv, FetchRequest PROVE Inv'
<1> USE AddrFacts, CoreAssumption DEF Inv, FetchRequest, pipe, data, fence
<1>1. TypeOK'
  BY DEF TypeOK
<1>2. Phases'
  BY DEF Phases, TypeOK, NoAccess, Accesses
<1>3. Progress'
  BY DEF Progress, Phases, Clean
<1>4. Agreed'
  BY DEF Agreed, Phases, Progress, Clean, TypeOK, Words
<1>5. FrontAgreed'
  BY DEF FrontAgreed, Agreed, Phases, TypeOK, Words, Same
<1> QED
  BY <1>1, <1>2, <1>3, <1>4, <1>5

LEMMA FetchAnswerInv == ASSUME Inv, FetchAnswer PROVE Inv'
<1> USE AddrFacts, CoreAssumption DEF Inv, FetchAnswer, pipe, data, fence
<1>1. TypeOK'
  BY DEF TypeOK, Words
<1>2. Phases'
  BY DEF Phases, TypeOK, NoAccess, Accesses
<1>3. Progress'
  BY DEF Progress, Phases, Clean
<1>4. Agreed'
  BY DEF Agreed, Phases, Progress, Clean, TypeOK, Words
<1>5. FrontAgreed'
  BY DEF FrontAgreed, Agreed, Phases, TypeOK, Words, Same
<1> QED
  BY <1>1, <1>2, <1>3, <1>4, <1>5

LEMMA FetchDropInv == ASSUME Inv, FetchDrop PROVE Inv'
<1> USE AddrFacts, CoreAssumption DEF Inv, FetchDrop, pipe, data, fence, Drop
<1>1. TypeOK'
  BY DEF TypeOK
<1>2. Phases'
  BY DEF Phases, TypeOK, NoAccess, Accesses
<1>3. Progress'
  BY DEF Progress, Phases, Clean
<1>4. Agreed'
  BY DEF Agreed, Phases, Progress, Clean, TypeOK, Words
<1>5. FrontAgreed'
  BY DEF FrontAgreed, Agreed, Phases, TypeOK, Words, Same
<1> QED
  BY <1>1, <1>2, <1>3, <1>4, <1>5

LEMMA AdvanceInv == ASSUME Inv, Advance PROVE Inv'
<1> USE AddrFacts, CoreAssumption DEF Inv, Advance, data, fence, imem_ready
<1>1. TypeOK'
  <2>1. if_stage' \in Stages /\ fetch_pc' \in Addrs /\ id_stage' \in Stages
    BY StageFacts DEF TypeOK
  <2>2. access' \in {NoAccess} \cup Accesses /\ fence_i_valid' \in BOOLEAN
    BY DEF TypeOK
  <2>3. i_busy' \in BOOLEAN
        /\ istate' \in {"IDLE", "LOOKUP", "RESPONSE", "SCAN", "DONE"}
    BY DEF TypeOK
  <2> QED
    BY <2>1, <2>2, <2>3 DEF TypeOK
<1>2. Phases'
  BY DEF Phases, TypeOK, NoAccess, Accesses
<1>3. Progress'
  BY DEF Progress, Phases, Clean
<1>4. Agreed'
  BY DEF Agreed, Phases, Progress, Clean, TypeOK, Words
<1>5. FrontAgreed'
  BY StageFacts DEF FrontAgreed, Agreed, Phases, TypeOK, Words, Same
<1> QED
  BY <1>1, <1>2, <1>3, <1>4, <1>5

LEMMA RedirectInv == ASSUME Inv, Redirect PROVE Inv'
<1> USE AddrFacts, CoreAssumption DEF Inv, Redirect, fetch, data, fence
<1>1. TypeOK'
  BY StageFacts DEF TypeOK
<1>2. Phases'
  BY DEF Phases, TypeOK, NoAccess, Accesses
<1>3. Progress'
  BY DEF Progress, Phases, Clean
<1>4. Agreed'
  BY DEF Agreed, Phases, Progress, Clean, TypeOK, Words
<1>5. FrontAgreed'
  BY StageFacts DEF FrontAgreed, Agreed, Phases, TypeOK, Words, Same
<1> QED
  BY <1>1, <1>2, <1>3, <1>4, <1>5

LEMMA DataRequestInv == ASSUME Inv, DataRequest PROVE Inv'
<1> USE AddrFacts, CoreAssumption DEF Inv, DataRequest, pipe, fetch, fence
<1>1. TypeOK'
  BY DEF TypeOK
<1>2. Phases'
  BY DEF Phases, TypeOK, NoAccess, Accesses
<1>3. Progress'
  BY DEF Progress, Phases, Clean
<1>4. Agreed'
  BY DEF Agreed, Phases, Progress, Clean, TypeOK, Words
<1>5. FrontAgreed'
  BY DEF FrontAgreed, Agreed, Phases, TypeOK, Words, Same
<1> QED
  BY <1>1, <1>2, <1>3, <1>4, <1>5

LEMMA WriteBackInv == ASSUME Inv, WriteBack PROVE Inv'
<1> USE AddrFacts, CoreAssumption DEF Inv, WriteBack, pipe, fetch, fence
<1>1. TypeOK'
  <2>1. PICK a \in Addrs : /\ dcopy[a] # Nothing
                          /\ mem' = [mem EXCEPT ![a] = dcopy[a]]
                          /\ dcopy' \in {dcopy, [dcopy EXCEPT ![a] = Nothing]}
    OBVIOUS
  <2>2. dcopy[a] \in Values
    BY <2>1 DEF TypeOK, Words
  <2>3. dcopy' \in [Addrs -> Words]
    BY <2>1, StageFacts DEF TypeOK
  <2>4. mem' \in [Addrs -> Values]
    BY <2>1, <2>2 DEF TypeOK
  <2> QED
    BY <2>3, <2>4 DEF TypeOK
<1>2. Phases'
  BY DEF Phases, TypeOK, NoAccess, Accesses
<1>3. Progress'
  BY DEF Progress, Phases, Clean
<1>4. Agreed'
  BY DEF Agreed, Phases, Progress, Clean, TypeOK, Words
<1>5. FrontAgreed'
  BY DEF FrontAgreed, Agreed, Phases, TypeOK, Words, Same
<1> QED
  BY <1>1, <1>2, <1>3, <1>4, <1>5

LEMMA DataAnswerInv == ASSUME Inv, DataAnswer PROVE Inv'
<1> USE AddrFacts, CoreAssumption DEF Inv, DataAnswer, pipe, fetch, fence
<1>1. TypeOK'
  <2>1. CASE access.kind = "store" /\ dcopy' = [dcopy EXCEPT ![access.addr] = access.value]
             /\ since' = since \cup {access.addr}
    <3>1. access.addr \in Addrs /\ access.value \in Values
      BY <2>1 DEF TypeOK, Phases, Accesses
    <3>2. dcopy' \in [Addrs -> Words] /\ since' \subseteq Addrs
      BY <2>1, <3>1 DEF TypeOK, Words
    <3> QED
      BY <3>2 DEF TypeOK
  <2>2. CASE UNCHANGED <<dcopy, since>>
    BY <2>2 DEF TypeOK
  <2> QED
    BY <2>1, <2>2
<1>2. Phases'
  BY DEF Phases, TypeOK, NoAccess, Accesses
<1>3. Progress'
  BY DEF Progress, Phases, Clean
<1>4. Agreed'
  BY DEF Agreed, Phases, Progress, Clean, TypeOK, Words
<1>5. FrontAgreed'
  BY DEF FrontAgreed, Agreed, Phases, TypeOK, Words, Same
<1> QED
  BY <1>1, <1>2, <1>3, <1>4, <1>5

LEMMA DataTakenInv == ASSUME Inv, DataTaken PROVE Inv'
<1> USE AddrFacts, CoreAssumption DEF Inv, DataTaken, fetch, fence
<1>1. TypeOK'
  BY StageFacts DEF TypeOK
<1>2. Phases'
  BY DEF Phases, TypeOK, NoAccess, Accesses
<1>3. Progress'
  BY DEF Progress, Phases, Clean
<1>4. Agreed'
  BY DEF Agreed, Phases, Progress, Clean, TypeOK, Words
<1>5. FrontAgreed'
  BY StageFacts DEF FrontAgreed, Agreed, Phases, TypeOK, Words, Same
<1> QED
  BY <1>1, <1>2, <1>3, <1>4, <1>5

LEMMA FenceStartInv == ASSUME Inv, FenceStart PROVE Inv'
<1> USE AddrFacts, CoreAssumption DEF Inv, FenceStart, pipe, fetch, data, First
<1>1. TypeOK'
  BY DEF TypeOK
<1>2. Phases'
  BY DEF Phases, TypeOK, NoAccess, Accesses
<1>3. Progress'
  BY DEF Progress, Phases, Clean
<1>4. Agreed'
  BY DEF Agreed, Phases, Progress, Clean, TypeOK, Words
<1>5. FrontAgreed'
  BY DEF FrontAgreed, Agreed, Phases, TypeOK, Words, Same
<1> QED
  BY <1>1, <1>2, <1>3, <1>4, <1>5

LEMMA CleanStartInv == ASSUME Inv, CleanStart PROVE Inv'
<1> USE AddrFacts, CoreAssumption DEF Inv, CleanStart, pipe, fetch
<1>1. TypeOK'
  BY DEF TypeOK
<1>2. Phases'
  BY DEF Phases, TypeOK, NoAccess, Accesses
<1>3. Progress'
  BY DEF Progress, Phases, Clean
<1>4. Agreed'
  BY DEF Agreed, Phases, Progress, Clean, TypeOK, Words
<1>5. FrontAgreed'
  BY DEF FrontAgreed, Agreed, Phases, TypeOK, Words, Same
<1> QED
  BY <1>1, <1>2, <1>3, <1>4, <1>5

LEMMA CleanEndInv == ASSUME Inv, CleanEnd PROVE Inv'
<1> USE AddrFacts, CoreAssumption DEF Inv, CleanEnd, pipe, fetch
<1>1. TypeOK'
  BY DEF TypeOK
<1>2. Phases'
  BY DEF Phases, TypeOK, NoAccess, Accesses
<1>3. Progress'
  BY DEF Progress, Phases, Clean
<1>4. Agreed'
  BY DEF Agreed, Phases, Progress, Clean, TypeOK, Words
<1>5. FrontAgreed'
  BY DEF FrontAgreed, Agreed, Phases, TypeOK, Words, Same
<1> QED
  BY <1>1, <1>2, <1>3, <1>4, <1>5

LEMMA CleanSeenInv == ASSUME Inv, CleanSeen PROVE Inv'
<1> USE AddrFacts, CoreAssumption DEF Inv, CleanSeen, pipe, fetch, data
<1>1. TypeOK'
  BY DEF TypeOK
<1>2. Phases'
  BY DEF Phases, TypeOK, NoAccess, Accesses
<1>3. Progress'
  BY DEF Progress, Phases, Clean
<1>4. Agreed'
  BY DEF Agreed, Phases, Progress, Clean, TypeOK, Words
<1>5. FrontAgreed'
  BY DEF FrontAgreed, Agreed, Phases, TypeOK, Words, Same
<1> QED
  BY <1>1, <1>2, <1>3, <1>4, <1>5

LEMMA CleanReleaseInv == ASSUME Inv, CleanRelease PROVE Inv'
<1> USE AddrFacts, CoreAssumption DEF Inv, CleanRelease, pipe, fetch, fence
<1>1. TypeOK'
  BY DEF TypeOK
<1>2. Phases'
  BY DEF Phases, TypeOK, NoAccess, Accesses
<1>3. Progress'
  BY DEF Progress, Phases, Clean
<1>4. Agreed'
  BY DEF Agreed, Phases, Progress, Clean, TypeOK, Words
<1>5. FrontAgreed'
  BY DEF FrontAgreed, Agreed, Phases, TypeOK, Words, Same
<1> QED
  BY <1>1, <1>2, <1>3, <1>4, <1>5

LEMMA InvalidateStartInv == ASSUME Inv, InvalidateStart PROVE Inv'
<1> USE AddrFacts, CoreAssumption DEF Inv, InvalidateStart, pipe, data, fence
<1>1. TypeOK'
  BY DEF TypeOK
<1>2. Phases'
  BY DEF Phases, TypeOK, NoAccess, Accesses
<1>3. Progress'
  BY DEF Progress, Phases, Clean
<1>4. Agreed'
  BY DEF Agreed, Phases, Progress, Clean, TypeOK, Words
<1>5. FrontAgreed'
  BY DEF FrontAgreed, Agreed, Phases, TypeOK, Words, Same
<1> QED
  BY <1>1, <1>2, <1>3, <1>4, <1>5

LEMMA InvalidateEndInv == ASSUME Inv, InvalidateEnd PROVE Inv'
<1> USE AddrFacts, CoreAssumption DEF Inv, InvalidateEnd, pipe, data, fence
<1>1. TypeOK'
  BY DEF TypeOK
<1>2. Phases'
  BY DEF Phases, TypeOK, NoAccess, Accesses
<1>3. Progress'
  BY DEF Progress, Phases, Clean
<1>4. Agreed'
  BY DEF Agreed, Phases, Progress, Clean, TypeOK, Words
<1>5. FrontAgreed'
  BY DEF FrontAgreed, Agreed, Phases, TypeOK, Words, Same
<1> QED
  BY <1>1, <1>2, <1>3, <1>4, <1>5

LEMMA InvalidateSeenInv == ASSUME Inv, InvalidateSeen PROVE Inv'
<1> USE AddrFacts, CoreAssumption DEF Inv, InvalidateSeen, pipe, data
<1>1. TypeOK'
  BY StageFacts DEF TypeOK
<1>2. Phases'
  BY DEF Phases, TypeOK, NoAccess, Accesses
<1>3. Progress'
  BY DEF Progress, Phases, Clean
<1>4. Agreed'
  BY DEF Agreed, Phases, Progress, Clean, TypeOK, Words
<1>5. FrontAgreed'
  BY StageFacts DEF FrontAgreed, Agreed, Phases, TypeOK, Words, Same
<1> QED
  BY <1>1, <1>2, <1>3, <1>4, <1>5

LEMMA InvalidateReleaseInv == ASSUME Inv, InvalidateRelease PROVE Inv'
<1> USE AddrFacts, CoreAssumption DEF Inv, InvalidateRelease, pipe, data, fence
<1>1. TypeOK'
  BY DEF TypeOK
<1>2. Phases'
  BY DEF Phases, TypeOK, NoAccess, Accesses
<1>3. Progress'
  BY DEF Progress, Phases, Clean
<1>4. Agreed'
  BY DEF Agreed, Phases, Progress, Clean, TypeOK, Words
<1>5. FrontAgreed'
  BY DEF FrontAgreed, Agreed, Phases, TypeOK, Words, Same
<1> QED
  BY <1>1, <1>2, <1>3, <1>4, <1>5

LEMMA FenceLeaveInv == ASSUME Inv, FenceLeave PROVE Inv'
<1> USE AddrFacts, CoreAssumption DEF Inv, FenceLeave, fetch, data, fence, Refetch
<1>1. TypeOK'
  BY StageFacts DEF TypeOK
<1>2. Phases'
  BY DEF Phases, TypeOK, NoAccess, Accesses
<1>3. Progress'
  BY DEF Progress, Phases, Clean
<1>4. Agreed'
  BY DEF Agreed, Phases, Progress, Clean, TypeOK, Words
<1>5. FrontAgreed'
  BY StageFacts DEF FrontAgreed, Agreed, Phases, TypeOK, Words, Same
<1> QED
  BY <1>1, <1>2, <1>3, <1>4, <1>5

LEMMA FenceIdleInv == ASSUME Inv, FenceIdle PROVE Inv'
<1> USE AddrFacts, CoreAssumption DEF Inv, FenceIdle, pipe, fetch, data
<1>1. TypeOK'
  BY DEF TypeOK
<1>2. Phases'
  BY DEF Phases, TypeOK, NoAccess, Accesses
<1>3. Progress'
  BY DEF Progress, Phases, Clean
<1>4. Agreed'
  BY DEF Agreed, Phases, Progress, Clean, TypeOK, Words
<1>5. FrontAgreed'
  BY DEF FrontAgreed, Agreed, Phases, TypeOK, Words, Same
<1> QED
  BY <1>1, <1>2, <1>3, <1>4, <1>5

LEMMA ResetInv == ASSUME Inv, Reset PROVE Inv'
<1> USE AddrFacts, CoreAssumption DEF Inv, Reset
<1>1. TypeOK'
  BY StageFacts DEF TypeOK, Words
<1>2. Phases'
  BY DEF Phases, TypeOK, NoAccess, Accesses
<1>3. Progress'
  BY DEF Progress, Phases, Clean
<1>4. Agreed'
  BY DEF Agreed, Phases, Progress, Clean, TypeOK, Words
<1>5. FrontAgreed'
  BY StageFacts DEF FrontAgreed, Agreed, Phases, TypeOK, Words, Same
<1> QED
  BY <1>1, <1>2, <1>3, <1>4, <1>5

-----------------------------------------------------------------------------
LEMMA NextInv == ASSUME Inv, [Next]_vars PROVE Inv'
<1>1. CASE FetchRequest
  BY <1>1, FetchRequestInv
<1>2. CASE FetchAnswer
  BY <1>2, FetchAnswerInv
<1>3. CASE FetchDrop
  BY <1>3, FetchDropInv
<1>4. CASE Advance
  BY <1>4, AdvanceInv
<1>5. CASE Redirect
  BY <1>5, RedirectInv
<1>6. CASE DataRequest
  BY <1>6, DataRequestInv
<1>7. CASE WriteBack
  BY <1>7, WriteBackInv
<1>8. CASE DataAnswer
  BY <1>8, DataAnswerInv
<1>9. CASE DataTaken
  BY <1>9, DataTakenInv
<1>10. CASE FenceStart
  BY <1>10, FenceStartInv
<1>11. CASE CleanStart
  BY <1>11, CleanStartInv
<1>12. CASE CleanEnd
  BY <1>12, CleanEndInv
<1>13. CASE CleanSeen
  BY <1>13, CleanSeenInv
<1>14. CASE CleanRelease
  BY <1>14, CleanReleaseInv
<1>15. CASE InvalidateStart
  BY <1>15, InvalidateStartInv
<1>16. CASE InvalidateEnd
  BY <1>16, InvalidateEndInv
<1>17. CASE InvalidateSeen
  BY <1>17, InvalidateSeenInv
<1>18. CASE InvalidateRelease
  BY <1>18, InvalidateReleaseInv
<1>19. CASE FenceLeave
  BY <1>19, FenceLeaveInv
<1>20. CASE FenceIdle
  BY <1>20, FenceIdleInv
<1>21. CASE Reset
  BY <1>21, ResetInv
<1>22. CASE UNCHANGED vars
  <2> USE <1>22 DEF Inv, vars, pipe, fetch, data, fence
  <2>1. TypeOK' /\ Phases'
    BY DEF TypeOK, Phases
  <2>2. Progress' /\ Agreed' /\ FrontAgreed'
    BY DEF Progress, Clean, Agreed, FrontAgreed, Same
  <2> QED
    BY <2>1, <2>2
<1> QED
  BY <1>1, <1>2, <1>3, <1>4, <1>5, <1>6, <1>7, <1>8, <1>9, <1>10, <1>11, 
     <1>12, <1>13, <1>14, <1>15, <1>16, <1>17, <1>18, <1>19, <1>20, <1>21, 
     <1>22
  DEF Next, FetchStep, DataStep, Maintain, FenceStep

(* The invariant above holds in every state.                               *)
THEOREM Inductive == Spec => []Inv
<1>1. Inv /\ [Next]_vars => Inv'
  BY NextInv
<1> QED
  BY InitInv, <1>1, PTL DEF Spec

(* Every register keeps its range, and an access its address.              *)
THEOREM TypesKept == Spec => []TypeOK
<1>1. Inv => TypeOK
  BY DEF Inv
<1> QED
  BY Inductive, <1>1, PTL

(* No stale instruction gets past a FENCE.I, whatever redirects, faults,   *)
(* evictions and write-backs happen around it.                             *)
THEOREM FenceFresh == Spec => []FetchesFresh
<1>1. ASSUME Inv PROVE FetchesFresh
  <2>1. \A a \in Addrs \ since : Current(a) = mem[a]
    BY <1>1 DEF Inv, Agreed, Current
  <2>2. if_stage.addr \in Addrs /\ id_stage.addr \in Addrs
    BY <1>1 DEF Inv, TypeOK, Stages
  <2> QED
    BY <1>1, <2>1, <2>2 DEF Inv, FrontAgreed, Same, FetchesFresh, Fresh
<1> QED
  BY Inductive, <1>1, PTL
=============================================================================
