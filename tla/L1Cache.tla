------------------------------- MODULE L1Cache -------------------------------
(***************************************************************************)
(* The blocking two-way write-back cache of rtl/cache/l1_cache.sv, one     *)
(* action per state of its machine, one step per clock edge.  The RAM      *)
(* ports are registered: what a state asks of the RAM happens at the next  *)
(* edge, whatever the machine does then, so a cycle spent waiting is a     *)
(* step too (Stall).  A line is its two bus beats, one tracked word each,  *)
(* the two error responses are one, and the counters are left out.  Memory *)
(* answers any request with or without an error, and no other master       *)
(* writes a cacheable line.                                                *)
(***************************************************************************)
EXTENDS Naturals

CONSTANTS Tags, NSets, Values, READ_ONLY, Requests

Sets == 0 .. NSets - 1
Ways == 0 .. 1
Beats == 0 .. 1
Lines == [Beats -> Values]
AllRequests == [kind : {"refused", "uncached", "cached"}, tag : Tags, set : Sets,
                beat : Beats, write : BOOLEAN, value : Values]

ASSUME CacheAssumption ==
  /\ Tags # {} /\ Values # {} /\ NSets \in Nat \ {0}
  /\ READ_ONLY \in BOOLEAN /\ Requests \subseteq AllRequests

Some(set) == CHOOSE x \in set : TRUE

VARIABLES
  state,
  valid, dirty, lru,     \* metadata, reset
  data, tags,            \* the RAMs, not reset
  read_q, write_q,       \* registered RAM ports
  q, qt,                 \* registered RAM outputs
  req,                   \* addr, size, strb, wdata and write_request
  victim, beat, refill_error, refill_lo,
  wb,                    \* writeback_line and writeback_addr
  cleaning, invalidating, maintenance_fault, scan_index,
  result, response,
  mem                    \* the memory behind the cache

meta == <<valid, dirty, lru>>
ram == <<data, tags, read_q, write_q, q, qt>>
refill == <<victim, beat, refill_error, refill_lo>>
maint == <<cleaning, invalidating, maintenance_fault, scan_index>>
answer == <<result, response>>
vars == <<state, meta, ram, req, refill, wb, maint, answer, mem>>

NoSet == NSets
NoWrite == [set |-> NoSet]
Blank == [b \in Beats |-> Some(Values)]
NoRequest == [kind |-> "refused", tag |-> Some(Tags), set |-> 0, beat |-> 0,
              write |-> FALSE, value |-> Some(Values)]

Init ==
  /\ state = "IDLE"
  /\ valid = [w \in Ways |-> [s \in Sets |-> FALSE]]
  /\ dirty = valid
  /\ lru = [s \in Sets |-> 0]
  /\ data = [w \in Ways |-> [s \in Sets |-> Blank]]
  /\ tags = [w \in Ways |-> [s \in Sets |-> Some(Tags)]]
  /\ read_q = NoSet /\ write_q = NoWrite
  /\ q = [w \in Ways |-> Blank] /\ qt = [w \in Ways |-> Some(Tags)]
  /\ req = NoRequest
  /\ victim = 0 /\ beat = 0 /\ refill_error = FALSE /\ refill_lo = Some(Values)
  /\ wb = [line |-> Blank, tag |-> Some(Tags), set |-> 0]
  /\ cleaning = FALSE /\ invalidating = FALSE /\ maintenance_fault = FALSE
  /\ scan_index = 0
  /\ result = Some(Values) /\ response = "OKAY"
  /\ mem = [t \in Tags |-> [s \in Sets |-> Blank]]

-----------------------------------------------------------------------------
Hit(w) == valid[w][req.set] /\ qt[w] = req.tag
HitWay == IF Hit(1) THEN 1 ELSE 0
ReplacedAnyWay == lru[req.set]
Replaced == IF ~valid[0][req.set] THEN 0
            ELSE IF ~valid[1][req.set] THEN 1 ELSE lru[req.set]
VictimDirty == /\ \A w \in Ways : valid[w][req.set]
               /\ dirty[lru[req.set]][req.set]
ScanWay == scan_index \div NSets
ScanSet == scan_index % NSets
LastScanLate == 2 * NSets
LastScan == 2 * NSets - 1

(* The RAM side of a clock edge: the ports registered at the last edge act *)
(* and write, with what the state asks to read, is registered.             *)
Written(line, mask, new) == [b \in Beats |-> IF b \in mask THEN new[b] ELSE line[b]]
RamPorts ==
  /\ IF read_q = NoSet THEN UNCHANGED <<q, qt>>
     ELSE /\ q' = [w \in Ways |-> data[w][read_q]]
          /\ qt' = [w \in Ways |-> tags[w][read_q]]
  /\ IF write_q = NoWrite THEN UNCHANGED <<data, tags>>
     ELSE /\ data' = [data EXCEPT ![write_q.way][write_q.set] =
                                    Written(@, write_q.mask, write_q.line)]
          /\ tags' = IF write_q.refill
                     THEN [tags EXCEPT ![write_q.way][write_q.set] = write_q.tag]
                     ELSE tags
RamEdge(write) ==
  /\ RamPorts
  /\ read_q' = IF state = "SCAN" THEN ScanSet
               ELSE IF state = "LOOKUP_READ" THEN req.set ELSE NoSet
  /\ write_q' = write

Goto(s) == state' = s
(* A step to s that only the RAM ports notice.                             *)
Quiet(s) == Goto(s) /\ RamEdge(NoWrite)
Passes(from, to) == /\ state = from /\ Quiet(to)
                    /\ UNCHANGED <<meta, req, refill, wb, maint, answer, mem>>
(* An address handshake, which also starts the count of beats.             *)
Addressed(from, to) ==
  /\ state = from /\ Quiet(to)
  /\ beat' = 0
  /\ UNCHANGED <<meta, req, victim, refill_error, refill_lo, wb, maint, answer, mem>>
Answer(resp) == response' = resp /\ UNCHANGED result

Accept ==
  /\ state = "IDLE"
  /\ \E r \in Requests :
       /\ req' = r
       /\ LET refused == r.kind = "refused" \/ (READ_ONLY /\ r.write)
          IN /\ response' = IF refused THEN "ERROR" ELSE "OKAY"
             /\ Quiet(IF refused THEN "RESPONSE"
                      ELSE IF r.kind = "uncached" THEN "BYPASS_REQ"
                      ELSE "LOOKUP_READ")
  /\ result' = Some(Values)
  /\ cleaning' = FALSE
  /\ UNCHANGED <<meta, refill, wb, invalidating, maintenance_fault, scan_index, mem>>

StartMaintenance ==
  /\ state = "IDLE"
  /\ cleaning' = TRUE
  /\ invalidating' \in BOOLEAN
  /\ maintenance_fault' = FALSE
  /\ scan_index' = 0
  /\ Quiet("SCAN")
  /\ UNCHANGED <<meta, req, refill, wb, answer, mem>>

LookupReadNoWait == Passes("LOOKUP_READ", "LOOKUP")
LookupRead == Passes("LOOKUP_READ", "LOOKUP_WAIT")
LookupWait == Passes("LOOKUP_WAIT", "LOOKUP")

LookupHit ==
  /\ state = "LOOKUP"
  /\ \E w \in Ways : Hit(w)
  /\ result' = q[HitWay][req.beat]
  /\ lru' = [lru EXCEPT ![req.set] = 1 - HitWay]
  /\ IF req.write
     THEN /\ dirty' = [dirty EXCEPT ![HitWay][req.set] = TRUE]
          /\ RamEdge([set |-> req.set, way |-> HitWay, mask |-> {req.beat},
                      line |-> [b \in Beats |-> req.value], tag |-> req.tag,
                      refill |-> FALSE])
     ELSE RamEdge(NoWrite) /\ UNCHANGED dirty
  /\ Goto("RESPONSE")
  /\ UNCHANGED <<valid, req, refill, wb, maint, response, mem>>

LookupMiss ==
  /\ state = "LOOKUP"
  /\ \A w \in Ways : ~Hit(w)
  /\ victim' = Replaced
  /\ beat' = 0 /\ refill_error' = FALSE
  /\ IF VictimDirty
     THEN /\ wb' = [line |-> q[lru[req.set]], tag |-> qt[lru[req.set]],
                    set |-> req.set]
          /\ Quiet("WB_AW")
     ELSE Quiet("REFILL_AR") /\ UNCHANGED wb
  /\ UNCHANGED <<meta, req, refill_lo, maint, answer, mem>>

WbAw == Addressed("WB_AW", "WB_W")

WbW == /\ state = "WB_W"
       /\ IF beat = 1 THEN Quiet("WB_B") /\ UNCHANGED beat
                      ELSE Quiet("WB_W") /\ beat' = 1
       /\ UNCHANGED <<meta, req, victim, refill_error, refill_lo, wb, maint,
                      answer, mem>>

(* Memory once it has taken the beats in taken of the line written back.   *)
Stored(taken) ==
  [mem EXCEPT ![wb.tag][wb.set] = Written(@, taken, wb.line)]

CleanedLineRescans ==
  /\ dirty' = [dirty EXCEPT ![victim][req.set] = FALSE]
  /\ Quiet("SCAN")
  /\ UNCHANGED <<valid, beat, refill_error, scan_index>>
CleanedLine ==
  /\ dirty' = [dirty EXCEPT ![ScanWay][ScanSet] = FALSE]
  /\ IF scan_index = LastScan THEN Quiet("MAINT_DONE") /\ UNCHANGED scan_index
     ELSE scan_index' = scan_index + 1 /\ Quiet("SCAN")
  /\ UNCHANGED <<valid, beat, refill_error>>

EvictedLine ==
  /\ valid' = [valid EXCEPT ![victim][req.set] = FALSE]
  /\ dirty' = [dirty EXCEPT ![victim][req.set] = FALSE]
  /\ beat' = 0 /\ refill_error' = FALSE
  /\ Quiet("REFILL_AR")
  /\ UNCHANGED scan_index

WbB == /\ state = "WB_B"
       /\ mem' = Stored(Beats)
       /\ IF cleaning THEN CleanedLine ELSE EvictedLine
       /\ UNCHANGED <<lru, req, victim, refill_lo, wb, cleaning, invalidating,
                      maintenance_fault, answer>>

(* An error response: the line may have been written in part, and stays    *)
(* dirty in the cache.                                                     *)
WbFaultForgets ==
  /\ state = "WB_B"
  /\ \E taken \in SUBSET Beats : mem' = Stored(taken)
  /\ IF cleaning
     THEN /\ maintenance_fault' = TRUE /\ Quiet("MAINT_DONE")
          /\ dirty' = [dirty EXCEPT ![ScanWay][ScanSet] = FALSE]
          /\ UNCHANGED answer
     ELSE /\ Answer("ERROR") /\ Quiet("RESPONSE")
          /\ dirty' = [dirty EXCEPT ![victim][req.set] = FALSE]
          /\ UNCHANGED maintenance_fault
  /\ UNCHANGED <<valid, lru, req, refill, wb, cleaning, invalidating, scan_index>>
WbFault ==
  /\ state = "WB_B"
  /\ \E taken \in SUBSET Beats : mem' = Stored(taken)
  /\ IF cleaning
     THEN maintenance_fault' = TRUE /\ Quiet("MAINT_DONE") /\ UNCHANGED answer
     ELSE Answer("ERROR") /\ Quiet("RESPONSE") /\ UNCHANGED maintenance_fault
  /\ UNCHANGED <<meta, req, refill, wb, cleaning, invalidating, scan_index>>

RefillAr == Addressed("REFILL_AR", "REFILL_R")

(* The first of two beats, in order or in error.                           *)
RefillFirst ==
  /\ state = "REFILL_R" /\ beat = 0
  /\ \E error \in BOOLEAN : refill_error' = (refill_error \/ error)
  /\ refill_lo' = mem[req.tag][req.set][0]
  /\ beat' = 1
  /\ Quiet("REFILL_R")
  /\ UNCHANGED <<meta, req, victim, wb, maint, answer, mem>>

(* The burst ends early, or with an error in either beat: nothing is       *)
(* installed.                                                              *)
RefillFault ==
  /\ state = "REFILL_R"
  /\ refill_error' = TRUE
  /\ refill_lo' = IF beat = 0 THEN mem[req.tag][req.set][0] ELSE refill_lo
  /\ Answer("ERROR")
  /\ Quiet("RESPONSE")
  /\ UNCHANGED <<meta, req, victim, beat, wb, maint, mem>>

InstalledByLru == [valid EXCEPT ![lru[req.set]][req.set] = TRUE]
Installed == [valid EXCEPT ![victim][req.set] = TRUE]
RefillLast ==
  /\ state = "REFILL_R" /\ beat = 1 /\ ~refill_error
  /\ valid' = Installed
  /\ dirty' = [dirty EXCEPT ![victim][req.set] = FALSE]
  /\ RamEdge([set |-> req.set, way |-> victim, mask |-> Beats,
              line |-> [b \in Beats |-> IF b = 0 THEN refill_lo
                                        ELSE mem[req.tag][req.set][1]],
              tag |-> req.tag, refill |-> TRUE])
  /\ Goto("LOOKUP_READ")
  /\ UNCHANGED <<lru, req, refill, wb, maint, answer, mem>>

Respond == Passes("RESPONSE", "IDLE")
BypassReq == Passes("BYPASS_REQ", "BYPASS_RSP")

BypassRsp == /\ state = "BYPASS_RSP"
             /\ response' \in {"OKAY", "ERROR"}
             /\ result' \in Values
             /\ Quiet("RESPONSE")
             /\ UNCHANGED <<meta, req, refill, wb, maint, mem>>

ScanSkipsLast ==
  /\ state = "SCAN"
  /\ IF scan_index >= LastScan - 1 THEN Quiet("MAINT_DONE") /\ UNCHANGED scan_index
     ELSE IF ~READ_ONLY /\ dirty[ScanWay][ScanSet]
          THEN Quiet("SCAN_WAIT") /\ UNCHANGED scan_index
          ELSE Quiet("SCAN") /\ scan_index' = scan_index + 1
  /\ UNCHANGED <<meta, req, refill, wb, cleaning, invalidating, maintenance_fault,
                 answer, mem>>
Scan ==
  /\ state = "SCAN"
  /\ IF ~READ_ONLY /\ dirty[ScanWay][ScanSet]
     THEN Quiet("SCAN_WAIT") /\ UNCHANGED scan_index
     ELSE IF scan_index = LastScan THEN Quiet("MAINT_DONE") /\ UNCHANGED scan_index
     ELSE Quiet("SCAN") /\ scan_index' = scan_index + 1
  /\ UNCHANGED <<meta, req, refill, wb, cleaning, invalidating, maintenance_fault,
                 answer, mem>>

ScanWait == Passes("SCAN_WAIT", "SCAN_READ")

ScanRead == /\ state = "SCAN_READ"
            /\ wb' = [line |-> q[ScanWay], tag |-> qt[ScanWay], set |-> ScanSet]
            /\ Quiet("WB_AW")
            /\ UNCHANGED <<meta, req, refill, maint, answer, mem>>

(* Maintenance is held until its requester withdraws the request.          *)
MaintDone ==
  /\ state = "MAINT_DONE"
  /\ valid' = IF invalidating /\ ~maintenance_fault
              THEN [w \in Ways |-> [s \in Sets |-> FALSE]] ELSE valid
  /\ Quiet("IDLE") \/ Quiet("MAINT_DONE")
  /\ UNCHANGED <<dirty, lru, req, refill, wb, maint, answer, mem>>

(* A clock edge at which the machine waits for its requester or the bus.   *)
Stall ==
  /\ state \in {"IDLE", "WB_AW", "WB_W", "WB_B", "REFILL_AR", "REFILL_R",
                "RESPONSE", "BYPASS_REQ", "BYPASS_RSP"}
  /\ Passes(state, state)

(* An edge with rst_n low: metadata is cleared and the write registered    *)
(* before drains into the RAM.  A write-back in flight may have reached    *)
(* memory in part; what the cache alone held is gone.                      *)
Reset ==
  /\ \E taken \in SUBSET Beats :
       mem' = IF state \in {"WB_W", "WB_B"} THEN Stored(taken) ELSE mem
  /\ state' = "IDLE"
  /\ valid' = [w \in Ways |-> [s \in Sets |-> FALSE]]
  /\ dirty' = valid'
  /\ lru' = [s \in Sets |-> 0]
  /\ RamPorts /\ read_q' = NoSet /\ write_q' = NoWrite
  /\ req' = NoRequest
  /\ victim' = 0 /\ beat' = 0 /\ refill_error' = FALSE /\ refill_lo' = Some(Values)
  /\ wb' = [line |-> Blank, tag |-> Some(Tags), set |-> 0]
  /\ cleaning' = FALSE /\ invalidating' = FALSE /\ maintenance_fault' = FALSE
  /\ scan_index' = 0
  /\ result' = Some(Values) /\ response' = "OKAY"

Advance ==
  \/ LookupRead \/ LookupWait \/ LookupHit \/ LookupMiss
  \/ WbAw \/ WbW \/ WbB \/ WbFault
  \/ RefillAr \/ RefillFirst \/ RefillFault \/ RefillLast
  \/ Respond \/ BypassReq \/ BypassRsp
  \/ Scan \/ ScanWait \/ ScanRead \/ MaintDone

Next == Accept \/ StartMaintenance \/ Advance \/ Stall \/ Reset

Spec == Init /\ [][Next]_vars

(* The bus accepts and answers, the requester takes its response, and a    *)
(* machine that waits for neither advances at every clock edge.            *)
FairSpec == Spec /\ WF_vars(Advance)

-----------------------------------------------------------------------------
States == {"IDLE", "LOOKUP_READ", "LOOKUP_WAIT", "LOOKUP", "REFILL_AR", "REFILL_R",
           "WB_AW", "WB_W", "WB_B", "RESPONSE", "BYPASS_REQ", "BYPASS_RSP",
           "SCAN", "SCAN_WAIT", "SCAN_READ", "MAINT_DONE"}
Writes == [set : Sets, way : Ways, mask : SUBSET Beats, line : Lines, tag : Tags,
           refill : BOOLEAN]
TypeOK ==
  /\ state \in States
  /\ valid \in [Ways -> [Sets -> BOOLEAN]] /\ dirty \in [Ways -> [Sets -> BOOLEAN]]
  /\ lru \in [Sets -> Ways]
  /\ data \in [Ways -> [Sets -> Lines]] /\ tags \in [Ways -> [Sets -> Tags]]
  /\ read_q \in Sets \cup {NoSet} /\ write_q \in Writes \cup {NoWrite}
  /\ q \in [Ways -> Lines] /\ qt \in [Ways -> Tags]
  /\ req \in Requests \cup {NoRequest}
  /\ victim \in Ways /\ beat \in Beats /\ refill_error \in BOOLEAN
  /\ refill_lo \in Values
  /\ wb \in [line : Lines, tag : Tags, set : Sets]
  /\ cleaning \in BOOLEAN /\ invalidating \in BOOLEAN
  /\ maintenance_fault \in BOOLEAN /\ scan_index \in 0 .. 2 * NSets - 1
  /\ result \in Values /\ response \in {"OKAY", "ERROR"}
  /\ mem \in [Tags -> [Sets -> Lines]]

(* The RAMs as they are once the registered write has landed.              *)
Pending(w, s) == write_q # NoWrite /\ write_q.way = w /\ write_q.set = s
LineOf(w, s) == IF Pending(w, s) THEN Written(data[w][s], write_q.mask, write_q.line)
                ELSE data[w][s]
TagOf(w, s) == IF Pending(w, s) /\ write_q.refill THEN write_q.tag ELSE tags[w][s]
Holds(w, t, s) == valid[w][s] /\ TagOf(w, s) = t

(* A line is in one way at most, and a way that is not dirty agrees with   *)
(* memory, so that dropping or invalidating it loses nothing: after a      *)
(* refill, a write-back that failed half way, an invalidation.             *)
(* (l1_cache.sv:226-243, 246-259, 280)                                     *)
CopiesAgree ==
  \A t \in Tags, s \in Sets :
    /\ \A w \in Ways : Holds(w, t, s) /\ ~dirty[w][s] => LineOf(w, s) = mem[t][s]
    /\ ~(Holds(0, t, s) /\ Holds(1, t, s))

(* What the cache and the memory behind it hold together.                  *)
Current ==
  [t \in Tags |-> [s \in Sets |->
     IF Holds(0, t, s) THEN LineOf(0, s)
     ELSE IF Holds(1, t, s) THEN LineOf(1, s) ELSE mem[t][s]]]

(* Maintenance reported without a fault has put every store in memory: the *)
(* instruction cache may now be filled from there (l1_cache.sv:267-282).   *)
CleanIsComplete == state = "MAINT_DONE" /\ ~maintenance_fault => mem = Current

(* The requester sees one memory: a load returns the word last stored, and *)
(* lookup, eviction, refill, an error at any point of a burst, cleaning    *)
(* and invalidation change no word.                                        *)
None == [kind |-> "none"]
Memory == INSTANCE CachedMemory WITH
  contents <- Current,
  pending <- IF state = "IDLE" \/ cleaning THEN None ELSE req,
  reply <- IF state # "RESPONSE" THEN None
           ELSE IF response # "OKAY" THEN [ok |-> FALSE]
           ELSE IF req.write THEN [ok |-> TRUE] ELSE [ok |-> TRUE, value |-> result]
ImplementsMemory == Memory!Spec

(* Once looked up, a request is answered: a miss is refilled and then      *)
(* hits, and never chases its own line through the ways.                   *)
RequestAnswered == state = "LOOKUP_READ" ~> state \in {"RESPONSE", "IDLE"}

(* The scan ends, whatever it writes back on its way.                      *)
MaintenanceEnds == state = "SCAN" ~> state \in {"MAINT_DONE", "IDLE"}

(* What the cache begins it ends, whatever memory answers on the way.      *)
AllEnds == RequestAnswered /\ MaintenanceEnds

(* The registers have their types and the copies of a line agree.          *)
Coherent == TypeOK /\ CopiesAgree
=============================================================================
