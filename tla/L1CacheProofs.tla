---------------------------- MODULE L1CacheProofs ----------------------------
(***************************************************************************)
(* The cache of L1Cache stays coherent, a clean loses nothing, and the     *)
(* cache implements the memory of CachedMemory, for every set of tags,     *)
(* every number of sets, all values and all requests.                      *)
(***************************************************************************)
EXTENDS L1Cache, TLAPS

-----------------------------------------------------------------------------
(* The lines and the tags the RAMs hold, the registered write included.    *)
Line == [w \in Ways |-> [s \in Sets |-> LineOf(w, s)]]
Tag == [w \in Ways |-> [s \in Sets |-> TagOf(w, s)]]

(* What the machine is about in each of its states.                        *)
LookupStates == {"LOOKUP_READ", "LOOKUP_WAIT", "LOOKUP"}
RefillStates == {"REFILL_AR", "REFILL_R"}
WbStates == {"WB_AW", "WB_W", "WB_B"}
ScanStates == {"SCAN", "SCAN_WAIT", "SCAN_READ"}
BypassStates == {"BYPASS_REQ", "BYPASS_RSP"}

Evicting == state \in WbStates /\ ~cleaning
Fetching == state \in LookupStates \cup RefillStates \/ Evicting
Sweeping == state \in ScanStates \/ (state \in WbStates /\ cleaning)

(* A write waits in the port only in the state that follows it, so that    *)
(* what a lookup or the scan has read is what the RAMs hold.               *)
ReadsOf(s) == \A w \in Ways : q[w] = Line[w][s] /\ qt[w] = Tag[w][s]
Ports ==
  /\ write_q # NoWrite => state \in {"RESPONSE", "LOOKUP_READ"}
  /\ state = "LOOKUP_WAIT" => read_q = req.set
  /\ state = "SCAN_WAIT" => read_q = ScanSet
  /\ state = "LOOKUP" => ReadsOf(req.set)
  /\ state = "SCAN_READ" => ReadsOf(ScanSet)

(* Which kind of request is served in which state.                         *)
Modes ==
  /\ Fetching => req.kind = "cached" /\ ~(READ_ONLY /\ req.write)
  /\ state \in BypassStates => req.kind = "uncached"
  /\ Fetching \/ state \in BypassStates => response = "OKAY"
  /\ Fetching \/ state \in BypassStates \cup {"RESPONSE"} => ~cleaning
  /\ state \in ScanStates \cup {"MAINT_DONE"} => cleaning
  /\ Sweeping => ~maintenance_fault

DirtyIsValid ==
  \A w \in Ways, s \in Sets : dirty[w][s] => valid[w][s] /\ ~READ_ONLY

(* A line written back is dirty until memory has it, and the copy sent is  *)
(* the one the cache holds.                                                *)
WritesBack(w, s) ==
  /\ dirty[w][s]
  /\ state \in WbStates =>
       wb.set = s /\ wb.tag = Tag[w][s] /\ wb.line = Line[w][s]
Victims ==
  /\ Evicting => WritesBack(victim, req.set)
  /\ Sweeping /\ state # "SCAN" => WritesBack(ScanWay, ScanSet)

(* What is fetched is nowhere in the cache, and replaces nothing dirty.    *)
Refilling ==
  /\ Evicting \/ state \in RefillStates =>
       \A w \in Ways : valid[w][req.set] => Tag[w][req.set] # req.tag
  /\ state \in RefillStates => ~dirty[victim][req.set]
  /\ state = "REFILL_R" /\ beat = 1 => refill_lo = mem[req.tag][req.set][0]

(* The scan leaves nothing dirty behind it.                                *)
Swept ==
  /\ Sweeping => \A w \in Ways, s \in Sets :
       dirty[w][s] => w > ScanWay \/ (w = ScanWay /\ s >= ScanSet)
  /\ state = "MAINT_DONE" /\ ~maintenance_fault =>
       \A w \in Ways, s \in Sets : ~dirty[w][s]

(* CopiesAgree, way by way.                                                *)
Clean == \A w \in Ways, s \in Sets :
           valid[w][s] /\ ~dirty[w][s] => Line[w][s] = mem[Tag[w][s]][s]
Alone == \A s \in Sets : valid[0][s] /\ valid[1][s] => Tag[0][s] # Tag[1][s]

Machine == Ports /\ Modes /\ Victims /\ Refilling /\ Swept
Copies == DirtyIsValid /\ Clean /\ Alone
CacheInv == TypeOK /\ Machine /\ Copies


-----------------------------------------------------------------------------
(* Facts about the pieces the machine is built of.                         *)

LEMMA Choices == /\ Some(Tags) \in Tags /\ Some(Values) \in Values
                 /\ Blank \in Lines /\ 0 \in Sets /\ NoSet \notin Sets
<1>1. Some(Tags) \in Tags /\ Some(Values) \in Values
  BY CacheAssumption, Zenon DEF Some
<1>2. Blank \in Lines
  BY <1>1, Zenon DEF Blank, Lines
<1>3. 0 \in Sets /\ NoSet \notin Sets
  BY CacheAssumption DEF Sets, NoSet
<1>4. QED
  BY <1>1, <1>2, <1>3

LEMMA WriteIsSome == \A W \in Writes : W # NoWrite
<1>1. SUFFICES ASSUME NEW W \in Writes, W = NoWrite PROVE FALSE
  OBVIOUS
<1>2. W.set \in Sets
  BY DEF Writes
<1>3. W.set = NoSet
  BY <1>1, Zenon DEF NoWrite
<1>4. QED
  BY <1>2, <1>3, Choices

LEMMA WrittenLine ==
  ASSUME NEW line \in Lines, NEW new \in Lines, NEW mask
  PROVE  /\ Written(line, mask, new) \in Lines
         /\ \A b \in Beats : Written(line, mask, new)[b] =
                               IF b \in mask THEN new[b] ELSE line[b]
BY DEF Written, Lines

(* The place of the scan runs through way 0 and then through way 1.        *)
LEMMA ScanPlace ==
  ASSUME NEW n \in 0 .. 2 * NSets - 1
  PROVE  /\ n \div NSets = IF n < NSets THEN 0 ELSE 1
         /\ n % NSets = IF n < NSets THEN n ELSE n - NSets
         /\ n \div NSets \in Ways /\ n % NSets \in Sets
<1>1. NSets \in Nat /\ NSets > 0 /\ n \in Nat /\ n < 2 * NSets
  BY CacheAssumption
<1>2. n \div NSets = IF n < NSets THEN 0 ELSE 1
  BY <1>1, SMT
<1>3. n % NSets = IF n < NSets THEN n ELSE n - NSets
  BY <1>1, SMT
<1>4. QED
  BY <1>1, <1>2, <1>3 DEF Ways, Sets

LEMMA RamLands ==
  ASSUME TypeOK, RamPorts
  PROVE  /\ data' \in [Ways -> [Sets -> Lines]] /\ tags' \in [Ways -> [Sets -> Tags]]
         /\ q' \in [Ways -> Lines] /\ qt' \in [Ways -> Tags]
         /\ \A w \in Ways, s \in Sets :
              data'[w][s] = LineOf(w, s) /\ tags'[w][s] = TagOf(w, s)
<1>1. q' \in [Ways -> Lines] /\ qt' \in [Ways -> Tags]
  <2>1. CASE read_q = NoSet
    BY <2>1 DEF RamPorts, TypeOK
  <2>2. CASE read_q # NoSet
    <3>1. read_q \in Sets
      BY <2>2 DEF TypeOK
    <3>2. QED
      BY <2>2, <3>1 DEF RamPorts, TypeOK
  <2>3. QED
    BY <2>1, <2>2
<1>2. CASE write_q = NoWrite
  BY <1>1, <1>2 DEF RamPorts, TypeOK, LineOf, TagOf, Pending
<1>3. CASE write_q # NoWrite
  <2>1. write_q \in Writes
    BY <1>3 DEF TypeOK
  <2>2. /\ write_q.way \in Ways /\ write_q.set \in Sets /\ write_q.line \in Lines
        /\ write_q.tag \in Tags
    BY <2>1 DEF Writes
  <2>3. data' = [data EXCEPT ![write_q.way][write_q.set] =
                   Written(@, write_q.mask, write_q.line)]
    BY <1>3, Zenon DEF RamPorts
  <2>4. Written(data[write_q.way][write_q.set], write_q.mask, write_q.line) \in Lines
    BY <2>2, WrittenLine DEF TypeOK
  <2>5. data' \in [Ways -> [Sets -> Lines]]
    BY <2>2, <2>3, <2>4 DEF TypeOK
  <2>6. \A w \in Ways, s \in Sets : data'[w][s] = LineOf(w, s)
    BY <1>3, <2>2, <2>3 DEF TypeOK, LineOf, Pending
  <2>7. /\ tags' \in [Ways -> [Sets -> Tags]]
        /\ \A w \in Ways, s \in Sets : tags'[w][s] = TagOf(w, s)
    <3>1. CASE write_q.refill
      <4>1. tags' = [tags EXCEPT ![write_q.way][write_q.set] = write_q.tag]
        BY <1>3, <3>1, Zenon DEF RamPorts
      <4>2. QED
        BY <1>3, <2>2, <3>1, <4>1 DEF TypeOK, TagOf, Pending
    <3>2. CASE ~write_q.refill
      BY <1>3, <2>2, <3>2 DEF RamPorts, TypeOK, TagOf, Pending
    <3>3. QED
      BY <3>1, <3>2
  <2>8. QED
    BY <1>1, <2>5, <2>6, <2>7
<1>4. QED
  BY <1>2, <1>3

(* A line reads the same from the RAM, and from a write that waits for it. *)
LEMMA Readable ==
  ASSUME TypeOK
  PROVE  \A w \in Ways, s \in Sets : LineOf(w, s) \in Lines /\ TagOf(w, s) \in Tags
<1>1. SUFFICES ASSUME NEW w \in Ways, NEW s \in Sets
               PROVE  LineOf(w, s) \in Lines /\ TagOf(w, s) \in Tags
  OBVIOUS
<1>2. data[w][s] \in Lines /\ tags[w][s] \in Tags
  BY DEF TypeOK
<1>3. CASE Pending(w, s)
  <2>1. write_q.line \in Lines /\ write_q.tag \in Tags
    BY <1>3 DEF Pending, TypeOK, Writes
  <2>2. QED
    BY <1>2, <2>1, WrittenLine DEF LineOf, TagOf
<1>4. CASE ~Pending(w, s)
  BY <1>2, <1>4 DEF LineOf, TagOf
<1>5. QED
  BY <1>3, <1>4

RamTypes ==
  /\ data \in [Ways -> [Sets -> Lines]] /\ tags \in [Ways -> [Sets -> Tags]]
  /\ read_q \in Sets \cup {NoSet} /\ write_q \in Writes \cup {NoWrite}
  /\ q \in [Ways -> Lines] /\ qt \in [Ways -> Tags]

LEMMA RequestType ==
  ASSUME TypeOK
  PROVE  /\ req \in AllRequests
         /\ req.tag \in Tags /\ req.set \in Sets /\ req.beat \in Beats
         /\ req.write \in BOOLEAN /\ req.value \in Values
         /\ req.kind \in {"refused", "uncached", "cached"}
<1>1. NoRequest \in AllRequests
  BY Choices DEF NoRequest, AllRequests, Beats
<1>2. req \in AllRequests
  BY <1>1, CacheAssumption DEF TypeOK
<1>3. QED
  BY <1>2 DEF AllRequests

LEMMA EdgeTypes ==
  ASSUME TypeOK, NEW W \in Writes \cup {NoWrite}, RamEdge(W)
  PROVE  RamTypes'
<1>1. read_q' \in Sets \cup {NoSet}
  <2>1. ScanSet \in Sets
    BY ScanPlace DEF TypeOK, ScanSet
  <2>2. req.set \in Sets
    BY RequestType
  <2>3. QED
    BY <2>1, <2>2 DEF RamEdge
<1>2. write_q' \in Writes \cup {NoWrite}
  BY DEF RamEdge
<1>3. QED
  BY <1>1, <1>2, RamLands DEF RamEdge, RamTypes

LEMMA LineTypes ==
  ASSUME TypeOK
  PROVE  /\ Line \in [Ways -> [Sets -> Lines]] /\ Tag \in [Ways -> [Sets -> Tags]]
         /\ \A w \in Ways, s \in Sets :
              Line[w][s] = LineOf(w, s) /\ Tag[w][s] = TagOf(w, s)
BY Readable DEF Line, Tag

LEMMA QuietEdge ==
  ASSUME TypeOK, RamEdge(NoWrite)
  PROVE  RamTypes' /\ write_q' = NoWrite /\ Line' = Line /\ Tag' = Tag
<1>1. write_q' = NoWrite
  BY DEF RamEdge
<1>2. RamTypes' /\ \A w \in Ways, s \in Sets :
        data'[w][s] = LineOf(w, s) /\ tags'[w][s] = TagOf(w, s)
  BY EdgeTypes, RamLands DEF RamEdge
<1>3. \A w \in Ways, s \in Sets :
        LineOf(w, s)' = LineOf(w, s) /\ TagOf(w, s)' = TagOf(w, s)
  BY <1>1, <1>2 DEF LineOf, TagOf, Pending
<1>4. Line' = Line /\ Tag' = Tag
  BY <1>3 DEF Line, Tag
<1>5. QED
  BY <1>1, <1>2, <1>4

LEMMA WritingEdge ==
  ASSUME TypeOK, NEW W \in Writes, RamEdge(W)
  PROVE  /\ RamTypes' /\ write_q' = W
         /\ Line' \in [Ways -> [Sets -> Lines]] /\ Tag' \in [Ways -> [Sets -> Tags]]
         /\ \A w \in Ways, s \in Sets :
              IF W.way = w /\ W.set = s
              THEN /\ Line'[w][s] = Written(Line[w][s], W.mask, W.line)
                   /\ Tag'[w][s] = IF W.refill THEN W.tag ELSE Tag[w][s]
              ELSE Line'[w][s] = Line[w][s] /\ Tag'[w][s] = Tag[w][s]
<1>1. write_q' = W /\ W # NoWrite
  BY WriteIsSome DEF RamEdge
<1>2. RamTypes' /\ \A w \in Ways, s \in Sets :
        data'[w][s] = LineOf(w, s) /\ tags'[w][s] = TagOf(w, s)
  BY EdgeTypes, RamLands DEF RamEdge
<1>3. \A w \in Ways, s \in Sets :
        IF W.way = w /\ W.set = s
        THEN /\ LineOf(w, s)' = Written(LineOf(w, s), W.mask, W.line)
             /\ TagOf(w, s)' = IF W.refill THEN W.tag ELSE TagOf(w, s)
        ELSE LineOf(w, s)' = LineOf(w, s) /\ TagOf(w, s)' = TagOf(w, s)
  BY <1>1, <1>2 DEF LineOf, TagOf, Pending
<1>4. W.line \in Lines /\ W.tag \in Tags
  BY DEF Writes
<1>5. \A w \in Ways, s \in Sets :
        LineOf(w, s)' \in Lines /\ TagOf(w, s)' \in Tags
  BY <1>3, <1>4, Readable, WrittenLine
<1>6. \A w \in Ways, s \in Sets :
        /\ Line'[w][s] = LineOf(w, s)' /\ Tag'[w][s] = TagOf(w, s)'
        /\ Line[w][s] = LineOf(w, s) /\ Tag[w][s] = TagOf(w, s)
  BY DEF Line, Tag
<1>7. Line' \in [Ways -> [Sets -> Lines]] /\ Tag' \in [Ways -> [Sets -> Tags]]
  BY <1>5 DEF Line, Tag
<1>8. QED
  BY <1>1, <1>2, <1>3, <1>6, <1>7

(* A read asked for while no write waits shows what the RAMs hold.         *)
LEMMA ReadLands ==
  ASSUME TypeOK, RamEdge(NoWrite), write_q = NoWrite, read_q \in Sets
  PROVE  \A w \in Ways : q'[w] = Line'[w][read_q] /\ qt'[w] = Tag'[w][read_q]
<1>1. Line' = Line /\ Tag' = Tag
  BY QuietEdge
<1>2. \A w \in Ways, s \in Sets : Line[w][s] = data[w][s] /\ Tag[w][s] = tags[w][s]
  BY LineTypes DEF LineOf, TagOf, Pending
<1>3. read_q # NoSet
  BY Choices
<1>4. \A w \in Ways : q'[w] = data[w][read_q] /\ qt'[w] = tags[w][read_q]
  BY <1>3 DEF RamEdge, RamPorts
<1>5. QED
  BY <1>1, <1>2, <1>4


-----------------------------------------------------------------------------
(* Types.                                                                  *)
RestTypes ==
  /\ state \in States
  /\ valid \in [Ways -> [Sets -> BOOLEAN]] /\ dirty \in [Ways -> [Sets -> BOOLEAN]]
  /\ lru \in [Sets -> Ways]
  /\ req \in Requests \cup {NoRequest}
  /\ victim \in Ways /\ beat \in Beats /\ refill_error \in BOOLEAN
  /\ refill_lo \in Values
  /\ wb \in [line : Lines, tag : Tags, set : Sets]
  /\ cleaning \in BOOLEAN /\ invalidating \in BOOLEAN
  /\ maintenance_fault \in BOOLEAN /\ scan_index \in 0 .. 2 * NSets - 1
  /\ result \in Values /\ response \in {"OKAY", "ERROR"}
  /\ mem \in [Tags -> [Sets -> Lines]]

LEMMA BothTypes == /\ RamTypes /\ RestTypes => TypeOK
                   /\ RamTypes' /\ RestTypes' => TypeOK'
BY DEF TypeOK, RamTypes, RestTypes

(* One bit of a way's metadata is set or cleared.                          *)
LEMMA SetBit ==
  ASSUME NEW f \in [Ways -> [Sets -> BOOLEAN]], NEW w \in Ways, NEW s \in Sets
  PROVE  /\ [f EXCEPT ![w][s] = TRUE] \in [Ways -> [Sets -> BOOLEAN]]
         /\ \A v \in Ways, u \in Sets :
              [f EXCEPT ![w][s] = TRUE][v][u] <=> (v = w /\ u = s) \/ f[v][u]
OBVIOUS

LEMMA ClearBit ==
  ASSUME NEW f \in [Ways -> [Sets -> BOOLEAN]], NEW w \in Ways, NEW s \in Sets
  PROVE  /\ [f EXCEPT ![w][s] = FALSE] \in [Ways -> [Sets -> BOOLEAN]]
         /\ \A v \in Ways, u \in Sets :
              [f EXCEPT ![w][s] = FALSE][v][u] <=> f[v][u] /\ ~(v = w /\ u = s)
OBVIOUS

LEMMA StoredType ==
  ASSUME TypeOK, NEW taken \in SUBSET Beats
  PROVE  /\ Stored(taken) \in [Tags -> [Sets -> Lines]]
         /\ \A t \in Tags, s \in Sets :
              Stored(taken)[t][s] = IF t = wb.tag /\ s = wb.set
                                    THEN Written(mem[t][s], taken, wb.line)
                                    ELSE mem[t][s]
<1>1. wb.tag \in Tags /\ wb.set \in Sets /\ wb.line \in Lines
  BY DEF TypeOK
<1>2. mem \in [Tags -> [Sets -> Lines]]
  BY DEF TypeOK
<1>3. Written(mem[wb.tag][wb.set], taken, wb.line) \in Lines
  BY <1>1, <1>2, WrittenLine
<1>4. Stored(taken) = [mem EXCEPT ![wb.tag][wb.set] =
                         Written(mem[wb.tag][wb.set], taken, wb.line)]
  BY Zenon DEF Stored
<1>5. QED
  BY <1>1, <1>2, <1>3, <1>4

LEMMA InitTypes == Init => TypeOK
<1> SUFFICES ASSUME Init PROVE TypeOK
  OBVIOUS
<1>2. RamTypes
  BY Choices DEF Init, RamTypes
<1>3. wb \in [line : Lines, tag : Tags, set : Sets]
  BY Choices DEF Init
<1>4. scan_index \in 0 .. 2 * NSets - 1
  BY CacheAssumption DEF Init
<1>5. 0 \in Ways /\ 0 \in Beats
  BY DEF Ways, Beats
<1>6. /\ valid \in [Ways -> [Sets -> BOOLEAN]] /\ dirty \in [Ways -> [Sets -> BOOLEAN]]
      /\ lru \in [Sets -> Ways] /\ req \in Requests \cup {NoRequest}
      /\ mem \in [Tags -> [Sets -> Lines]]
  BY <1>5, Choices DEF Init
<1>7. RestTypes
  BY <1>3, <1>4, <1>5, <1>6, Choices DEF Init, RestTypes, States
<1>8. QED
  BY <1>2, <1>7, BothTypes

LEMMA HitWayType == TypeOK => HitWay \in Ways
BY DEF HitWay, Ways

LEMMA ReplacedType == TypeOK => Replaced \in Ways /\ lru[req.set] \in Ways
<1>1. TypeOK => lru[req.set] \in Ways
  BY RequestType DEF TypeOK
<1>2. QED
  BY <1>1 DEF Replaced, Ways

(* What LookupHit writes into the RAM, and what RefillLast does.           *)
HitWrite == [set |-> req.set, way |-> HitWay, mask |-> {req.beat},
             line |-> [b \in Beats |-> req.value], tag |-> req.tag, refill |-> FALSE]
RefilledLine == [b \in Beats |-> IF b = 0 THEN refill_lo ELSE mem[req.tag][req.set][1]]
RefillWrite == [set |-> req.set, way |-> victim, mask |-> Beats,
                line |-> RefilledLine, tag |-> req.tag, refill |-> TRUE]

LEMMA RamWrites ==
  ASSUME TypeOK
  PROVE  /\ HitWrite \in Writes /\ RefillWrite \in Writes
         /\ [b \in Beats |-> req.value] \in Lines /\ RefilledLine \in Lines
<1>1. [b \in Beats |-> req.value] \in Lines
  BY RequestType DEF Lines
<1>2. mem[req.tag][req.set] \in Lines /\ victim \in Ways
  BY RequestType DEF TypeOK
<1>3. RefilledLine \in Lines
  BY <1>2 DEF RefilledLine, Lines, Beats, TypeOK
<1>4. HitWrite \in Writes
  BY <1>1, RequestType, HitWayType DEF HitWrite, Writes
<1>5. RefillWrite \in Writes
  BY <1>2, <1>3, RequestType DEF RefillWrite, Writes
<1>6. QED
  BY <1>1, <1>3, <1>4, <1>5

LEMMA ScanType == TypeOK => ScanWay \in Ways /\ ScanSet \in Sets
BY ScanPlace DEF TypeOK, ScanWay, ScanSet

LEMMA PassTypes ==
  ASSUME TypeOK, NEW from, NEW to \in States, Passes(from, to)
  PROVE  TypeOK'
<1>1. RamTypes'
  BY QuietEdge DEF Passes, Quiet
<1>2. RestTypes'
  BY DEF Passes, Quiet, Goto, meta, refill, maint, answer, TypeOK, RestTypes
<1>3. QED
  BY <1>1, <1>2, BothTypes

LEMMA StepTypes == TypeOK /\ [Next]_vars => TypeOK'
<1> SUFFICES ASSUME TypeOK, [Next]_vars PROVE TypeOK'
  OBVIOUS
<1> USE DEF States, Quiet, Goto
<1>2. CASE Accept
  <2>1. RamTypes'
    BY <1>2, QuietEdge DEF Accept
  <2>2. RestTypes'
    BY <1>2, Choices, Zenon DEF Accept, TypeOK, RestTypes, meta, refill
  <2>3. QED
    BY <2>1, <2>2, BothTypes
<1>3. CASE StartMaintenance
  <2>1. RamTypes'
    BY <1>3, QuietEdge DEF StartMaintenance
  <2>2. 0 \in 0 .. 2 * NSets - 1
    BY CacheAssumption
  <2>3. RestTypes'
    BY <1>3, <2>2 DEF StartMaintenance, TypeOK, RestTypes, meta, refill, answer
  <2>4. QED
    BY <2>1, <2>3, BothTypes
<1>4. CASE \/ LookupRead \/ LookupWait \/ Respond \/ BypassReq \/ ScanWait \/ Stall
  BY <1>4, PassTypes DEF LookupRead, LookupWait, Respond, BypassReq, ScanWait, Stall
<1>5. CASE LookupHit
  <2>1. RamTypes'
    <3>1. CASE req.write
      <4>1. RamEdge(HitWrite)
        BY <1>5, <3>1, Zenon DEF LookupHit, HitWrite
      <4>2. QED
        BY <4>1, RamWrites, WritingEdge
    <3>2. CASE ~req.write
      BY <1>5, <3>2, QuietEdge DEF LookupHit
    <3>3. QED
      BY <3>1, <3>2
  <2>2. dirty' \in [Ways -> [Sets -> BOOLEAN]] /\ lru' \in [Sets -> Ways]
    <3>1. dirty' \in [Ways -> [Sets -> BOOLEAN]]
      <4>1. \/ dirty' = [dirty EXCEPT ![HitWay][req.set] = TRUE] \/ dirty' = dirty
        BY <1>5, Zenon DEF LookupHit
      <4>2. dirty \in [Ways -> [Sets -> BOOLEAN]] /\ HitWay \in Ways /\ req.set \in Sets
        BY RequestType, HitWayType DEF TypeOK
      <4>3. [dirty EXCEPT ![HitWay][req.set] = TRUE] \in [Ways -> [Sets -> BOOLEAN]]
        BY <4>2, SetBit, ClearBit
      <4>4. QED
        BY <4>1, <4>2, <4>3
    <3>2. 1 - HitWay \in Ways
      BY HitWayType DEF Ways
    <3>3. QED
      BY <1>5, <3>1, <3>2, RequestType DEF LookupHit, TypeOK
  <2>3. result' \in Values
    <3>1. q[HitWay] \in Lines
      BY HitWayType DEF TypeOK
    <3>2. QED
      BY <1>5, <3>1, RequestType DEF LookupHit, Lines
  <2>4. RestTypes'
    BY <1>5, <2>2, <2>3 DEF LookupHit, TypeOK, RestTypes, refill, maint
  <2>5. QED
    BY <2>1, <2>4, BothTypes
<1>6. CASE LookupMiss
  <2>1. RamTypes'
    BY <1>6, QuietEdge DEF LookupMiss
  <2>2. wb' \in [line : Lines, tag : Tags, set : Sets]
    BY <1>6, RequestType, ReplacedType DEF LookupMiss, TypeOK
  <2>3. Replaced \in Ways /\ 0 \in Beats
    BY ReplacedType DEF Beats
  <2>4. RestTypes'
    BY <1>6, <2>2, <2>3
    DEF LookupMiss, TypeOK, RestTypes, meta, maint, answer
  <2>5. QED
    BY <2>1, <2>4, BothTypes
<1>7. CASE WbAw \/ RefillAr
  <2>1. PICK from \in States, to \in States : Addressed(from, to)
    BY <1>7 DEF WbAw, RefillAr
  <2>2. RamTypes'
    BY <2>1, QuietEdge DEF Addressed
  <2>3. RestTypes'
    BY <2>1 DEF Addressed, TypeOK, RestTypes, meta, maint, answer, Beats
  <2>4. QED
    BY <2>2, <2>3, BothTypes
<1>8. CASE WbW
  <2>1. RamTypes'
    BY <1>8, QuietEdge DEF WbW
  <2>2. RestTypes'
    BY <1>8 DEF WbW, TypeOK, RestTypes, meta, maint, answer, Beats
  <2>3. QED
    BY <2>1, <2>2, BothTypes
<1>9. CASE WbB
  <2>1. RamTypes'
    BY <1>9, QuietEdge DEF WbB, CleanedLine, EvictedLine
  <2>2. mem' \in [Tags -> [Sets -> Lines]]
    BY <1>9, StoredType DEF WbB
  <2>3. CASE cleaning
    <3>1. dirty' \in [Ways -> [Sets -> BOOLEAN]]
      <4>1. dirty' = [dirty EXCEPT ![ScanWay][ScanSet] = FALSE]
        BY <1>9, <2>3, Zenon DEF WbB, CleanedLine
      <4>2. QED
        BY <4>1, ScanType, SetBit, ClearBit DEF TypeOK
    <3>2. scan_index' \in 0 .. 2 * NSets - 1
      BY <1>9, <2>3, CacheAssumption DEF WbB, CleanedLine, TypeOK, LastScan
    <3>3. RestTypes'
      BY <1>9, <2>2, <2>3, <3>1, <3>2
      DEF WbB, CleanedLine, TypeOK, RestTypes, answer
    <3>4. QED
      BY <2>1, <3>3, BothTypes
  <2>4. CASE ~cleaning
    <3>1. /\ dirty' \in [Ways -> [Sets -> BOOLEAN]]
          /\ valid' \in [Ways -> [Sets -> BOOLEAN]]
      <4>1. /\ dirty' = [dirty EXCEPT ![victim][req.set] = FALSE]
            /\ valid' = [valid EXCEPT ![victim][req.set] = FALSE]
        BY <1>9, <2>4, Zenon DEF WbB, EvictedLine
      <4>2. QED
        BY <4>1, RequestType, SetBit, ClearBit DEF TypeOK
    <3>2. 0 \in Beats
      BY DEF Beats
    <3>3. RestTypes'
      BY <1>9, <2>2, <2>4, <3>1, <3>2 DEF WbB, EvictedLine, TypeOK, RestTypes, answer
    <3>4. QED
      BY <2>1, <3>3, BothTypes
  <2>5. QED
    BY <2>3, <2>4
<1>10. CASE WbFault
  <2>1. RamTypes'
    BY <1>10, QuietEdge DEF WbFault
  <2>2. mem' \in [Tags -> [Sets -> Lines]]
    BY <1>10, StoredType DEF WbFault
  <2>3. RestTypes'
    BY <1>10, <2>2 DEF WbFault, Answer, TypeOK, RestTypes, meta, refill, answer
  <2>4. QED
    BY <2>1, <2>3, BothTypes
<1>11. CASE RefillFirst \/ RefillFault
  <2>1. RamTypes'
    BY <1>11, QuietEdge DEF RefillFirst, RefillFault
  <2>2. mem[req.tag][req.set][0] \in Values
    BY RequestType DEF TypeOK, Lines, Beats
  <2>3. CASE RefillFirst
    BY <2>1, <2>2, <2>3, BothTypes
    DEF RefillFirst, TypeOK, RestTypes, meta, maint, answer, Beats
  <2>4. CASE RefillFault
    BY <2>1, <2>2, <2>4, BothTypes
    DEF RefillFault, Answer, TypeOK, RestTypes, meta, maint, answer
  <2>5. QED
    BY <1>11, <2>3, <2>4
<1>12. CASE RefillLast
  <2>1. RamEdge(RefillWrite)
    BY <1>12, Zenon DEF RefillLast, RefillWrite, RefilledLine
  <2>2. RamTypes'
    BY <2>1, RamWrites, WritingEdge
  <2>3. /\ dirty' \in [Ways -> [Sets -> BOOLEAN]]
        /\ valid' \in [Ways -> [Sets -> BOOLEAN]]
    <3>1. /\ dirty' = [dirty EXCEPT ![victim][req.set] = FALSE]
          /\ valid' = [valid EXCEPT ![victim][req.set] = TRUE]
      BY <1>12, Zenon DEF RefillLast, Installed
    <3>2. QED
      BY <3>1, RequestType, SetBit, ClearBit DEF TypeOK
  <2>4. RestTypes'
    BY <1>12, <2>3 DEF RefillLast, TypeOK, RestTypes, refill, maint, answer
  <2>5. QED
    BY <2>2, <2>4, BothTypes
<1>13. CASE BypassRsp
  <2>1. RamTypes'
    BY <1>13, QuietEdge DEF BypassRsp
  <2>2. RestTypes'
    BY <1>13 DEF BypassRsp, TypeOK, RestTypes, meta, refill, maint
  <2>3. QED
    BY <2>1, <2>2, BothTypes
<1>14. CASE Scan
  <2>1. RamTypes'
    BY <1>14, QuietEdge DEF Scan
  <2>2. scan_index' \in 0 .. 2 * NSets - 1
    BY <1>14, CacheAssumption DEF Scan, TypeOK, LastScan
  <2>3. RestTypes'
    BY <1>14, <2>2 DEF Scan, TypeOK, RestTypes, meta, refill, answer
  <2>4. QED
    BY <2>1, <2>3, BothTypes
<1>15. CASE ScanRead
  <2>1. RamTypes'
    BY <1>15, QuietEdge DEF ScanRead
  <2>2. wb' \in [line : Lines, tag : Tags, set : Sets]
    BY <1>15, ScanType DEF ScanRead, TypeOK
  <2>3. RestTypes'
    BY <1>15, <2>2 DEF ScanRead, TypeOK, RestTypes, meta, refill, maint, answer
  <2>4. QED
    BY <2>1, <2>3, BothTypes
<1>16. CASE MaintDone
  <2>1. RamTypes'
    BY <1>16, QuietEdge DEF MaintDone
  <2>2. valid' \in [Ways -> [Sets -> BOOLEAN]]
    BY <1>16 DEF MaintDone, TypeOK
  <2>3. RestTypes'
    BY <1>16, <2>2 DEF MaintDone, TypeOK, RestTypes, refill, maint, answer
  <2>4. QED
    BY <2>1, <2>3, BothTypes
<1>17. CASE Reset
  <2>1. RamTypes'
    BY <1>17, RamLands DEF Reset, RamTypes
  <2>2. mem' \in [Tags -> [Sets -> Lines]]
    <3>1. mem \in [Tags -> [Sets -> Lines]]
      BY DEF TypeOK
    <3>2. QED
      BY <1>17, <3>1, StoredType DEF Reset
  <2>3. 0 \in 0 .. 2 * NSets - 1 /\ 0 \in Ways /\ 0 \in Beats
    BY CacheAssumption DEF Ways, Beats
  <2>4. wb' \in [line : Lines, tag : Tags, set : Sets]
    BY <1>17, Choices DEF Reset
  <2>5. RestTypes'
    BY <1>17, <2>2, <2>3, <2>4, Choices DEF Reset, RestTypes
  <2>6. QED
    BY <2>1, <2>5, BothTypes
<1>18. CASE UNCHANGED vars
  BY <1>18 DEF vars, meta, ram, refill, maint, answer, TypeOK
<1>19. QED
  BY <1>2, <1>3, <1>4, <1>5, <1>6, <1>7, <1>8, <1>9, <1>10, <1>11, <1>12,
     <1>13, <1>14, <1>15, <1>16, <1>17, <1>18 DEF Next, Advance


-----------------------------------------------------------------------------
(* Coherence.                                                              *)
LEMMA CopiesAreThose == TypeOK => (CopiesAgree <=> Clean /\ Alone)
<1> SUFFICES ASSUME TypeOK PROVE CopiesAgree <=> Clean /\ Alone
  OBVIOUS
<1>1. \A w \in Ways, s \in Sets : Tag[w][s] \in Tags
  BY LineTypes
<1>2. CopiesAgree <=>
        \A t \in Tags, s \in Sets :
          /\ \A w \in Ways : (valid[w][s] /\ Tag[w][s] = t) /\ ~dirty[w][s]
                               => Line[w][s] = mem[t][s]
          /\ ~((valid[0][s] /\ Tag[0][s] = t) /\ (valid[1][s] /\ Tag[1][s] = t))
  <2>1. 0 \in Ways /\ 1 \in Ways
    BY DEF Ways
  <2>2. QED
    BY <2>1, LineTypes DEF CopiesAgree, Holds
<1>3. QED
  BY <1>1, <1>2 DEF Clean, Alone, Ways

LEMMA InitInv == Init => CacheInv
<1> SUFFICES ASSUME Init PROVE CacheInv
  OBVIOUS
<1>1. TypeOK
  BY InitTypes
<1>2. \A w \in Ways, s \in Sets : ~valid[w][s] /\ ~dirty[w][s]
  BY DEF Init
<1>3. Copies
  BY <1>2 DEF Copies, DirtyIsValid, Clean, Alone, Ways
<1>4. Machine
  BY DEF Init, Machine, Ports, Modes, Victims, Refilling, Swept, Fetching, Evicting,
         Sweeping, LookupStates, RefillStates, WbStates, ScanStates, BypassStates
<1>5. QED
  BY <1>1, <1>3, <1>4 DEF CacheInv

(* A step that leaves memory and metadata as they are.                     *)
LEMMA CopiesStay ==
  ASSUME TypeOK, Copies, RamEdge(NoWrite), UNCHANGED <<valid, dirty, mem>>
  PROVE  Copies'
BY QuietEdge DEF Copies, DirtyIsValid, Clean, Alone

LEMMA ScanStays ==
  ASSUME UNCHANGED scan_index PROVE ScanWay' = ScanWay /\ ScanSet' = ScanSet
BY DEF ScanWay, ScanSet

(* The next place is the first after the present one.                      *)
LEMMA ScanAdvances ==
  ASSUME TypeOK, scan_index # LastScan, scan_index' = scan_index + 1
  PROVE  \A w \in Ways, s \in Sets :
           w > ScanWay \/ (w = ScanWay /\ s > ScanSet)
             => w > ScanWay' \/ (w = ScanWay' /\ s >= ScanSet')
<1>1. scan_index \in 0 .. 2 * NSets - 1 /\ scan_index + 1 \in 0 .. 2 * NSets - 1
  BY CacheAssumption DEF TypeOK, LastScan
<1>2. /\ ScanWay = IF scan_index < NSets THEN 0 ELSE 1
      /\ ScanSet = IF scan_index < NSets THEN scan_index ELSE scan_index - NSets
  BY <1>1, ScanPlace DEF ScanWay, ScanSet
<1>3. /\ scan_index' \in 0 .. 2 * NSets - 1
      /\ ScanWay' = scan_index' \div NSets /\ ScanSet' = scan_index' % NSets
  BY <1>1 DEF ScanWay, ScanSet
<1>4. /\ ScanWay' = IF scan_index' < NSets THEN 0 ELSE 1
      /\ ScanSet' = IF scan_index' < NSets THEN scan_index' ELSE scan_index' - NSets
  BY <1>3, ScanPlace
<1>5. NSets \in Nat /\ NSets > 0
  BY CacheAssumption
<1>6. QED
  BY <1>1, <1>2, <1>4, <1>5, SMT DEF Ways, Sets

LEMMA MachineStep == CacheInv /\ [Next]_vars => Machine'
<1> SUFFICES ASSUME CacheInv, [Next]_vars PROVE Machine'
  OBVIOUS
<1> TypeOK
  BY DEF CacheInv
<1> Machine /\ Copies
  BY DEF CacheInv
<1> USE DEF Quiet, Goto, Machine, Ports, Modes, Victims, Refilling, Swept, Fetching,
            Evicting, Sweeping, LookupStates, RefillStates, WbStates, ScanStates,
            BypassStates, WritesBack, ReadsOf
<1>2. CASE Accept
  <2>1. \/ state' = "RESPONSE"
        \/ state' = "BYPASS_REQ" /\ req'.kind = "uncached" /\ response' = "OKAY"
        \/ /\ state' = "LOOKUP_READ" /\ req'.kind = "cached" /\ response' = "OKAY"
           /\ ~(READ_ONLY /\ req'.write)
    <3>1. PICK r \in Requests :
            /\ req' = r
            /\ LET refused == r.kind = "refused" \/ (READ_ONLY /\ r.write)
               IN /\ response' = IF refused THEN "ERROR" ELSE "OKAY"
                  /\ Quiet(IF refused THEN "RESPONSE"
                           ELSE IF r.kind = "uncached" THEN "BYPASS_REQ"
                           ELSE "LOOKUP_READ")
      BY <1>2 DEF Accept
    <3>2. r.kind \in {"refused", "uncached", "cached"}
      BY CacheAssumption DEF AllRequests
    <3>3. QED
      BY <3>1, <3>2
  <2>2. write_q' = NoWrite /\ ~cleaning'
    BY <1>2, QuietEdge DEF Accept
  <2>3. QED
    BY <2>1, <2>2
<1>3. CASE StartMaintenance
  <2>1. ScanWay' = 0 /\ ScanSet' = 0
    <3>1. 0 \in 0 .. 2 * NSets - 1
      BY CacheAssumption
    <3>2. scan_index' = 0
      BY <1>3 DEF StartMaintenance
    <3>3. QED
      BY <3>1, <3>2, ScanPlace, CacheAssumption DEF ScanWay, ScanSet
  <2>2. \A w \in Ways, s \in Sets : w > 0 \/ (w = 0 /\ s >= 0)
    BY DEF Ways, Sets
  <2>3. QED
    BY <1>3, <2>1, <2>2, QuietEdge DEF StartMaintenance
<1>4. CASE LookupRead
  <2>1. read_q' = req.set
    BY <1>4 DEF LookupRead, Passes, RamEdge
  <2>2. QED
    BY <1>4, <2>1, QuietEdge DEF LookupRead, Passes, meta, refill, maint, answer
<1>5. CASE LookupWait
  <2>1. write_q = NoWrite /\ read_q = req.set /\ req.set \in Sets
    BY <1>5, RequestType DEF LookupWait, Passes
  <2>2. \A w \in Ways : q'[w] = Line'[w][req.set] /\ qt'[w] = Tag'[w][req.set]
    BY <1>5, <2>1, ReadLands DEF LookupWait, Passes
  <2>3. QED
    BY <1>5, <2>2, QuietEdge DEF LookupWait, Passes, meta, refill, maint, answer
<1>6. CASE Respond \/ BypassReq \/ Stall
  <2>1. write_q' = NoWrite /\ Line' = Line /\ Tag' = Tag
    BY <1>6, QuietEdge DEF Respond, BypassReq, Stall, Passes
  <2>2. /\ ScanWay' = ScanWay /\ ScanSet' = ScanSet
        /\ UNCHANGED <<meta, req, refill, wb, maint, answer, mem>>
    BY <1>6, ScanStays DEF Respond, BypassReq, Stall, Passes, maint
  <2>3. CASE Respond \/ BypassReq
    BY <2>1, <2>3 DEF Respond, BypassReq, Passes, meta, refill, maint, answer
  <2>4. CASE Stall
    <3>1. state' = state /\ state \notin {"LOOKUP_WAIT", "SCAN_WAIT", "LOOKUP", "SCAN_READ"}
      BY <2>4 DEF Stall, Passes
    <3>2. QED
      BY <2>1, <2>2, <3>1 DEF meta, refill, maint, answer
  <2>5. QED
    BY <1>6, <2>3, <2>4
<1>7. CASE ScanWait
  <2>1. write_q = NoWrite /\ read_q = ScanSet /\ ScanSet \in Sets
    BY <1>7, ScanType DEF ScanWait, Passes
  <2>2. \A w \in Ways : q'[w] = Line'[w][ScanSet] /\ qt'[w] = Tag'[w][ScanSet]
    BY <1>7, <2>1, ReadLands DEF ScanWait, Passes
  <2>3. ScanWay' = ScanWay /\ ScanSet' = ScanSet
    BY <1>7, ScanStays DEF ScanWait, Passes, maint
  <2>4. QED
    BY <1>7, <2>2, <2>3, QuietEdge DEF ScanWait, Passes, meta, refill, maint, answer
<1>8. CASE LookupHit
  <2>1. state' = "RESPONSE" /\ cleaning' = cleaning
    BY <1>8 DEF LookupHit, maint
  <2>2. QED
    BY <1>8, <2>1 DEF LookupHit
<1>9. CASE LookupMiss
  <2>1. write_q' = NoWrite /\ Line' = Line /\ Tag' = Tag
    BY <1>9, QuietEdge DEF LookupMiss
  <2>2. \A w \in Ways : q[w] = Line[w][req.set] /\ qt[w] = Tag[w][req.set]
    BY <1>9 DEF LookupMiss
  <2>3. \A w \in Ways : valid[w][req.set] => Tag[w][req.set] # req.tag
    BY <1>9, <2>2 DEF LookupMiss, Hit
  <2>4. UNCHANGED <<valid, dirty, lru, req, cleaning, maintenance_fault, response, mem>>
    BY <1>9 DEF LookupMiss, meta, maint, answer
  <2>5. CASE VictimDirty
    <3>1. victim' = lru[req.set] /\ dirty[lru[req.set]][req.set]
      BY <1>9, <2>5 DEF LookupMiss, Replaced, VictimDirty, Ways
    <3>2. /\ wb'.line = Line[lru[req.set]][req.set] /\ wb'.set = req.set
          /\ wb'.tag = Tag[lru[req.set]][req.set]
      BY <1>9, <2>2, <2>5, ReplacedType DEF LookupMiss
    <3>3. state' = "WB_AW"
      BY <1>9, <2>5 DEF LookupMiss
    <3>4. QED
      BY <1>9, <2>1, <2>3, <2>4, <3>1, <3>2, <3>3 DEF LookupMiss
  <2>6. CASE ~VictimDirty
    <3>1. ~dirty[Replaced][req.set]
      <4>1. req.set \in Sets
        BY RequestType
      <4>2. \A w \in Ways : dirty[w][req.set] => valid[w][req.set]
        BY <4>1 DEF Copies, DirtyIsValid
      <4>3. QED
        BY <2>6, <4>2, ReplacedType DEF VictimDirty, Replaced, Ways
    <3>2. state' = "REFILL_AR" /\ victim' = Replaced /\ beat' = 0
      BY <1>9, <2>6 DEF LookupMiss
    <3>3. QED
      BY <1>9, <2>1, <2>3, <2>4, <3>1, <3>2 DEF LookupMiss
  <2>7. QED
    BY <2>5, <2>6
<1>10. CASE WbAw \/ WbW
  <2>1. write_q' = NoWrite /\ Line' = Line /\ Tag' = Tag
    BY <1>10, QuietEdge DEF WbAw, Addressed, WbW
  <2>2. /\ ScanWay' = ScanWay /\ ScanSet' = ScanSet
        /\ UNCHANGED <<meta, req, victim, wb, maint, answer, mem>>
    BY <1>10, ScanStays DEF WbAw, Addressed, WbW, maint
  <2>3. state \in WbStates /\ state' \in WbStates
    BY <1>10 DEF WbAw, Addressed, WbW
  <2>4. QED
    BY <2>1, <2>2, <2>3 DEF meta, maint, answer
<1>11. CASE RefillAr
  <2>1. write_q' = NoWrite /\ Line' = Line /\ Tag' = Tag
    BY <1>11, QuietEdge DEF RefillAr, Addressed
  <2>2. QED
    BY <1>11, <2>1 DEF RefillAr, Addressed, meta, maint, answer
<1>12. CASE RefillFirst
  <2>1. write_q' = NoWrite /\ Line' = Line /\ Tag' = Tag
    BY <1>12, QuietEdge DEF RefillFirst
  <2>2. QED
    BY <1>12, <2>1 DEF RefillFirst, meta, maint, answer
<1>13. CASE RefillFault \/ BypassRsp
  <2>1. write_q' = NoWrite /\ state' = "RESPONSE" /\ cleaning' = cleaning
    BY <1>13, QuietEdge DEF RefillFault, BypassRsp, maint
  <2>2. QED
    BY <1>13, <2>1 DEF RefillFault, BypassRsp
<1>14. CASE RefillLast
  BY <1>14 DEF RefillLast, maint, answer
<1>15. CASE WbB /\ cleaning
  <2>1. /\ write_q' = NoWrite /\ Line' = Line /\ Tag' = Tag
        /\ cleaning' /\ ~maintenance_fault'
    BY <1>15, QuietEdge DEF WbB, CleanedLine
  <2>2. ScanWay \in Ways /\ ScanSet \in Sets
    BY ScanType
  <2>3. \A w \in Ways, s \in Sets :
          dirty'[w][s] => /\ dirty[w][s]
                          /\ w > ScanWay \/ (w = ScanWay /\ s > ScanSet)
    <3>1. dirty' = [dirty EXCEPT ![ScanWay][ScanSet] = FALSE]
      BY <1>15, Zenon DEF WbB, CleanedLine
    <3>2. \A w \in Ways, s \in Sets :
            dirty'[w][s] => dirty[w][s] /\ ~(w = ScanWay /\ s = ScanSet)
      BY <2>2, <3>1, SetBit, ClearBit DEF TypeOK
    <3>3. \A w \in Ways, s \in Sets :
            dirty[w][s] => w > ScanWay \/ (w = ScanWay /\ s >= ScanSet)
      BY <1>15 DEF WbB
    <3>4. QED
      BY <2>2, <3>2, <3>3 DEF Ways, Sets
  <2>4. CASE scan_index = LastScan
    <3>1. state' = "MAINT_DONE"
      BY <1>15, <2>4 DEF WbB, CleanedLine
    <3>2. ScanWay = 1 /\ ScanSet = NSets - 1
      BY <2>4, ScanPlace, CacheAssumption DEF LastScan, ScanWay, ScanSet, TypeOK
    <3>3. \A w \in Ways, s \in Sets : ~dirty'[w][s]
      BY <2>3, <3>2, CacheAssumption DEF Ways, Sets
    <3>4. QED
      BY <2>1, <3>1, <3>3
  <2>5. CASE scan_index # LastScan
    <3>1. state' = "SCAN" /\ scan_index' = scan_index + 1
      BY <1>15, <2>5 DEF WbB, CleanedLine
    <3>2. \A w \in Ways, s \in Sets :
            w > ScanWay \/ (w = ScanWay /\ s > ScanSet)
              => w > ScanWay' \/ (w = ScanWay' /\ s >= ScanSet')
      BY <2>5, <3>1, ScanAdvances
    <3>3. QED
      BY <2>1, <2>3, <3>1, <3>2
  <2>6. QED
    BY <2>4, <2>5
<1>16. CASE WbB /\ ~cleaning
  <2>1. /\ write_q' = NoWrite /\ Line' = Line /\ Tag' = Tag /\ state' = "REFILL_AR"
        /\ UNCHANGED <<req, victim, cleaning, maintenance_fault, response>>
    BY <1>16, QuietEdge DEF WbB, EvictedLine, answer
  <2>2. req.set \in Sets /\ victim \in Ways
    BY RequestType DEF TypeOK
  <2>3. ~dirty'[victim][req.set]
    BY <1>16, <2>2 DEF WbB, EvictedLine, TypeOK
  <2>4. \A w \in Ways : valid'[w][req.set] => valid[w][req.set]
    <3>1. valid' = [valid EXCEPT ![victim][req.set] = FALSE]
      BY <1>16, Zenon DEF WbB, EvictedLine
    <3>2. QED
      BY <2>2, <3>1, SetBit, ClearBit DEF TypeOK
  <2>5. QED
    BY <1>16, <2>1, <2>3, <2>4 DEF WbB
<1>17. CASE WbFault
  <2>1. /\ write_q' = NoWrite /\ cleaning' = cleaning
        /\ IF cleaning THEN state' = "MAINT_DONE" /\ maintenance_fault'
                       ELSE state' = "RESPONSE"
    BY <1>17, QuietEdge DEF WbFault
  <2>2. QED
    BY <2>1
<1>18. CASE Scan
  <2>1. /\ write_q' = NoWrite /\ Line' = Line /\ Tag' = Tag /\ read_q' = ScanSet
        /\ UNCHANGED <<valid, dirty, cleaning, maintenance_fault>>
        /\ cleaning /\ ~maintenance_fault
    BY <1>18, QuietEdge DEF Scan, RamEdge, meta
  <2>2. \A w \in Ways, s \in Sets :
          dirty[w][s] => w > ScanWay \/ (w = ScanWay /\ s >= ScanSet)
    BY <1>18 DEF Scan
  <2>3. ScanWay \in Ways /\ ScanSet \in Sets
    BY ScanType
  <2>4. CASE ~READ_ONLY /\ dirty[ScanWay][ScanSet]
    <3>1. state' = "SCAN_WAIT" /\ UNCHANGED scan_index
      BY <1>18, <2>4 DEF Scan
    <3>2. ScanWay' = ScanWay /\ ScanSet' = ScanSet
      BY <3>1, ScanStays
    <3>3. QED
      BY <2>1, <2>2, <2>4, <3>1, <3>2
  <2>5. CASE ~(~READ_ONLY /\ dirty[ScanWay][ScanSet])
    <3>1. ~dirty[ScanWay][ScanSet]
      BY <2>3, <2>5 DEF Copies, DirtyIsValid
    <3>2. \A w \in Ways, s \in Sets :
            dirty[w][s] => w > ScanWay \/ (w = ScanWay /\ s > ScanSet)
      BY <2>2, <2>3, <3>1 DEF Sets
    <3>3. CASE scan_index = LastScan
      <4>1. state' = "MAINT_DONE"
        BY <1>18, <2>5, <3>3 DEF Scan
      <4>2. ScanWay = 1 /\ ScanSet = NSets - 1
        BY <3>3, ScanPlace, CacheAssumption DEF LastScan, ScanWay, ScanSet, TypeOK
      <4>3. \A w \in Ways, s \in Sets : ~dirty[w][s]
        BY <3>2, <4>2, CacheAssumption DEF Ways, Sets
      <4>4. QED
        BY <2>1, <4>1, <4>3
    <3>4. CASE scan_index # LastScan
      <4>1. state' = "SCAN" /\ scan_index' = scan_index + 1
        BY <1>18, <2>5, <3>4 DEF Scan
      <4>2. \A w \in Ways, s \in Sets :
              w > ScanWay \/ (w = ScanWay /\ s > ScanSet)
                => w > ScanWay' \/ (w = ScanWay' /\ s >= ScanSet')
        BY <3>4, <4>1, ScanAdvances
      <4>3. QED
        BY <2>1, <3>2, <4>1, <4>2
    <3>5. QED
      BY <3>3, <3>4
  <2>6. QED
    BY <2>4, <2>5
<1>19. CASE ScanRead
  <2>1. /\ write_q' = NoWrite /\ Line' = Line /\ Tag' = Tag /\ state' = "WB_AW"
        /\ UNCHANGED <<valid, dirty, cleaning, maintenance_fault>>
        /\ ScanWay' = ScanWay /\ ScanSet' = ScanSet
    BY <1>19, QuietEdge, ScanStays DEF ScanRead, meta, maint
  <2>2. /\ wb'.line = Line[ScanWay][ScanSet] /\ wb'.set = ScanSet
        /\ wb'.tag = Tag[ScanWay][ScanSet]
    BY <1>19, ScanType DEF ScanRead
  <2>3. QED
    BY <1>19, <2>1, <2>2 DEF ScanRead
<1>20. CASE MaintDone
  <2>1. /\ write_q' = NoWrite /\ UNCHANGED <<dirty, cleaning, maintenance_fault>>
        /\ state' \in {"IDLE", "MAINT_DONE"} /\ state = "MAINT_DONE"
    BY <1>20, QuietEdge DEF MaintDone, maint
  <2>2. QED
    BY <2>1
<1>21. CASE Reset
  BY <1>21 DEF Reset
<1>22. CASE UNCHANGED vars
  <2>1. Line' = Line /\ Tag' = Tag /\ ScanWay' = ScanWay /\ ScanSet' = ScanSet
    BY <1>22, ScanStays
    DEF vars, ram, maint, Line, Tag, LineOf, TagOf, Pending, Written
  <2>2. QED
    BY <1>22, <2>1 DEF vars, meta, ram, refill, maint, answer
<1>23. QED
  BY <1>2, <1>3, <1>4, <1>5, <1>6, <1>7, <1>8, <1>9, <1>10, <1>11, <1>12, <1>13,
     <1>14, <1>15, <1>16, <1>17, <1>18, <1>19, <1>20, <1>21, <1>22 DEF Next, Advance


LEMMA CopiesStep == CacheInv /\ [Next]_vars => Copies'
<1> SUFFICES ASSUME CacheInv, [Next]_vars PROVE Copies'
  OBVIOUS
<1> TypeOK
  BY DEF CacheInv
<1>1. Machine /\ Copies
  BY DEF CacheInv
<1>2. CASE \/ Accept \/ StartMaintenance \/ LookupRead \/ LookupWait \/ LookupMiss
           \/ WbAw \/ WbW \/ RefillAr \/ RefillFirst \/ RefillFault \/ Respond
           \/ BypassReq \/ BypassRsp \/ Scan \/ ScanWait \/ ScanRead \/ Stall
  <2>1. RamEdge(NoWrite) /\ UNCHANGED <<meta, mem>>
    BY <1>2
    DEF Accept, StartMaintenance, LookupRead, LookupWait, LookupMiss, WbAw, WbW,
        RefillAr, RefillFirst, RefillFault, Respond, BypassReq, BypassRsp, Scan,
        ScanWait, ScanRead, Stall, Passes, Addressed, Quiet
  <2>2. QED
    BY <1>1, <2>1, CopiesStay DEF meta
<1>3. CASE LookupHit
  <2>1. /\ HitWay \in Ways /\ req.set \in Sets /\ req.tag \in Tags
        /\ valid[HitWay][req.set] /\ UNCHANGED <<valid, mem>>
    BY <1>3, RequestType, HitWayType DEF LookupHit, Hit, HitWay, Ways
  <2>2. CASE ~req.write
    BY <1>1, <1>3, <2>1, <2>2, CopiesStay DEF LookupHit
  <2>3. CASE req.write
    <3>1. RamEdge(HitWrite) /\ dirty' = [dirty EXCEPT ![HitWay][req.set] = TRUE]
      BY <1>3, <2>3, Zenon DEF LookupHit, HitWrite
    <3>2. \A w \in Ways, s \in Sets :
            /\ dirty'[w][s] <=> (w = HitWay /\ s = req.set) \/ dirty[w][s]
            /\ Tag'[w][s] = Tag[w][s]
            /\ ~(w = HitWay /\ s = req.set) => Line'[w][s] = Line[w][s]
      <4>1. HitWrite.way = HitWay /\ HitWrite.set = req.set /\ ~HitWrite.refill
        BY DEF HitWrite
      <4>2. dirty \in [Ways -> [Sets -> BOOLEAN]]
        BY DEF TypeOK
      <4>3. \A w \in Ways, s \in Sets :
              dirty'[w][s] <=> (w = HitWay /\ s = req.set) \/ dirty[w][s]
        BY <2>1, <3>1, <4>2, SetBit, ClearBit
      <4>4. \A w \in Ways, s \in Sets :
              /\ Tag'[w][s] = Tag[w][s]
              /\ ~(w = HitWay /\ s = req.set) => Line'[w][s] = Line[w][s]
        BY <3>1, <4>1, RamWrites, WritingEdge
      <4>5. QED
        BY <4>3, <4>4
    <3>3. ~READ_ONLY
      BY <1>1, <1>3, <2>3 DEF LookupHit, Machine, Modes, Fetching, LookupStates
    <3>4. DirtyIsValid'
      BY <1>1, <2>1, <3>2, <3>3 DEF Copies, DirtyIsValid
    <3>5. Clean'
      BY <1>1, <2>1, <3>2 DEF Copies, Clean
    <3>6. Alone'
      BY <1>1, <2>1, <3>2 DEF Copies, Alone, Ways
    <3>7. QED
      BY <3>4, <3>5, <3>6 DEF Copies
  <2>4. QED
    BY <2>2, <2>3
<1>4. CASE WbB \/ WbFault
  <2>1. PICK w \in Ways, s \in Sets :
          /\ dirty[w][s] /\ wb.set = s /\ wb.tag = Tag[w][s] /\ wb.line = Line[w][s]
          /\ IF cleaning THEN w = ScanWay /\ s = ScanSet ELSE w = victim /\ s = req.set
    BY <1>1, <1>4, ScanType, RequestType
    DEF WbB, WbFault, Machine, Victims, WritesBack, Evicting, Sweeping, WbStates, TypeOK
  <2>2. Line' = Line /\ Tag' = Tag /\ Line[w][s] \in Lines
    BY <1>4, QuietEdge, LineTypes DEF WbB, WbFault, CleanedLine, EvictedLine, Quiet
  <2>3. PICK taken \in SUBSET Beats :
          mem' = Stored(taken) /\ (WbB => taken = Beats)
    BY <1>4 DEF WbB, WbFault
  <2>4. \A v \in Ways, u \in Sets : valid[v][u] /\ ~(v = w /\ u = s) =>
          mem'[Tag[v][u]][u] = mem[Tag[v][u]][u]
    <3>1. SUFFICES ASSUME NEW v \in Ways, NEW u \in Sets, valid[v][u], ~(v = w /\ u = s)
                   PROVE  mem'[Tag[v][u]][u] = mem[Tag[v][u]][u]
      OBVIOUS
    <3>2. valid[w][s]
      BY <1>1, <2>1 DEF Copies, DirtyIsValid
    <3>3. ~(Tag[v][u] = wb.tag /\ u = wb.set)
      BY <1>1, <2>1, <3>1, <3>2 DEF Copies, Alone, Ways
    <3>4. QED
      BY <2>3, <3>3, StoredType, LineTypes
  <2>5. CASE WbB
    <3>1. mem'[Tag[w][s]][s] = Line[w][s]
      <4>1. mem[Tag[w][s]][s] \in Lines /\ Tag[w][s] \in Tags
        BY LineTypes DEF TypeOK
      <4>2. Written(mem[Tag[w][s]][s], Beats, Line[w][s]) = Line[w][s]
        BY <2>2, <4>1 DEF Written, Lines
      <4>3. mem'[Tag[w][s]][s] = Written(mem[Tag[w][s]][s], Beats, Line[w][s])
        BY <2>1, <2>3, <2>5, <4>1, StoredType
      <4>4. QED
        BY <4>2, <4>3
    <3>2. /\ dirty' = [dirty EXCEPT ![w][s] = FALSE]
          /\ valid' = valid \/ valid' = [valid EXCEPT ![w][s] = FALSE]
      BY <2>1, <2>5, Zenon DEF WbB, CleanedLine, EvictedLine
    <3>3. \A v \in Ways, u \in Sets :
            /\ dirty'[v][u] <=> dirty[v][u] /\ ~(v = w /\ u = s)
            /\ valid'[v][u] => valid[v][u]
            /\ ~(v = w /\ u = s) => (valid'[v][u] <=> valid[v][u])
      <4>1. /\ dirty \in [Ways -> [Sets -> BOOLEAN]]
            /\ valid \in [Ways -> [Sets -> BOOLEAN]]
        BY DEF TypeOK
      <4>2. \A v \in Ways, u \in Sets :
              dirty'[v][u] <=> dirty[v][u] /\ ~(v = w /\ u = s)
        BY <3>2, <4>1, SetBit, ClearBit
      <4>3. CASE valid' = valid
        BY <4>2, <4>3
      <4>4. CASE valid' = [valid EXCEPT ![w][s] = FALSE]
        <5>1. \A v \in Ways, u \in Sets :
                valid'[v][u] <=> valid[v][u] /\ ~(v = w /\ u = s)
          BY <4>1, <4>4, SetBit, ClearBit
        <5>2. QED
          BY <4>2, <5>1
      <4>5. QED
        BY <3>2, <4>3, <4>4
    <3>4. DirtyIsValid'
      BY <1>1, <3>3 DEF Copies, DirtyIsValid
    <3>5. Clean'
      BY <1>1, <2>2, <2>4, <3>1, <3>3 DEF Copies, Clean
    <3>6. Alone'
      BY <1>1, <2>2, <3>3 DEF Copies, Alone, Ways
    <3>7. QED
      BY <3>4, <3>5, <3>6 DEF Copies
  <2>6. CASE WbFault
    <3>1. UNCHANGED <<valid, dirty>>
      BY <2>6 DEF WbFault, meta
    <3>2. Clean'
      BY <1>1, <2>1, <2>2, <2>4, <3>1 DEF Copies, Clean
    <3>3. QED
      BY <1>1, <2>2, <3>1, <3>2 DEF Copies, DirtyIsValid, Alone
  <2>7. QED
    BY <1>4, <2>5, <2>6
<1>5. CASE RefillLast
  <2>1. RamEdge(RefillWrite) /\ mem' = mem
    BY <1>5, Zenon DEF RefillLast, RefillWrite, RefilledLine
  <2>2. req.set \in Sets /\ req.tag \in Tags /\ victim \in Ways
    BY RequestType DEF TypeOK
  <2>3. /\ RefillWrite.way = victim /\ RefillWrite.set = req.set
        /\ RefillWrite.tag = req.tag /\ RefillWrite.line = RefilledLine
        /\ RefillWrite.mask = Beats /\ RefillWrite.refill
    BY DEF RefillWrite
  <2>4. /\ Tag'[victim][req.set] = req.tag
        /\ Line'[victim][req.set] = Written(Line[victim][req.set], Beats, RefilledLine)
        /\ \A w \in Ways, s \in Sets : ~(w = victim /\ s = req.set) =>
             Line'[w][s] = Line[w][s] /\ Tag'[w][s] = Tag[w][s]
    BY <2>1, <2>2, <2>3, RamWrites, WritingEdge
  <2>5. Line'[victim][req.set] = mem[req.tag][req.set]
    <3>1. mem[req.tag][req.set] \in Lines /\ Line[victim][req.set] \in Lines
      BY <2>2, LineTypes DEF TypeOK
    <3>2. refill_lo = mem[req.tag][req.set][0]
      BY <1>1, <1>5 DEF RefillLast, Machine, Refilling
    <3>3. RefilledLine = mem[req.tag][req.set]
      BY <3>1, <3>2 DEF RefilledLine, Lines, Beats
    <3>4. QED
      BY <2>4, <3>1, <3>3 DEF Written, Lines
  <2>6. \A w \in Ways, s \in Sets :
          /\ dirty'[w][s] <=> dirty[w][s] /\ ~(w = victim /\ s = req.set)
          /\ valid'[w][s] <=> (w = victim /\ s = req.set) \/ valid[w][s]
    <3>1. /\ dirty' = [dirty EXCEPT ![victim][req.set] = FALSE]
          /\ valid' = [valid EXCEPT ![victim][req.set] = TRUE]
      BY <1>5, Zenon DEF RefillLast, Installed
    <3>2. /\ dirty \in [Ways -> [Sets -> BOOLEAN]]
          /\ valid \in [Ways -> [Sets -> BOOLEAN]]
      BY DEF TypeOK
    <3>3. QED
      BY <2>2, <3>1, <3>2, SetBit, ClearBit
  <2>7. \A w \in Ways : valid[w][req.set] => Tag[w][req.set] # req.tag
    BY <1>1, <1>5 DEF RefillLast, Machine, Refilling, RefillStates
  <2>8. DirtyIsValid'
    BY <1>1, <2>6 DEF Copies, DirtyIsValid
  <2>9. Clean'
    BY <1>1, <2>1, <2>2, <2>4, <2>5, <2>6 DEF Copies, Clean
  <2>10. Alone'
    BY <1>1, <2>2, <2>4, <2>6, <2>7 DEF Copies, Alone, Ways
  <2>11. QED
    BY <2>8, <2>9, <2>10 DEF Copies
<1>6. CASE MaintDone
  <2>1. Line' = Line /\ Tag' = Tag /\ UNCHANGED <<dirty, mem>>
    BY <1>6, QuietEdge DEF MaintDone, Quiet
  <2>2. CASE invalidating /\ ~maintenance_fault
    <3>1. \A w \in Ways, s \in Sets : ~valid'[w][s]
      BY <1>6, <2>2 DEF MaintDone
    <3>2. \A w \in Ways, s \in Sets : ~dirty[w][s]
      BY <1>1, <1>6, <2>2 DEF MaintDone, Machine, Swept
    <3>3. QED
      BY <2>1, <3>1, <3>2 DEF Copies, DirtyIsValid, Clean, Alone, Ways
  <2>3. CASE ~(invalidating /\ ~maintenance_fault)
    <3>1. UNCHANGED valid
      BY <1>6, <2>3 DEF MaintDone
    <3>2. QED
      BY <1>1, <2>1, <3>1 DEF Copies, DirtyIsValid, Clean, Alone
  <2>4. QED
    BY <2>2, <2>3
<1>7. CASE Reset
  <2>1. \A w \in Ways, s \in Sets : ~valid'[w][s] /\ ~dirty'[w][s]
    BY <1>7 DEF Reset
  <2>2. QED
    BY <2>1 DEF Copies, DirtyIsValid, Clean, Alone, Ways
<1>8. CASE UNCHANGED vars
  <2>1. Line' = Line /\ Tag' = Tag /\ UNCHANGED <<valid, dirty, mem>>
    BY <1>8 DEF vars, ram, meta, Line, Tag, LineOf, TagOf, Pending, Written
  <2>2. QED
    BY <1>1, <2>1 DEF Copies, DirtyIsValid, Clean, Alone
<1>9. QED
  BY <1>2, <1>3, <1>4, <1>5, <1>6, <1>7, <1>8 DEF Next, Advance

(* The inductive invariant: the machine's part of it holds the copies      *)
(* together, and the copies make what the machine reads the truth.         *)
THEOREM CacheInvariant == Spec => []CacheInv
<1>1. Init => CacheInv
  BY InitInv
<1>2. CacheInv /\ [Next]_vars => CacheInv'
  BY StepTypes, MachineStep, CopiesStep DEF CacheInv
<1>3. QED
  BY <1>1, <1>2, PTL DEF Spec

(* l1_cache.sv:226-259, 280: a line is in one way at most and a clean copy *)
(* agrees with memory, whatever fails, is cleaned or is invalidated.       *)
THEOREM CacheCoherent == Spec => []Coherent
<1>1. CacheInv => Coherent
  BY CopiesAreThose DEF CacheInv, Copies, Coherent
<1>2. QED
  BY <1>1, CacheInvariant, PTL


-----------------------------------------------------------------------------
(* What the cache and the memory hold together.                            *)
CurrentIs ==
  /\ Current \in [Tags -> [Sets -> Lines]]
  /\ \A t \in Tags, s \in Sets :
       /\ \A w \in Ways : valid[w][s] /\ Tag[w][s] = t => Current[t][s] = Line[w][s]
       /\ (\A w \in Ways : ~(valid[w][s] /\ Tag[w][s] = t)) => Current[t][s] = mem[t][s]

LEMMA CurrentHolds == CacheInv => CurrentIs
<1> SUFFICES ASSUME CacheInv PROVE CurrentIs
  OBVIOUS
<1>1. TypeOK /\ Alone
  BY DEF CacheInv, Copies
<1>2. \A t \in Tags, s \in Sets :
        Current[t][s] = IF valid[0][s] /\ Tag[0][s] = t THEN Line[0][s]
                        ELSE IF valid[1][s] /\ Tag[1][s] = t THEN Line[1][s]
                        ELSE mem[t][s]
  <2>1. 0 \in Ways /\ 1 \in Ways
    BY DEF Ways
  <2>2. QED
    BY <1>1, <2>1, LineTypes DEF Current, Holds
<1>3. \A t \in Tags, s \in Sets : Current[t][s] \in Lines
  <2>1. \A t \in Tags, s \in Sets :
          mem[t][s] \in Lines /\ Line[0][s] \in Lines /\ Line[1][s] \in Lines
    BY <1>1, LineTypes DEF TypeOK, Ways
  <2>2. QED
    BY <1>2, <2>1
<1>4. Current \in [Tags -> [Sets -> Lines]]
  BY <1>3 DEF Current
<1>5. ASSUME NEW t \in Tags, NEW s \in Sets, NEW w \in Ways,
             valid[w][s], Tag[w][s] = t
      PROVE  Current[t][s] = Line[w][s]
  BY <1>1, <1>2, <1>5 DEF Alone, Ways
<1>6. ASSUME NEW t \in Tags, NEW s \in Sets,
             \A w \in Ways : ~(valid[w][s] /\ Tag[w][s] = t)
      PROVE  Current[t][s] = mem[t][s]
  BY <1>2, <1>6 DEF Ways
<1>7. QED
  BY <1>4, <1>5, <1>6 DEF CurrentIs

(* With nothing dirty, memory alone holds all of it.                       *)
LEMMA CleanIsMemory ==
  ASSUME CacheInv, \A w \in Ways, s \in Sets : ~dirty[w][s]
  PROVE  mem = Current
<1>1. CurrentIs /\ TypeOK /\ Clean
  BY CurrentHolds DEF CacheInv, Copies
<1>2. ASSUME NEW t \in Tags, NEW s \in Sets PROVE mem[t][s] = Current[t][s]
  <2>1. CASE \E w \in Ways : valid[w][s] /\ Tag[w][s] = t
    BY <1>1, <2>1 DEF CurrentIs, Clean
  <2>2. CASE \A w \in Ways : ~(valid[w][s] /\ Tag[w][s] = t)
    BY <1>1, <2>2 DEF CurrentIs
  <2>3. QED
    BY <2>1, <2>2
<1>3. mem \in [Tags -> [Sets -> Lines]] /\ Current \in [Tags -> [Sets -> Lines]]
  BY <1>1 DEF TypeOK, CurrentIs
<1>4. QED
  BY <1>2, <1>3

(* l1_cache.sv:267-282: maintenance that reports no fault has put every    *)
(* store in memory, in any number of sets.                                 *)
THEOREM CleanIsWhole == Spec => []CleanIsComplete
<1>1. CacheInv => CleanIsComplete
  <2>1. CacheInv /\ state = "MAINT_DONE" /\ ~maintenance_fault
          => \A w \in Ways, s \in Sets : ~dirty[w][s]
    BY DEF CacheInv, Machine, Swept
  <2>2. QED
    BY <2>1, CleanIsMemory DEF CleanIsComplete
<1>2. QED
  BY <1>1, CacheInvariant, PTL

(* Two states hold the same if they show the same at each address.         *)
LEMMA SameContents ==
  ASSUME CurrentIs, CurrentIs',
         \A t \in Tags, s \in Sets : Current'[t][s] = Current[t][s]
  PROVE  Current' = Current
BY DEF CurrentIs

LEMMA ContentsStep ==
  ASSUME CacheInv, CacheInv', [Next]_vars
  PROVE  \/ Reset
         \/ /\ LookupHit /\ req.write
            /\ Current' = [Current EXCEPT ![req.tag][req.set][req.beat] = req.value]
         \/ ~(LookupHit /\ req.write) /\ Current' = Current
<1>1. TypeOK /\ Machine /\ Copies
  BY DEF CacheInv
<1>2. CurrentIs /\ CurrentIs'
  <2>1. CurrentIs
    BY CurrentHolds
  <2>2. CacheInv' => CurrentIs'
    BY CurrentHolds, PTL
  <2>3. QED
    BY <2>1, <2>2
<1>3. ASSUME UNCHANGED <<Line, Tag, valid, mem>> PROVE Current' = Current
  <2>1. ASSUME NEW t \in Tags, NEW s \in Sets PROVE Current'[t][s] = Current[t][s]
    <3>1. CASE \E w \in Ways : valid[w][s] /\ Tag[w][s] = t
      BY <1>2, <1>3, <3>1 DEF CurrentIs
    <3>2. CASE \A w \in Ways : ~(valid[w][s] /\ Tag[w][s] = t)
      BY <1>2, <1>3, <3>2 DEF CurrentIs
    <3>3. QED
      BY <3>1, <3>2
  <2>2. QED
    BY <1>2, <2>1, SameContents
<1>4. CASE LookupHit /\ req.write
  <2>1. /\ HitWay \in Ways /\ req.set \in Sets /\ req.tag \in Tags /\ req.beat \in Beats
        /\ valid[HitWay][req.set] /\ qt[HitWay] = req.tag /\ UNCHANGED <<valid, mem>>
    BY <1>1, <1>4, RequestType, HitWayType DEF LookupHit, Hit, HitWay, Ways
  <2>2. Tag[HitWay][req.set] = req.tag
    BY <1>1, <1>4, <2>1 DEF LookupHit, Machine, Ports, ReadsOf
  <2>3. RamEdge(HitWrite)
    BY <1>4, Zenon DEF LookupHit, HitWrite
  <2>4. /\ HitWrite.way = HitWay /\ HitWrite.set = req.set /\ ~HitWrite.refill
        /\ HitWrite.mask = {req.beat} /\ HitWrite.line = [b \in Beats |-> req.value]
    BY DEF HitWrite
  <2>5. /\ \A w \in Ways, s \in Sets :
             /\ Tag'[w][s] = Tag[w][s]
             /\ ~(w = HitWay /\ s = req.set) => Line'[w][s] = Line[w][s]
        /\ Line'[HitWay][req.set] =
             Written(Line[HitWay][req.set], {req.beat}, [b \in Beats |-> req.value])
    <3>1. \A w \in Ways, s \in Sets :
            /\ Tag'[w][s] = Tag[w][s]
            /\ ~(w = HitWay /\ s = req.set) => Line'[w][s] = Line[w][s]
      BY <1>1, <2>3, <2>4, RamWrites, WritingEdge
    <3>2. Line'[HitWay][req.set] =
            Written(Line[HitWay][req.set], HitWrite.mask, HitWrite.line)
      BY <1>1, <2>1, <2>3, <2>4, RamWrites, WritingEdge
    <3>3. QED
      BY <2>4, <3>1, <3>2, Zenon
  <2>6. Line[HitWay][req.set] \in Lines /\ Current[req.tag][req.set] = Line[HitWay][req.set]
    BY <1>1, <1>2, <2>1, <2>2, LineTypes DEF CurrentIs
  <2>7. Current'[req.tag][req.set] = Line'[HitWay][req.set]
    <3>1. valid'[HitWay][req.set] /\ Tag'[HitWay][req.set] = req.tag
      BY <2>1, <2>2, <2>5
    <3>2. QED
      BY <1>2, <2>1, <3>1 DEF CurrentIs
  <2>8. Written(Line[HitWay][req.set], {req.beat}, [b \in Beats |-> req.value])
          = [Line[HitWay][req.set] EXCEPT ![req.beat] = req.value]
    BY <2>1, <2>6 DEF Written, Lines
  <2>9. ASSUME NEW t \in Tags, NEW s \in Sets, ~(t = req.tag /\ s = req.set)
        PROVE  Current'[t][s] = Current[t][s]
    <3>1. CASE \E w \in Ways : valid[w][s] /\ Tag[w][s] = t
      <4>1. PICK w \in Ways : valid[w][s] /\ Tag[w][s] = t
        BY <3>1
      <4>2. ~(w = HitWay /\ s = req.set)
        BY <2>2, <2>9, <4>1
      <4>3. QED
        BY <1>2, <2>1, <2>5, <4>1, <4>2 DEF CurrentIs
    <3>2. CASE \A w \in Ways : ~(valid[w][s] /\ Tag[w][s] = t)
      <4>1. \A w \in Ways : ~(valid'[w][s] /\ Tag'[w][s] = t)
        BY <2>1, <2>5, <3>2
      <4>2. mem' = mem
        BY <2>1
      <4>3. QED
        BY <1>2, <3>2, <4>1, <4>2 DEF CurrentIs
    <3>3. QED
      BY <3>1, <3>2
  <2>10. Current \in [Tags -> [Sets -> Lines]] /\ Current' \in [Tags -> [Sets -> Lines]]
    BY <1>2 DEF CurrentIs
  <2>11. DEFINE New == [Current[req.tag][req.set] EXCEPT ![req.beat] = req.value]
  <2>12. New \in Lines /\ Current'[req.tag][req.set] = New
    <3>1. req.value \in Values
      BY <1>1, RequestType
    <3>2. New \in Lines
      BY <2>1, <2>6, <3>1 DEF Lines
    <3>3. QED
      BY <2>5, <2>6, <2>7, <2>8, <3>2
  <2>13. [Current EXCEPT ![req.tag][req.set][req.beat] = req.value]
           = [Current EXCEPT ![req.tag][req.set] = New]
    BY Zenon
  <2>14. HIDE DEF New
  <2>15. Current' = [Current EXCEPT ![req.tag][req.set] = New]
    BY <2>1, <2>9, <2>10, <2>12
  <2>16. QED
    BY <1>4, <2>13, <2>15
<1>5. CASE \/ Accept \/ StartMaintenance \/ LookupRead \/ LookupWait \/ LookupMiss
           \/ WbAw \/ WbW \/ RefillAr \/ RefillFirst \/ RefillFault \/ Respond
           \/ BypassReq \/ BypassRsp \/ Scan \/ ScanWait \/ ScanRead \/ Stall
  <2>1. /\ RamEdge(NoWrite) /\ UNCHANGED <<meta, mem>>
        /\ \/ state # "LOOKUP"
           \/ \A w \in Ways : ~Hit(w)
    BY <1>5
    DEF Accept, StartMaintenance, LookupRead, LookupWait, LookupMiss, WbAw, WbW,
        RefillAr, RefillFirst, RefillFault, Respond, BypassReq, BypassRsp, Scan,
        ScanWait, ScanRead, Stall, Passes, Addressed, Quiet
  <2>2. ~LookupHit
    BY <2>1 DEF LookupHit
  <2>3. QED
    BY <1>1, <1>3, <2>1, <2>2, QuietEdge DEF meta
<1>6. CASE LookupHit /\ ~req.write
  <2>1. RamEdge(NoWrite) /\ UNCHANGED <<valid, mem>>
    BY <1>6 DEF LookupHit
  <2>2. QED
    BY <1>1, <1>3, <1>6, <2>1, QuietEdge
<1>7. CASE WbB \/ WbFault
  <2>1. PICK w \in Ways, s \in Sets :
          /\ dirty[w][s] /\ wb.set = s /\ wb.tag = Tag[w][s] /\ wb.line = Line[w][s]
          /\ IF cleaning THEN w = ScanWay /\ s = ScanSet ELSE w = victim /\ s = req.set
    BY <1>1, <1>7, ScanType, RequestType
    DEF WbB, WbFault, Machine, Victims, WritesBack, Evicting, Sweeping, WbStates, TypeOK
  <2>2. /\ Line' = Line /\ Tag' = Tag /\ Line[w][s] \in Lines /\ valid[w][s]
        /\ Tag[w][s] \in Tags
    BY <1>1, <1>7, <2>1, QuietEdge, LineTypes
    DEF WbB, WbFault, CleanedLine, EvictedLine, Quiet, Copies, DirtyIsValid
  <2>3. PICK taken \in SUBSET Beats :
          mem' = Stored(taken) /\ (WbB => taken = Beats)
    BY <1>7 DEF WbB, WbFault
  <2>4. \A t \in Tags, u \in Sets :
          ~(t = Tag[w][s] /\ u = s) => mem'[t][u] = mem[t][u]
    BY <1>1, <2>1, <2>3, StoredType
  <2>5. valid' = valid \/ (WbB /\ valid' = [valid EXCEPT ![w][s] = FALSE])
    BY <1>7, <2>1, Zenon DEF WbB, WbFault, CleanedLine, EvictedLine, meta
  <2>6. WbB => mem'[Tag[w][s]][s] = Line[w][s]
    <3>1. mem[Tag[w][s]][s] \in Lines
      BY <1>1, <2>2 DEF TypeOK
    <3>2. Written(mem[Tag[w][s]][s], Beats, Line[w][s]) = Line[w][s]
      BY <2>2, <3>1 DEF Written, Lines
    <3>3. WbB => mem'[Tag[w][s]][s] = Written(mem[Tag[w][s]][s], Beats, Line[w][s])
      BY <1>1, <2>1, <2>2, <2>3, <3>1, StoredType
    <3>4. QED
      BY <3>2, <3>3
  <2>7. Current[Tag[w][s]][s] = Line[w][s]
    BY <1>2, <2>2 DEF CurrentIs
  <2>8. /\ \A v \in Ways, u \in Sets :
             ~(v = w /\ u = s) => (valid'[v][u] <=> valid[v][u])
        /\ \A v \in Ways : v # w /\ valid[v][s] => Tag[v][s] # Tag[w][s]
    <3>1. valid \in [Ways -> [Sets -> BOOLEAN]]
      BY <1>1 DEF TypeOK
    <3>2. \A v \in Ways, u \in Sets :
            ~(v = w /\ u = s) => (valid'[v][u] <=> valid[v][u])
      <4>1. CASE valid' = valid
        BY <4>1
      <4>2. CASE valid' = [valid EXCEPT ![w][s] = FALSE]
        BY <3>1, <4>2, ClearBit
      <4>3. QED
        BY <2>5, <4>1, <4>2
    <3>3. QED
      BY <1>1, <2>2, <3>2 DEF Copies, Alone, Ways
  <2>9. ASSUME NEW t \in Tags, NEW u \in Sets PROVE Current'[t][u] = Current[t][u]
    <3>1. CASE t = Tag[w][s] /\ u = s
      <4>1. CASE valid' = valid
        BY <1>2, <2>2, <2>7, <3>1, <4>1 DEF CurrentIs
      <4>2. CASE WbB /\ valid' = [valid EXCEPT ![w][s] = FALSE]
        <5>1. valid \in [Ways -> [Sets -> BOOLEAN]]
          BY <1>1 DEF TypeOK
        <5>2. ~valid'[w][s]
          BY <4>2, <5>1, ClearBit
        <5>3. \A v \in Ways : ~(valid'[v][u] /\ Tag'[v][u] = t)
          BY <2>2, <2>8, <3>1, <5>2
        <5>4. QED
          BY <1>2, <2>6, <2>7, <3>1, <4>2, <5>3 DEF CurrentIs
      <4>3. QED
        BY <2>5, <4>1, <4>2
    <3>2. CASE ~(t = Tag[w][s] /\ u = s)
      <4>1. \A v \in Ways : valid'[v][u] /\ Tag'[v][u] = t <=> valid[v][u] /\ Tag[v][u] = t
        BY <2>2, <2>8, <3>2
      <4>2. CASE \E v \in Ways : valid[v][u] /\ Tag[v][u] = t
        BY <1>2, <2>2, <4>1, <4>2 DEF CurrentIs
      <4>3. CASE \A v \in Ways : ~(valid[v][u] /\ Tag[v][u] = t)
        BY <1>2, <2>4, <3>2, <4>1, <4>3 DEF CurrentIs
      <4>4. QED
        BY <4>2, <4>3
    <3>3. QED
      BY <3>1, <3>2
  <2>10. ~LookupHit
    BY <1>7 DEF WbB, WbFault, LookupHit
  <2>11. QED
    BY <1>2, <2>9, <2>10, SameContents
<1>8. CASE RefillLast
  <2>1. RamEdge(RefillWrite) /\ mem' = mem /\ ~LookupHit
    BY <1>8, Zenon DEF RefillLast, RefillWrite, RefilledLine, LookupHit
  <2>2. req.set \in Sets /\ req.tag \in Tags /\ victim \in Ways
    BY <1>1, RequestType DEF TypeOK
  <2>3. /\ RefillWrite.way = victim /\ RefillWrite.set = req.set
        /\ RefillWrite.tag = req.tag /\ RefillWrite.refill
    BY DEF RefillWrite
  <2>4. /\ Tag'[victim][req.set] = req.tag
        /\ \A w \in Ways, s \in Sets : ~(w = victim /\ s = req.set) =>
             Line'[w][s] = Line[w][s] /\ Tag'[w][s] = Tag[w][s]
    BY <1>1, <2>1, <2>2, <2>3, RamWrites, WritingEdge
  <2>5. \A w \in Ways, s \in Sets :
          valid'[w][s] <=> (w = victim /\ s = req.set) \/ valid[w][s]
    <3>1. valid' = [valid EXCEPT ![victim][req.set] = TRUE]
      BY <1>8, Zenon DEF RefillLast, Installed
    <3>2. valid \in [Ways -> [Sets -> BOOLEAN]]
      BY <1>1 DEF TypeOK
    <3>3. QED
      BY <2>2, <3>1, <3>2, SetBit
  <2>6. /\ \A w \in Ways : valid[w][req.set] => Tag[w][req.set] # req.tag
        /\ ~dirty[victim][req.set]
    BY <1>1, <1>8 DEF RefillLast, Machine, Refilling, RefillStates
  <2>7. ~dirty'[victim][req.set]
    BY <1>1, <1>8, <2>2 DEF RefillLast, TypeOK
  <2>8. Line'[victim][req.set] = mem[req.tag][req.set]
    BY <2>1, <2>2, <2>4, <2>5, <2>7 DEF CacheInv, Copies, Clean
  <2>9. ASSUME NEW t \in Tags, NEW u \in Sets PROVE Current'[t][u] = Current[t][u]
    <3>1. CASE t = req.tag /\ u = req.set
      <4>1. Current[t][u] = mem[t][u]
        BY <1>2, <2>6, <3>1 DEF CurrentIs
      <4>2. Current'[t][u] = Line'[victim][req.set]
        BY <1>2, <2>2, <2>4, <2>5, <3>1 DEF CurrentIs
      <4>3. QED
        BY <2>8, <3>1, <4>1, <4>2
    <3>2. CASE ~(t = req.tag /\ u = req.set)
      <4>1. \A v \in Ways : ~(v = victim /\ u = req.set) =>
              (valid'[v][u] /\ Tag'[v][u] = t <=> valid[v][u] /\ Tag[v][u] = t)
        BY <2>4, <2>5
      <4>2. u = req.set => ~(valid'[victim][u] /\ Tag'[victim][u] = t)
        BY <2>4, <3>2
      <4>3. CASE \E v \in Ways : ~(v = victim /\ u = req.set) /\ valid[v][u] /\ Tag[v][u] = t
        BY <1>2, <2>4, <4>1, <4>3 DEF CurrentIs
      <4>4. CASE \A v \in Ways : ~(v = victim /\ u = req.set) => ~(valid[v][u] /\ Tag[v][u] = t)
        <5>1. \A v \in Ways : ~(valid'[v][u] /\ Tag'[v][u] = t)
          BY <4>1, <4>2, <4>4
        <5>2. Current'[t][u] = mem[t][u]
          BY <1>2, <2>1, <5>1 DEF CurrentIs
        <5>3. CASE u = req.set /\ valid[victim][u] /\ Tag[victim][u] = t
          <6>1. Current[t][u] = Line[victim][u]
            BY <1>2, <2>2, <5>3 DEF CurrentIs
          <6>2. Line[victim][u] = mem[t][u]
            BY <1>1, <2>2, <2>6, <5>3 DEF Copies, Clean
          <6>3. QED
            BY <5>2, <6>1, <6>2
        <5>4. CASE ~(u = req.set /\ valid[victim][u] /\ Tag[victim][u] = t)
          <6>1. \A v \in Ways : ~(valid[v][u] /\ Tag[v][u] = t)
            BY <4>4, <5>4
          <6>2. QED
            BY <1>2, <5>2, <6>1 DEF CurrentIs
        <5>5. QED
          BY <5>3, <5>4
      <4>5. QED
        BY <4>3, <4>4
    <3>3. QED
      BY <3>1, <3>2
  <2>10. QED
    BY <1>2, <2>1, <2>9, SameContents
<1>9. CASE MaintDone
  <2>1. Line' = Line /\ Tag' = Tag /\ dirty' = dirty /\ mem' = mem /\ ~LookupHit
    BY <1>1, <1>9, QuietEdge DEF MaintDone, Quiet, LookupHit
  <2>2. CASE valid' = valid
    BY <1>3, <2>1, <2>2
  <2>3. CASE valid' # valid
    <3>1. invalidating /\ ~maintenance_fault
      BY <1>9, <2>3 DEF MaintDone
    <3>2. \A w \in Ways, s \in Sets : ~dirty[w][s]
      BY <1>1, <1>9, <3>1 DEF MaintDone, Machine, Swept
    <3>3. mem = Current
      BY <3>2, CleanIsMemory
    <3>4. \A w \in Ways, s \in Sets : ~valid'[w][s]
      BY <1>9, <3>1 DEF MaintDone
    <3>5. \A t \in Tags, s \in Sets : Current'[t][s] = mem'[t][s]
      BY <1>2, <3>4 DEF CurrentIs
    <3>6. QED
      BY <1>2, <2>1, <3>3, <3>5, SameContents
  <2>4. QED
    BY <2>2, <2>3
<1>10. CASE UNCHANGED vars
  <2>1. UNCHANGED <<Line, Tag, valid, mem>>
    BY <1>10 DEF vars, ram, meta, Line, Tag, LineOf, TagOf, Pending, Written
  <2>2. ~(LookupHit /\ req.write)
    <3>1. state' = state
      BY <1>10 DEF vars
    <3>2. QED
      BY <3>1 DEF LookupHit, Goto
  <2>3. QED
    BY <1>3, <2>1, <2>2
<1>11. QED
  BY <1>4, <1>5, <1>6, <1>7, <1>8, <1>9, <1>10 DEF Next, Advance


-----------------------------------------------------------------------------
(* The memory the requester sees.                                          *)
Pend == IF state = "IDLE" \/ cleaning THEN None ELSE req
Repl == IF state # "RESPONSE" THEN None
        ELSE IF response # "OKAY" THEN [ok |-> FALSE]
        ELSE IF req.write THEN [ok |-> TRUE] ELSE [ok |-> TRUE, value |-> result]

LEMMA InitRefines == Init => Memory!Init
<1> SUFFICES ASSUME Init PROVE Memory!Init
  OBVIOUS
<1>1. Current \in [Tags -> [Sets -> Lines]]
  BY InitInv, CurrentHolds DEF CurrentIs
<1>2. state = "IDLE"
  BY DEF Init
<1>3. QED
  BY <1>1, <1>2 DEF Memory!Init, Memory!Contents, Memory!Lines, Lines

LEMMA RequestIsSome == TypeOK => req # None
<1> SUFFICES ASSUME TypeOK, req = None PROVE FALSE
  OBVIOUS
<1>1. req.kind = "none"
  BY Zenon DEF None
<1>2. QED
  BY <1>1, RequestType

(* Each step of the machine is a step of the memory or no step of it.      *)
LEMMA StepRefines ==
  ASSUME CacheInv, CacheInv', [Next]_vars
  PROVE  [Memory!Next]_<<Current, Pend, Repl>>
<1>1. TypeOK /\ Machine /\ Copies /\ TypeOK' /\ Machine'
  BY DEF CacheInv
<1>2. req # None /\ req' # None
  <2>1. (TypeOK => req # None)'
    BY RequestIsSome, PTL
  <2>2. req' # None
    BY <1>1, <2>1
  <2>3. QED
    BY <1>1, <2>2, RequestIsSome
<1>3. \/ Reset
      \/ /\ LookupHit /\ req.write
         /\ Current' = [Current EXCEPT ![req.tag][req.set][req.beat] = req.value]
      \/ ~(LookupHit /\ req.write) /\ Current' = Current
  BY ContentsStep
<1>4. CASE Reset
  <2>1. Current' \in [Tags -> [Sets -> Lines]]
    <3>1. CacheInv' => CurrentIs'
      BY CurrentHolds, PTL
    <3>2. QED
      BY <3>1 DEF CurrentIs
  <2>2. Pend' = None /\ Repl' = None
    BY <1>4 DEF Reset, Pend, Repl
  <2>3. Memory!Reset
    BY <2>1, <2>2 DEF Memory!Reset, Memory!Contents, Memory!Lines, Lines, Pend, Repl
  <2>4. QED
    BY <2>3 DEF Memory!Next
<1>5. CASE Accept /\ ~Reset
  <2>1. Current' = Current
    BY <1>3, <1>5 DEF Accept, LookupHit
  <2>2. Pend = None /\ Repl = None
    BY <1>5 DEF Accept, Pend, Repl
  <2>3. Pend' # None
    BY <1>2, <1>5 DEF Accept, Pend, Quiet, Goto
  <2>4. Repl' \in {None, [ok |-> FALSE]}
    BY <1>5 DEF Accept, Repl, Quiet, Goto
  <2>5. Memory!Ask
    BY <2>1, <2>2, <2>3, <2>4 DEF Memory!Ask, Memory!Failed, Pend, Repl
  <2>6. QED
    BY <2>5 DEF Memory!Next
<1>6. CASE LookupHit /\ ~Reset
  <2>1. /\ HitWay \in Ways /\ req.set \in Sets /\ req.tag \in Tags
        /\ valid[HitWay][req.set] /\ qt[HitWay] = req.tag
    BY <1>1, <1>6, RequestType, HitWayType DEF LookupHit, Hit, HitWay, Ways
  <2>2. q[HitWay] = Line[HitWay][req.set] /\ Tag[HitWay][req.set] = req.tag
    BY <1>1, <1>6, <2>1 DEF LookupHit, Machine, Ports, ReadsOf
  <2>3. Current[req.tag][req.set] = q[HitWay]
    BY <2>1, <2>2, CurrentHolds DEF CurrentIs
  <2>4. /\ state = "LOOKUP" /\ req.kind = "cached" /\ ~cleaning /\ response = "OKAY"
        /\ state' = "RESPONSE" /\ UNCHANGED <<req, cleaning, response>>
        /\ result' = q[HitWay][req.beat]
    BY <1>1, <1>6
    DEF LookupHit, Machine, Modes, Fetching, LookupStates, Goto, maint
  <2>5. Pend = req /\ Pend' = req /\ Repl = None
    BY <2>4 DEF Pend, Repl
  <2>6. CASE req.write
    <3>1. Repl' = [ok |-> TRUE]
      BY <2>4, <2>6 DEF Repl
    <3>2. Memory!Store
      BY <1>3, <1>6, <2>4, <2>5, <2>6, <3>1 DEF Memory!Store, Memory!Done, Pend, Repl
    <3>3. Memory!Serve
      BY <1>2, <2>5, <3>2 DEF Memory!Serve, Pend, Repl
    <3>4. QED
      BY <3>3 DEF Memory!Next
  <2>7. CASE ~req.write
    <3>1. Repl' = [ok |-> TRUE, value |-> Current[req.tag][req.set][req.beat]]
      BY <2>3, <2>4, <2>7 DEF Repl
    <3>2. Memory!Load
      BY <1>3, <1>6, <2>4, <2>5, <2>7, <3>1 DEF Memory!Load, Memory!Loaded, Pend, Repl
    <3>3. Memory!Serve
      BY <1>2, <2>5, <3>2 DEF Memory!Serve, Pend, Repl
    <3>4. QED
      BY <3>3 DEF Memory!Next
  <2>8. QED
    BY <2>6, <2>7
<1>7. CASE (RefillFault \/ (WbFault /\ ~cleaning) \/ (BypassRsp /\ response' # "OKAY"))
           /\ ~Reset
  <2>1. Current' = Current
    BY <1>3, <1>7 DEF RefillFault, WbFault, BypassRsp, LookupHit
  <2>2. /\ state \notin {"IDLE", "RESPONSE"} /\ ~cleaning
        /\ state' = "RESPONSE" /\ UNCHANGED <<req, cleaning>> /\ response' # "OKAY"
    BY <1>1, <1>7
    DEF RefillFault, WbFault, BypassRsp, Answer, Quiet, Goto, maint, Machine, Modes,
        Fetching, RefillStates, BypassStates
  <2>3. Pend = req /\ Pend' = req /\ Repl = None /\ Repl' = [ok |-> FALSE]
    BY <2>2 DEF Pend, Repl
  <2>4. Memory!Serve
    BY <1>2, <2>1, <2>3 DEF Memory!Serve, Memory!Fail, Memory!Failed, Pend, Repl
  <2>5. QED
    BY <2>4 DEF Memory!Next
<1>8. CASE BypassRsp /\ response' = "OKAY" /\ ~Reset
  <2>1. Current' = Current
    BY <1>3, <1>8 DEF BypassRsp, LookupHit
  <2>2. /\ state = "BYPASS_RSP" /\ req.kind = "uncached" /\ ~cleaning
        /\ state' = "RESPONSE" /\ UNCHANGED <<req, cleaning>> /\ result' \in Values
    BY <1>1, <1>8
    DEF BypassRsp, Quiet, Goto, maint, Machine, Modes, BypassStates
  <2>3. /\ Pend = req /\ Pend' = req /\ Repl = None
        /\ Repl' = IF req.write THEN [ok |-> TRUE] ELSE [ok |-> TRUE, value |-> result']
    BY <1>8, <2>2 DEF Pend, Repl
  <2>4. Memory!Elsewhere
    BY <2>1, <2>2, <2>3 DEF Memory!Elsewhere, Memory!Done, Memory!Loaded, Pend, Repl
  <2>5. Memory!Serve
    BY <1>2, <2>3, <2>4 DEF Memory!Serve, Pend, Repl
  <2>6. QED
    BY <2>5 DEF Memory!Next
<1>9. CASE Respond /\ ~Reset
  <2>1. Current' = Current
    BY <1>3, <1>9 DEF Respond, Passes, LookupHit
  <2>2. Repl # None
    <3>1. [ok |-> FALSE] # None /\ [ok |-> TRUE] # None
          /\ [ok |-> TRUE, value |-> result] # None
      BY DEF None
    <3>2. QED
      BY <1>9, <3>1 DEF Respond, Passes, Repl
  <2>3. Pend' = None /\ Repl' = None
    BY <1>9 DEF Respond, Passes, Quiet, Goto, Pend, Repl
  <2>4. Memory!Take
    BY <2>1, <2>2, <2>3 DEF Memory!Take, Pend, Repl
  <2>5. QED
    BY <2>4 DEF Memory!Next
<1>10. ASSUME ~Reset, Current' = Current, UNCHANGED <<Pend, Repl>>
       PROVE  [Memory!Next]_<<Current, Pend, Repl>>
  BY <1>10
<1>11. CASE /\ \/ StartMaintenance \/ Scan \/ ScanWait \/ ScanRead \/ MaintDone
               \/ (WbFault /\ cleaning) \/ (WbB /\ cleaning)
            /\ ~Reset
  <2>1. Current' = Current
    BY <1>3, <1>11
    DEF StartMaintenance, Scan, ScanWait, Passes, ScanRead, MaintDone, WbFault, WbB,
        LookupHit
  <2>2. (state = "IDLE" \/ cleaning) /\ (state' = "IDLE" \/ cleaning')
    BY <1>1, <1>11
    DEF StartMaintenance, Scan, ScanWait, Passes, ScanRead, MaintDone, WbFault, WbB,
        Machine, Modes, ScanStates, maint, CleanedLine
  <2>3. state # "RESPONSE" /\ state' # "RESPONSE"
    BY <1>11
    DEF StartMaintenance, Scan, ScanWait, Passes, ScanRead, MaintDone, WbFault, WbB,
        CleanedLine, Quiet, Goto
  <2>4. UNCHANGED <<Pend, Repl>>
    BY <2>2, <2>3 DEF Pend, Repl
  <2>5. QED
    BY <1>10, <1>11, <2>1, <2>4
<1>12. CASE /\ \/ LookupRead \/ LookupWait \/ LookupMiss \/ (WbB /\ ~cleaning)
               \/ RefillAr \/ RefillFirst \/ RefillLast \/ BypassReq
            /\ ~Reset
  <2>1. Current' = Current
    BY <1>3, <1>12
    DEF LookupRead, LookupWait, Passes, LookupMiss, WbB, RefillAr, Addressed, LookupHit,
        RefillFirst, RefillLast, BypassReq
  <2>2. state \notin {"IDLE", "RESPONSE"} /\ state' \notin {"IDLE", "RESPONSE"}
    BY <1>12
    DEF LookupRead, LookupWait, Passes, LookupMiss, WbB, EvictedLine, RefillAr, Addressed,
        RefillFirst, RefillLast, BypassReq, Quiet, Goto
  <2>3. UNCHANGED <<req, cleaning>>
    BY <1>12
    DEF LookupRead, LookupWait, Passes, LookupMiss, WbB, RefillAr, Addressed,
        RefillFirst, RefillLast, BypassReq, maint
  <2>4. UNCHANGED <<Pend, Repl>>
    BY <2>2, <2>3 DEF Pend, Repl
  <2>5. QED
    BY <1>10, <1>12, <2>1, <2>4
<1>13. CASE (WbAw \/ WbW) /\ ~Reset
  <2>1. Current' = Current
    BY <1>3, <1>13 DEF WbAw, WbW, Addressed, LookupHit
  <2>2. /\ state \notin {"IDLE", "RESPONSE"} /\ state' \notin {"IDLE", "RESPONSE"}
        /\ UNCHANGED <<req, cleaning>>
    BY <1>13 DEF WbAw, WbW, Addressed, Quiet, Goto, maint
  <2>3. UNCHANGED <<Pend, Repl>>
    BY <2>2 DEF Pend, Repl
  <2>4. QED
    BY <1>10, <1>13, <2>1, <2>3
<1>14. CASE (Stall \/ UNCHANGED vars) /\ ~Reset
  <2>1. ~(LookupHit /\ req.write)
    <3>1. state' = state
      BY <1>14 DEF vars, Stall, Passes, Quiet, Goto
    <3>2. QED
      BY <3>1 DEF LookupHit, Goto
  <2>2. Current' = Current
    BY <1>3, <1>14, <2>1
  <2>3. UNCHANGED <<state, req, cleaning, result, response>>
    BY <1>14 DEF vars, Stall, Passes, Quiet, Goto, maint, answer
  <2>4. UNCHANGED <<Pend, Repl>>
    BY <2>3 DEF Pend, Repl
  <2>5. QED
    BY <1>10, <1>14, <2>2, <2>4
<1>15. QED
  BY <1>4, <1>5, <1>6, <1>7, <1>8, <1>9, <1>11, <1>12, <1>13, <1>14 DEF Next, Advance

(* l1_cache.sv:136-300: to its requester the cache is one memory, whatever *)
(* it evicts, refills, cleans and invalidates, and whatever fails.         *)
THEOREM CacheImplements == Spec => ImplementsMemory
<1>1. Init => Memory!Init
  BY InitRefines
<1>2. CacheInv /\ CacheInv' /\ [Next]_vars => [Memory!Next]_<<Current, Pend, Repl>>
  BY StepRefines
<1>3. [][Memory!Next]_<<Current, Pend, Repl>> /\ Memory!Init => ImplementsMemory
  BY DEF ImplementsMemory, Memory!Spec, Pend, Repl
<1>4. QED
  BY <1>1, <1>2, <1>3, CacheInvariant, PTL DEF Spec
=============================================================================
