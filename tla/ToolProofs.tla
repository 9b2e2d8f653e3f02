------------------------------- MODULE ToolProofs -------------------------------
(***************************************************************************)
(* The tools around the boards, for any length of what they read and write.*)
(***************************************************************************)
EXTENDS CoverageClosure, MCTools, FiniteSetTheorems, SequenceTheorems,
        WellFoundedInduction, TLAPS

(* A step is one of the tool a behaviour is about, and of no other.        *)
LEMMA OneTool ==
  [MCNext]_all => /\ [Trace!Next]_(Trace!vars) /\ [Console!Next]_(Console!vars)
                  /\ [Report!Next]_(Report!vars) /\ [Image!Next]_(Image!vars)
                  /\ [Layout!Next]_(Layout!vars) /\ [Session!Next]_(Session!vars)
<1> USE DEF traceVars, consoleVars, reportVars, imageVars, layoutVars, sessionVars,
            Trace!vars, Console!vars, Report!vars, Image!vars, Layout!vars, Session!vars
<1> SUFFICES ASSUME [MCNext]_all
             PROVE  /\ [Trace!Next]_(Trace!vars) /\ [Console!Next]_(Console!vars)
                    /\ [Report!Next]_(Report!vars) /\ [Image!Next]_(Image!vars)
                    /\ [Layout!Next]_(Layout!vars) /\ [Session!Next]_(Session!vars)
  OBVIOUS
<1>1. [Trace!Next]_(Trace!vars)     BY Zenon DEF MCNext, all
<1>2. [Console!Next]_(Console!vars) BY Zenon DEF MCNext, all
<1>3. [Report!Next]_(Report!vars)   BY Zenon DEF MCNext, all
<1>4. [Image!Next]_(Image!vars)     BY Zenon DEF MCNext, all
<1>5. [Layout!Next]_(Layout!vars)   BY Zenon DEF MCNext, all
<1>6. [Session!Next]_(Session!vars) BY Zenon DEF MCNext, all
<1> QED BY <1>1, <1>2, <1>3, <1>4, <1>5, <1>6

-----------------------------------------------------------------------------
(* The directed test sessions.                                             *)
SessionInv ==
  /\ ds_steps \in Nat /\ ds_steps <= Limit /\ ds_events \in Nat /\ ds_last_trap \in BOOLEAN
  /\ ds_script \in {"verify", "coverage"}
  /\ ds_phase \in {"step", "read", "quit", "wait", "cleanup", "exited"}
  /\ ds_outcome \in {"none", "raised", "returned"}
  /\ ds_outcome = "none" <=> ds_phase \in {"step", "read", "quit", "wait"}
  /\ ds_phase = "exited" => ds_dut = "gone"
  /\ ds_phase \in {"quit", "wait"} /\ ds_script = "coverage" => ds_events > 0 /\ ds_last_trap
  /\ ds_phase = "wait" => ds_request = "quit"
  /\ ds_outcome = "returned" =>
       ds_dut = "gone" /\ ds_dut_code = 0 /\ ds_request = "quit" /\ ds_events > 0 /\ ds_last_trap

LEMMA SessionStep == SessionInv /\ [Session!Next]_(Session!vars) => SessionInv'
<1> SUFFICES ASSUME SessionInv, [Session!Next]_(Session!vars)
             PROVE  SessionInv'
  OBVIOUS
<1> USE SessionAssumption DEF SessionInv
<1>1. CASE Session!Step
  BY <1>1 DEF Session!Step, Session!Send, Session!Raise, Session!Goto, Session!Killed
<1>2. CASE Session!ReadReply
  <2>1. CASE ds_reply = "eof"
    BY <1>2, <2>1 DEF Session!ReadReply, Session!Raise
  <2>2. CASE ds_reply = "trap"
    <3>1. ds_last_trap' = TRUE /\ ds_events' = ds_events + 1
      BY <1>2, <2>2 DEF Session!ReadReply
    <3> QED BY <1>2, <2>2, <3>1 DEF Session!ReadReply, Session!Goto, Session!Over
  <2>3. CASE ds_reply = "retire"
    <3>1. ds_last_trap' = FALSE /\ ds_events' = ds_events + 1
      BY <1>2, <2>3 DEF Session!ReadReply
    <3> QED BY <1>2, <2>3, <3>1 DEF Session!ReadReply, Session!Goto, Session!Over
  <2>4. CASE ds_reply \notin {"eof", "trap", "retire"}
    <3>1. UNCHANGED <<ds_events, ds_last_trap>>
      BY <1>2, <2>4 DEF Session!ReadReply
    <3> QED BY <1>2, <2>4, <3>1 DEF Session!ReadReply, Session!Goto, Session!Over
  <2> QED BY <2>1, <2>2, <2>3, <2>4
<1>3. CASE Session!Quit
  BY <1>3 DEF Session!Quit, Session!Send, Session!Raise, Session!Goto
<1>4. CASE Session!Waited
  BY <1>4 DEF Session!Waited, Session!Accepts
<1>5. CASE Session!WaitTimesOut
  BY <1>5 DEF Session!WaitTimesOut, Session!Raise
<1>6. CASE Session!Cleanup
  BY <1>6 DEF Session!Cleanup, Session!Killed, Session!Goto
<1>7. CASE Session!DutAnswers \/ Session!DutQuits \/ Session!DutDies \/ Session!DutReadsEnd
  BY <1>7 DEF Session!DutAnswers, Session!DutQuits, Session!DutDies, Session!DutReadsEnd
<1>8. CASE Session!Stopped \/ UNCHANGED Session!vars
  BY <1>8 DEF Session!Stopped, Session!vars
<1> QED
  BY <1>1, <1>2, <1>3, <1>4, <1>5, <1>6, <1>7, <1>8 DEF Session!Next, Session!Controller

(* verify_cached_core.py:50-66, check_cpu_coverage.py:30-58: a session that*)
(* returns saw its program end and a DUT leave by itself without an error, *)
(* in at most so many steps; none leaves a process behind.                 *)
THEOREM SessionsMean == MCSpec => []SessionMeans
<1>1. MCInit => SessionInv
  <2>1. MCInit => Session!Init
    BY DEF MCInit
  <2>2. Session!Init => SessionInv
    <3>1. Session!Init => 0 <= Limit
      BY SessionAssumption
    <3>2. Session!Init => ds_last_trap \in BOOLEAN /\ ds_phase = "step" /\ ds_outcome = "none"
      BY DEF Session!Init
    <3> QED BY <3>1, <3>2, SessionAssumption DEF Session!Init, SessionInv
  <2> QED BY <2>1, <2>2
<1>2. SessionInv /\ [MCNext]_all => SessionInv'
  BY OneTool, SessionStep
<1>3. SessionInv => SessionMeans
  BY DEF SessionInv, SessionMeans, Session!SessionMeans
<1> QED
  BY <1>1, <1>2, <1>3, PTL DEF MCSpec
-----------------------------------------------------------------------------
(* The flash layout.  The regions behind the cursor follow one another     *)
(* without a gap and end where the cursor says.                            *)
Offset(i) == fl_layout[i].offset
EndOf(i) == fl_layout[i].offset + fl_layout[i].capacity
Name(i) == fl_layout[i].name

LayoutTyped ==
  /\ fl_layout \in Layouts /\ fl_assets \in Assets
  /\ fl_cursor \in Nat /\ fl_cursor <= Len(fl_layout) /\ fl_end \in Int
  /\ fl_phase \in {"layout", "assets", "exited"}
  /\ fl_status \in {"none", "fail", "budget_only", "usage_error", "pass"}
  /\ fl_failed \in BOOLEAN
  /\ fl_status = "none" <=> fl_phase # "exited"
RegionsFollow ==
  /\ fl_seen = {Name(i) : i \in 1 .. fl_cursor}
  /\ 0 <= fl_end /\ fl_end <= FlashBytes
  /\ \A i \in 1 .. fl_cursor : 0 <= Offset(i) /\ Offset(i) < EndOf(i) /\ EndOf(i) <= fl_end
  /\ \A i, j \in 1 .. fl_cursor : i < j => EndOf(i) <= Offset(j) /\ Name(i) # Name(j)
LayoutDone ==
  fl_phase = "assets" \/ fl_status \in {"budget_only", "pass"} =>
    fl_cursor = Len(fl_layout) /\ FlashBytes - fl_end >= MinimumSpare
AssetsFit ==
  fl_phase = "assets" \/ fl_status = "pass" =>
    /\ DOMAIN fl_assets = Layout!required
    /\ ~fl_failed => \A name \in DOMAIN fl_assets \ fl_todo :
                       0 < fl_assets[name] /\ fl_assets[name] <= Layout!Capacity(name)
    /\ fl_status = "pass" => fl_todo = {} /\ ~fl_failed
LayoutInv == LayoutTyped /\ RegionsFollow /\ LayoutDone /\ AssetsFit

LEMMA LayoutTypes ==
  ASSUME LayoutTyped
  PROVE  /\ Len(fl_layout) \in Nat /\ DOMAIN fl_layout = 1 .. Len(fl_layout)
         /\ \A i \in 1 .. Len(fl_layout) : Offset(i) \in Int /\ EndOf(i) \in Int
                                           /\ fl_layout[i].capacity \in Int
         /\ \A name \in DOMAIN fl_assets : fl_assets[name] \in Nat \cup {-1}
<1>1. fl_layout \in Seq([name : STRING, offset : Int, capacity : Int])
  BY LayoutAssumption DEF LayoutTyped
<1>2. \A name \in DOMAIN fl_assets : fl_assets[name] \in Nat \cup {-1}
  BY LayoutAssumption DEF LayoutTyped
<1>3. Len(fl_layout) \in Nat /\ DOMAIN fl_layout = 1 .. Len(fl_layout)
  BY <1>1
<1>4. \A i \in 1 .. Len(fl_layout) :
        fl_layout[i] \in [name : STRING, offset : Int, capacity : Int]
  BY <1>1, ElementOfSeq
<1>5. \A i \in 1 .. Len(fl_layout) : fl_layout[i].offset \in Int /\ fl_layout[i].capacity \in Int
  BY <1>4
<1> QED BY <1>2, <1>3, <1>5 DEF Offset, EndOf

LEMMA LayoutStep == LayoutInv /\ [Layout!Next]_(Layout!vars) => LayoutInv'
<1> SUFFICES ASSUME LayoutInv, [Layout!Next]_(Layout!vars)
             PROVE  LayoutInv'
  OBVIOUS
<1> USE DEF LayoutInv
<1> DEFINE n == Len(fl_layout)
<1>T. /\ n \in Nat /\ DOMAIN fl_layout = 1 .. n
      /\ \A i \in 1 .. n : Offset(i) \in Int /\ EndOf(i) \in Int
                           /\ fl_layout[i].capacity \in Int
      /\ \A name \in DOMAIN fl_assets : fl_assets[name] \in Nat \cup {-1}
  BY LayoutTypes
<1>C. FlashBytes \in Nat /\ MinimumSpare \in Nat
  BY LayoutAssumption
<1>1. CASE Layout!CheckRegion
  <2> DEFINE c == fl_cursor + 1
  <2>1. /\ fl_phase = "layout" /\ fl_cursor < n /\ c \in 1 .. n /\ fl_cursor \in Nat
        /\ UNCHANGED <<fl_layout, fl_assets, fl_todo, fl_failed>> /\ fl_status = "none"
    BY <1>1, <1>T DEF Layout!CheckRegion, LayoutTyped
  <2>2. CASE Layout!Misplaced \/ Layout!region.offset + Layout!region.capacity > FlashBytes
    <3>1. fl_phase' = "exited" /\ fl_status' = "fail" /\ UNCHANGED <<fl_cursor, fl_end, fl_seen>>
      BY <1>1, <2>2 DEF Layout!CheckRegion, Layout!Exit
    <3>2. LayoutTyped'
      BY <2>1, <3>1 DEF LayoutTyped
    <3>3. RegionsFollow'
      BY <2>1, <3>1 DEF RegionsFollow, Offset, EndOf, Name
    <3> QED BY <3>1, <3>2, <3>3 DEF LayoutDone, AssetsFit
  <2>3. CASE ~(Layout!Misplaced \/ Layout!region.offset + Layout!region.capacity > FlashBytes)
    <3>1. /\ fl_seen' = fl_seen \cup {Name(c)} /\ fl_end' = EndOf(c) /\ fl_cursor' = c
          /\ UNCHANGED <<fl_phase, fl_status>>
      BY <1>1, <2>3 DEF Layout!CheckRegion, Layout!region, Name, EndOf
    <3>2. /\ Name(c) \notin fl_seen /\ Offset(c) = fl_end /\ Offset(c) < EndOf(c)
          /\ EndOf(c) <= FlashBytes
      BY <2>1, <2>3, <1>T, <1>C DEF Layout!Misplaced, Layout!region, Name, Offset, EndOf
    <3>3. LayoutTyped'
      BY <2>1, <3>1, <1>T DEF LayoutTyped
    <3>4. RegionsFollow'
      <4>1. /\ \A i : Offset(i)' = Offset(i) /\ EndOf(i)' = EndOf(i) /\ Name(i)' = Name(i)
        BY <2>1 DEF Offset, EndOf, Name
      <4>2. 1 .. c = (1 .. fl_cursor) \cup {c}
        BY <2>1
      <4>3. fl_seen' = {Name(i)' : i \in 1 .. fl_cursor'}
        BY <3>1, <4>1, <4>2 DEF RegionsFollow
      <4>4. \A i \in 1 .. fl_cursor : i \in 1 .. n /\ Name(i) \in fl_seen
        BY <2>1, <1>T DEF RegionsFollow
      <4>5. \A i \in 1 .. c : 0 <= Offset(i) /\ Offset(i) < EndOf(i) /\ EndOf(i) <= EndOf(c)
        BY <2>1, <3>2, <4>2, <4>4, <1>T DEF RegionsFollow
      <4>6. \A i, j \in 1 .. c : i < j => EndOf(i) <= Offset(j) /\ Name(i) # Name(j)
        BY <2>1, <3>2, <4>2, <4>4, <1>T DEF RegionsFollow
      <4>7. 0 <= EndOf(c)
        BY <3>2, <2>1, <1>T DEF RegionsFollow
      <4> QED BY <3>1, <3>2, <4>1, <4>3, <4>5, <4>6, <4>7 DEF RegionsFollow
    <3> QED BY <2>1, <3>1, <3>3, <3>4 DEF LayoutDone, AssetsFit
  <2> QED BY <2>2, <2>3
<1>2. CASE Layout!CheckSpare
  <2>1. /\ fl_phase = "layout" /\ fl_cursor = n /\ fl_status = "none"
        /\ UNCHANGED <<fl_layout, fl_assets, fl_cursor, fl_end, fl_seen, fl_failed>>
    BY <1>2 DEF Layout!CheckSpare, LayoutTyped
  <2>2. RegionsFollow'
    BY <2>1 DEF RegionsFollow, Offset, EndOf, Name
  <2>3. /\ fl_phase' \in {"assets", "exited"}
        /\ fl_status' = "none" <=> fl_phase' = "assets"
        /\ fl_status' \in {"none", "fail", "budget_only", "usage_error"}
        /\ fl_status' # "fail" /\ fl_status' # "usage_error" => FlashBytes - fl_end >= MinimumSpare
        /\ fl_phase' = "assets" => DOMAIN fl_assets = Layout!required /\ fl_todo' = DOMAIN fl_assets
    <3>1. CASE FlashBytes - fl_end < MinimumSpare
      <4>1. fl_phase' = "exited" /\ fl_status' = "fail"
        BY <1>2, <3>1 DEF Layout!CheckSpare, Layout!Exit
      <4> QED BY <4>1
    <3>2. CASE ~(FlashBytes - fl_end < MinimumSpare)
      <4>1. FlashBytes - fl_end >= MinimumSpare
        BY <3>2, <1>C DEF LayoutTyped
      <4>2. CASE DOMAIN fl_assets = {}
        <5>1. fl_phase' = "exited" /\ fl_status' = "budget_only"
          BY <1>2, <3>2, <4>2 DEF Layout!CheckSpare, Layout!Exit
        <5> QED BY <4>1, <5>1
      <4>3. CASE DOMAIN fl_assets # {} /\ DOMAIN fl_assets # Layout!required
        <5>1. fl_phase' = "exited" /\ fl_status' = "usage_error"
          BY <1>2, <3>2, <4>3 DEF Layout!CheckSpare, Layout!Exit
        <5> QED BY <5>1
      <4>4. CASE DOMAIN fl_assets # {} /\ DOMAIN fl_assets = Layout!required
        <5>1. fl_phase' = "assets" /\ fl_status' = "none" /\ fl_todo' = DOMAIN fl_assets
          BY <1>2, <2>1, <3>2, <4>4 DEF Layout!CheckSpare
        <5> QED BY <4>1, <4>4, <5>1
      <4> QED BY <4>2, <4>3, <4>4
    <3> QED BY <3>1, <3>2
  <2>4. LayoutTyped'
    BY <2>1, <2>3 DEF LayoutTyped
  <2>5. LayoutDone'
    BY <2>1, <2>3 DEF LayoutDone
  <2>6. (Layout!required)' = Layout!required
    BY <2>1 DEF Layout!required, Layout!names
  <2> QED BY <2>1, <2>2, <2>3, <2>4, <2>5, <2>6 DEF AssetsFit
<1>3. ASSUME NEW name \in fl_todo, Layout!CheckAsset(name)
      PROVE  LayoutInv'
  <2> DEFINE fails == fl_assets[name] = -1 \/ fl_assets[name] = 0
                      \/ fl_assets[name] > Layout!Capacity(name)
  <2>1. /\ fl_phase = "assets" /\ fl_todo' = fl_todo \ {name} /\ fl_status = "none"
        /\ UNCHANGED <<fl_layout, fl_assets, fl_phase, fl_status, fl_cursor, fl_end, fl_seen>>
    BY <1>3 DEF Layout!CheckAsset, LayoutTyped
  <2>2. fl_failed' = (fl_failed \/ fails)
    BY <1>3 DEF Layout!CheckAsset, Layout!Missing
  <2>3. LayoutTyped'
    BY <2>1, <2>2 DEF LayoutTyped
  <2>4. RegionsFollow' /\ LayoutDone'
    BY <2>1 DEF RegionsFollow, LayoutDone, Offset, EndOf, Name
  <2>5. (Layout!required)' = Layout!required /\ \A x : Layout!Capacity(x)' = Layout!Capacity(x)
    BY <2>1 DEF Layout!required, Layout!names, Layout!Capacity
  <2>6. ASSUME ~fl_failed', NEW x \in DOMAIN fl_assets \ fl_todo'
        PROVE  0 < fl_assets[x] /\ fl_assets[x] <= Layout!Capacity(x)
    <3>1. ~fl_failed /\ ~fails
      BY <2>2, <2>6
    <3>2. CASE x = name
      <4>1. \E i \in 1 .. n : Name(i) = x
        BY <2>1, <2>6, <1>T DEF AssetsFit, Layout!required, Layout!names, Name
      <4>2. Layout!Capacity(x) \in Int
        BY <4>1, <1>T DEF Layout!Capacity, Name
      <4> QED BY <3>1, <3>2, <4>2, <2>6, <1>T
    <3>3. CASE x # name
      BY <3>1, <3>3, <2>1, <2>6 DEF AssetsFit
    <3> QED BY <3>2, <3>3
  <2> QED BY <2>1, <2>3, <2>4, <2>5, <2>6 DEF AssetsFit
<1>4. CASE Layout!Conclude
  <2>1. /\ fl_phase = "assets" /\ fl_todo = {} /\ fl_phase' = "exited"
        /\ fl_status' = IF fl_failed THEN "fail" ELSE "pass"
        /\ UNCHANGED <<fl_layout, fl_assets, fl_cursor, fl_end, fl_seen, fl_todo, fl_failed>>
    BY <1>4 DEF Layout!Conclude, Layout!Exit
  <2>2. LayoutTyped'
    BY <2>1 DEF LayoutTyped
  <2>3. RegionsFollow' /\ LayoutDone'
    BY <2>1 DEF RegionsFollow, LayoutDone, Offset, EndOf, Name
  <2>4. (Layout!required)' = Layout!required /\ \A x : Layout!Capacity(x)' = Layout!Capacity(x)
    BY <2>1 DEF Layout!required, Layout!names, Layout!Capacity
  <2> QED BY <2>1, <2>2, <2>3, <2>4 DEF AssetsFit
<1>5. CASE Layout!Stopped \/ UNCHANGED Layout!vars
  <2>1. UNCHANGED <<fl_layout, fl_assets, fl_phase, fl_status, fl_cursor, fl_end, fl_seen,
                    fl_todo, fl_failed>>
    BY <1>5 DEF Layout!Stopped, Layout!vars
  <2>2. LayoutTyped'
    BY <2>1 DEF LayoutTyped
  <2>3. RegionsFollow' /\ LayoutDone'
    BY <2>1 DEF RegionsFollow, LayoutDone, Offset, EndOf, Name
  <2>4. (Layout!required)' = Layout!required /\ \A x : Layout!Capacity(x)' = Layout!Capacity(x)
    BY <2>1 DEF Layout!required, Layout!names, Layout!Capacity
  <2> QED BY <2>1, <2>2, <2>3, <2>4 DEF AssetsFit
<1> QED
  BY <1>1, <1>2, <1>3, <1>4, <1>5 DEF Layout!Next

LEMMA AtMostOne ==
  ASSUME NEW S, \A x, y \in S : x = y
  PROVE  Cardinality(S) <= 1
<1>1. S = {} \/ \E x : S = {x}
  OBVIOUS
<1>2. \A x : Cardinality({x}) = 1
  BY FS_Singleton
<1>3. Cardinality({}) = 0
  BY FS_EmptySet
<1>4. CASE S = {}
  BY <1>3, <1>4
<1>5. CASE \E x : S = {x}
  <2> PICK x : S = {x}
    BY <1>5
  <2> QED BY <1>2
<1> QED BY <1>1, <1>4, <1>5

LEMMA SameCardinality == \A S : Layout!Cardinality(S) = Cardinality(S)
BY Zenon DEF Layout!Cardinality, Cardinality

LEMMA LayoutSafely == LayoutInv => LayoutSafe
<1> SUFFICES ASSUME LayoutInv, fl_status \in {"budget_only", "pass"}
             PROVE  LayoutSafe
  BY DEF LayoutSafe, Layout!LayoutSafe
<1> USE DEF LayoutInv
<1> DEFINE n == Len(fl_layout)
<1>T. /\ n \in Nat /\ DOMAIN fl_layout = 1 .. n
      /\ \A i \in 1 .. n : Offset(i) \in Int /\ EndOf(i) \in Int
                           /\ fl_layout[i].capacity \in Int
      /\ \A name \in DOMAIN fl_assets : fl_assets[name] \in Nat \cup {-1}
  BY LayoutTypes
<1>C. FlashBytes \in Nat /\ MinimumSpare \in Nat /\ fl_end \in Int
  BY LayoutAssumption DEF LayoutTyped
<1>1. fl_cursor = n /\ FlashBytes - fl_end >= MinimumSpare
  BY DEF LayoutDone
<1>2. \A i \in 1 .. n : Layout!BytesOf(fl_layout[i]) = Offset(i) .. EndOf(i) - 1
  BY <1>T DEF Layout!BytesOf, Offset, EndOf
<1>3. \A i \in 1 .. n : 0 <= Offset(i) /\ Offset(i) < EndOf(i) /\ EndOf(i) <= fl_end
  BY <1>1 DEF RegionsFollow
<1>4. \A i, j \in 1 .. n : i < j => EndOf(i) <= Offset(j) /\ Name(i) # Name(j)
  BY <1>1 DEF RegionsFollow
<1>5. \A i \in DOMAIN fl_layout :
        Layout!BytesOf(fl_layout[i]) \subseteq 0 .. FlashBytes - MinimumSpare - 1
  <2> SUFFICES ASSUME NEW i \in 1 .. n, NEW byte \in Offset(i) .. EndOf(i) - 1
               PROVE  byte \in 0 .. FlashBytes - MinimumSpare - 1
    BY <1>2, <1>T
  <2> QED BY <1>1, <1>3, <1>T, <1>C
<1>6. \A byte \in 0 .. FlashBytes - 1 : Cardinality(Layout!Owners(byte)) <= 1
  <2> TAKE byte \in 0 .. FlashBytes - 1
  <2>1. \A x, y \in Layout!Owners(byte) : x = y
    <3> SUFFICES ASSUME NEW x \in Layout!Owners(byte), NEW y \in Layout!Owners(byte), x # y
                 PROVE  FALSE
      OBVIOUS
    <3>1. x \in 1 .. n /\ y \in 1 .. n /\ byte \in Offset(x) .. EndOf(x) - 1
          /\ byte \in Offset(y) .. EndOf(y) - 1
      BY <1>2, <1>T DEF Layout!Owners
    <3>2. x < y \/ y < x
      BY <3>1, <1>T
    <3>3. EndOf(x) <= Offset(y) \/ EndOf(y) <= Offset(x)
      BY <3>1, <3>2, <1>4
    <3>4. Offset(x) \in Int /\ EndOf(x) \in Int /\ Offset(y) \in Int /\ EndOf(y) \in Int
      BY <3>1, <1>T
    <3> QED BY <3>1, <3>3, <3>4
  <2> QED BY <2>1, AtMostOne
<1>7. Cardinality(Layout!names) = n
  <2> DEFINE f == [i \in 1 .. n |-> Name(i)]
  <2>1. f \in Bijection(1 .. n, Layout!names)
    <3>1. Layout!names = {Name(i) : i \in 1 .. n}
      BY <1>T DEF Layout!names, Name
    <3>2. \A i, j \in 1 .. n : i # j => Name(i) # Name(j)
      <4> SUFFICES ASSUME NEW i \in 1 .. n, NEW j \in 1 .. n, i # j PROVE Name(i) # Name(j)
        OBVIOUS
      <4>1. i < j \/ j < i
        BY <1>T
      <4> QED BY <4>1, <1>4
    <3> QED BY <3>1, <3>2 DEF Bijection, Injection, Surjection, IsInjective
  <2>2. ExistsBijection(1 .. n, Layout!names)
    BY <2>1 DEF ExistsBijection
  <2> QED BY <2>2, <1>T, FS_CountingElements
<1>8. ASSUME fl_status = "pass", NEW i \in DOMAIN fl_layout, Name(i) # "manifest"
      PROVE  /\ fl_assets[Name(i)] > 0
             /\ Offset(i) .. Offset(i) + fl_assets[Name(i)] - 1 \subseteq Layout!BytesOf(fl_layout[i])
  <2>1. Name(i) \in DOMAIN fl_assets
    BY <1>8 DEF AssetsFit, Layout!required, Layout!names, Layout!Manifest, Name
  <2>2. 0 < fl_assets[Name(i)] /\ fl_assets[Name(i)] <= Layout!Capacity(Name(i))
    BY <2>1, <1>8 DEF AssetsFit
  <2>3. \A j \in DOMAIN fl_layout : fl_layout[j].name = Name(i) => j = i
    BY <1>4, <1>T, <1>8 DEF Name
  <2>4. Layout!Capacity(Name(i)) = fl_layout[i].capacity
    BY <2>3, <1>8 DEF Layout!Capacity, Name
  <2>5. EndOf(i) = Offset(i) + fl_layout[i].capacity /\ i \in 1 .. n
    BY <1>T, <1>8 DEF EndOf, Offset
  <2>6. Offset(i) \in Int /\ fl_layout[i].capacity \in Int /\ fl_assets[Name(i)] \in Int
    BY <2>1, <2>5, <1>T
  <2>7. Layout!BytesOf(fl_layout[i]) = Offset(i) .. EndOf(i) - 1
    BY <1>2, <2>5
  <2> QED BY <2>2, <2>4, <2>5, <2>6, <2>7
<1>9. \A i \in DOMAIN fl_layout : Layout!BytesOf(fl_layout[i]) = Offset(i) .. EndOf(i) - 1
  BY <1>2, <1>T
<1>10. fl_status = "pass" => \A i \in DOMAIN fl_layout : fl_layout[i].name # "manifest" =>
         LET size == fl_assets[fl_layout[i].name] IN
         /\ size > 0
         /\ fl_layout[i].offset .. fl_layout[i].offset + size - 1
              \subseteq Layout!BytesOf(fl_layout[i])
  <2> SUFFICES ASSUME fl_status = "pass"
               PROVE  \A i \in DOMAIN fl_layout : Name(i) # "manifest" =>
                        /\ fl_assets[Name(i)] > 0
                        /\ Offset(i) .. Offset(i) + fl_assets[Name(i)] - 1
                             \subseteq Layout!BytesOf(fl_layout[i])
    BY DEF Name, Offset
  <2> QED BY <1>8
<1> QED
  BY <1>5, <1>6, <1>7, <1>10, SameCardinality, Zenon
     DEF LayoutSafe, Layout!LayoutSafe, Layout!Manifest

(* check_flash_layout.py:27-52, 79-91: every layout that passes gives each *)
(* byte at most one region, leaves the spare bytes free at the end, and    *)
(* has each artifact inside its own region.                                *)
THEOREM LayoutIsSafe == MCSpec => []LayoutSafe
<1>1. MCInit => LayoutInv
  <2>1. MCInit => Layout!Init
    BY DEF MCInit
  <2>2. ASSUME Layout!Init PROVE LayoutInv
    <3>1. fl_layout \in Seq([name : STRING, offset : Int, capacity : Int])
      BY <2>2, LayoutAssumption DEF Layout!Init
    <3>2. Len(fl_layout) \in Nat
      BY <3>1
    <3>3. LayoutTyped
      <4>1. fl_cursor = 0 /\ fl_end = 0 /\ fl_phase = "layout" /\ fl_status = "none"
        BY <2>2 DEF Layout!Init
      <4>2. fl_failed \in BOOLEAN /\ fl_layout \in Layouts /\ fl_assets \in Assets
        BY <2>2 DEF Layout!Init
      <4> QED BY <4>1, <4>2, <3>2 DEF LayoutTyped
    <3>4. RegionsFollow
      BY <2>2, LayoutAssumption DEF Layout!Init, RegionsFollow
    <3> QED BY <2>2, <3>3, <3>4 DEF Layout!Init, LayoutInv, LayoutDone, AssetsFit
  <2> QED BY <2>1, <2>2
<1>2. LayoutInv /\ [MCNext]_all => LayoutInv'
  BY OneTool, LayoutStep
<1> QED
  BY <1>1, <1>2, LayoutSafely, PTL DEF MCSpec

-----------------------------------------------------------------------------
(* The coverage closure.                                                   *)
Cases == [seed : Nat, target : CrossBins, status : {"passed", "failed"},
          new_bins : SUBSET CrossBins, hits : SUBSET CrossBins]
ProgramOf(case) == <<case.seed, case.target>>
Fresh == summarize(BaselineFiles(origin))
AllPassed == \A i \in DOMAIN cases : cases[i].status = "passed"
Added == UNION {cases[i].new_bins : i \in DOMAIN cases}

ClosureTyped ==
  /\ phase \in {"start", "next", "run", "exited"} /\ mode \in {"search", "replay"}
  /\ status \in {"none", "failed", "closed"} /\ gate \in {"none", "pass", "fail"}
  /\ status = "none" <=> phase # "exited"
  /\ drift \in {"none", "generator", "model"} /\ clean \in BOOLEAN /\ broken \in BOOLEAN
  /\ targets \subseteq CrossBins /\ (phase = "run" => target \in CrossBins) /\ seed \in Nat
  /\ cases \in Seq(Cases) /\ todo \in Seq(Cases) /\ manifest \in Seq(Cases)
  /\ \A p \in DOMAIN known : known[p] \subseteq CrossBins

(* The report is that of the directory, until a run fails.                 *)
InSync ==
  phase \in {"next", "run"} \/ status = "closed" =>
    /\ Summarizable(directory) /\ report = summarize(directory) /\ AllPassed
    /\ status = "closed" => CrossBins \subseteq report
Ledger ==
  phase # "start" =>
    /\ report = baseline \cup Added
    /\ \A i \in DOMAIN cases : cases[i].new_bins \subseteq cases[i].hits \ baseline
    /\ \A i, j \in DOMAIN cases : i # j => cases[i].new_bins \cap cases[j].new_bins = {}
    /\ \A i \in DOMAIN cases :
         cases[i].status = "failed" => i = Len(cases) /\ status = "failed"
Gated ==
  gate # "none" =>
    /\ mode = "replay" /\ phase = "exited" /\ status = "closed"
    /\ gate = "pass" <=> summarize(directory) = expected_bins

(* What a program hit once it hits again.                                  *)
Remembered ==
  \A i \in DOMAIN cases : cases[i].status = "passed" =>
    ProgramOf(cases[i]) \in DOMAIN known /\ known[ProgramOf(cases[i])] = cases[i].hits
Replayable(list) == \A i \in DOMAIN list : ProgramOf(list[i]) \in DOMAIN known
Promised(list) == UNION {known[ProgramOf(list[i])] : i \in DOMAIN list}

(* A first search starts from the baseline, and so does the replay of what *)
(* it froze, where the seeds to come promise the bins not yet hit.         *)
FromBaseline ==
  mode = "search" /\ clean =>
    IF phase = "start" THEN directory = BaselineFiles(origin) ELSE baseline = Fresh
Promise ==
  mode = "replay" /\ clean /\ drift = "none" =>
    /\ phase = "start" => /\ directory = BaselineFiles(origin) /\ Replayable(manifest)
                          /\ CrossBins \subseteq Fresh \cup Promised(manifest)
    /\ phase \in {"next", "run"} => Replayable(todo)
    /\ phase = "next" => CrossBins \subseteq report \cup Promised(todo)
    /\ phase = "run" => /\ Program \in DOMAIN known
                        /\ CrossBins \subseteq report \cup known[Program] \cup Promised(todo)
    /\ phase = "exited" => broken \/ status = "closed"
ClosureInv ==
  ClosureTyped /\ InSync /\ Ledger /\ Gated /\ Remembered /\ FromBaseline /\ Promise

-----------------------------------------------------------------------------
LEMMA CrossExpected == CrossBins \subseteq expected_bins
BY DEF expected_bins

(* A file with every bin in it can be read, and counts what was hit.       *)
LEMMA WholeCounts ==
  ASSUME NEW hits
  PROVE  Readable(Dat(hits, TRUE)) /\ read_counts(Dat(hits, TRUE)) = hits \cap expected_bins
<1> DEFINE plain == UNION {{Record("covergroup", g, FALSE, b, <<g, b>> \in hits) :
                              b \in CoverPoints[g]} : g \in DOMAIN CoverPoints}
           cross == UNION {{Record("covergroup", g, TRUE, b, <<CrossName, b>> \in hits) :
                              b \in cross_partitions[g]} : g \in DOMAIN Crosses}
           parts == UNION {{Record("covergroup", g, FALSE, <<b>>, TRUE) : b \in Crosses[g][3]} :
                              g \in DOMAIN Crosses}
           lines == {Record("line", "rv32_slice", FALSE, "line_1", TRUE)}
           file == Dat(hits, TRUE)
<1>1. file = plain \cup cross \cup parts \cup lines
  BY Zenon DEF Dat
<1>2. ASSUME NEW r \in plain
      PROVE  /\ r.kind = "covergroup" /\ Counted(r) /\ r.group \notin DOMAIN Crosses
             /\ r.group \in DOMAIN CoverPoints /\ r.bin \in CoverPoints[r.group]
             /\ Key(r) = <<r.group, r.bin>> /\ (r.hit <=> <<r.group, r.bin>> \in hits)
  <2>0. PICK g \in DOMAIN CoverPoints :
        \E b \in CoverPoints[g] : r = Record("covergroup", g, FALSE, b, <<g, b>> \in hits)
    BY <1>2
  <2>1. PICK b \in CoverPoints[g] : r = Record("covergroup", g, FALSE, b, <<g, b>> \in hits)
    BY <2>0
  <2>2. g \notin DOMAIN Crosses
    BY ClosureAssumption
  <2> QED BY <2>1, <2>2 DEF Record, Counted, Key
<1>3. ASSUME NEW r \in cross
      PROVE  /\ r.kind = "covergroup" /\ Counted(r) /\ r.group \in DOMAIN Crosses
             /\ r.bin \in cross_partitions[r.group]
             /\ Key(r) = <<CrossName, r.bin>> /\ (r.hit <=> <<CrossName, r.bin>> \in hits)
  <2>0. PICK g \in DOMAIN Crosses :
        \E b \in cross_partitions[g] : r = Record("covergroup", g, TRUE, b, <<CrossName, b>> \in hits)
    BY <1>3
  <2>1. PICK b \in cross_partitions[g] :
        r = Record("covergroup", g, TRUE, b, <<CrossName, b>> \in hits)
    BY <2>0
  <2> QED BY <2>1 DEF Record, Counted, Key
<1>4. ASSUME NEW r \in parts \cup lines
      PROVE  ~Counted(r) /\ r.kind # "malformed"
  <2>1. CASE r \in parts
    <3>0. PICK g \in DOMAIN Crosses :
          \E b \in Crosses[g][3] : r = Record("covergroup", g, FALSE, <<b>>, TRUE)
      BY <2>1
    <3>1. PICK b \in Crosses[g][3] : r = Record("covergroup", g, FALSE, <<b>>, TRUE)
      BY <3>0
    <3> QED BY <3>1 DEF Record, Counted
  <2>2. CASE r \in lines
    BY <2>2 DEF Record, Counted
  <2> QED BY <1>4, <2>1, <2>2
<1> HIDE DEF plain, cross, parts, lines, file
<1>5. \A r \in file : Counted(r) => r \in plain \/ r \in cross
  BY <1>1, <1>4
<1>6. \A r \in file : r.kind # "malformed"
  BY <1>1, <1>2, <1>3, <1>4
<1>7. \A r \in file : Counted(r) => Key(r) \in expected_bins /\ (r.hit <=> Key(r) \in hits)
  <2> SUFFICES ASSUME NEW r \in file, Counted(r)
               PROVE  Key(r) \in expected_bins /\ (r.hit <=> Key(r) \in hits)
    OBVIOUS
  <2>1. CASE r \in plain
    <3>1. <<r.group, r.bin>> \in {<<r.group, name>> : name \in CoverPoints[r.group]}
      BY <1>2, <2>1
    <3>2. <<r.group, r.bin>> \in UNION {{<<g, name>> : name \in CoverPoints[g]} :
                                          g \in DOMAIN CoverPoints}
      BY <1>2, <2>1, <3>1
    <3> QED BY <1>2, <2>1, <3>2 DEF expected_bins
  <2>2. CASE r \in cross
    <3>1. r.bin \in UNION {cross_partitions[g] : g \in DOMAIN Crosses}
      BY <1>3, <2>2
    <3>2. <<CrossName, r.bin>> \in CrossBins
      BY <3>1 DEF CrossBins
    <3> QED BY <1>3, <2>2, <3>2, CrossExpected
  <2> QED BY <1>5, <2>1, <2>2
<1>8. \A bin \in expected_bins : \E r \in file : Counted(r) /\ Key(r) = bin
  <2> SUFFICES ASSUME NEW bin \in expected_bins
               PROVE  \E r \in file : Counted(r) /\ Key(r) = bin
    OBVIOUS
  <2>1. CASE bin \in CrossBins
    <3>0. PICK g \in DOMAIN Crosses : \E b \in cross_partitions[g] : bin = <<CrossName, b>>
      BY <2>1 DEF CrossBins
    <3>1. PICK b \in cross_partitions[g] : bin = <<CrossName, b>>
      BY <3>0
    <3> DEFINE r == Record("covergroup", g, TRUE, b, <<CrossName, b>> \in hits)
    <3>2. r \in cross
      <4>1. r \in {Record("covergroup", g, TRUE, n, <<CrossName, n>> \in hits) :
                     n \in cross_partitions[g]}
        OBVIOUS
      <4> HIDE DEF r
      <4> QED BY <4>1 DEF cross
    <3>3. r.bin = b
      BY DEF Record
    <3> QED BY <1>1, <1>3, <3>1, <3>2, <3>3
  <2>2. CASE bin \notin CrossBins
    <3>0. PICK g \in DOMAIN CoverPoints : \E b \in CoverPoints[g] : bin = <<g, b>>
      BY <2>2 DEF expected_bins
    <3>1. PICK b \in CoverPoints[g] : bin = <<g, b>>
      BY <3>0
    <3> DEFINE r == Record("covergroup", g, FALSE, b, <<g, b>> \in hits)
    <3>2. r \in plain
      <4>1. r \in {Record("covergroup", g, FALSE, n, <<g, n>> \in hits) : n \in CoverPoints[g]}
        OBVIOUS
      <4> HIDE DEF r
      <4> QED BY <4>1 DEF plain
    <3>3. r.bin = b /\ r.group = g
      BY DEF Record
    <3> QED BY <1>1, <1>2, <3>1, <3>2, <3>3
  <2> QED BY <2>1, <2>2
<1>9. \A r \in file : Counted(r) /\ r.group \in DOMAIN Crosses => r.bin \in cross_partitions[r.group]
  BY <1>2, <1>3, <1>5
<1>10. {Key(r) : r \in {s \in file : Counted(s)}} = expected_bins
  BY <1>7, <1>8
<1>11. read_counts(file) = hits \cap expected_bins
  <2>1. \A bin \in read_counts(file) : bin \in hits \cap expected_bins
    BY <1>7 DEF read_counts
  <2>2. \A bin \in hits \cap expected_bins : bin \in read_counts(file)
    BY <1>7, <1>8 DEF read_counts
  <2> QED BY <2>1, <2>2
<1>12. Readable(file)
  BY <1>6, <1>9, <1>10 DEF Readable
<1> QED BY <1>11, <1>12 DEF file

LEMMA SummarizeAdds ==
  ASSUME NEW files, NEW file
  PROVE  summarize(files \cup {file}) = summarize(files) \cup read_counts(file)
BY DEF summarize

LEMMA CountsExpected ==
  ASSUME NEW files, Summarizable(files)
  PROVE  summarize(files) \subseteq expected_bins
<1> SUFFICES ASSUME NEW f \in files PROVE read_counts(f) \subseteq expected_bins
  BY DEF summarize
<1>1. {Key(r) : r \in {s \in f : Counted(s)}} = expected_bins
  BY DEF Summarizable, Readable
<1> QED BY <1>1 DEF read_counts

(* The baseline alone can always be read.                                  *)
LEMMA FreshReadable == Summarizable(BaselineFiles(origin))
BY WholeCounts DEF Summarizable, BaselineFiles

-----------------------------------------------------------------------------
LEMMA LeastNat ==
  ASSUME NEW D \in SUBSET Nat, D # {}
  PROVE  \E k \in D : \A j \in D : k <= j
<1> DEFINE Less == OpToRel(<, Nat)
<1>1. IsWellFoundedOn(Less, Nat)
  BY NatLessThanWellFounded
<1>2. \A a, b \in Nat : a < b => <<a, b>> \in Less
  BY Zenon DEF OpToRel
<1> HIDE DEF Less
<1>3. PICK k \in D : \A j \in D : ~(<<j, k>> \in Less)
  BY <1>1, WFMin
<1>4. \A j \in D : ~(j < k)
  BY <1>2, <1>3, Zenon
<1> QED BY <1>4

(* The frozen list is what its definition says, however many cases there   *)
(* are: a function that satisfies the definition exists.                   *)
Longer(list, n) == IF Contributed(cases[n]) THEN Append(list, cases[n]) ELSE list
LEMMA FrozenExists ==
  ASSUME NEW L \in Nat
  PROVE  \E f : f = [n \in 0 .. L |-> IF n = 0 THEN <<>> ELSE Longer(f[n - 1], n)]
<1> DEFINE Exists(m) == \E f : f = [n \in 0 .. m |-> IF n = 0 THEN <<>> ELSE Longer(f[n - 1], n)]
           D == {m \in Nat : ~Exists(m)}
<1> SUFFICES ASSUME D # {} PROVE FALSE
  OBVIOUS
<1>1. PICK k \in D : \A j \in D : k <= j
  BY LeastNat
<1>2. k # 0
  <2> DEFINE f == [n \in 0 .. 0 |-> <<>>]
  <2>1. f = [n \in 0 .. 0 |-> IF n = 0 THEN <<>> ELSE Longer(f[n - 1], n)]
    BY \A n \in 0 .. 0 : n = 0
  <2> HIDE DEF f
  <2> QED BY <2>1, <1>1
<1>3. k - 1 \in Nat /\ k \in Nat /\ Exists(k - 1)
  <2> HIDE DEF Exists
  <2>1. k \in Nat /\ k - 1 \in Nat
    BY <1>1, <1>2
  <2>2. k - 1 \notin D
    BY <1>1, <2>1
  <2> QED BY <2>1, <2>2
<1>4. PICK f : f = [n \in 0 .. k - 1 |-> IF n = 0 THEN <<>> ELSE Longer(f[n - 1], n)]
  BY <1>3
<1> DEFINE g == [n \in 0 .. k |-> IF n = k THEN Longer(f[k - 1], k) ELSE f[n]]
           h == [n \in 0 .. k |-> IF n = 0 THEN <<>> ELSE Longer(g[n - 1], n)]
<1>5. ASSUME NEW n \in 0 .. k PROVE g[n] = h[n]
  <2>1. CASE n = k
    <3>1. g[n - 1] = f[k - 1]
      BY <2>1, <1>2, <1>3
    <3> QED BY <2>1, <3>1, <1>2
  <2>2. CASE n # k /\ n # 0
    <3>1. n \in 0 .. k - 1 /\ n - 1 \in 0 .. k - 1 /\ n - 1 # k /\ n - 1 \in 0 .. k
      BY <2>2, <1>3
    <3>2. g[n - 1] = f[n - 1] /\ g[n] = f[n]
      BY <3>1, <2>2
    <3>3. f[n] = Longer(f[n - 1], n)
      BY <3>1, <2>2, <1>4
    <3> QED BY <2>2, <3>2, <3>3
  <2>3. CASE n # k /\ n = 0
    <3>1. n \in 0 .. k - 1
      BY <2>3, <1>3
    <3> QED BY <3>1, <2>3, <1>4
  <2> QED BY <2>1, <2>2, <2>3
<1>6. g = h
  BY <1>5
<1> HIDE DEF g
<1>7. Exists(k)
  BY <1>6
<1> QED BY <1>7, <1>1

LEMMA FrozenSteps ==
  ASSUME Len(cases) \in Nat
  PROVE  /\ Frozen[0] = <<>>
         /\ \A n \in 1 .. Len(cases) : Frozen[n] = Longer(Frozen[n - 1], n)
<1>1. Frozen = [n \in 0 .. Len(cases) |-> IF n = 0 THEN <<>> ELSE Longer(Frozen[n - 1], n)]
  BY FrozenExists, Zenon DEF Frozen, Longer
<1>2. \A n \in 0 .. Len(cases) :
        Frozen[n] = IF n = 0 THEN <<>> ELSE Longer(Frozen[n - 1], n)
  BY <1>1
<1> QED BY <1>2

(* It has every case that contributed, and no other.                       *)
LEMMA FrozenHolds ==
  ASSUME cases \in Seq(Cases), NEW n \in 0 .. Len(cases)
  PROVE  /\ Frozen[n] \in Seq(Cases)
         /\ \A i \in 1 .. n : Contributed(cases[i]) =>
              \E k \in 1 .. Len(Frozen[n]) : Frozen[n][k] = cases[i]
         /\ \A k \in 1 .. Len(Frozen[n]) : \E i \in 1 .. n : Frozen[n][k] = cases[i]
<1> DEFINE Has(m) ==
      /\ Frozen[m] \in Seq(Cases)
      /\ \A i \in 1 .. m : Contributed(cases[i]) =>
           \E k \in 1 .. Len(Frozen[m]) : Frozen[m][k] = cases[i]
      /\ \A k \in 1 .. Len(Frozen[m]) : \E i \in 1 .. m : Frozen[m][k] = cases[i]
    D == {m \in Nat : m <= Len(cases) /\ ~Has(m)}
<1>0. Len(cases) \in Nat /\ \A i \in 1 .. Len(cases) : cases[i] \in Cases
  BY ElementOfSeq
<1> SUFFICES ASSUME D # {} PROVE FALSE
  <2>1. n \in Nat /\ n <= Len(cases)
    BY <1>0
  <2> QED BY <2>1
<1>1. PICK m \in D : \A j \in D : m <= j
  BY LeastNat
<1>2. m # 0
  <2>1. Has(0)
    <3>1. Frozen[0] = <<>> /\ <<>> \in Seq(Cases) /\ Len(<<>>) = 0
      BY <1>0, FrozenSteps
    <3>2. 1 .. 0 = {}
      OBVIOUS
    <3> QED BY <3>1, <3>2
  <2> QED BY <2>1, <1>1
<1>3. m \in 1 .. Len(cases) /\ m - 1 \in Nat /\ m - 1 <= Len(cases) /\ m \in Nat
  BY <1>1, <1>2, <1>0
<1>4. Has(m - 1)
  BY <1>1, <1>3
<1> DEFINE old == Frozen[m - 1]
           new == Frozen[m]
<1>5. new = Longer(old, m)
  BY <1>0, <1>3, FrozenSteps
<1>6. /\ old \in Seq(Cases) /\ Len(old) \in Nat
      /\ \A i \in 1 .. m - 1 : Contributed(cases[i]) => \E k \in 1 .. Len(old) : old[k] = cases[i]
      /\ \A k \in 1 .. Len(old) : \E i \in 1 .. m - 1 : old[k] = cases[i]
  BY <1>4
<1> HIDE DEF old
<1>7. new \in Seq(Cases)
      /\ (\A i \in 1 .. m : Contributed(cases[i]) => \E k \in 1 .. Len(new) : new[k] = cases[i])
      /\ (\A k \in 1 .. Len(new) : \E i \in 1 .. m : new[k] = cases[i])
  <2> HIDE DEF new
  <2>1. \A i \in 1 .. m : i = m \/ i \in 1 .. m - 1
    BY <1>3
  <2>2. 1 .. m - 1 \subseteq 1 .. m /\ m \in 1 .. m
    BY <1>3
  <2>3. CASE Contributed(cases[m])
    <3>1. new = Append(old, cases[m]) /\ cases[m] \in Cases
      BY <1>5, <2>3, <1>0, <1>3 DEF Longer
    <3>2. /\ new \in Seq(Cases) /\ Len(new) = Len(old) + 1 /\ new[Len(old) + 1] = cases[m]
          /\ \A k \in 1 .. Len(old) : new[k] = old[k]
      BY <3>1, <1>6, AppendProperties
    <3>3. \A k \in 1 .. Len(new) : k = Len(old) + 1 \/ k \in 1 .. Len(old)
      BY <3>2, <1>6
    <3>4. Len(old) + 1 \in 1 .. Len(new) /\ 1 .. Len(old) \subseteq 1 .. Len(new)
      BY <3>2, <1>6
    <3>5. ASSUME NEW i \in 1 .. m, Contributed(cases[i])
          PROVE  \E k \in 1 .. Len(new) : new[k] = cases[i]
      <4>1. CASE i = m
        BY <4>1, <3>2, <3>4
      <4>2. CASE i \in 1 .. m - 1
        <5>1. PICK k \in 1 .. Len(old) : old[k] = cases[i]
          BY <4>2, <3>5, <1>6
        <5> QED BY <5>1, <3>2, <3>4
      <4> QED BY <2>1, <4>1, <4>2
    <3>6. ASSUME NEW k \in 1 .. Len(new)
          PROVE  \E i \in 1 .. m : new[k] = cases[i]
      <4>1. CASE k = Len(old) + 1
        BY <4>1, <3>2, <2>2
      <4>2. CASE k \in 1 .. Len(old)
        <5>1. PICK i \in 1 .. m - 1 : old[k] = cases[i]
          BY <4>2, <1>6
        <5> QED BY <4>2, <5>1, <3>2, <2>2
      <4> QED BY <3>3, <4>1, <4>2
    <3> QED BY <3>2, <3>5, <3>6
  <2>4. CASE ~Contributed(cases[m])
    <3>1. new = old
      BY <1>5, <2>4 DEF Longer
    <3> QED BY <3>1, <2>4, <2>1, <2>2, <1>6
  <2> QED BY <2>3, <2>4
<1> QED BY <1>7, <1>1

-----------------------------------------------------------------------------
(* One case more in the ledger.                                            *)
LEMMA CaseAdded ==
  ASSUME cases \in Seq(Cases), NEW c \in Cases, cases' = Append(cases, c)
  PROVE  /\ cases' \in Seq(Cases) /\ Len(cases) \in Nat /\ Len(cases') = Len(cases) + 1
         /\ DOMAIN cases = 1 .. Len(cases)
         /\ \A i \in DOMAIN cases' : i = Len(cases') \/ (i \in DOMAIN cases /\ cases'[i] = cases[i])
         /\ Len(cases') \in DOMAIN cases' /\ cases'[Len(cases')] = c
         /\ Len(cases') \notin DOMAIN cases
         /\ \A i \in DOMAIN cases : i \in DOMAIN cases' /\ cases'[i] = cases[i]
         /\ Added' = Added \cup c.new_bins
<1>1. /\ cases' \in Seq(Cases) /\ Len(cases) \in Nat /\ Len(cases') = Len(cases) + 1
      /\ \A i \in 1 .. Len(cases) : cases'[i] = cases[i]
      /\ cases'[Len(cases) + 1] = c
      /\ DOMAIN cases = 1 .. Len(cases) /\ DOMAIN cases' = 1 .. Len(cases')
  BY AppendProperties, LenProperties
<1>2. /\ \A i \in DOMAIN cases' : i = Len(cases') \/ (i \in DOMAIN cases /\ cases'[i] = cases[i])
      /\ Len(cases') \in DOMAIN cases' /\ cases'[Len(cases')] = c
      /\ Len(cases') \notin DOMAIN cases
      /\ \A i \in DOMAIN cases : i \in DOMAIN cases' /\ cases'[i] = cases[i]
  BY <1>1
<1>3. Added' = Added \cup c.new_bins
  <2>1. \A bin \in Added' : bin \in Added \cup c.new_bins
    BY <1>2 DEF Added
  <2>2. \A bin \in Added \cup c.new_bins : bin \in Added'
    BY <1>2 DEF Added
  <2> QED BY <2>1, <2>2
<1> QED BY <1>1, <1>2, <1>3

(* The search, or the replay, begins.                                      *)
LEMMA StartKeeps == ClosureInv /\ Start => ClosureInv'
<1> SUFFICES ASSUME ClosureInv, Start PROVE ClosureInv'
  OBVIOUS
<1> USE DEF ClosureInv
<1>1. /\ phase = "start" /\ status = "none" /\ gate = "none" /\ cases' = <<>> /\ seed' = 0
      /\ UNCHANGED <<origin, directory, mode, manifest, drift, gate, known, clean, broken>>
  BY DEF Start, ClosureTyped, Gated, FirstSeed
<1>2. DOMAIN cases' = {} /\ cases' \in Seq(Cases) /\ Added' = {}
  <2>1. DOMAIN cases' = {} /\ cases' \in Seq(Cases)
    BY <1>1
  <2> QED BY <2>1 DEF Added
<1>3. Remembered' /\ AllPassed'
  BY <1>2 DEF Remembered, AllPassed
<1>4. Gated'
  BY <1>1 DEF Gated
<1>5. CASE ~Summarizable(directory) \/ (mode = "replay" /\ drift = "model")
  <2>1. /\ phase' = "exited" /\ status' = "failed" /\ baseline' = {} /\ report' = {}
        /\ UNCHANGED <<targets, todo>>
    BY <1>5 DEF Start, Exit
  <2>2. clean => mode = "replay" /\ drift # "none"
    BY <1>1, <1>5, FreshReadable DEF FromBaseline, Promise, ClosureTyped
  <2>3. ClosureTyped'
    BY <1>1, <1>2, <2>1 DEF ClosureTyped
  <2>4. Ledger'
    BY <1>2, <2>1 DEF Ledger
  <2>5. InSync' /\ FromBaseline' /\ Promise'
    BY <1>1, <2>1, <2>2 DEF InSync, FromBaseline, Promise
  <2> QED BY <1>3, <1>4, <2>3, <2>4, <2>5
<1>6. CASE ~(~Summarizable(directory) \/ (mode = "replay" /\ drift = "model"))
  <2>1. /\ baseline' = summarize(directory) /\ report' = baseline'
        /\ phase' = "next" /\ status' = status
        /\ IF mode = "replay" THEN todo' = manifest /\ UNCHANGED targets
                              ELSE targets' = Uncovered(baseline') /\ UNCHANGED todo
    BY <1>6 DEF Start, Goto
  <2>2. targets' \subseteq CrossBins /\ todo' \in Seq(Cases)
    BY <2>1 DEF ClosureTyped, Uncovered
  <2>3. ClosureTyped'
    BY <1>1, <1>2, <2>1, <2>2 DEF ClosureTyped
  <2>4. Ledger'
    BY <1>2, <2>1 DEF Ledger
  <2>5. InSync'
    BY <1>1, <1>3, <1>6, <2>1 DEF InSync
  <2>6. FromBaseline'
    <3>1. Fresh' = Fresh
      BY <1>1 DEF Fresh, BaselineFiles
    <3>2. mode = "search" /\ clean => directory = BaselineFiles(origin)
      BY <1>1 DEF FromBaseline
    <3> QED BY <1>1, <2>1, <3>1, <3>2 DEF FromBaseline, Fresh
  <2>7. Promise'
    <3> SUFFICES ASSUME mode = "replay", clean, drift = "none" PROVE Promise'
      BY <1>1 DEF Promise
    <3>1. /\ directory = BaselineFiles(origin) /\ Replayable(manifest)
          /\ CrossBins \subseteq Fresh \cup Promised(manifest)
      BY <1>1 DEF Promise
    <3>2. report' = Fresh /\ todo' = manifest
      BY <2>1, <3>1 DEF Fresh
    <3>3. Replayable(todo)' /\ Promised(todo)' = Promised(manifest)
      BY <1>1, <3>1, <3>2 DEF Replayable, Promised
    <3> QED BY <2>1, <3>1, <3>2, <3>3 DEF Promise
  <2> QED BY <1>3, <1>4, <2>3, <2>4, <2>5, <2>6, <2>7
<1> QED BY <1>5, <1>6

(* What is left of the ledger when neither it nor the report changes.      *)
LEMMA LedgerStays ==
  ASSUME ClosureInv, phase # "start", phase' # "start", phase = "exited" => status' = status,
         UNCHANGED <<report, baseline, cases, known>>
  PROVE  Ledger' /\ Remembered' /\ (phase \in {"next", "run"} => AllPassed') /\ Added' = Added
<1> USE DEF ClosureInv
<1>1. Added' = Added
  BY DEF Added
<1>2. phase \in {"next", "run"} => AllPassed /\ AllPassed'
  BY DEF InSync, AllPassed
<1>3. Remembered'
  BY DEF Remembered, ProgramOf
<1>4. \A i \in DOMAIN cases : cases[i].status = "failed" => i = Len(cases) /\ status' = "failed"
  <2>1. CASE phase \in {"next", "run"}
    BY <1>2, <2>1 DEF AllPassed
  <2>2. CASE phase = "exited"
    BY <2>2 DEF Ledger
  <2> QED BY <2>1, <2>2 DEF ClosureTyped
<1>5. Ledger'
  BY <1>1, <1>4 DEF Ledger
<1> QED BY <1>1, <1>2, <1>3, <1>5

LEMMA NextTargetKeeps == ClosureInv /\ NextTarget => ClosureInv'
<1> SUFFICES ASSUME ClosureInv, NextTarget PROVE ClosureInv'
  OBVIOUS
<1> USE DEF ClosureInv
<1>1. /\ phase = "next" /\ mode = "search" /\ status = "none" /\ gate = "none"
      /\ UNCHANGED <<origin, directory, mode, baseline, report, seed, todo, cases, manifest,
                     drift, gate, known, clean, broken>>
  BY DEF NextTarget, ClosureTyped, Gated
<1>2. PICK t \in targets :
        /\ targets' = targets \ {t}
        /\ IF t \in Uncovered(report) THEN target' = t /\ attempt' = 0 /\ Goto("run")
                                      ELSE UNCHANGED <<target, attempt, phase, status>>
  BY DEF NextTarget
<1>3. /\ targets' \subseteq CrossBins /\ phase' \in {"next", "run"} /\ status' = "none"
      /\ phase' = "run" => target' \in CrossBins
  BY <1>1, <1>2 DEF Goto, ClosureTyped
<1>4. ClosureTyped'
  BY <1>1, <1>3 DEF ClosureTyped
<1>5. Ledger' /\ Remembered' /\ AllPassed'
  BY <1>1, <1>3, LedgerStays
<1>6. InSync'
  BY <1>1, <1>3, <1>5 DEF InSync
<1>7. Gated' /\ Promise'
  BY <1>1 DEF Gated, Promise
<1>8. FromBaseline'
  BY <1>1, <1>3 DEF FromBaseline, Fresh, BaselineFiles
<1> QED BY <1>4, <1>5, <1>6, <1>7, <1>8

LEMMA NextFrozenKeeps == ClosureInv /\ NextFrozen => ClosureInv'
<1> SUFFICES ASSUME ClosureInv, NextFrozen PROVE ClosureInv'
  OBVIOUS
<1> USE DEF ClosureInv
<1>1. /\ phase = "next" /\ mode = "replay" /\ todo # <<>> /\ status = "none" /\ gate = "none"
      /\ UNCHANGED <<origin, directory, mode, baseline, report, targets, cases, manifest, drift,
                     gate, known, clean, broken>>
  BY DEF NextFrozen, ClosureTyped, Gated
<1>2. Gated' /\ FromBaseline'
  BY <1>1 DEF Gated, FromBaseline
<1>3. CASE drift = "generator"
  <2>1. phase' = "exited" /\ status' = "failed" /\ UNCHANGED <<target, seed, todo>>
    BY <1>3 DEF NextFrozen, Exit
  <2>2. ClosureTyped'
    BY <1>1, <2>1 DEF ClosureTyped
  <2>3. InSync' /\ Promise'
    BY <1>1, <1>3, <2>1 DEF InSync, Promise
  <2>4. Ledger' /\ Remembered'
    BY <1>1, <2>1, LedgerStays
  <2> QED BY <1>2, <2>2, <2>3, <2>4
<1>4. CASE drift # "generator"
  <2>1. /\ target' = Head(todo).target /\ seed' = Head(todo).seed /\ todo' = Tail(todo)
        /\ phase' = "run" /\ status' = status
    BY <1>4 DEF NextFrozen, Goto
  <2>2. /\ Head(todo) \in Cases /\ Tail(todo) \in Seq(Cases) /\ Head(todo) = todo[1]
        /\ Len(todo) \in Nat \ {0} /\ Len(Tail(todo)) = Len(todo) - 1
        /\ \A i \in 1 .. Len(Tail(todo)) : Tail(todo)[i] = todo[i + 1]
        /\ DOMAIN todo = 1 .. Len(todo) /\ DOMAIN Tail(todo) = 1 .. Len(Tail(todo))
    BY <1>1, HeadTailProperties, LenProperties DEF ClosureTyped
  <2>3. target' \in CrossBins /\ seed' \in Nat
    BY <2>1, <2>2 DEF Cases
  <2>4. ClosureTyped'
    BY <1>1, <2>1, <2>2, <2>3 DEF ClosureTyped
  <2>5. Ledger' /\ Remembered' /\ AllPassed'
    BY <1>1, <2>1, LedgerStays
  <2>6. InSync'
    BY <1>1, <2>1, <2>5 DEF InSync
  <2>7. Promise'
    <3> SUFFICES ASSUME clean, drift = "none" PROVE Promise'
      BY <1>1 DEF Promise
    <3>1. Replayable(todo) /\ CrossBins \subseteq report \cup Promised(todo)
      BY <1>1 DEF Promise
    <3>2. Program' = ProgramOf(todo[1])
      BY <2>1, <2>2 DEF Program, ProgramOf
    <3>3. \A i \in DOMAIN todo : i = 1 \/ (i - 1 \in DOMAIN todo' /\ todo'[i - 1] = todo[i])
      BY <2>1, <2>2
    <3>4. \A i \in DOMAIN todo' : i + 1 \in DOMAIN todo /\ todo'[i] = todo[i + 1]
      BY <2>1, <2>2
    <3>5. Replayable(todo)' /\ Program' \in DOMAIN known'
      BY <1>1, <2>2, <3>1, <3>2, <3>4 DEF Replayable
    <3>6. ASSUME NEW bin \in Promised(todo)
          PROVE  bin \in (known[Program])' \cup Promised(todo)'
      <4>1. PICK i \in DOMAIN todo : bin \in known[ProgramOf(todo[i])]
        BY <3>6 DEF Promised
      <4>2. CASE i = 1
        BY <1>1, <3>2, <4>1, <4>2
      <4>3. CASE i # 1
        BY <1>1, <3>3, <4>1, <4>3 DEF Promised
      <4> QED BY <4>2, <4>3
    <3>7. (CrossBins \subseteq report \cup known[Program] \cup Promised(todo))'
      BY <1>1, <3>1, <3>6
    <3> QED BY <2>1, <3>5, <3>7 DEF Promise
  <2> QED BY <1>2, <2>4, <2>5, <2>6, <2>7
<1> QED BY <1>3, <1>4

(* Every program keeps what it hit, and this one's hits are now known.     *)
LEMMA RunPassesKeeps == ClosureInv /\ RunPasses => ClosureInv'
<1> SUFFICES ASSUME ClosureInv, RunPasses PROVE ClosureInv'
  OBVIOUS
<1> USE DEF ClosureInv
<1> DEFINE updated(hits) == Merged(directory \cup {Dat(hits, TRUE)})
           Entry(hits) == [seed |-> seed, target |-> target, status |-> "passed",
                           new_bins |-> Gained(updated(hits)), hits |-> hits]
<1>1. /\ phase = "run" /\ status = "none" /\ gate = "none"
      /\ UNCHANGED <<origin, mode, baseline, targets, target, todo, manifest, drift, gate,
                     clean, broken>>
  BY DEF RunPasses, ClosureTyped, Gated
<1>2. PICK hits \in MayHit :
        /\ directory' = directory \cup {Dat(hits, TRUE)} /\ report' = updated(hits)
        /\ known' = [p \in DOMAIN known \cup {Program} |-> IF p = Program THEN hits ELSE known[p]]
        /\ cases' = Append(cases, Entry(hits))
        /\ IF mode = "replay"
           THEN Goto("next") /\ UNCHANGED <<seed, attempt>>
           ELSE /\ seed' = seed + 1
                /\ IF target \notin Uncovered(updated(hits)) THEN Goto("next") /\ UNCHANGED attempt
                   ELSE IF attempt + 1 < Attempts THEN attempt' = attempt + 1 /\ Goto("run")
                   ELSE Exit("failed") /\ UNCHANGED attempt
  BY Zenon DEF RunPasses
<1> DEFINE c == Entry(hits)
<1>3. hits \subseteq CrossBins
  BY <1>2 DEF MayHit, ClosureTyped
<1>4. report' = report \cup hits
  <2>1. report' = summarize(directory) \cup read_counts(Dat(hits, TRUE))
    BY <1>2, SummarizeAdds DEF Merged
  <2>2. read_counts(Dat(hits, TRUE)) = hits
    BY <1>3, WholeCounts, CrossExpected
  <2> QED BY <2>1, <2>2, <1>1 DEF InSync
<1>5. c.new_bins = hits \ report
  <2>1. updated(hits) = report \cup hits
    BY <1>2, <1>4
  <2> QED BY <2>1, <1>3 DEF Gained, Uncovered
<1>6. c \in Cases /\ c.status = "passed" /\ c.hits = hits /\ ProgramOf(c) = Program
  BY <1>1, <1>3, <1>5 DEF Cases, ClosureTyped, ProgramOf, Program
<1>7. cases' = Append(cases, c) /\ cases \in Seq(Cases)
  BY <1>2 DEF ClosureTyped
<1> HIDE DEF c
<1>8. /\ phase' \in {"next", "run", "exited"} /\ status' = IF phase' = "exited" THEN "failed" ELSE "none"
      /\ phase' = "run" => target' \in CrossBins
      /\ seed' \in Nat
      /\ mode = "replay" => phase' = "next"
  <2>1. target \in CrossBins /\ seed \in Nat
    BY <1>1 DEF ClosureTyped
  <2> QED BY <1>1, <1>2, <2>1 DEF Goto, Exit
<1>9. /\ \A p \in DOMAIN known : p \in DOMAIN known' /\ known'[p] = known[p]
      /\ Program \in DOMAIN known' /\ known'[Program] = hits
      /\ \A p \in DOMAIN known' : known'[p] \subseteq CrossBins
  <2>1. DOMAIN known' = DOMAIN known \cup {Program}
    BY <1>2
  <2>2. \A p \in DOMAIN known' : known'[p] = IF p = Program THEN hits ELSE known[p]
    BY <1>2, <2>1
  <2>3. Program \in DOMAIN known => hits = known[Program]
    BY <1>2 DEF MayHit
  <2> QED BY <2>1, <2>2, <2>3, <1>3 DEF ClosureTyped
<1>10. ClosureTyped'
  BY <1>1, <1>6, <1>7, <1>8, <1>9, CaseAdded DEF ClosureTyped
<1>11. AllPassed /\ Ledger
  BY <1>1 DEF InSync
<1>12. AllPassed'
  BY <1>6, <1>7, <1>11, CaseAdded DEF AllPassed
<1>13. InSync'
  <2>1. Summarizable(directory)' /\ report' = summarize(directory')
    BY <1>1, <1>2, WholeCounts DEF InSync, Summarizable, Merged
  <2> QED BY <1>8, <1>12, <2>1 DEF InSync
<1>14. Ledger'
  <2>0. report = baseline \cup Added
    BY <1>1 DEF Ledger
  <2>1. report' = baseline' \cup Added'
    BY <1>1, <1>4, <1>5, <1>6, <1>7, <2>0, CaseAdded
  <2>2. \A i \in DOMAIN cases' : cases'[i].new_bins \subseteq cases'[i].hits \ baseline'
    <3> SUFFICES ASSUME NEW i \in DOMAIN cases'
                 PROVE  cases'[i].new_bins \subseteq cases'[i].hits \ baseline
      BY <1>1
    <3>1. CASE i = Len(cases')
      BY <3>1, <1>5, <1>6, <1>7, <2>0, CaseAdded
    <3>2. CASE i \in DOMAIN cases /\ cases'[i] = cases[i]
      BY <3>2, <1>1 DEF Ledger
    <3> QED BY <3>1, <3>2, <1>6, <1>7, CaseAdded
  <2>3. \A i \in DOMAIN cases : cases[i].new_bins \cap c.new_bins = {}
    BY <1>5, <2>0 DEF Added
  <2>4. \A i, j \in DOMAIN cases' : i # j => cases'[i].new_bins \cap cases'[j].new_bins = {}
    <3> SUFFICES ASSUME NEW i \in DOMAIN cases', NEW j \in DOMAIN cases', i # j
                 PROVE  cases'[i].new_bins \cap cases'[j].new_bins = {}
      OBVIOUS
    <3>1. /\ i = Len(cases') \/ (i \in DOMAIN cases /\ cases'[i] = cases[i])
          /\ j = Len(cases') \/ (j \in DOMAIN cases /\ cases'[j] = cases[j])
          /\ cases'[Len(cases')] = c
      BY <1>6, <1>7, CaseAdded
    <3>2. CASE i \in DOMAIN cases /\ j \in DOMAIN cases /\ cases'[i] = cases[i] /\ cases'[j] = cases[j]
      BY <3>2, <1>1 DEF Ledger
    <3>3. CASE i = Len(cases') /\ j \in DOMAIN cases /\ cases'[j] = cases[j]
      BY <3>1, <3>3, <2>3
    <3>4. CASE j = Len(cases') /\ i \in DOMAIN cases /\ cases'[i] = cases[i]
      BY <3>1, <3>4, <2>3
    <3> QED BY <3>1, <3>2, <3>3, <3>4
  <2> QED BY <1>12, <2>1, <2>2, <2>4 DEF Ledger, AllPassed
<1>15. Remembered'
  <2> SUFFICES ASSUME NEW i \in DOMAIN cases'
               PROVE  /\ ProgramOf(cases'[i]) \in DOMAIN known'
                      /\ known'[ProgramOf(cases'[i])] = cases'[i].hits
    BY DEF Remembered, ProgramOf
  <2>1. CASE i = Len(cases')
    BY <2>1, <1>6, <1>7, <1>9, CaseAdded
  <2>2. CASE i \in DOMAIN cases /\ cases'[i] = cases[i]
    BY <2>2, <1>9, <1>11 DEF Remembered, AllPassed
  <2> QED BY <2>1, <2>2, <1>6, <1>7, CaseAdded
<1>16. Gated'
  BY <1>1 DEF Gated
<1>17. FromBaseline'
  BY <1>1, <1>8 DEF FromBaseline, Fresh, BaselineFiles
<1>18. Promise'
  <2> SUFFICES ASSUME mode = "replay", clean, drift = "none" PROVE Promise'
    BY <1>1 DEF Promise
  <2>1. /\ Replayable(todo) /\ Program \in DOMAIN known
        /\ CrossBins \subseteq report \cup known[Program] \cup Promised(todo)
    BY <1>1 DEF Promise
  <2>2. phase' = "next" /\ todo' = todo
    BY <1>1, <1>8
  <2>3. Replayable(todo)' /\ Promised(todo)' = Promised(todo)
    BY <1>9, <2>1, <2>2 DEF Replayable, Promised, ProgramOf
  <2>4. CrossBins \subseteq report' \cup Promised(todo)'
    BY <1>4, <1>9, <2>1, <2>3
  <2> QED BY <2>2, <2>3, <2>4 DEF Promise
<1> QED BY <1>10, <1>13, <1>14, <1>15, <1>16, <1>17, <1>18

LEMMA RunFailsKeeps == ClosureInv /\ (RunFails \/ Interrupted) => ClosureInv'
<1> SUFFICES ASSUME ClosureInv, RunFails \/ Interrupted PROVE ClosureInv'
  OBVIOUS
<1> USE DEF ClosureInv
<1>1. /\ phase = "run" /\ gate = "none" /\ phase' = "exited" /\ status' = "failed" /\ broken' = TRUE
      /\ UNCHANGED <<origin, mode, baseline, report, targets, target, attempt, seed, todo,
                     manifest, drift, gate, known, clean>>
  BY DEF RunFails, Interrupted, Exit, Gated
<1>2. InSync' /\ Gated' /\ Promise'
  BY <1>1 DEF InSync, Gated, Promise
<1>3. FromBaseline'
  BY <1>1 DEF FromBaseline, Fresh, BaselineFiles
<1>4. AllPassed /\ target \in CrossBins /\ seed \in Nat /\ cases \in Seq(Cases)
  BY <1>1 DEF InSync, ClosureTyped
<1>5. CASE cases' = Append(cases, Failed)
  <2>1. /\ Failed \in Cases /\ Failed.new_bins = {} /\ Failed.hits = {} /\ Failed.status = "failed"
    BY <1>4 DEF Failed, Cases
  <2>2. ClosureTyped'
    BY <1>1, <1>4, <1>5, <2>1, CaseAdded DEF ClosureTyped
  <2>3. Remembered'
    <3> SUFFICES ASSUME NEW i \in DOMAIN cases', cases'[i].status = "passed"
                 PROVE  /\ ProgramOf(cases'[i]) \in DOMAIN known
                        /\ known[ProgramOf(cases'[i])] = cases'[i].hits
      BY <1>1 DEF Remembered, ProgramOf
    <3>1. i \in DOMAIN cases /\ cases'[i] = cases[i]
      BY <1>4, <1>5, <2>1, CaseAdded
    <3> QED BY <3>1 DEF Remembered
  <2>4. Ledger'
    <3>0. /\ report = baseline \cup Added /\ Added' = Added
          /\ \A i \in DOMAIN cases : cases[i].new_bins \subseteq cases[i].hits \ baseline
          /\ \A i, j \in DOMAIN cases : i # j => cases[i].new_bins \cap cases[j].new_bins = {}
      <4>1. Added' = Added \cup Failed.new_bins
        BY <1>4, <1>5, <2>1, CaseAdded
      <4> QED BY <4>1, <1>1, <2>1 DEF Ledger
    <3>1. \A i \in DOMAIN cases' :
            \/ i = Len(cases') /\ cases'[i].new_bins = {} /\ cases'[i].hits = {}
            \/ i \in DOMAIN cases /\ cases'[i] = cases[i]
      BY <1>4, <1>5, <2>1, CaseAdded
    <3>2. \A i \in DOMAIN cases' : cases'[i].new_bins \subseteq cases'[i].hits \ baseline
      BY <3>0, <3>1
    <3>3. \A i, j \in DOMAIN cases' : i # j => cases'[i].new_bins \cap cases'[j].new_bins = {}
      BY <3>0, <3>1
    <3>4. \A i \in DOMAIN cases' : cases'[i].status = "failed" => i = Len(cases')
      BY <1>4, <3>1 DEF AllPassed
    <3> QED BY <1>1, <3>0, <3>2, <3>3, <3>4 DEF Ledger
  <2> QED BY <1>2, <1>3, <2>2, <2>3, <2>4
<1>6. CASE UNCHANGED cases
  <2>1. Ledger' /\ Remembered'
    BY <1>1, <1>6, LedgerStays
  <2>2. ClosureTyped'
    BY <1>1, <1>6 DEF ClosureTyped
  <2> QED BY <1>2, <1>3, <2>1, <2>2
<1> QED BY <1>5, <1>6 DEF RunFails, Interrupted

LEMMA EndKeeps == ClosureInv /\ (Finish \/ Gate \/ Again) => ClosureInv'
<1> USE DEF ClosureInv
<1>1. ASSUME ClosureInv, Finish PROVE ClosureInv'
  <2>1. /\ phase = "next" /\ status = "none" /\ gate = "none" /\ phase' = "exited"
        /\ mode = "replay" => todo = <<>>
        /\ status' = IF Uncovered(report) = {} THEN "closed" ELSE "failed"
        /\ UNCHANGED <<origin, directory, mode, baseline, report, targets, target, attempt, seed,
                       todo, cases, manifest, drift, gate, known, clean, broken, session>>
    BY <1>1 DEF Finish, Exit, ClosureTyped, Gated
  <2>2. ClosureTyped'
    BY <1>1, <2>1 DEF ClosureTyped
  <2>3. Ledger' /\ Remembered' /\ AllPassed'
    BY <1>1, <2>1, LedgerStays
  <2>4. CrossBins \subseteq report <=> Uncovered(report) = {}
    BY DEF Uncovered
  <2>5. InSync'
    BY <1>1, <2>1, <2>3, <2>4 DEF InSync
  <2>6. Gated' /\ FromBaseline'
    BY <1>1, <2>1 DEF Gated, FromBaseline, Fresh, BaselineFiles
  <2>7. Promise'
    <3> SUFFICES ASSUME mode = "replay", clean, drift = "none" PROVE status' = "closed"
      BY <2>1 DEF Promise
    <3>1. CrossBins \subseteq report \cup Promised(todo) /\ todo = <<>>
      BY <1>1, <2>1 DEF Promise
    <3>2. Promised(todo) = {}
      BY <3>1 DEF Promised
    <3> QED BY <2>1, <2>4, <3>1, <3>2
  <2> QED BY <2>2, <2>3, <2>5, <2>6, <2>7
<1>2. ASSUME ClosureInv, Gate PROVE ClosureInv'
  <2>1. /\ phase = "exited" /\ mode = "replay" /\ status = "closed"
        /\ gate' = IF Summarizable(directory) /\ summarize(directory) = expected_bins
                   THEN "pass" ELSE "fail"
        /\ UNCHANGED <<origin, directory, mode, phase, status, baseline, report, targets, target,
                       attempt, seed, todo, cases, manifest, drift, known, clean, broken, session>>
    BY <1>2 DEF Gate
  <2>2. ClosureTyped'
    BY <1>2, <2>1 DEF ClosureTyped
  <2>3. Ledger' /\ Remembered'
    BY <1>2, <2>1, LedgerStays
  <2>4. InSync'
    BY <1>2, <2>1 DEF InSync, AllPassed
  <2>5. Gated'
    BY <1>2, <2>1 DEF Gated, InSync
  <2>6. FromBaseline' /\ Promise'
    BY <1>2, <2>1 DEF FromBaseline, Promise
  <2> QED BY <2>2, <2>3, <2>4, <2>5, <2>6
<1>3. ASSUME ClosureInv, Again PROVE ClosureInv'
  <2>1. /\ phase = "exited" /\ mode = "search" /\ gate = "none" /\ clean' = FALSE
        /\ broken' = FALSE /\ phase' = "start" /\ status' = "none"
        /\ UNCHANGED <<origin, directory, mode, baseline, report, targets, target, attempt, seed,
                       todo, cases, manifest, drift, gate, known>>
    BY <1>3 DEF Again, Gated
  <2>2. ClosureTyped'
    BY <1>3, <2>1 DEF ClosureTyped
  <2>3. Remembered'
    BY <1>3, <2>1 DEF Remembered, ProgramOf
  <2>4. InSync' /\ Gated' /\ Ledger' /\ FromBaseline' /\ Promise'
    BY <1>3, <2>1 DEF InSync, Gated, Ledger, FromBaseline, Promise
  <2> QED BY <2>2, <2>3, <2>4
<1> QED BY <1>1, <1>2, <1>3

(* What was covered, the baseline covers again or a frozen seed promises.  *)
LEMMA FreezeKeeps == ClosureInv /\ Freeze => ClosureInv'
<1> SUFFICES ASSUME ClosureInv, Freeze PROVE ClosureInv'
  OBVIOUS
<1> USE DEF ClosureInv
<1>1. /\ phase = "exited" /\ mode = "search" /\ status = "closed" /\ gate = "none"
      /\ manifest' = Frozen[Len(cases)] /\ mode' = "replay" /\ phase' = "start"
      /\ status' = "none" /\ drift' \in {"none", "generator", "model"}
      /\ directory' = BaselineFiles(origin) /\ broken' = FALSE
      /\ UNCHANGED <<origin, baseline, report, targets, target, attempt, seed, todo, cases, gate,
                     known, clean, session>>
  BY DEF Freeze, Gated
<1>2. cases \in Seq(Cases) /\ Len(cases) \in Nat /\ DOMAIN cases = 1 .. Len(cases)
      /\ Len(cases) \in 0 .. Len(cases)
  BY LenProperties DEF ClosureTyped
<1>3. /\ manifest' \in Seq(Cases)
      /\ \A i \in 1 .. Len(cases) : Contributed(cases[i]) =>
           \E k \in 1 .. Len(manifest') : manifest'[k] = cases[i]
      /\ \A k \in 1 .. Len(manifest') : \E i \in 1 .. Len(cases) : manifest'[k] = cases[i]
  BY <1>1, <1>2, FrozenHolds
<1>4. DOMAIN manifest' = 1 .. Len(manifest')
  BY <1>3, LenProperties
<1>5. ClosureTyped'
  BY <1>1, <1>3 DEF ClosureTyped
<1>6. Remembered'
  BY <1>1 DEF Remembered, ProgramOf
<1>7. InSync' /\ Ledger' /\ Gated' /\ FromBaseline'
  BY <1>1 DEF InSync, Ledger, Gated, FromBaseline
<1>8. Promise'
  <2> SUFFICES ASSUME clean
               PROVE  /\ directory' = BaselineFiles(origin)' /\ Replayable(manifest)'
                      /\ (CrossBins \subseteq Fresh \cup Promised(manifest))'
    BY <1>1 DEF Promise
  <2>1. directory' = BaselineFiles(origin)' /\ Fresh' = Fresh
    BY <1>1 DEF BaselineFiles, Fresh
  <2>2. \A i \in DOMAIN cases :
          ProgramOf(cases[i]) \in DOMAIN known /\ known[ProgramOf(cases[i])] = cases[i].hits
    BY <1>1 DEF InSync, AllPassed, Remembered
  <2>3. Replayable(manifest)'
    <3> SUFFICES ASSUME NEW k \in 1 .. Len(manifest')
                 PROVE  ProgramOf(manifest'[k]) \in DOMAIN known
      BY <1>1, <1>4 DEF Replayable, ProgramOf
    <3>1. PICK i \in 1 .. Len(cases) : manifest'[k] = cases[i]
      BY <1>3
    <3> QED BY <1>2, <2>2, <3>1
  <2>4. CrossBins \subseteq baseline \cup Added /\ baseline = Fresh
    BY <1>1 DEF InSync, Ledger, FromBaseline
  <2>5. ASSUME NEW bin \in Added PROVE bin \in Promised(manifest)'
    <3>1. PICK i \in DOMAIN cases : bin \in cases[i].new_bins
      BY <2>5 DEF Added
    <3>2. bin \in cases[i].hits
      BY <1>1, <3>1 DEF Ledger
    <3>3. PICK k \in 1 .. Len(manifest') : manifest'[k] = cases[i]
      BY <1>2, <1>3, <3>1 DEF Contributed
    <3>4. bin \in known'[ProgramOf(manifest'[k])]
      BY <1>1, <2>2, <3>1, <3>2, <3>3
    <3> QED BY <1>4, <3>4 DEF Promised, ProgramOf
  <2> QED BY <2>1, <2>3, <2>4, <2>5
<1> QED BY <1>5, <1>6, <1>7, <1>8

THEOREM ClosureInvariant == Spec => []ClosureInv
<1>1. Init => ClosureInv
  <2> SUFFICES ASSUME Init PROVE ClosureInv
    OBVIOUS
  <2> USE DEF Init
  <2>1. <<>> \in Seq(Cases) /\ DOMAIN <<>> = {}
    OBVIOUS
  <2>2. cases = <<>> /\ todo = <<>> /\ manifest = <<>> /\ known = <<>> /\ clean = TRUE /\ broken = FALSE
        /\ phase = "start" /\ mode = "search" /\ status = "none" /\ gate = "none" /\ drift = "none"
        /\ targets = {} /\ seed = 0 /\ directory = BaselineFiles(origin)
    BY DEF FirstSeed
  <2>3. ClosureTyped
    BY ONLY <2>1, <2>2 DEF ClosureTyped
  <2>4. InSync /\ Ledger /\ Gated /\ Remembered /\ FromBaseline /\ Promise
    BY ONLY <2>1, <2>2 DEF InSync, Ledger, Gated, Remembered, FromBaseline, Promise
  <2> QED BY <2>3, <2>4 DEF ClosureInv
<1>2. ClosureInv /\ [Next]_vars => ClosureInv'
  <2>1. ClosureInv /\ (UNCHANGED vars \/ Stopped) => ClosureInv'
    <3> SUFFICES ASSUME ClosureInv, UNCHANGED vars PROVE ClosureInv'
      BY DEF Stopped
    <3> USE DEF vars
    <3>1. (ClosureTyped /\ InSync)' <=> (ClosureTyped /\ InSync)
      BY DEF ClosureTyped, InSync, AllPassed
    <3>2. (Ledger /\ Gated /\ Remembered)' <=> (Ledger /\ Gated /\ Remembered)
      BY DEF Ledger, Gated, Remembered, Added, ProgramOf
    <3>3. Fresh' = Fresh /\ BaselineFiles(origin)' = BaselineFiles(origin) /\ Program' = Program
      BY DEF Fresh, BaselineFiles, Program
    <3>4. (FromBaseline /\ Promise)' <=> (FromBaseline /\ Promise)
      BY <3>3 DEF FromBaseline, Promise, Replayable, Promised, ProgramOf
    <3> QED BY <3>1, <3>2, <3>4 DEF ClosureInv
  <2> QED
    BY <2>1, StartKeeps, NextTargetKeeps, NextFrozenKeeps, RunPassesKeeps, RunFailsKeeps,
       EndKeeps, FreezeKeeps DEF Next
<1> QED BY <1>1, <1>2, PTL DEF Spec

(* close_cpu_cross_coverage.py:34-78: the ledger explains the coverage,    *)
(* each bin credited once, to a run that hit it and that Spike agreed with.*)
THEOREM LedgerSound == Spec => []LedgerExplains
<1>1. ClosureInv => LedgerExplains
  BY DEF ClosureInv, ClosureTyped, Ledger, LedgerExplains, Added
<1> QED BY <1>1, ClosureInvariant, PTL

(* close_cpu_cross_coverage.py:80-114, report_cpu_coverage.py:97-124:      *)
(* closed means that every bin is hit, by runs that passed, and replaying  *)
(* the seeds that contributed closes it again.                             *)
THEOREM ClosureSound == Spec => []ClosedMeans
<1>1. ClosureInv => ClosedMeansHit
  <2> SUFFICES ASSUME ClosureInv, status = "closed" PROVE ClosedMeansHit
    BY DEF ClosedMeansHit
  <2> USE DEF ClosureInv
  <2>1. /\ Summarizable(directory) /\ report = summarize(directory) /\ CrossBins \subseteq report
        /\ \A i \in DOMAIN cases : cases[i].status = "passed"
    BY DEF InSync, AllPassed
  <2>2. summarize(directory) \subseteq expected_bins
    BY <2>1, CountsExpected
  <2>3. (\A b \in expected_bins : \E f \in directory : b \in read_counts(f))
          <=> summarize(directory) = expected_bins
    BY <2>2 DEF summarize
  <2>4. gate # "none" => (gate = "pass" <=> summarize(directory) = expected_bins)
    BY DEF Gated
  <2>5. gate = "pass" <=> gate # "none" /\ \A b \in expected_bins :
                            \E f \in directory : b \in read_counts(f)
    BY <2>3, <2>4
  <2> QED BY <2>1, <2>5 DEF ClosedMeansHit
<1>2. ClosureInv => ReplayCloses
  BY DEF ClosureInv, Promise, ReplayCloses
<1> QED BY <1>1, <1>2, ClosureInvariant, PTL DEF ClosedMeans

-----------------------------------------------------------------------------
(* The board report.                                                       *)
W == StatusWords
Expected(index) == IF index = 0 THEN Report!Magic ELSE br_taken
Places == 1 .. Len(br_data)

ReportTyped ==
  /\ br_now \in Nat /\ br_heard \in 0 .. W /\ br_byte_index \in 0 .. W
  /\ br_phase \in {"closed", "reading", "captured", "decoded"}
  /\ br_data \in Seq(Int) /\ br_transmitting \in Int
  /\ br_taken \in Nat \cup {Report!Nothing} /\ br_latest \in Nat \cup {Report!Nothing}
  /\ br_sending \in BOOLEAN /\ br_pause \in BOOLEAN /\ br_torn \in BOOLEAN

(* What is in the transmitter is the packet's token before the next one.   *)
PacketSent ==
  /\ br_sending => br_taken \in Nat /\ br_snapshot = [i \in 1 .. W |-> br_taken]
  /\ ~br_sending /\ ~br_pause => br_transmitting = Report!Silence
  /\ br_transmitting # Report!Silence =>
       /\ br_taken \in Nat
       /\ IF br_sending
          THEN br_byte_index >= 1 /\ br_transmitting = Expected(br_byte_index - 1)
          ELSE br_transmitting = br_taken

(* The host has heard the packet up to where it has been sent.             *)
HeardSoFar ==
  /\ br_phase = "closed" => br_heard = 0
  /\ br_heard > 0 /\ br_phase = "reading" =>
       IF br_transmitting = Report!Silence THEN br_sending /\ br_byte_index = br_heard
       ELSE IF br_sending THEN br_byte_index = br_heard + 1 ELSE br_heard = W
  /\ br_heard > 0 =>
       /\ br_heard <= Len(br_data) /\ br_taken \in Nat
       /\ br_data[Len(br_data) - br_heard + 1] = Report!Magic
       /\ \A k \in 1 .. br_heard - 1 : br_data[Len(br_data) - br_heard + 1 + k] = br_taken

(* A magic in the capture has its packet behind it, or is the one heard.   *)
MagicHeard ==
  ~br_torn => \A p \in Places : br_data[p] = Report!Magic =>
    p + W <= Len(br_data) \/ (br_heard > 0 /\ p = Len(br_data) - br_heard + 1)
LastIs(p) ==
  /\ p \in Report!Complete(br_data) /\ \A m \in Report!Complete(br_data) : m <= p
  /\ \A k \in 1 .. W : br_data[p + k] = br_latest
LatestIsLast ==
  ~br_torn => IF br_latest = Report!Nothing THEN Report!Complete(br_data) = {}
              ELSE \E p \in Places : LastIs(p)
ReportedWhole ==
  br_phase = "decoded" /\ ~br_torn =>
    br_status = IF br_latest = Report!Nothing THEN "no_packet"
                ELSE IF br_latest \in Passing THEN "pass" ELSE "fail"
ReportInv ==
  ReportTyped /\ PacketSent /\ HeardSoFar /\ MagicHeard /\ LatestIsLast /\ ReportedWhole

LEMMA PacketModulus ==
  ASSUME NEW n \in Nat, NEW w \in Nat, n <= w
  PROVE  (n + 1) % (w + 1) = IF n = w THEN 0 ELSE n + 1
  OBVIOUS

(* One more token completes at most the packet that began W tokens before. *)
LEMMA OneMoreToken ==
  ASSUME NEW seq \in Seq(Int), NEW token \in Int
  PROVE  /\ Append(seq, token) \in Seq(Int) /\ Len(Append(seq, token)) = Len(seq) + 1
         /\ \A i \in 1 .. Len(seq) : Append(seq, token)[i] = seq[i]
         /\ Append(seq, token)[Len(seq) + 1] = token
         /\ \A i : i \in Report!Complete(Append(seq, token)) <=>
              \/ i \in Report!Complete(seq)
              \/ i \in 1 .. Len(seq) /\ i = Len(seq) + 1 - W /\ seq[i] = Report!Magic
<1> DEFINE more == Append(seq, token)
<1>1. /\ more \in Seq(Int) /\ Len(more) = Len(seq) + 1 /\ Len(seq) \in Nat
      /\ \A i \in 1 .. Len(seq) : more[i] = seq[i]
      /\ more[Len(seq) + 1] = token
      /\ DOMAIN seq = 1 .. Len(seq) /\ DOMAIN more = 1 .. Len(seq) + 1
  OBVIOUS
<1> HIDE DEF more
<1>2. W \in Nat \ {0}
  BY ReportAssumption DEF W
<1>3. \A i : i \in Report!Complete(more) <=>
        i \in 1 .. Len(seq) + 1 /\ more[i] = Report!Magic /\ i + W <= Len(seq) + 1
  BY <1>1 DEF Report!Complete, W
<1>4. \A i : i \in Report!Complete(seq) <=>
        i \in 1 .. Len(seq) /\ seq[i] = Report!Magic /\ i + W <= Len(seq)
  BY <1>1 DEF Report!Complete, W
<1>5. \A i : i \in Report!Complete(more) <=>
        \/ i \in Report!Complete(seq)
        \/ i \in 1 .. Len(seq) /\ i = Len(seq) + 1 - W /\ seq[i] = Report!Magic
  <2> TAKE i
  <2>1. i \in 1 .. Len(seq) + 1 /\ i + W <= Len(seq) + 1
          <=> i \in 1 .. Len(seq) /\ (i + W <= Len(seq) \/ i = Len(seq) + 1 - W)
    <3> DEFINE n == Len(seq)
    <3>1. n \in Nat /\ W \in Nat \ {0}
      BY <1>1, <1>2
    <3> HIDE DEF n
    <3>2. CASE i \in Int
      <4> HIDE <1>1, <1>2
      <4> QED BY <3>1, <3>2
    <3>3. CASE i \notin Int
      BY <3>3
    <3> QED BY <3>2, <3>3
  <2> QED BY <2>1, <1>1, <1>3, <1>4
<1> QED BY <1>1, <1>5 DEF more

LEMMA DecodedIs ==
  ASSUME ReportTyped, NEW p \in Places, LastIs(p)
  PROVE  /\ Report!Complete(br_data) # {}
         /\ Report!Decoded(br_data) = [i \in 1 .. W |-> br_latest]
<1> USE DEF ReportTyped, W
<1>1. p = CHOOSE n \in Report!Complete(br_data) : \A m \in Report!Complete(br_data) : m <= n
  <2>1. \A n \in Report!Complete(br_data) : n \in Nat
    BY DEF Report!Complete
  <2> QED BY <2>1 DEF LastIs
<1>2. p \in Nat /\ p + W <= Len(br_data) /\ W \in Nat \ {0}
  BY ReportAssumption DEF LastIs, Report!Complete, Places
<1>3. Report!Decoded(br_data) = SubSeq(br_data, p + 1, p + W)
  BY <1>1 DEF Report!Decoded
<1>4. SubSeq(br_data, p + 1, p + W) = [i \in 1 .. W |-> br_data[p + i]]
  BY <1>2
<1> QED BY <1>3, <1>4 DEF LastIs

(* What the sender does without the line leaves the capture as it is.      *)
LEMMA SenderKeeps ==
  ASSUME ReportInv, Report!Reporting,
         \/ Report!Tick \/ Report!PauseEnds \/ Report!Snapshot \/ Report!Send
  PROVE  ReportInv'
<1> USE DEF ReportInv
<1>W. W \in Nat \ {0} /\ Moments \in Nat \ {0} /\ W = StatusWords
  BY ReportAssumption DEF W
<1>M. Report!Magic = -1 /\ Report!Silence = -2 /\ Report!Nothing = -3
  BY DEF Report!Magic, Report!Silence, Report!Nothing
<1>P. br_phase = "closed" \/ br_phase = "reading"
  BY DEF Report!Reporting
<1>0. UNCHANGED <<br_phase, br_data, br_status, br_heard, br_latest, br_torn>>
  BY DEF Report!Tick, Report!PauseEnds, Report!Snapshot, Report!Send, Report!capturing,
         Report!history
<1>1. (MagicHeard /\ LatestIsLast /\ ReportedWhole)'
  <2>1. MagicHeard' <=> MagicHeard
    BY <1>0 DEF MagicHeard, Places
  <2>2. LatestIsLast' <=> LatestIsLast
    BY <1>0 DEF LatestIsLast, LastIs, Places
  <2>3. ReportedWhole' <=> ReportedWhole
    BY <1>0 DEF ReportedWhole
  <2> QED BY <2>1, <2>2, <2>3
<1>2. CASE Report!Tick
  <2>1. /\ br_now' \in Nat
        /\ UNCHANGED <<br_sending, br_byte_index, br_pause, br_snapshot, br_transmitting, br_taken>>
    BY <1>2, <1>W DEF Report!Tick, Report!history, ReportTyped
  <2>2. ReportTyped'
    BY <1>0, <2>1 DEF ReportTyped
  <2>3. (PacketSent /\ HeardSoFar)'
    BY <1>0, <2>1 DEF PacketSent, HeardSoFar, Expected
  <2> QED BY <1>1, <2>2, <2>3
<1>3. CASE Report!PauseEnds
  <2>1. /\ ~br_sending /\ br_transmitting = Report!Silence /\ br_pause' = FALSE
        /\ UNCHANGED <<br_now, br_sending, br_byte_index, br_snapshot, br_transmitting, br_taken>>
    BY <1>3 DEF Report!PauseEnds, Report!history
  <2>2. ReportTyped'
    BY <1>0, <2>1 DEF ReportTyped
  <2>3. (PacketSent /\ HeardSoFar)'
    BY <1>0, <2>1 DEF PacketSent, HeardSoFar, Expected
  <2> QED BY <1>1, <2>2, <2>3
<1>4. CASE Report!Snapshot
  <2>1. /\ ~br_sending /\ ~br_pause /\ br_sending' = TRUE /\ br_byte_index' = 0 /\ br_taken' = br_now
        /\ br_snapshot' = [i \in 1 .. W |-> br_now]
        /\ UNCHANGED <<br_now, br_pause, br_transmitting>>
    BY <1>4, <1>W DEF Report!Snapshot
  <2>2. br_transmitting = Report!Silence
    BY <2>1 DEF PacketSent
  <2>3. br_heard = 0 /\ br_now \in Nat
    BY <2>1, <2>2, <1>P DEF HeardSoFar, ReportTyped
  <2>4. ReportTyped'
    BY <1>0, <2>1, <1>W DEF ReportTyped
  <2>5. (PacketSent /\ HeardSoFar)'
    BY <1>0, <2>1, <2>2, <2>3 DEF PacketSent, HeardSoFar
  <2> QED BY <1>1, <2>4, <2>5
<1>5. CASE Report!Send
  <2>1. /\ br_sending /\ br_transmitting = Report!Silence
        /\ br_transmitting' = Report!Token(br_byte_index)
        /\ IF br_byte_index = W
           THEN br_sending' = FALSE /\ br_pause' = TRUE /\ br_byte_index' = br_byte_index
           ELSE br_byte_index' = br_byte_index + 1 /\ br_sending' = br_sending
                /\ br_pause' = br_pause
        /\ UNCHANGED <<br_now, br_snapshot, br_taken>>
    <3>1. br_byte_index + 1 = Report!PacketTokens <=> br_byte_index = W
      BY <1>W DEF Report!PacketTokens, ReportTyped
    <3> QED BY <1>5, <3>1 DEF Report!Send, Report!history
  <2>2. br_byte_index \in 0 .. W /\ br_taken \in Nat
        /\ br_snapshot = [i \in 1 .. W |-> br_taken]
    BY <2>1 DEF ReportTyped, PacketSent
  <2>3. br_transmitting' = Expected(br_byte_index) /\ br_transmitting' \in Int
        /\ br_transmitting' # Report!Silence
    BY <2>1, <2>2, <1>M DEF Report!Token, Expected
  <2>4. ReportTyped'
    <3>1. br_byte_index' \in 0 .. W
      <4>1. br_byte_index' = IF br_byte_index = W THEN br_byte_index ELSE br_byte_index + 1
        BY <2>1
      <4> QED BY <4>1, <2>2, <1>W
    <3>2. br_sending' \in BOOLEAN /\ br_pause' \in BOOLEAN
      BY <2>1 DEF ReportTyped
    <3> QED BY <1>0, <2>1, <2>2, <2>3, <3>1, <3>2 DEF ReportTyped
  <2>5. br_heard > 0 /\ br_phase = "reading" => br_byte_index = br_heard
    BY <2>1 DEF HeardSoFar
  <2>6. PacketSent'
    <3>1. CASE br_byte_index = W
      <4>1. br_transmitting' = br_taken
        BY <2>3, <3>1, <1>W DEF Expected
      <4> QED BY <2>1, <2>2, <4>1, <3>1 DEF PacketSent
    <3>2. CASE br_byte_index # W
      <4>1. br_sending' /\ br_byte_index' = br_byte_index + 1 /\ br_byte_index' - 1 = br_byte_index
            /\ br_byte_index' >= 1
        BY <2>1, <2>2, <3>2
      <4> QED BY <2>1, <2>2, <2>3, <4>1 DEF PacketSent, Expected
    <3> QED BY <3>1, <3>2
  <2>7. HeardSoFar'
    BY <1>0, <2>1, <2>2, <2>3, <2>5 DEF HeardSoFar, ReportTyped
  <2> QED BY <1>1, <2>4, <2>6, <2>7
<1> QED BY <1>2, <1>3, <1>4, <1>5

LEMMA DeliveredKeeps ==
  ASSUME ReportInv, Report!Reporting, Report!Delivered
  PROVE  ReportInv'
<1> USE DEF ReportInv
<1> DEFINE n == Len(br_data)
           t == br_transmitting
<1>W. W \in Nat \ {0} /\ W = StatusWords
  BY ReportAssumption DEF W
<1>M. Report!Magic = -1 /\ Report!Silence = -2 /\ Report!Nothing = -3
  BY DEF Report!Magic, Report!Silence, Report!Nothing
<1>P. br_phase = "closed" \/ br_phase = "reading"
  BY DEF Report!Reporting
<1>T. n \in Nat /\ br_data \in Seq(Int) /\ t \in Int /\ br_heard \in 0 .. W
      /\ br_byte_index \in 0 .. W /\ Places = 1 .. n
  BY DEF ReportTyped, Places
<1>0. /\ t # Report!Silence /\ br_transmitting' = Report!Silence
      /\ UNCHANGED <<br_now, br_sending, br_byte_index, br_pause, br_snapshot, br_phase,
                     br_status, br_taken, br_torn>>
  BY DEF Report!Delivered
<1>1. PacketSent' /\ ReportedWhole'
  BY <1>0, <1>P DEF PacketSent, ReportedWhole
<1>2. br_taken \in Nat /\ (br_sending => br_byte_index >= 1)
      /\ t = IF br_sending THEN Expected(br_byte_index - 1) ELSE br_taken
  BY <1>0 DEF PacketSent
<1>3. CASE ~Report!Listening
  <2>1. br_heard = 0 /\ br_heard' = 0 /\ UNCHANGED <<br_data, br_latest>> /\ br_phase # "reading"
    BY <1>3, <1>P DEF Report!Delivered, Report!Listening, HeardSoFar
  <2>2. ReportTyped'
    BY <1>0, <2>1, <1>M, <1>W DEF ReportTyped
  <2>3. (HeardSoFar /\ MagicHeard)'
    BY <1>0, <2>1 DEF HeardSoFar, MagicHeard, Places
  <2>4. LatestIsLast' <=> LatestIsLast
    BY <1>0, <2>1 DEF LatestIsLast, LastIs, Places
  <2> QED BY <1>1, <2>2, <2>3, <2>4
<1>4. CASE Report!Listening
  <2>1. /\ br_phase = "reading" /\ br_data' = Append(br_data, t)
        /\ br_heard' = IF t = Report!Magic THEN 1
                       ELSE IF br_heard > 0 THEN (br_heard + 1) % (W + 1) ELSE 0
        /\ br_latest' = IF br_heard = W /\ t # Report!Magic THEN br_taken ELSE br_latest
    BY <1>4, <1>W DEF Report!Delivered, Report!Listening, Report!PacketTokens
  <2>2. br_heard > 0 /\ br_heard # W => (br_heard + 1) % (W + 1) = br_heard + 1
    BY <1>T, <1>W, PacketModulus
  <2>3. br_heard = W => (br_heard + 1) % (W + 1) = 0
    BY <1>T, <1>W, PacketModulus
  <2>4. /\ br_data' \in Seq(Int) /\ Len(br_data') = n + 1
        /\ \A i \in 1 .. n : br_data'[i] = br_data[i]
        /\ br_data'[n + 1] = t
        /\ \A i : i \in Report!Complete(br_data') <=>
             \/ i \in Report!Complete(br_data)
             \/ i \in 1 .. n /\ i = n + 1 - W /\ br_data[i] = Report!Magic
    BY <1>T, <2>1, OneMoreToken
  <2>5. Places' = 1 .. n + 1
    BY <2>4 DEF Places
  <2>6. br_heard > 0 =>
          /\ br_heard <= n /\ br_data[n - br_heard + 1] = Report!Magic
          /\ \A k \in 1 .. br_heard - 1 : br_data[n - br_heard + 1 + k] = br_taken
          /\ IF br_sending THEN br_byte_index = br_heard + 1 ELSE br_heard = W
    BY <1>0, <2>1 DEF HeardSoFar
  <2>7. br_heard > 0 => t = br_taken /\ t # Report!Magic
    BY <1>2, <2>6, <1>M, <1>T DEF Expected
  <2>8. br_heard = W => ~br_sending
    BY <2>6, <1>T, <1>W
  <2>9. ~br_torn => \A p \in 1 .. n : br_data[p] = Report!Magic =>
          p + W <= n \/ (br_heard > 0 /\ p = n - br_heard + 1)
    BY <1>T DEF MagicHeard
  <2>10. ~br_torn /\ br_heard # W => Report!Complete(br_data') = Report!Complete(br_data)
    <3> SUFFICES ASSUME ~br_torn, br_heard # W, NEW i \in 1 .. n, i = n + 1 - W,
                        br_data[i] = Report!Magic
                 PROVE  FALSE
      BY <2>4
    <3>1. i + W <= n \/ i = n - br_heard + 1
      BY <2>9
    <3> QED BY <3>1, <1>T, <1>W
  <2> HIDE DEF n, t
  <2>11. br_latest' # br_latest => br_heard = W /\ br_heard > 0 /\ t # Report!Magic /\ br_latest' = br_taken
    BY <2>1, <1>W
  <2>12. br_heard' \in 0 .. W
    BY <2>1, <2>2, <2>3, <1>W, <1>T
  <2>13. ReportTyped'
    <3>1. br_latest' \in Nat \cup {Report!Nothing}
      BY <2>11, <1>2 DEF ReportTyped
    <3>2. br_transmitting' \in Int
      BY <1>0, <1>M
    <3> QED BY <1>0, <2>4, <2>12, <3>1, <3>2 DEF ReportTyped
  <2>14. CASE t = Report!Magic
    <3>1. br_heard = 0 /\ br_heard' = 1 /\ br_latest' = br_latest
      BY <2>14, <2>1, <2>7, <1>T
    <3>2. br_sending /\ br_byte_index = 1
      <4>1. br_taken # Report!Magic
        BY <1>2, <1>M
      <4>2. br_sending /\ br_byte_index - 1 = 0
        BY <2>14, <1>2, <4>1 DEF Expected
      <4> QED BY <4>2, <1>T
    <3>3. HeardSoFar'
      <4>1. Len(br_data') - br_heard' + 1 = n + 1 /\ br_heard' <= Len(br_data')
        BY <3>1, <2>4, <1>T
      <4> QED BY <3>1, <3>2, <4>1, <2>4, <2>14, <1>0, <1>2, <2>1 DEF HeardSoFar
    <3>4. MagicHeard'
      <4> SUFFICES ASSUME ~br_torn, NEW p \in 1 .. n + 1, br_data'[p] = Report!Magic
                   PROVE  p + W <= n + 1 \/ p = n + 1
        BY <2>4, <2>5, <3>1, <1>0, <1>T DEF MagicHeard
      <4>1. CASE p \in 1 .. n
        <5>1. br_data[p] = Report!Magic
          BY <4>1, <2>4
        <5>2. p + W <= n
          BY <4>1, <5>1, <2>9, <3>1
        <5> QED BY <4>1, <5>2, <1>T, <1>W
      <4> QED BY <4>1, <1>T
    <3>5. LatestIsLast'
      <4>1. ~br_torn => Report!Complete(br_data') = Report!Complete(br_data)
        BY <2>10, <3>1, <1>W
      <4>2. ~br_torn => \A p \in Places : LastIs(p) => p \in Places' /\ LastIs(p)'
        <5> SUFFICES ASSUME ~br_torn, NEW p \in 1 .. n, LastIs(p)
                     PROVE  p \in 1 .. n + 1 /\ LastIs(p)'
          BY <1>T, <2>5
        <5>1. \A k \in 1 .. W : p + k \in 1 .. n
          <6>1. p + W <= n
            BY DEF LastIs, Report!Complete, n, W
          <6> QED BY <6>1, <1>T, <1>W
        <5>2. \A k \in 1 .. W : br_data'[p + k] = br_latest'
          BY <5>1, <2>4, <3>1 DEF LastIs
        <5>3. /\ p \in Report!Complete(br_data')
              /\ \A m \in Report!Complete(br_data') : m <= p
          BY <4>1 DEF LastIs
        <5> QED BY <5>2, <5>3, <1>T DEF LastIs
      <4> QED BY <4>1, <4>2, <3>1, <1>0 DEF LatestIsLast
    <3> QED BY <1>1, <2>13, <3>3, <3>4, <3>5
  <2>15. CASE t # Report!Magic /\ br_heard # W
    <3>1. br_latest' = br_latest /\ br_heard' = IF br_heard > 0 THEN br_heard + 1 ELSE 0
      BY <2>15, <2>1, <2>2
    <3>2. HeardSoFar'
      <4>1. CASE br_heard > 0
        <5>1. br_heard' = br_heard + 1 /\ br_sending /\ br_byte_index = br_heard'
          BY <4>1, <3>1, <2>6, <2>15
        <5>2. Len(br_data') - br_heard' + 1 = n - br_heard + 1 /\ n - br_heard + 1 \in 1 .. n
              /\ br_heard' <= Len(br_data')
          BY <5>1, <2>4, <2>6, <4>1, <1>T
        <5>3. br_data'[n - br_heard + 1] = Report!Magic
          BY <5>2, <2>4, <2>6, <4>1
        <5>4. \A k \in 1 .. br_heard' - 1 : br_data'[n - br_heard + 1 + k] = br_taken
          <6> TAKE k \in 1 .. br_heard' - 1
          <6>1. k \in 1 .. br_heard - 1 \/ k = br_heard
            BY <5>1, <1>T
          <6>2. CASE k \in 1 .. br_heard - 1
            <7>1. n - br_heard + 1 + k \in 1 .. n
              BY <6>2, <5>2, <1>T
            <7> QED BY <7>1, <6>2, <2>4, <2>6, <4>1
          <6>3. CASE k = br_heard
            <7>1. n - br_heard + 1 + k = n + 1
              BY <6>3, <1>T
            <7> QED BY <7>1, <2>4, <2>7, <4>1
          <6> QED BY <6>1, <6>2, <6>3
        <5> QED BY <5>1, <5>2, <5>3, <5>4, <1>0, <1>2, <2>1 DEF HeardSoFar
      <4>2. CASE br_heard = 0
        BY <4>2, <3>1, <1>0 DEF HeardSoFar
      <4> QED BY <4>1, <4>2, <1>T
    <3>3. MagicHeard'
      <4> SUFFICES ASSUME ~br_torn', NEW p \in Places', br_data'[p] = Report!Magic
                   PROVE  \/ p + W <= Len(br_data')
                          \/ br_heard' > 0 /\ p = Len(br_data') - br_heard' + 1
        BY DEF MagicHeard
      <4>0. p \in 1 .. n + 1 /\ ~br_torn /\ Len(br_data') = n + 1
        BY <2>4, <2>5, <1>0
      <4>1. p \in 1 .. n /\ br_data[p] = Report!Magic
        BY <4>0, <2>15, <2>4, <1>T
      <4>2. p + W <= n \/ (br_heard > 0 /\ p = n - br_heard + 1)
        BY <4>0, <4>1, <2>9
      <4> QED BY <4>0, <4>1, <4>2, <3>1, <1>T, <1>W
    <3>4. LatestIsLast'
      <4>1. ~br_torn => Report!Complete(br_data') = Report!Complete(br_data)
        BY <2>10, <2>15
      <4>2. ~br_torn => \A p \in Places : LastIs(p) => p \in Places' /\ LastIs(p)'
        <5> SUFFICES ASSUME ~br_torn, NEW p \in 1 .. n, LastIs(p)
                     PROVE  p \in 1 .. n + 1 /\ LastIs(p)'
          BY <1>T, <2>5
        <5>1. \A k \in 1 .. W : p + k \in 1 .. n
          <6>1. p + W <= n
            BY DEF LastIs, Report!Complete, n, W
          <6> QED BY <6>1, <1>T, <1>W
        <5>2. \A k \in 1 .. W : br_data'[p + k] = br_latest'
          BY <5>1, <2>4, <3>1 DEF LastIs
        <5>3. /\ p \in Report!Complete(br_data')
              /\ \A m \in Report!Complete(br_data') : m <= p
          BY <4>1 DEF LastIs
        <5> QED BY <5>2, <5>3, <1>T DEF LastIs
      <4> QED BY <4>1, <4>2, <3>1, <1>0 DEF LatestIsLast
    <3> QED BY <1>1, <2>13, <3>2, <3>3, <3>4
  <2>16. CASE t # Report!Magic /\ br_heard = W
    <3>1. /\ br_heard > 0 /\ br_latest' = br_taken /\ br_heard' = 0 /\ t = br_taken
          /\ br_latest' \in Nat /\ br_latest' # Report!Nothing
      BY <2>16, <2>1, <2>3, <2>7, <1>2, <1>M, <1>W
    <3>2. PICK q \in 1 .. n : q = n - W + 1
      BY <2>16, <3>1, <2>6, <1>T, <1>W
    <3>Q. q + W = n + 1 /\ q = n + 1 - W /\ br_data[q] = Report!Magic
          /\ \A k \in 1 .. W - 1 : br_data[q + k] = br_taken
      <4>1. q + W = n + 1 /\ q = n + 1 - W
        BY <3>2, <1>T, <1>W
      <4> QED BY <4>1, <2>16, <3>1, <3>2, <2>6
    <3>3. HeardSoFar'
      BY <3>1, <1>0 DEF HeardSoFar
    <3>4. MagicHeard'
      <4> SUFFICES ASSUME ~br_torn, NEW p \in 1 .. n + 1, br_data'[p] = Report!Magic
                   PROVE  p + W <= n + 1
        BY <2>4, <2>5, <1>0 DEF MagicHeard
      <4>0. p # n + 1
        BY <2>16, <2>4
      <4>1. p \in 1 .. n /\ br_data[p] = Report!Magic
        BY <4>0, <2>4, <1>T
      <4>2. p + W <= n \/ p = q
        BY <4>1, <3>2, <2>9, <2>16
      <4> QED BY <4>1, <4>2, <3>2, <3>Q, <1>T, <1>W
    <3>5. q \in Report!Complete(br_data')
      BY <2>4, <3>2, <3>Q
    <3>6. \A m \in Report!Complete(br_data') : m <= q
      <4> TAKE m \in Report!Complete(br_data')
      <4>1. m = q \/ m \in Report!Complete(br_data)
        BY <2>4, <3>Q
      <4>2. m \in Report!Complete(br_data) => m \in Int /\ m + W <= n
        BY <1>T DEF Report!Complete, n, W
      <4> QED BY <4>1, <4>2, <3>2, <3>Q, <1>T, <1>W
    <3>7. \A k \in 1 .. W : br_data'[q + k] = br_latest'
      <4> TAKE k \in 1 .. W
      <4>1. CASE k \in 1 .. W - 1
        <5>1. q + k \in 1 .. n
          BY <4>1, <3>2, <3>Q, <1>T, <1>W
        <5> QED BY <5>1, <4>1, <3>1, <3>2, <3>Q, <2>4
      <4>2. CASE k = W
        BY <4>2, <3>1, <3>2, <3>Q, <2>4
      <4> QED BY <4>1, <4>2, <1>W
    <3>8. LatestIsLast'
      <4>1. q \in Places' /\ LastIs(q)'
        BY <3>2, <3>Q, <3>5, <3>6, <3>7, <2>5, <1>T, <1>W DEF LastIs
      <4> QED BY <4>1, <3>1 DEF LatestIsLast
    <3> QED BY <1>1, <2>13, <3>3, <3>4, <3>8
  <2> QED BY <2>14, <2>15, <2>16
<1> QED BY <1>3, <1>4

LEMMA ReportStep == ReportInv /\ [Report!Next]_(Report!vars) => ReportInv'
<1> SUFFICES ASSUME ReportInv, [Report!Next]_(Report!vars)
             PROVE  ReportInv'
  OBVIOUS
<1>1. CASE Report!Reporting /\ (Report!Tick \/ Report!PauseEnds \/ Report!Snapshot \/ Report!Send)
  BY <1>1, SenderKeeps
<1>2. CASE Report!Reporting /\ Report!Delivered
  BY <1>2, DeliveredKeeps
<1> USE DEF ReportInv
<1>3. CASE Report!Reporting /\ Report!Reset
  <2>1. /\ br_sending' = FALSE /\ br_byte_index' = 0 /\ br_pause' = FALSE
        /\ br_transmitting' = Report!Silence /\ br_heard' = 0
        /\ br_torn' = (br_torn \/ (Report!Listening /\ br_heard > 0))
        /\ UNCHANGED <<br_now, br_phase, br_data, br_status, br_taken, br_latest>>
    BY <1>3 DEF Report!Reset, Report!capturing
  <2>2. ~br_torn' => ~br_torn /\ ~(br_heard > 0)
    <3>1. br_phase = "closed" => ~(br_heard > 0)
      BY DEF HeardSoFar
    <3>2. br_phase = "closed" \/ Report!Listening
      BY <1>3 DEF Report!Reporting, Report!Listening
    <3> HIDE DEF ReportInv
    <3> QED BY <2>1, <3>1, <3>2, Zenon
  <2>3. ReportTyped'
    <3>1. Report!Silence \in Int /\ 0 \in 0 .. W
      BY ReportAssumption DEF Report!Silence, W
    <3>2. br_torn' \in BOOLEAN
      BY <2>1 DEF ReportTyped
    <3> QED BY <2>1, <3>1, <3>2 DEF ReportTyped
  <2>4. (PacketSent /\ HeardSoFar)'
    BY <2>1 DEF PacketSent, HeardSoFar
  <2>5. MagicHeard'
    BY <2>1, <2>2 DEF MagicHeard, Places
  <2>6. LatestIsLast'
    BY <2>1, <2>2 DEF LatestIsLast, LastIs, Places
  <2>7. br_phase' # "decoded"
    BY <1>3, <2>1 DEF Report!Reporting
  <2> QED BY <2>3, <2>4, <2>5, <2>6, <2>7 DEF ReportedWhole
<1>4. CASE Report!Open \/ Report!Deadline
  <2>1. /\ UNCHANGED <<br_now, br_sending, br_byte_index, br_pause, br_snapshot, br_transmitting,
                       br_data, br_status, br_taken, br_heard, br_latest, br_torn>>
        /\ br_phase' \in {"reading", "captured"}
        /\ br_phase' = "reading" => br_phase = "closed"
    BY <1>4 DEF Report!Open, Report!Deadline, Report!history
  <2>2. ReportTyped'
    BY <2>1 DEF ReportTyped
  <2>3. PacketSent'
    BY <2>1 DEF PacketSent, Expected
  <2>4. HeardSoFar'
    BY <2>1 DEF HeardSoFar
  <2>5. MagicHeard' <=> MagicHeard
    BY <2>1 DEF MagicHeard, Places
  <2>6. LatestIsLast' <=> LatestIsLast
    BY <2>1 DEF LatestIsLast, LastIs, Places
  <2> QED BY <2>1, <2>2, <2>3, <2>4, <2>5, <2>6 DEF ReportedWhole
<1>5. CASE Report!Decode
  <2>1. /\ br_phase = "captured" /\ br_phase' = "decoded"
        /\ UNCHANGED <<br_now, br_sending, br_byte_index, br_pause, br_snapshot, br_transmitting,
                       br_data, br_taken, br_heard, br_latest, br_torn>>
        /\ br_status' = IF Report!Complete(br_data) = {} THEN "no_packet"
                        ELSE IF \A i \in 1 .. W : Report!Decoded(br_data)[i] \in Passing THEN "pass"
                        ELSE "fail"
    BY <1>5 DEF Report!Decode, Report!history, W
  <2>2. ReportTyped'
    BY <2>1 DEF ReportTyped
  <2>3. (PacketSent /\ HeardSoFar)'
    BY <2>1 DEF PacketSent, HeardSoFar, Expected
  <2>4. MagicHeard' <=> MagicHeard
    BY <2>1 DEF MagicHeard, Places
  <2>5. LatestIsLast' <=> LatestIsLast
    BY <2>1 DEF LatestIsLast, LastIs, Places
  <2>6. ~br_torn => br_status' = IF br_latest = Report!Nothing THEN "no_packet"
                                 ELSE IF br_latest \in Passing THEN "pass" ELSE "fail"
    <3> SUFFICES ASSUME ~br_torn
                 PROVE  br_status' = IF br_latest = Report!Nothing THEN "no_packet"
                                     ELSE IF br_latest \in Passing THEN "pass" ELSE "fail"
      OBVIOUS
    <3>1. CASE br_latest = Report!Nothing
      BY <3>1, <2>1 DEF LatestIsLast
    <3>2. CASE br_latest # Report!Nothing
      <4>1. PICK p \in Places : LastIs(p)
        BY <3>2 DEF LatestIsLast
      <4>2. /\ Report!Complete(br_data) # {}
            /\ Report!Decoded(br_data) = [i \in 1 .. W |-> br_latest]
        BY <4>1, DecodedIs
      <4>3. 1 \in 1 .. W
        BY ReportAssumption DEF W
      <4>4. (\A i \in 1 .. W : Report!Decoded(br_data)[i] \in Passing) <=> br_latest \in Passing
        BY <4>2, <4>3
      <4> QED BY <2>1, <3>2, <4>2, <4>4
    <3> QED BY <3>1, <3>2
  <2> QED BY <2>1, <2>2, <2>3, <2>4, <2>5, <2>6 DEF ReportedWhole
<1>6. CASE Report!Stopped \/ UNCHANGED Report!vars
  <2>1. UNCHANGED Report!vars
    BY <1>6 DEF Report!Stopped
  <2> USE <2>1 DEF Report!vars
  <2>2. ReportTyped' /\ ReportedWhole' /\ PacketSent' /\ HeardSoFar'
    BY DEF ReportTyped, ReportedWhole, PacketSent, HeardSoFar, Expected
  <2>3. MagicHeard' <=> MagicHeard
    BY DEF MagicHeard, Places
  <2>4. LatestIsLast' <=> LatestIsLast
    BY DEF LatestIsLast, LastIs, Places
  <2> QED BY <2>2, <2>3, <2>4
<1> QED BY <1>1, <1>2, <1>3, <1>4, <1>5, <1>6 DEF Report!Next

(* checkpoint9_uart_report.sv, decode_checkpoint9.py: wherever a capture   *)
(* begins and ends, what is decoded are the words of one moment, that of   *)
(* the last packet heard in full, for packets of any length.               *)
THEOREM ReportIsWhole == MCSpec => []ReportWhole
<1>1. MCInit => ReportInv
  <2> SUFFICES ASSUME Report!Init PROVE ReportInv
    BY DEF MCInit
  <2> USE DEF Report!Init
  <2>1. ReportTyped
    <3>1. Report!Silence \in Int /\ 0 \in 0 .. W /\ 0 \in Nat
      BY ReportAssumption DEF Report!Silence, W
    <3>2. br_data \in Seq(Int)
      OBVIOUS
    <3> QED BY <3>1, <3>2 DEF ReportTyped
  <2>2. PacketSent /\ HeardSoFar /\ ReportedWhole
    BY DEF PacketSent, HeardSoFar, ReportedWhole
  <2>3. Len(br_data) = 0 /\ Places = {}
    BY DEF Places
  <2>4. Report!Complete(br_data) = {}
    BY <2>3 DEF Report!Complete
  <2> QED BY <2>1, <2>2, <2>3, <2>4 DEF ReportInv, MagicHeard, LatestIsLast
<1>2. ReportInv /\ [MCNext]_all => ReportInv'
  BY OneTool, ReportStep
<1>3. ReportInv => ReportWhole
  <2> SUFFICES ASSUME ReportInv, br_phase = "decoded", ~br_torn, br_latest # Report!Nothing
               PROVE  Report!Decoded(br_data) = [i \in 1 .. W |-> br_latest]
    BY DEF ReportWhole, Report!ReportWhole, ReportInv, ReportedWhole, W
  <2>1. PICK p \in Places : LastIs(p)
    BY DEF ReportInv, LatestIsLast
  <2> QED BY <2>1, DecodedIs DEF ReportInv
<1> QED BY <1>1, <1>2, <1>3, PTL DEF MCSpec

-----------------------------------------------------------------------------
(* The boot image.                                                         *)
B == WordBytes

LEMMA Division ==
  ASSUME NEW n \in Nat, NEW b \in Nat \ {0}
  PROVE  n \div b \in Nat /\ n % b \in 0 .. b - 1 /\ n = (n \div b) * b + (n % b)
  OBVIOUS

LEMMA LessTimes ==
  ASSUME NEW p \in Nat, NEW q \in Nat, NEW b \in Nat
  PROVE  (p < q => (p * b) + b <= q * b) /\ p * b \in Nat /\ q * b \in Nat
  OBVIOUS

LEMMA QuotientIs ==
  ASSUME NEW q \in Nat, NEW r \in Nat, NEW b \in Nat \ {0}, r < b
  PROVE  ((q * b) + r) \div b = q /\ ((q * b) + r) % b = r
<1> DEFINE n == (q * b) + r
           p == n \div b
           m == n % b
<1>1. n \in Nat /\ q * b \in Nat
  BY LessTimes
<1>2. p \in Nat /\ m \in 0 .. b - 1 /\ n = (p * b) + m /\ p * b \in Nat
  BY <1>1, Division, LessTimes
<1>3. ~(p < q)
  <2>1. p < q => (p * b) + b <= q * b
    BY <1>2, LessTimes
  <2>2. n = (q * b) + r
    OBVIOUS
  <2> HIDE DEF p, n, m
  <2> QED BY <2>1, <2>2, <1>1, <1>2
<1>4. ~(q < p)
  <2>1. q < p => (q * b) + b <= p * b
    BY <1>2, LessTimes
  <2>2. n = (q * b) + r
    OBVIOUS
  <2> HIDE DEF p, n, m
  <2> QED BY <2>1, <2>2, <1>1, <1>2
<1>5. p = q
  <2> HIDE DEF p
  <2> QED BY <1>2, <1>3, <1>4
<1>6. m = r
  <2>2. n = (q * b) + r
    OBVIOUS
  <2> HIDE DEF p, n, m
  <2> QED BY <2>2, <1>1, <1>2, <1>5
<1> QED BY <1>5, <1>6

(* What is padded is whole words: the bytes, then zeros.                   *)
LEMMA Padded ==
  ASSUME NEW bytes \in Seq(Nat)
  PROVE  /\ Image!Pad(bytes) \in Seq(Nat)
         /\ Len(Image!Pad(bytes)) = Len(bytes) + ((B - (Len(bytes) % B)) % B)
         /\ \E q \in Nat : /\ Len(Image!Pad(bytes)) = q * B /\ Len(Image!Pad(bytes)) \div B = q
                           /\ Len(bytes) <= q * B /\ q * B < Len(bytes) + B
         /\ \A i \in 1 .. Len(Image!Pad(bytes)) :
              Image!Pad(bytes)[i] = IF i <= Len(bytes) THEN bytes[i] ELSE 0
<1> DEFINE n == Len(bytes)
           d == n \div B
           r == n % B
           pad == (B - r) % B
<1>1. B \in Nat \ {0} /\ n \in Nat
  BY ImageAssumption DEF B
<1>2. d \in Nat /\ r \in 0 .. B - 1 /\ n = (d * B) + r
  BY <1>1, Division
<1>3. pad = IF r = 0 THEN 0 ELSE B - r
  <2> HIDE DEF r
  <2>1. CASE r = 0
    <3>1. (1 * B) + 0 = B - r
      BY <1>1, <2>1
    <3>2. ((1 * B) + 0) % B = 0
      BY <1>1, QuotientIs
    <3> QED BY <2>1, <3>1, <3>2
  <2>2. CASE r # 0
    <3>1. B - r \in Nat /\ B - r < B /\ (0 * B) + (B - r) = B - r
      BY <1>1, <1>2, <2>2
    <3>2. ((0 * B) + (B - r)) % B = B - r
      BY <1>1, <3>1, QuotientIs
    <3> QED BY <2>2, <3>1, <3>2
  <2> QED BY <2>1, <2>2
<1> HIDE DEF d, r, pad
<1>4. pad \in Nat
  BY <1>1, <1>2, <1>3
<1>5. Image!Pad(bytes) = bytes \o [i \in 1 .. pad |-> 0]
  BY DEF Image!Pad, Image!Zeros, pad, r, B
<1>6. [i \in 1 .. pad |-> 0] \in Seq(Nat) /\ Len([i \in 1 .. pad |-> 0]) = pad
  BY <1>4
<1>7. /\ Image!Pad(bytes) \in Seq(Nat) /\ Len(Image!Pad(bytes)) = n + pad
      /\ \A i \in 1 .. n + pad : Image!Pad(bytes)[i] = IF i <= n THEN bytes[i] ELSE 0
  BY <1>1, <1>4, <1>5, <1>6
<1>8. \E q \in Nat : n + pad = q * B /\ n <= q * B /\ q * B < n + B
  <2>1. CASE r = 0
    BY <2>1, <1>1, <1>2, <1>3
  <2>2. CASE r # 0
    <3>1. (d + 1) * B = (d * B) + B /\ d * B \in Nat
      BY <1>1, <1>2
    <3>2. n + pad = (d + 1) * B /\ n <= (d + 1) * B /\ (d + 1) * B < n + B
      BY <2>2, <1>1, <1>2, <1>3, <3>1
    <3> QED BY <1>2, <3>2
  <2> QED BY <2>1, <2>2
<1>9. \A q \in Nat : (q * B) \div B = q
  <2> TAKE q \in Nat
  <2>1. ((q * B) + 0) \div B = q
    BY <1>1, QuotientIs
  <2>2. (q * B) + 0 = q * B
    BY <1>1, LessTimes
  <2> QED BY <2>1, <2>2
<1>10. \E q \in Nat : /\ Len(Image!Pad(bytes)) = q * B /\ Len(Image!Pad(bytes)) \div B = q
                      /\ n <= q * B /\ q * B < n + B
  BY <1>7, <1>8, <1>9
<1> QED BY <1>7, <1>10 DEF pad, r

LEMMA WordOf ==
  ASSUME NEW bytes \in Seq(Nat), NEW q \in Nat, Len(bytes) = q * B, NEW w \in 0 .. q - 1
  PROVE  /\ \A i \in 1 .. B : (w * B) + i \in 1 .. Len(bytes)
         /\ Image!Words(bytes)[w] = [i \in 1 .. B |-> bytes[(w * B) + i]]
<1>1. B \in Nat \ {0} /\ w \in Nat /\ w < q
  BY ImageAssumption DEF B
<1>2. (w * B) + B <= q * B /\ w * B \in Nat /\ q * B \in Nat
  BY <1>1, LessTimes
<1>3. (q * B) \div B = q
  <2>1. ((q * B) + 0) \div B = q
    BY <1>1, QuotientIs
  <2> QED BY <2>1, <1>2
<1>4. (w + 1) * B = (w * B) + B
  BY <1>1
<1>5. Image!Words(bytes)[w] = SubSeq(bytes, (w * B) + 1, (w * B) + B)
  BY <1>3, <1>4 DEF Image!Words, B
<1> DEFINE s == w * B
<1>6. s \in Nat /\ s + B <= Len(bytes)
  BY <1>2
<1> HIDE DEF s
<1>7. SubSeq(bytes, s + 1, s + B) = [i \in 1 .. B |-> bytes[s + i]]
  BY <1>1, <1>6
<1>8. \A i \in 1 .. B : s + i \in 1 .. Len(bytes)
  BY <1>1, <1>6
<1> QED BY <1>5, <1>7, <1>8, Zenon DEF s

(* The word of the image at w, and what of it has been checked.            *)
WordAt(w) == [i \in 1 .. B |-> Image!ByteAt((w * B) + i - 1)]
ImageWords == Image!Packed.IMAGE_WORDS
Busy == {"FETCH", "WRITE", "RESPONSE", "READ", "VERIFY"}
Burst == [kind |-> "write", at |-> bi_index, aw |-> bi_port.aw, w |-> bi_port.w]

FilesTyped ==
  /\ bi_firmware \in Seq(Nat) /\ bi_payload \in Seq(Nat)
  /\ bi_state \in {"OFF", "FAILED", "FINISHED"} \cup Busy
ImagePacked ==
  /\ bi_state = "OFF" => bi_index = 0
  /\ bi_state # "OFF" =>
       /\ ~Image!Refused /\ bi_packed = Image!Packed
       /\ bi_index \in 0 .. ImageWords - 1
       /\ DOMAIN bi_ddr = 0 .. ImageWords - 1
(* The words below the progress are in memory as they should be.           *)
CheckedBelow ==
  /\ bi_state \in Busy \cup {"OFF"} => bi_progress = bi_index
  /\ bi_state = "FINISHED" => bi_progress = ImageWords
  /\ bi_state # "OFF" => \A w \in DOMAIN bi_ddr : w < bi_progress => bi_ddr[w] = WordAt(w)
(* The ROM register belongs to the index, and so does the burst.           *)
WordInHand == bi_state \in Busy \ {"FETCH"} => Image!image_word = WordAt(bi_index)
BurstAtIndex ==
  /\ bi_state \in {"OFF", "FETCH", "READ"} => bi_port = Image!NoBurst
  /\ bi_state = "WRITE" => bi_port = Image!NoBurst \/ bi_port = Burst
  /\ bi_state = "RESPONSE" => bi_port = Burst
  /\ bi_state = "VERIFY" => bi_port = Image!Reading
ImageInv == FilesTyped /\ ImagePacked /\ CheckedBelow /\ WordInHand /\ BurstAtIndex

LEMMA Concatenated ==
  ASSUME NEW s \in Seq(Nat), NEW t \in Seq(Nat)
  PROVE  /\ s \o t \in Seq(Nat) /\ Len(s \o t) = Len(s) + Len(t)
         /\ \A i \in 1 .. Len(s) : (s \o t)[i] = s[i]
         /\ \A i \in 1 .. Len(t) : (s \o t)[Len(s) + i] = t[i]
  OBVIOUS

LEMMA PackedSizes ==
  ASSUME FilesTyped, ~Image!Refused
  PROVE  \E fw, pw, qw \in Nat :
           /\ Image!Packed.FIRMWARE_WORDS = fw /\ Image!Packed.PAYLOAD_WORD = pw
           /\ ImageWords = pw + qw
           /\ Reserved = pw * B /\ fw <= pw /\ qw > 0
           /\ Len(Image!Pad(bi_firmware)) = fw * B /\ Len(bi_firmware) <= fw * B
           /\ Len(Image!Pad(bi_payload)) = qw * B /\ Len(bi_payload) <= qw * B
<1> DEFINE f == Len(bi_firmware)
           p == Len(bi_payload)
<1>1. /\ B \in Nat \ {0} /\ Reserved \in Nat /\ Reserved % B = 0 /\ PayloadLimit \in Nat
      /\ B = WordBytes
  BY ImageAssumption DEF B
<1>2. bi_firmware \in Seq(Nat) /\ bi_payload \in Seq(Nat)
  BY DEF FilesTyped
<1>3. f \in 1 .. Reserved - 1 /\ p \in 1 .. PayloadLimit - 1
  BY DEF Image!Refused
<1>4. f \in Nat /\ p \in Nat /\ f > 0 /\ p > 0 /\ f < Reserved
  BY <1>1, <1>3
<1>5. PICK fw \in Nat : /\ Len(Image!Pad(bi_firmware)) = fw * B
                        /\ Len(Image!Pad(bi_firmware)) \div B = fw
                        /\ f <= fw * B /\ fw * B < f + B
  BY <1>2, Padded
<1>6. PICK qw \in Nat : /\ Len(Image!Pad(bi_payload)) = qw * B
                        /\ Len(Image!Pad(bi_payload)) \div B = qw
                        /\ p <= qw * B /\ qw * B < p + B
  BY <1>2, Padded
<1>7. PICK pw \in Nat : pw = Reserved \div B /\ Reserved = pw * B
  BY <1>1, Division
<1>8. fw <= pw
  <2>1. pw < fw => (pw * B) + B <= fw * B
    BY <1>1, LessTimes
  <2>2. pw * B \in Nat /\ fw * B \in Nat
    BY <1>1, LessTimes
  <2> HIDE DEF f, p
  <2> QED BY <2>1, <2>2, <1>1, <1>4, <1>5, <1>7
<1>9. qw > 0
  <2>1. 0 * B = 0
    BY <1>1
  <2> QED BY <2>1, <1>4, <1>6
<1> DEFINE raw == bi_firmware \o Image!Zeros(Reserved - f) \o bi_payload
<1>10. raw \in Seq(Nat) /\ Len(raw) = Reserved + p
  <2> DEFINE z == Image!Zeros(Reserved - f)
  <2>1. z \in Seq(Nat) /\ Len(z) = Reserved - f
    BY <1>1, <1>4 DEF Image!Zeros
  <2> HIDE DEF z
  <2>2. raw = (bi_firmware \o z) \o bi_payload
    BY DEF z
  <2>3. bi_firmware \o z \in Seq(Nat) /\ Len(bi_firmware \o z) = Reserved
    BY <2>1, <1>1, <1>2, <1>4
  <2> HIDE DEF raw
  <2> QED BY <2>2, <2>3, <1>2
<1>11. Image!image = Image!Pad(raw)
  BY DEF Image!image
<1> HIDE DEF raw
<1>12. (Reserved + p) % B = p % B
  <2> DEFINE d == p \div B
             r == p % B
  <2>1. d \in Nat /\ r \in 0 .. B - 1 /\ p = (d * B) + r
    <3>1. \A n \in Nat, b \in Nat \ {0} :
            n \div b \in Nat /\ n % b \in 0 .. b - 1 /\ n = (n \div b) * b + (n % b)
      BY Division
    <3> HIDE DEF p
    <3>2. p \in Nat /\ B \in Nat \ {0}
      BY <1>1, <1>4
    <3> QED BY <3>1, <3>2
  <2> HIDE DEF d, r
  <2>2. (pw + d) * B = (pw * B) + (d * B) /\ pw * B \in Nat /\ d * B \in Nat
    BY <1>1, <2>1
  <2>3. Reserved + p = ((pw + d) * B) + r
    BY <1>7, <2>1, <2>2
  <2>4. (((pw + d) * B) + r) % B = r
    <3>1. pw + d \in Nat /\ r \in Nat /\ r < B
      BY <1>1, <2>1
    <3> QED BY <1>1, <3>1, QuotientIs
  <2> QED BY <2>3, <2>4 DEF r
<1>13. Len(Image!image) = (pw + qw) * B
  <2> DEFINE pad == (B - (p % B)) % B
  <2>1. Len(Image!image) = (Reserved + p) + pad
    BY <1>10, <1>11, <1>12, Padded
  <2>2. qw * B = p + pad
    BY <1>2, <1>6, Padded
  <2>3. (pw + qw) * B = (pw * B) + (qw * B) /\ pw * B \in Nat /\ qw * B \in Nat
    BY <1>1
  <2> HIDE DEF p
  <2>4. pad \in Nat
    BY <1>1, <1>4
  <2> HIDE DEF pad
  <2> QED BY <2>1, <2>2, <2>3, <2>4, <1>4, <1>7
<1>14. ImageWords = pw + qw
  <2>1. (((pw + qw) * B) + 0) \div B = pw + qw
    BY <1>1, QuotientIs
  <2>2. ((pw + qw) * B) + 0 = (pw + qw) * B
    BY <1>1, LessTimes
  <2> QED BY <2>1, <2>2, <1>1, <1>13 DEF ImageWords, Image!Packed
<1>15. Image!Packed.FIRMWARE_WORDS = fw /\ Image!Packed.PAYLOAD_WORD = pw
  BY <1>1, <1>5, <1>7 DEF Image!Packed
<1> QED BY <1>5, <1>6, <1>7, <1>8, <1>9, <1>14, <1>15

(* What the loader reads from the ROM at each index, or zeros in the gap,  *)
(* is the word of the image there.                                         *)
LEMMA RomHolds ==
  ASSUME FilesTyped, ~Image!Refused, bi_packed = Image!Packed,
         bi_index \in 0 .. ImageWords - 1
  PROVE  (IF bi_index >= bi_packed.FIRMWARE_WORDS /\ bi_index < bi_packed.PAYLOAD_WORD
          THEN Image!Zeros(WordBytes) ELSE bi_packed.rom[Image!rom_index]) = WordAt(bi_index)
<1> DEFINE w == bi_index
           f == Len(bi_firmware)
           p == Len(bi_payload)
           F == Image!Pad(bi_firmware)
           P == Image!Pad(bi_payload)
<1>1. B \in Nat \ {0} /\ B = WordBytes /\ Reserved \in Nat
  BY ImageAssumption DEF B
<1>2. PICK fw, pw, qw \in Nat :
        /\ Image!Packed.FIRMWARE_WORDS = fw /\ Image!Packed.PAYLOAD_WORD = pw
        /\ ImageWords = pw + qw
        /\ Reserved = pw * B /\ fw <= pw /\ qw > 0
        /\ Len(F) = fw * B /\ f <= fw * B /\ Len(P) = qw * B /\ p <= qw * B
  BY PackedSizes
<1>3. /\ F \in Seq(Nat) /\ P \in Seq(Nat) /\ f \in Nat /\ p \in Nat
      /\ \A i \in 1 .. fw * B : F[i] = IF i <= f THEN bi_firmware[i] ELSE 0
      /\ \A i \in 1 .. qw * B : P[i] = IF i <= p THEN bi_payload[i] ELSE 0
  <2>1. bi_firmware \in Seq(Nat) /\ bi_payload \in Seq(Nat)
    BY DEF FilesTyped
  <2>2. F \in Seq(Nat) /\ \A i \in 1 .. Len(F) : F[i] = IF i <= f THEN bi_firmware[i] ELSE 0
    BY <2>1, Padded
  <2>3. P \in Seq(Nat) /\ \A i \in 1 .. Len(P) : P[i] = IF i <= p THEN bi_payload[i] ELSE 0
    BY <2>1, Padded
  <2>4. f \in Nat /\ p \in Nat
    BY <2>1
  <2> HIDE DEF F, P, f, p
  <2> QED BY <1>2, <2>2, <2>3, <2>4
<1>4. fw * B \in Nat /\ pw * B \in Nat /\ qw * B \in Nat /\ w * B \in Nat /\ w \in Nat
  BY <1>1, <1>2
<1>5. fw * B <= pw * B
  BY <1>1, <1>2, <1>4, LessTimes
<1>6. /\ Image!rom_data = F \o P /\ F \o P \in Seq(Nat) /\ Len(F \o P) = (fw + qw) * B
      /\ \A i \in 1 .. fw * B : (F \o P)[i] = F[i]
      /\ \A i \in 1 .. qw * B : (F \o P)[(fw * B) + i] = P[i]
  <2>1. (fw + qw) * B = (fw * B) + (qw * B)
    BY <1>1
  <2>2. Image!rom_data = F \o P
    BY DEF Image!rom_data
  <2> HIDE DEF F, P
  <2>3. /\ F \o P \in Seq(Nat) /\ Len(F \o P) = Len(F) + Len(P)
        /\ \A i \in 1 .. Len(F) : (F \o P)[i] = F[i]
        /\ \A i \in 1 .. Len(P) : (F \o P)[Len(F) + i] = P[i]
    BY <1>3, Concatenated
  <2> QED BY <2>1, <2>2, <2>3, <1>2
<1>7. bi_packed.rom = Image!Words(F \o P) /\ bi_packed.FIRMWARE_WORDS = fw
      /\ bi_packed.PAYLOAD_WORD = pw
  BY <1>2, <1>6 DEF Image!Packed
<1>8. Image!rom_index = IF w < fw THEN w ELSE IF w >= pw THEN w - pw + fw ELSE 0
  BY <1>7 DEF Image!rom_index
<1> HIDE DEF w, f, p, F, P
<1>9. \A i \in 1 .. B : (w * B) + i - 1 < f <=> (w * B) + i <= f
  BY <1>1, <1>3, <1>4
<1>10. CASE w < fw
  <2>1. (w * B) + B <= fw * B
    BY <1>1, <1>2, <1>4, <1>10, LessTimes
  <2>2. w \in 0 .. (fw + qw) - 1
    BY <1>2, <1>4, <1>10
  <2>3. bi_packed.rom[w] = [i \in 1 .. B |-> (F \o P)[(w * B) + i]]
    <3>1. \A bytes \in Seq(Nat), q \in Nat : Len(bytes) = q * B =>
            \A n \in 0 .. q - 1 : Image!Words(bytes)[n] = [i \in 1 .. B |-> bytes[(n * B) + i]]
      BY WordOf
    <3>2. fw + qw \in Nat
      OBVIOUS
    <3>3. \A bytes \in Seq(Nat) : Len(bytes) = (fw + qw) * B =>
            Image!Words(bytes)[w] = [i \in 1 .. B |-> bytes[(w * B) + i]]
      BY <3>1, <3>2, <2>2, Zenon
    <3>4. Image!Words(F \o P)[w] = [i \in 1 .. B |-> (F \o P)[(w * B) + i]]
      BY <3>3, <1>6, Zenon
    <3> QED BY <3>4, <1>7
  <2>4. \A i \in 1 .. B : (F \o P)[(w * B) + i] = Image!ByteAt((w * B) + i - 1)
    <3> TAKE i \in 1 .. B
    <3>1. (w * B) + i \in 1 .. fw * B
      BY <1>1, <1>4, <2>1
    <3>2. (F \o P)[(w * B) + i] = IF (w * B) + i <= f THEN bi_firmware[(w * B) + i] ELSE 0
      BY <3>1, <1>3, <1>6
    <3>3. ((w * B) + i - 1) - Reserved < 0 /\ ((w * B) + i - 1) + 1 = (w * B) + i
      BY <1>1, <1>2, <1>4, <1>5, <3>1
    <3>4. ~(((w * B) + i - 1) - Reserved \in 0 .. p - 1)
      BY <3>3, <3>1, <1>1, <1>3, <1>4
    <3> QED BY <1>9, <3>2, <3>3, <3>4 DEF Image!ByteAt, f, p
  <2>5. bi_packed.rom[w] = WordAt(w)
    BY <2>3, <2>4 DEF WordAt
  <2>6. ~(w >= fw) /\ Image!rom_index = w
    BY <1>2, <1>4, <1>8, <1>10
  <2> QED BY <2>5, <2>6, <1>7 DEF w
<1>11. CASE w >= fw /\ w < pw
  <2>1. (w * B) + B <= pw * B /\ fw * B <= w * B
    BY <1>1, <1>2, <1>4, <1>11, LessTimes
  <2>2. \A i \in 1 .. B : Image!ByteAt((w * B) + i - 1) = 0
    <3> TAKE i \in 1 .. B
    <3>1. ~((w * B) + i - 1 < f) /\ ~(((w * B) + i - 1) - Reserved \in 0 .. p - 1)
      <4> DEFINE x == w * B
      <4>1. x \in Nat /\ x + B <= Reserved /\ f <= x
        BY <1>2, <1>3, <1>4, <2>1
      <4> HIDE DEF x
      <4>2. ~(x + i - 1 < f) /\ ~((x + i - 1) - Reserved \in 0 .. p - 1)
        BY <1>1, <1>3, <4>1
      <4> QED BY <4>2 DEF x
    <3> QED BY <3>1 DEF Image!ByteAt, f, p
  <2>3. Image!Zeros(WordBytes) = WordAt(w)
    BY <2>2, <1>1 DEF Image!Zeros, WordAt
  <2> QED BY <2>3, <1>7, <1>11 DEF w
<1>12. CASE w >= pw
  <2> DEFINE v == w - pw
  <2>1. v \in 0 .. qw - 1 /\ w = pw + v /\ v \in Nat /\ v < qw /\ v + fw \in 0 .. (fw + qw) - 1
    BY <1>2, <1>4, <1>12 DEF w
  <2>2. (v * B) + B <= qw * B /\ v * B \in Nat
    <3> HIDE DEF v
    <3> QED BY <1>1, <2>1, LessTimes
  <2>3. w * B = (pw * B) + (v * B) /\ (v + fw) * B = (fw * B) + (v * B)
    BY <1>1, <2>1
  <2> HIDE DEF v
  <2>4. bi_packed.rom[v + fw] = [i \in 1 .. B |-> (F \o P)[((v + fw) * B) + i]]
    <3>1. \A bytes \in Seq(Nat), q \in Nat : Len(bytes) = q * B =>
            \A n \in 0 .. q - 1 : Image!Words(bytes)[n] = [i \in 1 .. B |-> bytes[(n * B) + i]]
      BY WordOf
    <3>2. fw + qw \in Nat
      OBVIOUS
    <3>3. \A bytes \in Seq(Nat) : Len(bytes) = (fw + qw) * B =>
            Image!Words(bytes)[v + fw] = [i \in 1 .. B |-> bytes[((v + fw) * B) + i]]
      BY <3>1, <3>2, <2>1, Zenon
    <3>4. Image!Words(F \o P)[v + fw] = [i \in 1 .. B |-> (F \o P)[((v + fw) * B) + i]]
      BY <3>3, <1>6, Zenon
    <3> QED BY <3>4, <1>7
  <2>5. \A i \in 1 .. B : (F \o P)[((v + fw) * B) + i] = Image!ByteAt((w * B) + i - 1)
    <3> TAKE i \in 1 .. B
    <3>1. (v * B) + i \in 1 .. qw * B
      BY <1>1, <2>2, <1>4
    <3>2. ((v + fw) * B) + i = (fw * B) + ((v * B) + i)
      BY <2>2, <2>3, <1>1, <1>4
    <3>3. (F \o P)[((v + fw) * B) + i] = IF (v * B) + i <= p THEN bi_payload[(v * B) + i] ELSE 0
      BY <3>1, <3>2, <1>3, <1>6
    <3>4. /\ ((w * B) + i - 1) - Reserved = (v * B) + i - 1
          /\ ((w * B) + i - 1) - Reserved + 1 = (v * B) + i
          /\ ~((w * B) + i - 1 < f)
      <4> DEFINE x == w * B
                 y == v * B
      <4>1. x \in Nat /\ y \in Nat /\ x = Reserved + y /\ f <= Reserved
        BY <1>2, <1>3, <1>4, <1>5, <2>2, <2>3
      <4> HIDE DEF x, y
      <4>2. /\ (x + i - 1) - Reserved = y + i - 1 /\ (x + i - 1) - Reserved + 1 = y + i
            /\ ~(x + i - 1 < f)
        BY <1>1, <1>3, <4>1
      <4> QED BY <4>2 DEF x, y
    <3>5. (v * B) + i - 1 \in 0 .. p - 1 <=> (v * B) + i <= p
      BY <3>1, <1>1, <1>3, <1>4, <2>2
    <3> QED BY <3>3, <3>4, <3>5 DEF Image!ByteAt, f, p
  <2>6. bi_packed.rom[v + fw] = WordAt(w)
    BY <2>4, <2>5 DEF WordAt
  <2>7. ~(w < fw) /\ Image!rom_index = v + fw /\ ~(w < pw)
    BY <1>2, <1>4, <1>8, <1>12 DEF v
  <2> QED BY <2>6, <2>7, <1>7 DEF w
<1> QED BY <1>4, <1>2, <1>10, <1>11, <1>12

(* The files stay, and with them everything computed from them.            *)
LEMMA FilesStay ==
  ASSUME UNCHANGED <<bi_firmware, bi_payload>>
  PROVE  /\ Image!Packed' = Image!Packed /\ ImageWords' = ImageWords
         /\ Image!Refused' = Image!Refused
         /\ \A w : WordAt(w)' = WordAt(w)
<1>1. Image!image' = Image!image /\ Image!rom_data' = Image!rom_data
  BY DEF Image!image, Image!rom_data
<1>2. Image!Packed' = Image!Packed
  BY <1>1 DEF Image!Packed
<1>3. ImageWords' = ImageWords
  BY <1>2 DEF ImageWords
<1>4. Image!Refused' = Image!Refused
  BY DEF Image!Refused
<1>5. \A w : WordAt(w)' = WordAt(w)
  BY DEF WordAt, Image!ByteAt
<1> QED BY <1>2, <1>3, <1>4, <1>5

(* What the edges have in common that leave the index as it is.            *)
LEMMA EdgeKeeps ==
  ASSUME ImageInv, bi_state # "OFF", Image!RomRead,
         UNCHANGED <<bi_firmware, bi_payload, bi_packed, bi_index>>
  PROVE  /\ Image!image_word' = WordAt(bi_index)'
         /\ \A w : WordAt(w)' = WordAt(w)
         /\ ImageWords' = ImageWords
         /\ bi_state' # "OFF" /\ DOMAIN bi_ddr' = DOMAIN bi_ddr => ImagePacked'
<1> USE DEF ImageInv
<1>1. /\ Image!Packed' = Image!Packed /\ ImageWords' = ImageWords
      /\ Image!Refused' = Image!Refused /\ \A w : WordAt(w)' = WordAt(w)
  BY FilesStay
<1>2. bi_packed = Image!Packed /\ ~Image!Refused /\ bi_index \in 0 .. ImageWords - 1
  BY DEF ImagePacked
<1>3. Image!image_word' = WordAt(bi_index)
  BY <1>2, RomHolds DEF Image!image_word, Image!RomRead
<1>4. WordAt(bi_index)' = WordAt(bi_index)
  BY DEF WordAt, Image!ByteAt
<1>5. bi_state' # "OFF" /\ DOMAIN bi_ddr' = DOMAIN bi_ddr => ImagePacked'
  BY <1>1, <1>2 DEF ImagePacked
<1> QED BY <1>1, <1>3, <1>4, <1>5

LEMMA ImageEdge == ASSUME ImageInv, Image!Edge PROVE ImageInv'
<1> USE DEF ImageInv
<1>0. /\ bi_state # "OFF" /\ Image!RomRead
      /\ UNCHANGED <<bi_firmware, bi_payload, bi_packed>>
  BY DEF Image!Edge
<1>1. /\ ~Image!Refused /\ bi_packed = Image!Packed /\ bi_index \in 0 .. ImageWords - 1
      /\ DOMAIN bi_ddr = 0 .. ImageWords - 1 /\ ImageWords \in Nat
      /\ \A w \in DOMAIN bi_ddr : w < bi_progress => bi_ddr[w] = WordAt(w)
  <2>1. ~Image!Refused /\ bi_packed = Image!Packed /\ bi_index \in 0 .. ImageWords - 1
        /\ DOMAIN bi_ddr = 0 .. ImageWords - 1
    BY <1>0 DEF ImagePacked
  <2>2. \A w \in DOMAIN bi_ddr : w < bi_progress => bi_ddr[w] = WordAt(w)
    BY <1>0 DEF CheckedBelow
  <2>3. ImageWords \in Nat
    BY <2>1, PackedSizes
  <2> QED BY <2>1, <2>2, <2>3
<1>2. ASSUME bi_state \in Busy, bi_state' \in Busy \cup {"FAILED"},
             UNCHANGED <<bi_index, bi_progress>>,
             bi_ddr' = bi_ddr \/ \E v : bi_ddr' = [bi_ddr EXCEPT ![bi_index] = v]
      PROVE  (FilesTyped /\ ImagePacked /\ CheckedBelow /\ WordInHand)'
  <2>1. /\ Image!image_word' = WordAt(bi_index)' /\ \A w : WordAt(w)' = WordAt(w)
        /\ bi_state' # "OFF" /\ DOMAIN bi_ddr' = DOMAIN bi_ddr => ImagePacked'
    BY <1>0, <1>2, EdgeKeeps
  <2>2. DOMAIN bi_ddr' = DOMAIN bi_ddr /\ bi_state' # "OFF"
    BY <1>2 DEF Busy
  <2>3. bi_progress = bi_index
    BY <1>2 DEF CheckedBelow
  <2>4. \A w \in DOMAIN bi_ddr : w < bi_progress => bi_ddr'[w] = WordAt(w)
    <3> TAKE w \in DOMAIN bi_ddr
    <3> HAVE w < bi_progress
    <3>1. w # bi_index /\ bi_ddr[w] = WordAt(w)
      BY <1>1, <2>3
    <3>2. bi_ddr'[w] = bi_ddr[w]
      BY <1>2, <3>1
    <3> QED BY <3>1, <3>2
  <2>5. CheckedBelow'
    <3>1. bi_state' # "FINISHED"
      BY <1>2 DEF Busy
    <3> QED BY <1>2, <2>1, <2>2, <2>3, <2>4, <3>1 DEF CheckedBelow
  <2>6. FilesTyped'
    BY <1>0, <1>2 DEF FilesTyped
  <2> QED BY <2>1, <2>2, <2>5, <2>6 DEF WordInHand
<1>3. CASE Image!Fetch
  <2>1. /\ bi_state = "FETCH" /\ bi_state' \in {"WRITE", "FAILED"}
        /\ UNCHANGED <<bi_index, bi_progress, bi_ddr, bi_port>>
    BY <1>3 DEF Image!Fetch, Image!Goto, Image!progressed, Image!memory
  <2>2. BurstAtIndex'
    BY <2>1 DEF BurstAtIndex
  <2> QED BY <1>2, <2>1, <2>2 DEF Busy
<1>4. CASE \E awready, wready \in BOOLEAN : Image!Write(awready, wready)
  <2>1. PICK awready \in BOOLEAN : \E wready \in BOOLEAN : Image!Write(awready, wready)
    BY <1>4
  <2>2. PICK wready \in BOOLEAN : Image!Write(awready, wready)
    BY <2>1
  <2> DEFINE burst == IF bi_port.kind = "write" THEN bi_port ELSE Image!Writing
  <2>3. /\ bi_state = "WRITE" /\ bi_state' \in {"WRITE", "RESPONSE", "FAILED"}
        /\ UNCHANGED <<bi_index, bi_progress, bi_ddr>>
    BY <2>2 DEF Image!Write, Image!Goto, Image!progressed
  <2>4. \E a, d : bi_port' = [burst EXCEPT !.aw = a, !.w = d]
    BY <2>2 DEF Image!Write
  <2>5. \E a, d : burst = [kind |-> "write", at |-> bi_index, aw |-> a, w |-> d]
    <3>1. CASE bi_port = Image!NoBurst
      BY <3>1 DEF Image!NoBurst, Image!Writing
    <3>2. CASE bi_port = Burst
      <4>1. bi_port.kind = "write"
        BY <3>2 DEF Burst
      <4> QED BY <3>2, <4>1 DEF Burst
    <3> QED BY <2>3, <3>1, <3>2 DEF BurstAtIndex
  <2> HIDE DEF burst
  <2>6. bi_port' = Burst'
    <3>1. PICK a, d : bi_port' = [burst EXCEPT !.aw = a, !.w = d]
      BY <2>4
    <3>2. bi_port' = [kind |-> "write", at |-> bi_index, aw |-> a, w |-> d]
      <4>1. PICK b, e : burst = [kind |-> "write", at |-> bi_index, aw |-> b, w |-> e]
        BY <2>5
      <4> DEFINE next == [kind |-> "write", at |-> bi_index, aw |-> a, w |-> d]
      <4>2. [burst EXCEPT !.aw = a, !.w = d] = next
        <5> DEFINE half == [kind |-> "write", at |-> bi_index, aw |-> a, w |-> e]
        <5>1. [burst EXCEPT !.aw = a, !.w = d] = [[burst EXCEPT !.aw = a] EXCEPT !.w = d]
          OBVIOUS
        <5>2. [burst EXCEPT !.aw = a] = half
          BY <4>1
        <5>3. [half EXCEPT !.w = d] = next
          OBVIOUS
        <5> HIDE DEF half, next
        <5> QED BY <5>1, <5>2, <5>3, Zenon
      <4> QED BY <3>1, <4>2
    <3> QED BY <2>3, <3>2 DEF Burst
  <2>7. BurstAtIndex'
    BY <2>3, <2>6 DEF BurstAtIndex
  <2> QED BY <1>2, <2>3, <2>7 DEF Busy
<1>5. CASE Image!Response
  <2>1. bi_port = Burst /\ bi_state = "RESPONSE" /\ bi_port.at = bi_index
    BY <1>5 DEF Image!Response, BurstAtIndex, Burst
  <2>2. UNCHANGED <<bi_index, bi_progress>>
    BY <1>5 DEF Image!Response, Image!progressed
  <2>3. CASE bi_state' \in {"RESPONSE", "FAILED"} /\ UNCHANGED <<bi_ddr, bi_port>>
    <3>1. BurstAtIndex'
      BY <2>1, <2>2, <2>3 DEF BurstAtIndex, Burst
    <3> QED BY <1>2, <2>1, <2>2, <2>3, <3>1 DEF Busy
  <2>4. CASE /\ bi_state' \in {"READ", "FAILED"} /\ bi_port' = Image!NoBurst
             /\ bi_ddr' \in {bi_ddr, [bi_ddr EXCEPT ![bi_port.at] = bi_port.w]}
    <3>1. BurstAtIndex'
      BY <2>4 DEF BurstAtIndex, Image!NoBurst
    <3> QED BY <1>2, <2>1, <2>2, <2>4, <3>1 DEF Busy
  <2> QED BY <1>5, <2>3, <2>4 DEF Image!Response, Image!Goto, Image!memory
<1>6. CASE Image!Read
  <2>1. /\ bi_state = "READ" /\ UNCHANGED <<bi_index, bi_progress, bi_ddr>>
        /\ \/ bi_state' \in {"READ", "FAILED"} /\ bi_port' = bi_port
           \/ bi_state' \in {"VERIFY", "FAILED"} /\ bi_port' = Image!Reading
    BY <1>6 DEF Image!Read, Image!Goto, Image!progressed
  <2>2. BurstAtIndex'
    BY <2>1 DEF BurstAtIndex, Image!Reading
  <2> QED BY <1>2, <2>1, <2>2 DEF Busy
<1>7. CASE Image!Verify
  <2>1. bi_state = "VERIFY" /\ bi_ddr' = bi_ddr
    BY <1>7 DEF Image!Verify
  <2>2. bi_port.at = bi_index /\ Image!image_word = WordAt(bi_index) /\ bi_progress = bi_index
    BY <2>1 DEF BurstAtIndex, Image!Reading, WordInHand, CheckedBelow, Busy
  <2>3. CASE bi_state' \in {"VERIFY", "FAILED"} /\ UNCHANGED <<bi_index, bi_progress, bi_port>>
    <3>1. BurstAtIndex'
      BY <2>1, <2>3 DEF BurstAtIndex, Image!Reading
    <3> QED BY <1>2, <2>1, <2>3, <3>1 DEF Busy
  <2>4. CASE bi_state' = "FAILED" /\ bi_port' = Image!NoBurst /\ UNCHANGED <<bi_index, bi_progress>>
    <3>1. BurstAtIndex'
      BY <2>4 DEF BurstAtIndex
    <3> QED BY <1>2, <2>1, <2>4, <3>1 DEF Busy
  <2>5. CASE /\ bi_ddr[bi_port.at] = Image!image_word /\ bi_progress' = bi_progress + 1
             /\ bi_port' = Image!NoBurst
             /\ \/ Image!Last /\ bi_state' \in {"FINISHED", "FAILED"} /\ bi_index' = bi_index
                \/ ~Image!Last /\ bi_state' \in {"FETCH", "FAILED"} /\ bi_index' = bi_index + 1
    <3>1. /\ Image!Packed' = Image!Packed /\ ImageWords' = ImageWords
          /\ Image!Refused' = Image!Refused /\ \A w : WordAt(w)' = WordAt(w)
      BY <1>0, FilesStay
    <3>2. Image!Last <=> bi_index = ImageWords - 1
      BY <1>1 DEF Image!Last, ImageWords
    <3>3. bi_index' \in 0 .. ImageWords - 1
      BY <2>5, <3>2, <1>1
    <3>4. \A w \in DOMAIN bi_ddr : w < bi_progress' => bi_ddr[w] = WordAt(w)
      BY <1>1, <2>2, <2>5
    <3>5. bi_state' \in {"FINISHED", "FETCH", "FAILED"}
      BY <2>5
    <3>6. FilesTyped'
      BY <1>0, <3>5 DEF FilesTyped, Busy
    <3>7. ImagePacked'
      BY <1>0, <1>1, <2>1, <3>1, <3>3, <3>5 DEF ImagePacked
    <3>8. CheckedBelow'
      <4>1. bi_state' \in Busy \cup {"OFF"} => bi_progress' = bi_index'
        BY <2>2, <2>5, <3>5 DEF Busy
      <4>2. bi_state' = "FINISHED" => bi_progress' = ImageWords'
        BY <2>2, <2>5, <3>1, <3>2, <1>1
      <4> QED BY <2>1, <3>1, <3>4, <4>1, <4>2 DEF CheckedBelow
    <3>9. WordInHand' /\ BurstAtIndex'
      BY <2>5, <3>5 DEF WordInHand, BurstAtIndex, Busy
    <3> QED BY <3>6, <3>7, <3>8, <3>9
  <2> QED BY <1>7, <2>3, <2>4, <2>5 DEF Image!Verify, Image!Goto, Image!progressed
<1>8. CASE Image!Ends
  <2>1. /\ bi_state \in {"FINISHED", "FAILED"}
        /\ UNCHANGED <<bi_state, bi_index, bi_progress, bi_ddr, bi_port>>
    BY <1>8 DEF Image!Ends, Image!Ended, Image!progressed, Image!memory
  <2>2. /\ \A w : WordAt(w)' = WordAt(w) /\ ImageWords' = ImageWords
        /\ (bi_state' # "OFF" /\ DOMAIN bi_ddr' = DOMAIN bi_ddr => ImagePacked')
    BY <1>0, <2>1, EdgeKeeps
  <2>3. ImagePacked' /\ FilesTyped'
    BY <1>0, <2>1, <2>2 DEF FilesTyped
  <2>4. CheckedBelow'
    BY <2>1, <2>2 DEF CheckedBelow, Busy
  <2> QED BY <2>1, <2>3, <2>4 DEF WordInHand, BurstAtIndex, Busy
<1> QED BY <1>3, <1>4, <1>5, <1>6, <1>7, <1>8 DEF Image!Edge

LEMMA ImageStep == ImageInv /\ [Image!Next]_(Image!vars) => ImageInv'
<1> SUFFICES ASSUME ImageInv, [Image!Next]_(Image!vars)
             PROVE  ImageInv'
  OBVIOUS
<1>1. CASE Image!Edge
  BY <1>1, ImageEdge
<1> USE DEF ImageInv
<1>2. CASE Image!Pack
  <2>1. /\ bi_state = "OFF" /\ ~Image!Refused /\ bi_packed' = Image!Packed /\ bi_state' = "FETCH"
        /\ bi_ddr' = [w \in 0 .. ImageWords - 1 |-> Image!Junk]
        /\ UNCHANGED <<bi_firmware, bi_payload, bi_index, bi_progress, bi_port>>
    BY <1>2 DEF Image!Pack, ImageWords
  <2>2. /\ Image!Packed' = Image!Packed /\ ImageWords' = ImageWords
        /\ Image!Refused' = Image!Refused /\ \A w : WordAt(w)' = WordAt(w)
    BY <2>1, FilesStay
  <2>3. ImageWords \in Nat /\ ImageWords > 0
    BY <2>1, PackedSizes
  <2>4. bi_index = 0 /\ bi_progress = 0 /\ bi_port = Image!NoBurst
    BY <2>1 DEF ImagePacked, CheckedBelow, BurstAtIndex
  <2>5. FilesTyped'
    BY <2>1 DEF FilesTyped, Busy
  <2>6. ImagePacked'
    BY <2>1, <2>2, <2>3, <2>4 DEF ImagePacked
  <2>7. CheckedBelow'
    BY <2>1, <2>3, <2>4 DEF CheckedBelow, Busy
  <2>8. WordInHand' /\ BurstAtIndex'
    BY <2>1, <2>4 DEF WordInHand, BurstAtIndex, Busy, Image!NoBurst
  <2> QED BY <2>5, <2>6, <2>7, <2>8
<1>3. CASE Image!Reset
  <2>1. /\ bi_state # "OFF" /\ bi_state' = "FETCH" /\ bi_index' = 0 /\ bi_progress' = 0
        /\ bi_port' = Image!NoBurst
        /\ bi_ddr' = bi_ddr \/ bi_ddr' = [bi_ddr EXCEPT ![bi_port.at] = bi_port.w]
        /\ UNCHANGED <<bi_firmware, bi_payload, bi_packed>>
    BY <1>3 DEF Image!Reset
  <2>2. /\ Image!Packed' = Image!Packed /\ ImageWords' = ImageWords
        /\ Image!Refused' = Image!Refused /\ \A w : WordAt(w)' = WordAt(w)
    BY <2>1, FilesStay
  <2>3. ~Image!Refused /\ bi_packed = Image!Packed /\ DOMAIN bi_ddr' = 0 .. ImageWords - 1
    BY <2>1 DEF ImagePacked
  <2>4. ImageWords \in Nat /\ ImageWords > 0
    BY <2>3, PackedSizes
  <2>5. FilesTyped'
    BY <2>1 DEF FilesTyped, Busy
  <2>6. ImagePacked'
    BY <2>1, <2>2, <2>3, <2>4 DEF ImagePacked
  <2>7. CheckedBelow'
    BY <2>1, <2>3, <2>4 DEF CheckedBelow, Busy
  <2>8. WordInHand' /\ BurstAtIndex'
    BY <2>1 DEF WordInHand, BurstAtIndex, Busy
  <2> QED BY <2>5, <2>6, <2>7, <2>8
<1>4. CASE Image!PackRefuses \/ UNCHANGED Image!vars
  <2>1. UNCHANGED Image!vars
    BY <1>4 DEF Image!PackRefuses
  <2> USE <2>1 DEF Image!vars
  <2>2. /\ Image!Packed' = Image!Packed /\ ImageWords' = ImageWords
        /\ Image!Refused' = Image!Refused /\ \A w : WordAt(w)' = WordAt(w)
    BY FilesStay
  <2>3. Image!image_word' = Image!image_word /\ WordAt(bi_index)' = WordAt(bi_index)
    BY DEF Image!image_word, WordAt, Image!ByteAt
  <2>4. FilesTyped' /\ ImagePacked' /\ CheckedBelow'
    BY <2>2 DEF FilesTyped, ImagePacked, CheckedBelow
  <2>5. WordInHand' /\ BurstAtIndex'
    BY <2>3 DEF WordInHand, BurstAtIndex, Burst, Image!Reading
  <2> QED BY <2>4, <2>5
<1> QED BY <1>1, <1>2, <1>3, <1>4 DEF Image!Next

(* pack_checkpoint10_image.py, checkpoint10_image_loader.sv: the CPU is    *)
(* released only when every byte of the firmware and of the payload is at  *)
(* its address and zeros are around them, for files of any length, words of*)
(* any size and whatever memory did.                                       *)
THEOREM ImageIsLoaded == MCSpec => []ImageLoaded
<1>1. MCInit => ImageInv
  <2> SUFFICES ASSUME Image!Init PROVE ImageInv
    BY DEF MCInit
  <2>1. PICK files \in Files : bi_firmware = files[1] /\ bi_payload = files[2]
    BY DEF Image!Init
  <2>2. bi_firmware \in Seq(Nat) /\ bi_payload \in Seq(Nat)
    BY <2>1, ImageAssumption
  <2>3. bi_state = "OFF" /\ bi_index = 0 /\ bi_progress = 0 /\ bi_port = Image!NoBurst
    BY DEF Image!Init
  <2> QED
    BY <2>2, <2>3 DEF ImageInv, FilesTyped, ImagePacked, CheckedBelow, WordInHand,
                      BurstAtIndex, Busy
<1>2. ImageInv /\ [MCNext]_all => ImageInv'
  BY OneTool, ImageStep
<1>3. ImageInv => ImageLoaded
  <2> SUFFICES ASSUME ImageInv, bi_state = "FINISHED"
               PROVE  /\ bi_progress * WordBytes >= Reserved + Len(bi_payload)
                      /\ \A w \in DOMAIN bi_ddr : bi_ddr[w] = WordAt(w)
    BY DEF ImageLoaded, Image!ImageLoaded, WordAt, B
  <2>1. /\ FilesTyped /\ ~Image!Refused /\ bi_progress = ImageWords
        /\ DOMAIN bi_ddr = 0 .. ImageWords - 1
        /\ \A w \in DOMAIN bi_ddr : w < bi_progress => bi_ddr[w] = WordAt(w)
    BY DEF ImageInv, ImagePacked, CheckedBelow
  <2>2. PICK pw, qw \in Nat : ImageWords = pw + qw /\ Reserved = pw * B
                              /\ Len(bi_payload) <= qw * B
    BY <2>1, PackedSizes
  <2>3. B \in Nat \ {0} /\ B = WordBytes
    BY ImageAssumption DEF B
  <2>4. (pw + qw) * B = (pw * B) + (qw * B) /\ pw * B \in Nat /\ qw * B \in Nat
    BY <2>3
  <2>5. bi_progress * WordBytes >= Reserved + Len(bi_payload)
    <3>1. Len(bi_payload) \in Nat
      BY <2>1 DEF FilesTyped
    <3>2. bi_progress * WordBytes = (pw * B) + (qw * B)
      BY <2>1, <2>2, <2>3, <2>4
    <3> QED BY <3>1, <3>2, <2>2, <2>4
  <2>6. \A w \in DOMAIN bi_ddr : bi_ddr[w] = WordAt(w)
    BY <2>1, <2>2
  <2> QED BY <2>5, <2>6
<1> QED BY <1>1, <1>2, <1>3, PTL DEF MCSpec

-----------------------------------------------------------------------------
(* The boot capture.  Half k of a milestone of boot b, and the stream: what*)
(* the script has read, then what waits in the host.                       *)
HalfOf(b, k) ==
  [boot |-> b, marker |-> Console!MARKERS[(k + 1) \div 2], half |-> 2 - (k % 2)]
HalfRecord == [boot : Nat, marker : {Console!MARKERS[j] : j \in 1 .. 4}, half : 1 .. 2]
Length == Len(bc_data) + Len(bc_unread)
At(i) == IF i <= Len(bc_data) THEN bc_data[i] ELSE bc_unread[i - Len(bc_data)]

ConsoleTyped ==
  /\ bc_data \in Seq(HalfRecord) /\ bc_unread \in Seq(HalfRecord)
  /\ bc_boot \in Nat /\ bc_boot >= 1 /\ bc_printed \in 0 .. 8
  /\ bc_trace \in BOOLEAN /\ bc_sent \in BOOLEAN
  /\ bc_phase \in {"open", "reading", "exited", "rechecked"}
(* Every half is of some boot; each follows the one before or begins a     *)
(* later boot; of one boot there is nothing between two but what is between*)
(* them; and the board is where the last one says.                         *)
StreamMade == \A i \in 1 .. Length : \E b \in 1 .. bc_boot, k \in 1 .. 8 : At(i) = HalfOf(b, k)
StreamFollows ==
  \A i \in 1 .. Length - 1 : \A b \in 1 .. bc_boot, k \in 1 .. 8 : At(i) = HalfOf(b, k) =>
    \/ k < 8 /\ At(i + 1) = HalfOf(b, k + 1)
    \/ \E c \in 1 .. bc_boot : b < c /\ At(i + 1) = HalfOf(c, 1)
StreamApart ==
  \A i, j \in 1 .. Length : i < j => \A b, c \in 1 .. bc_boot, k, l \in 1 .. 8 :
    At(i) = HalfOf(b, k) /\ At(j) = HalfOf(c, l) => b < c \/ (b = c /\ l - k = j - i)
StreamEnds ==
  Length > 0 => \/ bc_printed > 0 /\ At(Length) = HalfOf(bc_boot, bc_printed)
                \/ bc_printed = 0 /\ \E b \in 1 .. bc_boot, k \in 1 .. 8 :
                                       b < bc_boot /\ At(Length) = HalfOf(b, k)
ConsoleJudged ==
  /\ bc_phase \in {"open", "reading"} => bc_result = "none"
  /\ bc_phase = "open" => bc_data = <<>> /\ ~bc_sent
  /\ bc_phase = "rechecked" \/ bc_result \in {"pass", "fail"} =>
       (bc_result = "pass" <=> Console!verify(bc_data))
  /\ bc_phase = "exited" /\ bc_trace => bc_result = "captured"
  /\ bc_phase \in {"reading", "exited"} /\ bc_result # "io_error" /\ ~bc_trace =>
       (bc_sent <=> Console!find(bc_data, Console!READY, 1) # 0)
StreamInv == StreamMade /\ StreamFollows /\ StreamApart /\ StreamEnds
ConsoleInv == ConsoleTyped /\ StreamInv /\ ConsoleJudged

LEMMA Milestones ==
  /\ Len(Console!MARKERS) = 4 /\ Console!READY = Console!MARKERS[3]
  /\ \A i, j \in 1 .. 4 : Console!MARKERS[i] = Console!MARKERS[j] => i = j
<1>1. /\ Len(Console!MARKERS) = 4 /\ Console!READY = Console!MARKERS[3]
      /\ Console!MARKERS[1] = "OpenSBI" /\ Console!MARKERS[2] = "SBI_TIMER_PMP_PASS"
      /\ Console!MARKERS[3] = "UART_RX_READY" /\ Console!MARKERS[4] = "UART_RX_PLIC_PASS"
  BY DEF Console!MARKERS, Console!READY
<1>2. \A i \in 1 .. 4 : i = 1 \/ i = 2 \/ i = 3 \/ i = 4
  OBVIOUS
<1>3. \A i, j \in 1 .. 4 : Console!MARKERS[i] = Console!MARKERS[j] => i = j
  BY <1>1, <1>2
<1> QED BY <1>1, <1>3

LEMMA HalfIndex ==
  /\ \A k \in 1 .. 8 : (k + 1) \div 2 \in 1 .. 4 /\ 2 - (k % 2) \in 1 .. 2
                       /\ k = 2 * ((k + 1) \div 2) - 2 + (2 - (k % 2))
  OBVIOUS

LEMMA HalfIs ==
  ASSUME NEW b, NEW k \in 1 .. 8, NEW j \in 1 .. 4, NEW h \in 1 .. 2
  PROVE  (HalfOf(b, k).marker = Console!MARKERS[j] /\ HalfOf(b, k).half = h) <=> k = 2 * j - 2 + h
<1> DEFINE m == (k + 1) \div 2
           g == 2 - (k % 2)
<1>1. m \in 1 .. 4 /\ g \in 1 .. 2 /\ k = 2 * m - 2 + g
  BY HalfIndex
<1>2. HalfOf(b, k).marker = Console!MARKERS[m] /\ HalfOf(b, k).half = g
  BY DEF HalfOf
<1> HIDE DEF m, g
<1>3. Console!MARKERS[m] = Console!MARKERS[j] <=> m = j
  BY <1>1, Milestones
<1>4. m = j /\ g = h <=> k = 2 * j - 2 + h
  BY <1>1
<1> QED BY <1>2, <1>3, <1>4

LEMMA HalvesDiffer ==
  ASSUME NEW b, NEW c, NEW k \in 1 .. 8, NEW l \in 1 .. 8, HalfOf(b, k) = HalfOf(c, l)
  PROVE  b = c /\ k = l
<1> DEFINE m == (k + 1) \div 2
           g == 2 - (k % 2)
<1>1. m \in 1 .. 4 /\ g \in 1 .. 2 /\ k = 2 * m - 2 + g
  BY HalfIndex
<1>2. HalfOf(c, l).marker = Console!MARKERS[m] /\ HalfOf(c, l).half = g
  BY DEF HalfOf
<1> HIDE DEF m, g
<1>3. l = 2 * m - 2 + g
  BY <1>1, <1>2, HalfIs
<1>4. b = c
  BY DEF HalfOf
<1> QED BY <1>1, <1>3, <1>4

Occurs(seq, marker, cursor) ==
  {i \in cursor .. Len(seq) - 1 : /\ seq[i].marker = marker /\ seq[i].half = 1
                                  /\ seq[i + 1].marker = marker /\ seq[i + 1].half = 2}
LEMMA Found ==
  ASSUME NEW seq, Len(seq) \in Nat, NEW marker, NEW c \in Nat, c >= 1
  PROVE  /\ Console!find(seq, marker, c) = 0 <=> Occurs(seq, marker, c) = {}
         /\ Console!find(seq, marker, c) # 0 =>
              /\ Console!find(seq, marker, c) \in Occurs(seq, marker, c)
              /\ \A i \in Occurs(seq, marker, c) : Console!find(seq, marker, c) <= i
         /\ Occurs(seq, marker, c) \subseteq c .. Len(seq) - 1
         /\ Console!find(seq, marker, c) \in Nat
<1> DEFINE D == Occurs(seq, marker, c)
<1>1. D \subseteq c .. Len(seq) - 1
  BY DEF Occurs
<1>2. Console!find(seq, marker, c) = IF D = {} THEN 0 ELSE CHOOSE i \in D : \A j \in D : i <= j
  BY DEF Console!find, Occurs
<1>3. D \in SUBSET Nat /\ 0 \notin D
  BY <1>1
<1> HIDE DEF D
<1>4. D # {} => \E k \in D : \A j \in D : k <= j
  BY <1>3, LeastNat
<1>5. D # {} => Console!find(seq, marker, c) \in D /\ \A j \in D : Console!find(seq, marker, c) <= j
  BY <1>2, <1>4
<1>6. D = {} => Console!find(seq, marker, c) = 0
  BY <1>2
<1> QED BY <1>1, <1>3, <1>5, <1>6 DEF D

(* The four milestones one after the other, as the loop looks for them.    *)
Beyond(seq, j, c) ==
  IF c = 0 \/ Console!find(seq, Console!MARKERS[j], c) = 0 THEN 0
  ELSE Console!find(seq, Console!MARKERS[j], c) + 2
Cursor1(seq) == Beyond(seq, 1, 1)
Cursor2(seq) == Beyond(seq, 2, Cursor1(seq))
Cursor3(seq) == Beyond(seq, 3, Cursor2(seq))
Cursor4(seq) == Beyond(seq, 4, Cursor3(seq))

LEMMA VerifyIs ==
  ASSUME NEW seq
  PROVE  Console!verify(seq) <=> Cursor4(seq) # 0
<1> DEFINE L == Len(Console!MARKERS)
           Is(f) == f = [i \in 0 .. L |-> IF i = 0 THEN 1 ELSE Beyond(seq, i, f[i - 1])]
           C == CHOOSE f : Is(f)
           f0 == [i \in 0 .. L |-> IF i = 0 THEN 1 ELSE IF i = 1 THEN Cursor1(seq)
                                   ELSE IF i = 2 THEN Cursor2(seq)
                                   ELSE IF i = 3 THEN Cursor3(seq) ELSE Cursor4(seq)]
<1>1. L = 4
  BY Milestones
<1>2. Is(f0)
  <2> DEFINE g == [i \in 0 .. L |-> IF i = 0 THEN 1 ELSE Beyond(seq, i, f0[i - 1])]
  <2>1. \A i \in 0 .. L : f0[i] = g[i]
    <3> TAKE i \in 0 .. L
    <3>1. i \in {0, 1, 2, 3, 4}
      BY <1>1
    <3>2. f0[0] = 1 /\ f0[1] = Cursor1(seq) /\ f0[2] = Cursor2(seq) /\ f0[3] = Cursor3(seq)
          /\ f0[4] = Cursor4(seq)
      BY <1>1
    <3> HIDE DEF f0
    <3>3. g[i] = IF i = 0 THEN 1 ELSE Beyond(seq, i, f0[i - 1])
      OBVIOUS
    <3> QED BY <3>1, <3>2, <3>3 DEF Cursor1, Cursor2, Cursor3, Cursor4
  <2> QED BY <2>1
<1>3. Is(C)
  <2> HIDE DEF Is, f0
  <2> QED BY <1>2, Zenon
<1>4. Console!verify(seq) <=> C[L] # 0
  BY Zenon DEF Console!verify, Beyond
<1>5. \A i \in 0 .. L : C[i] = IF i = 0 THEN 1 ELSE Beyond(seq, i, C[i - 1])
  <2> HIDE DEF C
  <2> QED BY <1>3
<1> HIDE DEF C
<1>6. C[0] = 1
  BY <1>1, <1>5
<1>7. C[1] = Cursor1(seq)
  BY <1>1, <1>5, <1>6 DEF Cursor1
<1>8. C[2] = Cursor2(seq)
  BY <1>1, <1>5, <1>7 DEF Cursor2
<1>9. C[3] = Cursor3(seq)
  BY <1>1, <1>5, <1>8 DEF Cursor3
<1>10. C[4] = Cursor4(seq)
  BY <1>1, <1>5, <1>9 DEF Cursor4
<1> QED BY <1>1, <1>4, <1>10

(* What was read is the beginning of the stream, and passes exactly if one *)
(* boot is in it from its first half to its last.                          *)
LEMMA StepBack ==
  ASSUME ConsoleTyped, StreamInv
  PROVE  \A i \in 1 .. Length, b \in 1 .. bc_boot, k \in 2 .. 8, first \in 1 .. Length :
           At(i) = HalfOf(b, k) /\ first \in 1 .. i /\ (\E a \in 1 .. bc_boot : At(first) = HalfOf(a, 1))
             => i - 1 \in 1 .. Length /\ first \in 1 .. i - 1 /\ At(i - 1) = HalfOf(b, k - 1)
<1> SUFFICES ASSUME NEW i \in 1 .. Length, NEW b \in 1 .. bc_boot, NEW k \in 2 .. 8,
                    NEW first \in 1 .. Length, first \in 1 .. i, At(i) = HalfOf(b, k),
                    \E a \in 1 .. bc_boot : At(first) = HalfOf(a, 1)
             PROVE  i - 1 \in 1 .. Length /\ first \in 1 .. i - 1 /\ At(i - 1) = HalfOf(b, k - 1)
  BY Zenon
<1> USE DEF StreamInv
<1>0. Length \in Nat /\ i \in Nat /\ bc_boot \in Nat /\ k \in 1 .. 8 /\ 1 \in 1 .. 8 /\ k # 1
      /\ first \in Nat
  BY DEF ConsoleTyped, Length
<1>1. PICK a \in 1 .. bc_boot : At(first) = HalfOf(a, 1)
  OBVIOUS
<1>2. first # i
  BY <1>0, <1>1, HalvesDiffer
<1> DEFINE j == i - 1
<1>3. j \in 1 .. Length /\ first \in 1 .. j /\ j \in 1 .. Length - 1 /\ j + 1 = i
  BY <1>0, <1>2
<1> HIDE DEF j
<1>4. PICK c \in 1 .. bc_boot : \E l \in 1 .. 8 : At(j) = HalfOf(c, l)
  BY <1>3 DEF StreamMade
<1>5. PICK l \in 1 .. 8 : At(j) = HalfOf(c, l)
  BY <1>4
<1>6. \/ l < 8 /\ At(i) = HalfOf(c, l + 1)
      \/ \E d \in 1 .. bc_boot : At(i) = HalfOf(d, 1)
  BY <1>3, <1>5 DEF StreamFollows
<1>7. ~\E d \in 1 .. bc_boot : At(i) = HalfOf(d, 1)
  BY <1>0, HalvesDiffer
<1>8. l + 1 \in 1 .. 8 /\ HalfOf(b, k) = HalfOf(c, l + 1)
  BY <1>5, <1>6, <1>7
<1>9. b = c /\ k = l + 1
  BY <1>0, <1>8, HalvesDiffer
<1>10. l = k - 1
  BY <1>0, <1>5, <1>9
<1> QED BY <1>3, <1>5, <1>9, <1>10 DEF j

LEMMA ReadIsMade ==
  ASSUME ConsoleTyped, StreamInv, NEW i \in 1 .. Len(bc_data)
  PROVE  /\ i \in 1 .. Length /\ At(i) = bc_data[i]
         /\ \E b \in 1 .. bc_boot, k \in 1 .. 8 : bc_data[i] = HalfOf(b, k)
<1>1. Len(bc_data) \in Nat /\ Len(bc_unread) \in Nat
  BY DEF ConsoleTyped
<1>2. i \in 1 .. Length /\ At(i) = bc_data[i]
  BY <1>1 DEF Length, At
<1> QED BY <1>2 DEF StreamInv, StreamMade

LEMMA PassesIfWhole ==
  ASSUME ConsoleTyped, StreamInv, NEW b \in 1 .. bc_boot, Console!Whole(b)
  PROVE  Console!verify(bc_data)
<1> DEFINE n == Len(bc_data)
<1>0. n \in Nat /\ bc_boot \in Nat /\ Length \in Nat /\ Console!AllHalves = 8
  BY Milestones DEF ConsoleTyped, Length, Console!AllHalves
<1>1. \A k \in 1 .. 8 : \E i \in 1 .. n : bc_data[i] = HalfOf(b, k)
  <2> TAKE k \in 1 .. 8
  <2>1. PICK i \in DOMAIN bc_data :
          /\ bc_data[i].boot = b /\ bc_data[i].marker = Console!MARKERS[(k + 1) \div 2]
          /\ bc_data[i].half = 2 - (k % 2)
    BY <1>0 DEF Console!Whole
  <2>2. i \in 1 .. n
    BY DEF ConsoleTyped
  <2>3. PICK c \in 1 .. bc_boot : \E l \in 1 .. 8 : bc_data[i] = HalfOf(c, l)
    BY <2>2, ReadIsMade
  <2>4. PICK l \in 1 .. 8 : bc_data[i] = HalfOf(c, l)
    BY <2>3
  <2>5. c = b
    BY <2>1, <2>4 DEF HalfOf
  <2> DEFINE m == (k + 1) \div 2
             g == 2 - (k % 2)
  <2>6. m \in 1 .. 4 /\ g \in 1 .. 2 /\ k = 2 * m - 2 + g
    BY HalfIndex
  <2>7. HalfOf(c, l).marker = Console!MARKERS[m] /\ HalfOf(c, l).half = g
    BY <2>1, <2>4
  <2> HIDE DEF m, g
  <2>8. l = 2 * m - 2 + g
    BY <2>6, <2>7, HalfIs
  <2> QED BY <2>2, <2>4, <2>5, <2>6, <2>8
<1> HIDE DEF n
<1>2. PICK p \in 1 .. n : bc_data[p] = HalfOf(b, 1)
  <2>1. 1 \in 1 .. 8
    OBVIOUS
  <2> QED BY <1>1, <2>1, Zenon
<1> USE DEF n
<1>3. \A k \in 1 .. 8 : p + k - 1 \in 1 .. n /\ bc_data[p + k - 1] = HalfOf(b, k)
  <2> TAKE k \in 1 .. 8
  <2>1. PICK i \in 1 .. n : bc_data[i] = HalfOf(b, k)
    BY <1>1
  <2>2. i \in 1 .. Length /\ p \in 1 .. Length /\ At(i) = HalfOf(b, k) /\ At(p) = HalfOf(b, 1)
    BY <1>2, <2>1, ReadIsMade
  <2>3. p < i => k - 1 = i - p
    BY <1>0, <2>2 DEF StreamInv, StreamApart
  <2>4. i < p => 1 - k = p - i
    BY <1>0, <2>2 DEF StreamInv, StreamApart
  <2>5. i = p => k = 1
    BY <1>2, <2>1, HalvesDiffer
  <2>6. i = p + k - 1
    BY <2>3, <2>4, <2>5, <1>0
  <2> QED BY <2>1, <2>6
<1>4. \A j \in 1 .. 4 : p + 2 * j - 2 \in 1 .. n - 1
                        /\ \A c \in 1 .. p + 2 * j - 2 :
                             p + 2 * j - 2 \in Occurs(bc_data, Console!MARKERS[j], c)
  <2> TAKE j \in 1 .. 4
  <2> DEFINE q == p + 2 * j - 2
             k == 2 * j - 1
  <2>1. k \in 1 .. 8 /\ k + 1 \in 1 .. 8 /\ p + k - 1 = q /\ p + (k + 1) - 1 = q + 1
        /\ k = 2 * j - 2 + 1 /\ k + 1 = 2 * j - 2 + 2
    BY <1>0
  <2> HIDE DEF q, k
  <2>2. q \in 1 .. n /\ q + 1 \in 1 .. n /\ bc_data[q] = HalfOf(b, k)
        /\ bc_data[q + 1] = HalfOf(b, k + 1)
    BY <2>1, <1>3
  <2>3. HalfOf(b, k).marker = Console!MARKERS[j] /\ HalfOf(b, k).half = 1
    BY <2>1, HalfIs
  <2>4. HalfOf(b, k + 1).marker = Console!MARKERS[j] /\ HalfOf(b, k + 1).half = 2
    BY <2>1, HalfIs
  <2>5. q \in 1 .. n - 1
    BY <1>0, <2>2
  <2>6. \A c \in 1 .. q : q \in c .. n - 1
    BY <2>5, <1>0
  <2> QED BY <2>2, <2>3, <2>4, <2>5, <2>6 DEF Occurs, q
<1>5. ASSUME NEW j \in 1 .. 4, NEW c \in 1 .. p + 2 * j - 2
      PROVE  Beyond(bc_data, j, c) \in 1 .. p + 2 * j
  <2> DEFINE q == p + 2 * j - 2
             f == Console!find(bc_data, Console!MARKERS[j], c)
  <2>1. q \in Occurs(bc_data, Console!MARKERS[j], c) /\ c \in Nat /\ c >= 1 /\ q \in Nat
        /\ q + 2 = p + 2 * j
    BY <1>0, <1>4, <1>5
  <2>2. f # 0 /\ f <= q /\ f \in Nat
    BY <1>0, <2>1, Found
  <2> HIDE DEF f, q
  <2>3. f + 2 \in 1 .. p + 2 * j
    BY <2>1, <2>2
  <2> QED BY <2>1, <2>2, <2>3 DEF Beyond, f
<1>6. Cursor1(bc_data) \in 1 .. p + 2
  <2>1. 1 \in 1 .. p + 2 * 1 - 2
    BY <1>0
  <2>2. 1 \in 1 .. 4 /\ p + 2 * 1 = p + 2
    BY <1>0
  <2>3. Beyond(bc_data, 1, 1) \in 1 .. p + 2 * 1
    BY <1>5, <2>1, <2>2, Zenon
  <2> QED BY <2>2, <2>3 DEF Cursor1
<1>7. Cursor2(bc_data) \in 1 .. p + 4
  <2>1. Cursor1(bc_data) \in 1 .. p + 2 * 2 - 2 /\ 2 \in 1 .. 4 /\ p + 2 * 2 = p + 4
    BY <1>0, <1>6
  <2>2. Beyond(bc_data, 2, Cursor1(bc_data)) \in 1 .. p + 2 * 2
    BY <1>5, <2>1, Zenon
  <2> QED BY <2>1, <2>2 DEF Cursor2
<1>8. Cursor3(bc_data) \in 1 .. p + 6
  <2>1. Cursor2(bc_data) \in 1 .. p + 2 * 3 - 2
    BY <1>0, <1>7
  <2>2. 3 \in 1 .. 4 /\ p + 2 * 3 = p + 6
    BY <1>0
  <2>3. Beyond(bc_data, 3, Cursor2(bc_data)) \in 1 .. p + 2 * 3
    BY <1>5, <2>1, <2>2, Zenon
  <2> QED BY <2>2, <2>3 DEF Cursor3
<1>9. Cursor4(bc_data) \in 1 .. p + 8
  <2>1. Cursor3(bc_data) \in 1 .. p + 2 * 4 - 2
    BY <1>0, <1>8
  <2>2. 4 \in 1 .. 4 /\ p + 2 * 4 = p + 8
    BY <1>0
  <2>3. Beyond(bc_data, 4, Cursor3(bc_data)) \in 1 .. p + 2 * 4
    BY <1>5, <2>1, <2>2, Zenon
  <2> QED BY <2>2, <2>3 DEF Cursor4
<1> QED BY <1>9, VerifyIs

LEMMA BeyondIs ==
  ASSUME NEW seq, Len(seq) \in Nat, NEW j \in 1 .. 4, NEW c \in Nat, Beyond(seq, j, c) # 0
  PROVE  /\ Beyond(seq, j, c) \in Nat
         /\ \E i \in 1 .. Len(seq) - 1 :
              /\ i \in Occurs(seq, Console!MARKERS[j], c) /\ c <= i /\ Beyond(seq, j, c) = i + 2
<1> DEFINE f == Console!find(seq, Console!MARKERS[j], c)
<1>1. c # 0 /\ f # 0 /\ Beyond(seq, j, c) = f + 2
  BY DEF Beyond
<1>2. f \in Occurs(seq, Console!MARKERS[j], c) /\ f \in c .. Len(seq) - 1
  BY <1>1, Found
<1>3. f \in 1 .. Len(seq) - 1 /\ c <= f /\ f + 2 \in Nat
  <2> HIDE DEF f
  <2> QED BY <1>1, <1>2
<1> QED BY <1>1, <1>2, <1>3

LEMMA WholeIfPasses ==
  ASSUME ConsoleTyped, StreamInv, Console!verify(bc_data)
  PROVE  \E b \in 1 .. bc_boot : Console!Whole(b)
<1> DEFINE n == Len(bc_data)
<1>0. n \in Nat /\ bc_boot \in Nat /\ Length \in Nat /\ n <= Length /\ Console!AllHalves = 8
      /\ DOMAIN bc_data = 1 .. n
  BY Milestones DEF ConsoleTyped, Length, Console!AllHalves
<1>1. Cursor4(bc_data) # 0
  BY VerifyIs
<1>2. Cursor3(bc_data) # 0 /\ Cursor2(bc_data) # 0 /\ Cursor1(bc_data) # 0
  BY <1>1 DEF Cursor4, Cursor3, Cursor2, Beyond
<1>3. PICK p \in 1 .. n - 1 : /\ p \in Occurs(bc_data, Console!MARKERS[1], 1)
                              /\ Cursor1(bc_data) = p + 2
  BY <1>0, <1>2, BeyondIs DEF Cursor1
<1>4. Cursor1(bc_data) \in Nat
  BY <1>0, <1>3
<1>5. PICK i2 \in 1 .. n - 1 : Cursor1(bc_data) <= i2 /\ Cursor2(bc_data) = i2 + 2
  BY <1>0, <1>2, <1>4, BeyondIs DEF Cursor2
<1>6. Cursor2(bc_data) \in Nat
  BY <1>0, <1>5
<1>7. PICK i3 \in 1 .. n - 1 : Cursor2(bc_data) <= i3 /\ Cursor3(bc_data) = i3 + 2
  BY <1>0, <1>2, <1>6, BeyondIs DEF Cursor3
<1>8. Cursor3(bc_data) \in Nat
  BY <1>0, <1>7
<1>9. PICK q \in 1 .. n - 1 : /\ q \in Occurs(bc_data, Console!MARKERS[4], Cursor3(bc_data))
                              /\ Cursor3(bc_data) <= q
  BY <1>0, <1>1, <1>8, BeyondIs DEF Cursor4
<1>10. p \in 1 .. n /\ q \in 1 .. n /\ q + 1 \in 1 .. n /\ p \in 1 .. q
  BY <1>0, <1>3, <1>5, <1>7, <1>9
<1>11. \E a \in 1 .. bc_boot : At(p) = HalfOf(a, 1)
  <2>1. PICK a \in 1 .. bc_boot : \E k \in 1 .. 8 : bc_data[p] = HalfOf(a, k)
    BY <1>10, ReadIsMade
  <2>2. PICK k \in 1 .. 8 : bc_data[p] = HalfOf(a, k)
    BY <2>1
  <2>3. HalfOf(a, k).marker = Console!MARKERS[1] /\ HalfOf(a, k).half = 1
    BY <1>3, <2>2 DEF Occurs
  <2>4. k = 2 * 1 - 2 + 1
    BY <2>3, HalfIs
  <2>5. k = 1
    BY <2>4
  <2> QED BY <2>2, <2>5, <1>10, ReadIsMade
<1>12. PICK b \in 1 .. bc_boot : At(q) = HalfOf(b, 7)
  <2>1. PICK b \in 1 .. bc_boot : \E k \in 1 .. 8 : bc_data[q] = HalfOf(b, k)
    BY <1>10, ReadIsMade
  <2>2. PICK k \in 1 .. 8 : bc_data[q] = HalfOf(b, k)
    BY <2>1
  <2>3. HalfOf(b, k).marker = Console!MARKERS[4] /\ HalfOf(b, k).half = 1
    BY <1>9, <2>2 DEF Occurs
  <2>4. k = 2 * 4 - 2 + 1
    BY <2>3, HalfIs
  <2>5. k = 7
    BY <2>4
  <2> QED BY <2>2, <2>5, <1>10, ReadIsMade
<1>13. At(q + 1) = HalfOf(b, 8)
  <2>1. PICK a \in 1 .. bc_boot : \E k \in 1 .. 8 : bc_data[q + 1] = HalfOf(a, k)
    BY <1>10, ReadIsMade
  <2>2. PICK k \in 1 .. 8 : bc_data[q + 1] = HalfOf(a, k)
    BY <2>1
  <2>3. HalfOf(a, k).marker = Console!MARKERS[4] /\ HalfOf(a, k).half = 2
    BY <1>9, <2>2 DEF Occurs
  <2>4. k = 2 * 4 - 2 + 2
    BY <2>3, HalfIs
  <2>5. k = 8
    BY <2>4
  <2>6. At(q + 1) = HalfOf(a, 8)
    BY <2>2, <2>5, <1>10, ReadIsMade
  <2>7. q \in 1 .. Length - 1 /\ 7 \in 1 .. 8 /\ 8 \in 1 .. 8 /\ 1 \in 1 .. 8 /\ 7 + 1 = 8
    BY <1>0, <1>9
  <2>8. At(q + 1) = HalfOf(b, 7 + 1) \/ \E c \in 1 .. bc_boot : At(q + 1) = HalfOf(c, 1)
    BY <1>12, <2>7 DEF StreamInv, StreamFollows
  <2>9. ~\E c \in 1 .. bc_boot : At(q + 1) = HalfOf(c, 1)
    <3>1. \A c \in 1 .. bc_boot : HalfOf(a, 8) # HalfOf(c, 1)
      <4> SUFFICES ASSUME NEW c \in 1 .. bc_boot, HalfOf(a, 8) = HalfOf(c, 1) PROVE FALSE
        OBVIOUS
      <4>1. \A x, y \in 1 .. 8 : HalfOf(a, x) = HalfOf(c, y) => x = y
        BY HalvesDiffer
      <4> QED BY <4>1
    <3> QED BY <2>6, <3>1
  <2> QED BY <2>7, <2>8, <2>9
<1>14. \A i \in 1 .. Length, k \in 2 .. 8 : At(i) = HalfOf(b, k) /\ p \in 1 .. i =>
         i - 1 \in 1 .. Length /\ p \in 1 .. i - 1 /\ At(i - 1) = HalfOf(b, k - 1)
  <2> SUFFICES ASSUME NEW i \in 1 .. Length, NEW k \in 2 .. 8, At(i) = HalfOf(b, k), p \in 1 .. i
               PROVE  i - 1 \in 1 .. Length /\ p \in 1 .. i - 1 /\ At(i - 1) = HalfOf(b, k - 1)
    OBVIOUS
  <2>1. b \in 1 .. bc_boot /\ \E a \in 1 .. bc_boot : At(p) = HalfOf(a, 1)
    BY <1>11
  <2>2. ConsoleTyped /\ StreamInv
    OBVIOUS
  <2> HIDE DEF ConsoleTyped, StreamInv, Length
  <2>3. i \in 1 .. Length /\ k \in 2 .. 8 /\ p \in 1 .. i /\ At(i) = HalfOf(b, k)
    OBVIOUS
  <2>4. \E a \in 1 .. bc_boot : At(p) = HalfOf(a, 1)
    BY <2>1
  <2>5. b \in 1 .. bc_boot
    BY <2>1
  <2> HIDE DEF At, HalfOf
  <2>6. i - 1 \in 1 .. Length /\ p \in 1 .. i - 1 /\ At(i - 1) = HalfOf(b, k - 1)
    <3>1. p \in 1 .. Length
      BY ONLY <2>2, <2>3 DEF Length, ConsoleTyped
    <3> QED BY ONLY <3>1, <2>2, <2>3, <2>4, <2>5, StepBack, Zenon
  <2> QED BY <2>6
<1>15. q \in 1 .. Length
  BY <1>10, ReadIsMade
<1>16. q - 1 \in 1 .. Length /\ p \in 1 .. q - 1 /\ At(q - 1) = HalfOf(b, 6)
  <2>1. 7 \in 2 .. 8 /\ 7 - 1 = 6
    OBVIOUS
  <2> QED BY <2>1, <1>10, <1>12, <1>14, <1>15
<1>17. q - 2 \in 1 .. Length /\ p \in 1 .. q - 2 /\ At(q - 2) = HalfOf(b, 5)
  <2>1. 6 \in 2 .. 8 /\ 6 - 1 = 5 /\ (q - 1) - 1 = q - 2
    OBVIOUS
  <2> QED BY <2>1, <1>14, <1>16
<1>18. q - 3 \in 1 .. Length /\ p \in 1 .. q - 3 /\ At(q - 3) = HalfOf(b, 4)
  <2>1. 5 \in 2 .. 8 /\ 5 - 1 = 4 /\ (q - 2) - 1 = q - 3
    OBVIOUS
  <2> QED BY <2>1, <1>14, <1>17
<1>19. q - 4 \in 1 .. Length /\ p \in 1 .. q - 4 /\ At(q - 4) = HalfOf(b, 3)
  <2>1. 4 \in 2 .. 8 /\ 4 - 1 = 3 /\ (q - 3) - 1 = q - 4
    OBVIOUS
  <2> QED BY <2>1, <1>14, <1>18
<1>20. q - 5 \in 1 .. Length /\ p \in 1 .. q - 5 /\ At(q - 5) = HalfOf(b, 2)
  <2>1. 3 \in 2 .. 8 /\ 3 - 1 = 2 /\ (q - 4) - 1 = q - 5
    OBVIOUS
  <2> QED BY <2>1, <1>14, <1>19
<1>21. q - 6 \in 1 .. Length /\ p \in 1 .. q - 6 /\ At(q - 6) = HalfOf(b, 1)
  <2>1. 2 \in 2 .. 8 /\ 2 - 1 = 1 /\ (q - 5) - 1 = q - 6
    OBVIOUS
  <2> QED BY <2>1, <1>14, <1>20
<1>22. \A k \in 1 .. 8 : (q - 7) + k \in 1 .. n /\ At((q - 7) + k) = HalfOf(b, k)
  <2>1. \A k \in 1 .. 8 : k = 1 \/ k = 2 \/ k = 3 \/ k = 4 \/ k = 5 \/ k = 6 \/ k = 7 \/ k = 8
    OBVIOUS
  <2>2. /\ (q - 7) + 1 = q - 6 /\ (q - 7) + 2 = q - 5 /\ (q - 7) + 3 = q - 4
        /\ (q - 7) + 4 = q - 3 /\ (q - 7) + 5 = q - 2 /\ (q - 7) + 6 = q - 1
        /\ (q - 7) + 7 = q /\ (q - 7) + 8 = q + 1
    OBVIOUS
  <2>3. \A k \in 1 .. 8 : At((q - 7) + k) = HalfOf(b, k)
    BY <2>1, <2>2, <1>12, <1>13, <1>16, <1>17, <1>18, <1>19, <1>20, <1>21
  <2>4. \A k \in 1 .. 8 : (q - 7) + k \in 1 .. n
    BY <1>0, <1>10, <1>21
  <2> QED BY <2>3, <2>4
<1>23. \A k \in 1 .. 8 : \E i \in DOMAIN bc_data :
         /\ bc_data[i].boot = b /\ bc_data[i].marker = Console!MARKERS[(k + 1) \div 2]
         /\ bc_data[i].half = 2 - (k % 2)
  <2> TAKE k \in 1 .. 8
  <2>1. (q - 7) + k \in DOMAIN bc_data /\ bc_data[(q - 7) + k] = HalfOf(b, k)
    BY <1>0, <1>22, ReadIsMade
  <2>2. /\ HalfOf(b, k).boot = b /\ HalfOf(b, k).marker = Console!MARKERS[(k + 1) \div 2]
        /\ HalfOf(b, k).half = 2 - (k % 2)
    BY DEF HalfOf
  <2> QED BY <2>1, <2>2
<1>24. Console!Whole(b)
  BY <1>0, <1>23, Zenon DEF Console!Whole
<1> QED BY <1>24

LEMMA SameStream ==
  ASSUME ConsoleTyped, StreamInv, Length' = Length, \A i \in 1 .. Length : At(i)' = At(i),
         UNCHANGED <<bc_boot, bc_printed>>
  PROVE  StreamInv'
<1> USE DEF StreamInv
<1>0. Length \in Nat
  BY DEF ConsoleTyped, Length
<1>1. StreamMade'
  BY DEF StreamMade
<1>2. StreamFollows'
  <2>1. \A i \in 1 .. Length - 1 : At(i)' = At(i) /\ At(i + 1)' = At(i + 1)
    BY <1>0
  <2> QED BY <2>1 DEF StreamFollows
<1>3. StreamApart'
  BY DEF StreamApart
<1>4. StreamEnds'
  <2>1. Length > 0 => At(Length)' = At(Length)
    BY <1>0
  <2> QED BY <2>1 DEF StreamEnds
<1> QED BY <1>1, <1>2, <1>3, <1>4

LEMMA OneMoreHalf ==
  ASSUME ConsoleTyped, StreamInv,
         NEW n, n = Length, Length' = n + 1, \A i \in 1 .. n : At(i)' = At(i),
         At(n + 1)' = HalfOf(bc_boot, bc_printed + 1), bc_printed < 8,
         bc_printed' = bc_printed + 1, bc_boot' = bc_boot
  PROVE  StreamInv'
<1> USE DEF StreamInv
<1> DEFINE m == bc_printed + 1
<1>0. n \in Nat /\ m \in 1 .. 8 /\ bc_boot \in Nat /\ bc_boot \in 1 .. bc_boot /\ bc_printed \in 0 .. 8
      /\ m > 0
  BY DEF ConsoleTyped, Length
<1>1. \A i \in 1 .. n + 1 : i \in 1 .. n \/ i = n + 1
  BY <1>0
<1>2. ASSUME NEW b \in 1 .. bc_boot, NEW k \in 1 .. 8, n > 0, At(n) = HalfOf(b, k)
      PROVE  (b = bc_boot /\ k + 1 = m) \/ (b < bc_boot /\ m = 1)
  <2>1. CASE bc_printed > 0 /\ At(n) = HalfOf(bc_boot, bc_printed)
    <3>1. bc_printed \in 1 .. 8
      BY <2>1, <1>0
    <3>2. HalfOf(b, k) = HalfOf(bc_boot, bc_printed)
      BY <1>2, <2>1
    <3>3. b = bc_boot /\ k = bc_printed
      BY <1>0, <3>1, <3>2, HalvesDiffer
    <3> QED BY <3>3
  <2>2. CASE bc_printed = 0 /\ \E c \in 1 .. bc_boot, l \in 1 .. 8 :
                                 c < bc_boot /\ At(n) = HalfOf(c, l)
    <3>1. PICK c \in 1 .. bc_boot : \E l \in 1 .. 8 : c < bc_boot /\ At(n) = HalfOf(c, l)
      BY <2>2
    <3>2. PICK l \in 1 .. 8 : c < bc_boot /\ At(n) = HalfOf(c, l)
      BY <3>1
    <3>3. HalfOf(b, k) = HalfOf(c, l)
      BY <1>2, <3>2
    <3>4. b = c
      BY <3>3, HalvesDiffer
    <3> QED BY <2>2, <3>2, <3>4
  <2> QED BY <1>2, <2>1, <2>2 DEF StreamEnds
<1>3. StreamMade'
  <2> SUFFICES ASSUME NEW i \in 1 .. n + 1
               PROVE  \E b \in 1 .. bc_boot, k \in 1 .. 8 : At(i)' = HalfOf(b, k)
    BY DEF StreamMade
  <2>1. CASE i \in 1 .. n
    BY <2>1 DEF StreamMade
  <2>2. CASE i = n + 1
    BY <2>2, <1>0
  <2> QED BY <1>1, <2>1, <2>2
<1>4. StreamFollows'
  <2> SUFFICES ASSUME NEW i \in 1 .. n, NEW b \in 1 .. bc_boot, NEW k \in 1 .. 8,
                      At(i)' = HalfOf(b, k)
               PROVE  \/ k < 8 /\ At(i + 1)' = HalfOf(b, k + 1)
                      \/ \E c \in 1 .. bc_boot : b < c /\ At(i + 1)' = HalfOf(c, 1)
    <3>1. 1 .. (n + 1) - 1 = 1 .. n
      BY <1>0
    <3> QED BY <3>1 DEF StreamFollows
  <2>0. At(i) = HalfOf(b, k)
    OBVIOUS
  <2>1. CASE i \in 1 .. n - 1
    <3>1. At(i + 1)' = At(i + 1)
      BY <2>1, <1>0
    <3> QED BY <2>0, <2>1, <3>1 DEF StreamFollows
  <2>2. CASE i = n
    <3>1. (b = bc_boot /\ k + 1 = m) \/ (b < bc_boot /\ m = 1)
      BY <2>0, <2>2, <1>0, <1>2
    <3>2. At(i + 1)' = HalfOf(bc_boot, m)
      BY <2>2
    <3> QED BY <3>1, <3>2, <1>0
  <2> QED BY <2>1, <2>2, <1>0
<1>5. StreamApart'
  <2> SUFFICES ASSUME NEW i \in 1 .. n + 1, NEW j \in 1 .. n + 1, i < j,
                      NEW b \in 1 .. bc_boot, NEW c \in 1 .. bc_boot,
                      NEW k \in 1 .. 8, NEW l \in 1 .. 8,
                      At(i)' = HalfOf(b, k), At(j)' = HalfOf(c, l)
               PROVE  b < c \/ (b = c /\ l - k = j - i)
    BY DEF StreamApart
  <2>1. i \in 1 .. n /\ At(i) = HalfOf(b, k)
    BY <1>0, <1>1
  <2>2. CASE j \in 1 .. n
    <3>1. At(j) = HalfOf(c, l)
      BY <2>2
    <3> QED BY <2>1, <2>2, <3>1 DEF StreamApart
  <2>3. CASE j = n + 1
    <3>0. HalfOf(c, l) = HalfOf(bc_boot, m)
      BY <2>3
    <3>1. c = bc_boot /\ l = m
      BY <3>0, <1>0, HalvesDiffer
    <3>2. n \in 1 .. n /\ n > 0
      BY <2>1, <1>0
    <3>3. PICK d \in 1 .. bc_boot : \E h \in 1 .. 8 : At(n) = HalfOf(d, h)
      BY <3>2 DEF StreamMade
    <3>4. PICK h \in 1 .. 8 : At(n) = HalfOf(d, h)
      BY <3>3
    <3>5. (d = bc_boot /\ h + 1 = m) \/ (d < bc_boot /\ m = 1)
      BY <1>2, <3>2, <3>4
    <3>6. i < n => b < d \/ (b = d /\ h - k = n - i)
      BY <2>1, <3>2, <3>4 DEF StreamApart
    <3>7. i = n => b = d /\ k = h
      <4> SUFFICES ASSUME i = n PROVE b = d /\ k = h
        OBVIOUS
      <4>1. HalfOf(b, k) = HalfOf(d, h)
        BY <2>1, <3>4
      <4> QED BY <4>1, HalvesDiffer
    <3> HIDE DEF m
    <3> QED BY <2>1, <2>3, <3>1, <3>2, <3>5, <3>6, <3>7, <1>0
  <2> QED BY <1>1, <2>2, <2>3
<1>6. StreamEnds'
  BY <1>0 DEF StreamEnds
<1> QED BY <1>3, <1>4, <1>5, <1>6

LEMMA NextBoot ==
  ASSUME ConsoleTyped, StreamInv, Length' = Length, \A i \in 1 .. Length : At(i)' = At(i),
         bc_printed' = 0, bc_boot' = bc_boot + 1
  PROVE  StreamInv'
<1> USE DEF StreamInv
<1>0. Length \in Nat /\ bc_boot \in Nat
  BY DEF ConsoleTyped, Length
<1>1. \A b \in 1 .. bc_boot : b \in 1 .. bc_boot + 1 /\ b < bc_boot + 1
  BY <1>0
<1>2. \A i \in 1 .. Length : \E b \in 1 .. bc_boot, k \in 1 .. 8 :
        At(i) = HalfOf(b, k) /\ At(i)' = HalfOf(b, k)
  BY DEF StreamMade
<1>3. \A i \in 1 .. Length : \A b \in 1 .. bc_boot + 1, k \in 1 .. 8 :
        At(i)' = HalfOf(b, k) => b \in 1 .. bc_boot /\ At(i) = HalfOf(b, k)
  <2> SUFFICES ASSUME NEW i \in 1 .. Length, NEW b \in 1 .. bc_boot + 1, NEW k \in 1 .. 8,
                      At(i)' = HalfOf(b, k)
               PROVE  b \in 1 .. bc_boot /\ At(i) = HalfOf(b, k)
    OBVIOUS
  <2>1. PICK c \in 1 .. bc_boot : \E l \in 1 .. 8 : At(i) = HalfOf(c, l)
    BY <1>2
  <2>2. PICK l \in 1 .. 8 : At(i) = HalfOf(c, l)
    BY <2>1
  <2>3. HalfOf(b, k) = HalfOf(c, l)
    BY <2>2
  <2>4. b = c
    BY <2>3, HalvesDiffer
  <2> QED BY <2>4
<1>4. StreamMade'
  BY <1>1, <1>2 DEF StreamMade
<1>5. StreamFollows'
  <2> SUFFICES ASSUME NEW i \in 1 .. Length - 1, NEW b \in 1 .. bc_boot + 1, NEW k \in 1 .. 8,
                      At(i)' = HalfOf(b, k)
               PROVE  \/ k < 8 /\ At(i + 1)' = HalfOf(b, k + 1)
                      \/ \E c \in 1 .. bc_boot + 1 : b < c /\ At(i + 1)' = HalfOf(c, 1)
    BY DEF StreamFollows
  <2>1. i \in 1 .. Length /\ i + 1 \in 1 .. Length
    BY <1>0
  <2>2. b \in 1 .. bc_boot /\ At(i) = HalfOf(b, k) /\ At(i + 1)' = At(i + 1)
    BY <2>1, <1>3
  <2> QED BY <2>2, <1>1 DEF StreamFollows
<1>6. StreamApart'
  <2> SUFFICES ASSUME NEW i \in 1 .. Length, NEW j \in 1 .. Length, i < j,
                      NEW b \in 1 .. bc_boot + 1, NEW c \in 1 .. bc_boot + 1,
                      NEW k \in 1 .. 8, NEW l \in 1 .. 8,
                      At(i)' = HalfOf(b, k), At(j)' = HalfOf(c, l)
               PROVE  b < c \/ (b = c /\ l - k = j - i)
    BY DEF StreamApart
  <2>1. /\ b \in 1 .. bc_boot /\ At(i) = HalfOf(b, k)
        /\ c \in 1 .. bc_boot /\ At(j) = HalfOf(c, l)
    BY <1>3
  <2> QED BY <2>1 DEF StreamApart
<1>7. StreamEnds'
  <2> SUFFICES ASSUME Length > 0
               PROVE  \E b \in 1 .. bc_boot + 1, k \in 1 .. 8 :
                        b < bc_boot + 1 /\ At(Length)' = HalfOf(b, k)
    BY DEF StreamEnds
  <2>1. Length \in 1 .. Length
    BY <1>0
  <2>2. \E b \in 1 .. bc_boot, k \in 1 .. 8 : At(Length) = HalfOf(b, k) /\ At(Length)' = At(Length)
    BY <2>1, <1>2
  <2> QED BY <2>2, <1>1
<1> QED BY <1>4, <1>5, <1>6, <1>7

(* Each step of the capture.                                               *)
LEMMA FindGrows ==
  ASSUME NEW s \in Seq(HalfRecord), NEW t \in Seq(HalfRecord), NEW marker,
         Console!find(s, marker, 1) # 0
  PROVE  Console!find(s \o t, marker, 1) # 0
<1> DEFINE u == s \o t
<1>1. Len(s) \in Nat /\ Len(t) \in Nat /\ Len(u) = Len(s) + Len(t) /\ Len(u) \in Nat
      /\ \A i \in 1 .. Len(s) : u[i] = s[i]
  OBVIOUS
<1> HIDE DEF u
<1>2. PICK i \in 1 .. Len(s) - 1 : i \in Occurs(s, marker, 1)
  BY <1>1, Found
<1>3. i \in 1 .. Len(u) - 1 /\ i \in 1 .. Len(s) /\ i + 1 \in 1 .. Len(s)
  BY <1>1
<1>4. u[i] = s[i] /\ u[i + 1] = s[i + 1]
  BY <1>1, <1>3
<1>5. i \in Occurs(u, marker, 1)
  BY <1>2, <1>3, <1>4 DEF Occurs
<1>6. Console!find(u, marker, 1) # 0
  BY <1>1, <1>5, Found
<1> QED BY <1>6 DEF u

LEMMA OpenKeeps == ASSUME ConsoleInv, Console!Open PROVE ConsoleInv'
<1> USE DEF ConsoleInv
<1>1. /\ bc_phase = "open" /\ bc_phase' = "reading" /\ bc_unread' = <<>> /\ bc_data = <<>>
      /\ UNCHANGED <<bc_trace, bc_sent, bc_data, bc_result, bc_boot, bc_printed>>
      /\ ~bc_sent /\ bc_result = "none"
  BY DEF Console!Open, ConsoleJudged
<1>2. Length' = 0
  BY <1>1 DEF Length
<1>3. ConsoleTyped'
  <2>1. <<>> \in Seq(HalfRecord)
    OBVIOUS
  <2> QED BY <1>1, <2>1 DEF ConsoleTyped
<1>4. StreamInv'
  BY <1>2 DEF StreamInv, StreamMade, StreamFollows, StreamApart, StreamEnds
<1>5. Console!find(<<>>, Console!READY, 1) = 0
  <2>1. Len(<<>>) = 0
    OBVIOUS
  <2>2. Occurs(<<>>, Console!READY, 1) = {}
    BY <2>1 DEF Occurs
  <2> QED BY <2>1, <2>2, Found
<1>6. ConsoleJudged'
  BY <1>1, <1>5 DEF ConsoleJudged
<1> QED BY <1>3, <1>4, <1>6

LEMMA ReadKeeps ==
  ASSUME ConsoleInv, NEW n \in DOMAIN bc_unread, Console!Read(n)
  PROVE  ConsoleInv'
<1> USE DEF ConsoleInv
<1> DEFINE read == SubSeq(bc_unread, 1, n)
           seq == bc_data \o read
           left == SubSeq(bc_unread, n + 1, Len(bc_unread))
<1>1. /\ bc_phase = "reading" /\ bc_data' = seq /\ bc_unread' = left
      /\ UNCHANGED <<bc_trace, bc_boot, bc_printed>>
  BY DEF Console!Read
<1>2. bc_unread \in Seq(HalfRecord) /\ bc_data \in Seq(HalfRecord) /\ n \in 1 .. Len(bc_unread)
  BY DEF ConsoleTyped
<1>3. /\ read \in Seq(HalfRecord) /\ left \in Seq(HalfRecord)
      /\ Len(read) = n /\ Len(left) = Len(bc_unread) - n
      /\ \A i \in 1 .. n : read[i] = bc_unread[i]
      /\ \A i \in 1 .. Len(bc_unread) - n : left[i] = bc_unread[i + n]
  <2>1. \A i \in 1 .. n : bc_unread[i] \in HalfRecord
    BY <1>2
  <2>2. \A i \in n + 1 .. Len(bc_unread) : bc_unread[i] \in HalfRecord
    BY <1>2
  <2> QED BY <1>2, <2>1, <2>2
<1> HIDE DEF read, left
<1>4. /\ seq \in Seq(HalfRecord) /\ Len(seq) = Len(bc_data) + n
      /\ \A i \in 1 .. Len(bc_data) : seq[i] = bc_data[i]
      /\ \A i \in 1 .. n : seq[Len(bc_data) + i] = read[i]
  BY <1>2, <1>3
<1>5. Console!find(bc_data, Console!READY, 1) # 0 => Console!find(seq, Console!READY, 1) # 0
  BY <1>2, <1>3, FindGrows
<1> HIDE DEF seq
<1>6. StreamInv'
  <2>0. Len(bc_data) \in Nat /\ Len(bc_unread) \in Nat /\ n \in Nat
    BY <1>2
  <2>1. Length' = Length
    BY <1>1, <1>3, <1>4, <2>0 DEF Length
  <2>2. ASSUME NEW i \in 1 .. Length PROVE At(i)' = At(i)
    <3>0. i \in Nat /\ i >= 1 /\ i <= Len(bc_data) + Len(bc_unread)
      BY <2>0 DEF Length
    <3>1. At(i)' = IF i <= Len(bc_data) + n THEN seq[i] ELSE left[i - (Len(bc_data) + n)]
      BY <1>1, <1>4 DEF At
    <3>2. CASE i <= Len(bc_data)
      BY <2>0, <3>0, <3>1, <3>2, <1>4 DEF At
    <3>3. CASE i > Len(bc_data) /\ i <= Len(bc_data) + n
      <4>1. PICK j \in 1 .. n : i = Len(bc_data) + j
        <5>1. i - Len(bc_data) \in 1 .. n /\ i = Len(bc_data) + (i - Len(bc_data))
          BY <2>0, <3>0, <3>3
        <5> QED BY <5>1
      <4>2. seq[i] = bc_unread[j]
        BY <4>1, <1>3, <1>4
      <4>3. i - Len(bc_data) = j
        BY <4>1, <2>0
      <4> QED BY <4>2, <4>3, <3>1, <3>3, <2>0, <3>0 DEF At
    <3>4. CASE i > Len(bc_data) + n
      <4>1. i - (Len(bc_data) + n) \in 1 .. Len(bc_unread) - n
            /\ (i - (Len(bc_data) + n)) + n = i - Len(bc_data)
        BY <2>0, <3>0, <3>4
      <4>2. left[i - (Len(bc_data) + n)] = bc_unread[i - Len(bc_data)]
        BY <4>1, <1>3
      <4> QED BY <4>2, <3>1, <3>4, <2>0, <3>0 DEF At
    <3> QED BY <3>2, <3>3, <3>4, <2>0, <3>0
  <2> QED BY <1>1, <2>1, <2>2, SameStream
<1>7. bc_result = "none" /\ (~bc_trace => (bc_sent <=> Console!find(bc_data, Console!READY, 1) # 0))
  BY <1>1 DEF ConsoleJudged
<1>8. CASE Console!Challenged(seq)
  <2>1. ~bc_trace /\ Console!find(seq, Console!READY, 1) # 0
    BY <1>8 DEF Console!Challenged
  <2>2. CASE bc_sent' = TRUE /\ IF Console!verify(seq) THEN Console!Exits("pass") ELSE Console!GoesOn
    <3>1. bc_sent' \in BOOLEAN /\ bc_phase' \in {"reading", "exited"}
          /\ \/ bc_phase' = "exited" /\ bc_result' = "pass" /\ Console!verify(seq)
             \/ bc_phase' = "reading" /\ bc_result' = "none"
      <4>1. CASE Console!verify(seq)
        <5>1. bc_phase' = "exited" /\ bc_result' = "pass"
          BY <2>2, <4>1, Zenon DEF Console!Exits
        <5>2. bc_sent' \in BOOLEAN
          BY <2>2
        <5> QED BY <4>1, <5>1, <5>2, Zenon
      <4>2. CASE ~Console!verify(seq)
        <5>1. bc_phase' = bc_phase /\ bc_result' = bc_result
          BY <2>2, <4>2, Zenon DEF Console!GoesOn
        <5> QED BY <1>1, <1>7, <2>2, <5>1
      <4> QED BY <4>1, <4>2
    <3>2. ConsoleTyped'
      BY <1>1, <1>3, <1>4, <3>1 DEF ConsoleTyped
    <3>3. ConsoleJudged'
      BY <1>1, <2>1, <2>2, <3>1 DEF ConsoleJudged
    <3> QED BY <1>6, <3>2, <3>3
  <2>3. CASE bc_sent' = bc_sent /\ Console!Exits("io_error")
    <3>1. bc_phase' = "exited" /\ bc_result' = "io_error"
      BY <2>3 DEF Console!Exits
    <3>2. ConsoleTyped'
      BY <1>1, <1>3, <1>4, <2>3, <3>1 DEF ConsoleTyped
    <3>3. ConsoleJudged'
      BY <1>1, <2>1, <3>1 DEF ConsoleJudged
    <3> QED BY <1>6, <3>2, <3>3
  <2> QED BY <1>8, <2>2, <2>3 DEF Console!Read, seq, read
<1>9. CASE ~Console!Challenged(seq)
  <2>1. ~bc_trace /\ ~bc_sent => Console!find(seq, Console!READY, 1) = 0
    BY <1>9 DEF Console!Challenged
  <2>2. bc_sent' = bc_sent
        /\ IF ~bc_trace /\ Console!verify(seq) THEN Console!Exits("pass") ELSE Console!GoesOn
    BY <1>9 DEF Console!Read, seq, read
  <2>3. bc_phase' \in {"reading", "exited"}
        /\ \/ bc_phase' = "exited" /\ bc_result' = "pass" /\ Console!verify(seq) /\ ~bc_trace
           \/ bc_phase' = "reading" /\ bc_result' = "none"
    <3>1. CASE ~bc_trace /\ Console!verify(seq)
      <4>1. bc_phase' = "exited" /\ bc_result' = "pass"
        BY <2>2, <3>1, Zenon DEF Console!Exits
      <4> QED BY <3>1, <4>1, Zenon
    <3>2. CASE ~(~bc_trace /\ Console!verify(seq))
      <4>1. bc_phase' = bc_phase /\ bc_result' = bc_result
        BY <2>2, <3>2, Zenon DEF Console!GoesOn
      <4> QED BY <1>1, <1>7, <4>1
    <3> QED BY <3>1, <3>2
  <2>4. ConsoleTyped'
    BY <1>1, <1>3, <1>4, <2>2, <2>3 DEF ConsoleTyped
  <2>5. ~bc_trace => (bc_sent <=> Console!find(seq, Console!READY, 1) # 0)
    BY <1>5, <1>7, <2>1
  <2>6. ConsoleJudged'
    BY <1>1, <2>2, <2>3, <2>5 DEF ConsoleJudged
  <2> QED BY <1>6, <2>4, <2>6
<1> QED BY <1>8, <1>9

LEMMA DeadlineKeeps == ASSUME ConsoleInv, Console!Deadline PROVE ConsoleInv'
<1> USE DEF ConsoleInv
<1>1. /\ bc_phase = "reading" /\ bc_phase' = "exited"
      /\ UNCHANGED <<bc_trace, bc_sent, bc_data, bc_boot, bc_printed, bc_unread>>
  BY DEF Console!Deadline, Console!Exits
<1>2. /\ bc_trace => bc_result' = "captured"
      /\ ~bc_trace => bc_result' \in {"pass", "fail"}
                      /\ (bc_result' = "pass" <=> Console!verify(bc_data))
  <2>1. bc_result' = IF bc_trace THEN "captured"
                     ELSE IF Console!verify(bc_data) THEN "pass" ELSE "fail"
    BY DEF Console!Deadline, Console!Exits
  <2>2. CASE bc_trace
    BY <2>1, <2>2
  <2>3. CASE ~bc_trace /\ Console!verify(bc_data)
    BY <2>1, <2>3
  <2>4. CASE ~bc_trace /\ ~Console!verify(bc_data)
    BY <2>1, <2>4
  <2> QED BY <2>2, <2>3, <2>4
<1>3. ConsoleTyped'
  BY <1>1 DEF ConsoleTyped
<1>4. StreamInv'
  BY <1>1, SameStream DEF Length, At
<1>5. bc_result = "none" /\ (~bc_trace => (bc_sent <=> Console!find(bc_data, Console!READY, 1) # 0))
  BY <1>1 DEF ConsoleJudged
<1>6. ConsoleJudged'
  BY <1>1, <1>2, <1>5 DEF ConsoleJudged
<1> QED BY <1>3, <1>4, <1>6

LEMMA RecheckKeeps == ASSUME ConsoleInv, Console!Recheck PROVE ConsoleInv'
<1> USE DEF ConsoleInv
<1>1. /\ bc_phase' = "rechecked"
      /\ UNCHANGED <<bc_trace, bc_sent, bc_data, bc_boot, bc_printed, bc_unread>>
  BY DEF Console!Recheck
<1>2. bc_result' \in {"pass", "fail"} /\ (bc_result' = "pass" <=> Console!verify(bc_data))
  <2>1. bc_result' = IF Console!verify(bc_data) THEN "pass" ELSE "fail"
    BY DEF Console!Recheck
  <2>2. CASE Console!verify(bc_data)
    BY <2>1, <2>2
  <2>3. CASE ~Console!verify(bc_data)
    BY <2>1, <2>3
  <2> QED BY <2>2, <2>3
<1>3. ConsoleTyped'
  BY <1>1 DEF ConsoleTyped
<1>4. StreamInv'
  BY <1>1, SameStream DEF Length, At
<1>5. ConsoleJudged'
  BY <1>1, <1>2 DEF ConsoleJudged
<1> QED BY <1>3, <1>4, <1>5

LEMMA PayloadKeeps == ASSUME ConsoleInv, Console!Payload PROVE ConsoleInv'
<1> USE DEF ConsoleInv
<1> DEFINE half == HalfOf(bc_boot, bc_printed + 1)
<1>1. /\ UNCHANGED <<bc_trace, bc_phase, bc_sent, bc_data, bc_result, bc_boot>>
      /\ bc_printed < 8 /\ bc_printed' = bc_printed + 1 /\ bc_unread' = Append(bc_unread, half)
  BY Milestones DEF Console!Payload, Console!AllHalves, Console!Half, HalfOf
<1>2. bc_printed + 1 \in 1 .. 8 /\ bc_boot \in Nat /\ bc_printed \in 0 .. 8
      /\ bc_unread \in Seq(HalfRecord) /\ bc_data \in Seq(HalfRecord)
  BY <1>1 DEF ConsoleTyped
<1>3. half \in HalfRecord
  <2>1. (bc_printed + 2) \div 2 \in 1 .. 4 /\ 2 - ((bc_printed + 1) % 2) \in 1 .. 2
        /\ (bc_printed + 1) + 1 = bc_printed + 2
    BY <1>2, HalfIndex
  <2> QED BY <1>2, <2>1 DEF HalfOf, HalfRecord
<1> HIDE DEF half
<1>4. /\ bc_unread' \in Seq(HalfRecord) /\ Len(bc_unread') = Len(bc_unread) + 1
      /\ \A i \in 1 .. Len(bc_unread) : bc_unread'[i] = bc_unread[i]
      /\ bc_unread'[Len(bc_unread) + 1] = half
  BY <1>1, <1>2, <1>3
<1>5. ConsoleTyped'
  BY <1>1, <1>2, <1>4 DEF ConsoleTyped
<1>6. ConsoleJudged'
  BY <1>1 DEF ConsoleJudged
<1>7. StreamInv'
  <2>1. PICK n \in Nat : n = Length
    BY <1>2 DEF Length
  <2>2. n = Len(bc_data) + Len(bc_unread) /\ Len(bc_data) \in Nat /\ Len(bc_unread) \in Nat
    BY <2>1, <1>2 DEF Length
  <2>3. Length' = n + 1
    BY <2>2, <1>1, <1>4 DEF Length
  <2>4. ASSUME NEW i \in 1 .. n PROVE At(i)' = At(i)
    <3>1. CASE i <= Len(bc_data)
      BY <3>1, <1>1 DEF At
    <3>2. CASE i > Len(bc_data)
      <4>1. i - Len(bc_data) \in 1 .. Len(bc_unread)
        BY <2>2, <3>2
      <4> QED BY <4>1, <2>2, <3>2, <1>1, <1>4 DEF At
    <3> QED BY <3>1, <3>2, <2>2
  <2>5. At(n + 1)' = half
    <3>1. ~(n + 1 <= Len(bc_data)) /\ (n + 1) - Len(bc_data) = Len(bc_unread) + 1
      BY <2>2
    <3> QED BY <3>1, <1>1, <1>4 DEF At
  <2> QED BY <2>1, <2>3, <2>4, <2>5, <1>1, OneMoreHalf DEF half
<1> QED BY <1>5, <1>6, <1>7

LEMMA ConsoleStep == ConsoleInv /\ [Console!Next]_(Console!vars) => ConsoleInv'
<1> SUFFICES ASSUME ConsoleInv, [Console!Next]_(Console!vars)
             PROVE  ConsoleInv'
  OBVIOUS
<1>1. CASE Console!Open
  BY <1>1, OpenKeeps
<1>2. CASE \E n \in DOMAIN bc_unread : Console!Read(n)
  BY <1>2, ReadKeeps
<1>3. CASE Console!Deadline
  BY <1>3, DeadlineKeeps
<1>4. CASE Console!Recheck
  BY <1>4, RecheckKeeps
<1>5. CASE Console!Payload
  BY <1>5, PayloadKeeps
<1> USE DEF ConsoleInv
<1>6. CASE Console!Arrives \/ UNCHANGED Console!vars
  <2>1. UNCHANGED <<bc_trace, bc_phase, bc_sent, bc_data, bc_result, bc_boot, bc_printed, bc_unread>>
    BY <1>6 DEF Console!Arrives, Console!vars
  <2>2. ConsoleTyped'
    BY <2>1 DEF ConsoleTyped
  <2>3. StreamInv'
    BY <2>1, SameStream DEF Length, At
  <2>4. ConsoleJudged'
    BY <2>1 DEF ConsoleJudged
  <2> QED BY <2>2, <2>3, <2>4
<1>7. CASE Console!ResetBoard
  <2>1. /\ bc_boot' = bc_boot + 1 /\ bc_printed' = 0
        /\ UNCHANGED <<bc_trace, bc_phase, bc_sent, bc_data, bc_result, bc_unread>>
    BY <1>7 DEF Console!ResetBoard
  <2>2. ConsoleTyped'
    BY <2>1 DEF ConsoleTyped
  <2>3. StreamInv'
    BY <2>1, NextBoot DEF Length, At
  <2>4. ConsoleJudged'
    BY <2>1 DEF ConsoleJudged
  <2> QED BY <2>2, <2>3, <2>4
<1>8. CASE Console!Stopped
  BY <1>6, <1>8 DEF Console!Stopped
<1> QED BY <1>1, <1>2, <1>3, <1>4, <1>5, <1>6, <1>7, <1>8 DEF Console!Next

(* capture_checkpoint10.py: however the reads cut the stream and however   *)
(* often the board is reset, a capture passes exactly when one boot printed*)
(* all its milestones into it, and the challenge was sent exactly when some*)
(* READY had come in full.                                                 *)
THEOREM CaptureIsExact == MCSpec => []CaptureExact
<1>1. MCInit => ConsoleInv
  <2> SUFFICES ASSUME Console!Init PROVE ConsoleInv
    BY DEF MCInit
  <2> USE DEF Console!Init
  <2>1. ConsoleTyped
    <3>1. <<>> \in Seq(HalfRecord)
      OBVIOUS
    <3>2. /\ bc_data \in Seq(HalfRecord) /\ bc_unread \in Seq(HalfRecord)
          /\ bc_trace \in BOOLEAN /\ bc_sent \in BOOLEAN
      BY <3>1, Zenon
    <3>3. bc_boot \in Nat /\ bc_boot >= 1 /\ bc_printed \in 0 .. 8
      OBVIOUS
    <3>4. bc_phase \in {"open", "reading", "exited", "rechecked"}
      OBVIOUS
    <3> QED BY <3>2, <3>3, <3>4 DEF ConsoleTyped
  <2>2. Length = 0
    BY DEF Length
  <2>3. StreamInv
    BY <2>2 DEF StreamInv, StreamMade, StreamFollows, StreamApart, StreamEnds
  <2>4. ConsoleJudged
    BY DEF ConsoleJudged
  <2> QED BY <2>1, <2>3, <2>4 DEF ConsoleInv
<1>2. ConsoleInv /\ [MCNext]_all => ConsoleInv'
  BY OneTool, ConsoleStep
<1>3. ConsoleInv => CaptureExact
  <2> SUFFICES ASSUME ConsoleInv PROVE CaptureExact
    OBVIOUS
  <2> USE DEF ConsoleInv
  <2>1. Console!verify(bc_data) <=> \E b \in 1 .. bc_boot : Console!Whole(b)
    BY PassesIfWhole, WholeIfPasses
  <2>2. Console!find(bc_data, Console!READY, 1) # 0 <=>
          \E i \in 1 .. Len(bc_data) - 1 :
            bc_data[i].marker = Console!READY /\ bc_data[i].half = 1 /\ bc_data[i + 1].half = 2
            /\ bc_data[i + 1].marker = Console!READY
    <3>1. Len(bc_data) \in Nat
      BY DEF ConsoleTyped
    <3>2. Console!find(bc_data, Console!READY, 1) = 0 <=> Occurs(bc_data, Console!READY, 1) = {}
      BY <3>1, Found
    <3> QED BY <3>2 DEF Occurs
  <2>3. bc_phase = "exited" /\ bc_result \in {"pass", "fail"} =>
          (bc_sent <=> Console!find(bc_data, Console!READY, 1) # 0)
    BY DEF ConsoleJudged
  <2>4. (bc_phase = "rechecked" \/ bc_result \in {"pass", "fail"}) =>
          (bc_result = "pass" <=> Console!verify(bc_data))
    BY DEF ConsoleJudged
  <2> QED BY <2>1, <2>2, <2>3, <2>4 DEF CaptureExact, Console!CaptureExact
<1> QED BY <1>1, <1>2, <1>3, PTL DEF MCSpec

-----------------------------------------------------------------------------
(* The dump of the trace ring.  What retired is in the ring, counted       *)
(* backwards from the write pointer; a freeze makes that a dump; what the  *)
(* host captures is the beginning of the dumps, one after the other; and   *)
(* decode, whose search is a recursion from the end of the capture, takes  *)
(* such a beginning apart or refuses it.                                   *)

(* Induction over an interval, upwards.                                    *)
LEMMA Upwards ==
  ASSUME NEW l \in Nat, NEW h \in Nat, NEW D, l \in D,
         \A i \in l .. h - 1 : i \in D => i + 1 \in D
  PROVE  \A i \in l .. h : i \in D
<1> DEFINE Bad == {i \in Nat : i \in l .. h /\ i \notin D}
<1> SUFFICES ASSUME Bad # {} PROVE FALSE
  OBVIOUS
<1>1. PICK k \in Bad : \A j \in Bad : k <= j
  BY LeastNat
<1>2. k \in Nat /\ k \in l .. h /\ k \notin D /\ k # l
  BY <1>1
<1>3. k - 1 \in Nat /\ k - 1 \in l .. h - 1 /\ k - 1 \in l .. h /\ (k - 1) + 1 = k
  BY <1>2
<1>4. k - 1 \notin Bad
  <2> HIDE DEF Bad
  <2> QED BY <1>1, <1>3
<1>5. k - 1 \in D
  BY <1>3, <1>4
<1> QED BY <1>2, <1>3, <1>5

(* The same, downwards.                                                    *)
LEMMA Downwards ==
  ASSUME NEW h \in Nat, NEW D, h \in D,
         \A i \in 0 .. h - 1 : i + 1 \in D => i \in D
  PROVE  \A i \in 0 .. h : i \in D
<1> DEFINE E == {i \in 0 .. h : h - i \in D}
<1>1. 0 \in E
  BY h - 0 = h
<1>2. ASSUME NEW i \in 0 .. h - 1, i \in E PROVE i + 1 \in E
  <2>1. (h - (i + 1)) + 1 = h - i /\ h - (i + 1) \in 0 .. h - 1 /\ i + 1 \in 0 .. h
    BY <1>2
  <2>2. h - i \in D
    BY <1>2
  <2>3. h - (i + 1) \in D
    BY <2>1, <2>2
  <2> QED BY <2>1, <2>3
<1> HIDE DEF E
<1>3. \A i \in 0 .. h : i \in E
  BY <1>1, <1>2, Upwards
<1>4. ASSUME NEW i \in 0 .. h PROVE i \in D
  <2>1. h - i \in 0 .. h /\ h - (h - i) = i
    OBVIOUS
  <2>2. h - i \in E
    BY <1>3, <2>1
  <2> QED BY <2>1, <2>2 DEF E
<1> QED BY <1>4

(* Each step of a recursion on an interval stays in a set.                 *)
Closed(F, L, S) == \A n \in 1 .. L : \A s \in S : F[n][s] \in S

Iterates(f, F, L, S, a) == /\ f \in [0 .. L -> S] /\ f[0] = a
                           /\ \A n \in 1 .. L : f[n] = F[n][f[n - 1]]

(* A function defined by such a recursion exists.                          *)
LEMMA Recursion ==
  ASSUME NEW L \in Nat, NEW S, NEW a \in S, NEW F, Closed(F, L, S)
  PROVE  \E f : Iterates(f, F, L, S, a)
<1> USE DEF Closed, Iterates
<1> DEFINE Is(f, m) == f[0] = a /\ \A n \in 1 .. m : f[n] = F[n][f[n - 1]]
           D == {m \in 0 .. L : \E f \in [0 .. m -> S] : Is(f, m)}
<1>1. 0 \in D
  <2> DEFINE f == [n \in 0 .. 0 |-> a]
  <2>1. f \in [0 .. 0 -> S] /\ Is(f, 0)
    OBVIOUS
  <2> HIDE DEF f
  <2> QED BY <2>1
<1>2. ASSUME NEW m \in 0 .. L - 1, m \in D PROVE m + 1 \in D
  <2>1. PICK f \in [0 .. m -> S] : Is(f, m)
    BY <1>2
  <2> DEFINE g == [n \in 0 .. m + 1 |-> IF n = m + 1 THEN F[m + 1][f[m]] ELSE f[n]]
  <2>2. m \in Nat /\ m + 1 \in 1 .. L /\ m \in 0 .. m /\ m + 1 \in 0 .. m + 1
    OBVIOUS
  <2>3. F[m + 1][f[m]] \in S
    BY <2>2
  <2>4. g \in [0 .. m + 1 -> S]
    <3>1. \A n \in 0 .. m + 1 : n # m + 1 => n \in 0 .. m
      OBVIOUS
    <3> QED BY <2>3, <3>1
  <2>5. /\ \A n \in 0 .. m : g[n] = f[n]
        /\ g[m + 1] = F[m + 1][f[m]]
    <3>1. \A n \in 0 .. m : n \in 0 .. m + 1 /\ n # m + 1
      OBVIOUS
    <3> QED BY <3>1, <2>2
  <2> HIDE DEF g
  <2>6. g[0] = a
    BY <2>1, <2>5
  <2>7. ASSUME NEW n \in 1 .. m + 1 PROVE g[n] = F[n][g[n - 1]]
    <3>1. CASE n = m + 1
      <4>1. g[n - 1] = f[m]
        BY <3>1, <2>5
      <4> QED BY <3>1, <4>1, <2>5
    <3>2. CASE n # m + 1
      <4>1. n \in 1 .. m /\ n \in 0 .. m /\ n - 1 \in 0 .. m
        BY <3>2
      <4> QED BY <4>1, <2>1, <2>5
    <3> QED BY <3>1, <3>2
  <2>8. Is(g, m + 1)
    BY <2>6, <2>7
  <2>9. m + 1 \in 0 .. L
    OBVIOUS
  <2> HIDE DEF Is
  <2> QED BY <2>4, <2>8, <2>9
<1> HIDE DEF D
<1>3. \A m \in 0 .. L : m \in D
  BY <1>1, <1>2, Upwards
<1>4. L \in D
  BY <1>3
<1> QED BY <1>4 DEF D

(* Bytes, the states of the dump machine and types.                        *)
Kinds == {"silence", "magic", "count", "record"}
Tokens == [kind : Kinds, index : Nat, value : Nat]
Walking == {"FETCH", "FETCH_WAIT", "RECORD"}
Resting == {"IDLE", "QUIESCE_ONE", "QUIESCE_TWO"}
Addresses == 0 .. Ring - 1

CoreTypes ==
  /\ tr_entries \in [Addresses -> Int]
  /\ tr_write_q \in [en : BOOLEAN, addr : Addresses, data : Int]
  /\ tr_read_q \in [en : BOOLEAN, addr : Addresses]
  /\ tr_count \in 0 .. Ring /\ tr_write_ptr \in Addresses
  /\ tr_retire \in Nat \cup {-1} /\ tr_next \in Nat
  /\ tr_last \in Seq(Nat) /\ Len(tr_last) <= Ring
MachineTypes ==
  /\ tr_state \in Resting \cup {"HEADER"} \cup Walking
  /\ tr_read_ptr \in Addresses
  /\ tr_snapshot_count \in Nat /\ tr_sent_records \in Nat /\ tr_byte_index \in Nat
  /\ tr_dumps \in Seq(Seq(Nat)) /\ \A k \in DOMAIN tr_dumps : Len(tr_dumps[k]) <= Ring
LineTypes ==
  /\ tr_sending \in Tokens /\ tr_capture \in Seq(Tokens) /\ tr_cut \in 0 .. Len(tr_capture)
TraceTypes == CoreTypes /\ MachineTypes /\ LineTypes

(* The retirement that the ring has not yet seen; what an address holds once*)
(* the write under way drains.                                             *)
Pending == IF tr_retire # -1 THEN 1 ELSE 0
Kept(write, entries, a) == IF write.en /\ write.addr = a THEN write.data ELSE entries[a]
(* Counted backwards from the write pointer, the ring holds the last       *)
(* retirements, but the one that is still on its way.                      *)
RingHolds ==
  /\ tr_retire # -1 => Len(tr_last) >= 1 /\ tr_last[Len(tr_last)] = tr_retire
  /\ tr_retire = -1 => Len(tr_last) = tr_count
  /\ tr_retire # -1 => Len(tr_last) = IF tr_count = Ring THEN Ring ELSE tr_count + 1
  /\ \A i \in 1 .. Len(tr_last) - Pending :
       Kept(tr_write_q, tr_entries, (tr_write_ptr - i) % Ring)
         = tr_last[Len(tr_last) + 1 - Pending - i]

(* From the snapshot on the ring stands still, holds the dump that was begun*)
(* and no write is under way; the read pointer and the word read are those of*)
(* the next record.                                                        *)
FreezeHolds ==
  /\ tr_state \notin {"IDLE", "QUIESCE_ONE"} => tr_retire = -1
  /\ tr_state \in {"HEADER"} \cup Walking =>
       /\ Len(tr_dumps) >= 1 /\ tr_dumps[Len(tr_dumps)] = tr_last
       /\ tr_snapshot_count = Len(tr_last)
       /\ ~tr_write_q.en
       /\ tr_read_ptr = (tr_write_ptr - Len(tr_last) + tr_sent_records) % Ring
  /\ tr_state = "HEADER" => tr_sent_records = 0 /\ tr_byte_index \in 0 .. 5
  /\ tr_state \in Walking => tr_sent_records < Len(tr_last)
  /\ tr_state = "FETCH_WAIT" =>
       tr_read_q.en /\ tr_read_q.addr = tr_read_ptr /\ tr_byte_index = 0
  /\ tr_state = "RECORD" =>
       ~tr_read_q.en /\ tr_read_word = tr_last[tr_sent_records + 1] /\ tr_byte_index \in 0 .. 16

(* The stream of dumps, and how much of it the machine has handed over.    *)
Dumped == Trace!Whole(tr_dumps)
Before == Len(Dumped[Len(tr_dumps) - 1])
Position ==
  IF tr_state \in Resting THEN Len(Dumped[Len(tr_dumps)])
  ELSE IF tr_state = "HEADER" THEN Before + tr_byte_index
  ELSE IF tr_state = "RECORD" THEN Before + 6 + 17 * tr_sent_records + tr_byte_index
  ELSE Before + 6 + 17 * tr_sent_records
Arrived == Len(tr_capture) - tr_cut
(* What arrived is the beginning of the stream, up to the byte in the      *)
(* transmitter.                                                            *)
StreamHolds ==
  /\ \A i \in 1 .. Arrived : tr_capture[tr_cut + i] = Dumped[Len(tr_dumps)][i]
  /\ tr_sending = Trace!Silence => Position = Arrived
  /\ tr_sending # Trace!Silence =>
       Position = Arrived + 1 /\ tr_sending = Dumped[Len(tr_dumps)][Arrived + 1]

TraceInv == TraceTypes /\ RingHolds /\ FreezeHolds /\ StreamHolds

(* The bytes that are sent are bytes, and none of them is silence.         *)
LEMMA TokensAre ==
  /\ Trace!Silence \in Tokens
  /\ Trace!Magic \in Seq(Tokens) /\ Len(Trace!Magic) = 4
  /\ \A j \in 1 .. 4 : Trace!Magic[j] # Trace!Silence
  /\ \A n \in Nat, v \in Nat :
       /\ Trace!Token("count", n, v) \in Tokens /\ Trace!Token("count", n, v) # Trace!Silence
       /\ Trace!Token("count", n, v).kind = "count" /\ Trace!Token("count", n, v).value = v
       /\ Trace!Token("record", n, v) \in Tokens /\ Trace!Token("record", n, v) # Trace!Silence
<1>1. \A k \in Kinds, n \in Nat, v \in Nat :
        Trace!Token(k, n, v) \in Tokens /\ Trace!Token(k, n, v).kind = k
                                        /\ Trace!Token(k, n, v).value = v
  BY DEF Tokens, Trace!Token
<1>2. /\ "magic" # "silence" /\ "count" # "silence" /\ "record" # "silence"
      /\ "magic" \in Kinds /\ "silence" \in Kinds /\ "count" \in Kinds /\ "record" \in Kinds
      /\ 0 \in Nat /\ 1 .. 4 \subseteq Nat
  BY DEF Kinds
<1>3. Trace!Silence \in Tokens /\ Trace!Silence.kind = "silence"
  BY <1>1, <1>2 DEF Trace!Silence
<1>4. \A j \in 1 .. 4 : /\ Trace!Magic[j] = Trace!Token("magic", j, 0)
                        /\ Trace!Magic[j] \in Tokens /\ Trace!Magic[j] # Trace!Silence
  <2> TAKE j \in 1 .. 4
  <2>1. Trace!Magic[j] = Trace!Token("magic", j, 0)
    BY DEF Trace!Magic
  <2>2. Trace!Token("magic", j, 0) \in Tokens /\ Trace!Token("magic", j, 0).kind = "magic"
    BY <1>1, <1>2
  <2> QED BY <2>1, <2>2, <1>2, <1>3
<1>5. Trace!Magic \in Seq(Tokens) /\ Len(Trace!Magic) = 4
  <2> DEFINE x == Trace!Magic
  <2>1. x \in [1 .. 4 -> Tokens]
    <3>1. x = [j \in 1 .. 4 |-> x[j]]
      BY DEF Trace!Magic
    <3> QED BY <3>1, <1>4
  <2> HIDE DEF x
  <2>2. DOMAIN x = 1 .. 4 /\ 4 \in Nat
    BY <2>1
  <2>3. x \in Seq(Tokens)
    <3>1. x \in UNION {[1 .. m -> Tokens] : m \in Nat}
      BY <2>1, <2>2, Zenon
    <3> QED BY <3>1, SeqDef, Zenon
  <2>4. Len(x) = 4
    BY <2>2, <2>3
  <2> QED BY <2>3, <2>4 DEF x
<1>6. \A n \in Nat, v \in Nat :
        /\ Trace!Token("count", n, v) # Trace!Silence
        /\ Trace!Token("record", n, v) # Trace!Silence
  <2> TAKE n \in Nat, v \in Nat
  <2>1. /\ Trace!Token("count", n, v).kind = "count"
        /\ Trace!Token("record", n, v).kind = "record"
    BY <1>1, <1>2
  <2> QED BY <2>1, <1>2, <1>3
<1> QED BY <1>1, <1>2, <1>3, <1>4, <1>5, <1>6

(* A header: the four letters, and the count in two bytes.                 *)
LEMMA HeaderIs ==
  ASSUME NEW n \in Nat
  PROVE  /\ Trace!HeaderOf(n) \in Seq(Tokens) /\ Len(Trace!HeaderOf(n)) = 6
         /\ \A j \in 1 .. 4 : Trace!HeaderOf(n)[j] = Trace!Magic[j]
         /\ \A j \in 1 .. 6 : /\ Trace!HeaderOf(n)[j] \in Tokens
                              /\ Trace!HeaderOf(n)[j] # Trace!Silence
         /\ Trace!HeaderOf(n)[5].kind = "count" /\ Trace!HeaderOf(n)[6].kind = "count"
         /\ Trace!HeaderOf(n)[5].value + 256 * Trace!HeaderOf(n)[6].value = n
<1> DEFINE p == n % 256
           q == n \div 256
           x == Trace!Magic
           y == Trace!Token("count", 1, p)
           z == Trace!Token("count", 2, q)
           b == <<y, z>>
           h == x \o b
<1>1. p \in Nat /\ q \in Nat /\ p + 256 * q = n
  <2>1. p \in Nat
    OBVIOUS
  <2>2. q \in Nat
    OBVIOUS
  <2>3. p + 256 * q = n
    OBVIOUS
  <2> QED BY <2>1, <2>2, <2>3
<1>4. Trace!HeaderOf(n) = h
  BY DEF Trace!HeaderOf
<1> HIDE DEF p, q
<1>2. /\ y \in Tokens /\ y # Trace!Silence /\ y.kind = "count" /\ y.value = p
      /\ z \in Tokens /\ z # Trace!Silence /\ z.kind = "count" /\ z.value = q
  <2>1. \A m \in Nat, v \in Nat :
          /\ Trace!Token("count", m, v) \in Tokens /\ Trace!Token("count", m, v) # Trace!Silence
          /\ Trace!Token("count", m, v).kind = "count" /\ Trace!Token("count", m, v).value = v
    BY TokensAre
  <2>2. y \in Tokens /\ y # Trace!Silence /\ y.kind = "count" /\ y.value = p
    BY <1>1, <2>1
  <2>3. z \in Tokens /\ z # Trace!Silence /\ z.kind = "count" /\ z.value = q
    BY <1>1, <2>1
  <2> QED BY <2>2, <2>3
<1>3. x \in Seq(Tokens) /\ Len(x) = 4 /\ \A j \in 1 .. 4 : x[j] # Trace!Silence
  BY TokensAre
<1> HIDE DEF x, y, z
<1>5. b \in Seq(Tokens) /\ Len(b) = 2 /\ b[1] = y /\ b[2] = z
  BY <1>2
<1> HIDE DEF b
<1>6. /\ x \o b \in Seq(Tokens) /\ Len(x \o b) = Len(x) + Len(b)
      /\ \A i \in 1 .. Len(x) + Len(b) : (x \o b)[i] = IF i <= Len(x) THEN x[i] ELSE b[i - Len(x)]
  BY <1>3, <1>5, ConcatProperties
<1>7. /\ h \in Seq(Tokens) /\ Len(h) = 6
      /\ \A i \in 1 .. 6 : h[i] = IF i <= 4 THEN x[i] ELSE b[i - 4]
  BY <1>3, <1>5, <1>6
<1> HIDE DEF h
<1>8. (\A j \in 1 .. 4 : h[j] = x[j]) /\ h[5] = y /\ h[6] = z
  BY <1>5, <1>7
<1>9. \A j \in 1 .. 6 : h[j] \in Tokens /\ h[j] # Trace!Silence
  <2> TAKE j \in 1 .. 6
  <2>1. j \in 1 .. 4 \/ j = 5 \/ j = 6
    OBVIOUS
  <2>2. CASE j \in 1 .. 4
    <3>1. j \in 1 .. Len(x)
      BY <2>2, <1>3
    <3>2. x[j] \in Tokens
      BY <3>1, <1>3, ElementOfSeq
    <3> QED BY <2>2, <3>2, <1>3, <1>8
  <2>3. CASE j = 5
    BY <2>3, <1>2, <1>8
  <2>4. CASE j = 6
    BY <2>4, <1>2, <1>8
  <2> QED BY <2>1, <2>2, <2>3, <2>4
<1>10. h[5].value + 256 * h[6].value = n
  BY <1>1, <1>2, <1>8
<1> QED BY <1>2, <1>4, <1>7, <1>8, <1>9, <1>10 DEF x

(* A dump, byte by byte: the header, then the bytes of each record.        *)
LEMMA DumpIs ==
  ASSUME NEW r \in Seq(Nat)
  PROVE  /\ Trace!Dump(r) \in Seq(Tokens)
         /\ Len(Trace!Dump(r)) = 6 + 17 * Len(r)
         /\ \A j \in 1 .. 6 : Trace!Dump(r)[j] = Trace!HeaderOf(Len(r))[j]
         /\ \A i \in 1 .. Len(r), j \in 1 .. 17 :
              Trace!Dump(r)[6 + 17 * (i - 1) + j] = Trace!Token("record", j, r[i])
<1> DEFINE h == Trace!HeaderOf(Len(r))
           n == 17 * Len(r)
           e(i) == Trace!Token("record", ((i - 1) % 17) + 1, r[((i - 1) \div 17) + 1])
           b == [i \in 1 .. n |-> e(i)]
<1>1. Len(r) \in Nat /\ n \in Nat
  OBVIOUS
<1>2. h \in Seq(Tokens) /\ Len(h) = 6
  BY <1>1, HeaderIs
<1>3. \A i \in 1 .. n : /\ ((i - 1) % 17) + 1 \in Nat
                        /\ ((i - 1) \div 17) + 1 \in 1 .. Len(r)
  BY <1>1
<1>4. \A i \in 1 .. n : e(i) \in Tokens
  <2> TAKE i \in 1 .. n
  <2> DEFINE p == ((i - 1) % 17) + 1
             q == ((i - 1) \div 17) + 1
  <2>1. p \in Nat /\ q \in 1 .. Len(r)
    BY <1>3
  <2> HIDE DEF p, q
  <2>2. r[q] \in Nat
    BY <2>1
  <2>3. Trace!Token("record", p, r[q]) \in Tokens
    BY <2>1, <2>2, TokensAre
  <2> QED BY <2>3 DEF p, q
<1>5. b \in Seq(Tokens) /\ Len(b) = n
  <2> HIDE DEF e
  <2>1. b \in [1 .. n -> Tokens]
    BY <1>4
  <2> QED BY <2>1, <1>1
<1>6. \A i \in 1 .. Len(r), j \in 1 .. 17 :
        /\ 17 * (i - 1) + j \in 1 .. n
        /\ b[17 * (i - 1) + j] = Trace!Token("record", j, r[i])
  <2> TAKE i \in 1 .. Len(r), j \in 1 .. 17
  <2> DEFINE m == 17 * (i - 1) + j
  <2>1. m \in 1 .. n
    BY <1>1
  <2>2. ((m - 1) % 17) + 1 = j /\ ((m - 1) \div 17) + 1 = i
    OBVIOUS
  <2> HIDE DEF m, n
  <2>3. b[m] = e(m)
    BY <2>1
  <2>4. e(m) = Trace!Token("record", j, r[i])
    BY <2>2
  <2> QED BY <2>1, <2>3, <2>4 DEF m
<1>7. Trace!Dump(r) = h \o b
  BY DEF Trace!Dump, Trace!RecordBytes
<1> HIDE DEF h, b, n
<1>8. /\ h \o b \in Seq(Tokens) /\ Len(h \o b) = Len(h) + Len(b)
      /\ \A i \in 1 .. Len(h) + Len(b) :
           (h \o b)[i] = IF i <= Len(h) THEN h[i] ELSE b[i - Len(h)]
  BY <1>2, <1>5, ConcatProperties
<1>9. /\ Len(h \o b) = 6 + n
      /\ \A i \in 1 .. 6 + n : (h \o b)[i] = IF i <= 6 THEN h[i] ELSE b[i - 6]
  BY <1>2, <1>5, <1>8
<1>10. \A j \in 1 .. 6 : (h \o b)[j] = h[j]
  BY <1>1, <1>9
<1>11. ASSUME NEW i \in 1 .. Len(r), NEW j \in 1 .. 17
       PROVE  (h \o b)[6 + 17 * (i - 1) + j] = Trace!Token("record", j, r[i])
  <2> DEFINE m == 17 * (i - 1) + j
  <2>1. m \in 1 .. n /\ b[m] = Trace!Token("record", j, r[i])
    BY <1>6
  <2>2. 6 + 17 * (i - 1) + j = 6 + m
    OBVIOUS
  <2> HIDE DEF m
  <2>3. 6 + m \in 1 .. 6 + n /\ ~(6 + m <= 6) /\ (6 + m) - 6 = m
    BY <2>1, <1>1
  <2>4. (h \o b)[6 + m] = b[m]
    BY <2>3, <1>9
  <2> QED BY <2>1, <2>2, <2>4
<1> QED BY <1>7, <1>8, <1>9, <1>10, <1>11 DEF h, n

(* The recursion behind the stream of dumps has its meaning.               *)
LEMMA WholeIs ==
  ASSUME NEW d \in Seq(Seq(Nat))
  PROVE  /\ Trace!Whole(d)[0] = <<>>
         /\ \A k \in 0 .. Len(d) : Trace!Whole(d)[k] \in Seq(Tokens)
         /\ \A k \in 1 .. Len(d) : Trace!Whole(d)[k] = Trace!Whole(d)[k - 1] \o Trace!Dump(d[k])
<1> DEFINE S == Seq(Tokens)
           L == Len(d)
           F == [n \in 1 .. L |-> [s \in S |-> s \o Trace!Dump(d[n])]]
           R(h) == h = [k \in 0 .. L |-> IF k = 0 THEN <<>> ELSE h[k - 1] \o Trace!Dump(d[k])]
           w == Trace!Whole(d)
           a == <<>>
<1>0. \A n \in 1 .. L : Trace!Dump(d[n]) \in S
  <2> TAKE n \in 1 .. L
  <2>1. d[n] \in Seq(Nat)
    OBVIOUS
  <2> QED BY <2>1, DumpIs
<1>1. L \in Nat /\ a \in S /\ Closed(F, L, S)
  <2>1. \A n \in 1 .. L, s \in S : s \o Trace!Dump(d[n]) \in S
    BY <1>0, ConcatProperties
  <2>2. L \in Nat /\ a \in S
    OBVIOUS
  <2> HIDE DEF S
  <2>3. \A n \in 1 .. L : \A s \in S : F[n][s] = s \o Trace!Dump(d[n])
    OBVIOUS
  <2> HIDE DEF F
  <2> QED BY <2>1, <2>2, <2>3 DEF Closed
<1>2. PICK f : Iterates(f, F, L, S, a)
  <2> HIDE DEF S, L, F, a
  <2> QED BY <1>1, Recursion
<1>3. /\ f \in [0 .. L -> S] /\ f[0] = a
      /\ \A n \in 1 .. L : f[n] = f[n - 1] \o Trace!Dump(d[n])
  <2> HIDE DEF S
  <2>1. f \in [0 .. L -> S] /\ f[0] = a /\ \A n \in 1 .. L : f[n] = F[n][f[n - 1]]
    BY <1>2 DEF Iterates
  <2>2. \A n \in 1 .. L : f[n - 1] \in S
    <3> TAKE n \in 1 .. L
    <3> HIDE DEF L
    <3>1. n - 1 \in 0 .. L
      BY <1>1
    <3> QED BY <2>1, <3>1
  <2> HIDE DEF a
  <2> QED BY <2>1, <2>2
<1>4. R(f)
  <2> DEFINE g == [k \in 0 .. L |-> IF k = 0 THEN <<>> ELSE f[k - 1] \o Trace!Dump(d[k])]
  <2>1. \A k \in 0 .. L : f[k] = g[k]
    <3> TAKE k \in 0 .. L
    <3> HIDE DEF S, L
    <3>1. k = 0 \/ (k # 0 /\ k \in 1 .. L)
      BY <1>1
    <3> QED BY <3>1, <1>3
  <2>2. f = [k \in 0 .. L |-> f[k]]
    BY <1>3
  <2> QED BY <2>1, <2>2
<1>5. R(w)
  <2>1. \E h : R(h)
    BY <1>4
  <2> QED BY <2>1, Zenon DEF Trace!Whole
<1>6. w[0] = <<>> /\ \A k \in 1 .. L : w[k] = w[k - 1] \o Trace!Dump(d[k])
  <2> HIDE DEF w, L
  <2>1. \A k \in 0 .. L : w[k] = IF k = 0 THEN <<>> ELSE w[k - 1] \o Trace!Dump(d[k])
    BY <1>5
  <2>2. 0 \in 0 .. L /\ \A k \in 1 .. L : k \in 0 .. L /\ k # 0
    BY <1>1
  <2> QED BY <2>1, <2>2
<1> DEFINE D == {k \in 0 .. L : w[k] \in S}
<1>7. 0 \in D
  <2> HIDE DEF w, L, S
  <2> QED BY <1>6, <1>1
<1>8. ASSUME NEW k \in 0 .. L - 1, k \in D PROVE k + 1 \in D
  <2>1. k + 1 \in 1 .. L /\ k + 1 \in 0 .. L /\ (k + 1) - 1 = k
    BY <1>1
  <2>2. w[k + 1] = w[k] \o Trace!Dump(d[k + 1]) /\ Trace!Dump(d[k + 1]) \in S /\ w[k] \in S
    BY <2>1, <1>6, <1>0, <1>8
  <2> HIDE DEF w
  <2>3. w[k + 1] \in S
    BY <2>2, ConcatProperties
  <2> QED BY <2>1, <2>3
<1> HIDE DEF D
<1>9. \A k \in 0 .. L : k \in D
  BY <1>1, <1>7, <1>8, Upwards
<1> QED BY <1>6, <1>9 DEF D

(* Bytes of the first k dumps.                                             *)
Size(d, k) == Len(Trace!Whole(d)[k])

(* Where the bytes of the k-th dump are.                                   *)
LEMMA WholeStep ==
  ASSUME NEW d \in Seq(Seq(Nat)), NEW k \in 1 .. Len(d)
  PROVE  /\ Size(d, k - 1) \in Nat /\ Size(d, k) \in Nat
         /\ Size(d, k) = Size(d, k - 1) + 6 + 17 * Len(d[k])
         /\ \A i \in 1 .. Size(d, k - 1) : Trace!Whole(d)[k][i] = Trace!Whole(d)[k - 1][i]
         /\ \A i \in 1 .. 6 + 17 * Len(d[k]) :
              Trace!Whole(d)[k][Size(d, k - 1) + i] = Trace!Dump(d[k])[i]
<1> DEFINE s == Trace!Whole(d)[k - 1]
           t == Trace!Dump(d[k])
           u == Trace!Whole(d)[k]
<1>1. d[k] \in Seq(Nat) /\ Len(d[k]) \in Nat /\ k - 1 \in 0 .. Len(d) /\ k \in 0 .. Len(d)
  <2>1. d[k] \in Seq(Nat)
    OBVIOUS
  <2> QED BY <2>1
<1>2. s \in Seq(Tokens) /\ u \in Seq(Tokens) /\ u = s \o t
  BY <1>1, WholeIs
<1>3. t \in Seq(Tokens) /\ Len(t) = 6 + 17 * Len(d[k])
  BY <1>1, DumpIs
<1> HIDE DEF s, t, u
<1>4. /\ Len(u) = Len(s) + Len(t)
      /\ \A i \in 1 .. Len(s) + Len(t) : u[i] = IF i <= Len(s) THEN s[i] ELSE t[i - Len(s)]
  BY <1>2, <1>3, ConcatProperties
<1>5. Len(s) \in Nat /\ Len(u) \in Nat /\ Len(t) \in Nat
  BY <1>2, <1>3
<1>6. \A i \in 1 .. Len(s) : u[i] = s[i]
  BY <1>4, <1>5
<1>7. \A i \in 1 .. Len(t) : u[Len(s) + i] = t[i]
  <2> TAKE i \in 1 .. Len(t)
  <2>1. Len(s) + i \in 1 .. Len(s) + Len(t) /\ ~(Len(s) + i <= Len(s)) /\ (Len(s) + i) - Len(s) = i
    BY <1>5
  <2> QED BY <2>1, <1>4
<1>8. Len(u) = Len(s) + 6 + 17 * Len(d[k])
  <2> DEFINE z == Len(d[k])
  <2>1. Len(t) = 6 + 17 * z /\ z \in Nat
    BY <1>3, <1>1
  <2> HIDE DEF z
  <2>2. Len(u) = Len(s) + 6 + 17 * z
    BY <2>1, <1>4, <1>5
  <2> QED BY <2>2 DEF z
<1> QED BY <1>3, <1>5, <1>6, <1>7, <1>8 DEF Size, s, t, u

(* The first k dumps are a prefix of the first j.                          *)
LEMMA WholePrefix ==
  ASSUME NEW d \in Seq(Seq(Nat)), NEW k \in 0 .. Len(d), NEW j \in k .. Len(d)
  PROVE  /\ Size(d, k) \in Nat /\ Size(d, j) \in Nat /\ Size(d, k) <= Size(d, j)
         /\ j # k => Size(d, k) + 6 <= Size(d, j)
         /\ \A i \in 1 .. Size(d, k) : Trace!Whole(d)[j][i] = Trace!Whole(d)[k][i]
<1> DEFINE L == Len(d)
           Good(m) == /\ Size(d, m) \in Nat /\ Size(d, k) <= Size(d, m)
                      /\ m # k => Size(d, k) + 6 <= Size(d, m)
                      /\ \A i \in 1 .. Size(d, k) : Trace!Whole(d)[m][i] = Trace!Whole(d)[k][i]
           D == {m \in 0 .. L : Good(m)}
<1>1. L \in Nat /\ k \in Nat /\ k \in 0 .. L
  OBVIOUS
<1>2. Size(d, k) \in Nat
  <2>1. Trace!Whole(d)[k] \in Seq(Tokens)
    BY WholeIs
  <2> DEFINE s == Trace!Whole(d)[k]
  <2> HIDE DEF s
  <2>2. s \in Seq(Tokens) => Len(s) \in Nat
    OBVIOUS
  <2> QED BY <2>1, <2>2 DEF Size, s
<1>3. k \in D
  <2> QED BY <1>1, <1>2
<1>4. ASSUME NEW m \in k .. L - 1, m \in D PROVE m + 1 \in D
  <2>1. m + 1 \in 1 .. L /\ m + 1 \in 0 .. L /\ (m + 1) - 1 = m /\ m + 1 # k
    BY <1>1
  <2>2. d[m + 1] \in Seq(Nat) /\ Len(d[m + 1]) \in Nat
    <3>1. d[m + 1] \in Seq(Nat)
      BY <2>1
    <3> QED BY <3>1
  <2>3. /\ Size(d, m) \in Nat /\ Size(d, m + 1) \in Nat
        /\ Size(d, m + 1) = Size(d, m) + 6 + 17 * Len(d[m + 1])
        /\ \A i \in 1 .. Size(d, m) : Trace!Whole(d)[m + 1][i] = Trace!Whole(d)[m][i]
    BY <2>1, WholeStep
  <2>4. Good(m)
    BY <1>4
  <2>5. /\ Size(d, k) + 6 <= Size(d, m + 1) /\ Size(d, k) <= Size(d, m)
        /\ Size(d, k) <= Size(d, m + 1)
    <3> DEFINE z == Len(d[m + 1])
               a == Size(d, k)
               b == Size(d, m)
               c == Size(d, m + 1)
    <3>1. z \in Nat /\ a \in Nat /\ b \in Nat /\ c = b + 6 + 17 * z /\ a <= b
      BY <2>2, <2>3, <2>4, <1>2
    <3> HIDE DEF z, a, b, c
    <3>2. a + 6 <= c /\ a <= b /\ a <= c
      BY <3>1
    <3> QED BY <3>2 DEF a, b, c
  <2>6. \A i \in 1 .. Size(d, k) : Trace!Whole(d)[m + 1][i] = Trace!Whole(d)[k][i]
    <3> DEFINE a == Size(d, k)
               b == Size(d, m)
    <3>1. a \in Nat /\ b \in Nat /\ a <= b
      BY <1>2, <2>3, <2>5
    <3> HIDE DEF a, b
    <3>2. \A i \in 1 .. a : i \in 1 .. b
      BY <3>1
    <3> QED BY <3>2, <2>3, <2>4 DEF a, b
  <2>7. Good(m + 1)
    BY <2>3, <2>5, <2>6, Zenon
  <2> HIDE DEF Good
  <2> QED BY <2>1, <2>7
<1> HIDE DEF D
<1>5. \A m \in k .. L : m \in D
  BY <1>1, <1>3, <1>4, Upwards
<1> QED BY <1>2, <1>5 DEF D

(* A dump more changes nothing of those before it.                         *)
LEMMA WholeAppend ==
  ASSUME NEW d \in Seq(Seq(Nat)), NEW x \in Seq(Nat)
  PROVE  \A k \in 0 .. Len(d) : Trace!Whole(Append(d, x))[k] = Trace!Whole(d)[k]
<1> DEFINE e == Append(d, x)
           L == Len(d)
           D == {k \in 0 .. L : Trace!Whole(e)[k] = Trace!Whole(d)[k]}
<1>1. e \in Seq(Seq(Nat)) /\ L \in Nat /\ Len(e) = L + 1 /\ \A k \in 1 .. L : e[k] = d[k]
  OBVIOUS
<1>2. 0 \in D
  <2> HIDE DEF e
  <2>1. Trace!Whole(e)[0] = <<>>
    BY <1>1, WholeIs
  <2>2. Trace!Whole(d)[0] = <<>>
    BY WholeIs
  <2>3. 0 \in 0 .. L
    BY <1>1
  <2> QED BY <2>1, <2>2, <2>3
<1>3. ASSUME NEW k \in 0 .. L - 1, k \in D PROVE k + 1 \in D
  <2>1. k + 1 \in 1 .. L /\ k + 1 \in 0 .. L /\ (k + 1) - 1 = k /\ k + 1 \in 1 .. Len(e)
    BY <1>1
  <2> HIDE DEF e
  <2>2. /\ Trace!Whole(e)[k + 1] = Trace!Whole(e)[k] \o Trace!Dump(e[k + 1])
        /\ Trace!Whole(d)[k + 1] = Trace!Whole(d)[k] \o Trace!Dump(d[k + 1])
    BY <1>1, <2>1, WholeIs
  <2>3. Trace!Whole(e)[k] = Trace!Whole(d)[k] /\ e[k + 1] = d[k + 1]
    BY <1>1, <1>3, <2>1
  <2> QED BY <2>1, <2>2, <2>3
<1> HIDE DEF D
<1>4. \A k \in 0 .. L : k \in D
  BY <1>1, <1>2, <1>3, Upwards
<1> QED BY <1>4 DEF D

(* One step of the search of decode, given what it finds further on.       *)
Body(f, data, cursor) ==
  LET starts == Trace!Starts(data, cursor)
      start == Trace!Earliest(starts)
      rest == f[Trace!After(data, start)]
  IN  IF starts = {} THEN [ok |-> TRUE, packets |-> <<>>]
      ELSE IF Trace!Refused(data, start) THEN Trace!Fails
      ELSE [ok |-> rest.ok, packets |-> <<Trace!Packet(data, start)>> \o rest.packets]

(* The search finds the first magic, and goes on behind its packet.        *)
LEMMA Onward ==
  ASSUME NEW data \in Seq(Tokens), NEW c \in 1 .. Len(data) + 1,
         Trace!Starts(data, c) # {}
  PROVE  LET s == Trace!Earliest(Trace!Starts(data, c)) IN
         /\ s \in Trace!Starts(data, c) /\ s \in c .. Len(data) - 3
         /\ \A i \in Trace!Starts(data, c) : s <= i
         /\ ~Trace!Refused(data, s) => Trace!After(data, s) \in s + 6 .. Len(data) + 1
<1> DEFINE S == Trace!Starts(data, c)
           s == Trace!Earliest(S)
<1>1. Len(data) \in Nat /\ S # {} /\ S \in SUBSET Nat /\ S \subseteq c .. Len(data) - 3
  <2>1. S \subseteq c .. Len(data) - 3
    BY Zenon DEF Trace!Starts
  <2>2. Len(data) \in Nat /\ c \in Nat
    OBVIOUS
  <2> HIDE DEF S
  <2>3. c .. Len(data) - 3 \subseteq Nat
    BY <2>2
  <2>4. S # {}
    BY DEF S
  <2> QED BY <2>1, <2>2, <2>3, <2>4
<1>2. s \in S /\ \A i \in S : s <= i
  <2>1. \E i \in S : \A j \in S : i <= j
    <3> HIDE DEF S
    <3> QED BY <1>1, LeastNat
  <2> HIDE DEF S
  <2> QED BY <2>1 DEF Trace!Earliest
<1>3. s \in c .. Len(data) - 3
  <2> HIDE DEF S
  <2> QED BY <1>1, <1>2
<1>4. ASSUME ~Trace!Refused(data, s) PROVE Trace!After(data, s) \in s + 6 .. Len(data) + 1
  <2> HIDE DEF s
  <2>1. /\ s \in 1 .. Len(data) /\ ~(s + 6 > Len(data) + 1)
        /\ ~(Trace!After(data, s) > Len(data) + 1)
    BY <1>1, <1>3, <1>4 DEF Trace!Refused, Trace!HeaderBytes
  <2>2. s + 4 \in 1 .. Len(data) /\ s + 5 \in 1 .. Len(data)
    BY <2>1, <1>1
  <2> DEFINE x == data[s + 4].value
             y == data[s + 5].value
             v == x + 256 * y
  <2>3. x \in Nat /\ y \in Nat
    <3>1. data[s + 4] \in Tokens /\ data[s + 5] \in Tokens
      BY <2>2
    <3> QED BY <3>1 DEF Tokens
  <2>4. Trace!After(data, s) = s + 6 + 17 * v
    BY DEF Trace!After, Trace!Count, Trace!HeaderBytes, Trace!RecordBytes
  <2> HIDE DEF x, y
  <2>5. v \in Nat
    BY <2>3
  <2> HIDE DEF v
  <2> QED BY <2>1, <2>4, <2>5, <1>1
<1> QED BY <1>2, <1>3, <1>4, Zenon

(* A step asks only about what is behind the packet it takes.              *)
LEMMA BodyLocal ==
  ASSUME NEW data \in Seq(Tokens), NEW c \in 1 .. Len(data) + 1, NEW f, NEW g,
         \A i \in c + 1 .. Len(data) + 1 : f[i] = g[i]
  PROVE  Body(f, data, c) = Body(g, data, c)
<1> DEFINE S == Trace!Starts(data, c)
           s == Trace!Earliest(S)
           a == Trace!After(data, s)
<1>1. CASE S = {} \/ Trace!Refused(data, s)
  BY <1>1, Zenon DEF Body
<1>2. CASE S # {} /\ ~Trace!Refused(data, s)
  <2>1. s \in c .. Len(data) - 3 /\ a \in s + 6 .. Len(data) + 1
    BY <1>2, Onward
  <2>2. a \in c + 1 .. Len(data) + 1
    <3> HIDE DEF s, a
    <3>1. Len(data) \in Nat
      OBVIOUS
    <3> QED BY <2>1, <3>1
  <2>3. f[a] = g[a]
    <3> HIDE DEF a
    <3> QED BY <2>2
  <2> QED BY <1>2, <2>3, Zenon DEF Body
<1> QED BY <1>1, <1>2

(* decode goes on from each cursor as its definition says: a function that *)
(* satisfies the definition exists, built from the end of the capture.     *)
LEMMA SearchIs ==
  ASSUME NEW data \in Seq(Tokens)
  PROVE  \A c \in 1 .. Len(data) + 1 :
           Trace!Decoded(data)[c] = Body(Trace!Decoded(data), data, c)
<1> DEFINE L == Len(data)
           Is(f, m) == \A c \in L + 1 - m .. L + 1 : f[c] = Body(f, data, c)
           D == {m \in 0 .. L : \E f : Is(f, m)}
<1>0. L \in Nat
  OBVIOUS
<1>1. 0 \in D
  <2> DEFINE f == [c \in {L + 1} |-> [ok |-> TRUE, packets |-> <<>>]]
  <2>1. ASSUME NEW c \in L + 1 - 0 .. L + 1 PROVE f[c] = Body(f, data, c)
    <3>1. c = L + 1 /\ c .. L - 3 = {}
      BY <1>0
    <3>2. Trace!Starts(data, c) = {}
      BY <3>1 DEF Trace!Starts
    <3>3. f[c] = [ok |-> TRUE, packets |-> <<>>]
      BY <3>1
    <3> HIDE DEF f
    <3> QED BY <3>2, <3>3, Zenon DEF Body
  <2> HIDE DEF f
  <2>2. Is(f, 0)
    BY <2>1
  <2> HIDE DEF Is
  <2> QED BY <2>2, <1>0
<1>2. ASSUME NEW m \in 0 .. L - 1, m \in D PROVE m + 1 \in D
  <2>1. PICK f : Is(f, m)
    BY <1>2
  <2> DEFINE p == L - m
             g == [c \in 1 .. L + 1 |-> IF c = p THEN Body(f, data, p) ELSE f[c]]
  <2>2. p \in 1 .. L /\ p \in 1 .. L + 1 /\ L + 1 - (m + 1) = p /\ L + 1 - m = p + 1
    BY <1>0
  <2>3. \A c \in p + 1 .. L + 1 : c \in 1 .. L + 1 /\ c # p /\ g[c] = f[c]
    <3> TAKE c \in p + 1 .. L + 1
    <3> HIDE DEF p, L
    <3>1. c \in 1 .. L + 1 /\ c # p
      BY <2>2, <1>0
    <3> QED BY <3>1
  <2>4. g[p] = Body(f, data, p)
    <3> HIDE DEF p, L
    <3> QED BY <2>2
  <2> HIDE DEF g
  <2>5. ASSUME NEW c \in p .. L + 1 PROVE g[c] = Body(g, data, c)
    <3>1. c \in 1 .. L + 1 /\ (c = p \/ c \in p + 1 .. L + 1)
      <4> HIDE DEF p, L
      <4> QED BY <2>2, <1>0
    <3>2. \A i \in c + 1 .. L + 1 : i \in p + 1 .. L + 1
      <4> HIDE DEF p, L
      <4> QED BY <2>2, <1>0, <3>1
    <3>3. \A i \in c + 1 .. L + 1 : f[i] = g[i]
      <4> HIDE DEF p, L
      <4> QED BY <2>3, <3>2
    <3>4. Body(f, data, c) = Body(g, data, c)
      BY <3>1, <3>3, BodyLocal
    <3>5. CASE c = p
      BY <3>5, <3>4, <2>4
    <3>6. CASE c \in p + 1 .. L + 1
      <4>1. f[c] = Body(f, data, c)
        <5>1. c \in L + 1 - m .. L + 1
          BY <2>2, <3>6
        <5> HIDE DEF L
        <5> QED BY <5>1, <2>1
      <4> HIDE DEF p, L
      <4> QED BY <4>1, <3>4, <2>3, <3>6
    <3> QED BY <3>1, <3>5, <3>6
  <2>6. Is(g, m + 1)
    BY <2>5, <2>2
  <2>7. m + 1 \in 0 .. L
    BY <1>0
  <2> HIDE DEF Is
  <2> QED BY <2>6, <2>7
<1> HIDE DEF D
<1>3. \A m \in 0 .. L : m \in D
  <2> HIDE DEF L
  <2> QED BY <1>0, <1>1, <1>2, Upwards
<1>4. PICK f : Is(f, L)
  <2>1. L \in D
    <3> HIDE DEF L
    <3> QED BY <1>0, <1>3
  <2> QED BY <2>1 DEF D
<1> DEFINE R(h) == h = [c \in 1 .. L + 1 |-> Body(h, data, c)]
           h == [c \in 1 .. L + 1 |-> f[c]]
<1>5. R(h)
  <2> DEFINE g == [c \in 1 .. L + 1 |-> Body(h, data, c)]
  <2>1. ASSUME NEW c \in 1 .. L + 1 PROVE h[c] = g[c]
    <3>1. c \in L + 1 - L .. L + 1
      BY <1>0
    <3>2. f[c] = Body(f, data, c)
      <4> HIDE DEF L
      <4> QED BY <3>1, <1>4
    <3>3. \A i \in c + 1 .. L + 1 : f[i] = h[i]
      BY <1>0
    <3> HIDE DEF h
    <3>4. Body(f, data, c) = Body(h, data, c)
      BY <3>3, BodyLocal
    <3>5. h[c] = f[c]
      BY DEF h
    <3> QED BY <3>2, <3>4, <3>5
  <2> QED BY <2>1
<1>6. Trace!Decoded(data) = [c \in 1 .. L + 1 |-> Body(Trace!Decoded(data), data, c)]
  <2>1. \E z : R(z)
    <3> HIDE DEF h
    <3> QED BY <1>5
  <2> QED BY <2>1, Zenon DEF Trace!Decoded, Body
<1> DEFINE w == Trace!Decoded(data)
<1> HIDE DEF w
<1>7. w = [c \in 1 .. L + 1 |-> Body(w, data, c)]
  BY <1>6 DEF w
<1>8. \A c \in 1 .. L + 1 : w[c] = Body(w, data, c)
  BY <1>7
<1> QED BY <1>8 DEF w

(* A stream of dumps: what arrived of them.                                *)
Arriving(data, d) ==
  /\ data \in Seq(Tokens) /\ d \in Seq(Seq(Nat))
  /\ \A k \in 1 .. Len(d) : Len(d[k]) <= Ring
  /\ Len(data) <= Size(d, Len(d))
  /\ \A i \in 1 .. Len(data) : data[i] = Trace!Whole(d)[Len(d)][i]

(* Byte i of dump k stands right behind the k - 1 dumps before.            *)
LEMMA TokenAt ==
  ASSUME NEW data, NEW d, Arriving(data, d), NEW k \in 1 .. Len(d),
         NEW i \in 1 .. 6 + 17 * Len(d[k]), Size(d, k - 1) + i <= Len(data)
  PROVE  data[Size(d, k - 1) + i] = Trace!Dump(d[k])[i]
<1>1. d \in Seq(Seq(Nat)) /\ data \in Seq(Tokens) /\ Len(d) \in Nat /\ Len(data) \in Nat
  BY DEF Arriving
<1>2. k \in 0 .. Len(d) /\ Len(d) \in k .. Len(d) /\ Len(d[k]) \in Nat
  <2>1. d[k] \in Seq(Nat)
    BY <1>1
  <2> QED BY <2>1, <1>1
<1>3. /\ Size(d, k - 1) \in Nat /\ Size(d, k) \in Nat
      /\ Size(d, k) = Size(d, k - 1) + 6 + 17 * Len(d[k])
      /\ Trace!Whole(d)[k][Size(d, k - 1) + i] = Trace!Dump(d[k])[i]
  BY <1>1, WholeStep
<1>4. \A n \in 1 .. Size(d, k) : Trace!Whole(d)[Len(d)][n] = Trace!Whole(d)[k][n]
  BY <1>1, <1>2, WholePrefix
<1> DEFINE n == Size(d, k - 1) + i
           z == Len(d[k])
<1>5. n \in 1 .. Size(d, k) /\ n \in 1 .. Len(data)
  <2>1. z \in Nat /\ i \in 1 .. 6 + 17 * z /\ Size(d, k) = Size(d, k - 1) + 6 + 17 * z
    BY <1>2, <1>3
  <2> DEFINE a == Size(d, k - 1)
             e == Size(d, k)
             m == Len(data)
  <2>2. /\ a \in Nat /\ e \in Nat /\ m \in Nat /\ a + i <= m
        /\ z \in Nat /\ i \in 1 .. 6 + 17 * z /\ e = a + 6 + 17 * z
    BY <2>1, <1>1, <1>3
  <2> HIDE DEF z, a, e, m
  <2>3. a + i \in 1 .. e /\ a + i \in 1 .. m
    BY <2>2
  <2> QED BY <2>3 DEF a, e, m
<1>6. data[n] = Trace!Whole(d)[Len(d)][n]
  <2> HIDE DEF n
  <2> QED BY <1>5 DEF Arriving
<1>7. Trace!Whole(d)[Len(d)][n] = Trace!Whole(d)[k][n]
  <2> HIDE DEF n
  <2> QED BY <1>4, <1>5
<1> QED BY <1>3, <1>6, <1>7

(* At the start of a dump, once its four letters arrived, the decoder finds*)
(* that dump's magic, and refuses it exactly when not all of it arrived.   *)
LEMMA AtDump ==
  ASSUME NEW data, NEW d, Arriving(data, d), NEW k \in 1 .. Len(d),
         Size(d, k - 1) + 4 <= Len(data)
  PROVE  LET c == Size(d, k - 1) + 1 IN
         /\ c \in 1 .. Len(data)
         /\ Trace!Starts(data, c) # {}
         /\ Trace!Earliest(Trace!Starts(data, c)) = c
         /\ Trace!Refused(data, c) <=> Len(data) < Size(d, k)
         /\ Size(d, k) <= Len(data) =>
              /\ Trace!After(data, c) = Size(d, k) + 1
              /\ Trace!Packet(data, c) = Trace!Records(d[k])
<1> DEFINE y == Size(d, k - 1)
           c == y + 1
           z == Len(d[k])
           e == Size(d, k)
           L == Len(data)
           u == Trace!Dump(d[k])
           g == Trace!HeaderOf(z)
<1>1. d \in Seq(Seq(Nat)) /\ data \in Seq(Tokens) /\ L \in Nat /\ z <= Ring
  BY DEF Arriving
<1>2. d[k] \in Seq(Nat) /\ z \in Nat
  <2>1. d[k] \in Seq(Nat)
    BY <1>1
  <2> QED BY <2>1
<1>3. y \in Nat /\ e = y + 6 + 17 * z
  BY <1>1, WholeStep
<1>4. u \in Seq(Tokens) /\ Len(u) = 6 + 17 * z /\ \A j \in 1 .. 6 : u[j] = g[j]
  BY <1>2, DumpIs
<1>5. /\ \A j \in 1 .. 4 : g[j] = Trace!Magic[j]
      /\ g[5].kind = "count" /\ g[6].kind = "count" /\ g[5].value + 256 * g[6].value = z
  BY <1>2, HeaderIs
<1>6. \A i \in 1 .. 6 + 17 * z : y + i <= L => data[y + i] = u[i]
  BY TokenAt
<1> HIDE DEF y, z, e, L, u, g
<1>7. c \in 1 .. L /\ c \in 1 .. L + 1 /\ y + 4 <= L /\ e \in Nat
  <2>1. y + 4 <= L
    BY DEF y, L
  <2> QED BY <2>1, <1>1, <1>2, <1>3
<1>8. \A j \in 1 .. 4 : data[c + j - 1] = Trace!Magic[j]
  <2> TAKE j \in 1 .. 4
  <2>1. /\ c + j - 1 = y + j /\ y + j <= L /\ j \in 1 .. 6 + 17 * z /\ j \in 1 .. 6
    <3>1. j \in Nat /\ 1 <= j /\ j <= 4
      OBVIOUS
    <3>2. c + j - 1 = y + j /\ y + j <= L
      BY <3>1, <1>1, <1>3, <1>7
    <3>3. j \in 1 .. 6 + 17 * z /\ j \in 1 .. 6
      BY <3>1, <1>2
    <3> QED BY <3>2, <3>3
  <2>2. data[y + j] = u[j]
    BY <2>1, <1>6
  <2> QED BY <2>1, <2>2, <1>4, <1>5
<1>9. Trace!Starts(data, c) # {} /\ Trace!Earliest(Trace!Starts(data, c)) = c
  <2>1. c \in c .. Len(data) - 3
    BY <1>1, <1>3, <1>7 DEF L
  <2> HIDE DEF c
  <2>2. c \in Trace!Starts(data, c)
    BY <2>1, <1>8 DEF Trace!Starts
  <2> DEFINE s == Trace!Earliest(Trace!Starts(data, c))
  <2>3. c \in 1 .. Len(data) + 1 /\ Trace!Starts(data, c) # {}
    BY <2>2, <1>7 DEF L
  <2>4. s \in c .. Len(data) - 3 /\ s <= c
    BY <2>2, <2>3, <1>1, Onward
  <2> HIDE DEF s
  <2>5. s = c
    BY <2>4, <1>1, <1>7
  <2> QED BY <2>3, <2>5 DEF s
<1>10. ASSUME y + 6 <= L
       PROVE  /\ data[c + 4].kind = "count" /\ data[c + 5].kind = "count"
              /\ Trace!Count(data, c) = z /\ Trace!After(data, c) = e + 1
  <2>1. /\ c + 4 = y + 5 /\ c + 5 = y + 6 /\ y + 5 <= L
        /\ 5 \in 1 .. 6 + 17 * z /\ 6 \in 1 .. 6 + 17 * z
    <3>1. c + 4 = y + 5 /\ c + 5 = y + 6 /\ y + 5 <= L
      BY <1>1, <1>3, <1>10
    <3>2. 5 \in 1 .. 6 + 17 * z /\ 6 \in 1 .. 6 + 17 * z
      BY <1>2
    <3> QED BY <3>1, <3>2
  <2>2. data[c + 4] = g[5] /\ data[c + 5] = g[6]
    <3>1. data[y + 5] = u[5] /\ data[y + 6] = u[6]
      BY <2>1, <1>6, <1>10
    <3> QED BY <3>1, <2>1, <1>4
  <2>3. Trace!Count(data, c) = z
    BY <2>2, <1>5 DEF Trace!Count
  <2>4. Trace!After(data, c) = c + 6 + 17 * z
    BY <2>3 DEF Trace!After, Trace!HeaderBytes, Trace!RecordBytes
  <2>5. c + 6 + 17 * z = e + 1
    BY <1>2, <1>3
  <2> QED BY <2>2, <2>3, <2>4, <2>5, <1>5
<1>11. Trace!Refused(data, c) <=> L < e
  <2>1. CASE ~(y + 6 <= L)
    <3>1. c + 6 > L + 1 /\ L < e
      BY <2>1, <1>1, <1>2, <1>3
    <3> QED BY <3>1 DEF Trace!Refused, Trace!HeaderBytes, L
  <2>2. CASE y + 6 <= L
    <3>1. /\ data[c + 4].kind = "count" /\ data[c + 5].kind = "count"
          /\ Trace!Count(data, c) = z /\ Trace!After(data, c) = e + 1
      BY <2>2, <1>10
    <3>2. ~(c + 6 > L + 1) /\ ~(z > Ring)
      BY <2>2, <1>1, <1>2, <1>3, TraceAssumption
    <3> HIDE DEF c
    <3>3. \A i \in {4, 5} : data[c + i].kind = "count"
      BY <3>1
    <3>4. Trace!Refused(data, c) <=> e + 1 > L + 1
      BY <3>1, <3>2, <3>3 DEF Trace!Refused, Trace!HeaderBytes, L
    <3>5. e + 1 > L + 1 <=> L < e
      BY <1>1, <1>7
    <3> QED BY <3>4, <3>5
  <2> QED BY <2>1, <2>2
<1>12. ASSUME e <= L
       PROVE  /\ Trace!After(data, c) = e + 1
              /\ Trace!Packet(data, c) = Trace!Records(d[k])
  <2>0. y + 6 <= L
    BY <1>1, <1>2, <1>3, <1>12
  <2>1. Trace!After(data, c) = e + 1
    BY <2>0, <1>10
  <2> DEFINE m == 17 * z
             p == SubSeq(data, c + 6, e)
             q == SubSeq(u, 7, 6 + m)
  <2>2. m \in Nat /\ e = y + 6 + m /\ Len(u) = 6 + m
    BY <1>2, <1>3, <1>4
  <2>3. Trace!Packet(data, c) = p
    <3>1. (e + 1) - 1 = e
      BY <1>7
    <3> HIDE DEF c
    <3> QED BY <2>1, <3>1 DEF Trace!Packet, Trace!HeaderBytes
  <2>4. Trace!Records(d[k]) = q
    <3>1. Trace!Records(d[k]) = SubSeq(u, 6 + 1, Len(u))
      BY DEF Trace!Records, Trace!HeaderBytes, u
    <3>2. 6 + 1 = 7
      OBVIOUS
    <3> HIDE DEF m
    <3> QED BY <3>1, <3>2, <2>2
  <2>5. \A i \in 1 .. m : data[y + 6 + i] = u[6 + i]
    <3> HIDE DEF m
    <3> TAKE i \in 1 .. m
    <3>1. 6 + i \in 1 .. 6 + m /\ y + (6 + i) <= L /\ y + (6 + i) = y + 6 + i
      BY <2>2, <1>1, <1>3, <1>12
    <3>2. \A j \in 1 .. 6 + m : y + j <= L => data[y + j] = u[j]
      BY <1>6 DEF m
    <3>3. data[y + (6 + i)] = u[6 + i]
      BY <3>1, <3>2
    <3> QED BY <3>1, <3>3
  <2> HIDE DEF m
  <2>6. /\ p \in Seq(Tokens) /\ Len(p) = m
        /\ \A i \in 1 .. m : p[i] = data[y + 6 + i]
    <3> DEFINE a == c + 6
    <3>1. /\ a = y + 7 /\ a \in Int /\ e \in Int /\ e - a + 1 = m
          /\ \A i \in a .. e : i \in 1 .. Len(data)
      BY <2>2, <1>1, <1>3, <1>7, <1>12 DEF L
    <3> HIDE DEF a
    <3>2. \A i \in a .. e : data[i] \in Tokens
      BY <3>1, <1>1
    <3> DEFINE x == SubSeq(data, a, e)
    <3>3. /\ x \in Seq(Tokens) /\ Len(x) = IF a <= e THEN e - a + 1 ELSE 0
          /\ \A i \in 1 .. e - a + 1 : x[i] = data[a + i - 1]
      <4>1. a \in Int /\ e \in Int
        BY <3>1
      <4> QED BY <4>1, <3>2, SubSeqProperties
    <3> HIDE DEF x
    <3>4. Len(x) = m /\ \A i \in 1 .. m : x[i] = data[a + i - 1]
      <4>1. \A i \in 1 .. m : x[i] = data[a + i - 1]
        BY <3>1, <3>3
      <4>2. Len(x) = m
        <5>1. e - a + 1 = m /\ m \in Nat /\ a \in Int /\ e \in Int
          BY <3>1, <2>2
        <5>2. Len(x) = IF a <= e THEN e - a + 1 ELSE 0
          BY <3>3
        <5> QED BY ONLY <5>1, <5>2
      <4> QED BY <4>1, <4>2
    <3>5. \A i \in 1 .. m : a + i - 1 = y + 6 + i
      BY <3>1, <1>3, <2>2
    <3> QED BY <3>3, <3>4, <3>5 DEF x, a
  <2>7. /\ q \in Seq(Tokens) /\ Len(q) = m
        /\ \A i \in 1 .. m : q[i] = u[6 + i]
    <3> DEFINE f == 6 + m
    <3>1. /\ 7 \in Int /\ f \in Int /\ f - 7 + 1 = m
          /\ \A i \in 7 .. f : i \in 1 .. Len(u)
      BY <2>2
    <3> HIDE DEF f
    <3>2. \A i \in 7 .. f : u[i] \in Tokens
      BY <3>1, <1>4
    <3> DEFINE x == SubSeq(u, 7, f)
    <3>3. /\ x \in Seq(Tokens) /\ Len(x) = IF 7 <= f THEN f - 7 + 1 ELSE 0
          /\ \A i \in 1 .. f - 7 + 1 : x[i] = u[7 + i - 1]
      BY <3>1, <3>2, SubSeqProperties
    <3> HIDE DEF x
    <3>4. Len(x) = m /\ \A i \in 1 .. m : x[i] = u[7 + i - 1]
      BY <3>1, <3>3, <2>2
    <3>5. \A i \in 1 .. m : 7 + i - 1 = 6 + i
      BY <2>2
    <3> QED BY <3>3, <3>4, <3>5 DEF x, f
  <2> HIDE DEF p, q
  <2>8. p = q
    BY <2>5, <2>6, <2>7, SeqEqual
  <2> QED BY <2>1, <2>3, <2>4, <2>8
<1> HIDE DEF c
<1>13. /\ c \in 1 .. L
       /\ Trace!Starts(data, c) # {}
       /\ Trace!Earliest(Trace!Starts(data, c)) = c
       /\ Trace!Refused(data, c) <=> L < e
       /\ e <= L => /\ Trace!After(data, c) = e + 1
                    /\ Trace!Packet(data, c) = Trace!Records(d[k])
  BY <1>7, <1>9, <1>11, <1>12
<1> QED BY <1>13, Zenon DEF c, y, e, L

(* The packets from a dump on.                                             *)
LEMMA ConsIs ==
  ASSUME NEW S, NEW n \in Nat, NEW x \in S, NEW t \in Seq(S), NEW u \in Seq(S),
         Len(t) = n, Len(u) = n + 1, u[1] = x, \A i \in 1 .. n : u[i + 1] = t[i]
  PROVE  <<x>> \o t = u
<1> DEFINE h == <<x>>
<1>1. h \in Seq(S) /\ Len(h) = 1 /\ h[1] = x
  OBVIOUS
<1> HIDE DEF h
<1>2. /\ h \o t \in Seq(S) /\ Len(h \o t) = Len(h) + Len(t)
      /\ \A i \in 1 .. Len(h) + Len(t) : (h \o t)[i] = IF i <= Len(h) THEN h[i] ELSE t[i - Len(h)]
  BY <1>1, ConcatProperties
<1> DEFINE v == h \o t
<1>3. /\ v \in Seq(S) /\ Len(v) = n + 1
      /\ \A i \in 1 .. n + 1 : v[i] = IF i <= 1 THEN h[i] ELSE t[i - 1]
  BY <1>1, <1>2
<1> HIDE DEF v
<1>4. \A i \in 1 .. n + 1 : v[i] = u[i]
  <2> TAKE i \in 1 .. n + 1
  <2>1. CASE i = 1
    BY <2>1, <1>1, <1>3
  <2>2. CASE i # 1
    <3>1. i - 1 \in 1 .. n /\ (i - 1) + 1 = i /\ ~(i <= 1)
      BY <2>2
    <3> QED BY <3>1, <1>3
  <2> QED BY <2>1, <2>2
<1>5. v = u
  BY <1>3, <1>4, SeqEqual
<1> QED BY <1>5 DEF v, h

(* The records of a dump, as the decoder returns them.                     *)
LEMMA RecordsAre ==
  ASSUME NEW r \in Seq(Nat)
  PROVE  Trace!Records(r) \in Seq(Tokens)
<1> DEFINE u == Trace!Dump(r)
           n == Len(r)
<1>1. u \in Seq(Tokens) /\ Len(u) = 6 + 17 * n /\ n \in Nat
  BY DumpIs
<1> HIDE DEF u, n
<1>2. 7 \in Int /\ Len(u) \in Int /\ \A i \in 7 .. Len(u) : u[i] \in Tokens
  BY <1>1
<1>3. SubSeq(u, 7, Len(u)) \in Seq(Tokens)
  BY <1>2, SubSeqProperties
<1>4. Trace!Records(r) = SubSeq(u, 6 + 1, Len(u)) /\ 6 + 1 = 7
  BY DEF Trace!Records, Trace!HeaderBytes, u
<1> QED BY <1>3, <1>4

(* What the decoder returns of the dumps behind the j-th, up to the k-th.  *)
Later(d, j, k) == [i \in 1 .. k - j |-> Trace!Records(d[j + i])]

(* One packet, then those of the dumps behind it.                          *)
LEMMA LaterIs ==
  ASSUME NEW d \in Seq(Seq(Nat)), NEW k \in 0 .. Len(d), NEW j \in 0 .. k
  PROVE  /\ Later(d, j, k) \in Seq(Seq(Tokens)) /\ Len(Later(d, j, k)) = k - j
         /\ \A i \in 1 .. k - j : Later(d, j, k)[i] = Trace!Records(d[j + i])
         /\ j # k => Later(d, j, k) = <<Trace!Records(d[j + 1])>> \o Later(d, j + 1, k)
<1>1. ASSUME NEW m \in 0 .. k
      PROVE  /\ Later(d, m, k) \in Seq(Seq(Tokens)) /\ Len(Later(d, m, k)) = k - m
             /\ \A i \in 1 .. k - m : Later(d, m, k)[i] = Trace!Records(d[m + i])
  <2>1. k - m \in Nat
    OBVIOUS
  <2>2. \A i \in 1 .. k - m : m + i \in 1 .. Len(d)
    OBVIOUS
  <2>3. \A i \in 1 .. k - m : Trace!Records(d[m + i]) \in Seq(Tokens)
    <3> TAKE i \in 1 .. k - m
    <3>1. d[m + i] \in Seq(Nat)
      BY <2>2
    <3> QED BY <3>1, RecordsAre
  <2> DEFINE n == k - m
             f == [i \in 1 .. n |-> Trace!Records(d[m + i])]
  <2>4. f \in [1 .. n -> Seq(Tokens)] /\ \A i \in 1 .. n : f[i] = Trace!Records(d[m + i])
    BY <2>3
  <2>5. f = Later(d, m, k)
    BY DEF Later
  <2> HIDE DEF f
  <2>6. f \in Seq(Seq(Tokens)) /\ Len(f) = n
    <3> DEFINE T == Seq(Tokens)
    <3>1. n \in Nat /\ f \in [1 .. n -> T]
      BY <2>1, <2>4
    <3> HIDE DEF T, n
    <3>2. f \in Seq(T) /\ Len(f) = n
      BY <3>1
    <3> QED BY <3>2 DEF T
  <2> QED BY <2>4, <2>5, <2>6
<1>2. ASSUME j # k PROVE Later(d, j, k) = <<Trace!Records(d[j + 1])>> \o Later(d, j + 1, k)
  <2> DEFINE u == Later(d, j, k)
             t == Later(d, j + 1, k)
             n == k - (j + 1)
             x == Trace!Records(d[j + 1])
  <2>1. j + 1 \in 0 .. k /\ n \in Nat /\ n + 1 = k - j /\ 1 \in 1 .. k - j /\ j + 1 \in 1 .. Len(d)
    BY <1>2
  <2>2. /\ u \in Seq(Seq(Tokens)) /\ Len(u) = n + 1
        /\ \A i \in 1 .. n + 1 : u[i] = Trace!Records(d[j + i])
    BY <1>1, <2>1
  <2>3. /\ t \in Seq(Seq(Tokens)) /\ Len(t) = n
        /\ \A i \in 1 .. n : t[i] = Trace!Records(d[(j + 1) + i])
    BY <1>1, <2>1
  <2>4. x \in Seq(Tokens)
    <3>1. d[j + 1] \in Seq(Nat)
      BY <2>1
    <3> QED BY <3>1, RecordsAre
  <2> HIDE DEF u, t
  <2>5. u[1] = x
    BY <2>1, <2>2
  <2>6. \A i \in 1 .. n : u[i + 1] = t[i]
    <3> TAKE i \in 1 .. n
    <3>1. i + 1 \in 1 .. n + 1 /\ j + (i + 1) = (j + 1) + i
      BY <2>1
    <3> QED BY <3>1, <2>2, <2>3
  <2> HIDE DEF x, n
  <2>7. <<x>> \o t = u
    BY <2>1, <2>2, <2>3, <2>4, <2>5, <2>6, ConsIs
  <2> QED BY <2>7 DEF x, t, u
<1> QED BY <1>1, <1>2

(* From the start of dump j + 1 decode takes all dumps up to the k-th, which*)
(* is the last that arrived in full, and fails if more than three bytes    *)
(* came after it.                                                          *)
LEMMA DecodedFrom ==
  ASSUME NEW data, NEW d, Arriving(data, d), NEW k \in 0 .. Len(d),
         Size(d, k) <= Len(data), k = Len(d) \/ Len(data) < Size(d, k + 1)
  PROVE  \A j \in 0 .. k :
           /\ Len(data) - Size(d, k) \in 0 .. 3 =>
                Trace!Decoded(data)[Size(d, j) + 1] = [ok |-> TRUE, packets |-> Later(d, j, k)]
           /\ Len(data) - Size(d, k) \notin 0 .. 3 => Trace!Decoded(data)[Size(d, j) + 1].ok = FALSE
<1> DEFINE w == Trace!Decoded(data)
           L == Len(data)
           Right(j) == /\ L - Size(d, k) \in 0 .. 3 =>
                            w[Size(d, j) + 1] = [ok |-> TRUE, packets |-> Later(d, j, k)]
                       /\ L - Size(d, k) \notin 0 .. 3 => w[Size(d, j) + 1].ok = FALSE
           D == {j \in 0 .. k : Right(j)}
<1>1. /\ d \in Seq(Seq(Nat)) /\ data \in Seq(Tokens) /\ L \in Nat /\ L <= Size(d, Len(d))
      /\ Len(d) \in Nat
  BY DEF Arriving
<1>2. \A c \in 1 .. L + 1 : w[c] = Body(w, data, c)
  BY <1>1, SearchIs
<1>3. \A m \in 0 .. Len(d) : Size(d, m) \in Nat
  <2> TAKE m \in 0 .. Len(d)
  <2>1. m \in m .. Len(d)
    BY <1>1
  <2> QED BY <1>1, <2>1, WholePrefix
<1>4. ASSUME NEW m \in 1 .. Len(d), Size(d, m - 1) + 4 <= L
      PROVE  w[Size(d, m - 1) + 1] =
               IF L < Size(d, m) THEN Trace!Fails
               ELSE [ok |-> w[Size(d, m) + 1].ok,
                     packets |-> <<Trace!Records(d[m])>> \o w[Size(d, m) + 1].packets]
  <2> DEFINE c == Size(d, m - 1) + 1
  <2>1. /\ c \in 1 .. L
        /\ Trace!Starts(data, c) # {}
        /\ Trace!Earliest(Trace!Starts(data, c)) = c
        /\ Trace!Refused(data, c) <=> L < Size(d, m)
        /\ Size(d, m) <= L =>
             /\ Trace!After(data, c) = Size(d, m) + 1
             /\ Trace!Packet(data, c) = Trace!Records(d[m])
    BY <1>4, AtDump
  <2> HIDE DEF c
  <2>2. w[c] = Body(w, data, c)
    <3> HIDE DEF w, L
    <3>1. c \in 1 .. L + 1
      BY <2>1, <1>1
    <3> QED BY <1>2, <3>1
  <2> HIDE DEF w
  <2>3. Body(w, data, c) =
          IF Trace!Refused(data, c) THEN Trace!Fails
          ELSE [ok |-> w[Trace!After(data, c)].ok,
                packets |-> <<Trace!Packet(data, c)>> \o w[Trace!After(data, c)].packets]
    BY <2>1, Zenon DEF Body
  <2>4. Size(d, m) \in Nat
    BY <1>1, <1>3
  <2> HIDE DEF L
  <2>5. ~(L < Size(d, m)) => Size(d, m) <= L
    BY <2>4, <1>1
  <2> QED BY <2>1, <2>2, <2>3, <2>5, Zenon DEF c
<1> HIDE DEF w
<1>5. k \in D
  <2>0. Size(d, k) \in Nat /\ Size(d, k) <= L
    BY <1>3
  <2>1. CASE L - Size(d, k) \in 0 .. 3
    <3> DEFINE c == Size(d, k) + 1
    <3>1. c \in 1 .. L + 1 /\ c .. L - 3 = {}
      <4>1. L \in Nat
        BY <1>1
      <4> HIDE DEF L
      <4>2. c \in Nat /\ c - 1 <= L /\ L - c <= 2 /\ 1 <= c
        BY <2>0, <2>1, <4>1
      <4> HIDE DEF c
      <4> QED BY <4>1, <4>2
    <3> HIDE DEF c
    <3>2. Trace!Starts(data, c) = {}
      BY <3>1 DEF Trace!Starts
    <3>3. w[c] = [ok |-> TRUE, packets |-> <<>>]
      BY <3>1, <3>2, <1>2, Zenon DEF Body
    <3>4. Later(d, k, k) = <<>>
      <4>1. k \in 0 .. k /\ k - k = 0
        BY <1>1
      <4>2. Later(d, k, k) \in Seq(Seq(Tokens)) /\ Len(Later(d, k, k)) = 0
        BY <4>1, <1>1, LaterIs
      <4> QED BY <4>2
    <3>5. Right(k)
      BY <2>1, <3>3, <3>4 DEF c
    <3> HIDE DEF Right
    <3>6. k \in 0 .. k
      BY <1>1
    <3> QED BY <3>5, <3>6
  <2>2. CASE L - Size(d, k) \notin 0 .. 3
    <3>0. L \in Nat
      BY <1>1
    <3>1. k # Len(d) /\ k + 1 \in 1 .. Len(d) /\ (k + 1) - 1 = k
      <4>1. k # Len(d)
        <5> HIDE DEF L
        <5> QED BY <2>0, <2>2, <1>1, <3>0
      <4> QED BY <4>1, <1>1
    <3>2. Size(d, k) + 4 <= L /\ L < Size(d, k + 1)
      <4>1. Size(d, k) + 4 <= L
        <5> HIDE DEF L
        <5> QED BY <2>0, <2>2, <3>0
      <4> QED BY <4>1, <3>1
    <3>3. w[Size(d, k) + 1] = Trace!Fails
      <4> HIDE DEF L
      <4> QED BY <3>1, <3>2, <1>4
    <3>4. Right(k)
      BY <2>2, <3>3 DEF Trace!Fails
    <3> HIDE DEF Right
    <3>6. k \in 0 .. k
      BY <1>1
    <3> QED BY <3>4, <3>6
  <2> QED BY <2>1, <2>2
<1>6. ASSUME NEW j \in 0 .. k - 1, j + 1 \in D PROVE j \in D
  <2>1. j + 1 \in 1 .. Len(d) /\ (j + 1) - 1 = j /\ j + 1 \in 0 .. Len(d) /\ k \in j + 1 .. Len(d)
        /\ j \in 0 .. Len(d) /\ j \in 0 .. k /\ j # k
    BY <1>1
  <2>2. Size(d, j) + 6 <= Size(d, j + 1) /\ Size(d, j + 1) <= Size(d, k)
    <3>1. Size(d, j + 1) <= Size(d, k)
      BY <1>1, <2>1, WholePrefix
    <3>2. j + 1 \in j .. Len(d) /\ j + 1 # j
      BY <2>1, <1>1
    <3>3. Size(d, j) + 6 <= Size(d, j + 1)
      BY <1>1, <2>1, <3>2, WholePrefix
    <3> QED BY <3>1, <3>3
  <2>3. Size(d, j) + 4 <= L /\ ~(L < Size(d, j + 1))
    <3>1. Size(d, j) \in Nat /\ Size(d, j + 1) \in Nat /\ Size(d, k) \in Nat
      BY <1>3, <2>1
    <3> HIDE DEF L
    <3> QED BY <3>1, <2>2, <1>1 DEF L
  <2> DEFINE r == w[Size(d, j + 1) + 1]
  <2>4. w[Size(d, j) + 1] = [ok |-> r.ok, packets |-> <<Trace!Records(d[j + 1])>> \o r.packets]
    <3>1. w[Size(d, (j + 1) - 1) + 1] =
               IF L < Size(d, j + 1) THEN Trace!Fails
               ELSE [ok |-> w[Size(d, j + 1) + 1].ok,
                     packets |-> <<Trace!Records(d[j + 1])>> \o w[Size(d, j + 1) + 1].packets]
      <4> HIDE DEF L
      <4> QED BY <2>1, <2>3, <1>4
    <3> HIDE DEF L
    <3> QED BY <3>1, <2>1, <2>3
  <2>5. Right(j + 1)
    BY <1>6
  <2>6. Later(d, j, k) = <<Trace!Records(d[j + 1])>> \o Later(d, j + 1, k)
    BY <1>1, <2>1, LaterIs
  <2>7. Right(j)
    <3>1. CASE L - Size(d, k) \in 0 .. 3
      <4>1. r = [ok |-> TRUE, packets |-> Later(d, j + 1, k)]
        BY <3>1, <2>5
      <4>2. r.ok = TRUE /\ r.packets = Later(d, j + 1, k)
        <5> HIDE DEF r
        <5> QED BY <4>1
      <4> HIDE DEF r
      <4> QED BY <3>1, <2>4, <2>6, <4>2
    <3>2. CASE L - Size(d, k) \notin 0 .. 3
      <4>1. r.ok = FALSE
        BY <3>2, <2>5
      <4> HIDE DEF r, L
      <4>2. w[Size(d, j) + 1].ok = r.ok
        BY <2>4
      <4> QED BY <3>2, <4>1, <4>2
    <3> QED BY <3>1, <3>2
  <2> HIDE DEF Right
  <2> QED BY <2>1, <2>7
<1> HIDE DEF D
<1>7. \A j \in 0 .. k : j \in D
  <2>1. k \in Nat
    BY <1>1
  <2> QED BY <2>1, <1>5, <1>6, Downwards
<1>8. \A j \in 0 .. k : Right(j)
  BY <1>7 DEF D
<1> QED BY <1>8 DEF w

(* decode's verdict on a stream of dumps that stops anywhere.              *)
LEMMA DecodesTo ==
  ASSUME NEW data, NEW d, Arriving(data, d)
  PROVE  LET whole == {k \in DOMAIN d : Len(data) - Len(Trace!Whole(d)[k]) \in 0 .. 3}
         IN  IF whole = {} THEN Trace!decode(data) = Trace!Fails
             ELSE LET k == CHOOSE n \in whole : TRUE IN
                  Trace!decode(data) =
                    [ok |-> TRUE, packets |-> [i \in 1 .. k |-> Trace!Records(d[i])]]
<1> DEFINE L == Len(data)
           N == Len(d)
           whole == {k \in DOMAIN d : L - Len(Trace!Whole(d)[k]) \in 0 .. 3}
           D == {m \in 0 .. N : m = N \/ L < Size(d, m + 1)}
           first == Trace!Decoded(data)[1]
<1>1. d \in Seq(Seq(Nat)) /\ data \in Seq(Tokens) /\ L \in Nat /\ L <= Size(d, N) /\ N \in Nat
  BY DEF Arriving
<1>2. \A i \in 0 .. N : \A j \in i .. N :
        /\ Size(d, i) \in Nat /\ Size(d, j) \in Nat /\ Size(d, i) <= Size(d, j)
        /\ j # i => Size(d, i) + 6 <= Size(d, j)
  BY <1>1, WholePrefix
<1>3. Size(d, 0) = 0
  <2>1. Trace!Whole(d)[0] = <<>>
    BY <1>1, WholeIs
  <2> QED BY <2>1 DEF Size
<1>4. PICK k \in D : \A m \in D : k <= m
  <2>1. N \in D /\ D \in SUBSET Nat
    BY <1>1
  <2> HIDE DEF D
  <2> QED BY <2>1, LeastNat
<1>5. k \in 0 .. N /\ (k = N \/ L < Size(d, k + 1))
  BY <1>4
<1>6. Size(d, k) \in Nat /\ Size(d, k) <= L
  <2>0. Size(d, k) \in Nat
    <3>1. k \in k .. N
      BY <1>5, <1>1
    <3> QED BY <1>2, <1>5, <3>1
  <2>1. CASE k = 0
    BY <2>1, <1>1, <1>3
  <2>2. CASE k # 0
    <3>1. k - 1 \in 0 .. N /\ (k - 1) + 1 = k /\ ~(k <= k - 1) /\ k - 1 # N
      BY <2>2, <1>5, <1>1
    <3>2. k - 1 \notin D
      <4> HIDE DEF D
      <4> QED BY <3>1, <1>4
    <3>3. ~(L < Size(d, k))
      BY <3>1, <3>2
    <3> QED BY <3>3, <2>0, <1>1
  <2> QED BY <2>1, <2>2
<1> HIDE DEF D
<1>7. \A j \in 0 .. N : L - Size(d, j) \in 0 .. 3 => j = k
  <2> SUFFICES ASSUME NEW j \in 0 .. N, L - Size(d, j) \in 0 .. 3, j # k PROVE FALSE
    OBVIOUS
  <2>0. Size(d, j) \in Nat
    <3>1. j \in j .. N
      BY <1>1
    <3> QED BY <1>2, <3>1
  <2>1. CASE j < k
    <3>1. k \in j .. N
      BY <2>1, <1>5, <1>1
    <3>2. Size(d, j) + 6 <= Size(d, k) /\ Size(d, j) \in Nat
      BY <1>2, <3>1
    <3> HIDE DEF L
    <3> QED BY <3>2, <1>6, <1>1
  <2>2. CASE ~(j < k)
    <3>1. k # N /\ k + 1 \in 0 .. N /\ j \in k + 1 .. N
      BY <2>2, <1>5, <1>1
    <3>2. Size(d, k + 1) <= Size(d, j) /\ Size(d, k + 1) \in Nat
      BY <1>2, <3>1
    <3>3. L < Size(d, k + 1)
      BY <3>1, <1>5
    <3>4. L \in Nat
      BY <1>1
    <3> HIDE DEF L
    <3>5. Size(d, j) \in Nat /\ L < Size(d, j)
      BY <3>2, <3>3, <3>4, <2>0
    <3> QED BY <3>4, <3>5
  <2> QED BY <2>1, <2>2
<1>8. /\ L - Size(d, k) \in 0 .. 3 => first = [ok |-> TRUE, packets |-> Later(d, 0, k)]
      /\ L - Size(d, k) \notin 0 .. 3 => first.ok = FALSE
  <2>1. 0 \in 0 .. k /\ Size(d, 0) + 1 = 1
    BY <1>3, <1>5, <1>1
  <2>2. Size(d, k) <= Len(data) /\ (k = Len(d) \/ Len(data) < Size(d, k + 1))
    BY <1>5, <1>6
  <2> HIDE DEF L
  <2>3. \A j \in 0 .. k :
           /\ Len(data) - Size(d, k) \in 0 .. 3 =>
                Trace!Decoded(data)[Size(d, j) + 1] = [ok |-> TRUE, packets |-> Later(d, j, k)]
           /\ Len(data) - Size(d, k) \notin 0 .. 3 => Trace!Decoded(data)[Size(d, j) + 1].ok = FALSE
    BY <1>5, <2>2, DecodedFrom
  <2> QED BY <2>1, <2>3 DEF L
<1>9. Trace!decode(data) = IF first.ok /\ first.packets # <<>> THEN first ELSE Trace!Fails
  BY Zenon DEF Trace!decode
<1>10. Len(Later(d, 0, k)) = k /\ Later(d, 0, k) \in Seq(Seq(Tokens))
  <2>1. 0 \in 0 .. k /\ k - 0 = k
    BY <1>5, <1>1
  <2> QED BY <2>1, <1>1, <1>5, LaterIs
<1>11. Later(d, 0, k) = [i \in 1 .. k |-> Trace!Records(d[i])]
  <2>1. k - 0 = k /\ \A i \in 1 .. k : 0 + i = i
    BY <1>5, <1>1
  <2> QED BY <2>1 DEF Later
<1>12. \A j \in whole : j = k /\ L - Size(d, k) \in 0 .. 3 /\ k # 0
  <2> TAKE j \in whole
  <2>1. j \in 1 .. N /\ j \in 0 .. N /\ L - Size(d, j) \in 0 .. 3
    BY <1>1 DEF Size
  <2> HIDE DEF whole, L, N
  <2> QED BY <2>1, <1>7
<1>13. L - Size(d, k) \in 0 .. 3 /\ k # 0 => k \in whole
  BY <1>1, <1>5 DEF Size
<1> HIDE DEF whole, first
<1>14. CASE whole = {}
  <2>1. Trace!decode(data) = Trace!Fails
    <3>1. CASE L - Size(d, k) \notin 0 .. 3
      BY <3>1, <1>8, <1>9
    <3>2. CASE L - Size(d, k) \in 0 .. 3
      <4>1. k = 0 /\ first.packets = Later(d, 0, k)
        BY <3>2, <1>13, <1>14, <1>8
      <4>2. Later(d, 0, k) = <<>>
        BY <4>1, <1>10
      <4> QED BY <4>1, <4>2, <1>9
    <3> QED BY <3>1, <3>2
  <2> QED BY <1>14, <2>1 DEF whole
<1>15. CASE whole # {}
  <2>1. k \in whole /\ L - Size(d, k) \in 0 .. 3 /\ k # 0 /\ (CHOOSE n \in whole : TRUE) = k
    <3>1. \A j \in whole : j = k /\ L - Size(d, k) \in 0 .. 3 /\ k # 0
      BY <1>12
    <3> HIDE DEF L
    <3>2. PICK j \in whole : TRUE
      BY <1>15
    <3>3. (CHOOSE n \in whole : TRUE) \in whole
      BY <1>15
    <3> QED BY <3>1, <3>2, <3>3
  <2>2. Trace!decode(data) = [ok |-> TRUE, packets |-> Later(d, 0, k)]
    <3>1. first = [ok |-> TRUE, packets |-> Later(d, 0, k)]
      BY <2>1, <1>8
    <3>2. first.ok = TRUE /\ first.packets = Later(d, 0, k)
      BY <3>1
    <3>3. Later(d, 0, k) # <<>>
      BY <2>1, <1>10
    <3> QED BY <3>1, <3>2, <3>3, <1>9
  <2> QED BY <1>15, <2>1, <2>2, <1>11 DEF whole
<1> QED BY <1>14, <1>15

(* The position in the stream is never behind the end of the last dump.    *)
LEMMA PositionBound ==
  ASSUME TraceTypes, FreezeHolds
  PROVE  Position \in Nat /\ Position <= Size(tr_dumps, Len(tr_dumps))
<1> DEFINE d == tr_dumps
           N == Len(d)
<1>1. d \in Seq(Seq(Nat)) /\ N \in Nat
  BY DEF TraceTypes, CoreTypes, MachineTypes, LineTypes
<1>2. \A k \in 0 .. N : Size(d, k) \in Nat
  <2> TAKE k \in 0 .. N
  <2>1. k \in k .. N
    BY <1>1
  <2> QED BY <1>1, <2>1, WholePrefix
<1>3. CASE tr_state \in Resting
  <2>1. Position = Size(d, N)
    BY <1>3 DEF Position, Dumped, Size
  <2>2. Size(d, N) \in Nat
    BY <1>1, <1>2
  <2> QED BY <2>1, <2>2
<1>4. CASE tr_state \in {"HEADER"} \cup Walking
  <2> DEFINE a == Size(d, N - 1)
             e == Size(d, N)
             z == Len(d[N])
  <2>1. N \in 1 .. N /\ N >= 1 /\ d[N] = tr_last /\ z \in Nat /\ z = Len(tr_last)
    <3>1. N >= 1 /\ d[N] = tr_last
      BY <1>4 DEF FreezeHolds
    <3>2. tr_last \in Seq(Nat)
      BY DEF TraceTypes, CoreTypes, MachineTypes, LineTypes
    <3> QED BY <3>1, <3>2, <1>1
  <2>2. a \in Nat /\ e \in Nat /\ e = a + 6 + 17 * z
    BY <1>1, <2>1, WholeStep
  <2>3. Before = a
    BY DEF Before, Dumped, Size
  <2>4. tr_byte_index \in Nat /\ tr_sent_records \in Nat
    BY DEF TraceTypes, CoreTypes, MachineTypes, LineTypes
  <2> HIDE DEF a, e, z
  <2>5. CASE tr_state = "HEADER"
    <3>1. Position = a + tr_byte_index /\ tr_byte_index \in 0 .. 5
      BY <2>3, <2>5 DEF Position, Resting, FreezeHolds
    <3> QED BY <2>1, <2>2, <3>1 DEF e
  <2>6. CASE tr_state = "RECORD"
    <3>1. /\ Position = a + 6 + 17 * tr_sent_records + tr_byte_index
          /\ tr_byte_index \in 0 .. 16 /\ tr_sent_records < z
      BY <2>1, <2>3, <2>6 DEF Position, Resting, Walking, FreezeHolds
    <3> QED BY <2>1, <2>2, <2>4, <3>1 DEF e
  <2>7. CASE tr_state \in {"FETCH", "FETCH_WAIT"}
    <3>1. /\ Position = a + 6 + 17 * tr_sent_records
          /\ tr_sent_records < z
      BY <2>1, <2>3, <2>7 DEF Position, Resting, Walking, FreezeHolds
    <3> QED BY <2>1, <2>2, <2>4, <3>1 DEF e
  <2> QED BY <1>4, <2>5, <2>6, <2>7 DEF Walking
<1> QED BY <1>3, <1>4 DEF TraceTypes, CoreTypes, MachineTypes, LineTypes, Resting, Walking

(* The invariant gives the property: what was captured is a prefix of the  *)
(* stream of dumps.                                                        *)
LEMMA StreamDecodes ==
  ASSUME TraceTypes, FreezeHolds, StreamHolds
  PROVE  TraceDecoded
<1> DEFINE d == tr_dumps
           N == Len(d)
           data == SubSeq(tr_capture, tr_cut + 1, Len(tr_capture))
           w == Trace!Whole(d)[N]
<1>1. /\ d \in Seq(Seq(Nat)) /\ N \in Nat /\ tr_capture \in Seq(Tokens)
      /\ tr_cut \in 0 .. Len(tr_capture) /\ Len(tr_capture) \in Nat
      /\ \A k \in 1 .. N : Len(d[k]) <= Ring
  BY DEF TraceTypes, CoreTypes, MachineTypes, LineTypes
<1>2. Arrived \in Nat /\ Arrived = Len(tr_capture) - tr_cut
  BY <1>1 DEF Arrived
<1>3. /\ data \in Seq(Tokens) /\ Len(data) = Arrived
      /\ \A i \in 1 .. Arrived : data[i] = tr_capture[tr_cut + i]
  <2> DEFINE m == tr_cut + 1
             n == Len(tr_capture)
  <2>1. /\ m \in Int /\ n \in Int /\ m \in 1 .. n + 1 /\ n - m + 1 = Arrived
        /\ m <= n <=> Arrived # 0
    BY <1>1, <1>2
  <2>2. \A i \in m .. n : tr_capture[i] \in Tokens
    <3> TAKE i \in m .. n
    <3>1. i \in 1 .. Len(tr_capture)
      BY <1>1
    <3> QED BY <3>1, <1>1
  <2> HIDE DEF m, n
  <2> DEFINE s == SubSeq(tr_capture, m, n)
  <2>3. /\ s \in Seq(Tokens) /\ Len(s) = IF m <= n THEN n - m + 1 ELSE 0
        /\ \A i \in 1 .. n - m + 1 : s[i] = tr_capture[m + i - 1]
    BY <2>1, <2>2, SubSeqProperties
  <2> HIDE DEF s
  <2>4. Len(s) = Arrived /\ \A i \in 1 .. Arrived : s[i] = tr_capture[m + i - 1]
    BY <2>1, <2>3
  <2>5. \A i \in 1 .. Arrived : m + i - 1 = tr_cut + i
    BY <1>1 DEF m
  <2> QED BY <2>3, <2>4, <2>5 DEF s, m, n
<1>4. Arrived <= Size(d, N)
  <2>1. Arrived <= Position
    BY <1>2, PositionBound DEF StreamHolds
  <2>2. Position <= Size(d, N) /\ Position \in Nat
    BY PositionBound
  <2>3. Size(d, N) \in Nat
    <3>1. N \in 0 .. N /\ N \in N .. N
      BY <1>1
    <3> QED BY <1>1, <3>1, WholePrefix
  <2> QED BY <1>2, <2>1, <2>2, <2>3
<1>5. \A i \in 1 .. Arrived : data[i] = w[i]
  BY <1>3 DEF StreamHolds, Dumped
<1>6. Arriving(data, d)
  <2> HIDE DEF data
  <2> QED BY <1>1, <1>3, <1>4, <1>5 DEF Arriving
<1>7. data = SubSeq(w, 1, Len(data))
  <2> DEFINE s == SubSeq(w, 1, Arrived)
  <2>1. w \in Seq(Tokens) /\ Len(w) = Size(d, N)
    <3>1. N \in 0 .. N
      BY <1>1
    <3> QED BY <1>1, <3>1, WholeIs DEF Size
  <2> HIDE DEF w, data
  <2>2. Len(w) \in Nat /\ Arrived <= Len(w)
    BY <2>1, <1>4
  <2>3. \A i \in 1 .. Arrived : w[i] \in Tokens
    BY <2>1, <2>2, <1>2
  <2>4. 1 \in Int /\ Arrived \in Int
    BY <1>2
  <2>5. /\ s \in Seq(Tokens) /\ Len(s) = IF 1 <= Arrived THEN Arrived - 1 + 1 ELSE 0
        /\ \A i \in 1 .. Arrived - 1 + 1 : s[i] = w[1 + i - 1]
    BY <2>3, <2>4, SubSeqProperties
  <2> HIDE DEF s
  <2>6. Arrived - 1 + 1 = Arrived /\ \A i \in 1 .. Arrived : 1 + i - 1 = i
    BY <1>2
  <2>7. Len(s) = Arrived /\ \A i \in 1 .. Arrived : s[i] = w[i]
    BY <2>5, <2>6, <1>2
  <2>8. data = s
    BY <1>3, <1>5, <2>5, <2>7, SeqEqual
  <2> QED BY <2>8, <1>3 DEF s
<1>8. LET whole == {k \in DOMAIN d : Len(data) - Len(Trace!Whole(d)[k]) \in 0 .. 3}
      IN  IF whole = {} THEN Trace!decode(data) = Trace!Fails
          ELSE LET k == CHOOSE n \in whole : TRUE IN
               Trace!decode(data) =
                 [ok |-> TRUE, packets |-> [i \in 1 .. k |-> Trace!Records(d[i])]]
  <2> HIDE DEF data, d
  <2> QED BY <1>6, DecodesTo
<1> QED BY <1>7, <1>8, Zenon DEF TraceDecoded, Trace!TraceDecoded

(* Addresses of the ring, counted backwards from the write pointer.        *)
LEMMA RingWraps ==
  ASSUME NEW w \in Addresses
  PROVE  /\ (w + 1) % Ring \in Addresses
         /\ (((w + 1) % Ring) - 1) % Ring = w
         /\ \A i \in 1 .. Ring : (w - i) % Ring \in Addresses
         /\ \A i \in 2 .. Ring : /\ (((w + 1) % Ring) - i) % Ring = (w - (i - 1)) % Ring
                                 /\ (w - (i - 1)) % Ring # w
<1>1. Ring \in Nat \ {0} /\ w \in 0 .. Ring - 1
  BY TraceAssumption DEF Addresses
<1>2. (w + 1) % Ring = IF w = Ring - 1 THEN 0 ELSE w + 1
  BY <1>1
<1>3. \A v \in 0 .. Ring - 1 : \A i \in 1 .. Ring :
        (v - i) % Ring = IF i <= v THEN v - i ELSE v - i + Ring
  BY <1>1
<1> DEFINE v == (w + 1) % Ring
<1>4. v \in 0 .. Ring - 1 /\ v = IF w = Ring - 1 THEN 0 ELSE w + 1
  BY <1>1, <1>2
<1> HIDE DEF v
<1>5. (v - 1) % Ring = w
  <2>1. (v - 1) % Ring = IF 1 <= v THEN v - 1 ELSE v - 1 + Ring
    BY <1>1, <1>3, <1>4
  <2> QED BY <2>1, <1>1, <1>4
<1>6. ASSUME NEW i \in 1 .. Ring PROVE (w - i) % Ring \in 0 .. Ring - 1
  <2>1. (w - i) % Ring = IF i <= w THEN w - i ELSE w - i + Ring
    BY <1>1, <1>3
  <2> QED BY <2>1, <1>1
<1>7. ASSUME NEW i \in 2 .. Ring
      PROVE  (v - i) % Ring = (w - (i - 1)) % Ring /\ (w - (i - 1)) % Ring # w
  <2>1. i \in 1 .. Ring /\ i - 1 \in 1 .. Ring
    BY <1>1
  <2>2. (v - i) % Ring = IF i <= v THEN v - i ELSE v - i + Ring
    BY <2>1, <1>3, <1>4
  <2>3. (w - (i - 1)) % Ring = IF i - 1 <= w THEN w - (i - 1) ELSE w - (i - 1) + Ring
    BY <2>1, <1>1, <1>3
  <2> QED BY <2>2, <2>3, <1>1, <1>4
<1> QED BY <1>4, <1>5, <1>6, <1>7 DEF Addresses, v

(* A write admitted drains into the RAM, whatever else the edge does.      *)
LEMMA WriteDrains ==
  ASSUME TraceTypes, Trace!RamAccess
  PROVE  /\ tr_entries' \in [Addresses -> Int]
         /\ \A a \in Addresses : tr_entries'[a] = Kept(tr_write_q, tr_entries, a)
<1>1. /\ tr_entries \in [Addresses -> Int] /\ tr_write_q.addr \in Addresses
      /\ tr_write_q.data \in Int
  BY DEF TraceTypes, CoreTypes, MachineTypes, LineTypes
<1>2. tr_entries' = IF tr_write_q.en THEN [tr_entries EXCEPT ![tr_write_q.addr] = tr_write_q.data]
                    ELSE tr_entries
  BY DEF Trace!RamAccess
<1> QED BY <1>1, <1>2 DEF Kept

(* What was retired before this edge is in the ring after it.              *)
LEMMA PushStep ==
  ASSUME TraceTypes, RingHolds, Trace!RamPorts, Trace!RamAccess, Trace!Push
  PROVE  /\ tr_write_ptr' \in Addresses /\ tr_count' = Len(tr_last)
         /\ tr_write_q' \in [en : BOOLEAN, addr : Addresses, data : Int]
         /\ tr_write_q'.en <=> tr_retire # -1
         /\ tr_retire = -1 => tr_write_ptr' = tr_write_ptr
         /\ \A i \in 1 .. Len(tr_last) :
              Kept(tr_write_q', tr_entries', (tr_write_ptr' - i) % Ring)
                = tr_last[Len(tr_last) + 1 - i]
<1> DEFINE w == tr_write_ptr
           n == Len(tr_last)
<1>1. /\ w \in Addresses /\ n \in Nat /\ n <= Ring /\ Ring \in Nat \ {0}
      /\ tr_retire \in Nat \cup {-1} /\ tr_count \in 0 .. Ring
  BY TraceAssumption DEF TraceTypes, CoreTypes, MachineTypes, LineTypes
<1>2. tr_write_q' = [en |-> tr_retire # -1, addr |-> w,
                     data |-> IF tr_retire # -1 THEN tr_retire ELSE 0]
  BY DEF Trace!RamPorts, Trace!NoRetire
<1>3. /\ tr_write_q'.en = (tr_retire # -1) /\ tr_write_q'.addr = w
      /\ tr_write_q'.data = IF tr_retire # -1 THEN tr_retire ELSE 0
  BY <1>2
<1>4. tr_write_q' \in [en : BOOLEAN, addr : Addresses, data : Int]
  <2>1. (tr_retire # -1) \in BOOLEAN /\ (IF tr_retire # -1 THEN tr_retire ELSE 0) \in Int
    BY <1>1
  <2> QED BY <1>1, <1>2, <2>1
<1>5. CASE tr_retire = -1
  <2>1. w' = w /\ tr_count' = tr_count /\ n = tr_count
    BY <1>5 DEF Trace!Push, Trace!NoRetire, RingHolds
  <2>2. ASSUME NEW i \in 1 .. n
        PROVE  Kept(tr_write_q', tr_entries', (w' - i) % Ring) = tr_last[n + 1 - i]
    <3> DEFINE a == (w - i) % Ring
    <3>1. a \in Addresses
      BY <1>1, RingWraps
    <3>2. Kept(tr_write_q, tr_entries, a) = tr_last[n + 1 - 0 - i]
      BY <1>1, <1>5 DEF RingHolds, Pending
    <3> HIDE DEF a
    <3>3. Kept(tr_write_q', tr_entries', a) = tr_entries'[a]
      BY <1>3, <1>5 DEF Kept
    <3>4. n + 1 - 0 - i = n + 1 - i
      BY <1>1
    <3> QED BY <2>1, <3>1, <3>2, <3>3, <3>4, WriteDrains DEF a
  <2> QED BY <1>1, <1>3, <1>4, <1>5, <2>1, <2>2
<1>6. CASE tr_retire # -1
  <2>1. /\ w' = (w + 1) % Ring /\ tr_count' = IF tr_count # Ring THEN tr_count + 1 ELSE tr_count
        /\ n = (IF tr_count = Ring THEN Ring ELSE tr_count + 1)
        /\ n >= 1 /\ tr_last[n] = tr_retire
    BY <1>6 DEF Trace!Push, Trace!NoRetire, RingHolds
  <2>2. tr_count' = n
    BY <2>1, <1>1
  <2>3. ASSUME NEW i \in 1 .. n
        PROVE  Kept(tr_write_q', tr_entries', (w' - i) % Ring) = tr_last[n + 1 - i]
    <3>1. CASE i = 1
      <4>1. (w' - i) % Ring = w
        BY <3>1, <2>1, <1>1, RingWraps
      <4>2. n + 1 - i = n
        BY <3>1, <1>1
      <4>3. Kept(tr_write_q', tr_entries', w) = tr_retire
        BY <1>3, <1>6 DEF Kept
      <4> QED BY <4>1, <4>2, <4>3, <2>1
    <3>2. CASE i # 1
      <4> DEFINE a == (w - (i - 1)) % Ring
      <4>1. i \in 2 .. Ring /\ i - 1 \in 1 .. Ring /\ i - 1 \in 1 .. n - 1
        BY <3>2, <1>1
      <4>2. (w' - i) % Ring = a /\ a # w /\ a \in Addresses
        BY <4>1, <2>1, <1>1, RingWraps
      <4>3. Kept(tr_write_q, tr_entries, a) = tr_last[n + 1 - 1 - (i - 1)]
        BY <4>1, <1>6 DEF RingHolds, Pending
      <4>4. n + 1 - 1 - (i - 1) = n + 1 - i
        BY <1>1
      <4> HIDE DEF a
      <4>5. Kept(tr_write_q', tr_entries', a) = tr_entries'[a]
        BY <1>3, <4>2 DEF Kept
      <4> QED BY <4>2, <4>3, <4>4, <4>5, WriteDrains
    <3> QED BY <3>1, <3>2
  <2>4. w' \in Addresses
    BY <2>1, <1>1, RingWraps
  <2> QED BY <1>3, <1>4, <1>6, <2>2, <2>3, <2>4
<1> QED BY <1>5, <1>6

(* One edge of the core's side: the ring goes on holding the last ones.    *)
LEMMA CoreSide ==
  ASSUME TraceTypes, RingHolds,
         Trace!CoreRetires, Trace!RamPorts, Trace!RamAccess, Trace!Push
  PROVE  /\ CoreTypes' /\ RingHolds'
         /\ tr_write_q'.en <=> tr_retire # -1
         /\ tr_retire = -1 => tr_write_ptr' = tr_write_ptr
         /\ tr_state # "IDLE" => tr_retire' = -1 /\ tr_last' = tr_last
         /\ tr_retire' = -1 => tr_last' = tr_last
         /\ tr_count' = Len(tr_last)
<1> DEFINE n == Len(tr_last)
           K(i) == Kept(tr_write_q', tr_entries', (tr_write_ptr' - i) % Ring)
<1>1. /\ tr_last \in Seq(Nat) /\ n \in Nat /\ n <= Ring /\ Ring \in Nat \ {0}
      /\ tr_next \in Nat /\ tr_read_ptr \in Addresses
  BY TraceAssumption DEF TraceTypes, CoreTypes, MachineTypes
<1>2. /\ tr_write_ptr' \in Addresses /\ tr_count' = n
      /\ tr_write_q' \in [en : BOOLEAN, addr : Addresses, data : Int]
      /\ tr_write_q'.en <=> tr_retire # -1
      /\ tr_retire = -1 => tr_write_ptr' = tr_write_ptr
      /\ \A i \in 1 .. n : K(i) = tr_last[n + 1 - i]
  BY PushStep
<1>3. tr_entries' \in [Addresses -> Int]
  BY WriteDrains
<1>4. tr_read_q' \in [en : BOOLEAN, addr : Addresses]
  <2>1. tr_read_q' = [en |-> tr_state = "FETCH", addr |-> tr_read_ptr]
    BY DEF Trace!RamPorts
  <2>2. (tr_state = "FETCH") \in BOOLEAN
    OBVIOUS
  <2> QED BY <2>1, <2>2, <1>1
<1>5. tr_state # "IDLE" => tr_retire' = -1 /\ tr_last' = tr_last
  BY DEF Trace!CoreRetires, Trace!freeze_core, Trace!NoRetire
<1>6. CASE tr_retire' = -1
  <2>1. tr_last' = tr_last /\ tr_next' = tr_next
    BY <1>6, <1>1 DEF Trace!CoreRetires, Trace!NoRetire
  <2>2. CoreTypes'
    BY <1>1, <1>2, <1>3, <1>4, <1>6, <2>1 DEF CoreTypes
  <2>3. \A i \in 1 .. n - 0 : K(i) = tr_last[n + 1 - 0 - i]
    <3>1. \A i \in 1 .. n : n + 1 - 0 - i = n + 1 - i
      BY <1>1
    <3>2. n - 0 = n
      BY <1>1
    <3> HIDE DEF K, n
    <3> QED BY <3>1, <3>2, <1>2
  <2>4. RingHolds'
    BY <1>2, <1>6, <2>1, <2>3 DEF RingHolds, Pending
  <2> QED BY <1>2, <1>5, <2>1, <2>2, <2>4
<1>7. CASE tr_retire' # -1
  <2> DEFINE t == Append(tr_last, tr_next)
             l == tr_last'
             m == Len(l)
  <2>1. /\ tr_retire' = tr_next /\ tr_next' = (tr_next + 1) % Numbers
        /\ l = IF Len(t) > Ring THEN Tail(t) ELSE t
    BY <1>7 DEF Trace!CoreRetires, Trace!NoRetire, Trace!LastOf
  <2>2. tr_next' \in Nat
    BY <2>1, <1>1, TraceAssumption
  <2>3. /\ t \in Seq(Nat) /\ Len(t) = n + 1 /\ t[n + 1] = tr_next
        /\ \A i \in 1 .. n : t[i] = tr_last[i]
    BY <1>1
  <2>4. /\ l \in Seq(Nat) /\ m = (IF n = Ring THEN Ring ELSE n + 1) /\ m <= Ring /\ m >= 1
        /\ l[m] = tr_next
        /\ \A i \in 1 .. m - 1 : l[m - i] = tr_last[n + 1 - i] /\ i \in 1 .. n
    <3> HIDE DEF t
    <3>1. CASE n = Ring
      <4>1. /\ Tail(t) \in Seq(Nat) /\ Len(Tail(t)) = Len(t) - 1
            /\ \A i \in 1 .. Len(Tail(t)) : Tail(t)[i] = t[i + 1]
        <5>1. t # <<>>
          BY <2>3, <1>1
        <5> QED BY <2>3, <5>1, HeadTailProperties
      <4>2. l = Tail(t) /\ m = n /\ m = Ring
        BY <2>1, <2>3, <3>1, <4>1, <1>1
      <4> HIDE DEF l, n
      <4>3. l[m] = t[n + 1]
        BY <4>1, <4>2, <2>3, <1>1 DEF m
      <4>4. ASSUME NEW i \in 1 .. m - 1 PROVE l[m - i] = tr_last[n + 1 - i] /\ i \in 1 .. n
        <5>1. m - i \in 1 .. n /\ (m - i) + 1 = n + 1 - i /\ n + 1 - i \in 1 .. n /\ i \in 1 .. n
          <6>1. m = n /\ n \in Nat
            BY <4>2, <1>1
          <6> HIDE DEF m
          <6> QED BY <6>1
        <5>2. l[m - i] = t[(m - i) + 1]
          BY <5>1, <4>1, <4>2, <2>3
        <5> QED BY <5>1, <5>2, <2>3
      <4> QED BY <4>1, <4>2, <4>3, <4>4, <2>3, <3>1, <1>1
    <3>2. CASE n # Ring
      <4>1. l = t /\ m = n + 1
        BY <2>1, <2>3, <3>2, <1>1
      <4> HIDE DEF l, n
      <4>2. ASSUME NEW i \in 1 .. m - 1 PROVE l[m - i] = tr_last[n + 1 - i] /\ i \in 1 .. n
        <5>1. m - i = n + 1 - i /\ n + 1 - i \in 1 .. n /\ i \in 1 .. n
          BY <4>1, <1>1
        <5> QED BY <5>1, <4>1, <2>3
      <4> QED BY <4>1, <4>2, <2>3, <3>2, <1>1
    <3> QED BY <3>1, <3>2
  <2>5. CoreTypes'
    <3>1. tr_retire' \in Nat
      BY <2>1, <1>1
    <3> QED BY <1>1, <1>2, <1>3, <1>4, <2>2, <2>4, <3>1 DEF CoreTypes
  <2>6. m \in Nat
    BY <2>4
  <2>7. \A i \in 1 .. m - 1 : K(i) = l[m + 1 - 1 - i]
    <3>1. \A i \in 1 .. m - 1 : m + 1 - 1 - i = m - i
      BY <2>6
    <3> HIDE DEF K, l, n
    <3> QED BY <1>2, <2>4, <3>1
  <2>8. m = IF tr_count' = Ring THEN Ring ELSE tr_count' + 1
    BY <1>2, <2>4
  <2> HIDE DEF t
  <2>9. RingHolds'
    <3>1. tr_retire' # -1 => Len(tr_last') >= 1 /\ tr_last'[Len(tr_last')] = tr_retire'
      BY <2>1, <2>4
    <3> QED BY <1>7, <2>7, <2>8, <3>1 DEF RingHolds, Pending
  <2> QED BY <1>2, <1>5, <1>7, <2>5, <2>9
<1> QED BY <1>6, <1>7

(* The dumps since the last reset, one after the other.                    *)
Stream == Dumped[Len(tr_dumps)]

(* The line on its own: nothing, or the byte in the transmitter arrives.   *)
LEMMA LineStep ==
  ASSUME LineTypes, StreamHolds, Position \in Nat, Trace!Line,
         tr_cut' = tr_cut, Position' = Position,
         \A i \in 1 .. Position : Stream'[i] = Stream[i]
  PROVE  LineTypes' /\ StreamHolds'
<1> DEFINE c == tr_cut
           p == Position
           n == Len(tr_capture)
           a == Arrived
<1>1. /\ tr_capture \in Seq(Tokens) /\ n \in Nat /\ c \in 0 .. n /\ tr_sending \in Tokens
      /\ a \in Nat /\ a = n - c
  BY DEF LineTypes, Arrived
<1>2. /\ \A i \in 1 .. a : tr_capture[c + i] = Stream[i]
      /\ tr_sending = Trace!Silence => p = a
      /\ tr_sending # Trace!Silence => p = a + 1 /\ tr_sending = Stream[a + 1]
  BY DEF StreamHolds, Stream
<1>3. CASE UNCHANGED <<tr_sending, tr_capture>>
  <2>1. tr_sending' = tr_sending /\ tr_capture' = tr_capture /\ Arrived' = a
    BY <1>3 DEF Arrived
  <2>2. LineTypes'
    BY <2>1 DEF LineTypes
  <2>3. \A i \in 1 .. a : i \in 1 .. p
    BY <1>1, <1>2
  <2>4. tr_sending # Trace!Silence => a + 1 \in 1 .. p
    BY <1>1, <1>2
  <2>5. /\ \A i \in 1 .. Arrived' : tr_capture'[tr_cut' + i] = Stream'[i]
        /\ tr_sending' = Trace!Silence => Position' = Arrived'
        /\ tr_sending' # Trace!Silence =>
             Position' = Arrived' + 1 /\ tr_sending' = Stream'[Arrived' + 1]
    <3> HIDE DEF a, p
    <3> QED BY <2>1, <2>3, <2>4, <1>1, <1>2 DEF p
  <2> QED BY <2>2, <2>5, Zenon DEF StreamHolds, Stream, Trace!Silence, Trace!Token
<1>4. CASE Trace!Sent
  <2>1. /\ tr_sending # Trace!Silence /\ tr_sending' = Trace!Silence
        /\ tr_capture' = Append(tr_capture, tr_sending)
    BY <1>4 DEF Trace!Sent
  <2>2. /\ tr_capture' \in Seq(Tokens) /\ Len(tr_capture') = n + 1
        /\ tr_capture'[n + 1] = tr_sending
        /\ \A i \in 1 .. n : tr_capture'[i] = tr_capture[i]
    BY <1>1, <2>1
  <2>3. Arrived' = a + 1
    BY <1>1, <2>2 DEF Arrived
  <2>4. LineTypes'
    BY <1>1, <2>1, <2>2, TokensAre DEF LineTypes
  <2>5. p = a + 1 /\ tr_sending = Stream[a + 1]
    BY <1>2, <2>1
  <2>6. ASSUME NEW i \in 1 .. a + 1 PROVE tr_capture'[c + i] = Stream'[i]
    <3>0. i \in 1 .. p
      BY <2>5
    <3>1. CASE i = a + 1
      <4>1. c + i = n + 1
        BY <3>1, <1>1
      <4> QED BY <3>0, <3>1, <4>1, <2>2, <2>5
    <3>2. CASE i # a + 1
      <4>1. i \in 1 .. a /\ c + i \in 1 .. n
        BY <3>2, <1>1
      <4> QED BY <3>0, <4>1, <2>2, <1>2
    <3> QED BY <3>1, <3>2
  <2>7. /\ \A i \in 1 .. Arrived' : tr_capture'[tr_cut' + i] = Stream'[i]
        /\ tr_sending' = Trace!Silence => Position' = Arrived'
        /\ tr_sending' # Trace!Silence =>
             Position' = Arrived' + 1 /\ tr_sending' = Stream'[Arrived' + 1]
    <3> HIDE DEF a, p
    <3> QED BY <2>1, <2>3, <2>5, <2>6 DEF p
  <2> QED BY <2>4, <2>7, Zenon DEF StreamHolds, Stream, Trace!Silence, Trace!Token
<1> QED BY <1>3, <1>4 DEF Trace!Line

(* The machine hands the next byte of the stream to the transmitter.       *)
LEMMA TransmitStep ==
  ASSUME LineTypes, StreamHolds, NEW token \in Tokens, token # Trace!Silence,
         Trace!Transmits(token), tr_cut' = tr_cut, tr_dumps' = tr_dumps,
         Position' = Position + 1, token = Stream[Position + 1]
  PROVE  LineTypes' /\ StreamHolds'
<1> DEFINE p == Position
           a == Arrived
<1>1. tr_sending = Trace!Silence /\ tr_sending' = token /\ tr_capture' = tr_capture
  BY DEF Trace!Transmits, Trace!tx_ready
<1>2. p = a /\ \A i \in 1 .. a : tr_capture[tr_cut + i] = Stream[i]
  BY <1>1 DEF StreamHolds, Stream
<1>3. LineTypes'
  BY <1>1 DEF LineTypes
<1>4. Arrived' = a /\ Stream' = Stream
  BY <1>1 DEF Arrived, Stream, Dumped
<1>5. /\ \A i \in 1 .. Arrived' : tr_capture'[tr_cut' + i] = Stream'[i]
      /\ tr_sending' = Trace!Silence => Position' = Arrived'
      /\ tr_sending' # Trace!Silence =>
           Position' = Arrived' + 1 /\ tr_sending' = Stream'[Arrived' + 1]
  <2> HIDE DEF a, p
  <2> QED BY <1>1, <1>2, <1>4 DEF p
<1> QED BY <1>3, <1>5, Zenon DEF StreamHolds, Stream, Trace!Silence, Trace!Token

(* An edge of the core's side of the ring, and what the dump machine keeps.*)
CoreEdge == Trace!CoreRetires /\ Trace!RamPorts /\ Trace!RamAccess /\ Trace!Push
Machine == MachineTypes /\ LineTypes /\ FreezeHolds /\ StreamHolds

(* Where the stream is, in the state the machine is in.                    *)
LEMMA PositionIs ==
  ASSUME TraceTypes, FreezeHolds
  PROVE  /\ Position \in Nat
         /\ tr_state \in Resting => Position = Size(tr_dumps, Len(tr_dumps))
         /\ tr_state \in {"HEADER"} \cup Walking =>
              /\ Before \in Nat /\ Len(tr_dumps) \in 1 .. Len(tr_dumps)
              /\ tr_dumps[Len(tr_dumps)] = tr_last
              /\ Len(tr_last) \in Nat
              /\ Size(tr_dumps, Len(tr_dumps)) = Before + 6 + 17 * Len(tr_last)
              /\ \A i \in 1 .. 6 + 17 * Len(tr_last) :
                   Stream[Before + i] = Trace!Dump(tr_last)[i]
<1>1. Position \in Nat
  BY PositionBound
<1>2. tr_state \in Resting => Position = Size(tr_dumps, Len(tr_dumps))
  BY DEF Position, Dumped, Size
<1>3. ASSUME tr_state \in {"HEADER"} \cup Walking
      PROVE  /\ Before \in Nat /\ Len(tr_dumps) \in 1 .. Len(tr_dumps)
             /\ tr_dumps[Len(tr_dumps)] = tr_last
             /\ Len(tr_last) \in Nat
             /\ Size(tr_dumps, Len(tr_dumps)) = Before + 6 + 17 * Len(tr_last)
             /\ \A i \in 1 .. 6 + 17 * Len(tr_last) :
                  Stream[Before + i] = Trace!Dump(tr_last)[i]
  <2> DEFINE N == Len(tr_dumps)
  <2>1. tr_dumps \in Seq(Seq(Nat)) /\ N \in Nat
    BY DEF TraceTypes, MachineTypes
  <2>2. N >= 1 /\ tr_dumps[N] = tr_last
    BY <1>3 DEF FreezeHolds
  <2>3. N \in 1 .. N
    BY <2>1, <2>2
  <2>4. Len(tr_last) \in Nat
    BY DEF TraceTypes, CoreTypes
  <2> HIDE DEF N
  <2>5. /\ Size(tr_dumps, N - 1) \in Nat
        /\ Size(tr_dumps, N) = Size(tr_dumps, N - 1) + 6 + 17 * Len(tr_dumps[N])
        /\ \A i \in 1 .. 6 + 17 * Len(tr_dumps[N]) :
             Trace!Whole(tr_dumps)[N][Size(tr_dumps, N - 1) + i] = Trace!Dump(tr_dumps[N])[i]
    <3>1. N \in 1 .. Len(tr_dumps)
      BY <2>3 DEF N
    <3> QED BY <2>1, <3>1, WholeStep
  <2>6. Before = Size(tr_dumps, N - 1) /\ Stream = Trace!Whole(tr_dumps)[N]
    BY DEF Before, Size, Stream, Dumped, N
  <2> QED BY <2>2, <2>3, <2>4, <2>5, <2>6 DEF N
<1> QED BY <1>1, <1>2, <1>3

(* Once the snapshot is taken the dump under way stays what it is.         *)
LEMMA StandsStill ==
  ASSUME TraceTypes, RingHolds, FreezeHolds, CoreEdge,
         tr_state \in {"HEADER"} \cup Walking, tr_dumps' = tr_dumps
  PROVE  /\ tr_retire' = -1 /\ tr_last' = tr_last /\ tr_write_ptr' = tr_write_ptr
         /\ ~tr_write_q'.en /\ Before' = Before /\ Stream' = Stream
         /\ tr_snapshot_count = Len(tr_last)
         /\ Len(tr_dumps') >= 1 /\ tr_dumps'[Len(tr_dumps')] = tr_last'
<1>1. tr_state # "IDLE" /\ tr_state # "QUIESCE_ONE"
  BY DEF Walking
<1>2. /\ tr_retire = -1 /\ tr_snapshot_count = Len(tr_last)
      /\ Len(tr_dumps) >= 1 /\ tr_dumps[Len(tr_dumps)] = tr_last
  BY <1>1 DEF FreezeHolds
<1>3. /\ tr_retire' = -1 /\ tr_last' = tr_last /\ tr_write_ptr' = tr_write_ptr /\ ~tr_write_q'.en
  BY <1>1, <1>2, CoreSide DEF CoreEdge
<1>4. Before' = Before /\ Stream' = Stream
  BY DEF Before, Stream, Dumped
<1> QED BY <1>2, <1>3, <1>4

(* The machine waits for the button.                                       *)
LEMMA IdleStep ==
  ASSUME TraceInv, CoreEdge, tr_cut' = tr_cut,
         NEW b \in BOOLEAN, Trace!Idle(b)
  PROVE  Machine'
<1>1. /\ tr_state = "IDLE" /\ Trace!Line /\ tr_state' \in {"IDLE", "QUIESCE_ONE"}
      /\ tr_dumps' = tr_dumps /\ tr_snapshot_count' = tr_snapshot_count
      /\ tr_read_ptr' = tr_read_ptr /\ tr_sent_records' = tr_sent_records
      /\ tr_byte_index' = tr_byte_index
  BY DEF Trace!Idle, Trace!registers
<1>2. MachineTypes'
  BY <1>1 DEF TraceInv, TraceTypes, MachineTypes, Resting
<1>3. FreezeHolds'
  BY <1>1 DEF FreezeHolds, Walking
<1>4. Position' = Position /\ Stream' = Stream
  BY <1>1 DEF Position, Resting, Dumped, Stream
<1>5. Position \in Nat
  BY PositionIs DEF TraceInv
<1> QED BY <1>1, <1>2, <1>3, <1>4, <1>5, LineStep DEF Machine, TraceInv, TraceTypes

(* The core stops retiring: what it retired at the last edge is still pushed.*)
LEMMA QuiesceOneStep ==
  ASSUME TraceInv, CoreEdge, tr_cut' = tr_cut, Trace!QuiesceOne
  PROVE  Machine'
<1>1. /\ tr_state = "QUIESCE_ONE" /\ Trace!Line /\ tr_state' = "QUIESCE_TWO"
      /\ tr_dumps' = tr_dumps /\ tr_snapshot_count' = tr_snapshot_count
      /\ tr_read_ptr' = tr_read_ptr /\ tr_sent_records' = tr_sent_records
      /\ tr_byte_index' = tr_byte_index
  BY DEF Trace!QuiesceOne, Trace!registers
<1>2. MachineTypes'
  BY <1>1 DEF TraceInv, TraceTypes, MachineTypes, Resting
<1>3. FreezeHolds'
  <2>1. tr_retire' = -1
    BY <1>1, CoreSide DEF CoreEdge, TraceInv
  <2> QED BY <1>1, <2>1 DEF FreezeHolds, Walking
<1>4. Position' = Position /\ Stream' = Stream
  BY <1>1 DEF Position, Resting, Dumped, Stream
<1>5. Position \in Nat
  BY PositionIs DEF TraceInv
<1> QED BY <1>1, <1>2, <1>3, <1>4, <1>5, LineStep DEF Machine, TraceInv, TraceTypes

(* The snapshot starts a dump of the last retirements behind the others.   *)
LEMMA SnapshotStep ==
  ASSUME TraceInv, CoreEdge, tr_cut' = tr_cut, Trace!Snapshot
  PROVE  Machine'
<1> DEFINE d == tr_dumps
           N == Len(d)
<1>1. /\ tr_state = "QUIESCE_TWO" /\ Trace!Line /\ tr_state' = "HEADER"
      /\ tr_dumps' = Append(tr_dumps, tr_last) /\ tr_snapshot_count' = tr_count
      /\ tr_read_ptr' = (tr_write_ptr - tr_count) % Ring /\ tr_sent_records' = 0
      /\ tr_byte_index' = 0
  BY DEF Trace!Snapshot
<1>2. /\ tr_retire = -1 /\ tr_count = Len(tr_last)
      /\ tr_retire' = -1 /\ tr_last' = tr_last /\ tr_write_ptr' = tr_write_ptr
      /\ ~tr_write_q'.en
  <2>1. tr_retire = -1
    BY <1>1 DEF TraceInv, FreezeHolds
  <2>2. tr_count = Len(tr_last)
    BY <2>1 DEF TraceInv, RingHolds
  <2>3. /\ tr_retire' = -1 /\ tr_last' = tr_last /\ tr_write_ptr' = tr_write_ptr
        /\ ~tr_write_q'.en
    BY <1>1, <2>1, CoreSide DEF CoreEdge, TraceInv
  <2> QED BY <2>1, <2>2, <2>3
<1>3. /\ d \in Seq(Seq(Nat)) /\ N \in Nat /\ tr_last \in Seq(Nat) /\ Len(tr_last) \in Nat
      /\ Len(tr_last) <= Ring /\ \A k \in 1 .. N : Len(d[k]) <= Ring
      /\ tr_write_ptr \in 0 .. Ring - 1 /\ Ring \in Nat \ {0}
  <2>1. /\ tr_last \in Seq(Nat) /\ Len(tr_last) <= Ring /\ tr_write_ptr \in 0 .. Ring - 1
        /\ Ring \in Nat \ {0}
    BY TraceAssumption DEF TraceInv, TraceTypes, CoreTypes, Addresses
  <2>2. d \in Seq(Seq(Nat)) /\ \A k \in DOMAIN d : Len(d[k]) <= Ring
    BY DEF TraceInv, TraceTypes, MachineTypes
  <2>3. N \in Nat /\ DOMAIN d = 1 .. N /\ Len(tr_last) \in Nat
    BY <2>1, <2>2
  <2> QED BY <2>1, <2>2, <2>3
<1>4. /\ d' \in Seq(Seq(Nat)) /\ Len(d') = N + 1 /\ d'[N + 1] = tr_last
      /\ \A k \in 1 .. N : d'[k] = d[k]
  <2> DEFINE S == Seq(Nat)
  <2>1. d \in Seq(S) /\ tr_last \in S
    BY <1>3
  <2> HIDE DEF S
  <2>2. /\ Append(d, tr_last) \in Seq(S) /\ Len(Append(d, tr_last)) = N + 1
        /\ Append(d, tr_last)[N + 1] = tr_last
        /\ \A k \in 1 .. N : Append(d, tr_last)[k] = d[k]
    BY <2>1
  <2> QED BY <2>2, <1>1 DEF S
<1>5. MachineTypes'
  <2>1. (tr_write_ptr - Len(tr_last)) % Ring \in Addresses
    <3> DEFINE z == Len(tr_last)
    <3>1. z \in Nat
      BY <1>3
    <3> HIDE DEF z
    <3>2. (tr_write_ptr - z) % Ring \in 0 .. Ring - 1
      BY <3>1, <1>3
    <3> QED BY <3>2 DEF z, Addresses
  <2>2. \A k \in 1 .. N + 1 : Len(d'[k]) <= Ring
    <3>1. \A k \in 1 .. N + 1 : k = N + 1 \/ k \in 1 .. N
      BY <1>3
    <3> HIDE DEF d, N
    <3> QED BY <3>1, <1>3, <1>4 DEF d
  <2>3. DOMAIN d' = 1 .. N + 1
    BY <1>4
  <2> QED BY <1>1, <1>2, <1>3, <1>4, <2>1, <2>2, <2>3 DEF MachineTypes
<1>6. FreezeHolds'
  <2>1. N + 1 >= 1 /\ tr_dumps'[Len(tr_dumps')] = tr_last'
    BY <1>2, <1>3, <1>4
  <2>2. tr_read_ptr' = (tr_write_ptr' - Len(tr_last') + tr_sent_records') % Ring
    <3> DEFINE z == Len(tr_last)
    <3>1. z \in Nat
      BY <1>3
    <3> HIDE DEF z
    <3>2. tr_write_ptr - z + 0 = tr_write_ptr - z
      BY <3>1, <1>3
    <3> QED BY <1>1, <1>2, <3>2 DEF z
  <2> QED BY <1>1, <1>2, <1>4, <2>1, <2>2 DEF FreezeHolds, Walking
<1>7. Trace!Whole(d')[N] = Trace!Whole(d)[N]
  <2>1. N \in 0 .. Len(d)
    BY <1>3
  <2> QED BY <1>1, <1>3, <2>1, WholeAppend
<1>8. Position' = Position /\ \A i \in 1 .. Position : Stream'[i] = Stream[i]
  <2>1. Position = Size(d, N) /\ Position \in Nat /\ Stream = Trace!Whole(d)[N]
    BY <1>1, PositionIs DEF Resting, TraceInv, Stream, Dumped
  <2>2. N + 1 \in 1 .. Len(d') /\ (N + 1) - 1 = N
    BY <1>3, <1>4
  <2>3. /\ Size(d', N) \in Nat
        /\ \A i \in 1 .. Size(d', N) : Trace!Whole(d')[N + 1][i] = Trace!Whole(d')[N][i]
    BY <1>4, <2>2, WholeStep
  <2>4. Position' = Before' + 0
    BY <1>1 DEF Position, Resting
  <2>5. Before' = Size(d', N) /\ Stream' = Trace!Whole(d')[N + 1]
    BY <1>4, <2>2 DEF Before, Dumped, Stream, Size
  <2>6. Size(d', N) = Size(d, N)
    BY <1>7 DEF Size
  <2> HIDE DEF d, N
  <2> QED BY <2>1, <2>3, <2>4, <2>5, <2>6, <1>7
<1>9. Position \in Nat
  BY PositionIs DEF TraceInv
<1> HIDE DEF d, N
<1> QED BY <1>1, <1>5, <1>6, <1>8, <1>9, LineStep DEF Machine, TraceInv, TraceTypes

(* Waiting leaves the machine where it is.                                 *)
LEMMA WaitStep ==
  ASSUME TraceInv, CoreEdge, tr_cut' = tr_cut, Trace!Line, tr_dumps' = tr_dumps,
         tr_state \in {"HEADER", "RECORD"}, UNCHANGED tr_state, UNCHANGED Trace!registers
  PROVE  Machine'
<1>1. /\ tr_state' = tr_state /\ tr_snapshot_count' = tr_snapshot_count
      /\ tr_read_ptr' = tr_read_ptr /\ tr_sent_records' = tr_sent_records
      /\ tr_byte_index' = tr_byte_index
  BY DEF Trace!registers
<1>2. /\ tr_state \in {"HEADER"} \cup Walking /\ tr_state \notin Resting
  BY DEF Walking, Resting
<1>3. /\ tr_retire' = -1 /\ tr_last' = tr_last /\ tr_write_ptr' = tr_write_ptr
      /\ ~tr_write_q'.en /\ Before' = Before /\ Stream' = Stream
      /\ tr_snapshot_count = Len(tr_last)
      /\ Len(tr_dumps') >= 1 /\ tr_dumps'[Len(tr_dumps')] = tr_last'
  BY <1>2, StandsStill DEF TraceInv
<1>4. MachineTypes'
  BY <1>1 DEF TraceInv, TraceTypes, MachineTypes
<1>5. tr_state = "RECORD" => ~tr_read_q'.en /\ tr_read_word' = tr_read_word
  BY DEF CoreEdge, Trace!RamPorts, Trace!RamAccess, TraceInv, FreezeHolds
<1>6. FreezeHolds'
  <2>1. FreezeHolds
    BY DEF TraceInv
  <2> QED BY <1>1, <1>2, <1>3, <1>5, <2>1 DEF FreezeHolds
<1>7. Position' = Position
  BY <1>1, <1>2, <1>3 DEF Position
<1>8. Position \in Nat
  BY PositionIs DEF TraceInv
<1> QED BY <1>3, <1>4, <1>6, <1>7, <1>8, LineStep DEF Machine, TraceInv, TraceTypes

(* The bytes of the header: a dump of nothing ends with the last.          *)
LEMMA HeaderStep ==
  ASSUME TraceInv, CoreEdge, tr_cut' = tr_cut, Trace!Header
  PROVE  Machine'
<1> DEFINE z == Len(tr_last)
           base == Before
           b == tr_byte_index
           next == Trace!HeaderOf(tr_snapshot_count)[b + 1]
<1>1. tr_state = "HEADER" /\ tr_dumps' = tr_dumps
  BY DEF Trace!Header
<1>2. tr_state \in {"HEADER"} \cup Walking /\ tr_state \notin Resting /\ tr_state \notin Walking
  BY <1>1 DEF Walking, Resting
<1>3. /\ tr_retire' = -1 /\ tr_last' = tr_last /\ tr_write_ptr' = tr_write_ptr
      /\ ~tr_write_q'.en /\ Before' = base /\ Stream' = Stream
      /\ tr_snapshot_count = z
      /\ Len(tr_dumps') >= 1 /\ tr_dumps'[Len(tr_dumps')] = tr_last'
  BY <1>1, <1>2, StandsStill DEF TraceInv
<1>4. /\ base \in Nat /\ z \in Nat /\ Position \in Nat /\ tr_last \in Seq(Nat)
      /\ Size(tr_dumps, Len(tr_dumps)) = base + 6 + 17 * z
      /\ \A i \in 1 .. 6 + 17 * z : Stream[base + i] = Trace!Dump(tr_last)[i]
  BY <1>2, PositionIs DEF TraceInv, TraceTypes, CoreTypes
<1>5. /\ Position = base + b /\ tr_sent_records = 0 /\ b \in 0 .. 5
      /\ tr_read_ptr = (tr_write_ptr - z + tr_sent_records) % Ring
  BY <1>1, <1>2 DEF Position, TraceInv, FreezeHolds
<1>6. next \in Tokens /\ next # Trace!Silence /\ next = Stream[Position + 1]
  <2>1. b + 1 \in 1 .. 6 /\ b + 1 \in 1 .. 6 + 17 * z /\ Position + 1 = base + (b + 1)
    <3>1. base \in Nat /\ z \in Nat /\ Position = base + b /\ b \in 0 .. 5
      BY <1>4, <1>5
    <3> HIDE DEF z, base, b
    <3>2. b + 1 \in 1 .. 6 /\ Position + 1 = base + (b + 1)
      BY <3>1
    <3>3. b + 1 \in 1 .. 6 + 17 * z
      BY <3>1
    <3> QED BY <3>2, <3>3
  <2>2. Stream[base + (b + 1)] = Trace!Dump(tr_last)[b + 1]
    BY <2>1, <1>4
  <2>3. Trace!Dump(tr_last)[b + 1] = Trace!HeaderOf(z)[b + 1]
    BY <2>1, <1>4, DumpIs
  <2>4. Trace!HeaderOf(z)[b + 1] \in Tokens /\ Trace!HeaderOf(z)[b + 1] # Trace!Silence
    BY <2>1, <1>4, HeaderIs
  <2> QED BY <2>1, <2>2, <2>3, <2>4, <1>3
<1>7. CASE Trace!Line /\ UNCHANGED tr_state /\ UNCHANGED Trace!registers
  BY <1>1, <1>7, WaitStep
<1>8. CASE /\ b + 1 # 6 /\ Trace!Transmits(next) /\ tr_byte_index' = b + 1
           /\ UNCHANGED <<tr_state, tr_snapshot_count, tr_read_ptr, tr_sent_records>>
  <2>1. /\ tr_state' = tr_state /\ tr_snapshot_count' = tr_snapshot_count
        /\ tr_read_ptr' = tr_read_ptr /\ tr_sent_records' = tr_sent_records
        /\ tr_byte_index' = b + 1 /\ b + 1 \in 0 .. 5 /\ b + 1 \in Nat
    BY <1>5, <1>8
  <2>2. MachineTypes'
    BY <1>1, <2>1 DEF TraceInv, TraceTypes, MachineTypes
  <2>3. FreezeHolds'
    BY <1>1, <1>2, <1>3, <1>5, <2>1 DEF FreezeHolds
  <2>4. Position' = Position + 1
    <3>1. Position' = Before' + (b + 1)
      BY <1>1, <1>2, <2>1 DEF Position
    <3> HIDE DEF base, z, b
    <3> QED BY <3>1, <1>3, <1>4, <1>5
  <2>5. LineTypes' /\ StreamHolds'
    <3> HIDE DEF next
    <3> QED BY <1>1, <1>6, <1>8, <2>4, TransmitStep DEF TraceInv, TraceTypes
  <2> QED BY <2>2, <2>3, <2>5 DEF Machine
<1>9. CASE /\ b + 1 = 6 /\ Trace!Transmits(next)
           /\ tr_state' = (IF tr_snapshot_count = 0 THEN "IDLE" ELSE "FETCH")
           /\ UNCHANGED <<tr_byte_index, tr_snapshot_count, tr_read_ptr, tr_sent_records>>
  <2>1. /\ tr_state' = (IF z = 0 THEN "IDLE" ELSE "FETCH") /\ tr_snapshot_count' = z
        /\ tr_read_ptr' = tr_read_ptr /\ tr_sent_records' = 0
        /\ tr_byte_index' = b /\ b = 5
    BY <1>3, <1>5, <1>9
  <2>2. MachineTypes'
    BY <1>1, <1>4, <2>1 DEF TraceInv, TraceTypes, MachineTypes, Resting, Walking
  <2>3. FreezeHolds'
    <3>1. tr_state' = "FETCH" => 0 < Len(tr_last')
      <4> HIDE DEF z
      <4>1. tr_state' = "FETCH" => 0 < z
        BY <2>1, <1>4
      <4> QED BY <4>1, <1>3 DEF z
    <3> QED BY <1>3, <1>5, <2>1, <3>1 DEF FreezeHolds, Walking
  <2>4. Position' = Position + 1
    <3>1. CASE z = 0
      <4>1. tr_state' \in Resting
        BY <2>1, <3>1 DEF Resting
      <4>2. Position' = Size(tr_dumps, Len(tr_dumps))
        BY <1>1, <4>1 DEF Position, Dumped, Size
      <4> HIDE DEF base, z, b
      <4> QED BY <4>2, <1>4, <1>5, <2>1, <3>1
    <3>2. CASE z # 0
      <4>1. tr_state' = "FETCH" /\ tr_state' \notin Resting
        BY <2>1, <3>2 DEF Resting
      <4>2. Position' = Before' + 6 + 17 * tr_sent_records'
        BY <4>1 DEF Position
      <4> HIDE DEF base, z, b
      <4> QED BY <4>2, <1>3, <1>4, <1>5, <2>1
    <3> QED BY <3>1, <3>2
  <2>5. LineTypes' /\ StreamHolds'
    <3> HIDE DEF next
    <3> QED BY <1>1, <1>6, <1>9, <2>4, TransmitStep DEF TraceInv, TraceTypes
  <2> QED BY <2>2, <2>3, <2>5 DEF Machine
<1> QED
  <2>1. \/ Trace!Line /\ UNCHANGED <<tr_state, Trace!registers>>
        \/ /\ Trace!Transmits(next)
           /\ IF b + 1 = Trace!HeaderBytes
              THEN /\ tr_state' = (IF tr_snapshot_count = 0 THEN "IDLE" ELSE "FETCH")
                   /\ UNCHANGED tr_byte_index
              ELSE tr_byte_index' = b + 1 /\ UNCHANGED tr_state
           /\ UNCHANGED <<tr_snapshot_count, tr_read_ptr, tr_sent_records>>
    BY Zenon DEF Trace!Header
  <2>2. Trace!HeaderBytes = 6
    BY DEF Trace!HeaderBytes
  <2> HIDE DEF next
  <2>3. CASE Trace!Line /\ UNCHANGED <<tr_state, Trace!registers>>
    BY <2>3, <1>7
  <2>4. CASE b + 1 = 6 /\ ~(Trace!Line /\ UNCHANGED <<tr_state, Trace!registers>>)
    BY <2>1, <2>2, <2>4, <1>9
  <2>5. CASE b + 1 # 6 /\ ~(Trace!Line /\ UNCHANGED <<tr_state, Trace!registers>>)
    BY <2>1, <2>2, <2>5, <1>8
  <2> QED BY <2>3, <2>4, <2>5

(* The read address goes to the RAM.                                       *)
LEMMA FetchStep ==
  ASSUME TraceInv, CoreEdge, tr_cut' = tr_cut, Trace!Fetch
  PROVE  Machine'
<1>1. /\ tr_state = "FETCH" /\ Trace!Line /\ tr_state' = "FETCH_WAIT" /\ tr_byte_index' = 0
      /\ tr_dumps' = tr_dumps /\ tr_snapshot_count' = tr_snapshot_count
      /\ tr_read_ptr' = tr_read_ptr /\ tr_sent_records' = tr_sent_records
  BY DEF Trace!Fetch
<1>2. tr_state \in {"HEADER"} \cup Walking /\ tr_state \in Walking
  BY <1>1 DEF Walking
<1>3. /\ tr_retire' = -1 /\ tr_last' = tr_last /\ tr_write_ptr' = tr_write_ptr
      /\ ~tr_write_q'.en /\ Before' = Before /\ Stream' = Stream
      /\ tr_snapshot_count = Len(tr_last)
      /\ Len(tr_dumps') >= 1 /\ tr_dumps'[Len(tr_dumps')] = tr_last'
  BY <1>1, <1>2, StandsStill DEF TraceInv
<1>4. MachineTypes'
  BY <1>1 DEF TraceInv, TraceTypes, MachineTypes, Walking
<1>5. tr_read_q'.en /\ tr_read_q'.addr = tr_read_ptr
  BY <1>1 DEF CoreEdge, Trace!RamPorts
<1>6. FreezeHolds'
  <2>1. /\ tr_read_ptr = (tr_write_ptr - Len(tr_last) + tr_sent_records) % Ring
        /\ tr_sent_records < Len(tr_last)
    BY <1>2 DEF TraceInv, FreezeHolds
  <2> QED BY <1>1, <1>3, <1>5, <2>1 DEF FreezeHolds, Walking
<1>7. Position' = Position
  BY <1>1, <1>3 DEF Position, Resting
<1>8. Position \in Nat
  BY PositionIs DEF TraceInv
<1> QED BY <1>1, <1>3, <1>4, <1>6, <1>7, <1>8, LineStep DEF Machine, TraceInv, TraceTypes

(* What is read at the read pointer is the next of the last retirements.   *)
LEMMA FetchWaitStep ==
  ASSUME TraceInv, CoreEdge, tr_cut' = tr_cut, Trace!FetchWait
  PROVE  Machine'
<1> DEFINE z == Len(tr_last)
           s == tr_sent_records
           w == tr_write_ptr
<1>1. /\ tr_state = "FETCH_WAIT" /\ Trace!Line /\ tr_state' = "RECORD"
      /\ tr_byte_index' = tr_byte_index
      /\ tr_dumps' = tr_dumps /\ tr_snapshot_count' = tr_snapshot_count
      /\ tr_read_ptr' = tr_read_ptr /\ tr_sent_records' = tr_sent_records
  BY DEF Trace!FetchWait, Trace!registers
<1>2. tr_state \in {"HEADER"} \cup Walking /\ tr_state \in Walking
  BY <1>1 DEF Walking
<1>3. /\ tr_retire' = -1 /\ tr_last' = tr_last /\ tr_write_ptr' = tr_write_ptr
      /\ ~tr_write_q'.en /\ Before' = Before /\ Stream' = Stream
      /\ tr_snapshot_count = Len(tr_last)
      /\ Len(tr_dumps') >= 1 /\ tr_dumps'[Len(tr_dumps')] = tr_last'
  BY <1>1, <1>2, StandsStill DEF TraceInv
<1>4. MachineTypes'
  BY <1>1 DEF TraceInv, TraceTypes, MachineTypes, Walking
<1>5. /\ tr_read_ptr = (w - z + s) % Ring /\ s < z
      /\ tr_read_q.en /\ tr_read_q.addr = tr_read_ptr /\ tr_byte_index = 0
      /\ tr_retire = -1 /\ ~tr_write_q.en
  BY <1>1, <1>2 DEF TraceInv, FreezeHolds
<1>6. ~tr_read_q'.en /\ tr_read_word' = tr_entries[tr_read_ptr]
  BY <1>1, <1>5 DEF CoreEdge, Trace!RamPorts, Trace!RamAccess
<1>7. tr_read_word' = tr_last[s + 1]
  <2> DEFINE i == z - s
  <2>1. z \in Nat /\ s \in Nat /\ w \in Int
    BY DEF TraceInv, TraceTypes, CoreTypes, MachineTypes, Addresses
  <2>2. \A j \in 1 .. z - 0 :
          Kept(tr_write_q, tr_entries, (w - j) % Ring) = tr_last[z + 1 - 0 - j]
    BY <1>5 DEF TraceInv, RingHolds, Pending
  <2> HIDE DEF z, s, w
  <2>3. i \in 1 .. z - 0 /\ w - i = w - z + s /\ z + 1 - 0 - i = s + 1
    BY <2>1, <1>5
  <2>4. Kept(tr_write_q, tr_entries, tr_read_ptr) = tr_last[s + 1]
    BY <2>2, <2>3, <1>5
  <2> QED BY <2>4, <1>5, <1>6 DEF Kept
<1>8. FreezeHolds'
  BY <1>1, <1>3, <1>5, <1>6, <1>7 DEF FreezeHolds, Walking
<1>9. Position \in Nat
  BY PositionIs DEF TraceInv
<1>10. Position' = Position
  <2>1. /\ Position = Before + 6 + 17 * s
        /\ Position' = Before' + 6 + 17 * s + tr_byte_index'
    BY <1>1 DEF Position, Resting
  <2>2. Before \in Nat /\ s \in Nat
    BY <1>2, PositionIs DEF TraceInv, TraceTypes, MachineTypes
  <2> HIDE DEF s
  <2> QED BY <2>1, <2>2, <1>1, <1>3, <1>5
<1> QED BY <1>1, <1>3, <1>4, <1>8, <1>9, <1>10, LineStep DEF Machine, TraceInv, TraceTypes

(* The read pointer, counted from the first record.                        *)
LEMMA NextAddress ==
  ASSUME NEW x \in Int PROVE ((x % Ring) + 1) % Ring = (x + 1) % Ring
<1>1. Ring \in Nat \ {0}
  BY TraceAssumption
<1> DEFINE q == x \div Ring
           r == x % Ring
<1>2. x = Ring * q + r /\ q \in Int /\ r \in 0 .. Ring - 1
  BY <1>1
<1> HIDE DEF q, r
<1>3. CASE r < Ring - 1
  <2>1. x + 1 = Ring * q + (r + 1) /\ r + 1 \in 0 .. Ring - 1
    BY <1>1, <1>2, <1>3
  <2>2. (x + 1) % Ring = r + 1 /\ (r + 1) % Ring = r + 1
    BY <1>1, <1>2, <2>1
  <2> QED BY <2>2 DEF r
<1>4. CASE r = Ring - 1
  <2>1. x + 1 = Ring * (q + 1) + 0 /\ q + 1 \in Int /\ r + 1 = Ring
    BY <1>1, <1>2, <1>4
  <2>2. (x + 1) % Ring = 0 /\ (r + 1) % Ring = 0
    BY <1>1, <1>2, <2>1
  <2> QED BY <2>2 DEF r
<1> QED BY <1>2, <1>3, <1>4, <1>1

(* The bytes of a record, then the next record or the end of the dump.     *)
LEMMA SendRecordStep ==
  ASSUME TraceInv, CoreEdge, tr_cut' = tr_cut, Trace!SendRecord
  PROVE  Machine'
<1> DEFINE z == Len(tr_last)
           base == Before
           s == tr_sent_records
           v == tr_last[s + 1]
           w == tr_write_ptr
           b == tr_byte_index
           next == Trace!Token("record", b + 1, tr_read_word)
<1>1. tr_state = "RECORD" /\ tr_dumps' = tr_dumps
  BY DEF Trace!SendRecord
<1>2. tr_state \in {"HEADER"} \cup Walking /\ tr_state \notin Resting /\ tr_state \in Walking
  BY <1>1 DEF Walking, Resting
<1>3. /\ tr_retire' = -1 /\ tr_last' = tr_last /\ tr_write_ptr' = w
      /\ ~tr_write_q'.en /\ Before' = base /\ Stream' = Stream
      /\ tr_snapshot_count = z
      /\ Len(tr_dumps') >= 1 /\ tr_dumps'[Len(tr_dumps')] = tr_last'
  BY <1>1, <1>2, StandsStill DEF TraceInv
<1>4. /\ base \in Nat /\ z \in Nat /\ Position \in Nat /\ tr_last \in Seq(Nat)
      /\ s \in Nat /\ w \in Int
      /\ Size(tr_dumps, Len(tr_dumps)) = base + 6 + 17 * z
      /\ \A i \in 1 .. 6 + 17 * z : Stream[base + i] = Trace!Dump(tr_last)[i]
  <2>1. /\ base \in Nat /\ z \in Nat /\ Position \in Nat
        /\ Size(tr_dumps, Len(tr_dumps)) = base + 6 + 17 * z
        /\ \A i \in 1 .. 6 + 17 * z : Stream[base + i] = Trace!Dump(tr_last)[i]
    BY <1>2, PositionIs DEF TraceInv
  <2>2. tr_last \in Seq(Nat) /\ s \in Nat /\ w \in Int
    BY DEF TraceInv, TraceTypes, CoreTypes, MachineTypes, Addresses
  <2> QED BY <2>1, <2>2
<1>5. /\ Position = base + 6 + 17 * s + b /\ s < z
      /\ tr_read_ptr = (w - z + s) % Ring /\ tr_read_word = v
      /\ b \in 0 .. 16 /\ ~tr_read_q.en
  BY <1>1, <1>2 DEF Position, TraceInv, FreezeHolds
<1>6. next \in Tokens /\ next # Trace!Silence /\ next = Stream[Position + 1]
  <2> DEFINE n == s + 1
             j == b + 1
             m == 6 + 17 * (n - 1) + j
  <2>1. /\ n \in 1 .. z /\ j \in 1 .. 17 /\ j \in Nat /\ m \in 1 .. 6 + 17 * z
        /\ Position + 1 = base + m
    <3> HIDE DEF z, base, s, b
    <3> QED BY <1>4, <1>5
  <2>2. v \in Nat
    <3> HIDE DEF n, z
    <3>1. n \in 1 .. Len(tr_last) /\ tr_last \in Seq(Nat)
      BY <2>1, <1>4 DEF z
    <3>2. tr_last[n] \in Nat
      BY <3>1
    <3> QED BY <3>2 DEF n
  <2>3. Trace!Dump(tr_last)[m] = Trace!Token("record", j, tr_last[n])
    <3> HIDE DEF n, j
    <3> QED BY <2>1, <1>4, DumpIs
  <2>4. next = Trace!Token("record", j, v)
    BY <1>5
  <2>5. Trace!Token("record", j, v) \in Tokens /\ Trace!Token("record", j, v) # Trace!Silence
    BY <2>1, <2>2, TokensAre
  <2> HIDE DEF m
  <2>6. Stream[base + m] = Trace!Dump(tr_last)[m]
    BY <2>1, <1>4
  <2> QED BY <2>1, <2>3, <2>4, <2>5, <2>6
<1>7. CASE Trace!Line /\ UNCHANGED tr_state /\ UNCHANGED Trace!registers
  BY <1>1, <1>7, WaitStep
<1>8. CASE /\ b + 1 # 17 /\ Trace!Transmits(next) /\ tr_byte_index' = b + 1
           /\ UNCHANGED <<tr_state, tr_snapshot_count, tr_read_ptr, tr_sent_records>>
  <2>1. /\ tr_state' = tr_state /\ tr_snapshot_count' = tr_snapshot_count
        /\ tr_read_ptr' = tr_read_ptr /\ tr_sent_records' = s
        /\ tr_byte_index' = b + 1 /\ b + 1 \in 0 .. 16 /\ b + 1 \in Nat
    BY <1>5, <1>8
  <2>2. MachineTypes'
    BY <1>1, <2>1 DEF TraceInv, TraceTypes, MachineTypes
  <2>3. ~tr_read_q'.en /\ tr_read_word' = tr_read_word
    BY <1>1, <1>5 DEF CoreEdge, Trace!RamPorts, Trace!RamAccess
  <2>4. FreezeHolds'
    BY <1>1, <1>3, <1>5, <2>1, <2>3 DEF FreezeHolds, Walking
  <2>5. Position' = Position + 1
    <3>1. Position' = Before' + 6 + 17 * s + (b + 1)
      BY <1>1, <1>2, <2>1 DEF Position
    <3> HIDE DEF base, s, b
    <3>2. /\ base \in Nat /\ s \in Nat /\ Before' = base /\ b \in Nat
          /\ Position = base + 6 + 17 * s + b
      BY <1>3, <1>4, <1>5
    <3> QED BY <3>1, <3>2
  <2>6. LineTypes' /\ StreamHolds'
    <3> HIDE DEF next
    <3> QED BY <1>1, <1>6, <1>8, <2>5, TransmitStep DEF TraceInv, TraceTypes
  <2> QED BY <2>2, <2>4, <2>6 DEF Machine
<1>9. CASE /\ b + 1 = 17 /\ Trace!Transmits(next)
           /\ tr_sent_records' = s + 1 /\ tr_read_ptr' = (tr_read_ptr + 1) % Ring
           /\ tr_state' = (IF s + 1 = tr_snapshot_count THEN "IDLE" ELSE "FETCH")
           /\ UNCHANGED <<tr_snapshot_count, tr_byte_index>>
  <2>1. /\ tr_state' = (IF s + 1 = z THEN "IDLE" ELSE "FETCH") /\ tr_snapshot_count' = z
        /\ tr_sent_records' = s + 1 /\ tr_byte_index' = b /\ b = 16
    BY <1>3, <1>5, <1>9
  <2>2. tr_read_ptr' = (w - z + (s + 1)) % Ring /\ tr_read_ptr' \in Addresses
    <3> DEFINE x == w - z + s
    <3>1. x \in Int /\ x + 1 = w - z + (s + 1)
      <4> HIDE DEF w, z, s
      <4> QED BY <1>4
    <3>2. tr_read_ptr' = ((x % Ring) + 1) % Ring
      BY <1>5, <1>9
    <3> HIDE DEF x
    <3>3. tr_read_ptr' = (x + 1) % Ring
      BY <3>1, <3>2, NextAddress
    <3>4. (x + 1) % Ring \in 0 .. Ring - 1
      BY <3>1, TraceAssumption
    <3> QED BY <3>1, <3>3, <3>4 DEF Addresses
  <2>3. MachineTypes'
    <3>1. s + 1 \in Nat
      BY <1>4
    <3> QED BY <1>1, <1>4, <2>1, <2>2, <3>1
            DEF TraceInv, TraceTypes, MachineTypes, Resting, Walking
  <2>4. FreezeHolds'
    <3>1. tr_state' = "FETCH" => tr_sent_records' < Len(tr_last')
      <4>1. tr_state' = "FETCH" => s + 1 # z
        BY <2>1
      <4>2. s + 1 # z => s + 1 < z
        <5> HIDE DEF s, z
        <5> QED BY <1>4, <1>5
      <4> QED BY <4>1, <4>2, <1>3, <2>1
    <3> QED BY <1>3, <2>1, <2>2, <3>1 DEF FreezeHolds, Walking
  <2>5. Position' = Position + 1
    <3>1. CASE s + 1 = z
      <4>1. tr_state' \in Resting
        BY <2>1, <3>1 DEF Resting
      <4>2. Position' = Size(tr_dumps, Len(tr_dumps))
        BY <1>1, <4>1 DEF Position, Dumped, Size
      <4> HIDE DEF base, z, s, b
      <4>3. /\ base \in Nat /\ s \in Nat /\ z \in Nat /\ b = 16
            /\ Size(tr_dumps, Len(tr_dumps)) = base + 6 + 17 * z
            /\ Position = base + 6 + 17 * s + b
        BY <1>4, <1>5, <2>1
      <4> QED BY <3>1, <4>2, <4>3
    <3>2. CASE s + 1 # z
      <4>1. tr_state' = "FETCH" /\ tr_state' \notin Resting
        BY <2>1, <3>2 DEF Resting
      <4>2. Position' = Before' + 6 + 17 * tr_sent_records'
        BY <4>1 DEF Position
      <4> HIDE DEF base, z, s, b
      <4> QED BY <4>2, <1>3, <1>4, <1>5, <2>1
    <3> QED BY <3>1, <3>2
  <2>6. LineTypes' /\ StreamHolds'
    <3> HIDE DEF next
    <3> QED BY <1>1, <1>6, <1>9, <2>5, TransmitStep DEF TraceInv, TraceTypes
  <2> QED BY <2>3, <2>4, <2>6 DEF Machine
<1> QED
  <2>1. \/ Trace!Line /\ UNCHANGED <<tr_state, Trace!registers>>
        \/ /\ Trace!Transmits(next)
           /\ IF b + 1 = Trace!RecordBytes
              THEN /\ tr_sent_records' = s + 1 /\ tr_read_ptr' = (tr_read_ptr + 1) % Ring
                   /\ tr_state' = (IF s + 1 = tr_snapshot_count THEN "IDLE" ELSE "FETCH")
                   /\ UNCHANGED tr_byte_index
              ELSE tr_byte_index' = b + 1 /\ UNCHANGED <<tr_state, tr_read_ptr, tr_sent_records>>
           /\ UNCHANGED tr_snapshot_count
    BY Zenon DEF Trace!SendRecord
  <2>2. Trace!RecordBytes = 17
    BY DEF Trace!RecordBytes
  <2> HIDE DEF next
  <2>3. CASE Trace!Line /\ UNCHANGED <<tr_state, Trace!registers>>
    BY <2>3, <1>7
  <2>4. CASE b + 1 = 17 /\ ~(Trace!Line /\ UNCHANGED <<tr_state, Trace!registers>>)
    BY <2>1, <2>2, <2>4, <1>9
  <2>5. CASE b + 1 # 17 /\ ~(Trace!Line /\ UNCHANGED <<tr_state, Trace!registers>>)
    BY <2>1, <2>2, <2>5, <1>8
  <2> QED BY <2>3, <2>4, <2>5

(* A reset forgets the retirements and the dumps; the host goes on with its*)
(* capture or begins another.                                              *)
LEMMA ResetStep ==
  ASSUME TraceInv, Trace!Reset
  PROVE  CoreTypes' /\ RingHolds' /\ Machine'
<1>1. /\ tr_state' = "IDLE" /\ tr_count' = 0 /\ tr_write_ptr' = 0 /\ tr_read_ptr' = 0
      /\ tr_snapshot_count' = 0 /\ tr_sent_records' = 0 /\ tr_byte_index' = 0
      /\ tr_write_q' = Trace!NoWrite /\ tr_read_q' = Trace!NoRead
      /\ tr_retire' = -1 /\ tr_last' = <<>> /\ tr_sending' = Trace!Silence
      /\ tr_dumps' = <<>> /\ tr_cut' = Len(tr_capture') /\ tr_next' = tr_next
      /\ tr_capture' = IF KeepsCapture THEN tr_capture ELSE <<>>
  BY DEF Trace!Reset, Trace!NoRetire
<1>2. tr_entries' \in [Addresses -> Int]
  BY WriteDrains DEF Trace!Reset, TraceInv
<1>3. 0 \in Addresses /\ 0 \in 0 .. Ring
  BY TraceAssumption DEF Addresses
<1>4. CoreTypes'
  <2>1. Trace!NoWrite \in [en : BOOLEAN, addr : Addresses, data : Int]
    BY <1>3 DEF Trace!NoWrite
  <2>2. Trace!NoRead \in [en : BOOLEAN, addr : Addresses]
    BY <1>3 DEF Trace!NoRead
  <2>3. <<>> \in Seq(Nat) /\ Len(<<>>) <= Ring
    BY TraceAssumption
  <2>4. tr_next \in Nat
    BY DEF TraceInv, TraceTypes, CoreTypes
  <2> QED BY <1>1, <1>2, <1>3, <2>1, <2>2, <2>3, <2>4 DEF CoreTypes
<1>5. RingHolds'
  <2>1. tr_retire' = -1 /\ Len(tr_last') = 0 /\ tr_count' = 0 /\ 1 .. 0 - 0 = {}
    BY <1>1
  <2> QED BY <2>1 DEF RingHolds, Pending
<1>6. MachineTypes'
  <2>1. <<>> \in Seq(Seq(Nat)) /\ DOMAIN <<>> = {}
    OBVIOUS
  <2> QED BY <1>1, <1>3, <2>1 DEF MachineTypes, Resting
<1>7. FreezeHolds'
  BY <1>1 DEF FreezeHolds, Walking
<1>8. LineTypes'
  <2>1. tr_capture \in Seq(Tokens) /\ <<>> \in Seq(Tokens)
    BY DEF TraceInv, TraceTypes, LineTypes
  <2>2. tr_capture' \in Seq(Tokens)
    BY <2>1, <1>1
  <2>3. Len(tr_capture') \in 0 .. Len(tr_capture')
    BY <2>2
  <2> QED BY <1>1, <2>2, <2>3, TokensAre DEF LineTypes
<1>9. StreamHolds'
  <2>1. Arrived' = 0
    <3>1. Len(tr_capture') \in Nat
      BY <1>8 DEF LineTypes
    <3> QED BY <1>1, <3>1 DEF Arrived
  <2>2. Position' = 0
    <3> DEFINE e == tr_dumps'
    <3>1. e = <<>> /\ Len(e) = 0 /\ e \in Seq(Seq(Nat))
      BY <1>1
    <3> HIDE DEF e
    <3>2. Trace!Whole(e)[0] = <<>>
      BY <3>1, WholeIs
    <3>3. Position' = Len(Trace!Whole(e)[Len(e)])
      BY <1>1 DEF Position, Resting, Dumped, e
    <3>4. Len(<<>>) = 0
      OBVIOUS
    <3> QED BY <3>1, <3>2, <3>3, <3>4
  <2>3. /\ \A i \in 1 .. Arrived' : tr_capture'[tr_cut' + i] = Stream'[i]
        /\ tr_sending' = Trace!Silence /\ Position' = Arrived'
    BY <1>1, <2>1, <2>2
  <2> QED BY <2>3, Zenon DEF StreamHolds, Stream, Trace!Silence, Trace!Token
<1> QED BY <1>4, <1>5, <1>6, <1>7, <1>8, <1>9 DEF Machine

(* Every edge and every reset keep the invariant.                          *)
LEMMA TraceStep == TraceInv /\ [Trace!Next]_(Trace!vars) => TraceInv'
<1> SUFFICES ASSUME TraceInv, [Trace!Next]_(Trace!vars) PROVE TraceInv'
  OBVIOUS
<1>1. TraceInv' <=> CoreTypes' /\ RingHolds' /\ Machine'
  BY Zenon DEF TraceInv, TraceTypes, Machine
<1>2. CASE Trace!Edge
  <2>1. CoreEdge /\ tr_cut' = tr_cut
    BY <1>2 DEF Trace!Edge, CoreEdge
  <2>2. CoreTypes' /\ RingHolds'
    BY <2>1, CoreSide DEF CoreEdge, TraceInv
  <2>3. \/ \E b \in BOOLEAN : Trace!Idle(b)
        \/ Trace!QuiesceOne \/ Trace!Snapshot \/ Trace!Header \/ Trace!Fetch
        \/ Trace!FetchWait \/ Trace!SendRecord
    BY <1>2, Zenon DEF Trace!Edge
  <2>4. Machine'
    BY <2>1, <2>3, IdleStep, QuiesceOneStep, SnapshotStep, HeaderStep, FetchStep,
       FetchWaitStep, SendRecordStep, Zenon
  <2> QED BY <1>1, <2>2, <2>4
<1>3. CASE Trace!Reset
  BY <1>1, <1>3, ResetStep
<1>4. CASE UNCHANGED Trace!vars
  <2>1. CoreTypes' /\ RingHolds'
    BY <1>4 DEF TraceInv, TraceTypes, CoreTypes, RingHolds, Pending, Kept, Trace!vars
  <2>2. MachineTypes' /\ LineTypes' /\ FreezeHolds'
    BY <1>4 DEF TraceInv, TraceTypes, MachineTypes, LineTypes, FreezeHolds, Trace!vars
  <2>3. StreamHolds'
    BY <1>4 DEF TraceInv, StreamHolds, Arrived, Position, Before, Dumped, Trace!vars
  <2> QED BY <1>1, <2>1, <2>2, <2>3 DEF Machine
<1> QED BY <1>2, <1>3, <1>4 DEF Trace!Next

(* Nothing is retired and nothing dumped at power on.                      *)
LEMMA TraceStarts == Trace!Init => TraceInv
<1> SUFFICES ASSUME Trace!Init PROVE TraceInv
  OBVIOUS
<1>1. /\ tr_state = "IDLE" /\ tr_count = 0 /\ tr_write_ptr = 0 /\ tr_read_ptr = 0
      /\ tr_snapshot_count = 0 /\ tr_sent_records = 0 /\ tr_byte_index = 0
      /\ tr_write_q = Trace!NoWrite /\ tr_read_q = Trace!NoRead
      /\ tr_retire = -1 /\ tr_last = <<>> /\ tr_sending = Trace!Silence
      /\ tr_dumps = <<>> /\ tr_cut = 0 /\ tr_capture = <<>> /\ tr_next = 0
      /\ tr_entries = [a \in 0 .. Ring - 1 |-> 0]
  BY DEF Trace!Init, Trace!NoRetire
<1>2. 0 \in Addresses /\ 0 \in 0 .. Ring
  BY TraceAssumption DEF Addresses
<1>3. CoreTypes
  <2>1. Trace!NoWrite \in [en : BOOLEAN, addr : Addresses, data : Int]
    BY <1>2 DEF Trace!NoWrite
  <2>2. Trace!NoRead \in [en : BOOLEAN, addr : Addresses]
    BY <1>2 DEF Trace!NoRead
  <2>3. <<>> \in Seq(Nat) /\ Len(<<>>) <= Ring
    BY TraceAssumption
  <2>4. tr_entries \in [Addresses -> Int]
    BY <1>1 DEF Addresses
  <2> QED BY <1>1, <1>2, <2>1, <2>2, <2>3, <2>4 DEF CoreTypes
<1>4. RingHolds
  <2>1. tr_retire = -1 /\ Len(tr_last) = 0 /\ tr_count = 0 /\ 1 .. 0 - 0 = {}
    BY <1>1
  <2> QED BY <2>1 DEF RingHolds, Pending
<1>5. MachineTypes
  <2>1. <<>> \in Seq(Seq(Nat)) /\ DOMAIN <<>> = {}
    OBVIOUS
  <2> QED BY <1>1, <1>2, <2>1 DEF MachineTypes, Resting
<1>6. FreezeHolds
  BY <1>1 DEF FreezeHolds, Walking
<1>7. LineTypes
  <2>1. <<>> \in Seq(Tokens) /\ 0 \in 0 .. Len(<<>>)
    OBVIOUS
  <2> QED BY <1>1, <2>1, TokensAre DEF LineTypes
<1>8. StreamHolds
  <2>1. Arrived = 0
    BY <1>1 DEF Arrived
  <2>2. Position = 0
    <3> DEFINE e == tr_dumps
    <3>1. e = <<>> /\ Len(e) = 0 /\ e \in Seq(Seq(Nat))
      BY <1>1
    <3> HIDE DEF e
    <3>2. Trace!Whole(e)[0] = <<>>
      BY <3>1, WholeIs
    <3>3. Position = Len(Trace!Whole(e)[Len(e)])
      BY <1>1 DEF Position, Resting, Dumped, e
    <3>4. Len(<<>>) = 0
      OBVIOUS
    <3> QED BY <3>1, <3>2, <3>3, <3>4
  <2> QED BY <1>1, <2>1, <2>2 DEF StreamHolds
<1> QED BY <1>3, <1>4, <1>5, <1>6, <1>7, <1>8 DEF TraceInv, TraceTypes

(* trace_ring_uart.sv, at every step from power on: the ring, the freeze   *)
(* and the line are what the invariant says, whatever the core retires,    *)
(* whenever the button is pressed and however long a byte takes.           *)
THEOREM TraceInvariant == MCSpec => []TraceInv
<1>1. MCInit => TraceInv
  BY TraceStarts DEF MCInit
<1>2. TraceInv /\ [MCNext]_all => TraceInv'
  BY OneTool, TraceStep
<1> QED BY <1>1, <1>2, PTL DEF MCSpec

(* trace_ring_uart.sv and decode_trace.py: for every size of the ring that *)
(* its nine bits can count and every byte at which a capture that began    *)
(* after a reset stops, what decode returns is the last retirements before *)
(* each freeze, when it stops at the end of a dump or inside the magic of  *)
(* the next; it refuses the capture when it stops anywhere else.           *)
THEOREM TraceIsDecoded == MCSpec => []TraceDecoded
<1>1. TraceInv => TraceDecoded
  BY StreamDecodes DEF TraceInv
<1> QED BY <1>1, TraceInvariant, PTL
=============================================================================
