------------------------------- MODULE BusProofs -------------------------------
(***************************************************************************)
(* Proofs about the modules of rtl/bus that carry every access to memory:  *)
(* AsyncFifo, for every depth and payload set, AxiFabric, for any number   *)
(* of masters, any set of requests and any length of a burst, and          *)
(* GrayFifo, for every width of its pointers.                              *)
(***************************************************************************)
EXTENDS MCLink, AxiFabric, SequenceTheorems, WellFoundedInduction, TLAPS

-----------------------------------------------------------------------------
(* The FIFO.  The six pointers, read from the oldest to the newest, are    *)
(*   rd_w2, rd_w1, rd_bin, wr_r2, wr_r1, wr_bin                            *)
(* and lie in that order in a window of Depth pointers.                    *)
Ordered == /\ Gap(rd_w1, rd_w2) <= Gap(rd_bin, rd_w2)
           /\ Gap(rd_bin, rd_w2) <= Gap(wr_r2, rd_w2)
           /\ Gap(wr_r2, rd_w2) <= Gap(wr_r1, rd_w2)
           /\ Gap(wr_r1, rd_w2) <= Gap(wr_bin, rd_w2)
           /\ Gap(wr_bin, rd_w2) <= Depth

(* A domain whose reset is not yet released holds its pointers at zero.    *)
HeldAtZero == /\ wr_release # 2 => wr_bin = 0 /\ rd_w1 = 0 /\ rd_w2 = 0
              /\ rd_release # 2 => rd_bin = 0 /\ wr_r1 = 0 /\ wr_r2 = 0
              /\ ~rst_n => wr_release = 0 /\ rd_release = 0

IInv == TypeOK /\ Ordered /\ HeldAtZero

-----------------------------------------------------------------------------
(* Incrementing, and taking the slot of, a pointer stay in range.          *)
LEMMA PointerRange ==
  ASSUME NEW p \in Pointers
  PROVE  Inc(p) \in Pointers /\ Slot(p) \in Slots
BY DepthAssumption DEF Inc, Slot, Pointers, Slots

(* The combinational next pointers stay pointers.                          *)
LEMMA NextRange ==
  ASSUME TypeOK, NEW v \in BOOLEAN
  PROVE  WrNext(v) \in Pointers /\ RdNext(v) \in Pointers
BY PointerRange DEF TypeOK, WrNext, RdNext

(* An edge of either clock keeps the types, whatever pointer it samples.   *)
LEMMA WrEdgeType ==
  ASSUME TypeOK, NEW v \in BOOLEAN, NEW d \in Data, NEW seen \in Pointers,
         WrEdge(v, d, seen)
  PROVE  /\ wr_release' \in 0 .. 2 /\ storage' \in [Slots -> Data]
         /\ wr_bin' \in Pointers /\ rd_w1' \in Pointers /\ rd_w2' \in Pointers
<1>1. 0 \in Pointers
  BY DepthAssumption DEF Pointers
<1>2. wr_bin' \in Pointers
  BY NextRange DEF WrEdge
<1>3. wr_release' \in 0 .. 2
  BY DEF TypeOK, WrEdge, Shift
<1>4. storage' \in [Slots -> Data]
  BY DEF TypeOK, WrEdge
<1>5. QED
  BY <1>1, <1>2, <1>3, <1>4 DEF TypeOK, WrEdge

LEMMA RdEdgeType ==
  ASSUME TypeOK, NEW v \in BOOLEAN, NEW seen \in Pointers, RdEdge(v, seen)
  PROVE  /\ rd_release' \in 0 .. 2 /\ rd_bin' \in Pointers
         /\ wr_r1' \in Pointers /\ wr_r2' \in Pointers
<1>1. 0 \in Pointers
  BY DepthAssumption DEF Pointers
<1>2. rd_bin' \in Pointers
  BY NextRange DEF RdEdge
<1>3. QED
  BY <1>1, <1>2 DEF TypeOK, RdEdge, Shift

(* Every step keeps the types.                                             *)
LEMMA TypeStep == TypeOK /\ [Next]_vars => TypeOK'
<1> SUFFICES ASSUME TypeOK, [Next]_vars PROVE TypeOK'
  OBVIOUS
<1>1. CASE WrTick
  <2>1. PICK v \in BOOLEAN, d \in Data : WrEdge(v, d, rd_bin)
    BY <1>1 DEF WrTick
  <2>2. rst_n' \in BOOLEAN /\ rd_bin \in Pointers
    BY <1>1 DEF WrTick, TypeOK
  <2>3. QED
    BY <1>1, <2>1, <2>2, WrEdgeType DEF WrTick, TypeOK, rdVars
<1>2. CASE RdTick
  <2>1. PICK v \in BOOLEAN : RdEdge(v, wr_bin)
    BY <1>2 DEF RdTick
  <2>2. rst_n' \in BOOLEAN /\ wr_bin \in Pointers
    BY <1>2 DEF RdTick, TypeOK
  <2>3. QED
    BY <1>2, <2>1, <2>2, RdEdgeType DEF RdTick, TypeOK, wrVars
<1>3. CASE BothTick
  <2>1. PICK v \in BOOLEAN, r \in BOOLEAN, d \in Data :
          /\ \E seen \in {rd_bin, RdNext(r)} : WrEdge(v, d, seen)
          /\ \E seen \in {wr_bin, WrNext(v)} : RdEdge(r, seen)
    BY <1>3 DEF BothTick
  <2>2. PICK sw \in Pointers : WrEdge(v, d, sw)
    BY <2>1, NextRange DEF TypeOK
  <2>3. PICK sr \in Pointers : RdEdge(r, sr)
    BY <2>1, NextRange DEF TypeOK
  <2>4. rst_n' \in BOOLEAN
    BY <1>3 DEF BothTick, TypeOK
  <2>5. QED
    BY <2>2, <2>3, <2>4, WrEdgeType, RdEdgeType DEF TypeOK
<1>4. CASE Assert
  <2>1. 0 \in Pointers
    BY DepthAssumption DEF Pointers
  <2>2. 0 \in 0 .. 2
    OBVIOUS
  <2>3. rst_n' \in BOOLEAN /\ storage' \in [Slots -> Data]
    BY <1>4 DEF Assert, TypeOK
  <2>4. QED
    BY <1>4, <2>1, <2>2, <2>3, Zenon DEF Assert, TypeOK
<1>5. CASE Deassert
  BY <1>5 DEF Deassert, TypeOK, wrVars, rdVars
<1>6. CASE UNCHANGED vars
  BY <1>6 DEF vars, wrVars, rdVars, TypeOK
<1>7. QED
  BY <1>1, <1>2, <1>3, <1>4, <1>5, <1>6 DEF Next

-----------------------------------------------------------------------------
(* A flag lets a side move only inside the window: the writer while the    *)
(* oldest read pointer it could know of is less than Depth behind, the     *)
(* reader while the newest write pointer is ahead.                         *)
LEMMA FlagsSafe ==
  ASSUME IInv, NEW v \in BOOLEAN, NEW r \in BOOLEAN
  PROVE  /\ Gap(wr_bin, rd_w2) <= Gap(WrNext(v), rd_w2)
         /\ Gap(WrNext(v), rd_w2) <= Depth
         /\ Gap(rd_bin, rd_w2) <= Gap(RdNext(r), rd_w2)
         /\ Gap(RdNext(r), rd_w2) <= Gap(wr_r2, rd_w2)
<1>1. /\ Gap(wr_bin, rd_w2) <= Gap(WrNext(v), rd_w2)
      /\ Gap(WrNext(v), rd_w2) <= Depth
  BY DepthAssumption
     DEF IInv, TypeOK, Ordered, WrNext, in_ready, full, Gap, Inc, Pointers
<1>2. /\ Gap(rd_bin, rd_w2) <= Gap(RdNext(r), rd_w2)
      /\ Gap(RdNext(r), rd_w2) <= Gap(wr_r2, rd_w2)
  BY DepthAssumption
     DEF IInv, TypeOK, Ordered, RdNext, out_valid, empty, Gap, Inc, Pointers
<1>3. QED
  BY <1>1, <1>2

(* Moving the base of the window forward, to the pointer next in it, keeps *)
(* the order of the others.                                                *)
LEMMA Rebase ==
  ASSUME NEW b \in Pointers, NEW c \in Pointers,
         NEW p \in Pointers, NEW q \in Pointers,
         Gap(c, b) <= Gap(p, b), Gap(p, b) <= Gap(q, b), Gap(q, b) <= Depth
  PROVE  Gap(p, c) <= Gap(q, c) /\ Gap(q, c) <= Depth
BY DepthAssumption DEF Gap, Pointers

(* The window after a step, measured from the base before it.              *)
LEMMA Slide ==
  ASSUME TypeOK, TypeOK',
         Gap(rd_w2', rd_w2) <= Gap(rd_w1', rd_w2),
         Gap(rd_w1', rd_w2) <= Gap(rd_bin', rd_w2),
         Gap(rd_bin', rd_w2) <= Gap(wr_r2', rd_w2),
         Gap(wr_r2', rd_w2) <= Gap(wr_r1', rd_w2),
         Gap(wr_r1', rd_w2) <= Gap(wr_bin', rd_w2),
         Gap(wr_bin', rd_w2) <= Depth
  PROVE  Ordered'
<1>1. \A p, q \in Pointers : Gap(p, q) \in Int
  BY DepthAssumption DEF Gap, Pointers
<1>2. Gap(rd_w1', rd_w2') <= Gap(rd_bin', rd_w2')
  BY Rebase, <1>1, DepthAssumption DEF TypeOK
<1>3. Gap(rd_bin', rd_w2') <= Gap(wr_r2', rd_w2')
  BY Rebase, <1>1, DepthAssumption DEF TypeOK
<1>4. Gap(wr_r2', rd_w2') <= Gap(wr_r1', rd_w2')
  BY Rebase, <1>1, DepthAssumption DEF TypeOK
<1>5. /\ Gap(wr_r1', rd_w2') <= Gap(wr_bin', rd_w2')
      /\ Gap(wr_bin', rd_w2') <= Depth
  BY Rebase, <1>1, DepthAssumption DEF TypeOK
<1>6. QED
  BY <1>2, <1>3, <1>4, <1>5 DEF Ordered

(* A write edge that samples a read pointer between the one before and the *)
(* one after the step moves its end of the window forward.                 *)
LEMMA WrEdgeWindow ==
  ASSUME IInv, NEW v \in BOOLEAN, NEW d \in Data, NEW seen \in Pointers,
         WrEdge(v, d, seen), Gap(rd_bin, rd_w2) <= Gap(seen, rd_w2)
  PROVE  /\ Gap(rd_w2', rd_w2) <= Gap(rd_w1', rd_w2)
         /\ Gap(rd_w1', rd_w2) <= Gap(seen, rd_w2)
         /\ Gap(wr_bin, rd_w2) <= Gap(wr_bin', rd_w2)
         /\ Gap(wr_bin', rd_w2) <= Depth
<1>1. \A p, q \in Pointers : Gap(p, q) \in Int /\ Gap(p, p) = 0 /\ Gap(p, q) >= 0
  BY DepthAssumption DEF Gap, Pointers
<1>2. /\ Gap(wr_bin, rd_w2) <= Gap(wr_bin', rd_w2)
      /\ Gap(wr_bin', rd_w2) <= Depth
  BY FlagsSafe DEF WrEdge
<1>3. CASE wr_release = 2
  BY <1>1, <1>2, <1>3 DEF WrEdge, IInv, Ordered, TypeOK
<1>4. CASE wr_release # 2
  BY <1>1, <1>2, <1>4 DEF WrEdge, IInv, HeldAtZero, TypeOK
<1>5. QED
  BY <1>3, <1>4

LEMMA RdEdgeWindow ==
  ASSUME IInv, NEW r \in BOOLEAN, NEW seen \in Pointers, RdEdge(r, seen),
         Gap(wr_bin, rd_w2) <= Gap(seen, rd_w2)
  PROVE  /\ Gap(rd_bin, rd_w2) <= Gap(rd_bin', rd_w2)
         /\ Gap(rd_bin', rd_w2) <= Gap(wr_r2', rd_w2)
         /\ Gap(wr_r2', rd_w2) <= Gap(wr_r1', rd_w2)
         /\ Gap(wr_r1', rd_w2) <= Gap(seen, rd_w2)
<1>1. \A p, q \in Pointers : Gap(p, q) \in Int
  BY DepthAssumption DEF Gap, Pointers
<1>2. /\ Gap(rd_bin, rd_w2) <= Gap(rd_bin', rd_w2)
      /\ Gap(rd_bin', rd_w2) <= Gap(wr_r2, rd_w2)
      /\ rd_bin' \in Pointers
  BY FlagsSafe, NextRange DEF RdEdge, IInv
<1>3. CASE rd_release = 2
  BY <1>1, <1>2, <1>3 DEF RdEdge, IInv, Ordered, TypeOK
<1>4. CASE rd_release # 2
  <2>1. wr_r1' = wr_r1 /\ wr_r2' = wr_r2
    BY <1>4 DEF RdEdge, IInv, HeldAtZero
  <2>2. QED
    BY <1>1, <1>2, <2>1 DEF IInv, Ordered, TypeOK
<1>5. QED
  BY <1>3, <1>4

(* An edge of one clock keeps a domain that is still in reset at zero.     *)
LEMMA WrEdgeHeld ==
  ASSUME IInv, NEW v \in BOOLEAN, NEW d \in Data, NEW seen \in Pointers,
         WrEdge(v, d, seen)
  PROVE  wr_release' # 2 => wr_bin' = 0 /\ rd_w1' = 0 /\ rd_w2' = 0
BY DEF WrEdge, Shift, WrNext, in_ready, IInv, HeldAtZero, TypeOK

LEMMA RdEdgeHeld ==
  ASSUME IInv, NEW r \in BOOLEAN, NEW seen \in Pointers, RdEdge(r, seen)
  PROVE  rd_release' # 2 => rd_bin' = 0 /\ wr_r1' = 0 /\ wr_r2' = 0
BY DEF RdEdge, Shift, RdNext, out_valid, IInv, HeldAtZero, TypeOK

(* The window and the held domains are inductive.                          *)
LEMMA IInvStep == IInv /\ [Next]_vars => IInv'
<1> SUFFICES ASSUME IInv, [Next]_vars PROVE IInv'
  OBVIOUS
<1>1. TypeOK /\ TypeOK'
  BY TypeStep DEF IInv
<1>2. \A p, q \in Pointers : Gap(p, q) \in Int /\ Gap(p, p) = 0
  BY DepthAssumption DEF Gap, Pointers
<1>3. CASE WrTick
  <2>1. PICK v \in BOOLEAN, d \in Data : WrEdge(v, d, rd_bin)
    BY <1>3 DEF WrTick
  <2>2. UNCHANGED <<rst_n, rdVars>> /\ rst_n
    BY <1>3 DEF WrTick, WrEdge
  <2>3. /\ Gap(rd_w2', rd_w2) <= Gap(rd_w1', rd_w2)
        /\ Gap(rd_w1', rd_w2) <= Gap(rd_bin, rd_w2)
        /\ Gap(wr_bin, rd_w2) <= Gap(wr_bin', rd_w2)
        /\ Gap(wr_bin', rd_w2) <= Depth
    BY <1>1, <1>2, <2>1, WrEdgeWindow DEF TypeOK
  <2>4. Ordered'
    BY <1>1, <1>2, <2>2, <2>3, Slide, DepthAssumption
       DEF IInv, Ordered, TypeOK, rdVars
  <2>5. HeldAtZero'
    BY <1>1, <2>1, <2>2, WrEdgeHeld DEF IInv, HeldAtZero, TypeOK, rdVars
  <2>6. QED
    BY <1>1, <2>4, <2>5 DEF IInv
<1>4. CASE RdTick
  <2>1. PICK r \in BOOLEAN : RdEdge(r, wr_bin)
    BY <1>4 DEF RdTick
  <2>2. UNCHANGED <<rst_n, wrVars>> /\ rst_n
    BY <1>4 DEF RdTick, RdEdge
  <2>3. /\ Gap(rd_bin, rd_w2) <= Gap(rd_bin', rd_w2)
        /\ Gap(rd_bin', rd_w2) <= Gap(wr_r2', rd_w2)
        /\ Gap(wr_r2', rd_w2) <= Gap(wr_r1', rd_w2)
        /\ Gap(wr_r1', rd_w2) <= Gap(wr_bin, rd_w2)
    BY <1>1, <1>2, <2>1, RdEdgeWindow DEF TypeOK
  <2>4. Ordered'
    BY <1>1, <1>2, <2>2, <2>3, Slide, DepthAssumption
       DEF IInv, Ordered, TypeOK, wrVars
  <2>5. HeldAtZero'
    BY <1>1, <2>1, <2>2, RdEdgeHeld DEF IInv, HeldAtZero, TypeOK, wrVars
  <2>6. QED
    BY <1>1, <2>4, <2>5 DEF IInv
<1>5. CASE BothTick
  <2>1. PICK v \in BOOLEAN, r \in BOOLEAN, d \in Data :
          /\ \E seen \in {rd_bin, RdNext(r)} : WrEdge(v, d, seen)
          /\ \E seen \in {wr_bin, WrNext(v)} : RdEdge(r, seen)
    BY <1>5 DEF BothTick
  <2>2. PICK sw \in {rd_bin, RdNext(r)} : WrEdge(v, d, sw)
    BY <2>1
  <2>3. PICK sr \in {wr_bin, WrNext(v)} : RdEdge(r, sr)
    BY <2>1
  <2>4. /\ rd_bin' = RdNext(r) /\ wr_bin' = WrNext(v)
        /\ rst_n /\ UNCHANGED rst_n
        /\ sw \in Pointers /\ sr \in Pointers
        /\ rd_bin' \in Pointers /\ wr_bin' \in Pointers
    BY <1>1, <1>5, <2>2, <2>3, NextRange DEF WrEdge, RdEdge, BothTick, TypeOK
  <2>5. /\ Gap(rd_bin, rd_w2) <= Gap(sw, rd_w2)
        /\ Gap(sw, rd_w2) <= Gap(rd_bin', rd_w2)
        /\ Gap(wr_bin, rd_w2) <= Gap(sr, rd_w2)
        /\ Gap(sr, rd_w2) <= Gap(wr_bin', rd_w2)
    BY <1>1, <1>2, <2>2, <2>3, <2>4, FlagsSafe DEF TypeOK
  <2>6. /\ Gap(rd_w2', rd_w2) <= Gap(rd_w1', rd_w2)
        /\ Gap(rd_w1', rd_w2) <= Gap(sw, rd_w2)
        /\ Gap(wr_bin', rd_w2) <= Depth
    BY <2>2, <2>4, <2>5, WrEdgeWindow
  <2>7. /\ Gap(rd_bin', rd_w2) <= Gap(wr_r2', rd_w2)
        /\ Gap(wr_r2', rd_w2) <= Gap(wr_r1', rd_w2)
        /\ Gap(wr_r1', rd_w2) <= Gap(sr, rd_w2)
    BY <2>3, <2>4, <2>5, RdEdgeWindow
  <2>8. Ordered'
    <3>1. /\ Gap(rd_w1', rd_w2) <= Gap(rd_bin', rd_w2)
          /\ Gap(wr_r1', rd_w2) <= Gap(wr_bin', rd_w2)
      BY <1>1, <1>2, <2>4, <2>5, <2>6, <2>7 DEF TypeOK
    <3>2. QED
      BY <1>1, <2>6, <2>7, <3>1, Slide
  <2>9. HeldAtZero'
    BY <1>1, <2>2, <2>3, <2>4, WrEdgeHeld, RdEdgeHeld
       DEF IInv, HeldAtZero, TypeOK
  <2>10. QED
    BY <1>1, <2>8, <2>9 DEF IInv
<1>6. CASE Assert
  <2>1. Ordered'
    BY <1>6, DepthAssumption DEF Assert, Ordered, Gap
  <2>2. HeldAtZero'
    BY <1>6 DEF Assert, HeldAtZero
  <2>3. QED
    BY <1>1, <2>1, <2>2 DEF IInv
<1>7. CASE Deassert
  BY <1>1, <1>7 DEF Deassert, IInv, Ordered, HeldAtZero, wrVars, rdVars
<1>8. CASE UNCHANGED vars
  BY <1>1, <1>8 DEF vars, IInv, Ordered, HeldAtZero, wrVars, rdVars
<1>9. QED
  BY <1>3, <1>4, <1>5, <1>6, <1>7, <1>8 DEF Next

LEMMA IInvInit == Init => IInv
<1> SUFFICES ASSUME Init PROVE IInv
  OBVIOUS
<1>1. TypeOK
  <2>1. 0 \in Pointers /\ 0 \in 0 .. 2
    BY DepthAssumption DEF Pointers
  <2>2. QED
    BY <2>1, Zenon DEF Init, TypeOK
<1>2. Ordered /\ HeldAtZero
  BY DepthAssumption DEF Init, Ordered, HeldAtZero, Gap
<1>3. QED
  BY <1>1, <1>2 DEF IInv

(* The inductive invariant holds in every behaviour.                       *)
THEOREM Inductive == Spec => []IInv
<1>1. QED
  BY IInvInit, IInvStep, PTL DEF Spec

(* Every variable of the FIFO keeps its type, for every depth.             *)
THEOREM TypeCorrect == Spec => []TypeOK
<1>1. IInv => TypeOK
  BY DEF IInv
<1>2. QED
  BY <1>1, Inductive, PTL

(* The level outputs bracket the occupancy, for every depth.               *)
THEOREM LevelsCorrect == Spec => []LevelsBracket
<1>1. IInv => LevelsBracket
  BY DepthAssumption
     DEF IInv, TypeOK, Ordered, LevelsBracket, rd_level, wr_level, Gap, Pointers
<1>2. QED
  BY <1>1, Inductive, PTL

-----------------------------------------------------------------------------
(* The sequence between two pointers has their distance as length.         *)
LEMMA QueueType ==
  ASSUME NEW w \in Pointers, NEW r \in Pointers, NEW s \in [Slots -> Data]
  PROVE  /\ Queue(w, r, s) \in Seq(Data)
         /\ Len(Queue(w, r, s)) = Gap(w, r)
         /\ Gap(w, r) \in Nat
<1>1. Gap(w, r) \in Nat /\ Gap(w, r) < 2 * Depth
  BY DepthAssumption DEF Gap, Pointers
<1>2. \A i \in 1 .. Gap(w, r) : s[Slot(Ahead(r, i - 1))] \in Data
  BY <1>1, DepthAssumption DEF Slot, Slots, Ahead, Pointers
<1>3. QED
  BY <1>1, <1>2 DEF Queue

(* Writing the slot of w and moving w on appends, while there is room.     *)
LEMMA PutAppends ==
  ASSUME NEW w \in Pointers, NEW r \in Pointers, NEW s \in [Slots -> Data],
         NEW d \in Data, Gap(w, r) < Depth
  PROVE  Queue(Inc(w), r, [s EXCEPT ![Slot(w)] = d]) = Append(Queue(w, r, s), d)
<1> DEFINE q == Queue(w, r, s)
           t == [s EXCEPT ![Slot(w)] = d]
           p == Queue(Inc(w), r, t)
<1>1. Inc(w) \in Pointers /\ Slot(w) \in Slots /\ t \in [Slots -> Data]
  BY PointerRange
<1>2. /\ Gap(Inc(w), r) = Gap(w, r) + 1
      /\ Gap(w, r) \in Nat
      /\ Slot(Ahead(r, Gap(w, r))) = Slot(w)
  BY DepthAssumption DEF Gap, Inc, Pointers, Slot, Ahead
<1>3. \A i \in 1 .. Gap(w, r) : /\ Slot(Ahead(r, i - 1)) # Slot(w)
                                /\ Slot(Ahead(r, i - 1)) \in Slots
  BY DepthAssumption DEF Gap, Pointers, Slot, Slots, Ahead
<1>4. /\ q \in Seq(Data) /\ Len(q) = Gap(w, r)
      /\ p \in Seq(Data) /\ Len(p) = Gap(w, r) + 1
  BY <1>1, <1>2, QueueType
<1>5. /\ Append(q, d) \in Seq(Data) /\ Len(Append(q, d)) = Gap(w, r) + 1
      /\ \A i \in 1 .. Gap(w, r) : Append(q, d)[i] = q[i]
      /\ Append(q, d)[Gap(w, r) + 1] = d
  BY <1>2, <1>4
<1>6. \A i \in 1 .. Gap(w, r) : p[i] = q[i]
  BY <1>1, <1>2, <1>3 DEF Queue
<1>7. p[Gap(w, r) + 1] = d
  BY <1>1, <1>2 DEF Queue
<1>8. \A i \in 1 .. Gap(w, r) + 1 : p[i] = Append(q, d)[i]
  <2>1. TAKE i \in 1 .. Gap(w, r) + 1
  <2>2. i \in 1 .. Gap(w, r) \/ i = Gap(w, r) + 1
    BY <1>2
  <2> HIDE DEF p, q
  <2>3. QED
    BY <2>2, <1>5, <1>6, <1>7
<1>9. p = Append(q, d)
  <2> HIDE DEF p, q
  <2>1. QED
    BY <1>4, <1>5, <1>8, SeqEqual
<1>10. QED
  BY <1>9

(* Moving r on takes the head away.                                        *)
LEMMA GetTakesHead ==
  ASSUME NEW w \in Pointers, NEW r \in Pointers, NEW s \in [Slots -> Data],
         w # r
  PROVE  /\ Queue(w, r, s) # <<>>
         /\ Queue(w, Inc(r), s) = Tail(Queue(w, r, s))
         /\ Gap(w, Inc(r)) < Gap(w, r)
<1> DEFINE q == Queue(w, r, s)
           p == Queue(w, Inc(r), s)
<1>1. Inc(r) \in Pointers
  BY PointerRange
<1>2. Gap(w, r) \in Nat \ {0} /\ Gap(w, Inc(r)) = Gap(w, r) - 1
  BY DepthAssumption DEF Gap, Inc, Pointers
<1>3. \A i \in 1 .. Gap(w, r) - 1 : Ahead(Inc(r), i - 1) = Ahead(r, i)
  BY <1>2, DepthAssumption DEF Ahead, Inc, Pointers, Gap
<1>4. /\ q \in Seq(Data) /\ Len(q) = Gap(w, r)
      /\ p \in Seq(Data) /\ Len(p) = Gap(w, r) - 1
  BY <1>1, <1>2, QueueType
<1>5. /\ q # <<>> /\ Tail(q) \in Seq(Data) /\ Len(Tail(q)) = Gap(w, r) - 1
      /\ \A i \in 1 .. Gap(w, r) - 1 : Tail(q)[i] = q[i + 1]
  BY <1>2, <1>4
<1>6. \A i \in 1 .. Gap(w, r) - 1 : p[i] = q[i + 1]
  BY <1>2, <1>3 DEF Queue
<1>7. p = Tail(q)
  BY <1>2, <1>4, <1>5, <1>6, SeqEqual
<1>8. QED
  BY <1>2, <1>5, <1>7

(* What each step does to the queue.                                       *)
LEMMA RefinementStep ==
  IInv /\ [Next]_vars => [Abstract!Next]_contents
<1> SUFFICES ASSUME IInv, [Next]_vars PROVE [Abstract!Next]_contents
  OBVIOUS
<1> USE DEF contents
<1>1. TypeOK
  BY DEF IInv
<1>2. ASSUME NEW v \in BOOLEAN, NEW d \in Data, NEW seen, WrEdge(v, d, seen),
             v /\ in_ready
      PROVE  /\ wr_bin' = Inc(wr_bin)
             /\ storage' = [storage EXCEPT ![Slot(wr_bin)] = d]
             /\ Gap(wr_bin, rd_bin) < Depth
  <2>1. wr_bin' = Inc(wr_bin) /\ storage' = [storage EXCEPT ![Slot(wr_bin)] = d]
    BY <1>2 DEF WrEdge, WrNext
  <2>2. Gap(wr_bin, rd_bin) < Depth
    BY <1>2, DepthAssumption
       DEF in_ready, full, IInv, Ordered, TypeOK, Gap, Pointers
  <2>3. QED
    BY <2>1, <2>2
<1>3. ASSUME NEW v \in BOOLEAN, NEW d \in Data, NEW seen, WrEdge(v, d, seen),
             ~(v /\ in_ready)
      PROVE  wr_bin' = wr_bin /\ storage' = storage
  BY <1>3 DEF WrEdge, WrNext
<1>4. ASSUME NEW r \in BOOLEAN, NEW seen, RdEdge(r, seen), r /\ out_valid
      PROVE  rd_bin' = Inc(rd_bin) /\ wr_bin # rd_bin
  <2>1. rd_bin' = Inc(rd_bin)
    BY <1>4 DEF RdEdge, RdNext
  <2>2. wr_bin # rd_bin
    BY <1>4, DepthAssumption
       DEF out_valid, empty, IInv, Ordered, TypeOK, Gap, Pointers
  <2>3. QED
    BY <2>1, <2>2
<1>5. ASSUME NEW r \in BOOLEAN, NEW seen, RdEdge(r, seen), ~(r /\ out_valid)
      PROVE  rd_bin' = rd_bin
  BY <1>5 DEF RdEdge, RdNext
<1>6. Len(contents) = Gap(wr_bin, rd_bin)
  BY <1>1, QueueType DEF TypeOK
<1>7. ASSUME NEW d \in Data, Gap(wr_bin, rd_bin) < Depth, rd_bin' = rd_bin,
              wr_bin' = Inc(wr_bin),
              storage' = [storage EXCEPT ![Slot(wr_bin)] = d]
       PROVE  Abstract!Next
  <2>1. wr_bin \in Pointers /\ rd_bin \in Pointers /\ storage \in [Slots -> Data]
    BY <1>1 DEF TypeOK
  <2>2. contents' = Append(contents, d)
    BY <1>7, <2>1, PutAppends
  <2>3. QED
    BY <1>6, <1>7, <2>2 DEF Abstract!Next, Abstract!Put
<1>8. ASSUME wr_bin # rd_bin, rd_bin' = Inc(rd_bin), wr_bin' = wr_bin,
              storage' = storage
       PROVE  Abstract!Next
  <2>1. wr_bin \in Pointers /\ rd_bin \in Pointers /\ storage \in [Slots -> Data]
    BY <1>1 DEF TypeOK
  <2>2. contents' = Tail(contents) /\ contents # <<>>
    BY <1>8, <2>1, GetTakesHead
  <2>3. QED
    BY <2>2 DEF Abstract!Next, Abstract!Get
<1>9. CASE WrTick
  <2>1. PICK v \in BOOLEAN, d \in Data : WrEdge(v, d, rd_bin)
    BY <1>9 DEF WrTick
  <2>2. rd_bin' = rd_bin
    BY <1>9 DEF WrTick, rdVars
  <2>3. CASE v /\ in_ready
    BY <1>2, <1>7, <2>1, <2>2, <2>3
  <2>4. CASE ~(v /\ in_ready)
    BY <1>3, <2>1, <2>2, <2>4
  <2>5. QED
    BY <2>3, <2>4
<1>10. CASE RdTick
  <2>1. PICK r \in BOOLEAN : RdEdge(r, wr_bin)
    BY <1>10 DEF RdTick
  <2>2. wr_bin' = wr_bin /\ storage' = storage
    BY <1>10 DEF RdTick, wrVars
  <2>3. CASE r /\ out_valid
    BY <1>4, <1>8, <2>1, <2>2, <2>3
  <2>4. CASE ~(r /\ out_valid)
    BY <1>5, <2>1, <2>2, <2>4
  <2>5. QED
    BY <2>3, <2>4
<1>11. CASE BothTick
  <2>1. PICK v \in BOOLEAN, r \in BOOLEAN, d \in Data :
          /\ \E seen \in {rd_bin, RdNext(r)} : WrEdge(v, d, seen)
          /\ \E seen \in {wr_bin, WrNext(v)} : RdEdge(r, seen)
    BY <1>11 DEF BothTick
  <2>2. PICK sw : WrEdge(v, d, sw)
    BY <2>1
  <2>3. PICK sr : RdEdge(r, sr)
    BY <2>1
  <2>4. CASE (v /\ in_ready) /\ (r /\ out_valid)
    <3> DEFINE rest == Queue(wr_bin, Inc(rd_bin), storage)
    <3>1. /\ wr_bin' = Inc(wr_bin)
          /\ storage' = [storage EXCEPT ![Slot(wr_bin)] = d]
          /\ Gap(wr_bin, rd_bin) < Depth
      BY <1>2, <2>2, <2>4
    <3>2. rd_bin' = Inc(rd_bin) /\ wr_bin # rd_bin
      BY <1>4, <2>3, <2>4
    <3>3. /\ rest = Tail(contents) /\ contents # <<>>
          /\ Gap(wr_bin, Inc(rd_bin)) < Gap(wr_bin, rd_bin)
      BY <1>1, <3>2, GetTakesHead DEF TypeOK
    <3>4. Gap(wr_bin, Inc(rd_bin)) < Depth /\ Inc(rd_bin) \in Pointers
      <4>1. Inc(rd_bin) \in Pointers
        BY <1>1, PointerRange DEF TypeOK
      <4>2. Gap(wr_bin, rd_bin) \in Int /\ Gap(wr_bin, Inc(rd_bin)) \in Int
        BY <1>1, <4>1, QueueType DEF TypeOK
      <4>3. QED
        BY <3>1, <3>3, <4>1, <4>2, DepthAssumption
    <3>5. contents' = Append(rest, d)
      <4>1. /\ wr_bin \in Pointers /\ storage \in [Slots -> Data]
            /\ d \in Data
        BY <1>1, <2>1 DEF TypeOK
      <4>2. Queue(Inc(wr_bin), Inc(rd_bin), [storage EXCEPT ![Slot(wr_bin)] = d])
              = Append(rest, d)
        BY <3>4, <4>1, PutAppends
      <4>3. QED
        BY <3>1, <3>2, <4>2
    <3>6. Abstract!PutGet(d)
      <4>1. Len(contents) < Depth
        BY <1>6, <3>1
      <4>2. QED
        BY <3>3, <3>5, <4>1 DEF Abstract!PutGet
    <3>7. QED
      BY <3>6, Zenon DEF Abstract!Next
  <2>5. CASE (v /\ in_ready) /\ ~(r /\ out_valid)
    BY <1>2, <1>5, <1>7, <2>2, <2>3, <2>5
  <2>6. CASE ~(v /\ in_ready) /\ (r /\ out_valid)
    BY <1>3, <1>4, <1>8, <2>2, <2>3, <2>6
  <2>7. CASE ~(v /\ in_ready) /\ ~(r /\ out_valid)
    BY <1>3, <1>5, <2>2, <2>3, <2>7
  <2>8. QED
    BY <2>4, <2>5, <2>6, <2>7
<1>12. CASE Assert
  <2>1. contents' = <<>>
    BY <1>12, DepthAssumption DEF Assert, Queue, Gap
  <2>2. QED
    BY <2>1 DEF Abstract!Next, Abstract!Flush
<1>13. CASE Deassert
  BY <1>13 DEF Deassert, wrVars, rdVars
<1>14. CASE UNCHANGED vars
  BY <1>14 DEF vars, wrVars, rdVars
<1>15. QED
  BY <1>9, <1>10, <1>11, <1>12, <1>13, <1>14 DEF Next

(* The FIFO implements the bounded queue, for every depth and payload set. *)
THEOREM QueueImplemented == Spec => ImplementsQueue
<1>1. Init => Abstract!Init
  BY DepthAssumption DEF Init, Abstract!Init, contents, Queue, Gap
<1>2. QED
  BY <1>1, RefinementStep, Inductive, PTL
     DEF Spec, ImplementsQueue, Abstract!Spec

-----------------------------------------------------------------------------
(* What a step outside reset can do to the other side's view of an offer.  *)
LEMMA OfferStep ==
  ASSUME IInv, [Next]_vars, rst_n'
  PROVE  /\ rd_release = 2 => /\ rd_release' = 2
                              /\ wr_r2' = wr_r2 \/ wr_r2' = wr_r1
         /\ wr_release = 2 => /\ wr_release' = 2
                              /\ rd_w2' = rd_w2 \/ rd_w2' = rd_w1
         /\ \/ storage' = storage
            \/ /\ in_ready
               /\ \E d \in Data : storage' = [storage EXCEPT ![Slot(wr_bin)] = d]
<1>1. ASSUME NEW v \in BOOLEAN, NEW d \in Data, NEW seen, WrEdge(v, d, seen)
      PROVE  /\ wr_release = 2 => wr_release' = 2 /\ rd_w2' = rd_w1
             /\ \/ storage' = storage
                \/ in_ready /\ storage' = [storage EXCEPT ![Slot(wr_bin)] = d]
  BY <1>1 DEF WrEdge, Shift
<1>2. ASSUME NEW r \in BOOLEAN, NEW seen, RdEdge(r, seen)
      PROVE  rd_release = 2 => rd_release' = 2 /\ wr_r2' = wr_r1
  BY <1>2 DEF RdEdge, Shift
<1>3. CASE WrTick
  BY <1>1, <1>3 DEF WrTick, rdVars
<1>4. CASE RdTick
  BY <1>2, <1>4 DEF RdTick, wrVars
<1>5. CASE BothTick
  BY <1>1, <1>2, <1>5 DEF BothTick
<1>6. CASE Assert
  BY <1>6 DEF Assert
<1>7. CASE Deassert
  BY <1>7 DEF Deassert, wrVars, rdVars
<1>8. CASE UNCHANGED vars
  BY <1>8 DEF vars, wrVars, rdVars
<1>9. QED
  BY <1>3, <1>4, <1>5, <1>6, <1>7, <1>8 DEF Next

(* An offered word is not overwritten and neither flag falls back.         *)
LEMMA HoldStep ==
  ASSUME IInv, [Next]_vars, rst_n'
  PROVE  /\ out_valid /\ rd_bin' = rd_bin
              => out_valid' /\ out_data' = out_data
         /\ in_ready /\ wr_bin' = wr_bin => in_ready'
<1>1. ASSUME out_valid, rd_bin' = rd_bin
      PROVE  out_valid' /\ out_data' = out_data
  <2>1. rd_bin # wr_r2 /\ rd_bin # wr_r1
    BY <1>1, DepthAssumption
       DEF out_valid, empty, IInv, Ordered, TypeOK, Gap, Pointers
  <2>2. out_valid'
    BY <1>1, <2>1, OfferStep DEF out_valid, empty
  <2>3. in_ready => Slot(wr_bin) # Slot(rd_bin)
    BY <1>1, DepthAssumption
       DEF out_valid, empty, in_ready, full, IInv, Ordered, TypeOK, Gap,
           Pointers, Slot
  <2>4. Slot(rd_bin) \in Slots /\ Slot(wr_bin) \in Slots
    BY PointerRange DEF IInv, TypeOK
  <2>5. storage'[Slot(rd_bin)] = storage[Slot(rd_bin)]
    BY <2>3, <2>4, OfferStep DEF IInv, TypeOK
  <2>6. QED
    BY <1>1, <2>2, <2>5 DEF out_data
<1>2. ASSUME in_ready, wr_bin' = wr_bin
      PROVE  in_ready'
  <2>1. Gap(wr_bin, rd_w1) # Depth
    BY <1>2, DepthAssumption
       DEF in_ready, full, IInv, Ordered, TypeOK, Gap, Pointers
  <2>2. QED
    BY <1>2, <2>1, OfferStep DEF in_ready, full
<1>3. QED
  BY <1>1, <1>2

(* An offer, of a word or of room, holds until it is taken or reset.       *)
THEOREM OffersHeld == Spec => HoldsOffer
<1>1. IInv /\ [Next]_vars =>
        [rst_n' => /\ out_valid /\ rd_bin' = rd_bin
                         => out_valid' /\ out_data' = out_data
                   /\ in_ready /\ wr_bin' = wr_bin => in_ready']_vars
  BY HoldStep
<1>2. QED
  BY <1>1, Inductive, PTL DEF Spec, HoldsOffer

-----------------------------------------------------------------------------
(* The fabric routes, answers and arbitrates as it promises.               *)
(* Round robin: the scan that starts at next has one nearest candidate.    *)
LEMMA DistanceRange ==
  ASSUME NEW next \in Masters, NEW m \in Masters
  PROVE  Distance(next, m) \in 0 .. N - 1
BY FabricAssumption DEF Distance, Masters

LEMMA PickNearest ==
  ASSUME NEW next \in Masters, NEW S \in SUBSET Masters, S # {}
  PROVE  /\ Pick(next, S) \in S
         /\ \A o \in S : Distance(next, Pick(next, S)) <= Distance(next, o)
<1> DEFINE D == {Distance(next, m) : m \in S}
           Less == OpToRel(<, Nat)
<1>1. D \subseteq Nat /\ D # {}
  <2>1. \A m \in S : Distance(next, m) \in Nat
    BY DistanceRange, FabricAssumption
  <2>2. QED
    BY <2>1
<1>2. IsWellFoundedOn(Less, Nat)
  BY NatLessThanWellFounded
<1>3. \A a, b \in Nat : a < b => <<a, b>> \in Less
  BY Zenon DEF OpToRel
<1> HIDE DEF Less
<1>4. PICK k \in D : \A j \in D : ~(<<j, k>> \in Less)
  BY <1>1, <1>2, WFMin
<1>5. \A j \in D : k <= j
  <2>1. TAKE j \in D
  <2>2. j \in Nat /\ k \in Nat
    BY <1>1
  <2> HIDE DEF D
  <2>3. ~(j < k)
    BY <1>3, <1>4, <2>2, Zenon
  <2>4. QED
    BY <2>2, <2>3
<1>6. PICK m \in S : k = Distance(next, m)
  OBVIOUS
<1>7. \A o \in S : Distance(next, m) <= Distance(next, o)
  BY <1>5, <1>6
<1>8. QED
  BY <1>7 DEF Pick

(* Granting the nearest candidate brings every other one nearer.           *)
LEMMA ScanAdvances ==
  ASSUME NEW next \in Masters, NEW p \in Masters, NEW o \in Masters, o # p,
         Distance(next, p) <= Distance(next, o)
  PROVE  Distance(Succ(p), o) + 1 <= Distance(next, o)
BY FabricAssumption DEF Distance, Masters, Succ

LEMMA SuccRange == ASSUME NEW m \in Masters PROVE Succ(m) \in Masters
BY FabricAssumption DEF Succ, Masters

(* decode() and the DMA rule refuse exactly what no slave may serve.       *)
LEMMA DecodeAllows ==
  ASSUME NEW m \in Masters, NEW q \in Requests
  PROVE  /\ Decode(m, q) = 2 => Refused(m, q)
         /\ Decode(m, q) # 2 => /\ Decode(m, q) \in Slaves
                                /\ Allowed(m, q, Decode(m, q))
                                /\ ~Refused(m, q)
<1>1. q.dst \in 0 .. 2 /\ q.window \in BOOLEAN /\ DMA_UNCACHED_ONLY \in BOOLEAN
  BY FabricAssumption
<1>2. q.dst = 0 \/ q.dst = 1 \/ q.dst = 2
  BY <1>1
<1>3. 0 \in Slaves /\ 1 \in Slaves /\ 2 \notin Slaves
  BY DEF Slaves
<1>4. QED
  BY <1>1, <1>2, <1>3, Zenon DEF Decode, Refused, Allowed

(* A grant marks the picked master's request and touches no other.         *)
LEMMA GrantedPort ==
  ASSUME NEW port \in [Masters -> Port], NEW p \in Masters
  PROVE  /\ \A m \in Masters : /\ m # p => Granted(port, p)[m] = port[m]
                               /\ Granted(port, p)[m].req = port[m].req
                               /\ Granted(port, p)[m].beats = port[m].beats
         /\ Granted(port, p)[p].st = "accepted"
         /\ Granted(port, p) \in [Masters -> Port]
<1>1. /\ DOMAIN port = Masters
      /\ Granted(port, p) = [port EXCEPT ![p] = [port[p] EXCEPT !.st = "accepted"]]
  BY DEF Granted
<1>2. /\ port[p] \in Port
      /\ [port[p] EXCEPT !.st = "accepted"] \in Port
  BY DEF Port, MasterStates
<1>3. /\ [port[p] EXCEPT !.st = "accepted"].st = "accepted"
      /\ [port[p] EXCEPT !.st = "accepted"].req = port[p].req
      /\ [port[p] EXCEPT !.st = "accepted"].beats = port[p].beats
  BY <1>2 DEF Port
<1> DEFINE granted == [port[p] EXCEPT !.st = "accepted"]
<1> HIDE DEF granted
<1>4. QED
  BY <1>1, <1>2, <1>3 DEF granted

(* An answer reaches the one master it is for, with its request.           *)
LEMMA AnsweredPort ==
  ASSUME NEW port \in [Masters -> Port], NEW p \in Masters, NEW beats \in Nat,
         NEW resp \in {"none", "slave", "decerr"}, NEW id \in Ids,
         NEW after, after = Answered(port, p, beats, resp, id)
  PROVE  /\ after \in [Masters -> Port]
         /\ \A m \in Masters \ {p} : after[m] = port[m]
         /\ after[p].st = "done" /\ after[p].req = port[p].req
         /\ after[p].beats = beats /\ after[p].resp = resp /\ after[p].id = id
<1> DEFINE answer == [st |-> "done", req |-> port[p].req, beats |-> beats,
                      resp |-> resp, id |-> id]
<1>1. port[p].req \in Requests \cup {NoRequest}
  BY DEF Port
<1>2. answer \in Port
  BY <1>1, Zenon DEF Port, MasterStates
<1>3. /\ answer.st = "done" /\ answer.req = port[p].req
      /\ answer.beats = beats /\ answer.resp = resp /\ answer.id = id
  OBVIOUS
<1>4. after = [port EXCEPT ![p] = answer] /\ DOMAIN port = Masters
  BY DEF Answered
<1> HIDE DEF answer
<1>5. QED
  BY <1>2, <1>3, <1>4

(* A beat counts for its owner and touches no other master.                *)
LEMMA CountedPort ==
  ASSUME NEW port \in [Masters -> Port], NEW p \in Masters,
         NEW after, after = [port EXCEPT ![p].beats = @ + 1]
  PROVE  /\ after \in [Masters -> Port]
         /\ \A m \in Masters \ {p} : after[m] = port[m]
         /\ after[p].beats = port[p].beats + 1
         /\ after[p].st = port[p].st /\ after[p].req = port[p].req
<1> DEFINE counted == [port[p] EXCEPT !.beats = @ + 1]
<1>1. port[p] \in Port /\ counted \in Port
  BY DEF Port
<1>2. /\ counted.beats = port[p].beats + 1
      /\ counted.st = port[p].st /\ counted.req = port[p].req
  BY <1>1 DEF Port
<1>3. after = [port EXCEPT ![p] = counted] /\ DOMAIN port = Masters
  OBVIOUS
<1> HIDE DEF counted
<1>4. QED
  BY <1>1, <1>2, <1>3

-----------------------------------------------------------------------------
(* The read machine, its owner and its slave agree on the burst in flight. *)
ReadCoupled ==
  /\ rstate = "R_DATA" =>
       /\ rd[r_owner].st = "accepted" /\ r_id = rd[r_owner].req.id
       /\ Allowed(r_owner, rd[r_owner].req, r_slave)
       /\ s_rd[r_slave].left > 0 /\ s_rd[r_slave].id = r_owner
       /\ s_rd[r_slave].left + rd[r_owner].beats = rd[r_owner].req.len + 1
  /\ rstate = "R_ERROR" =>
       /\ rd[r_owner].st = "accepted" /\ r_id = rd[r_owner].req.id
       /\ Refused(r_owner, rd[r_owner].req)
       /\ rd[r_owner].beats = 0
  /\ \A s \in Slaves : s_rd[s].left > 0 => rstate = "R_DATA" /\ r_slave = s
  /\ \A m \in Masters : rd[m].st = "asking" =>
                           rd[m].beats = 0 /\ rd[m].req \in Requests

(* The grants a waiting master has seen and the scan still ahead of it.    *)
ReadScan == IF rstate = "R_IDLE" THEN r_next ELSE Succ(r_owner)
ReadNearing ==
  \A m \in Masters :
    /\ rd[m].st = "asking" => r_passed[m] + Distance(ReadScan, m) <= N - 1
    /\ rd[m].st # "asking" => r_passed[m] = 0

ReadInv == ReadTypeOK /\ ReadCoupled /\ ReadNearing /\ ReadAnswered

LEMMA NoRequestType == NoRequest.len = 0 /\ 0 \in Ids /\ NoRequest.id = 0
BY DEF NoRequest, Ids

LEMMA AskReadStep ==
  ASSUME ReadInv, NEW a \in Masters, AskRead(a)
  PROVE  ReadInv'
<1>1. PICK q \in Requests : rd' = Ask(rd, a, q)
  BY DEF AskRead
<1> DEFINE port == [Quiet EXCEPT !.st = "asking", !.req = q]
<1>2. /\ port \in Port /\ port.st = "asking" /\ port.beats = 0 /\ port.req = q
  BY NoRequestType DEF Quiet, Port, MasterStates
<1>3. /\ rd' = [rd EXCEPT ![a] = port]
      /\ UNCHANGED <<rstate, r_owner, r_next, r_slave, r_id, s_rd, r_passed>>
      /\ rd[a].st \in {"idle", "done"}
  BY <1>1 DEF AskRead, Ask
<1> HIDE DEF port
<1>4. ReadTypeOK'
  BY <1>2, <1>3 DEF ReadInv, ReadTypeOK
<1>5. \A m \in Masters : rd'[m] = IF m = a THEN port ELSE rd[m]
  BY <1>3 DEF ReadInv, ReadTypeOK
<1>6. ReadCoupled'
  BY <1>2, <1>3, <1>5 DEF ReadInv, ReadTypeOK, ReadCoupled
<1>7. ReadNearing'
  <2>1. ReadScan' = ReadScan /\ ReadScan \in Masters
    BY <1>3, SuccRange DEF ReadScan, ReadInv, ReadTypeOK
  <2>2. Distance(ReadScan, a) \in 0 .. N - 1 /\ r_passed[a] = 0
    BY <1>3, <2>1, DistanceRange DEF ReadInv, ReadNearing
  <2>3. QED
    BY <1>2, <1>3, <1>5, <2>1, <2>2 DEF ReadInv, ReadNearing
<1>8. ReadAnswered'
  BY <1>2, <1>3, <1>5 DEF ReadInv, ReadAnswered
<1>9. QED
  BY <1>4, <1>6, <1>7, <1>8 DEF ReadInv

LEMMA GrantReadStep ==
  ASSUME ReadInv, GrantRead
  PROVE  ReadInv'
<1> DEFINE p == Pick(r_next, Asking(rd))
           q == rd[p].req
           d == Decode(p, q)
<1>1. /\ rstate = "R_IDLE" /\ r_owner' = p /\ r_id' = q.id
      /\ rd' = [rd EXCEPT ![p].st = "accepted"]
      /\ r_passed' = Passed(r_passed, rd, p)
      /\ r_next' = r_next
      /\ \/ d = 2 /\ rstate' = "R_ERROR" /\ UNCHANGED <<r_slave, s_rd>>
         \/ /\ d # 2 /\ rstate' = "R_DATA" /\ r_slave' = d
            /\ s_rd' = [s_rd EXCEPT ![d] = [left |-> q.len + 1, id |-> p]]
  BY DEF GrantRead, Granted
<1>2. /\ p \in Masters /\ rd[p].st = "asking" /\ rd[p].beats = 0
      /\ q \in Requests /\ q.len \in Nat /\ q.id \in Ids
      /\ \A o \in Masters : rd[o].st = "asking" =>
                             Distance(r_next, p) <= Distance(r_next, o)
  <2>1. /\ Asking(rd) \in SUBSET Masters /\ Asking(rd) # {}
        /\ r_next \in Masters
    BY DEF GrantRead, Asking, ReadInv, ReadTypeOK
  <2>2. /\ p \in Asking(rd)
        /\ \A o \in Asking(rd) : Distance(r_next, p) <= Distance(r_next, o)
    BY <2>1, PickNearest
  <2>3. QED
    BY <2>2, FabricAssumption DEF Asking, ReadInv, ReadCoupled, Ids
<1>3. /\ d = 2 => Refused(p, q)
      /\ d # 2 => d \in Slaves /\ Allowed(p, q, d)
  BY <1>2, DecodeAllows
<1> HIDE DEF p, q, d
<1>4. /\ \A m \in Masters : /\ m # p => rd'[m] = rd[m]
                            /\ rd'[m].req = rd[m].req
                            /\ rd'[m].beats = rd[m].beats
      /\ rd'[p].st = "accepted" /\ rd'[p].req = q
      /\ rd' \in [Masters -> Port]
  <2>1. rd \in [Masters -> Port]
    BY DEF ReadInv, ReadTypeOK
  <2>2. rd' = Granted(rd, p)
    BY <1>1 DEF Granted
  <2>3. p \in Masters /\ rd[p].req = q
    BY <1>2 DEF q
  <2> DEFINE G == Granted(rd, p)
  <2>4. /\ \A m \in Masters : /\ m # p => G[m] = rd[m]
                              /\ G[m].req = rd[m].req
                              /\ G[m].beats = rd[m].beats
        /\ G[p].st = "accepted"
        /\ G \in [Masters -> Port]
    BY <2>1, <2>3, GrantedPort
  <2>5. rd' = G
    BY <2>2
  <2> HIDE DEF G
  <2>6. G[p].req = q
    BY <2>3, <2>4
  <2>7. QED
    BY <2>4, <2>5, <2>6
<1>5. /\ r_passed' \in [Masters -> Nat]
      /\ r_passed'[p] = 0
      /\ \A m \in Masters \ {p} :
           r_passed'[m] = IF rd[m].st = "asking" THEN r_passed[m] + 1 ELSE 0
  <2>1. \A m \in Masters : r_passed[m] \in Nat
    BY DEF ReadInv, ReadTypeOK
  <2>2. \A m \in Masters : rd[m].st = "asking" => r_passed[m] < N
    <3>1. TAKE m \in Masters
    <3>2. HAVE rd[m].st = "asking"
    <3>3. r_next \in Masters /\ ReadScan = r_next
      BY <1>1 DEF ReadInv, ReadTypeOK, ReadScan
    <3>4. Distance(ReadScan, m) \in 0 .. N - 1
      BY <3>3, DistanceRange
    <3>5. r_passed[m] + Distance(ReadScan, m) <= N - 1
      BY <3>2 DEF ReadInv, ReadNearing
    <3>6. QED
      BY <2>1, <3>4, <3>5, FabricAssumption
  <2>3. \A m \in Masters : rd[m].st # "asking" => r_passed[m] = 0
    BY DEF ReadInv, ReadNearing
  <2>4. \A m \in Masters :
          /\ OneMore(r_passed[m]) \in Nat
          /\ r_passed[m] < N => OneMore(r_passed[m]) = r_passed[m] + 1
    BY <2>1, FabricAssumption DEF OneMore
  <2>5. QED
    BY <1>1, <1>2, <2>1, <2>2, <2>3, <2>4 DEF Passed
<1>6. ReadTypeOK'
  <2>1. s_rd' \in [Slaves -> [left : Nat, id : Masters]]
    <3> DEFINE Burst == [left : Nat, id : Masters]
               burst == [left |-> q.len + 1, id |-> p]
    <3>1. burst \in Burst
      BY <1>2
    <3>2. s_rd \in [Slaves -> Burst]
      BY DEF ReadInv, ReadTypeOK
    <3>3. s_rd' = s_rd \/ (d \in Slaves /\ s_rd' = [s_rd EXCEPT ![d] = burst])
      BY <1>1, <1>3
    <3> HIDE DEF Burst, burst
    <3>4. s_rd' \in [Slaves -> Burst]
      BY <3>1, <3>2, <3>3
    <3>5. QED
      BY <3>4 DEF Burst
  <2>2. /\ rstate' \in {"R_IDLE", "R_DATA", "R_ERROR"}
        /\ r_owner' \in Masters /\ r_next' \in Masters
        /\ r_slave' \in Slaves /\ r_id' \in Ids
    BY <1>1, <1>2, <1>3 DEF ReadInv, ReadTypeOK
  <2>3. QED
    BY <1>4, <1>5, <2>1, <2>2 DEF ReadTypeOK
<1>7. ReadCoupled'
  <2>1. \A s \in Slaves : s_rd[s].left = 0
    BY <1>1 DEF ReadInv, ReadCoupled, ReadTypeOK
  <2>2. \A m \in Masters : rd'[m].st = "asking" =>
                           rd'[m].beats = 0 /\ rd'[m].req \in Requests
    BY <1>4 DEF ReadInv, ReadCoupled
  <2>3. CASE d = 2
    BY <1>1, <1>2, <1>3, <1>4, <2>1, <2>2, <2>3 DEF ReadCoupled
  <2>4. CASE d # 2
    <3>1. /\ rstate' = "R_DATA" /\ r_slave' = d /\ r_owner' = p
          /\ s_rd'[d] = [left |-> q.len + 1, id |-> p]
          /\ \A s \in Slaves \ {d} : s_rd'[s].left = 0
      BY <1>1, <1>3, <2>1, <2>4 DEF ReadInv, ReadTypeOK
    <3>2. QED
      BY <1>1, <1>2, <1>3, <1>4, <2>2, <2>4, <3>1 DEF ReadCoupled
  <2>5. QED
    BY <2>3, <2>4
<1>8. ReadNearing'
  <2>1. ReadScan' = Succ(p) /\ ReadScan = r_next /\ r_next \in Masters
    BY <1>1 DEF ReadScan, ReadInv, ReadTypeOK
  <2>2. ASSUME NEW m \in Masters, m # p, rd[m].st = "asking"
        PROVE  r_passed'[m] + Distance(ReadScan', m) <= N - 1
    <3>1. Distance(Succ(p), m) + 1 <= Distance(r_next, m)
      BY <1>2, <2>1, <2>2, ScanAdvances
    <3>2. /\ Distance(Succ(p), m) \in Int /\ Distance(r_next, m) \in Int
          /\ r_passed[m] \in Int /\ N \in Int
      BY <1>2, <2>1, DistanceRange, SuccRange, FabricAssumption
         DEF ReadInv, ReadTypeOK
    <3>3. r_passed[m] + Distance(r_next, m) <= N - 1
      BY <2>1, <2>2 DEF ReadInv, ReadNearing
    <3>4. QED
      BY <1>5, <2>1, <2>2, <3>1, <3>2, <3>3
  <2>3. QED
    BY <1>4, <1>5, <2>2 DEF ReadNearing
<1>9. ReadAnswered'
  BY <1>4 DEF ReadInv, ReadAnswered
<1>10. QED
  BY <1>6, <1>7, <1>8, <1>9 DEF ReadInv

(* The answer that ReadAnswered asks for.                                  *)
Due(m, req, resp, beats) ==
  /\ resp = IF Refused(m, req) THEN "decerr" ELSE "slave"
  /\ beats = IF Refused(m, req) THEN 1 ELSE req.len + 1

(* The end of a read: its owner is answered and the scan moves past it.    *)
LEMMA EndReadStep ==
  ASSUME ReadInv, rstate # "R_IDLE", rstate' = "R_IDLE",
         r_next' = Succ(r_owner), UNCHANGED <<r_owner, r_slave, r_id, r_passed>>,
         s_rd' \in [Slaves -> [left : Nat, id : Masters]],
         \A s \in Slaves : s_rd'[s].left = 0,
         NEW resp \in {"slave", "decerr"}, NEW beats \in Nat,
         rd' = Answered(rd, r_owner, beats, resp, r_id),
         Due(r_owner, rd[r_owner].req, resp, beats)
  PROVE  ReadInv'
<1>1. /\ r_owner \in Masters /\ rd[r_owner].st = "accepted"
      /\ r_id = rd[r_owner].req.id
  BY DEF ReadInv, ReadTypeOK, ReadCoupled, Port
<1>2. /\ r_next' \in Masters
      /\ r_id \in Ids /\ r_slave \in Slaves /\ r_passed \in [Masters -> Nat]
      /\ rd \in [Masters -> Port]
  BY <1>1, SuccRange DEF ReadInv, ReadTypeOK
<1>3. /\ rd' \in [Masters -> Port]
      /\ \A m \in Masters \ {r_owner} : rd'[m] = rd[m]
      /\ rd'[r_owner].st = "done" /\ rd'[r_owner].req = rd[r_owner].req
      /\ rd'[r_owner].beats = beats
      /\ rd'[r_owner].resp = resp /\ rd'[r_owner].id = r_id
  <2>1. resp \in {"none", "slave", "decerr"}
    OBVIOUS
  <2>2. r_owner \in Masters /\ r_id \in Ids /\ rd \in [Masters -> Port]
    BY <1>1, <1>2
  <2>3. QED
    BY <2>1, <2>2, AnsweredPort
<1>4. ReadTypeOK'
  BY <1>1, <1>2, <1>3, Zenon DEF ReadTypeOK
<1>5. ReadCoupled'
  <2>1. \A m \in Masters : rd'[m].st = "asking" =>
                           rd'[m].beats = 0 /\ rd'[m].req \in Requests
    BY <1>3 DEF ReadInv, ReadCoupled
  <2>2. QED
    BY <2>1 DEF ReadCoupled
<1>6. ReadNearing'
  <2>1. ReadScan' = ReadScan
    BY DEF ReadScan
  <2>2. \A m \in Masters : rd'[m].st = "asking" <=> rd[m].st = "asking"
    BY <1>1, <1>3
  <2>3. QED
    BY <2>1, <2>2 DEF ReadInv, ReadNearing
<1>7. ReadAnswered'
  <2> DEFINE Proper(m, p) ==
        p.st = "done" =>
          p.id = p.req.id /\ Due(m, p.req, p.resp, p.beats)
  <2>1. Proper(r_owner, rd'[r_owner])
    BY <1>1, <1>3
  <2>2. \A m \in Masters : Proper(m, rd[m])
    BY Zenon DEF ReadInv, ReadAnswered, Due
  <2> HIDE DEF Proper
  <2>3. \A m \in Masters : Proper(m, rd'[m])
    BY <1>3, <2>1, <2>2, Zenon
  <2>4. QED
    BY <2>3, Zenon DEF ReadAnswered, Proper, Due
<1>8. QED
  BY <1>4, <1>5, <1>6, <1>7 DEF ReadInv

LEMMA ReadBeatStep ==
  ASSUME ReadInv, ReadBeat
  PROVE  ReadInv'
<1>1. /\ rstate = "R_DATA" /\ r_owner \in Masters /\ r_slave \in Slaves
      /\ rd[r_owner].st = "accepted" /\ rd[r_owner].beats \in Nat
      /\ s_rd[r_slave].left \in Nat /\ s_rd[r_slave].left > 0
      /\ s_rd[r_slave].left + rd[r_owner].beats = rd[r_owner].req.len + 1
      /\ Allowed(r_owner, rd[r_owner].req, r_slave)
  BY DEF ReadBeat, ReadInv, ReadTypeOK, ReadCoupled, Port
<1>2. /\ s_rd'[r_slave].left = s_rd[r_slave].left - 1
      /\ s_rd'[r_slave].id = s_rd[r_slave].id
      /\ \A s \in Slaves \ {r_slave} : s_rd'[s] = s_rd[s]
      /\ s_rd' \in [Slaves -> [left : Nat, id : Masters]]
  BY <1>1 DEF ReadBeat, ReadInv, ReadTypeOK
<1>3. \A s \in Slaves \ {r_slave} : s_rd[s].left = 0
  BY <1>1 DEF ReadInv, ReadTypeOK, ReadCoupled
<1>4. rd[r_owner].req.len \in Nat
  BY FabricAssumption, NoRequestType DEF ReadInv, ReadTypeOK, Port
<1>5. CASE s_rd[r_slave].left = 1
  <2>1. ~Refused(r_owner, rd[r_owner].req)
    BY <1>1 DEF Refused
  <2>2. \A s \in Slaves : s_rd'[s].left = 0
    BY <1>1, <1>2, <1>3, <1>5
  <2>3. rd[r_owner].beats + 1 = rd[r_owner].req.len + 1
    BY <1>1, <1>4, <1>5
  <2>4. /\ rstate' = "R_IDLE" /\ r_next' = Succ(r_owner)
        /\ UNCHANGED <<r_owner, r_slave, r_id, r_passed>>
        /\ rd' = Answered(rd, r_owner, rd[r_owner].beats + 1, "slave", r_id)
    BY <1>5 DEF ReadBeat
  <2>5. QED
    BY <1>1, <1>2, <2>1, <2>2, <2>3, <2>4, EndReadStep DEF Due
<1>6. CASE s_rd[r_slave].left # 1
  <2>1. /\ rd' = [rd EXCEPT ![r_owner].beats = @ + 1]
        /\ UNCHANGED <<r_next, rstate, r_owner, r_slave, r_id, r_passed>>
    BY <1>6 DEF ReadBeat
  <2>2. /\ rd' \in [Masters -> Port]
        /\ \A m \in Masters \ {r_owner} : rd'[m] = rd[m]
        /\ rd'[r_owner].beats = rd[r_owner].beats + 1
        /\ rd'[r_owner].st = "accepted" /\ rd'[r_owner].req = rd[r_owner].req
    <3>1. rd \in [Masters -> Port]
      BY DEF ReadInv, ReadTypeOK
    <3>2. rd' = [rd EXCEPT ![r_owner].beats = @ + 1]
      BY <2>1
    <3>3. QED
      BY <1>1, <3>1, <3>2, CountedPort
  <2>3. ReadTypeOK'
    BY <1>2, <2>1, <2>2 DEF ReadInv, ReadTypeOK
  <2>4. ReadCoupled'
    <3>1. /\ s_rd'[r_slave].left > 0
          /\ s_rd'[r_slave].left + rd'[r_owner].beats = rd[r_owner].req.len + 1
      BY <1>1, <1>2, <1>4, <1>6, <2>2
    <3>2. \A s \in Slaves : s_rd'[s].left > 0 => s = r_slave
      BY <1>2, <1>3
    <3>3. QED
      BY <1>1, <1>2, <2>1, <2>2, <3>1, <3>2 DEF ReadInv, ReadCoupled
  <2>5. ReadNearing'
    <3>1. ReadScan' = ReadScan
      BY <2>1 DEF ReadScan
    <3>2. QED
      BY <1>1, <2>1, <2>2, <3>1 DEF ReadInv, ReadNearing
  <2>6. ReadAnswered'
    BY <1>1, <2>2 DEF ReadInv, ReadAnswered
  <2>7. QED
    BY <2>3, <2>4, <2>5, <2>6 DEF ReadInv
<1>7. QED
  BY <1>5, <1>6

LEMMA ReadErrorStep ==
  ASSUME ReadInv, ReadError
  PROVE  ReadInv'
<1>1. /\ rstate = "R_ERROR"
      /\ Refused(r_owner, rd[r_owner].req) /\ rd[r_owner].beats = 0
      /\ \A s \in Slaves : s_rd[s].left = 0
  BY DEF ReadError, ReadInv, ReadTypeOK, ReadCoupled
<1>2. /\ rstate' = "R_IDLE" /\ r_next' = Succ(r_owner)
      /\ UNCHANGED <<r_owner, r_slave, r_id, r_passed, s_rd>>
      /\ rd' = Answered(rd, r_owner, rd[r_owner].beats + 1, "decerr", r_id)
      /\ s_rd \in [Slaves -> [left : Nat, id : Masters]]
  BY DEF ReadError, ReadInv, ReadTypeOK
<1>3. QED
  BY <1>1, <1>2, EndReadStep DEF Due

LEMMA ReadStep ==
  ASSUME ReadInv, ReadNext \/ UNCHANGED readVars
  PROVE  ReadInv'
<1>1. CASE \E m \in Readers : AskRead(m)
  BY <1>1, AskReadStep, FabricAssumption
<1>2. CASE ReadMachine
  BY <1>2, GrantReadStep, ReadBeatStep, ReadErrorStep, Zenon DEF ReadMachine
<1>3. CASE UNCHANGED readVars
  BY <1>3 DEF readVars, ReadInv, ReadTypeOK, ReadCoupled, ReadNearing, ReadScan,
              ReadAnswered
<1>4. QED
  BY <1>1, <1>2, <1>3 DEF ReadNext

-----------------------------------------------------------------------------
(* The write machine, its owner and its slave agree on the burst in flight *)
(* and on the beats left of it, though each counts its own.                *)
WriteCoupled ==
  /\ wstate = "W_DATA" =>
       /\ wr[w_owner].st = "accepted" /\ ~w_error
       /\ w_id = wr[w_owner].req.id
       /\ Allowed(w_owner, wr[w_owner].req, w_slave)
       /\ s_wr[w_slave].busy /\ s_wr[w_slave].id = w_owner
       /\ s_wr[w_slave].left = w_remaining + 1
       /\ w_remaining + wr[w_owner].beats = wr[w_owner].req.len
  /\ wstate = "W_ERROR" =>
       /\ wr[w_owner].st = "accepted" /\ w_error
       /\ w_id = wr[w_owner].req.id
       /\ Refused(w_owner, wr[w_owner].req)
       /\ w_remaining + wr[w_owner].beats = wr[w_owner].req.len
  /\ wstate = "W_RESP" =>
       /\ wr[w_owner].st = "accepted"
       /\ w_id = wr[w_owner].req.id
       /\ wr[w_owner].beats = wr[w_owner].req.len + 1
       /\ w_error => Refused(w_owner, wr[w_owner].req)
       /\ ~w_error => /\ Allowed(w_owner, wr[w_owner].req, w_slave)
                      /\ s_wr[w_slave].busy /\ s_wr[w_slave].id = w_owner
                      /\ s_wr[w_slave].left = 0
  /\ \A s \in Slaves : s_wr[s].busy =>
                          wstate \in {"W_DATA", "W_RESP"} /\ ~w_error /\ w_slave = s
  /\ \A m \in Masters : wr[m].st = "asking" =>
                           wr[m].beats = 0 /\ wr[m].req \in Requests

WriteScan == IF wstate = "W_IDLE" THEN w_next ELSE Succ(w_owner)
WriteNearing ==
  \A m \in Masters :
    /\ wr[m].st = "asking" => w_passed[m] + Distance(WriteScan, m) <= N - 1
    /\ wr[m].st # "asking" => w_passed[m] = 0

WriteInv == WriteTypeOK /\ WriteCoupled /\ WriteNearing /\ WriteAnswered

LEMMA AskWriteStep ==
  ASSUME WriteInv, NEW a \in Masters, AskWrite(a)
  PROVE  WriteInv'
<1>1. PICK q \in Requests : wr' = Ask(wr, a, q)
  BY DEF AskWrite
<1> DEFINE port == [Quiet EXCEPT !.st = "asking", !.req = q]
<1>2. /\ port \in Port /\ port.st = "asking" /\ port.beats = 0 /\ port.req = q
  BY NoRequestType DEF Quiet, Port, MasterStates
<1>3. /\ wr' = [wr EXCEPT ![a] = port]
      /\ UNCHANGED <<wstate, w_owner, w_next, w_slave, w_remaining, w_error,
                     w_id, s_wr, w_passed>>
      /\ wr[a].st \in {"idle", "done"}
  BY <1>1 DEF AskWrite, Ask
<1> HIDE DEF port
<1>4. WriteTypeOK'
  BY <1>2, <1>3 DEF WriteInv, WriteTypeOK
<1>5. \A m \in Masters : wr'[m] = IF m = a THEN port ELSE wr[m]
  BY <1>3 DEF WriteInv, WriteTypeOK
<1>6. WriteCoupled'
  BY <1>2, <1>3, <1>5 DEF WriteInv, WriteTypeOK, WriteCoupled
<1>7. WriteNearing'
  <2>1. WriteScan' = WriteScan /\ WriteScan \in Masters
    BY <1>3, SuccRange DEF WriteScan, WriteInv, WriteTypeOK
  <2>2. Distance(WriteScan, a) \in 0 .. N - 1 /\ w_passed[a] = 0
    BY <1>3, <2>1, DistanceRange DEF WriteInv, WriteNearing
  <2>3. QED
    BY <1>2, <1>3, <1>5, <2>1, <2>2 DEF WriteInv, WriteNearing
<1>8. WriteAnswered'
  BY <1>2, <1>3, <1>5 DEF WriteInv, WriteAnswered
<1>9. QED
  BY <1>4, <1>6, <1>7, <1>8 DEF WriteInv

LEMMA GrantWriteStep ==
  ASSUME WriteInv, GrantWrite
  PROVE  WriteInv'
<1> DEFINE p == Pick(w_next, Asking(wr))
           q == wr[p].req
           d == Decode(p, q)
<1>1. /\ wstate = "W_IDLE" /\ w_owner' = p /\ w_id' = q.id
      /\ w_remaining' = q.len /\ w_error' = (d = 2)
      /\ wr' = [wr EXCEPT ![p].st = "accepted"]
      /\ w_passed' = Passed(w_passed, wr, p)
      /\ w_next' = w_next
      /\ \/ d = 2 /\ wstate' = "W_ERROR" /\ UNCHANGED <<w_slave, s_wr>>
         \/ /\ d # 2 /\ wstate' = "W_DATA" /\ w_slave' = d
            /\ s_wr' = [s_wr EXCEPT ![d] =
                           [busy |-> TRUE, left |-> q.len + 1, id |-> p]]
  BY DEF GrantWrite, Granted
<1>2. /\ p \in Masters /\ wr[p].st = "asking" /\ wr[p].beats = 0
      /\ q \in Requests /\ q.len \in Nat /\ q.id \in Ids
      /\ \A o \in Masters : wr[o].st = "asking" =>
                             Distance(w_next, p) <= Distance(w_next, o)
  <2>1. /\ Asking(wr) \in SUBSET Masters /\ Asking(wr) # {}
        /\ w_next \in Masters
    BY DEF GrantWrite, Asking, WriteInv, WriteTypeOK
  <2>2. /\ p \in Asking(wr)
        /\ \A o \in Asking(wr) : Distance(w_next, p) <= Distance(w_next, o)
    BY <2>1, PickNearest
  <2>3. QED
    BY <2>2, FabricAssumption DEF Asking, WriteInv, WriteCoupled, Ids
<1>3. /\ d = 2 => Refused(p, q)
      /\ d # 2 => d \in Slaves /\ Allowed(p, q, d)
  BY <1>2, DecodeAllows
<1> HIDE DEF p, q, d
<1>4. /\ \A m \in Masters : /\ m # p => wr'[m] = wr[m]
                            /\ wr'[m].req = wr[m].req
                            /\ wr'[m].beats = wr[m].beats
      /\ wr'[p].st = "accepted" /\ wr'[p].req = q
      /\ wr' \in [Masters -> Port]
  <2>1. wr \in [Masters -> Port]
    BY DEF WriteInv, WriteTypeOK
  <2>2. wr' = Granted(wr, p)
    BY <1>1 DEF Granted
  <2>3. p \in Masters /\ wr[p].req = q
    BY <1>2 DEF q
  <2> DEFINE G == Granted(wr, p)
  <2>4. /\ \A m \in Masters : /\ m # p => G[m] = wr[m]
                              /\ G[m].req = wr[m].req
                              /\ G[m].beats = wr[m].beats
        /\ G[p].st = "accepted"
        /\ G \in [Masters -> Port]
    BY <2>1, <2>3, GrantedPort
  <2>5. wr' = G
    BY <2>2
  <2> HIDE DEF G
  <2>6. G[p].req = q
    BY <2>3, <2>4
  <2>7. QED
    BY <2>4, <2>5, <2>6
<1>5. /\ w_passed' \in [Masters -> Nat]
      /\ w_passed'[p] = 0
      /\ \A m \in Masters \ {p} :
           w_passed'[m] = IF wr[m].st = "asking" THEN w_passed[m] + 1 ELSE 0
  <2>1. \A m \in Masters : w_passed[m] \in Nat
    BY DEF WriteInv, WriteTypeOK
  <2>2. \A m \in Masters : wr[m].st = "asking" => w_passed[m] < N
    <3>1. TAKE m \in Masters
    <3>2. HAVE wr[m].st = "asking"
    <3>3. w_next \in Masters /\ WriteScan = w_next
      BY <1>1 DEF WriteInv, WriteTypeOK, WriteScan
    <3>4. Distance(WriteScan, m) \in 0 .. N - 1
      BY <3>3, DistanceRange
    <3>5. w_passed[m] + Distance(WriteScan, m) <= N - 1
      BY <3>2 DEF WriteInv, WriteNearing
    <3>6. QED
      BY <2>1, <3>4, <3>5, FabricAssumption
  <2>3. \A m \in Masters : wr[m].st # "asking" => w_passed[m] = 0
    BY DEF WriteInv, WriteNearing
  <2>4. \A m \in Masters :
          /\ OneMore(w_passed[m]) \in Nat
          /\ w_passed[m] < N => OneMore(w_passed[m]) = w_passed[m] + 1
    BY <2>1, FabricAssumption DEF OneMore
  <2>5. QED
    BY <1>1, <1>2, <2>1, <2>2, <2>3, <2>4 DEF Passed
<1>6. WriteTypeOK'
  <2>1. w_error' \in BOOLEAN
    BY <1>1
  <2>2. s_wr' \in [Slaves -> [busy : BOOLEAN, left : Nat, id : Masters]]
    <3> DEFINE Burst == [busy : BOOLEAN, left : Nat, id : Masters]
               burst == [busy |-> TRUE, left |-> q.len + 1, id |-> p]
    <3>1. q.len + 1 \in Nat
      BY <1>2
    <3>2. burst \in Burst
      BY <1>2, <3>1, Zenon
    <3>3. s_wr \in [Slaves -> Burst]
      BY DEF WriteInv, WriteTypeOK
    <3>4. s_wr' = s_wr \/ (d \in Slaves /\ s_wr' = [s_wr EXCEPT ![d] = burst])
      BY <1>1, <1>3
    <3> HIDE DEF Burst, burst
    <3>5. s_wr' \in [Slaves -> Burst]
      BY <3>2, <3>3, <3>4
    <3>6. QED
      BY <3>5 DEF Burst
  <2>3. /\ wstate' \in {"W_IDLE", "W_DATA", "W_RESP", "W_ERROR"}
        /\ w_owner' \in Masters /\ w_next' \in Masters /\ w_slave' \in Slaves
        /\ w_id' \in Ids /\ w_remaining' \in Nat
    BY <1>1, <1>2, <1>3 DEF WriteInv, WriteTypeOK
  <2>4. QED
    BY <1>4, <1>5, <2>1, <2>2, <2>3 DEF WriteTypeOK
<1>7. WriteCoupled'
  <2>0. (d = 2 => w_error' = TRUE) /\ (d # 2 => w_error' = FALSE)
    BY <1>1
  <2>1. \A s \in Slaves : ~s_wr[s].busy
    BY <1>1 DEF WriteInv, WriteCoupled, WriteTypeOK
  <2>2. \A m \in Masters : wr'[m].st = "asking" =>
                           wr'[m].beats = 0 /\ wr'[m].req \in Requests
    BY <1>4 DEF WriteInv, WriteCoupled
  <2>3. CASE d = 2
    BY <1>1, <1>2, <1>3, <1>4, <2>0, <2>1, <2>2, <2>3 DEF WriteCoupled
  <2>4. CASE d # 2
    <3>1. /\ wstate' = "W_DATA" /\ w_slave' = d /\ w_owner' = p
          /\ s_wr'[d] = [busy |-> TRUE, left |-> q.len + 1, id |-> p]
          /\ \A s \in Slaves \ {d} : ~s_wr'[s].busy
      BY <1>1, <1>3, <2>1, <2>4 DEF WriteInv, WriteTypeOK
    <3>2. QED
      BY <1>1, <1>2, <1>3, <1>4, <2>0, <2>2, <2>4, <3>1 DEF WriteCoupled
  <2>5. QED
    BY <2>3, <2>4
<1>8. WriteNearing'
  <2>1. WriteScan' = Succ(p) /\ WriteScan = w_next /\ w_next \in Masters
    BY <1>1 DEF WriteScan, WriteInv, WriteTypeOK
  <2>2. ASSUME NEW m \in Masters, m # p, wr[m].st = "asking"
        PROVE  w_passed'[m] + Distance(WriteScan', m) <= N - 1
    <3>1. Distance(Succ(p), m) + 1 <= Distance(w_next, m)
      BY <1>2, <2>1, <2>2, ScanAdvances
    <3>2. /\ Distance(Succ(p), m) \in Int /\ Distance(w_next, m) \in Int
          /\ w_passed[m] \in Int /\ N \in Int
      BY <1>2, <2>1, DistanceRange, SuccRange, FabricAssumption
         DEF WriteInv, WriteTypeOK
    <3>3. w_passed[m] + Distance(w_next, m) <= N - 1
      BY <2>1, <2>2 DEF WriteInv, WriteNearing
    <3>4. QED
      BY <1>5, <2>1, <2>2, <3>1, <3>2, <3>3
  <2>3. QED
    BY <1>4, <1>5, <2>2 DEF WriteNearing
<1>9. WriteAnswered'
  BY <1>4 DEF WriteInv, WriteAnswered
<1>10. QED
  BY <1>6, <1>7, <1>8, <1>9 DEF WriteInv

(* A beat of the owner: the fabric and the owner count it alike.           *)
LEMMA SendBeatStep ==
  ASSUME WriteInv, wstate \in {"W_DATA", "W_ERROR"}, SendBeat(w_owner), CountBeat
  PROVE  /\ wr' \in [Masters -> Port]
         /\ \A m \in Masters \ {w_owner} : wr'[m] = wr[m]
         /\ wr'[w_owner].req = wr[w_owner].req
         /\ wr'[w_owner].st = "accepted"
         /\ wr'[w_owner].beats = wr[w_owner].beats + 1
         /\ \/ /\ w_remaining = 0 /\ w_remaining' = 0 /\ wstate' = "W_RESP"
               /\ wr'[w_owner].beats = wr[w_owner].req.len + 1
            \/ /\ w_remaining # 0 /\ w_remaining' = w_remaining - 1
               /\ wstate' = wstate
               /\ w_remaining' + wr'[w_owner].beats = wr[w_owner].req.len
<1>1. /\ w_owner \in Masters /\ wr[w_owner].st = "accepted"
      /\ wr[w_owner].beats \in Nat /\ w_remaining \in Nat
      /\ w_remaining + wr[w_owner].beats = wr[w_owner].req.len
  BY DEF WriteInv, WriteTypeOK, WriteCoupled, Port
<1>2. /\ wr' \in [Masters -> Port]
      /\ \A m \in Masters \ {w_owner} : wr'[m] = wr[m]
      /\ wr'[w_owner].req = wr[w_owner].req
      /\ wr'[w_owner].st = "accepted"
      /\ wr'[w_owner].beats = wr[w_owner].beats + 1
  <2>1. wr \in [Masters -> Port]
    BY DEF WriteInv, WriteTypeOK
  <2>2. wr' = [wr EXCEPT ![w_owner].beats = @ + 1]
    BY DEF SendBeat
  <2>3. QED
    BY <1>1, <2>1, <2>2, CountedPort
<1>3. CASE w_remaining = 0
  BY <1>1, <1>2, <1>3 DEF CountBeat
<1>4. CASE w_remaining # 0
  BY <1>1, <1>2, <1>4 DEF CountBeat
<1>5. QED
  BY <1>2, <1>3, <1>4

LEMMA WriteBeatStep ==
  ASSUME WriteInv, WriteBeat
  PROVE  WriteInv'
<1>1. /\ wstate = "W_DATA" /\ w_owner \in Masters /\ w_slave \in Slaves
      /\ ~w_error /\ Allowed(w_owner, wr[w_owner].req, w_slave)
      /\ w_id = wr[w_owner].req.id
      /\ s_wr[w_slave].busy /\ s_wr[w_slave].id = w_owner
      /\ s_wr[w_slave].left = w_remaining + 1 /\ w_remaining \in Nat
      /\ UNCHANGED <<w_owner, w_next, w_slave, w_error, w_id, w_passed>>
  BY DEF WriteBeat, WriteInv, WriteTypeOK, WriteCoupled
<1>2. /\ s_wr'[w_slave].left = w_remaining
      /\ s_wr'[w_slave].busy /\ s_wr'[w_slave].id = w_owner
      /\ \A s \in Slaves \ {w_slave} : s_wr'[s] = s_wr[s]
      /\ s_wr' \in [Slaves -> [busy : BOOLEAN, left : Nat, id : Masters]]
  BY <1>1 DEF WriteBeat, WriteInv, WriteTypeOK
<1>3. SendBeat(w_owner) /\ CountBeat
  BY DEF WriteBeat
<1>4. WriteTypeOK'
  BY <1>1, <1>2, <1>3, SendBeatStep DEF WriteInv, WriteTypeOK
<1>5. WriteCoupled'
  <2>1. \A s \in Slaves : s_wr'[s].busy => s = w_slave
    BY <1>1, <1>2 DEF WriteInv, WriteTypeOK, WriteCoupled
  <2>2. \A m \in Masters : wr'[m].st = "asking" =>
                           wr'[m].beats = 0 /\ wr'[m].req \in Requests
    BY <1>1, <1>3, SendBeatStep DEF WriteInv, WriteCoupled
  <2>3. CASE w_remaining = 0
    BY <1>1, <1>2, <1>3, <2>1, <2>2, <2>3, SendBeatStep DEF WriteCoupled
  <2>4. CASE w_remaining # 0
    BY <1>1, <1>2, <1>3, <2>1, <2>2, <2>4, SendBeatStep DEF WriteCoupled
  <2>5. QED
    BY <2>3, <2>4
<1>6. WriteNearing'
  <2>1. WriteScan' = WriteScan
    BY <1>1, <1>3, SendBeatStep DEF WriteScan
  <2>2. wr[w_owner].st = "accepted"
    BY <1>3 DEF SendBeat
  <2>3. QED
    BY <1>1, <1>3, <2>1, <2>2, SendBeatStep DEF WriteInv, WriteNearing
<1>7. WriteAnswered'
  BY <1>1, <1>3, SendBeatStep DEF WriteInv, WriteAnswered
<1>8. QED
  BY <1>4, <1>5, <1>6, <1>7 DEF WriteInv

LEMMA WriteErrorBeatStep ==
  ASSUME WriteInv, WriteErrorBeat
  PROVE  WriteInv'
<1>1. /\ wstate = "W_ERROR" /\ w_owner \in Masters
      /\ w_error /\ Refused(w_owner, wr[w_owner].req)
      /\ w_id = wr[w_owner].req.id
      /\ UNCHANGED <<w_owner, w_next, w_slave, w_error, w_id, w_passed, s_wr>>
      /\ \A s \in Slaves : ~s_wr[s].busy
  BY DEF WriteErrorBeat, WriteInv, WriteTypeOK, WriteCoupled
<1>2. SendBeat(w_owner) /\ CountBeat
  BY DEF WriteErrorBeat
<1>3. WriteTypeOK'
  BY <1>1, <1>2, SendBeatStep DEF WriteInv, WriteTypeOK
<1>4. WriteCoupled'
  <2>1. \A m \in Masters : wr'[m].st = "asking" =>
                           wr'[m].beats = 0 /\ wr'[m].req \in Requests
    BY <1>1, <1>2, SendBeatStep DEF WriteInv, WriteCoupled
  <2>2. CASE w_remaining = 0
    BY <1>1, <1>2, <2>1, <2>2, SendBeatStep DEF WriteCoupled
  <2>3. CASE w_remaining # 0
    BY <1>1, <1>2, <2>1, <2>3, SendBeatStep DEF WriteCoupled
  <2>4. QED
    BY <2>2, <2>3
<1>5. WriteNearing'
  <2>1. WriteScan' = WriteScan
    BY <1>1, <1>2, SendBeatStep DEF WriteScan
  <2>2. wr[w_owner].st = "accepted"
    BY <1>2 DEF SendBeat
  <2>3. QED
    BY <1>1, <1>2, <2>1, <2>2, SendBeatStep DEF WriteInv, WriteNearing
<1>6. WriteAnswered'
  BY <1>1, <1>2, SendBeatStep DEF WriteInv, WriteAnswered
<1>7. QED
  BY <1>3, <1>4, <1>5, <1>6 DEF WriteInv

LEMMA WriteResponseStep ==
  ASSUME WriteInv, WriteResponse
  PROVE  WriteInv'
<1>1. /\ wstate = "W_RESP" /\ w_owner \in Masters /\ w_slave \in Slaves
      /\ wr[w_owner].st = "accepted" /\ w_error \in BOOLEAN
      /\ w_id = wr[w_owner].req.id
      /\ wr[w_owner].beats = wr[w_owner].req.len + 1
      /\ UNCHANGED <<w_owner, w_slave, w_remaining, w_error, w_id, w_passed>>
      /\ wstate' = "W_IDLE" /\ w_next' = Succ(w_owner)
  BY DEF WriteResponse, WriteInv, WriteTypeOK, WriteCoupled
<1>2. /\ s_wr' \in [Slaves -> [busy : BOOLEAN, left : Nat, id : Masters]]
      /\ \A s \in Slaves : ~s_wr'[s].busy
  <2>1. CASE w_error
    BY <1>1, <2>1 DEF WriteResponse, WriteInv, WriteTypeOK, WriteCoupled
  <2>2. CASE ~w_error
    BY <1>1, <2>2 DEF WriteResponse, WriteInv, WriteTypeOK, WriteCoupled
  <2>3. QED
    BY <2>1, <2>2
<1>3. PICK resp \in {"slave", "decerr"} :
        /\ resp = IF Refused(w_owner, wr[w_owner].req) THEN "decerr" ELSE "slave"
        /\ wr' = Answered(wr, w_owner, wr[w_owner].beats, resp, w_id)
  <2>1. CASE w_error
    <3>1. Refused(w_owner, wr[w_owner].req)
      BY <1>1, <2>1 DEF WriteInv, WriteCoupled
    <3>2. wr' = Answered(wr, w_owner, wr[w_owner].beats, "decerr", w_id)
      BY <2>1 DEF WriteResponse
    <3>3. QED
      BY <3>1, <3>2
  <2>2. CASE ~w_error
    <3>1. ~Refused(w_owner, wr[w_owner].req)
      BY <1>1, <2>2 DEF WriteInv, WriteCoupled, Refused
    <3>2. wr' = Answered(wr, w_owner, wr[w_owner].beats, "slave", w_id)
      BY <2>2 DEF WriteResponse
    <3>3. QED
      BY <3>1, <3>2
  <2>3. QED
    BY <1>1, <2>1, <2>2
<1>4. /\ wr[w_owner].beats \in Nat /\ w_id \in Ids /\ w_next' \in Masters
      /\ wr \in [Masters -> Port]
  BY <1>1, SuccRange DEF WriteInv, WriteTypeOK, Port
<1>5. /\ wr' \in [Masters -> Port]
      /\ \A m \in Masters \ {w_owner} : wr'[m] = wr[m]
      /\ wr'[w_owner].st = "done" /\ wr'[w_owner].req = wr[w_owner].req
      /\ wr'[w_owner].beats = wr[w_owner].beats
      /\ wr'[w_owner].resp = resp /\ wr'[w_owner].id = w_id
  <2>1. /\ w_owner \in Masters /\ w_id \in Ids /\ wr[w_owner].beats \in Nat
        /\ wr \in [Masters -> Port] /\ resp \in {"none", "slave", "decerr"}
    BY <1>1, <1>4
  <2>2. wr' = Answered(wr, w_owner, wr[w_owner].beats, resp, w_id)
    BY <1>3
  <2>3. QED
    BY <2>1, <2>2, AnsweredPort
<1>6. WriteTypeOK'
  BY <1>1, <1>2, <1>4, <1>5 DEF WriteInv, WriteTypeOK
<1>7. WriteCoupled'
  BY <1>1, <1>2, <1>5 DEF WriteInv, WriteCoupled
<1>8. WriteNearing'
  <2>1. WriteScan' = WriteScan
    BY <1>1 DEF WriteScan
  <2>2. \A m \in Masters : wr'[m].st = "asking" <=> wr[m].st = "asking"
    BY <1>1, <1>5
  <2>3. QED
    BY <1>1, <2>1, <2>2 DEF WriteInv, WriteNearing
<1>9. WriteAnswered'
  <2> DEFINE Proper(m, p) ==
        p.st = "done" =>
          /\ p.id = p.req.id
          /\ p.beats = p.req.len + 1
          /\ p.resp = IF Refused(m, p.req) THEN "decerr" ELSE "slave"
  <2>1. Proper(w_owner, wr'[w_owner])
    BY <1>1, <1>3, <1>5
  <2>2. \A m \in Masters : Proper(m, wr[m])
    BY Zenon DEF WriteInv, WriteAnswered
  <2> HIDE DEF Proper
  <2>3. \A m \in Masters : Proper(m, wr'[m])
    BY <1>5, <2>1, <2>2, Zenon
  <2>4. QED
    BY <2>3, Zenon DEF WriteAnswered, Proper
<1>10. QED
  BY <1>6, <1>7, <1>8, <1>9 DEF WriteInv

LEMMA WriteStep ==
  ASSUME WriteInv, WriteNext \/ UNCHANGED writeVars
  PROVE  WriteInv'
<1>1. CASE \E m \in Writers : AskWrite(m)
  BY <1>1, AskWriteStep, FabricAssumption
<1>2. CASE WriteMachine
  BY <1>2, GrantWriteStep, WriteBeatStep, WriteErrorBeatStep, WriteResponseStep,
     Zenon DEF WriteMachine
<1>3. CASE UNCHANGED writeVars
  BY <1>3 DEF writeVars, WriteInv, WriteTypeOK, WriteCoupled, WriteNearing,
              WriteScan, WriteAnswered
<1>4. QED
  BY <1>1, <1>2, <1>3 DEF WriteNext

-----------------------------------------------------------------------------
LEMMA InitInv == FabricInit => ReadInv /\ WriteInv
<1> SUFFICES ASSUME FabricInit PROVE ReadInv /\ WriteInv
  OBVIOUS
<1>1. 0 \in Masters /\ 0 \in Slaves /\ Quiet \in Port /\ Quiet.st = "idle"
  BY FabricAssumption, NoRequestType
     DEF Masters, Slaves, Quiet, Port, MasterStates
<1>2. ReadInv
  BY <1>1, NoRequestType
     DEF FabricInit, ReadInv, ReadTypeOK, ReadCoupled, ReadNearing, ReadAnswered
<1>3. WriteInv
  BY <1>1, NoRequestType
     DEF FabricInit, WriteInv, WriteTypeOK, WriteCoupled, WriteNearing, WriteAnswered
<1>4. QED
  BY <1>2, <1>3

LEMMA ResetInv == Reset => ReadInv' /\ WriteInv'
<1> SUFFICES ASSUME Reset PROVE ReadInv' /\ WriteInv'
  OBVIOUS
<1>1. 0 \in Masters /\ 0 \in Slaves /\ Quiet \in Port /\ Quiet.st = "idle"
  BY FabricAssumption, NoRequestType
     DEF Masters, Slaves, Quiet, Port, MasterStates
<1>2. ReadInv'
  BY <1>1, NoRequestType
     DEF Reset, ReadInv, ReadTypeOK, ReadCoupled, ReadNearing, ReadAnswered
<1>3. WriteInv'
  BY <1>1, NoRequestType
     DEF Reset, WriteInv, WriteTypeOK, WriteCoupled, WriteNearing, WriteAnswered
<1>4. QED
  BY <1>2, <1>3

(* The two machines keep their invariants whatever the other does.         *)
THEOREM FabricInductive == FabricSpec => [](ReadInv /\ WriteInv)
<1>1. ReadInv /\ WriteInv /\ [FabricNext]_fabricVars => ReadInv' /\ WriteInv'
  BY ReadStep, WriteStep, ResetInv, Zenon DEF FabricNext, fabricVars
<1>2. QED
  BY InitInv, <1>1, PTL DEF FabricSpec

(* Every variable of the fabric keeps its type.                            *)
THEOREM FabricTypes == FabricSpec => []FabricTypeOK
<1>1. ReadInv /\ WriteInv => FabricTypeOK
  BY DEF ReadInv, WriteInv, FabricTypeOK
<1>2. QED
  BY <1>1, FabricInductive, PTL

(* Every answer is the right one, and refused requests get DECERR.         *)
THEOREM FabricAnswers == FabricSpec => []EachAnswered
<1>1. ReadInv /\ WriteInv => EachAnswered
  BY DEF ReadInv, WriteInv, EachAnswered
<1>2. QED
  BY <1>1, FabricInductive, PTL

(* Slaves only ever serve the request the fabric routes to them.           *)
THEOREM FabricIsolates == FabricSpec => []SlavesServeOwner
<1>1. ReadInv /\ WriteInv => SlavesServeOwner
  <2> SUFFICES ASSUME ReadInv, WriteInv, NEW s \in Slaves
               PROVE  SlavesServeOwner!(s)
    BY DEF SlavesServeOwner
  <2>1. QED
    BY DEF ReadInv, ReadTypeOK, ReadCoupled, WriteInv, WriteTypeOK, WriteCoupled,
           Port
<1>2. QED
  BY <1>1, FabricInductive, PTL

(* At most N - 1 others go before a waiting master, for any N.             *)
THEOREM FabricFair == FabricSpec => []BypassBounded
<1>1. ReadInv /\ WriteInv => BypassBounded
  <2> SUFFICES ASSUME ReadInv, WriteInv, NEW m \in Masters
               PROVE  /\ rd[m].st = "asking" => r_passed[m] <= N - 1
                      /\ wr[m].st = "asking" => w_passed[m] <= N - 1
    BY DEF BypassBounded
  <2>1. ReadScan \in Masters /\ WriteScan \in Masters
    BY SuccRange DEF ReadInv, ReadTypeOK, WriteInv, WriteTypeOK, ReadScan, WriteScan
  <2>2. /\ Distance(ReadScan, m) \in Nat /\ Distance(WriteScan, m) \in Nat
        /\ r_passed[m] \in Nat /\ w_passed[m] \in Nat /\ N \in Nat
    BY <2>1, DistanceRange, FabricAssumption
       DEF ReadInv, ReadTypeOK, WriteInv, WriteTypeOK
  <2>3. QED
    BY <2>2 DEF ReadInv, ReadNearing, WriteInv, WriteNearing
<1>2. QED
  BY <1>1, FabricInductive, PTL

-----------------------------------------------------------------------------
(* The Gray words of the pointers (GrayFifo, in MCLink as Gray).  Its      *)
(* recursive functions go bit by bit, so the facts about them rest on      *)
(* induction over an interval and on a function that satisfies a recursion *)
(* being there at all.                                                     *)

(* A set of naturals has a least element.                                  *)
LEMMA LeastNat ==
  ASSUME NEW D \in SUBSET Nat, D # {}
  PROVE  \E k \in D : \A j \in D : k <= j
<1> DEFINE Less == OpToRel(<, Nat)
<1>1. IsWellFoundedOn(Less, Nat)
  BY NatLessThanWellFounded
<1>2. \A a, b \in Nat : a < b => <<a, b>> \in Less
  BY Zenon DEF OpToRel
<1> HIDE DEF Less
<1>3. PICK k \in D : \A j \in D : ~(<<j, k>> \in Less)
  BY <1>1, WFMin
<1>4. \A j \in D : ~(j < k)
  BY <1>2, <1>3, Zenon
<1> QED BY <1>4

(* Induction over an interval, upwards and downwards.                      *)
LEMMA Upwards ==
  ASSUME NEW l \in Nat, NEW h \in Nat, NEW D, l \in D,
         \A i \in l .. h - 1 : i \in D => i + 1 \in D
  PROVE  \A i \in l .. h : i \in D
<1> DEFINE B == {i \in Nat : i \in l .. h /\ i \notin D}
<1> SUFFICES ASSUME B # {} PROVE FALSE
  OBVIOUS
<1>1. PICK k \in B : \A j \in B : k <= j
  BY LeastNat
<1>2. k \in Nat /\ k \in l .. h /\ k \notin D /\ k # l
  BY <1>1
<1>3. k - 1 \in Nat /\ k - 1 \in l .. h - 1 /\ k - 1 \in l .. h /\ (k - 1) + 1 = k
  BY <1>2
<1>4. k - 1 \notin B
  <2> HIDE DEF B
  <2> QED BY <1>1, <1>3
<1>5. k - 1 \in D
  BY <1>3, <1>4
<1> QED BY <1>2, <1>3, <1>5

(* The same from the top bit down.                                         *)
LEMMA Downwards ==
  ASSUME NEW h \in Nat, NEW D, h \in D,
         \A i \in 0 .. h - 1 : i + 1 \in D => i \in D
  PROVE  \A i \in 0 .. h : i \in D
<1> DEFINE E == {i \in 0 .. h : h - i \in D}
<1>1. 0 \in E
  BY h - 0 = h
<1>2. ASSUME NEW i \in 0 .. h - 1, i \in E PROVE i + 1 \in E
  <2>1. (h - (i + 1)) + 1 = h - i /\ h - (i + 1) \in 0 .. h - 1 /\ i + 1 \in 0 .. h
    BY <1>2
  <2>2. h - i \in D
    BY <1>2
  <2>3. h - (i + 1) \in D
    BY <2>1, <2>2
  <2> QED BY <2>1, <2>3
<1> HIDE DEF E
<1>3. \A i \in 0 .. h : i \in E
  BY <1>1, <1>2, Upwards
<1>4. ASSUME NEW i \in 0 .. h PROVE i \in D
  <2>1. h - i \in 0 .. h /\ h - (h - i) = i
    OBVIOUS
  <2>2. h - i \in E
    BY <1>3, <2>1
  <2> QED BY <2>1, <2>2 DEF E
<1> QED BY <1>4

(* A function defined by recursion on an interval exists.                  *)
Closed(F, L, S) == \A n \in 1 .. L : \A s \in S : F[n][s] \in S
Iterates(f, F, L, S, a) == /\ f \in [0 .. L -> S] /\ f[0] = a
                           /\ \A n \in 1 .. L : f[n] = F[n][f[n - 1]]
LEMMA Recursion ==
  ASSUME NEW L \in Nat, NEW S, NEW a \in S, NEW F, Closed(F, L, S)
  PROVE  \E f : Iterates(f, F, L, S, a)
<1> USE DEF Closed, Iterates
<1> DEFINE Is(f, m) == f[0] = a /\ \A n \in 1 .. m : f[n] = F[n][f[n - 1]]
           D == {m \in 0 .. L : \E f \in [0 .. m -> S] : Is(f, m)}
<1>1. 0 \in D
  <2> DEFINE f == [n \in 0 .. 0 |-> a]
  <2>1. f \in [0 .. 0 -> S] /\ Is(f, 0)
    OBVIOUS
  <2> HIDE DEF f
  <2> QED BY <2>1
<1>2. ASSUME NEW m \in 0 .. L - 1, m \in D PROVE m + 1 \in D
  <2>1. PICK f \in [0 .. m -> S] : Is(f, m)
    BY <1>2
  <2> DEFINE g == [n \in 0 .. m + 1 |-> IF n = m + 1 THEN F[m + 1][f[m]] ELSE f[n]]
  <2>2. m \in Nat /\ m + 1 \in 1 .. L /\ m \in 0 .. m /\ m + 1 \in 0 .. m + 1
    OBVIOUS
  <2>3. F[m + 1][f[m]] \in S
    BY <2>2
  <2>4. g \in [0 .. m + 1 -> S]
    <3>1. \A n \in 0 .. m + 1 : n # m + 1 => n \in 0 .. m
      OBVIOUS
    <3> QED BY <2>3, <3>1
  <2>5. /\ \A n \in 0 .. m : g[n] = f[n]
        /\ g[m + 1] = F[m + 1][f[m]]
    <3>1. \A n \in 0 .. m : n \in 0 .. m + 1 /\ n # m + 1
      OBVIOUS
    <3> QED BY <3>1, <2>2
  <2> HIDE DEF g
  <2>6. g[0] = a
    BY <2>1, <2>5
  <2>7. ASSUME NEW n \in 1 .. m + 1 PROVE g[n] = F[n][g[n - 1]]
    <3>1. CASE n = m + 1
      <4>1. g[n - 1] = f[m]
        BY <3>1, <2>5
      <4> QED BY <3>1, <4>1, <2>5
    <3>2. CASE n # m + 1
      <4>1. n \in 1 .. m /\ n \in 0 .. m /\ n - 1 \in 0 .. m
        BY <3>2
      <4> QED BY <4>1, <2>1, <2>5
    <3> QED BY <3>1, <3>2
  <2>8. Is(g, m + 1)
    BY <2>6, <2>7
  <2>9. m + 1 \in 0 .. L
    OBVIOUS
  <2> HIDE DEF Is
  <2> QED BY <2>4, <2>8, <2>9
<1> HIDE DEF D
<1>3. \A m \in 0 .. L : m \in D
  BY <1>1, <1>2, Upwards
<1>4. L \in D
  BY <1>3
<1> QED BY <1>4 DEF D

-----------------------------------------------------------------------------
(* The weight of each bit, and the number of pointers.                     *)
Pow == Gray!Power
Wrap == 2 * Gray!Cells

(* Power (localparam PTR, DEPTH) is the powers of two.                     *)
LEMMA PowerIs ==
  /\ Pow \in [0 .. PTR + 1 -> Nat \ {0}]
  /\ Pow[0] = 1
  /\ \A i \in 0 .. PTR : Pow[i + 1] = 2 * Pow[i]
<1> DEFINE S == Nat \ {0}
           L == PTR + 1
           F == [n \in 1 .. L |-> [s \in S |-> 2 * s]]
<1>1. L \in Nat /\ 1 \in S /\ Closed(F, L, S)
  BY PtrAssumption DEF Closed
<1>2. PICK f : Iterates(f, F, L, S, 1)
  <2> HIDE DEF S, L, F
  <2> QED BY <1>1, Recursion
<1> USE DEF Iterates
<1>3. \A n \in 1 .. L : f[n] = 2 * f[n - 1]
  <2> TAKE n \in 1 .. L
  <2>1. n - 1 \in 0 .. L
    BY PtrAssumption
  <2>2. f[n - 1] \in S
    BY <1>2, <2>1
  <2> QED BY <1>2, <2>2
<1>4. f = [i \in 0 .. PTR + 1 |-> IF i = 0 THEN 1 ELSE 2 * f[i - 1]]
  <2> DEFINE g == [i \in 0 .. PTR + 1 |-> IF i = 0 THEN 1 ELSE 2 * f[i - 1]]
  <2>1. \A i \in 0 .. PTR + 1 : f[i] = g[i]
    <3> TAKE i \in 0 .. PTR + 1
    <3>1. i = 0 \/ i \in 1 .. L
      BY PtrAssumption
    <3> QED BY <1>2, <1>3, <3>1
  <2>2. DOMAIN f = 0 .. PTR + 1 /\ f = [i \in 0 .. PTR + 1 |-> f[i]]
    BY <1>2
  <2> QED BY <2>1, <2>2
<1>5. \E h : h = [i \in 0 .. PTR + 1 |-> IF i = 0 THEN 1 ELSE 2 * h[i - 1]]
  BY <1>4
<1>6. Pow = [i \in 0 .. PTR + 1 |-> IF i = 0 THEN 1 ELSE 2 * Pow[i - 1]]
  BY <1>5, Zenon DEF Pow, Gray!Power
<1>7. Pow[0] = 1 /\ \A n \in 1 .. L : Pow[n] = 2 * Pow[n - 1]
  BY <1>6, PtrAssumption
<1>8. \A i \in 0 .. PTR : Pow[i + 1] = 2 * Pow[i]
  <2> TAKE i \in 0 .. PTR
  <2>1. i + 1 \in 1 .. L /\ (i + 1) - 1 = i
    BY PtrAssumption
  <2> HIDE DEF Pow
  <2> QED BY <1>7, <2>1
<1>9. \A i \in 0 .. L : Pow[i] \in S
  <2> DEFINE D == {i \in 0 .. L : Pow[i] \in S}
  <2>1. 0 \in D
    BY <1>7, <1>1
  <2>2. ASSUME NEW i \in 0 .. L - 1, i \in D PROVE i + 1 \in D
    <3>1. i \in 0 .. PTR /\ i + 1 \in 0 .. L
      BY PtrAssumption
    <3> QED BY <1>8, <2>2, <3>1
  <2> HIDE DEF D, L
  <2>3. \A i \in 0 .. L : i \in D
    BY <1>1, <2>1, <2>2, Upwards
  <2> QED BY <2>3 DEF D
<1> QED BY <1>6, <1>7, <1>8, <1>9

(* The quotient at one bit is half the quotient at the bit below, and the  *)
(* bit is its parity.                                                      *)
LEMMA Halve ==
  ASSUME NEW n \in Nat, NEW i \in 0 .. PTR
  PROVE  /\ n \div Pow[i] \in Nat
         /\ n \div Pow[i + 1] = (n \div Pow[i]) \div 2
         /\ Gray!Bit(n, i) = (n \div Pow[i]) % 2
<1>1. Pow[i] \in Nat \ {0} /\ Pow[i + 1] = 2 * Pow[i] /\ Pow[i + 1] \in Nat \ {0}
  <2>1. i \in 0 .. PTR + 1 /\ i + 1 \in 0 .. PTR + 1
    BY PtrAssumption
  <2> QED BY <2>1, PowerIs
<1>2. n \div Pow[i] \in Nat
  BY <1>1
<1>3. n \div (2 * Pow[i]) = (n \div Pow[i]) \div 2
  BY <1>1
<1> QED BY <1>1, <1>2, <1>3 DEF Gray!Bit, Pow

(* A pointer has no bit above PTR.                                         *)
LEMMA Top ==
  /\ Wrap = Pow[PTR + 1] /\ Wrap \in Nat \ {0} /\ Gray!Cells = Pow[PTR] /\ Gray!Cells \in Nat \ {0}
  /\ \A n \in 0 .. Wrap - 1 : n \div Pow[PTR + 1] = 0 /\ Gray!Bit(n, PTR + 1) = 0
<1>1. PTR \in 0 .. PTR /\ PTR \in 0 .. PTR + 1
  BY PtrAssumption
<1>2. Wrap = Pow[PTR + 1] /\ Wrap \in Nat \ {0} /\ Gray!Cells = Pow[PTR] /\ Gray!Cells \in Nat \ {0}
  BY PowerIs, <1>1 DEF Wrap, Gray!Cells, Pow
<1>3. ASSUME NEW n \in 0 .. Wrap - 1 PROVE n \div Wrap = 0
  BY <1>2
<1>4. \A n \in 0 .. Wrap - 1 : n \div Pow[PTR + 1] = 0
  BY <1>3, <1>2
<1> QED BY <1>2, <1>4 DEF Gray!Bit, Pow

(* A bit of the Gray word, from the quotient at that bit.                  *)
LEMMA BitIs ==
  ASSUME NEW n \in Nat, NEW i \in 0 .. PTR
  PROVE  /\ Gray!Bit(n, i) \in {0, 1} /\ Gray!Bit(n, i + 1) \in {0, 1}
         /\ Gray!Bit(n, i + 1) = ((n \div Pow[i]) \div 2) % 2
         /\ Gray!Gray(n)[i] = (Gray!Bit(n, i) + Gray!Bit(n, i + 1)) % 2
         /\ Gray!Gray(n)[i] = (((n \div Pow[i]) + 1) \div 2) % 2
<1> DEFINE q == n \div Pow[i]
<1>1. q \in Nat /\ n \div Pow[i + 1] = q \div 2 /\ Gray!Bit(n, i) = q % 2
  BY Halve
<1>2. Gray!Bit(n, i + 1) = (q \div 2) % 2
  BY <1>1 DEF Gray!Bit, Pow
<1>3. Gray!Gray(n)[i] = (Gray!Bit(n, i) + Gray!Bit(n, i + 1)) % 2
  BY DEF Gray!Gray, Gray!Bits
<1>4. ((q % 2) + ((q \div 2) % 2)) % 2 = ((q + 1) \div 2) % 2
  <2> DEFINE r == q % 2
             s == q \div 2
  <2>1. q \in Nat
    BY <1>1
  <2> HIDE DEF q
  <2>2. r \in {0, 1} /\ s \in Nat /\ q = 2 * s + r
    BY <2>1
  <2> HIDE DEF r, s
  <2>3. (q + 1) \div 2 = s + r
    BY <2>2
  <2>4. (r + (s % 2)) % 2 = (s + r) % 2
    BY <2>2
  <2> QED BY <2>3, <2>4 DEF r, s
<1>5. (q % 2) \in {0, 1} /\ ((q \div 2) % 2) \in {0, 1}
  BY <1>1
<1> HIDE DEF q
<1>6. Gray!Gray(n)[i] = ((q + 1) \div 2) % 2
  BY <1>1, <1>2, <1>3, <1>4
<1> QED BY <1>1, <1>2, <1>3, <1>5, <1>6 DEF q

(* The parities of a Gray word are the bits of its number (gray_to_bin).   *)
LEMMA ParitiesIs ==
  ASSUME NEW n \in 0 .. Wrap - 1
  PROVE  \A i \in 0 .. PTR + 1 : Gray!Parities(Gray!Gray(n))[i] = Gray!Bit(n, i)
<1> DEFINE g == Gray!Gray(n)
           b == Gray!Parities(g)
           c == [i \in 0 .. PTR + 1 |-> Gray!Bit(n, i)]
           R(h) == h = [i \in 0 .. PTR + 1 |-> IF i > PTR THEN 0 ELSE (h[i + 1] + g[i]) % 2]
<1>0. n \in Nat
  BY Top
<1>1. Gray!Bit(n, PTR + 1) = 0
  BY Top
<1>2. \A i \in 0 .. PTR : /\ Gray!Bit(n, i) = (Gray!Bit(n, i + 1) + g[i]) % 2
                          /\ i + 1 \in 0 .. PTR + 1 /\ i \in 0 .. PTR + 1
  <2> TAKE i \in 0 .. PTR
  <2> DEFINE x == Gray!Bit(n, i)
             y == Gray!Bit(n, i + 1)
  <2>1. x \in {0, 1} /\ y \in {0, 1} /\ g[i] = (x + y) % 2
    BY BitIs, <1>0
  <2>2. i + 1 \in 0 .. PTR + 1 /\ i \in 0 .. PTR + 1
    BY PtrAssumption
  <2> HIDE DEF x, y, g
  <2>3. x = (y + g[i]) % 2
    BY <2>1
  <2> QED BY <2>2, <2>3 DEF x, y
<1>3. \A i \in 0 .. PTR + 1 : (i > PTR <=> i = PTR + 1) /\ (i # PTR + 1 <=> i \in 0 .. PTR)
  BY PtrAssumption
<1> HIDE DEF g
<1>4. R(c)
  <2> DEFINE d == [i \in 0 .. PTR + 1 |-> IF i > PTR THEN 0 ELSE (c[i + 1] + g[i]) % 2]
  <2>1. ASSUME NEW i \in 0 .. PTR + 1 PROVE c[i] = d[i]
    <3>1. CASE i = PTR + 1
      BY <3>1, <1>1, <1>3
    <3>2. CASE i \in 0 .. PTR
      BY <3>2, <1>2, <1>3
    <3> QED BY <3>1, <3>2, <1>3
  <2> QED BY <2>1
<1>5. R(b)
  <2>1. \E h : R(h)
    <3> HIDE DEF c
    <3> QED BY <1>4
  <2> QED BY <2>1, Zenon DEF Gray!Parities
<1> HIDE DEF b
<1>6. /\ b[PTR + 1] = 0
      /\ \A i \in 0 .. PTR : b[i] = (b[i + 1] + g[i]) % 2
  BY <1>5, <1>3, PtrAssumption
<1> DEFINE D == {i \in 0 .. PTR + 1 : b[i] = Gray!Bit(n, i)}
<1>7. PTR + 1 \in D /\ PTR + 1 \in Nat
  BY <1>6, <1>1, PtrAssumption
<1>8. ASSUME NEW i \in 0 .. (PTR + 1) - 1, i + 1 \in D PROVE i \in D
  <2>1. i \in 0 .. PTR /\ i \in 0 .. PTR + 1
    BY PtrAssumption
  <2>2. b[i + 1] = Gray!Bit(n, i + 1)
    BY <1>8
  <2> QED BY <2>1, <2>2, <1>2, <1>6
<1> HIDE DEF D
<1>9. \A i \in 0 .. PTR + 1 : i \in D
  BY <1>7, <1>8, Downwards
<1> QED BY <1>9 DEF D, b, g

(* gray_to_bin gives back the number whose Gray word it gets.              *)
LEMMA DecodesBack ==
  ASSUME NEW n \in 0 .. Wrap - 1
  PROVE  Gray!gray_to_bin(Gray!Gray(n)) = n
<1> DEFINE b == Gray!Parities(Gray!Gray(n))
           q(i) == n \div Pow[i]
           M == [i \in 0 .. PTR + 1 |-> q(i) * Pow[i]]
           R(h) == h = [i \in 0 .. PTR + 1 |-> IF i > PTR THEN 0 ELSE b[i] * Pow[i] + h[i + 1]]
           m == CHOOSE h : R(h)
<1>0. n \in Nat
  BY Top
<1>1. \A i \in 0 .. PTR + 1 : (i > PTR <=> i = PTR + 1) /\ (i # PTR + 1 <=> i \in 0 .. PTR)
  BY PtrAssumption
<1>2. \A i \in 0 .. PTR : /\ b[i] * Pow[i] + q(i + 1) * Pow[i + 1] = q(i) * Pow[i]
                          /\ i + 1 \in 0 .. PTR + 1 /\ i \in 0 .. PTR + 1
  <2> TAKE i \in 0 .. PTR
  <2>1. i + 1 \in 0 .. PTR + 1 /\ i \in 0 .. PTR + 1
    BY PtrAssumption
  <2>2. q(i) \in Nat /\ q(i + 1) = q(i) \div 2 /\ b[i] = q(i) % 2
    BY Halve, <1>0, <2>1, ParitiesIs
  <2>3. Pow[i] \in Nat /\ Pow[i + 1] = 2 * Pow[i]
    BY PowerIs, <2>1
  <2> DEFINE x == q(i)
             y == q(i + 1)
             p == Pow[i]
             p2 == Pow[i + 1]
             z == b[i]
  <2>4. x = z + y * 2 /\ z \in Nat /\ y \in Nat
    <3> HIDE DEF q, b
    <3> QED BY <2>2
  <2>5. p2 = 2 * p /\ p \in Nat /\ x \in Nat
    BY <2>2, <2>3
  <2> HIDE DEF x, y, z, p, p2
  <2>6. z * p + y * p2 = x * p
    BY <2>4, <2>5
  <2> QED BY <2>1, <2>6 DEF x, y, z, p, p2
<1>3. q(PTR + 1) = 0 /\ q(PTR + 1) * Pow[PTR + 1] = 0
  <2>1. q(PTR + 1) = 0
    BY Top
  <2>2. Pow[PTR + 1] \in Nat
    BY PowerIs, PtrAssumption
  <2> HIDE DEF q
  <2> QED BY <2>1, <2>2
<1>4. q(0) = n /\ q(0) * Pow[0] = n
  BY PowerIs, <1>0
<1> HIDE DEF b, q
<1>5. R(M)
  <2> DEFINE d == [i \in 0 .. PTR + 1 |-> IF i > PTR THEN 0 ELSE b[i] * Pow[i] + M[i + 1]]
  <2>1. ASSUME NEW i \in 0 .. PTR + 1 PROVE M[i] = d[i]
    <3>1. CASE i = PTR + 1
      BY <3>1, <1>1, <1>3
    <3>2. CASE i \in 0 .. PTR
      <4>1. i \in 0 .. PTR + 1 /\ i + 1 \in 0 .. PTR + 1 /\ ~(i > PTR)
        BY <3>2, <1>1, <1>2
      <4>2. M[i] = q(i) * Pow[i] /\ M[i + 1] = q(i + 1) * Pow[i + 1]
        BY <4>1
      <4>3. d[i] = b[i] * Pow[i] + M[i + 1]
        BY <4>1
      <4> QED BY <3>2, <4>2, <4>3, <1>2
    <3> QED BY <3>1, <3>2, <1>1
  <2> QED BY <2>1
<1>6. R(m)
  <2>1. \E h : R(h)
    <3> HIDE DEF M
    <3> QED BY <1>5
  <2> QED BY <2>1, Zenon
<1>7. Gray!gray_to_bin(Gray!Gray(n)) = m[0]
  BY Zenon DEF Gray!gray_to_bin, Gray!Number, b, Pow
<1> HIDE DEF m
<1>8. /\ m[PTR + 1] = 0
      /\ \A i \in 0 .. PTR : m[i] = b[i] * Pow[i] + m[i + 1]
  BY <1>6, <1>1, PtrAssumption
<1> DEFINE D == {i \in 0 .. PTR + 1 : m[i] = q(i) * Pow[i]}
<1>9. PTR + 1 \in D /\ PTR + 1 \in Nat
  BY <1>8, <1>3, PtrAssumption
<1>10. ASSUME NEW i \in 0 .. (PTR + 1) - 1, i + 1 \in D PROVE i \in D
  <2>1. i \in 0 .. PTR /\ i \in 0 .. PTR + 1
    BY PtrAssumption
  <2>2. m[i + 1] = q(i + 1) * Pow[i + 1]
    BY <1>10
  <2>3. m[i] = q(i) * Pow[i]
    BY <2>1, <2>2, <1>2, <1>8
  <2> QED BY <2>1, <2>3
<1> HIDE DEF D
<1>11. \A i \in 0 .. PTR + 1 : i \in D
  BY <1>9, <1>10, Downwards
<1>12. m[0] = q(0) * Pow[0]
  BY <1>11, PtrAssumption DEF D
<1> QED BY <1>7, <1>12, <1>4

(* So two pointers with one Gray word are one pointer.                     *)
LEMMA WordsApart ==
  ASSUME NEW m \in 0 .. Wrap - 1, NEW n \in 0 .. Wrap - 1, Gray!Gray(m) = Gray!Gray(n)
  PROVE  m = n
BY DecodesBack

(* Two numbers with one quotient at i have one at every bit above it.      *)
LEMMA Settled ==
  ASSUME NEW m \in Nat, NEW n \in Nat, NEW i \in 0 .. PTR + 1, m \div Pow[i] = n \div Pow[i]
  PROVE  \A j \in i .. PTR + 1 : m \div Pow[j] = n \div Pow[j]
<1> DEFINE D == {j \in 0 .. PTR + 1 : m \div Pow[j] = n \div Pow[j]}
<1>1. i \in D /\ i \in Nat /\ PTR + 1 \in Nat
  BY PtrAssumption
<1>2. ASSUME NEW j \in i .. (PTR + 1) - 1, j \in D PROVE j + 1 \in D
  <2>1. j \in 0 .. PTR /\ j + 1 \in 0 .. PTR + 1
    BY PtrAssumption
  <2>2. m \div Pow[j + 1] = (m \div Pow[j]) \div 2 /\ n \div Pow[j + 1] = (n \div Pow[j]) \div 2
    BY <2>1, Halve
  <2> QED BY <1>2, <2>1, <2>2
<1> HIDE DEF D
<1>3. \A j \in i .. PTR + 1 : j \in D
  BY <1>1, <1>2, Upwards
<1> QED BY <1>3 DEF D

(* How often each weight goes into the number of pointers.                 *)
Times(i) == CHOOSE r \in Nat : Wrap = r * Pow[i]
LEMMA TimesIs ==
  ASSUME NEW i \in 0 .. PTR
  PROVE  /\ Times(i) \in Nat /\ Wrap = Times(i) * Pow[i]
         /\ i = PTR => Times(i) = 2
         /\ i = PTR - 1 => Times(i) = 4
         /\ i < PTR - 1 => Times(i) % 8 = 0
<1> DEFINE Fits(r, k) == /\ Wrap = r * Pow[k]
                         /\ k = PTR => r = 2
                         /\ k = PTR - 1 => r = 4
                         /\ k < PTR - 1 => r % 8 = 0
           D == {k \in 0 .. PTR : \E r \in Nat : Fits(r, k)}
<1>1. PTR \in D /\ PTR \in Nat
  <2>1. Fits(2, PTR)
    BY Top, PtrAssumption DEF Wrap
  <2> QED BY <2>1, PtrAssumption
<1>2. ASSUME NEW k \in 0 .. PTR - 1, k + 1 \in D PROVE k \in D
  <2>1. PICK r \in Nat : Fits(r, k + 1)
    BY <1>2
  <2>2. k \in 0 .. PTR /\ k + 1 \in 0 .. PTR
    BY PtrAssumption
  <2>3. Pow[k + 1] = 2 * Pow[k] /\ Pow[k] \in Nat
    <3> HIDE DEF Fits, D
    <3>1. Pow[k + 1] = 2 * Pow[k]
      BY PowerIs, <2>2
    <3>2. Pow[k] \in Nat \ {0}
      <4>1. k \in 0 .. PTR + 1
        BY PtrAssumption
      <4> QED BY PowerIs, <4>1
    <3> QED BY <3>1, <3>2
  <2>4. Wrap = (2 * r) * Pow[k]
    <3> DEFINE p == Pow[k]
               p2 == Pow[k + 1]
    <3>1. p2 = 2 * p /\ p \in Nat /\ Wrap = r * p2
      BY <2>1, <2>3
    <3> HIDE DEF p, p2
    <3>2. r * p2 = (2 * r) * p
      BY <3>1
    <3> QED BY <3>1, <3>2 DEF p
  <2>5. /\ k # PTR
        /\ k = PTR - 1 => 2 * r = 4
        /\ k < PTR - 1 => (2 * r) % 8 = 0
    <3>1. CASE k + 1 = PTR
      BY <3>1, <2>1, PtrAssumption
    <3>2. CASE k + 1 = PTR - 1
      BY <3>2, <2>1, PtrAssumption
    <3>3. CASE k + 1 < PTR - 1
      BY <3>3, <2>1, PtrAssumption
    <3> QED BY <3>1, <3>2, <3>3, PtrAssumption
  <2>6. Fits(2 * r, k) /\ 2 * r \in Nat
    BY <2>4, <2>5
  <2> HIDE DEF Fits
  <2> QED BY <2>2, <2>6
<1> HIDE DEF D
<1>3. i \in D
  BY <1>1, <1>2, Downwards
<1>4. PICK r \in Nat : Fits(r, i)
  BY <1>3 DEF D
<1>5. Times(i) \in Nat /\ Wrap = Times(i) * Pow[i]
  BY <1>4 DEF Times
<1>6. Times(i) = r
  <2>1. Pow[i] \in Nat \ {0}
    <3>1. i \in 0 .. PTR + 1
      BY PtrAssumption
    <3> QED BY <3>1, PowerIs
  <2> DEFINE p == Pow[i]
             t == Times(i)
  <2>2. r * p = t * p /\ p \in Nat \ {0} /\ t \in Nat
    BY <1>4, <1>5, <2>1
  <2> HIDE DEF p, t
  <2>3. t = r
    BY <2>2
  <2> QED BY <2>3 DEF t
<1> QED BY <1>4, <1>6

(* The last word before the wrap has only its top bit, and the first none.  *)
LEMMA WrapWords ==
  /\ \A i \in Gray!Bits : Gray!Gray(0)[i] = 0
  /\ \A i \in Gray!Bits : i # PTR => Gray!Gray(Wrap - 1)[i] = 0
  /\ Gray!Gray(0) = Gray!Zero
<1>1. ASSUME NEW i \in 0 .. PTR PROVE Gray!Gray(0)[i] = 0
  <2>1. Pow[i] \in Nat \ {0}
    <3>1. i \in 0 .. PTR + 1
      BY PtrAssumption
    <3> QED BY <3>1, PowerIs
  <2>2. 0 \div Pow[i] = 0
    BY <2>1
  <2>3. Gray!Gray(0)[i] = ((0 + 1) \div 2) % 2
    BY <2>2, BitIs
  <2> QED BY <2>3
<1>2. ASSUME NEW i \in 0 .. PTR, i # PTR PROVE Gray!Gray(Wrap - 1)[i] = 0
  <2> DEFINE p == Pow[i]
             r == Times(i)
  <2>1. p \in Nat \ {0}
    <3>1. i \in 0 .. PTR + 1
      BY PtrAssumption
    <3> QED BY <3>1, PowerIs
  <2>2. r \in Nat /\ Wrap = r * p /\ r % 4 = 0 /\ Wrap \in Nat \ {0}
    <3>1. i < PTR - 1 \/ i = PTR - 1
      BY <1>2, PtrAssumption
    <3> QED BY <3>1, TimesIs, Top
  <2>3. Wrap - 1 \in Nat
    BY <2>2
  <2>4. Gray!Gray(Wrap - 1)[i] = ((((Wrap - 1) \div p) + 1) \div 2) % 2
    BY <2>3, BitIs
  <2> HIDE DEF Wrap, p, r
  <2>5. r # 0
    BY <2>1, <2>2
  <2>6. (Wrap - 1) \div p = r - 1
    <3>1. Wrap - 1 = (r - 1) * p + (p - 1)
      BY <2>1, <2>2
    <3>2. p - 1 \in 0 .. p - 1 /\ r - 1 \in Nat
      BY <2>1, <2>2, <2>5
    <3> DEFINE s == r - 1
               t == p - 1
    <3>3. s \in Nat /\ t \in 0 .. p - 1
      BY <3>2
    <3> HIDE DEF s, t
    <3>4. (s * p + t) \div p = s
      BY <3>3, <2>1
    <3> QED BY <3>1, <3>4 DEF s, t
  <2>7. ((Wrap - 1) \div p) + 1 = r
    BY <2>6, <2>2
  <2>8. (r \div 2) % 2 = 0
    BY <2>2
  <2> QED BY <2>4, <2>7, <2>8
<1>3. Gray!Gray(0) = Gray!Zero
  BY <1>1 DEF Gray!Gray, Gray!Zero, Gray!Bits
<1> QED BY <1>1, <1>2, <1>3 DEF Gray!Bits

(* Counting one up raises a quotient by at most one.                       *)
LEMMA StepQuotient ==
  ASSUME NEW n \in Nat, NEW p \in Nat \ {0}
  PROVE  (n + 1) \div p \in {n \div p, (n \div p) + 1}
<1> DEFINE q == n \div p
           t == n % p
<1>1. q \in Nat /\ t \in 0 .. p - 1 /\ n = q * p + t
  BY SMT
<1> HIDE DEF q, t
<1>2. CASE t = p - 1
  <2>1. n + 1 = (q + 1) * p + 0
    BY <1>1, <1>2
  <2>2. q + 1 \in Nat /\ 0 \in 0 .. p - 1
    BY <1>1
  <2>3. \A u \in Nat : \A v \in 0 .. p - 1 : (u * p + v) \div p = u
    OBVIOUS
  <2>4. ((q + 1) * p + 0) \div p = q + 1
    BY <2>2, <2>3
  <2> QED BY <2>1, <2>4 DEF q
<1>3. CASE t # p - 1
  <2>1. n + 1 = q * p + (t + 1) /\ t + 1 \in 0 .. p - 1
    BY <1>1, <1>3
  <2>2. \A u \in Nat : \A v \in 0 .. p - 1 : (u * p + v) \div p = u
    OBVIOUS
  <2>3. (q * p + (t + 1)) \div p = q
    BY <1>1, <2>1, <2>2
  <2> QED BY <2>1, <2>3 DEF q
<1> QED BY <1>2, <1>3

(* Counting one up changes at most one bit of the Gray word.               *)
LEMMA OneBit ==
  ASSUME NEW n \in 0 .. Wrap - 1, NEW i \in Gray!Bits, NEW j \in Gray!Bits,
         Gray!Gray(n)[i] # Gray!Gray((n + 1) % Wrap)[i],
         Gray!Gray(n)[j] # Gray!Gray((n + 1) % Wrap)[j]
  PROVE  i = j
<1>0. Wrap \in Nat \ {0} /\ n \in Nat /\ Gray!Bits = 0 .. PTR
  BY Top DEF Gray!Bits
<1>1. CASE n = Wrap - 1
  <2>1. (n + 1) % Wrap = 0
    BY <1>0, <1>1
  <2> QED BY <1>1, <2>1, WrapWords
<1>2. CASE n # Wrap - 1
  <2>1. (n + 1) % Wrap = n + 1
    BY <1>0, <1>2
  <2>2. ASSUME NEW k \in 0 .. PTR, NEW l \in 0 .. PTR, k < l,
               Gray!Gray(n)[k] # Gray!Gray(n + 1)[k]
        PROVE  Gray!Gray(n)[l] = Gray!Gray(n + 1)[l]
    <3> DEFINE p == Pow[k]
               q == n \div p
               r == (n + 1) \div p
    <3>1. p \in Nat \ {0} /\ n + 1 \in Nat
      <4>1. k \in 0 .. PTR + 1
        BY PtrAssumption
      <4> QED BY <4>1, PowerIs, <1>0
    <3>2. q \in Nat /\ r \in Nat /\ (r = q \/ r = q + 1)
      <4>1. q \in Nat /\ r \in Nat
        <5>1. \A x \in Nat, y \in Nat \ {0} : x \div y \in Nat
          OBVIOUS
        <5> HIDE DEF p
        <5> QED BY <5>1, <3>1, <1>0
      <4>2. r \in {q, q + 1}
        <5> HIDE DEF p
        <5> QED BY <3>1, <1>0, StepQuotient
      <4> QED BY <4>1, <4>2
    <3>3. /\ Gray!Gray(n)[k] = ((q + 1) \div 2) % 2
          /\ Gray!Gray(n + 1)[k] = ((r + 1) \div 2) % 2
      BY <1>0, BitIs
    <3>4. n \div Pow[k + 1] = q \div 2 /\ (n + 1) \div Pow[k + 1] = r \div 2
      BY <1>0, <3>1, Halve
    <3>5. q \div 2 = r \div 2
      <4> HIDE DEF q, r
      <4>1. r = q + 1 /\ (q + 1) \div 2 # (q + 2) \div 2
        BY <3>2, <3>3, <2>2
      <4> QED BY <4>1, <3>2
    <3>6. k + 1 \in 0 .. PTR + 1 /\ l \in k + 1 .. PTR + 1 /\ n + 1 \in Nat
      BY <2>2, <1>0, PtrAssumption
    <3>7. n \div Pow[k + 1] = (n + 1) \div Pow[k + 1]
      BY <3>4, <3>5
    <3>8. n \div Pow[l] = (n + 1) \div Pow[l]
      BY <3>6, <3>7, <1>0, Settled
    <3> QED BY <3>8, <3>6, <1>0, BitIs
  <2>3. ~(i < j) /\ ~(j < i)
    BY <2>1, <2>2, <1>0
  <2> QED BY <2>3, <1>0
<1> QED BY <1>1, <1>2

(* A Gray word is a word of bits.                                          *)
LEMMA GrayWord ==
  ASSUME NEW n \in Nat
  PROVE  Gray!Gray(n) \in Gray!Words
<1>1. \A i \in 0 .. PTR : Gray!Bit(n, i) \in {0, 1} /\ Gray!Bit(n, i + 1) \in {0, 1}
  BY BitIs
<1>2. \A i \in 0 .. PTR : (Gray!Bit(n, i) + Gray!Bit(n, i + 1)) % 2 \in {0, 1}
  BY <1>1
<1> QED BY <1>2 DEF Gray!Gray, Gray!Words, Gray!Bits

(* What a flip-flop bank captures of a Gray word that moves by one is the  *)
(* word before or the word after, never a third one.                       *)
LEMMA SampledIs ==
  ASSUME NEW a \in 0 .. Wrap - 1, NEW b \in {a, (a + 1) % Wrap},
         NEW g \in Gray!Sampled(Gray!Gray(a), Gray!Gray(b))
  PROVE  g \in {Gray!Gray(a), Gray!Gray(b)}
<1> DEFINE x == Gray!Gray(a)
           y == Gray!Gray(b)
<1>1. g \in Gray!Words /\ \A i \in Gray!Bits : g[i] \in {x[i], y[i]}
  BY DEF Gray!Sampled
<1>2. x \in Gray!Words /\ y \in Gray!Words
  BY GrayWord, Top
<1>3. \A i, j \in Gray!Bits : x[i] # y[i] /\ x[j] # y[j] => i = j
  BY OneBit
<1> HIDE DEF x, y
<1>4. ASSUME g # x PROVE g = y
  <2>1. PICK i \in Gray!Bits : g[i] # x[i]
    BY <1>1, <1>2, <1>4 DEF Gray!Words
  <2>2. g[i] = y[i] /\ x[i] # y[i]
    BY <1>1, <2>1
  <2>3. \A j \in Gray!Bits : g[j] = y[j]
    BY <1>1, <1>3, <2>2
  <2> QED BY <1>1, <1>2, <2>3 DEF Gray!Words
<1> QED BY <1>4 DEF x, y

(* The pointer half the ring away has the same Gray word but for its two   *)
(* top bits, inverted.                                                     *)
Opposite(n) == IF n < Gray!Cells THEN n + Gray!Cells ELSE n - Gray!Cells
Inverted(g) == [g EXCEPT ![PTR] = 1 - @, ![PTR - 1] = 1 - @]

(* How often each weight goes into half the ring.                          *)
LEMMA CellsAre ==
  ASSUME NEW i \in 0 .. PTR
  PROVE  \E r \in Nat : /\ Gray!Cells = r * Pow[i]
                        /\ i = PTR => r = 1
                        /\ i = PTR - 1 => r = 2
                        /\ i < PTR - 1 => r % 4 = 0
<1> DEFINE t == Times(i)
           p == Pow[i]
           r == t \div 2
<1>1. /\ t \in Nat /\ Wrap = t * p
      /\ i = PTR => t = 2
      /\ i = PTR - 1 => t = 4
      /\ i < PTR - 1 => t % 8 = 0
  BY TimesIs
<1>2. p \in Nat /\ Gray!Cells \in Nat /\ Wrap = 2 * Gray!Cells
  <2>1. i \in 0 .. PTR + 1
    BY PtrAssumption
  <2> QED BY <2>1, PowerIs, Top DEF Wrap
<1>3. i = PTR \/ i = PTR - 1 \/ i < PTR - 1
  BY PtrAssumption
<1> HIDE DEF t, p, Wrap
<1>4. t = 2 * r /\ r \in Nat
  BY <1>1, <1>3
<1>5. /\ i = PTR => r = 1
      /\ i = PTR - 1 => r = 2
      /\ i < PTR - 1 => r % 4 = 0
  BY <1>1
<1> HIDE DEF r
<1>6. Gray!Cells = r * p
  <2>1. 2 * Gray!Cells = (2 * r) * p
    BY <1>1, <1>2, <1>4
  <2>2. (2 * r) * p = 2 * (r * p) /\ r * p \in Nat
    BY <1>2, <1>4
  <2> DEFINE x == r * p
  <2> HIDE DEF x
  <2> QED BY <2>1, <2>2, <1>2
<1> QED BY <1>4, <1>5, <1>6 DEF p

(* Half the ring further on, the two top bits are inverted.                *)
LEMMA TopBits ==
  ASSUME NEW n \in 0 .. Gray!Cells - 1
  PROVE  Gray!Gray(n + Gray!Cells) = Inverted(Gray!Gray(n))
<1> DEFINE C == Gray!Cells
           x == Gray!Gray(n)
           y == Gray!Gray(n + C)
<1>1. C \in Nat /\ n \in Nat /\ n + C \in Nat /\ C = Pow[PTR] /\ n \in 0 .. C - 1
  BY Top
<1>2. ASSUME NEW i \in 0 .. PTR
      PROVE  y[i] = IF i \in {PTR, PTR - 1} THEN 1 - x[i] ELSE x[i]
  <2> DEFINE p == Pow[i]
             q == n \div p
  <2>1. PICK r \in Nat : /\ C = r * p
                         /\ i = PTR => r = 1
                         /\ i = PTR - 1 => r = 2
                         /\ i < PTR - 1 => r % 4 = 0
    BY CellsAre
  <2>2. p \in Nat \ {0}
    <3>1. i \in 0 .. PTR + 1
      BY PtrAssumption
    <3> QED BY <3>1, PowerIs
  <2>3. q \in Nat /\ (n + C) \div p = q + r
    <3> HIDE DEF C, p
    <3>1. n \div p \in Nat
      BY <1>1, <2>2
    <3>2. \A u, v \in Nat : (u * p + v) \div p = u + (v \div p)
      BY <2>2
    <3>3. n + C = r * p + n
      BY <2>1, <2>2, <1>1
    <3>4. (n + C) \div p = r + (n \div p)
      BY <3>2, <3>3, <1>1
    <3> DEFINE s == n \div p
    <3> HIDE DEF s
    <3> QED BY <3>1, <3>4 DEF s
  <2>4. x[i] = ((q + 1) \div 2) % 2 /\ y[i] = (((q + r) + 1) \div 2) % 2
    <3>1. x[i] = (((n \div Pow[i]) + 1) \div 2) % 2
      BY <1>1, BitIs
    <3>2. y[i] = ((((n + C) \div Pow[i]) + 1) \div 2) % 2
      <4> HIDE DEF C
      <4> QED BY <1>1, BitIs DEF y
    <3> QED BY <3>1, <3>2, <2>3
  <2>5. i = PTR => q = 0
    BY <1>1
  <2>6. i = PTR - 1 => q \in {0, 1}
    <3> SUFFICES ASSUME i = PTR - 1 PROVE q \in {0, 1}
      OBVIOUS
    <3>1. C = 2 * p
      BY <2>1, <2>2
    <3> HIDE DEF C, p
    <3>2. n \in 0 .. 2 * p - 1
      BY <3>1, <1>1
    <3> QED BY <3>2, <2>2, <1>1
  <2> HIDE DEF q, x, y, p
  <2>7. CASE i = PTR
    BY <2>7, <2>1, <2>4, <2>5
  <2>8. CASE i = PTR - 1
    BY <2>8, <2>1, <2>4, <2>6, PtrAssumption
  <2>9. CASE i < PTR - 1
    <3>1. r % 4 = 0
      BY <2>1, <2>9
    <3>2. (((q + r) + 1) \div 2) % 2 = ((q + 1) \div 2) % 2
      BY <3>1, <2>1, <2>3
    <3>3. i \notin {PTR, PTR - 1}
      BY <2>9, PtrAssumption
    <3> QED BY <3>2, <3>3, <2>4
  <2> QED BY <2>7, <2>8, <2>9, PtrAssumption
<1>3. x \in Gray!Words /\ y \in Gray!Words /\ Gray!Bits = 0 .. PTR
  BY <1>1, GrayWord DEF Gray!Bits
<1> HIDE DEF x, y, C
<1>4. \A i \in 0 .. PTR : Inverted(x)[i] = IF i \in {PTR, PTR - 1} THEN 1 - x[i] ELSE x[i]
  BY <1>3, PtrAssumption DEF Inverted, Gray!Words
<1>5. Inverted(x) = [i \in 0 .. PTR |-> Inverted(x)[i]]
  BY <1>3 DEF Inverted, Gray!Words
<1> HIDE DEF Inverted
<1>6. y = [i \in 0 .. PTR |-> y[i]]
  BY <1>3 DEF Gray!Words
<1>7. \A i \in 0 .. PTR : y[i] = Inverted(x)[i]
  BY <1>2, <1>4
<1>8. y = Inverted(x)
  BY <1>5, <1>6, <1>7
<1> QED BY <1>8 DEF x, y, C

(* And so from the upper half back: full's test on Gray words is a test    *)
(* for the opposite pointer.                                               *)
LEMMA OppositeIs ==
  ASSUME NEW n \in 0 .. Wrap - 1
  PROVE  /\ Opposite(n) \in 0 .. Wrap - 1
         /\ Gray!Gray(Opposite(n)) = Inverted(Gray!Gray(n))
<1> DEFINE C == Gray!Cells
<1>1. C \in Nat \ {0} /\ Wrap = 2 * C
  BY Top DEF Wrap
<1>2. Opposite(n) \in 0 .. Wrap - 1
  BY <1>1 DEF Opposite
<1>3. CASE n < C
  BY <1>3, <1>1, TopBits DEF Opposite
<1>4. CASE ~(n < C)
  <2> DEFINE m == n - C
             x == Gray!Gray(m)
  <2>1. m \in 0 .. C - 1 /\ m \in Nat /\ n = m + C /\ Opposite(n) = m
    BY <1>4, <1>1 DEF Opposite
  <2>2. Gray!Gray(n) = Inverted(x)
    BY <2>1, TopBits
  <2>3. x \in [0 .. PTR -> {0, 1}]
    BY <2>1, GrayWord DEF Gray!Words, Gray!Bits
  <2> HIDE DEF x
  <2>4. Inverted(Inverted(x)) = x
    <3> DEFINE y == Inverted(Inverted(x))
    <3>1. y = [i \in 0 .. PTR |-> y[i]]
      BY <2>3 DEF Inverted
    <3>2. ASSUME NEW i \in 0 .. PTR PROVE y[i] = x[i]
      <4>1. x[i] \in {0, 1} /\ PTR # PTR - 1
        BY <2>3, PtrAssumption
      <4> QED BY <4>1, <2>3 DEF Inverted
    <3> HIDE DEF y
    <3>3. y = x
      BY <2>3, <3>1, <3>2
    <3> QED BY <3>3 DEF y
  <2> QED BY <1>2, <2>1, <2>2, <2>4 DEF x
<1> QED BY <1>2, <1>3, <1>4


-----------------------------------------------------------------------------
(* The registers that hold Gray words hold the words of pointers: those of *)
(* their own side's counter, or of some pointer of the other side's.       *)
Codes == {Gray!Gray(n) : n \in 0 .. Wrap - 1}
Decoded(g) == Gray!gray_to_bin(g)

GrayInv ==
  /\ g_rst_n \in BOOLEAN /\ g_wr_release \in 0 .. 2 /\ g_rd_release \in 0 .. 2
  /\ g_wr_bin \in 0 .. Wrap - 1 /\ g_wr_gray = Gray!Gray(g_wr_bin)
  /\ g_rd_bin \in 0 .. Wrap - 1 /\ g_rd_gray = Gray!Gray(g_rd_bin)
  /\ g_rd_gray_w1 \in Codes /\ g_rd_gray_w2 \in Codes
  /\ g_wr_gray_r1 \in Codes /\ g_wr_gray_r2 \in Codes

(* The words of pointers and the pointers go over into each other.         *)
LEMMA DecodeIs ==
  /\ \A n \in 0 .. Wrap - 1 : Gray!Gray(n) \in Codes /\ Decoded(Gray!Gray(n)) = n
  /\ \A g \in Codes : Decoded(g) \in 0 .. Wrap - 1 /\ Gray!Gray(Decoded(g)) = g
  /\ Gray!Zero \in Codes /\ Decoded(Gray!Zero) = 0 /\ 0 \in 0 .. Wrap - 1
<1>1. \A n \in 0 .. Wrap - 1 : Gray!Gray(n) \in Codes /\ Decoded(Gray!Gray(n)) = n
  BY DecodesBack DEF Codes, Decoded
<1>2. \A g \in Codes : Decoded(g) \in 0 .. Wrap - 1 /\ Gray!Gray(Decoded(g)) = g
  BY <1>1 DEF Codes
<1>3. 0 \in 0 .. Wrap - 1 /\ Gray!Gray(0) = Gray!Zero
  BY Top, WrapWords
<1> QED BY <1>1, <1>2, <1>3

(* full, empty and the levels say the same of bits and of pointers.        *)
LEMMA FlagsAre ==
  ASSUME GrayInv
  PROVE  Gray!FlagsAgree
<1> DEFINE w2 == Decoded(g_rd_gray_w2)
           r2 == Decoded(g_wr_gray_r2)
           C == Gray!Cells
<1>1. C \in Nat \ {0} /\ Wrap = 2 * C
  BY Top DEF Wrap
<1>2. /\ w2 \in 0 .. 2 * C - 1 /\ Gray!Gray(w2) = g_rd_gray_w2
      /\ r2 \in 0 .. 2 * C - 1 /\ Gray!Gray(r2) = g_wr_gray_r2
      /\ g_wr_bin \in 0 .. 2 * C - 1 /\ g_rd_bin \in 0 .. 2 * C - 1
  BY <1>1, DecodeIs DEF GrayInv
<1>3. Gray!full <=> g_wr_bin = Opposite(w2)
  <2>1. Gray!full <=> Gray!Gray(g_wr_bin) = Gray!Gray(Opposite(w2))
    BY <1>1, <1>2, OppositeIs DEF Gray!full, Inverted, GrayInv
  <2>2. Opposite(w2) \in 0 .. Wrap - 1 /\ g_wr_bin \in 0 .. Wrap - 1
    BY <1>1, <1>2, OppositeIs
  <2> QED BY <2>1, <2>2, WordsApart
<1>4. Gray!Pointer!full <=> g_wr_bin = Opposite(w2)
  <2>1. Gray!Pointer!full <=>
          (IF g_wr_bin >= w2 THEN g_wr_bin - w2 ELSE g_wr_bin - w2 + 2 * C) = C
    BY DEF Gray!Pointer!full, Gray!Pointer!Gap, Decoded
  <2> HIDE DEF w2, C
  <2>2. Opposite(w2) = IF w2 < C THEN w2 + C ELSE w2 - C
    BY DEF Opposite, C
  <2> QED BY <2>1, <2>2, <1>1, <1>2
<1>5. Gray!empty <=> g_rd_bin = r2
  <2>1. Gray!empty <=> Gray!Gray(g_rd_bin) = Gray!Gray(r2)
    BY <1>2 DEF Gray!empty, GrayInv
  <2> QED BY <2>1, <1>1, <1>2, WordsApart
<1>6. Gray!Pointer!empty <=> g_rd_bin = r2
  BY DEF Gray!Pointer!empty, Decoded
<1>7. ASSUME NEW p \in 0 .. 2 * C - 1, NEW q \in 0 .. 2 * C - 1
      PROVE  (p - q) % (2 * C) = Gray!Pointer!Gap(p, q)
  <2> HIDE DEF C
  <2>1. (p - q) % (2 * C) = IF p >= q THEN p - q ELSE p - q + 2 * C
    BY <1>1
  <2> QED BY <2>1 DEF Gray!Pointer!Gap, C
<1>8. Gray!wr_level = Gray!Pointer!wr_level
  BY <1>2, <1>7 DEF Gray!wr_level, Gray!Pointer!wr_level, Decoded
<1>9. Gray!rd_level = Gray!Pointer!rd_level
  BY <1>2, <1>7 DEF Gray!rd_level, Gray!Pointer!rd_level, Decoded
<1> QED BY <1>3, <1>4, <1>5, <1>6, <1>8, <1>9 DEF Gray!FlagsAgree

(* The next pointers are those of the pointer protocol, and at most one    *)
(* step ahead.                                                             *)
LEMMA NextsAre ==
  ASSUME GrayInv, NEW v \in BOOLEAN
  PROVE  /\ Gray!in_ready <=> Gray!Pointer!in_ready
         /\ Gray!WrNextBin(v) = Gray!Pointer!WrNext(v)
         /\ Gray!WrNextBin(v) \in 0 .. Wrap - 1
         /\ Gray!WrNextBin(v) \in {g_wr_bin, (g_wr_bin + 1) % Wrap}
         /\ Gray!RdNextBin(v) = Gray!Pointer!RdNext(v)
         /\ Gray!RdNextBin(v) \in 0 .. Wrap - 1
         /\ Gray!RdNextBin(v) \in {g_rd_bin, (g_rd_bin + 1) % Wrap}
<1>1. Wrap \in Nat \ {0} /\ Wrap = 2 * Gray!Cells
  BY Top DEF Wrap
<1>2. g_wr_bin \in 0 .. Wrap - 1 /\ g_rd_bin \in 0 .. Wrap - 1
  BY DEF GrayInv
<1>3. /\ Gray!in_ready <=> Gray!Pointer!in_ready
      /\ Gray!out_valid <=> Gray!Pointer!out_valid
  BY FlagsAre DEF Gray!FlagsAgree, Gray!in_ready, Gray!Pointer!in_ready,
                  Gray!out_valid, Gray!Pointer!out_valid
<1>4. ASSUME NEW p \in 0 .. Wrap - 1
      PROVE  (p + 1) % Wrap = Gray!Pointer!Inc(p) /\ (p + 1) % Wrap \in 0 .. Wrap - 1
  <2>1. (p + 1) % Wrap = (IF p = Wrap - 1 THEN 0 ELSE p + 1) /\ (p + 1) % Wrap \in 0 .. Wrap - 1
    <3> HIDE DEF Wrap
    <3> QED BY <1>1
  <2> QED BY <2>1, <1>1 DEF Gray!Pointer!Inc
<1>5. /\ Gray!WrNextBin(v) = IF v /\ Gray!in_ready THEN (g_wr_bin + 1) % Wrap ELSE g_wr_bin
      /\ Gray!RdNextBin(v) = IF v /\ Gray!out_valid THEN (g_rd_bin + 1) % Wrap ELSE g_rd_bin
  BY <1>3 DEF Gray!WrNextBin, Gray!RdNextBin, Wrap
<1>6. /\ Gray!Pointer!WrNext(v) =
           IF v /\ Gray!Pointer!in_ready THEN Gray!Pointer!Inc(g_wr_bin) ELSE g_wr_bin
      /\ Gray!Pointer!RdNext(v) =
           IF v /\ Gray!Pointer!out_valid THEN Gray!Pointer!Inc(g_rd_bin) ELSE g_rd_bin
  BY DEF Gray!Pointer!WrNext, Gray!Pointer!RdNext
<1>7. /\ (g_wr_bin + 1) % Wrap = Gray!Pointer!Inc(g_wr_bin) /\ (g_wr_bin + 1) % Wrap \in 0 .. Wrap - 1
      /\ (g_rd_bin + 1) % Wrap = Gray!Pointer!Inc(g_rd_bin) /\ (g_rd_bin + 1) % Wrap \in 0 .. Wrap - 1
  BY <1>2, <1>4
<1> QED BY <1>2, <1>3, <1>5, <1>6, <1>7, Zenon

(* The payload RAM of the mapping: one word in every slot.                 *)
Ring == [s \in 0 .. Gray!Cells - 1 |-> Gray!Word]

(* An edge of either clock on bits is that edge on pointers.               *)
LEMMA WrEdgeIs ==
  ASSUME GrayInv, NEW v \in BOOLEAN, NEW seen \in Codes, Gray!WrEdge(v, seen)
  PROVE  /\ Gray!Pointer!WrEdge(v, Gray!Word, Decoded(seen))
         /\ g_wr_release' \in 0 .. 2 /\ g_wr_bin' \in 0 .. Wrap - 1
         /\ g_wr_gray' = Gray!Gray(g_wr_bin')
         /\ g_rd_gray_w1' \in Codes /\ g_rd_gray_w2' \in Codes
<1>1. /\ g_rst_n /\ g_wr_release' = Gray!Shift(g_wr_release)
      /\ g_wr_bin' = Gray!WrNextBin(v)
      /\ g_wr_gray' = Gray!Gray(g_wr_bin')
      /\ g_rd_gray_w1' = IF g_wr_release = 2 THEN seen ELSE Gray!Zero
      /\ g_rd_gray_w2' = IF g_wr_release = 2 THEN g_rd_gray_w1 ELSE Gray!Zero
  BY DEF Gray!WrEdge
<1>2. g_rd_gray_w1' \in Codes /\ g_rd_gray_w2' \in Codes
  BY <1>1, DecodeIs DEF GrayInv
<1>3. g_wr_release' \in 0 .. 2 /\ g_wr_release' = Gray!Pointer!Shift(g_wr_release)
  BY <1>1 DEF GrayInv, Gray!Shift, Gray!Pointer!Shift
<1>4. g_wr_bin' \in 0 .. Wrap - 1 /\ g_wr_bin' = Gray!Pointer!WrNext(v)
  BY <1>1, NextsAre
<1>5. /\ Gray!gray_to_bin(g_rd_gray_w1)' = IF g_wr_release = 2 THEN Decoded(seen) ELSE 0
      /\ Gray!gray_to_bin(g_rd_gray_w2)' = IF g_wr_release = 2 THEN Decoded(g_rd_gray_w1) ELSE 0
  BY <1>1, DecodeIs DEF Decoded
<1>6. [Ring EXCEPT ![Gray!Pointer!Slot(g_wr_bin)] = Gray!Word] = Ring
  BY DEF Ring
<1>7. Gray!Pointer!WrEdge(v, Gray!Word, Decoded(seen))
  BY <1>1, <1>3, <1>4, <1>5, <1>6 DEF Gray!Pointer!WrEdge, Ring, Decoded
<1> QED BY <1>1, <1>2, <1>3, <1>4, <1>7

(* As above, for rd_clk.                                                   *)
LEMMA RdEdgeIs ==
  ASSUME GrayInv, NEW v \in BOOLEAN, NEW seen \in Codes, Gray!RdEdge(v, seen)
  PROVE  /\ Gray!Pointer!RdEdge(v, Decoded(seen))
         /\ g_rd_release' \in 0 .. 2 /\ g_rd_bin' \in 0 .. Wrap - 1
         /\ g_rd_gray' = Gray!Gray(g_rd_bin')
         /\ g_wr_gray_r1' \in Codes /\ g_wr_gray_r2' \in Codes
<1>1. /\ g_rst_n /\ g_rd_release' = Gray!Shift(g_rd_release)
      /\ g_rd_bin' = Gray!RdNextBin(v)
      /\ g_rd_gray' = Gray!Gray(g_rd_bin')
      /\ g_wr_gray_r1' = IF g_rd_release = 2 THEN seen ELSE Gray!Zero
      /\ g_wr_gray_r2' = IF g_rd_release = 2 THEN g_wr_gray_r1 ELSE Gray!Zero
  BY DEF Gray!RdEdge
<1>2. g_wr_gray_r1' \in Codes /\ g_wr_gray_r2' \in Codes
  BY <1>1, DecodeIs DEF GrayInv
<1>3. g_rd_release' \in 0 .. 2 /\ g_rd_release' = Gray!Pointer!Shift(g_rd_release)
  BY <1>1 DEF GrayInv, Gray!Shift, Gray!Pointer!Shift
<1>4. g_rd_bin' \in 0 .. Wrap - 1 /\ g_rd_bin' = Gray!Pointer!RdNext(v)
  BY <1>1, NextsAre
<1>5. /\ Gray!gray_to_bin(g_wr_gray_r1)' = IF g_rd_release = 2 THEN Decoded(seen) ELSE 0
      /\ Gray!gray_to_bin(g_wr_gray_r2)' = IF g_rd_release = 2 THEN Decoded(g_wr_gray_r1) ELSE 0
  BY <1>1, DecodeIs DEF Decoded
<1>6. Gray!Pointer!RdEdge(v, Decoded(seen))
  BY <1>1, <1>3, <1>4, <1>5 DEF Gray!Pointer!RdEdge, Decoded
<1> QED BY <1>1, <1>2, <1>3, <1>4, <1>6

(* Reset holds the words of pointer zero.                                  *)
LEMMA GrayInit ==
  ASSUME Gray!Init
  PROVE  GrayInv /\ Gray!Pointer!Init
<1>0. Gray!Zero \in Codes /\ 0 \in 0 .. Wrap - 1 /\ Gray!Zero = Gray!Gray(0)
  BY DecodeIs, WrapWords
<1>1. GrayInv
  <2> DEFINE Pts == 0 .. Wrap - 1
  <2>1. 0 \in 0 .. 2 /\ FALSE \in BOOLEAN /\ 0 \in Pts
    BY <1>0
  <2> HIDE DEF Pts
  <2> QED BY <1>0, <2>1, Zenon DEF Gray!Init, GrayInv, Pts
<1>2. Gray!Pointer!Init
  BY DecodeIs DEF Gray!Init, Gray!Pointer!Init, Gray!Pointer!Slots, Decoded
<1> QED BY <1>1, <1>2

(* Every step on bits is a step on pointers, or none.                      *)
LEMMA GrayStep ==
  ASSUME GrayInv, [Gray!Next]_Gray!vars
  PROVE  GrayInv' /\ [Gray!Pointer!Next]_Gray!Pointer!vars
<1>0. /\ g_rd_gray \in Codes /\ Decoded(g_rd_gray) = g_rd_bin
      /\ g_wr_gray \in Codes /\ Decoded(g_wr_gray) = g_wr_bin
  BY DecodeIs DEF GrayInv
<1> USE DEF Gray!wrVars, Gray!rdVars, Gray!Pointer!wrVars, Gray!Pointer!rdVars
<1>1. CASE Gray!WrTick
  <2>1. PICK v \in BOOLEAN : Gray!WrEdge(v, g_rd_gray)
    BY <1>1 DEF Gray!WrTick
  <2>2. UNCHANGED <<g_rst_n, Gray!rdVars>>
    BY <1>1 DEF Gray!WrTick
  <2>3. GrayInv'
    BY <2>1, <2>2, <1>0, WrEdgeIs DEF GrayInv
  <2>4. Gray!Pointer!WrEdge(v, Gray!Word, g_rd_bin)
    BY <2>1, <1>0, WrEdgeIs
  <2>5. Gray!Pointer!WrTick
    BY <2>2, <2>4 DEF Gray!Pointer!WrTick
  <2> QED BY <2>3, <2>5 DEF Gray!Pointer!Next
<1>2. CASE Gray!RdTick
  <2>1. PICK v \in BOOLEAN : Gray!RdEdge(v, g_wr_gray)
    BY <1>2 DEF Gray!RdTick
  <2>2. UNCHANGED <<g_rst_n, Gray!wrVars>>
    BY <1>2 DEF Gray!RdTick
  <2>3. GrayInv'
    BY <2>1, <2>2, <1>0, RdEdgeIs DEF GrayInv
  <2>4. Gray!Pointer!RdEdge(v, g_wr_bin)
    BY <2>1, <1>0, RdEdgeIs
  <2>5. Gray!Pointer!RdTick
    BY <2>2, <2>4 DEF Gray!Pointer!RdTick
  <2> QED BY <2>3, <2>5 DEF Gray!Pointer!Next
<1>3. CASE Gray!BothTick
  <2>1. PICK v \in BOOLEAN, u \in BOOLEAN :
          /\ \E seen \in Gray!Sampled(g_rd_gray, Gray!Gray(Gray!RdNextBin(u))) :
               Gray!WrEdge(v, seen)
          /\ \E seen \in Gray!Sampled(g_wr_gray, Gray!Gray(Gray!WrNextBin(v))) :
               Gray!RdEdge(u, seen)
    BY <1>3 DEF Gray!BothTick
  <2>2. g_rst_n' = g_rst_n
    BY <1>3 DEF Gray!BothTick
  <2>3. PICK sw \in Gray!Sampled(g_rd_gray, Gray!Gray(Gray!RdNextBin(u))) :
          Gray!WrEdge(v, sw)
    BY <2>1
  <2>4. PICK sr \in Gray!Sampled(g_wr_gray, Gray!Gray(Gray!WrNextBin(v))) :
          Gray!RdEdge(u, sr)
    BY <2>1
  <2>5. sw \in Codes /\ Decoded(sw) \in {g_rd_bin, Gray!Pointer!RdNext(u)}
    <3> DEFINE b == Gray!RdNextBin(u)
    <3>1. b \in 0 .. Wrap - 1 /\ b \in {g_rd_bin, (g_rd_bin + 1) % Wrap} /\ b = Gray!Pointer!RdNext(u)
      BY NextsAre
    <3>2. g_rd_bin \in 0 .. Wrap - 1 /\ g_rd_gray = Gray!Gray(g_rd_bin)
      BY DEF GrayInv
    <3> HIDE DEF b
    <3>3. sw \in {Gray!Gray(g_rd_bin), Gray!Gray(b)}
      BY <2>3, <3>1, <3>2, SampledIs DEF b
    <3> QED BY <3>1, <3>2, <3>3, DecodeIs
  <2>6. sr \in Codes /\ Decoded(sr) \in {g_wr_bin, Gray!Pointer!WrNext(v)}
    <3> DEFINE b == Gray!WrNextBin(v)
    <3>1. b \in 0 .. Wrap - 1 /\ b \in {g_wr_bin, (g_wr_bin + 1) % Wrap} /\ b = Gray!Pointer!WrNext(v)
      BY NextsAre
    <3>2. g_wr_bin \in 0 .. Wrap - 1 /\ g_wr_gray = Gray!Gray(g_wr_bin)
      BY DEF GrayInv
    <3> HIDE DEF b
    <3>3. sr \in {Gray!Gray(g_wr_bin), Gray!Gray(b)}
      BY <2>4, <3>1, <3>2, SampledIs DEF b
    <3> QED BY <3>1, <3>2, <3>3, DecodeIs
  <2>7. GrayInv'
    BY <2>2, <2>3, <2>4, <2>5, <2>6, WrEdgeIs, RdEdgeIs DEF GrayInv
  <2>8. /\ Gray!Pointer!WrEdge(v, Gray!Word, Decoded(sw))
        /\ Gray!Pointer!RdEdge(u, Decoded(sr))
    BY <2>3, <2>4, <2>5, <2>6, WrEdgeIs, RdEdgeIs
  <2>9. Gray!Pointer!BothTick
    BY <2>2, <2>5, <2>6, <2>8 DEF Gray!Pointer!BothTick
  <2> QED BY <2>7, <2>9 DEF Gray!Pointer!Next
<1>4. CASE Gray!Assert
  <2>0. Gray!Zero \in Codes /\ 0 \in 0 .. Wrap - 1 /\ Gray!Zero = Gray!Gray(0)
    BY DecodeIs, WrapWords
  <2>1. GrayInv'
    <3> DEFINE Pts == 0 .. Wrap - 1
    <3>1. 0 \in 0 .. 2 /\ FALSE \in BOOLEAN /\ 0 \in Pts
      BY <2>0
    <3> HIDE DEF Pts
    <3> QED BY <1>4, <2>0, <3>1, Zenon DEF Gray!Assert, GrayInv, Pts
  <2>2. Gray!Pointer!Assert
    BY <1>4, DecodeIs DEF Gray!Assert, Gray!Pointer!Assert, Decoded
  <2> QED BY <2>1, <2>2 DEF Gray!Pointer!Next
<1>5. CASE Gray!Deassert
  <2>1. GrayInv'
    BY <1>5 DEF Gray!Deassert, GrayInv
  <2>2. Gray!Pointer!Deassert
    BY <1>5 DEF Gray!Deassert, Gray!Pointer!Deassert
  <2> QED BY <2>1, <2>2 DEF Gray!Pointer!Next
<1>6. CASE UNCHANGED Gray!vars
  <2>1. GrayInv'
    BY <1>6 DEF Gray!vars, GrayInv
  <2>2. UNCHANGED Gray!Pointer!vars
    BY <1>6 DEF Gray!vars, Gray!Pointer!vars
  <2> QED BY <2>1, <2>2
<1> QED BY <1>1, <1>2, <1>3, <1>4, <1>5, <1>6 DEF Gray!Next

(* What the protocol of AsyncFifo rests on: a word of any width sampled    *)
(* while it moves is one of two pointers, so that bits that cross with any *)
(* skew implement pointers that cross whole (rtl/bus/async_fifo.sv, the    *)
(* rd_gray_w1 and wr_gray_r1 synchronisers).                               *)
THEOREM BitsImplementPointers == MCSpec => ImplementsPointers
<1>1. MCInit => Gray!Init
  BY DEF MCInit
<1>2. [MCNext]_<<view, vars, grayVars, chainVars>> => [Gray!Next]_Gray!vars
  BY DEF MCNext, grayVars, Gray!vars, Gray!wrVars, Gray!rdVars
<1>3. MCInit => GrayInv /\ Gray!Pointer!Init
  BY <1>1, GrayInit
<1>4. GrayInv /\ [MCNext]_<<view, vars, grayVars, chainVars>> =>
        GrayInv' /\ [Gray!Pointer!Next]_Gray!Pointer!vars
  BY <1>2, GrayStep
<1> QED BY <1>3, <1>4, PTL
         DEF MCSpec, ImplementsPointers, Gray!ImplementsPointers, Gray!Pointer!Spec
(* And at every moment the flags and levels computed on Gray words, full's *)
(* two inverted bits included, are those of the pointers (async_fifo.sv,   *)
(* full, empty, wr_level, rd_level).                                       *)
THEOREM BitsGiveFlags == MCSpec => []Gray!FlagsAgree
<1>1. MCInit => GrayInv
  BY GrayInit DEF MCInit
<1>2. GrayInv /\ [MCNext]_<<view, vars, grayVars, chainVars>> => GrayInv'
  <2>1. [MCNext]_<<view, vars, grayVars, chainVars>> => [Gray!Next]_Gray!vars
    BY DEF MCNext, grayVars, Gray!vars, Gray!wrVars, Gray!rdVars
  <2> QED BY <2>1, GrayStep
<1>3. GrayInv => Gray!FlagsAgree
  BY FlagsAre
<1> QED BY <1>1, <1>2, <1>3, PTL DEF MCSpec
=============================================================================
