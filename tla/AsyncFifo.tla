------------------------------ MODULE AsyncFifo ------------------------------
(***************************************************************************)
(* The dual-clock FIFO of rtl/bus/async_fifo.sv at the level of its        *)
(* pointers.  A pointer counts modulo 2*Depth; each clock domain sees the  *)
(* other domain's pointer through two flip-flops.  The pointer crosses in  *)
(* Gray code, so a flip-flop that samples it while it moves captures the   *)
(* old or the new pointer: GrayFifo.tla shows that for the bits.           *)
(* A step is a rising edge of one clock, of both at once, or a change of   *)
(* the asynchronous reset.                                                 *)
(***************************************************************************)
EXTENDS Integers, Sequences

CONSTANTS Depth, Data

ASSUME DepthAssumption == Depth \in Nat /\ Depth >= 4

VARIABLES
  rst_n,       \* the shared reset, active low
  wr_release,  \* number of ones shifted into wr_release[1:0]
  rd_release,
  storage,
  wr_bin,
  rd_bin,
  rd_w1,       \* the read pointer held by rd_gray_w1
  rd_w2,
  wr_r1,       \* the write pointer held by wr_gray_r1
  wr_r2

wrVars == <<wr_release, storage, wr_bin, rd_w1, rd_w2>>
rdVars == <<rd_release, rd_bin, wr_r1, wr_r2>>
vars == <<rst_n, wrVars, rdVars>>

Pointers == 0 .. 2 * Depth - 1
Slots == 0 .. Depth - 1
IncNoWrap(p) == p + 1
Inc(p) == IF p = 2 * Depth - 1 THEN 0 ELSE p + 1
(* The difference of two pointers, modulo 2 * Depth.                       *)
Gap(p, q) == IF p >= q THEN p - q ELSE p - q + 2 * Depth
Slot(p) == IF p >= Depth THEN p - Depth ELSE p

fullOffByOne == Gap(wr_bin, rd_w2) = Depth + 1
fullNoWrapBit == Slot(wr_bin) = Slot(rd_w2)
full == Gap(wr_bin, rd_w2) = Depth
emptyOffByOne == Gap(wr_r2, rd_bin) <= 1
empty == rd_bin = wr_r2
in_ready == wr_release = 2 /\ ~full
out_valid == rd_release = 2 /\ ~empty
out_data == storage[Slot(rd_bin)]
wr_level == Gap(wr_bin, rd_w2)
rd_level == Gap(wr_r2, rd_bin)

Init == /\ rst_n = FALSE
        /\ wr_release = 0 /\ rd_release = 0
        /\ storage \in [Slots -> Data]     \* the payload RAM has no reset
        /\ wr_bin = 0 /\ rd_w1 = 0 /\ rd_w2 = 0
        /\ rd_bin = 0 /\ wr_r1 = 0 /\ wr_r2 = 0

Shift(release) == IF release = 2 THEN 2 ELSE release + 1
WrNext(in_valid) == IF in_valid /\ in_ready THEN Inc(wr_bin) ELSE wr_bin
RdNext(out_ready) == IF out_valid /\ out_ready THEN Inc(rd_bin) ELSE rd_bin

(* An edge of wr_clk that samples the read pointer as seen.                *)
WrEdge(in_valid, d, seen) ==
  /\ rst_n
  /\ wr_release' = Shift(wr_release)
  /\ wr_bin' = WrNext(in_valid)
  /\ storage' = IF in_valid /\ in_ready
                THEN [storage EXCEPT ![Slot(wr_bin)] = d] ELSE storage
  /\ rd_w1' = IF wr_release = 2 THEN seen ELSE 0
  /\ rd_w2' = IF wr_release = 2 THEN rd_w1 ELSE 0

(* An edge of rd_clk that samples the write pointer as seen.               *)
RdEdge(out_ready, seen) ==
  /\ rst_n
  /\ rd_release' = Shift(rd_release)
  /\ rd_bin' = RdNext(out_ready)
  /\ wr_r1' = IF rd_release = 2 THEN seen ELSE 0
  /\ wr_r2' = IF rd_release = 2 THEN wr_r1 ELSE 0

WrTick == /\ \E in_valid \in BOOLEAN, d \in Data : WrEdge(in_valid, d, rd_bin)
          /\ UNCHANGED <<rst_n, rdVars>>

RdTick == /\ \E out_ready \in BOOLEAN : RdEdge(out_ready, wr_bin)
          /\ UNCHANGED <<rst_n, wrVars>>

(* Edges too close to order: each side may capture either value.           *)
BothTick ==
  /\ \E in_valid, out_ready \in BOOLEAN, d \in Data :
       /\ \E seen \in {rd_bin, RdNext(out_ready)} : WrEdge(in_valid, d, seen)
       /\ \E seen \in {wr_bin, WrNext(in_valid)} : RdEdge(out_ready, seen)
  /\ UNCHANGED rst_n

Assert == /\ rst_n' = FALSE
          /\ wr_release' = 0 /\ wr_bin' = 0 /\ rd_w1' = 0 /\ rd_w2' = 0
          /\ rd_release' = 0 /\ rd_bin' = 0 /\ wr_r1' = 0 /\ wr_r2' = 0
          /\ UNCHANGED storage

Deassert == /\ ~rst_n
            /\ rst_n' = TRUE
            /\ UNCHANGED <<wrVars, rdVars>>

Next == WrTick \/ RdTick \/ BothTick \/ Assert \/ Deassert

Spec == Init /\ [][Next]_vars

(* Both clocks run for ever.  An edge may change nothing, and what it puts *)
(* or takes is up to the users: what is certain is that an edge comes      *)
(* whenever the registers of that clock have something to shift.           *)
WrUnsettled == wr_release < 2 \/ rd_w1 # rd_bin \/ rd_w2 # rd_w1
RdUnsettled == rd_release < 2 \/ wr_r1 # wr_bin \/ wr_r2 # wr_r1
WrShifts == WrUnsettled /\ (WrTick \/ BothTick)
RdShifts == RdUnsettled /\ (RdTick \/ BothTick)
Fairness == WF_vars(WrShifts) /\ WF_vars(RdShifts) /\ WF_vars(Deassert)
FairSpec == Spec /\ Fairness

-----------------------------------------------------------------------------
TypeOK == /\ rst_n \in BOOLEAN
          /\ wr_release \in 0 .. 2 /\ rd_release \in 0 .. 2
          /\ storage \in [Slots -> Data]
          /\ wr_bin \in Pointers /\ rd_w1 \in Pointers /\ rd_w2 \in Pointers
          /\ rd_bin \in Pointers /\ wr_r1 \in Pointers /\ wr_r2 \in Pointers

(* The words of store from the slot of pointer r up to that of w, oldest   *)
(* first, and the words accepted and not yet delivered.                    *)
Ahead(p, k) == IF p + k >= 2 * Depth THEN p + k - 2 * Depth ELSE p + k
Queue(w, r, store) == [i \in 1 .. Gap(w, r) |-> store[Slot(Ahead(r, i - 1))]]
contents == Queue(wr_bin, rd_bin, storage)

(* The FIFO implements the bounded queue: whatever the order of the two    *)
(* clocks and of the resets, no word is lost, repeated or overwritten      *)
(* (rtl/bus/async_fifo.sv, full, empty and the two pointer processes).     *)
Abstract == INSTANCE BoundedFifo WITH Capacity <- Depth, queue <- contents
ImplementsQueue == Abstract!Spec

(* The two level outputs bracket the real occupancy: the writer never      *)
(* believes there is more room, nor the reader more data, than there is.   *)
LevelsBracket == /\ rd_level <= Gap(wr_bin, rd_bin)
                 /\ Gap(wr_bin, rd_bin) <= wr_level
                 /\ wr_level <= Depth

(* A word offered and not taken stays offered with the same payload, and   *)
(* room offered and not used stays, until reset: AXI's stability rule for  *)
(* a channel that leaves the FIFO, which its storage and its synchronisers *)
(* give without an output register.                                        *)
HoldsOffer ==
  [][rst_n' => /\ out_valid /\ rd_bin' = rd_bin
                    => out_valid' /\ out_data' = out_data
               /\ in_ready /\ wr_bin' = wr_bin => in_ready']_vars

(* A word in the FIFO is eventually offered to the reader, unless reset    *)
(* strikes: the write pointer gets through wr_gray_r1 and wr_gray_r2.      *)
EventuallyOffered == contents # <<>> ~> (out_valid \/ ~rst_n)

(* A writer that sees a full FIFO after the reader has drained it sees     *)
(* room eventually: the read pointer gets back through rd_gray_w1 and w2.  *)
EventuallyReady == (rst_n /\ contents = <<>>) ~> (in_ready \/ ~rst_n)

(* Neither side waits for what its synchronisers have yet to show.         *)
NeitherStarves == EventuallyOffered /\ EventuallyReady
=============================================================================
