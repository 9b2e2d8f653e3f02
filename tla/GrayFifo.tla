------------------------------- MODULE GrayFifo -------------------------------
(***************************************************************************)
(* The pointers of rtl/bus/async_fifo.sv bit by bit.  A synchroniser that  *)
(* samples a word while it changes captures, in each bit, the old or the   *)
(* new value.  The payload is left out: it never crosses as pointers do.   *)
(* This module shows that Gray coding makes every such capture the old or  *)
(* the new pointer, and that the flags computed on Gray words are the ones *)
(* AsyncFifo.tla computes on pointers: it implements that module.          *)
(***************************************************************************)
EXTENDS Integers

CONSTANT PTR        \* $clog2(DEPTH), at least 2

VARIABLES rst_n, wr_release, rd_release, wr_bin, rd_bin, wr_gray, rd_gray,
          rd_gray_w1, rd_gray_w2, wr_gray_r1, wr_gray_r2

wrVars == <<wr_release, wr_bin, wr_gray, rd_gray_w1, rd_gray_w2>>
rdVars == <<rd_release, rd_bin, rd_gray, wr_gray_r1, wr_gray_r2>>
vars == <<rst_n, wrVars, rdVars>>

Power[i \in 0 .. PTR + 1] == IF i = 0 THEN 1 ELSE 2 * Power[i - 1]
Cells == Power[PTR]
Bits == 0 .. PTR
Words == [Bits -> {0, 1}]
Zero == [i \in Bits |-> 0]
Bit(n, i) == (n \div Power[i]) % 2

Plain(n) == [i \in Bits |-> Bit(n, i)]
(* wr_next_gray, rd_next_gray: (n >> 1) ^ n.                               *)
Gray(n) == [i \in Bits |-> (Bit(n, i) + Bit(n, i + 1)) % 2]

(* b[i] is the parity of the bits of g from i up.                          *)
Parities(g) ==
  LET b[i \in 0 .. PTR + 1] == IF i > PTR THEN 0 ELSE (b[i + 1] + g[i]) % 2 IN b
Number(b) ==
  LET n[i \in 0 .. PTR + 1] == IF i > PTR THEN 0 ELSE b[i] * Power[i] + n[i + 1] IN n[0]
GrayToBinTopBits(g) == Number(g)
gray_to_bin(g) == Number(Parities(g))

fullOneBit == wr_gray = [rd_gray_w2 EXCEPT ![PTR] = 1 - @]
full == wr_gray = [rd_gray_w2 EXCEPT ![PTR] = 1 - @, ![PTR - 1] = 1 - @]
empty == rd_gray = wr_gray_r2
in_ready == wr_release = 2 /\ ~full
out_valid == rd_release = 2 /\ ~empty
wr_level == (wr_bin - gray_to_bin(rd_gray_w2)) % (2 * Cells)
rd_level == (gray_to_bin(wr_gray_r2) - rd_bin) % (2 * Cells)

Init == /\ rst_n = FALSE
        /\ wr_release = 0 /\ rd_release = 0
        /\ wr_bin = 0 /\ rd_bin = 0 /\ wr_gray = Zero /\ rd_gray = Zero
        /\ rd_gray_w1 = Zero /\ rd_gray_w2 = Zero
        /\ wr_gray_r1 = Zero /\ wr_gray_r2 = Zero

(* What a flip-flop bank captures of a word moving from old to new.        *)
Sampled(old, new) == {g \in Words : \A i \in Bits : g[i] \in {old[i], new[i]}}

Shift(release) == IF release = 2 THEN 2 ELSE release + 1
WrNextBin(in_valid) ==
  IF in_valid /\ in_ready THEN (wr_bin + 1) % (2 * Cells) ELSE wr_bin
RdNextBin(out_ready) ==
  IF out_valid /\ out_ready THEN (rd_bin + 1) % (2 * Cells) ELSE rd_bin

WrEdge(in_valid, seen) ==
  /\ rst_n
  /\ wr_release' = Shift(wr_release)
  /\ wr_bin' = WrNextBin(in_valid)
  /\ wr_gray' = Gray(wr_bin')
  /\ rd_gray_w1' = IF wr_release = 2 THEN seen ELSE Zero
  /\ rd_gray_w2' = IF wr_release = 2 THEN rd_gray_w1 ELSE Zero

RdEdge(out_ready, seen) ==
  /\ rst_n
  /\ rd_release' = Shift(rd_release)
  /\ rd_bin' = RdNextBin(out_ready)
  /\ rd_gray' = Gray(rd_bin')
  /\ wr_gray_r1' = IF rd_release = 2 THEN seen ELSE Zero
  /\ wr_gray_r2' = IF rd_release = 2 THEN wr_gray_r1 ELSE Zero

WrTick == /\ \E in_valid \in BOOLEAN : WrEdge(in_valid, rd_gray)
          /\ UNCHANGED <<rst_n, rdVars>>

RdTick == /\ \E out_ready \in BOOLEAN : RdEdge(out_ready, wr_gray)
          /\ UNCHANGED <<rst_n, wrVars>>

BothTick ==
  /\ \E in_valid, out_ready \in BOOLEAN :
       /\ \E seen \in Sampled(rd_gray, Gray(RdNextBin(out_ready))) :
            WrEdge(in_valid, seen)
       /\ \E seen \in Sampled(wr_gray, Gray(WrNextBin(in_valid))) :
            RdEdge(out_ready, seen)
  /\ UNCHANGED rst_n

Assert == /\ rst_n' = FALSE
          /\ wr_release' = 0 /\ rd_release' = 0
          /\ wr_bin' = 0 /\ rd_bin' = 0 /\ wr_gray' = Zero /\ rd_gray' = Zero
          /\ rd_gray_w1' = Zero /\ rd_gray_w2' = Zero
          /\ wr_gray_r1' = Zero /\ wr_gray_r2' = Zero

Deassert == /\ ~rst_n
            /\ rst_n' = TRUE
            /\ UNCHANGED <<wrVars, rdVars>>

Next == WrTick \/ RdTick \/ BothTick \/ Assert \/ Deassert

Spec == Init /\ [][Next]_vars

-----------------------------------------------------------------------------
Word == "word"     \* one payload value: pointers do not depend on payloads

Pointer == INSTANCE AsyncFifo WITH
             Depth <- Cells,
             Data <- {Word}, storage <- [s \in 0 .. Cells - 1 |-> Word],
             rd_w1 <- gray_to_bin(rd_gray_w1), rd_w2 <- gray_to_bin(rd_gray_w2),
             wr_r1 <- gray_to_bin(wr_gray_r1), wr_r2 <- gray_to_bin(wr_gray_r2)

(* The bits implement the pointers: a Gray word sampled while it moves is  *)
(* the old or the new pointer, never a third one (async_fifo.sv, the       *)
(* rd_gray_w1 and wr_gray_r1 synchronisers).                               *)
ImplementsPointers == Pointer!Spec

(* The flags the Gray words give are those the pointers give, and so are   *)
(* the levels, although full inverts two bits of one word and the levels   *)
(* decode the other (async_fifo.sv, full, empty, wr_level, rd_level).      *)
FlagsAgree == /\ full <=> Pointer!full
              /\ empty <=> Pointer!empty
              /\ wr_level = Pointer!wr_level
              /\ rd_level = Pointer!rd_level
=============================================================================
