-------------------------------- MODULE MCLink --------------------------------
(***************************************************************************)
(* Three views of the link between the clock domains, in one state graph:  *)
(* its FIFOs at the level of their pointers (AsyncFifo) and of their Gray  *)
(* bits (GrayFifo), and its resets with one life and one master            *)
(* (ResetChain).  Which of them a behaviour is about is chosen at the      *)
(* start, and the registers of the others stay as they are.                *)
(***************************************************************************)
EXTENDS AsyncFifo

CONSTANT PTR        \* $clog2(DEPTH) of the FIFO whose bits are looked at
ASSUME PtrAssumption == PTR \in Nat /\ PTR >= 2

VARIABLES
  view,      \* "pointers", "bits" or "resets"
  g_rst_n, g_wr_release, g_rd_release, g_wr_bin, g_rd_bin, g_wr_gray,
  g_rd_gray, g_rd_gray_w1, g_rd_gray_w2, g_wr_gray_r1, g_wr_gray_r2,
  c_rst_n, c_mig_calib_complete, c_mig_release, c_link_rst_n, c_core_release,
  c_cpu_reset_n, c_core_side, c_mig_side, c_rising, c_ar, c_r, c_aw, c_w, c_b,
  c_mig_ar, c_mig_aw, c_mig_w, c_mmio, c_reader, c_writer, c_rstate,
  c_r_owner, c_r_slave, c_wstate, c_w_owner, c_life

Gray == INSTANCE GrayFifo WITH
  rst_n <- g_rst_n, wr_release <- g_wr_release,
  rd_release <- g_rd_release, wr_bin <- g_wr_bin, rd_bin <- g_rd_bin,
  wr_gray <- g_wr_gray, rd_gray <- g_rd_gray, rd_gray_w1 <- g_rd_gray_w1,
  rd_gray_w2 <- g_rd_gray_w2, wr_gray_r1 <- g_wr_gray_r1,
  wr_gray_r2 <- g_wr_gray_r2
Chain == INSTANCE ResetChain WITH
  Cpu <- {"cpu"}, Loader <- {}, Dests <- {"ddr", "mmio"}, Writing <- TRUE,
  Depth <- 1, Lives <- 1,
  rst_n <- c_rst_n, mig_calib_complete <- c_mig_calib_complete,
  mig_release <- c_mig_release, link_rst_n <- c_link_rst_n,
  core_release <- c_core_release, cpu_reset_n <- c_cpu_reset_n,
  core_side <- c_core_side, mig_side <- c_mig_side, rising <- c_rising,
  ar <- c_ar, r <- c_r, aw <- c_aw, w <- c_w, b <- c_b, mig_ar <- c_mig_ar,
  mig_aw <- c_mig_aw, mig_w <- c_mig_w, mmio <- c_mmio, reader <- c_reader,
  writer <- c_writer, rstate <- c_rstate, r_owner <- c_r_owner,
  r_slave <- c_r_slave, wstate <- c_wstate, w_owner <- c_w_owner,
  life <- c_life

grayVars == <<g_rst_n, g_wr_release, g_rd_release, g_wr_bin, g_rd_bin,
              g_wr_gray, g_rd_gray, g_rd_gray_w1, g_rd_gray_w2, g_wr_gray_r1,
              g_wr_gray_r2>>
chainVars ==
  <<c_rst_n, c_mig_calib_complete, c_mig_release, c_link_rst_n,
  c_core_release, c_cpu_reset_n, c_core_side, c_mig_side, c_rising, c_ar, c_r,
  c_aw, c_w, c_b, c_mig_ar, c_mig_aw, c_mig_w, c_mmio, c_reader, c_writer,
  c_rstate, c_r_owner, c_r_slave, c_wstate, c_w_owner, c_life>>

MCInit == /\ view \in {"pointers", "bits", "resets"}
          /\ Init
          /\ view # "pointers" => \A s, t \in Slots : storage[s] = storage[t]
          /\ Gray!Init
          /\ Chain!Init

MCNext ==
  \/ view = "pointers" /\ Next /\ UNCHANGED <<view, grayVars, chainVars>>
  \/ view = "bits" /\ Gray!Next /\ UNCHANGED <<view, vars, chainVars>>
  \/ view = "resets" /\ Chain!Next /\ UNCHANGED <<view, vars, grayVars>>

(* The fairness of each module, of the one that is looked at.              *)
Runs(A) == view = "resets" /\ A
MCFairness ==
  /\ WF_vars(view = "pointers" /\ WrShifts)
  /\ WF_vars(view = "pointers" /\ RdShifts)
  /\ WF_vars(view = "pointers" /\ Deassert)
  /\ WF_chainVars(Runs(Chain!MigTick))
  /\ WF_chainVars(Runs(Chain!TakeAr /\ Chain!MigTick))
  /\ WF_chainVars(Runs(Chain!GiveR /\ Chain!MigTick))
  /\ WF_chainVars(Runs(Chain!TakeAw /\ Chain!MigTick))
  /\ WF_chainVars(Runs(Chain!TakeW /\ Chain!MigTick))
  /\ WF_chainVars(Runs(Chain!GiveB /\ Chain!MigTick))
  /\ WF_chainVars(Runs(Chain!CoreTick))
  /\ WF_chainVars(Runs(Chain!ReadWork /\ Chain!CoreTick))
  /\ WF_chainVars(Runs(Chain!WriteWork /\ Chain!CoreTick))
MCSpec == MCInit /\ [][MCNext]_<<view, vars, grayVars, chainVars>> /\ MCFairness

-----------------------------------------------------------------------------
(* async_fifo.sv, rd_gray_w1 and wr_gray_r1: a Gray word sampled while it  *)
(* moves is the old or the new pointer, so that the bits implement the     *)
(* pointer protocol.                                                       *)
ImplementsPointers == Gray!ImplementsPointers

(* axi_cdc.sv and checkpoint9_top.sv: whatever was in flight, once the     *)
(* button is released and calibration holds, every master runs again and   *)
(* every burst it starts ends.                                             *)
Recovers == view = "resets" => Chain!Recovers
=============================================================================
