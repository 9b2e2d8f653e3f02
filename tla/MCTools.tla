------------------------------- MODULE MCTools -------------------------------
(***************************************************************************)
(* The tools around the boards, in one state graph: which one a behaviour  *)
(* is about is chosen at the start, and the others stay as they are.       *)
(***************************************************************************)
EXTENDS Integers, Sequences, FiniteSets

CONSTANTS
  Ring, Numbers, MaxDumps, TraceResets, KeepsCapture,           \* TraceRing
  BootResets,                                                   \* BootConsole
  StatusWords, Moments, Passing, MaxCapture,                    \* BoardReport
  WordBytes, Reserved, PayloadLimit, Files, Timeout, ImageResets,   \* BootImage
  FlashBytes, MinimumSpare, Layouts, Assets,                    \* FlashLayout
  Limit                                                         \* DutSession

ASSUME ReportAssumption == StatusWords \in Nat \ {0} /\ Moments \in Nat \ {0}
(* The ring has an entry and no more than a count of nine bits can say;    *)
(* retirements are counted from zero.                                      *)
ASSUME TraceAssumption == Ring \in 1 .. 511 /\ Numbers \in Nat \ {0}
(* The bytes reserved for the firmware are whole words.                    *)
ASSUME ImageAssumption ==
  /\ WordBytes \in Nat \ {0} /\ PayloadLimit \in Nat
  /\ Reserved \in Nat /\ Reserved % WordBytes = 0
  /\ Files \subseteq Seq(Nat) \X Seq(Nat)
(* Offsets and capacities are integers, sizes of files natural numbers;    *)
(* Missing is -1.                                                          *)
ASSUME LayoutAssumption ==
  /\ FlashBytes \in Nat /\ MinimumSpare \in Nat
  /\ Layouts \subseteq Seq([name : STRING, offset : Int, capacity : Int])
  /\ \A sizes \in Assets : \A name \in DOMAIN sizes : sizes[name] \in Nat \cup {-1}
ASSUME SessionAssumption == Limit \in Nat

VARIABLES which,
  tr_state, tr_entries, tr_read_word, tr_write_q, tr_read_q, tr_count,
  tr_write_ptr, tr_read_ptr, tr_snapshot_count, tr_sent_records,
  tr_byte_index, tr_retire, tr_sending, tr_capture, tr_next, tr_last,
  tr_dumps, tr_cut, tr_resets,
  bc_trace, bc_phase, bc_sent, bc_data, bc_result, bc_boot, bc_printed,
  bc_challenge, bc_unread,
  br_now, br_sending, br_byte_index, br_pause, br_snapshot, br_transmitting,
  br_phase, br_data, br_status, br_taken, br_heard, br_latest, br_torn,
  bi_firmware, bi_payload, bi_packed, bi_state, bi_index, bi_aw_pending,
  bi_w_pending, bi_watchdog, bi_progress, bi_rom_word, bi_gap_word, bi_ddr,
  bi_port, bi_resets,
  fl_layout, fl_assets, fl_phase, fl_status, fl_cursor, fl_end, fl_seen,
  fl_todo, fl_failed,
  ds_script, ds_phase, ds_outcome, ds_steps, ds_events, ds_last_trap, ds_dut,
  ds_dut_code, ds_request, ds_reply

Trace == INSTANCE TraceRing WITH
  MaxResets <- TraceResets, state <- tr_state,
  entries <- tr_entries, read_word <- tr_read_word, write_q <- tr_write_q,
  read_q <- tr_read_q, count <- tr_count, write_ptr <- tr_write_ptr,
  read_ptr <- tr_read_ptr, snapshot_count <- tr_snapshot_count,
  sent_records <- tr_sent_records, byte_index <- tr_byte_index,
  retire <- tr_retire, sending <- tr_sending, capture <- tr_capture,
  next <- tr_next, last <- tr_last, dumps <- tr_dumps, cut <- tr_cut,
  resets <- tr_resets
Console == INSTANCE BootConsole WITH
  MaxResets <- BootResets, trace <- bc_trace, phase <- bc_phase, sent <- bc_sent,
  data <- bc_data, result <- bc_result, boot <- bc_boot,
  printed <- bc_printed, challenge <- bc_challenge, unread <- bc_unread
Report == INSTANCE BoardReport WITH
  Words <- StatusWords, now <- br_now,
  sending <- br_sending, byte_index <- br_byte_index, pause <- br_pause,
  snapshot <- br_snapshot, transmitting <- br_transmitting, phase <- br_phase,
  data <- br_data, status <- br_status, taken <- br_taken, heard <- br_heard,
  latest <- br_latest, torn <- br_torn
Image == INSTANCE BootImage WITH
  MaxResets <- ImageResets, firmware <- bi_firmware,
  payload <- bi_payload, packed <- bi_packed, state <- bi_state,
  index <- bi_index, aw_pending <- bi_aw_pending, w_pending <- bi_w_pending,
  watchdog <- bi_watchdog, progress <- bi_progress, rom_word <- bi_rom_word,
  gap_word <- bi_gap_word, ddr <- bi_ddr, port <- bi_port, resets <- bi_resets
Layout == INSTANCE FlashLayout WITH
  layout <- fl_layout, assets <- fl_assets,
  phase <- fl_phase, status <- fl_status, cursor <- fl_cursor, end <- fl_end,
  seen <- fl_seen, todo <- fl_todo, failed <- fl_failed
Session == INSTANCE DutSession WITH
  script <- ds_script, phase <- ds_phase, outcome <- ds_outcome,
  steps <- ds_steps, events <- ds_events, last_trap <- ds_last_trap,
  dut <- ds_dut, dut_code <- ds_dut_code, request <- ds_request,
  reply <- ds_reply

traceVars ==
  <<tr_state, tr_entries, tr_read_word, tr_write_q, tr_read_q, tr_count,
  tr_write_ptr, tr_read_ptr, tr_snapshot_count, tr_sent_records,
  tr_byte_index, tr_retire, tr_sending, tr_capture, tr_next, tr_last,
  tr_dumps, tr_cut, tr_resets>>
consoleVars ==
  <<bc_trace, bc_phase, bc_sent, bc_data, bc_result, bc_boot, bc_printed,
  bc_challenge, bc_unread>>
reportVars ==
  <<br_now, br_sending, br_byte_index, br_pause, br_snapshot, br_transmitting,
  br_phase, br_data, br_status, br_taken, br_heard, br_latest, br_torn>>
imageVars ==
  <<bi_firmware, bi_payload, bi_packed, bi_state, bi_index, bi_aw_pending,
  bi_w_pending, bi_watchdog, bi_progress, bi_rom_word, bi_gap_word, bi_ddr,
  bi_port, bi_resets>>
layoutVars ==
  <<fl_layout, fl_assets, fl_phase, fl_status, fl_cursor, fl_end, fl_seen,
  fl_todo, fl_failed>>
sessionVars ==
  <<ds_script, ds_phase, ds_outcome, ds_steps, ds_events, ds_last_trap,
  ds_dut, ds_dut_code, ds_request, ds_reply>>
all == <<which, traceVars, consoleVars, reportVars, imageVars, layoutVars, sessionVars>>

-----------------------------------------------------------------------------
(* Values for model checking.                                              *)
MCPassing == {1, 2}
Numbered(from, n) == [i \in 1 .. n |-> from + i]
MCFiles == {<<Numbered(10, f), Numbered(20, p)>> : f \in 0 .. 4, p \in 0 .. 4}
Region == [name : {"opensbi", "manifest"}, offset : 0 .. 3, capacity : -1 .. 3]
MCLayouts == UNION {[1 .. n -> Region] : n \in 0 .. 2}
MCAssets == UNION {[names -> -1 .. 3] : names \in SUBSET {"opensbi", "manifest"}}

-----------------------------------------------------------------------------
(* A tool that is not looked at has one initial state, in which it has     *)
(* nothing to do.                                                          *)
MCInit ==
  /\ which \in {"trace", "console", "report", "image", "layout", "session"}
  /\ Trace!Init /\ Report!Init
  /\ Console!Init /\ (which # "console" => ~bc_trace)
  /\ Image!Init /\ (which # "image" => bi_firmware = <<>> /\ bi_payload = <<>>)
  /\ Layout!Init /\ (which # "layout" => fl_layout = <<>> /\ fl_assets = <<>>)
  /\ Session!Init /\ (which # "session" => ds_script = "coverage")

MCNext ==
  \/ /\ which = "trace" /\ Trace!Next
     /\ UNCHANGED <<which, consoleVars, reportVars, imageVars, layoutVars, sessionVars>>
  \/ /\ which = "console" /\ Console!Next
     /\ UNCHANGED <<which, traceVars, reportVars, imageVars, layoutVars, sessionVars>>
  \/ /\ which = "report" /\ Report!Next
     /\ UNCHANGED <<which, traceVars, consoleVars, imageVars, layoutVars, sessionVars>>
  \/ /\ which = "image" /\ Image!Next
     /\ UNCHANGED <<which, traceVars, consoleVars, reportVars, layoutVars, sessionVars>>
  \/ /\ which = "layout" /\ Layout!Next
     /\ UNCHANGED <<which, traceVars, consoleVars, reportVars, imageVars, sessionVars>>
  \/ /\ which = "session" /\ Session!Next
     /\ UNCHANGED <<which, traceVars, consoleVars, reportVars, imageVars, layoutVars>>

MCFairness ==
  /\ WF_imageVars(which = "image" /\ Image!Pack)
  /\ WF_imageVars(which = "image" /\ Image!Edge)
  /\ WF_sessionVars(which = "session" /\ Session!Controller)
  /\ WF_sessionVars(which = "session" /\ Session!DutAnswers)
MCSpec == MCInit /\ [][MCNext]_all /\ MCFairness

-----------------------------------------------------------------------------
(* trace_ring_uart.sv and decode_trace.py: a capture that stops between two*)
(* dumps decodes to the last retirements before each freeze, and to nothing*)
(* else wherever it stops.                                                 *)
TraceDecoded == Trace!TraceDecoded
(* capture_checkpoint10.py passes exactly when one boot printed all its    *)
(* milestones into the capture, and challenges exactly when it is asked.   *)
CaptureExact == Console!CaptureExact
(* checkpoint9_uart_report.sv and decode_checkpoint9.py: the words decoded *)
(* are of one moment, that of the last packet heard in full.               *)
ReportWhole == Report!ReportWhole
(* pack_checkpoint10_image.py and checkpoint10_image_loader.sv: the CPU is *)
(* released only over the firmware, the payload and zeros around them.     *)
ImageLoaded == Image!ImageLoaded
(* check_flash_layout.py lets no byte of the flash belong to two regions,  *)
(* and no artifact leave its own.                                          *)
LayoutSafe == Layout!LayoutSafe
(* verify_cached_core.py and check_cpu_coverage.py: a session that returns *)
(* saw the program and the DUT end as they should; none leaves a process.  *)
SessionMeans == Session!SessionMeans
(* The copy to memory ends even when memory never answers, and so do the   *)
(* directed tests when the DUT does not quit as it is asked to.            *)
ToolsEnd == Image!LoaderEnds /\ Session!SessionEnds
=============================================================================
