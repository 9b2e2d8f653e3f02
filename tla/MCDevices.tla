------------------------------- MODULE MCDevices -------------------------------
(***************************************************************************)
(* The devices of the peripheral bus, in one state graph: the interrupt    *)
(* controller (Plic), the way to a device and back (PeripheralBus), the    *)
(* timer (Clint), the serial port (Uart16550) and the handover of its pin  *)
(* (UartOwner).  Which one a behaviour is about is chosen at the start, and*)
(* the others stay as they are.                                            *)
(***************************************************************************)
EXTENDS Plic, Sequences

CONSTANTS Half, CYCLES_PER_TICK,          \* of Clint
          Devices, Unmapped,              \* of PeripheralBus
          Depth, Trigger, Bytes,          \* of Uart16550
          BUTTON_STABLE_CYCLES, QUIET_CYCLES, Latency, Capacity   \* of UartOwner

ASSUME TimerAssumption == Half \in Nat \ {0, 1}
ASSUME BusAssumption == Unmapped \notin Devices
ASSUME SerialAssumption == /\ Depth \in Nat \ {0} /\ Trigger \in 1 .. Depth
                           /\ "-" \notin Bytes
(* A store needs no more edges than the quiet window has.                  *)
ASSUME PinAssumption == /\ BUTTON_STABLE_CYCLES \in Nat /\ QUIET_CYCLES \in Nat
                        /\ Latency \in Nat \ {0} /\ Capacity \in Nat
                        /\ Latency <= QUIET_CYCLES

VARIABLES device,
  cl_tick_count, cl_mtime, cl_mtimecmp, cl_msip, cl_response, cl_deadline,
  cl_step, cl_target,
  pb_bridge, pb_held, pb_result, pb_r_owner, pb_w_owner, pb_state, pb_current,
  pb_remaining, pb_response, pb_owner, pb_unmapped_pending, pb_pending,
  pb_operated,
  ua_side, ua_fifo_on, ua_dlab, ua_ier, ua_tx, ua_tx_busy, ua_thre_pending,
  ua_rx, ua_overrun, ua_timeout_irq, ua_bus_rsp_valid, ua_owed, ua_room,
  ua_told, ua_heard,
  uo_button_sync, uo_debounce, uo_quiet, uo_halt_cpu, uo_debug_selected,
  uo_console, uo_flight

Timer == INSTANCE Clint WITH
  tick_count <- cl_tick_count, mtime <- cl_mtime, mtimecmp <- cl_mtimecmp,
  msip <- cl_msip, response <- cl_response, deadline <- cl_deadline,
  step <- cl_step, target <- cl_target
Bus == INSTANCE PeripheralBus WITH
  bridge <- pb_bridge, held <- pb_held, result <- pb_result,
  r_owner <- pb_r_owner, w_owner <- pb_w_owner, state <- pb_state,
  current <- pb_current, remaining <- pb_remaining, response <- pb_response,
  owner <- pb_owner, unmapped_pending <- pb_unmapped_pending,
  pending <- pb_pending, operated <- pb_operated
Serial == INSTANCE Uart16550 WITH
  side <- ua_side, fifo_on <- ua_fifo_on, dlab <- ua_dlab, ier <- ua_ier,
  tx <- ua_tx, tx_busy <- ua_tx_busy, thre_pending <- ua_thre_pending,
  rx <- ua_rx, overrun <- ua_overrun, timeout_irq <- ua_timeout_irq,
  bus_rsp_valid <- ua_bus_rsp_valid, owed <- ua_owed, room <- ua_room,
  told <- ua_told, heard <- ua_heard
Pin == INSTANCE UartOwner WITH
  button_sync <- uo_button_sync, debounce <- uo_debounce, quiet <- uo_quiet,
  halt_cpu <- uo_halt_cpu, debug_selected <- uo_debug_selected,
  console <- uo_console, flight <- uo_flight

timerVars == <<cl_tick_count, cl_mtime, cl_mtimecmp, cl_msip, cl_response,
               cl_deadline, cl_step, cl_target>>
busVars == <<pb_bridge, pb_held, pb_result, pb_r_owner, pb_w_owner, pb_state,
             pb_current, pb_remaining, pb_response, pb_owner,
             pb_unmapped_pending, pb_pending, pb_operated>>
serialVars == <<ua_side, ua_fifo_on, ua_dlab, ua_ier, ua_tx, ua_tx_busy,
                ua_thre_pending, ua_rx, ua_overrun, ua_timeout_irq,
                ua_bus_rsp_valid, ua_owed, ua_room, ua_told, ua_heard>>
pinVars == <<uo_button_sync, uo_debounce, uo_quiet, uo_halt_cpu,
             uo_debug_selected, uo_console, uo_flight>>
all == <<device, vars, timerVars, busVars, serialVars, pinVars>>

MCInit == /\ device \in {"plic", "timer", "bus", "serial", "pin"}
          /\ Init /\ Timer!Init /\ Bus!Init /\ Pin!Init
          /\ Serial!Init /\ (device # "serial" => ua_side = "tx")

MCNext ==
  \/ /\ device = "plic" /\ Next
     /\ UNCHANGED <<device, timerVars, busVars, serialVars, pinVars>>
  \/ /\ device = "timer" /\ Timer!Next
     /\ UNCHANGED <<device, vars, busVars, serialVars, pinVars>>
  \/ /\ device = "bus" /\ Bus!Next
     /\ UNCHANGED <<device, vars, timerVars, serialVars, pinVars>>
  \/ /\ device = "serial" /\ Serial!Next
     /\ UNCHANGED <<device, vars, timerVars, busVars, pinVars>>
  \/ /\ device = "pin" /\ Pin!Next
     /\ UNCHANGED <<device, vars, timerVars, busVars, serialVars>>

MCSpec == MCInit /\ [][MCNext]_all

-----------------------------------------------------------------------------
(* clint.sv: a deadline that is set in halves raises the interrupt when it *)
(* has come, and not before.                                               *)
TimerExact == Timer!TimerExact
(* axi_peripheral_adapter.sv and checkpoint10_mmio.sv: an access operates  *)
(* its device once and gets that device's answer.                          *)
AccessOnce == Bus!AccessOnce
(* uart16550.sv and checkpoint10_uart_owner.sv: the serial port keeps its  *)
(* characters in order and software that heeds it loses none, not even when*)
(* the trace dump takes the pin away.                                      *)
ConsoleKept == Serial!UartExact /\ Pin!HandOver
=============================================================================
