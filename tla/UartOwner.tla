------------------------------- MODULE UartOwner -------------------------------
(***************************************************************************)
(* The handover of the serial pin from the console to the trace dump,      *)
(* rtl/debug/checkpoint10_uart_owner.sv, with what it waits for: the       *)
(* console's characters, and the store that the data cache had accepted    *)
(* when the core was halted.  That store reaches the UART within `Latency` *)
(* edges, at most QUIET_CYCLES: the data cache is the only writer there.   *)
(* A step is an edge of the core clock.                                    *)
(***************************************************************************)
EXTENDS Naturals

CONSTANTS BUTTON_STABLE_CYCLES, QUIET_CYCLES, Latency, Capacity

VARIABLES
  button_sync, debounce, quiet, halt_cpu, debug_selected,
  console,             \* how many characters it has to send
  flight               \* how many edges ago a store was accepted that has not
                       \* reached the console, or NoStore
owner == <<button_sync, debounce, quiet, halt_cpu, debug_selected>>
vars == <<owner, console, flight>>

NoStore == Latency
console_idle == console = 0

Init == /\ button_sync = FALSE /\ debounce = 0 /\ quiet = 0
        /\ halt_cpu = FALSE /\ debug_selected = FALSE
        /\ console = 0 /\ flight = NoStore

(* The first two conditions are those of the quiet window, the third one   *)
(* that it is over.                                                        *)
SelectDrained == halt_cpu /\ console_idle
Select == halt_cpu /\ console_idle /\ quiet = QUIET_CYCLES

Owner ==
  /\ button_sync' \in BOOLEAN
  /\ debounce' = IF ~button_sync THEN 0
                 ELSE IF debounce # BUTTON_STABLE_CYCLES THEN debounce + 1 ELSE debounce
  /\ halt_cpu' = (halt_cpu \/ debounce = BUTTON_STABLE_CYCLES)
  /\ quiet' = IF ~halt_cpu \/ ~console_idle THEN 0
              ELSE IF quiet # QUIET_CYCLES THEN quiet + 1 ELSE quiet
  /\ debug_selected' = (debug_selected \/ Select)

(* A core that is halted asks for no more stores (rv32_slice.sv:265, 281). *)
Store == ~halt_cpu /\ flight = NoStore /\ flight' = 0
Travel == IF flight = NoStore THEN flight' = NoStore
          ELSE flight < Latency - 1 /\ flight' = flight + 1
Land == flight # NoStore /\ flight' = NoStore

(* A character that finds the console full is dropped by it, a store may   *)
(* go to another register, and a character ends when it does.              *)
Console ==
  \/ /\ Store \/ Travel
     /\ \/ UNCHANGED console
        \/ console > 0 /\ console' = console - 1
  \/ /\ Land
     /\ \/ UNCHANGED console
        \/ console < Capacity /\ console' = console + 1
        \/ console > 0 /\ console' = console - 1

Edge == Owner /\ Console

Reset == /\ button_sync' = FALSE /\ debounce' = 0 /\ quiet' = 0
         /\ halt_cpu' = FALSE /\ debug_selected' = FALSE
         /\ console' = 0 /\ flight' = NoStore

Next == Edge \/ Reset

Spec == Init /\ [][Next]_vars

-----------------------------------------------------------------------------
(* When the trace gets the pin, the console has sent every character that  *)
(* the core ever gave it, and none will come: no byte is cut or lost in the*)
(* handover (checkpoint10_uart_owner.sv:2-5, 31-33).                       *)
HandOver == debug_selected => console_idle /\ flight = NoStore
=============================================================================
