--------------------------------- MODULE Clint ---------------------------------
(***************************************************************************)
(* The timer of rtl/peripherals/clint.sv: 64-bit registers written in      *)
(* halves while the time goes on, behind a port with one response          *)
(* outstanding.  A half has the values 0 .. Half - 1.  Beside the timer is *)
(* software that sets a deadline by the three writes that the architecture *)
(* contract asks for, and may do anything else on the port in between.     *)
(***************************************************************************)
EXTENDS Naturals

CONSTANTS Half,             \* at least 2
          CYCLES_PER_TICK   \* at least 1

Halves == 0 .. Half - 1
Times == 0 .. Half * Half - 1
Low(t) == t % Half
High(t) == t \div Half
WithLow(t, half) == High(t) * Half + half
WithHigh(t, half) == half * Half + Low(t)
Sentinel == Half - 1                   \* 0xFFFF_FFFF

VARIABLES
  tick_count, mtime, mtimecmp, msip,
  response,                            \* response_pending, bus_rsp_error
  deadline, step, target               \* software: the deadline set, the writes
                                       \* made of a new one, and the new one
software == <<deadline, step, target>>
vars == <<tick_count, mtime, mtimecmp, msip, response, software>>

Init == /\ tick_count = 0 /\ mtime = 0 /\ mtimecmp = Half * Half - 1
        /\ msip = FALSE /\ response = "none"
        /\ deadline = Half * Half - 1 /\ step = 0 /\ target = 0

tick == tick_count = CYCLES_PER_TICK - 1
Ticked == (mtime + (IF tick THEN 1 ELSE 0)) % (Half * Half)
mtip_irq == mtime >= mtimecmp

(* Every edge divides the clock; the time that it leaves is `next_mtime`.  *)
Clocked(next_mtime) == /\ tick_count' = IF tick THEN 0 ELSE tick_count + 1
                       /\ mtime' = next_mtime
Accept(resp) == response = "none" /\ response' = resp

NoRequest == Clocked(Ticked) /\ UNCHANGED <<mtimecmp, msip, response, software>>
TakeResponse == /\ response # "none" /\ response' = "none"
                /\ Clocked(Ticked) /\ UNCHANGED <<mtimecmp, msip, software>>
BadRequest == /\ Accept("error")
              /\ Clocked(Ticked) /\ UNCHANGED <<mtimecmp, msip, software>>
ReadRegister == /\ Accept("data")
                /\ Clocked(Ticked) /\ UNCHANGED <<mtimecmp, msip, software>>
WriteMsip == /\ Accept("data") /\ msip' \in BOOLEAN
             /\ Clocked(Ticked) /\ UNCHANGED <<mtimecmp, software>>

(* A half of the time replaces what the tick made of it; a carry into the  *)
(* other half stays.                                                       *)
WriteTime == /\ Accept("data")
             /\ \E half \in Halves : \/ Clocked(WithLow(Ticked, half))
                                     \/ Clocked(WithHigh(Ticked, half))
             /\ UNCHANGED <<mtimecmp, msip, software>>

WriteCmpLo(half) == /\ Accept("data") /\ mtimecmp' = WithLow(mtimecmp, half)
                    /\ Clocked(Ticked) /\ UNCHANGED msip
WriteCmpHiShifted(half) == /\ Accept("data") /\ mtimecmp' = half * Half
                           /\ Clocked(Ticked) /\ UNCHANGED msip
WriteCmpHi(half) == /\ Accept("data") /\ mtimecmp' = WithHigh(mtimecmp, half)
                    /\ Clocked(Ticked) /\ UNCHANGED msip

(* The three writes of a new deadline, in the contract's order.            *)
Postpone == /\ step = 0 /\ step' = 1 /\ target' \in Times
            /\ WriteCmpHi(Sentinel) /\ UNCHANGED deadline
SetLow == /\ step = 1 /\ step' = 2
          /\ WriteCmpLo(Low(target)) /\ UNCHANGED <<deadline, target>>
SetHigh == /\ step = 2 /\ step' = 0 /\ deadline' = target
           /\ WriteCmpHi(High(target)) /\ UNCHANGED target

ResetZero == /\ tick_count' = 0 /\ mtime' = 0 /\ mtimecmp' = 0
             /\ msip' = FALSE /\ response' = "none"
             /\ deadline' = Half * Half - 1 /\ step' = 0 /\ target' = 0
Reset == /\ tick_count' = 0 /\ mtime' = 0 /\ mtimecmp' = Half * Half - 1
         /\ msip' = FALSE /\ response' = "none"
         /\ deadline' = Half * Half - 1 /\ step' = 0 /\ target' = 0

Edge == \/ NoRequest \/ TakeResponse \/ BadRequest \/ ReadRegister \/ WriteMsip
        \/ WriteTime \/ Postpone \/ SetLow \/ SetHigh
Next == Edge \/ Reset

Spec == Init /\ [][Next]_vars

-----------------------------------------------------------------------------
(* No write in the middle of setting a deadline raises the interrupt before*)
(* the old or the new deadline has come, wherever the time stands and      *)
(* however it is set meanwhile; outside it the interrupt is exactly that   *)
(* the deadline has come (clint.sv:43, 58-65, 86-93; the order of writes is*)
(* docs/architecture-contract.md:33).                                      *)
TimerExact ==
  /\ step = 0 => mtip_irq = (mtime >= deadline)
  /\ step = 1 => (mtip_irq => mtime >= deadline)
  /\ step = 2 => (mtip_irq => mtime >= target)
=============================================================================
