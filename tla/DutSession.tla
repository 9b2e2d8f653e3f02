----------------------------- MODULE DutSession -----------------------------
(***************************************************************************)
(* run() of scripts/verify_cached_core.py and of                           *)
(* scripts/check_cpu_coverage.py: a simulated core stepped over a pipe     *)
(* until its program is over, asked to quit, and waited for.               *)
(***************************************************************************)
EXTENDS Integers

CONSTANTS Limit     \* steps at most (30000 and 1000 in the code)

VARIABLES
  script,       \* "verify" or "coverage"
  phase, outcome, steps,
  events, last_trap,    \* retirements seen; whether the last one is a trap
  dut, dut_code, request, reply

vars == <<script, phase, outcome, steps, events, last_trap, dut, dut_code, request, reply>>

Init ==
  /\ script \in {"verify", "coverage"} /\ phase = "step" /\ outcome = "none" /\ steps = 0
  /\ events = 0 /\ last_trap = FALSE
  /\ dut = "up" /\ dut_code = 0 /\ request = "none" /\ reply = "none"

-----------------------------------------------------------------------------
(* The DUT answers a step, or hangs, or dies; when asked to quit it ends,  *)
(* with an error when a check of its own fails.                            *)
DutAnswers ==
  /\ dut = "up" /\ request = "step" /\ request' = "none"
  /\ reply' \in {"cycle", "retire", "trap", "done"}
  /\ UNCHANGED <<script, phase, outcome, steps, events, last_trap, dut, dut_code>>
DutQuits ==
  /\ dut = "up" /\ request = "quit" /\ dut' = "gone" /\ dut_code' \in {0, 1}
  /\ UNCHANGED <<script, phase, outcome, steps, events, last_trap, request, reply>>
DutDies ==
  /\ dut = "up" /\ dut' = "gone" /\ dut_code' = 1
  /\ reply' = IF reply = "none" THEN "eof" ELSE reply
  /\ UNCHANGED <<script, phase, outcome, steps, events, last_trap, request>>

-----------------------------------------------------------------------------
(* Leaving run() with an exception: verify_cached_core.py goes through its *)
(* finally; check_cpu_coverage.py leaves the with block, which closes the  *)
(* pipes and waits.                                                        *)
Raise == phase' = "cleanup" /\ outcome' = "raised"
Goto(p) == phase' = p /\ UNCHANGED outcome
Send(what, p) ==
  IF dut = "up" THEN request' = what /\ Goto(p) ELSE Raise /\ UNCHANGED request

Killed == dut' = "gone" /\ dut_code' = IF dut = "up" THEN 9 ELSE dut_code
Over(answer) == IF script = "verify" THEN answer = "done" ELSE answer = "trap"

Step ==
  /\ phase = "step"
  /\ IF steps < Limit
     THEN Send("step", "read") /\ steps' = steps + 1 /\ UNCHANGED <<dut, dut_code>>
     ELSE Raise /\ UNCHANGED <<request, steps>> /\ IF script = "coverage" THEN Killed
                                                    ELSE UNCHANGED <<dut, dut_code>>
  /\ UNCHANGED <<script, events, last_trap, reply>>

ReadReply ==
  /\ phase = "read" /\ reply # "none" /\ reply' = "none"
  /\ IF reply = "eof" THEN Raise /\ UNCHANGED <<events, last_trap>>
     ELSE /\ events' = IF reply \in {"retire", "trap"} THEN events + 1 ELSE events
          /\ last_trap' = IF reply \in {"retire", "trap"} THEN reply = "trap" ELSE last_trap
          /\ Goto(IF Over(reply) THEN "quit" ELSE "step")
  /\ UNCHANGED <<script, steps, dut, dut_code, request>>

Quit ==
  /\ phase = "quit" /\ Send("quit", "wait")
  /\ UNCHANGED <<script, steps, events, last_trap, dut, dut_code, reply>>

Accepts == dut_code = 0 /\ (script = "verify" => events > 0 /\ last_trap)
Waited ==
  /\ phase = "wait" /\ dut = "gone"
  /\ phase' = "cleanup" /\ outcome' = IF Accepts THEN "returned" ELSE "raised"
  /\ UNCHANGED <<script, steps, events, last_trap, dut, dut_code, request, reply>>
WaitUntimed ==       \* mutant: communicate without a timeout
  phase = "wait" /\ dut = "up" /\ UNCHANGED vars
WaitTimesOut ==
  /\ phase = "wait" /\ dut = "up" /\ Raise
  /\ UNCHANGED <<script, steps, events, last_trap, dut, dut_code, request, reply>>

CleanupUnkilled ==      \* mutant: no finally
  /\ phase = "cleanup" /\ Goto("exited")
  /\ UNCHANGED <<script, steps, events, last_trap, dut, dut_code, request, reply>>
Cleanup ==
  /\ phase = "cleanup" /\ Goto("exited")
  /\ IF script = "verify" THEN Killed ELSE dut = "gone" /\ UNCHANGED <<dut, dut_code>>
  /\ UNCHANGED <<script, steps, events, last_trap, request, reply>>

(* With the pipe closed the DUT reads the end of its input, and ends.      *)
DutReadsEnd ==
  /\ dut = "up" /\ phase = "cleanup" /\ request # "quit" /\ dut' = "gone" /\ dut_code' = 0
  /\ UNCHANGED <<script, phase, outcome, steps, events, last_trap, request, reply>>

Stopped == phase = "exited" /\ UNCHANGED vars
Controller == Step \/ ReadReply \/ Quit \/ Waited \/ WaitTimesOut \/ Cleanup
Next == Controller \/ DutAnswers \/ DutQuits \/ DutDies \/ DutReadsEnd \/ Stopped
Spec == Init /\ [][Next]_vars

(* The readline of both scripts has no timeout: the DUT is trusted to      *)
(* answer a step.  It is not trusted to end when it is asked to.           *)
FairSpec == Spec /\ WF_vars(Controller) /\ WF_vars(DutAnswers)

-----------------------------------------------------------------------------
(* A run that returns saw its program end (for the directed tests, in a    *)
(* trap) and a DUT that left by itself without an error; and a run that is *)
(* over, however it went, leaves no process behind.                        *)
SessionMeans ==
  phase = "exited" =>
    /\ dut = "gone"
    /\ outcome = "returned" => /\ dut_code = 0 /\ request = "quit" /\ steps <= Limit
                               /\ events > 0 /\ last_trap

(* The directed tests end even when the DUT does not quit when it is asked.*)
SessionEnds == script = "verify" => <>(phase = "exited")
=============================================================================
