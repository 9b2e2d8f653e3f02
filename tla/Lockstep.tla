------------------------------- MODULE Lockstep -------------------------------
(***************************************************************************)
(* scripts/lockstep.py: a controller steps a simulated core (the DUT) one  *)
(* clock at a time over pipes and Spike one instruction at a time over a   *)
(* pseudo-terminal, and compares every retirement.  Both programs may be   *)
(* slow, wrong, silent or dead at any moment; the controller's answer to   *)
(* that is timeouts, a watchdog and a cleanup that kills.                  *)
(*                                                                         *)
(* phase is where the controller stands: each value is a place where run() *)
(* or its callees block or look at the other side.                         *)
(***************************************************************************)
EXTENDS LockstepCompare

CONSTANTS
  Arguments,    \* sets of command-line arguments
  AlignLimit,   \* instructions align_spike steps over at most
  BootLengths,  \* how many Spike may execute before the ELF entry
  Queries,      \* registers and CSRs read out after a divergence
  MustAnswer,   \* of these, the registers, which must be answered
  Events,       \* Events[n]: what the DUT may report as its n-th retirement
  Answers       \* Answers[n]: what Spike may print for its n-th step

ASSUME LockstepAssumption ==
  /\ AlignLimit \in Nat \ {0} /\ BootLengths \subseteq Nat
  /\ Queries \in Nat /\ MustAnswer \in 0 .. Queries
  /\ \A a \in Arguments : /\ a.limit \in Nat \ {0} /\ a.watchdog \in Nat \ {0}
                          /\ a.until_trap \in BOOLEAN /\ a.require_done \in BOOLEAN
                          /\ a.until_trap => a.require_done

(* A retirement the DUT reports has every field, and Spike's lines are what*)
(* the regular expressions pick out of them; the places they name exist.   *)
ASSUME PrintedAssumption ==
  /\ Bytes \subseteq Nat /\ Registers \subseteq Nat /\ NoInsn \notin Insn
  /\ \A n \in DOMAIN Events : \A e \in Events[n] : IsEvent(e)
  /\ \A n \in DOMAIN Answers : \A a \in Answers[n] : IsAnswer(a)

VARIABLES
  args,         \* the command line
  phase, verdict,
  skipped, retired, traps, stalls, asked_regs,
  event, answer,    \* the retirement being compared and Spike's lines for it
  (* the DUT: its process, unread commands, printed and pumped lines       *)
  dut, dut_code, inbox, stdout, lines, dut_retires,
  (* Spike: its process, the command it works on, its terminal             *)
  spike, asked, pty, says, spike_steps, boot

control == <<args, phase, verdict, skipped, retired, traps, stalls, asked_regs, event, answer>>
dutVars == <<dut, dut_code, inbox, stdout, lines, dut_retires>>
spikeVars == <<spike, asked, pty, says, spike_steps, boot>>
vars == <<control, dutVars, spikeVars>>

EOF == [kind |-> "eof"]
NoEvent == [kind |-> "none"]
Plain(kind) == [kind |-> kind]

Init ==
  /\ args \in Arguments /\ boot \in BootLengths
  /\ phase = "open" /\ verdict = "none"
  /\ skipped = 0 /\ retired = 0 /\ traps = 0 /\ stalls = 0 /\ asked_regs = 0
  /\ event = NoEvent /\ answer = NoEvent
  /\ dut = "absent" /\ dut_code = 0 /\ inbox = {} /\ stdout = <<>> /\ lines = <<>>
  /\ dut_retires = 0
  /\ spike = "absent" /\ asked = "nothing" /\ pty = "empty" /\ says = Plain("nothing")
  /\ spike_steps = 0

-----------------------------------------------------------------------------
(* The DUT reads one command at a time, "step" before the "quit" sent      *)
(* after it, and prints one line per step.                                 *)
Prints(line) == stdout' = Append(stdout, line)
DutStep ==
  /\ dut = "up" /\ "step" \in inbox
  /\ inbox' = inbox \ {"step"}
  /\ \/ /\ \E kind \in {"cycle", "done", "garbage"} : Prints(Plain(kind))
        /\ UNCHANGED dut_retires
     \/ /\ dut_retires \in DOMAIN Events
        /\ \E e \in Events[dut_retires] : Prints(e)
        /\ dut_retires' = dut_retires + 1
  /\ UNCHANGED <<control, spikeVars, dut, dut_code, lines>>

(* It ends on "quit", flushing what it measured, or dies at any moment;    *)
(* its output then ends too.                                               *)
DutEnds ==
  /\ dut = "up" /\ dut' = "gone"
  /\ dut_code' \in IF "quit" \in inbox /\ "step" \notin inbox THEN {0, 1} ELSE {1}
  /\ Prints(EOF)
  /\ UNCHANGED <<control, spikeVars, inbox, lines, dut_retires>>

(* The reader thread of LineStream.                                        *)
Pump ==
  /\ stdout # <<>>
  /\ lines' = Append(lines, Head(stdout)) /\ stdout' = Tail(stdout)
  /\ UNCHANGED <<control, spikeVars, dut, dut_code, inbox, dut_retires>>

(* Spike prints its answer in one piece or in several; only the last ends  *)
(* with the prompt.                                                        *)
SpikeText ==
  /\ spike = "up" /\ asked # "nothing" /\ pty = "empty"
  /\ pty' = "text"
  /\ UNCHANGED <<control, dutVars, spike, asked, says, spike_steps, boot>>

SpikeAnswers ==
  /\ spike = "up" /\ asked # "nothing"
  /\ pty' = "prompt" /\ asked' = "nothing"
  /\ CASE asked = "run" ->
            /\ spike_steps' = spike_steps + 1
            /\ says' \in IF spike_steps - boot \in DOMAIN Answers
                         THEN Answers[spike_steps - boot] ELSE {Plain("boot rom")}
       [] asked = "pc" ->
            /\ says' \in {Plain(IF spike_steps = boot THEN "entry" ELSE "elsewhere"), Plain("no number")}
            /\ UNCHANGED spike_steps
       [] OTHER -> says' \in {Plain("number"), Plain("no number")} /\ UNCHANGED spike_steps
  /\ UNCHANGED <<control, dutVars, spike, boot>>

SpikeEnds ==
  /\ spike = "up" /\ spike' = "gone"
  /\ UNCHANGED <<control, dutVars, asked, pty, says, spike_steps, boot>>

-----------------------------------------------------------------------------
(* Pieces of the controller's steps.                                       *)
Fail == phase' = "quit" /\ verdict' = "error"
Goto(p) == phase' = p /\ UNCHANGED verdict

(* SpikePTY.command and write_command: a process already gone is an error. *)
Ask(command, p) ==
  IF spike = "up"
  THEN asked' = command /\ Goto(p) /\ UNCHANGED <<spike, pty, says, spike_steps, boot>>
  ELSE Fail /\ UNCHANGED spikeVars
Send(command, p) ==
  IF dut = "up"
  THEN inbox' = inbox \cup {command} /\ Goto(p)
  ELSE Fail /\ UNCHANGED inbox

AtPrompt == pty = "prompt"
TakesPrompt == pty' = "empty"
counters == <<args, skipped, retired, traps, stalls, asked_regs, event, answer>>

StartSpike ==
  /\ phase = "open"
  /\ \/ /\ spike' = "up" /\ asked' = "prompt" /\ Goto("prompt")
     \/ /\ phase' = "exited" /\ verdict' = "error" /\ UNCHANGED <<spike, asked>>
  /\ UNCHANGED <<counters, dutVars, pty, says, spike_steps, boot>>

(* Popen of the DUT is outside the try: when it fails nothing is cleaned.  *)
StartDut ==
  /\ phase = "prompt" /\ AtPrompt /\ TakesPrompt
  /\ \/ dut' = "up" /\ Goto("align")
     \/ phase' = "exited" /\ verdict' = "error" /\ UNCHANGED dut
  /\ UNCHANGED <<counters, dut_code, inbox, stdout, lines, dut_retires,
                 spike, asked, says, spike_steps, boot>>

AlignQuery ==
  /\ phase = "align"
  /\ IF skipped < AlignLimit THEN Ask("pc", "align pc") ELSE Fail /\ UNCHANGED spikeVars
  /\ UNCHANGED <<counters, dutVars>>

AlignPc ==
  /\ phase = "align pc" /\ AtPrompt /\ TakesPrompt
  /\ CASE says.kind = "entry" -> Goto("step") /\ UNCHANGED asked
       [] says.kind = "elsewhere" /\ spike = "up" -> asked' = "run" /\ Goto("align run")
       [] OTHER -> Fail /\ UNCHANGED asked
  /\ UNCHANGED <<counters, dutVars, spike, says, spike_steps, boot>>

AlignRun ==
  /\ phase = "align run" /\ AtPrompt /\ TakesPrompt
  /\ skipped' = skipped + 1 /\ Goto("align")
  /\ UNCHANGED <<args, retired, traps, stalls, asked_regs, event, answer, dutVars,
                 spike, asked, says, spike_steps, boot>>

(* A deadline passes, or the other side has closed: every wait ends.       *)
SpikeWaits == {"align pc", "align run", "answer", "report answer"}
SpikeSilent ==
  /\ \/ phase = "prompt" /\ phase' = "close" /\ verdict' = "error"
     \/ phase \in SpikeWaits /\ Fail
  /\ UNCHANGED <<counters, dutVars, spikeVars>>

ReadText ==
  /\ phase \in SpikeWaits \cup {"prompt"} /\ pty = "text"
  /\ pty' = "empty"
  /\ UNCHANGED <<control, dutVars, spike, asked, says, spike_steps, boot>>

DutSilent ==
  /\ phase \in {"event", "final event"} /\ lines = <<>>
  /\ Fail
  /\ UNCHANGED <<counters, dutVars, spikeVars>>

-----------------------------------------------------------------------------
(* The loop of run(): one DUT clock, and for a retirement one Spike step.  *)
StepDut ==
  /\ phase = "step"
  /\ IF retired < args.limit THEN Send("step", "event") ELSE Goto("final") /\ UNCHANGED inbox
  /\ UNCHANGED <<counters, spikeVars, dut, dut_code, stdout, lines, dut_retires>>

TakeLine == lines # <<>> /\ lines' = Tail(lines)
Idle ==
  /\ phase = "event" /\ TakeLine /\ Head(lines).kind = "cycle"
  /\ stalls' = stalls + 1
  /\ IF stalls' > args.watchdog THEN Fail ELSE Goto("step")
  /\ UNCHANGED <<args, skipped, retired, traps, asked_regs, event, answer, spikeVars,
                 dut, dut_code, inbox, stdout, dut_retires>>

Acceptable(line) == line.kind = "retire" /\ line.order = retired
BadEvent ==
  /\ phase = "event" /\ TakeLine
  /\ Head(lines).kind # "cycle" /\ ~Acceptable(Head(lines))
  /\ Fail
  /\ UNCHANGED <<counters, spikeVars, dut, dut_code, inbox, stdout, dut_retires>>

Retire ==
  /\ phase = "event" /\ TakeLine /\ Acceptable(Head(lines))
  /\ stalls' = 0
  /\ event' = IF args.inject.at = retired THEN Injected(Head(lines), args.inject.what)
                                          ELSE Head(lines)
  /\ Ask("run", "answer")
  /\ UNCHANGED <<args, skipped, retired, traps, asked_regs, answer, dut, dut_code,
                 inbox, stdout, dut_retires>>

Reference == parse_spike_step(says)
Garbled == says.kind # "lines" \/ ~Parses(says)
CompareRetries ==     \* mutant: an answer that cannot be parsed is asked for again
  /\ phase = "answer" /\ AtPrompt /\ TakesPrompt
  /\ IF Garbled /\ spike = "up"
     THEN /\ asked' = "run"
          /\ UNCHANGED <<phase, verdict, retired, traps, answer>>
     ELSE /\ answer' = says
          /\ IF differences(event, Reference) # {}
             THEN Goto("report") /\ UNCHANGED <<retired, traps>>
             ELSE /\ retired' = retired + 1
                  /\ traps' = IF event.trap THEN traps + 1 ELSE traps
                  /\ Goto(IF args.until_trap /\ event.trap THEN "final" ELSE "step")
          /\ UNCHANGED asked
  /\ UNCHANGED <<args, skipped, stalls, asked_regs, event, dutVars,
                 spike, says, spike_steps, boot>>

Compare ==
  /\ phase = "answer" /\ AtPrompt /\ TakesPrompt
  /\ answer' = says
  /\ IF Garbled THEN Fail /\ UNCHANGED <<retired, traps>>
     ELSE IF differences(event, Reference) # {}
     THEN Goto("report") /\ UNCHANGED <<retired, traps>>
     ELSE /\ retired' = retired + 1
          /\ traps' = IF event.trap THEN traps + 1 ELSE traps
          /\ Goto(IF args.until_trap /\ event.trap THEN "final" ELSE "step")
  /\ UNCHANGED <<args, skipped, stalls, asked_regs, event, dutVars,
                 spike, asked, says, spike_steps, boot>>

(* On a difference the registers are read out before run() returns 1.      *)
Report ==
  /\ phase = "report"
  /\ IF asked_regs < Queries THEN Ask("reg", "report answer")
     ELSE phase' = "quit" /\ verdict' = "diverged" /\ UNCHANGED spikeVars
  /\ UNCHANGED <<counters, dutVars>>

Reported ==
  /\ phase = "report answer" /\ AtPrompt /\ TakesPrompt
  /\ asked_regs' = asked_regs + 1
  /\ IF says.kind = "no number" /\ asked_regs < MustAnswer THEN Fail ELSE Goto("report")
  /\ UNCHANGED <<args, skipped, retired, traps, stalls, event, answer, dutVars,
                 spike, asked, says, spike_steps, boot>>

Pass == phase' = "quit" /\ verdict' = "pass"
Final ==
  /\ phase = "final"
  /\ IF args.until_trap /\ traps # 1 THEN Fail /\ UNCHANGED inbox
     ELSE IF args.require_done THEN Send("step", "final event")
     ELSE Pass /\ UNCHANGED inbox
  /\ UNCHANGED <<counters, spikeVars, dut, dut_code, stdout, lines, dut_retires>>

FinalEvent ==
  /\ phase = "final event" /\ TakeLine
  /\ IF Head(lines).kind = "done" THEN Pass ELSE Fail
  /\ UNCHANGED <<counters, spikeVars, dut, dut_code, inbox, stdout, dut_retires>>

-----------------------------------------------------------------------------
(* The finally block: ask the DUT to quit, wait, kill; then close Spike.   *)
Quit ==
  /\ phase = "quit" /\ Goto("wait")
  /\ inbox' = IF dut = "up" THEN inbox \cup {"quit"} ELSE inbox
  /\ UNCHANGED <<counters, spikeVars, dut, dut_code, stdout, lines, dut_retires>>

KillDutTerminates ==  \* mutant: a hung DUT is asked, not killed
  /\ phase = "wait" /\ dut = "up" /\ UNCHANGED vars

KillDut ==
  /\ phase = "wait" /\ dut = "up" /\ Goto("reap")
  /\ UNCHANGED <<counters, dutVars, spikeVars>>

DutKilled ==
  /\ phase = "reap" /\ dut = "up"
  /\ dut' = "gone" /\ dut_code' = 9 /\ Prints(EOF)
  /\ UNCHANGED <<control, spikeVars, inbox, lines, dut_retires>>

DutReapedQuietly ==   \* mutant: the DUT's own exit status is not looked at
  /\ phase \in {"wait", "reap"} /\ dut = "gone" /\ Goto("close")
  /\ UNCHANGED <<counters, dutVars, spikeVars>>

DutReaped ==
  /\ phase \in {"wait", "reap"} /\ dut = "gone"
  /\ phase' = "close"
  /\ verdict' = IF verdict = "pass" /\ dut_code # 0 THEN "error" ELSE verdict
  /\ UNCHANGED <<counters, dutVars, spikeVars>>

CloseSpike ==
  /\ phase = "close" /\ Goto(IF spike = "up" THEN "closing" ELSE "exited")
  /\ UNCHANGED <<counters, dutVars, spikeVars>>

KillSpike ==
  /\ phase = "closing" /\ spike = "up" /\ Goto("close reap")
  /\ UNCHANGED <<counters, dutVars, spikeVars>>

SpikeKilled ==
  /\ phase = "close reap" /\ spike = "up" /\ spike' = "gone"
  /\ UNCHANGED <<control, dutVars, asked, pty, says, spike_steps, boot>>

SpikeReaped ==
  /\ phase \in {"closing", "close reap"} /\ spike = "gone" /\ Goto("exited")
  /\ UNCHANGED <<counters, dutVars, spikeVars>>

exit_code == CASE verdict = "pass" -> 0 [] verdict = "diverged" -> 1 [] OTHER -> 2

-----------------------------------------------------------------------------
Startup == StartSpike \/ StartDut \/ AlignQuery \/ AlignPc \/ AlignRun
Waiting == SpikeSilent \/ ReadText \/ DutSilent
Loop == StepDut \/ Idle \/ BadEvent \/ Retire \/ Compare \/ Report \/ Reported
        \/ Final \/ FinalEvent
Cleanup == Quit \/ KillDut \/ DutReaped \/ CloseSpike \/ KillSpike \/ SpikeReaped
Controller == Startup \/ Waiting \/ Loop \/ Cleanup
System == DutKilled \/ SpikeKilled

Terminated == phase = "exited" /\ UNCHANGED vars

Next == Controller \/ System \/ Pump \/ DutStep \/ DutEnds
        \/ SpikeText \/ SpikeAnswers \/ SpikeEnds \/ Terminated

Spec == Init /\ [][Next]_vars

(* Time passes for the controller and the system delivers a kill; nothing  *)
(* is assumed of the DUT or of Spike.                                      *)
Fairness ==
  /\ WF_vars(SpikeSilent) /\ WF_vars(DutSilent) /\ WF_vars(Controller)
  /\ WF_vars(Pump) /\ WF_vars(DutKilled) /\ WF_vars(SpikeKilled)
FairSpec == Spec /\ Fairness

-----------------------------------------------------------------------------
Phases == {"open", "prompt", "align", "align pc", "align run", "step", "event",
           "answer", "report", "report answer", "final", "final event", "quit",
           "wait", "reap", "close", "closing", "close reap", "exited"}

(* Every control variable has its type.                                    *)
ControlOK ==
  /\ args \in Arguments /\ phase \in Phases
  /\ verdict \in {"none", "pass", "diverged", "error"}
  /\ skipped \in Nat /\ retired \in Nat /\ traps \in Nat /\ stalls \in Nat
  /\ asked_regs \in Nat
DutOK ==
  /\ dut \in {"absent", "up", "gone"} /\ dut_code \in {0, 1, 9}
  /\ inbox \subseteq {"step", "quit"} /\ dut_retires \in Nat
SpikeOK ==
  /\ spike \in {"absent", "up", "gone"} /\ spike_steps \in Nat /\ boot \in Nat
  /\ asked \in {"nothing", "prompt", "pc", "run", "reg"}
  /\ pty \in {"empty", "text", "prompt"}
TypeOK == ControlOK /\ DutOK /\ SpikeOK

(* The comparison is in lockstep: Spike never executes past what the DUT   *)
(* has retired, and the DUT is never let past a retirement that has not    *)
(* been compared.                                                          *)
Aligning == phase = "align run" \/ (verdict = "error" /\ dut_retires = 0)
NoRunAhead ==
  /\ dut_retires <= retired + 1
  /\ spike_steps <= skipped + dut_retires + (IF Aligning THEN 1 ELSE 0)

(* A retirement is counted only when it is the architectural step Spike    *)
(* took, byte for byte and register for register.                          *)
OnlyAgreementCounts ==
  [][retired' # retired =>
       /\ event.order = retired /\ Len(says.commits) + Len(says.traps) = 1
       /\ Agrees(event, says)]_vars

(* Exit status 0 means that as many events were compared as were asked for,*)
(* that Spike stands right after the last of them and that the DUT ended   *)
(* by itself without an error; 1 means that the last event really differs. *)
(* No process is left behind, except Spike when the DUT cannot be started. *)
ExitMeans ==
  phase = "exited" =>
    /\ exit_code = 0 =>
         /\ IF args.until_trap THEN traps = 1 ELSE retired = args.limit
         /\ spike_steps = skipped + retired /\ dut_retires = retired
         /\ dut_code = 0
    /\ exit_code = 1 => ~Agrees(event, answer)
    /\ dut # "up" /\ (dut # "absent" => spike = "gone")

(* Whatever the two programs do, the controller ends.                      *)
Terminates == <>(phase = "exited")
=============================================================================
