---------------------------- MODULE LockstepProofs ----------------------------
(***************************************************************************)
(* Neither program of a lockstep comparison runs ahead, only a step on     *)
(* which both agree is counted, and the exit status says what happened     *)
(* (Lockstep.tla), for every argument list, every boot ROM and whatever    *)
(* well-formed text the two programs print.                                *)
(*                                                                         *)
(* Run-ahead: at most one line of the DUT is under way, and only while     *)
(* the controller waits for it, so dut_retires exceeds retired exactly     *)
(* while the line under way, or the event being compared, is a retirement  *)
(* (DutInv).  A step of Spike is asked for in two places, each of which    *)
(* counts it afterwards; counting the step that Spike has been asked for   *)
(* and not yet taken, it is never past what is counted (SpikeInv).         *)
(*                                                                         *)
(* Agreement: differences finds nothing exactly if event and answer agree  *)
(* byte by byte and register by register (SameStep); nothing in it speaks  *)
(* of the controller.                                                      *)
(*                                                                         *)
(* Verdict: what was judged, and which of the two programs was reaped, is  *)
(* known from the phase the controller is in (VerdictInv).                 *)
(***************************************************************************)
EXTENDS Lockstep, FiniteSetTheorems, TLAPS

Line == {EOF} \cup {Plain(k) : k \in {"cycle", "done", "garbage"}}
        \cup UNION {Events[n] : n \in DOMAIN Events}
Pipes == stdout \in Seq(Line) /\ lines \in Seq(Line)

Early == {"open", "prompt", "align", "align pc", "align run"}
Empty == stdout = <<>> /\ lines = <<>>
First == IF lines # <<>> THEN Head(lines) ELSE Head(stdout)
One(b) == IF b THEN 1 ELSE 0
Idling == Empty /\ "step" \notin inbox

(* Between steps nothing is under way; an event being compared is the one  *)
(* retirement not yet counted; a step not yet read has retired nothing.    *)
Bounded == dut_retires \in {retired, retired + 1}
Unread == dut = "up" /\ "step" \in inbox => dut_retires = retired
Calm == Early \cup {"step", "final"}
Absent == dut = "absent" => Empty /\ "step" \notin inbox
Settled == phase \in Calm => dut_retires = retired /\ (dut # "gone" => Idling)
Unstarted == phase \in {"open", "prompt"} => dut = "absent"
Compared == phase = "answer" => dut_retires = retired + 1 /\ (dut = "up" => Idling)
(* While the controller waits for a line, either the step is unread and no *)
(* line is under way, or one is, which is a retirement or is not.          *)
Waits == phase \in {"event", "final event"}
Awaited ==
  Waits =>
    /\ dut = "up" /\ "step" \in inbox => Empty
    /\ dut = "up" /\ "step" \notin inbox => Len(lines) + Len(stdout) = 1
    /\ ~Empty => dut_retires = retired + One(First.kind = "retire")
DutInv == Bounded /\ Unread /\ Unstarted /\ Absent /\ Settled /\ Compared /\ Awaited

(* The steps Spike has taken or is asked to take.                          *)
Reached == spike_steps + One(asked = "run")
Unaligned == phase \in Early => retired = 0 /\ "step" \notin inbox
(* A run that failed before the DUT was ever stepped.                      *)
NeverStepped == verdict = "error" /\ dut_retires = 0 /\ "step" \notin inbox
Behind ==
  \/ Reached <= skipped + dut_retires
  \/ Reached <= skipped + 1 /\ (phase = "align run" \/ NeverStepped)
Level == (Early \ {"align run"}) \cup {"step", "event", "final", "final event"}
Caught == phase \in Level => Reached <= skipped + retired
Differing == phase \in {"report", "report answer"} => dut_retires > 0
SpikeInv == Unaligned /\ Behind /\ Caught /\ Differing

-----------------------------------------------------------------------------
LEMMA TypeInit == Init => TypeOK
  BY LockstepAssumption DEF Init, TypeOK, ControlOK, DutOK, SpikeOK, Phases

LEMMA ControlOKStep == TypeOK /\ Next => ControlOK'
<1> SUFFICES ASSUME ControlOK, DutOK, SpikeOK, Next PROVE ControlOK'
  BY DEF TypeOK
<1>1. CASE StartSpike
  BY <1>1 DEF StartSpike, Goto, counters, dutVars, ControlOK, Phases
<1>2. CASE StartDut
  BY <1>2 DEF StartDut, Goto, counters, AtPrompt, TakesPrompt, ControlOK, Phases
<1>3. CASE AlignQuery
  BY <1>3 DEF AlignQuery, Ask, Goto, Fail, counters, dutVars, spikeVars,
       ControlOK, Phases
<1>4. CASE AlignPc
  BY <1>4 DEF AlignPc, AtPrompt, TakesPrompt, Goto, Fail, counters, dutVars,
       ControlOK, Phases
<1>5. CASE AlignRun
  <2>1. skipped' = skipped + 1 /\ phase' = "align"
    BY <1>5 DEF AlignRun, Goto
  <2>2. skipped' \in Nat
    BY <2>1 DEF ControlOK
  <2>3. phase' \in Phases
    BY <2>1 DEF Phases
  <2> QED
    BY <2>2, <2>3, <1>5 DEF AlignRun, Goto, ControlOK
<1>6. CASE SpikeSilent
  BY <1>6 DEF SpikeSilent, SpikeWaits, Fail, counters, dutVars, spikeVars,
       ControlOK, Phases
<1>7. CASE ReadText
  BY <1>7 DEF ReadText, SpikeWaits, control, dutVars, ControlOK, Phases
<1>8. CASE DutSilent
  BY <1>8 DEF DutSilent, Fail, counters, dutVars, spikeVars, ControlOK, Phases
<1>9. CASE StepDut
  BY <1>9 DEF StepDut, Send, Goto, Fail, counters, spikeVars, ControlOK, Phases
<1>10. CASE Idle
  <2>1. stalls' \in Nat
    BY <1>10 DEF Idle, ControlOK
  <2>2. phase' \in Phases /\ verdict' \in {verdict, "error"}
    BY <1>10 DEF Idle, Goto, Fail, Phases
  <2> QED
    BY <2>1, <2>2, <1>10 DEF Idle, ControlOK
<1>11. CASE BadEvent
  BY <1>11 DEF BadEvent, TakeLine, Fail, counters, spikeVars, ControlOK, Phases
<1>12. CASE Retire
  BY <1>12 DEF Retire, TakeLine, Acceptable, Ask, Goto, Fail, spikeVars,
       ControlOK, Phases
<1>13. CASE Compare
  <2>1. retired' \in Nat /\ traps' \in Nat
    BY <1>13 DEF Compare, ControlOK
  <2>2. phase' \in Phases /\ verdict' \in {verdict, "error"}
    BY <1>13 DEF Compare, Goto, Fail, Phases
  <2> QED
    BY <2>1, <2>2, <1>13 DEF Compare, ControlOK
<1>14. CASE Report
  BY <1>14 DEF Report, Ask, Goto, Fail, counters, dutVars, spikeVars, ControlOK,
       Phases
<1>15. CASE Reported
  <2>1. asked_regs' = asked_regs + 1
    BY <1>15 DEF Reported
  <2>2. phase' \in Phases /\ verdict' \in {verdict, "error"}
    BY <1>15 DEF Reported, Goto, Fail, Phases
  <2>3. asked_regs' \in Nat
    BY <2>1 DEF ControlOK
  <2> QED
    BY <2>2, <2>3, <1>15 DEF Reported, ControlOK
<1>16. CASE Final
  BY <1>16 DEF Final, Send, Goto, Fail, Pass, counters, spikeVars, ControlOK,
       Phases
<1>17. CASE FinalEvent
  BY <1>17 DEF FinalEvent, TakeLine, Pass, Fail, counters, spikeVars, ControlOK,
       Phases
<1>18. CASE Quit
  BY <1>18 DEF Quit, Goto, counters, spikeVars, ControlOK, Phases
<1>19. CASE KillDut
  BY <1>19 DEF KillDut, Goto, counters, dutVars, spikeVars, ControlOK, Phases
<1>20. CASE DutReaped
  BY <1>20 DEF DutReaped, counters, dutVars, spikeVars, ControlOK, Phases
<1>21. CASE CloseSpike
  BY <1>21 DEF CloseSpike, Goto, counters, dutVars, spikeVars, ControlOK, Phases
<1>22. CASE KillSpike
  BY <1>22 DEF KillSpike, Goto, counters, dutVars, spikeVars, ControlOK, Phases
<1>23. CASE SpikeReaped
  BY <1>23 DEF SpikeReaped, Goto, counters, dutVars, spikeVars, ControlOK, Phases
<1>24. CASE DutKilled
  BY <1>24 DEF DutKilled, Prints, control, spikeVars, ControlOK, Phases
<1>25. CASE SpikeKilled
  BY <1>25 DEF SpikeKilled, control, dutVars, ControlOK, Phases
<1>26. CASE Pump
  BY <1>26 DEF Pump, control, spikeVars, ControlOK
<1>27. CASE DutStep
  BY <1>27 DEF DutStep, Prints, control, spikeVars, ControlOK, Phases
<1>28. CASE DutEnds
  BY <1>28 DEF DutEnds, Prints, control, spikeVars, ControlOK, Phases
<1>29. CASE SpikeText
  BY <1>29 DEF SpikeText, control, dutVars, ControlOK, Phases
<1>30. CASE SpikeAnswers
  BY <1>30 DEF SpikeAnswers, control, dutVars, ControlOK, Phases
<1>31. CASE SpikeEnds
  BY <1>31 DEF SpikeEnds, control, dutVars, ControlOK, Phases
<1>32. CASE Terminated
  BY <1>32 DEF Terminated, vars, control, dutVars, spikeVars, ControlOK, Phases
<1> QED
  BY <1>1, <1>2, <1>3, <1>4, <1>5, <1>6, <1>7, <1>8, <1>9, <1>10, <1>11, <1>12,
     <1>13, <1>14, <1>15, <1>16, <1>17, <1>18, <1>19, <1>20, <1>21, <1>22,
     <1>23, <1>24, <1>25, <1>26, <1>27, <1>28, <1>29, <1>30, <1>31, <1>32 DEF
     Next, Controller, System, Startup, Waiting, Loop, Cleanup

LEMMA DutOKStep == TypeOK /\ Next => DutOK'
<1> SUFFICES ASSUME ControlOK, DutOK, SpikeOK, Next PROVE DutOK'
  BY DEF TypeOK
<1>1. CASE StartSpike
  BY <1>1 DEF StartSpike, Goto, counters, dutVars, DutOK
<1>2. CASE StartDut
  BY <1>2 DEF StartDut, Goto, counters, AtPrompt, TakesPrompt, DutOK
<1>3. CASE AlignQuery
  BY <1>3 DEF AlignQuery, Ask, Goto, Fail, counters, dutVars, spikeVars, DutOK
<1>4. CASE AlignPc
  BY <1>4 DEF AlignPc, AtPrompt, TakesPrompt, Goto, Fail, counters, dutVars,
       DutOK
<1>5. CASE AlignRun
  BY <1>5 DEF AlignRun, AtPrompt, TakesPrompt, Goto, dutVars, DutOK
<1>6. CASE SpikeSilent
  BY <1>6 DEF SpikeSilent, SpikeWaits, Fail, counters, dutVars, spikeVars, DutOK
<1>7. CASE ReadText
  BY <1>7 DEF ReadText, SpikeWaits, control, dutVars, DutOK
<1>8. CASE DutSilent
  BY <1>8 DEF DutSilent, Fail, counters, dutVars, spikeVars, DutOK
<1>9. CASE StepDut
  BY <1>9 DEF StepDut, Send, Goto, Fail, counters, spikeVars, DutOK
<1>10. CASE Idle
  BY <1>10 DEF Idle, TakeLine, Goto, Fail, spikeVars, DutOK
<1>11. CASE BadEvent
  BY <1>11 DEF BadEvent, TakeLine, Fail, counters, spikeVars, DutOK
<1>12. CASE Retire
  BY <1>12 DEF Retire, TakeLine, Acceptable, Ask, Goto, Fail, spikeVars, DutOK
<1>13. CASE Compare
  BY <1>13 DEF Compare, AtPrompt, TakesPrompt, Goto, Fail, dutVars, DutOK
<1>14. CASE Report
  BY <1>14 DEF Report, Ask, Goto, Fail, counters, dutVars, spikeVars, DutOK
<1>15. CASE Reported
  BY <1>15 DEF Reported, AtPrompt, TakesPrompt, Goto, Fail, dutVars, DutOK
<1>16. CASE Final
  BY <1>16 DEF Final, Send, Goto, Fail, Pass, counters, spikeVars, DutOK
<1>17. CASE FinalEvent
  BY <1>17 DEF FinalEvent, TakeLine, Pass, Fail, counters, spikeVars, DutOK
<1>18. CASE Quit
  BY <1>18 DEF Quit, Goto, counters, spikeVars, DutOK
<1>19. CASE KillDut
  BY <1>19 DEF KillDut, Goto, counters, dutVars, spikeVars, DutOK
<1>20. CASE DutReaped
  BY <1>20 DEF DutReaped, counters, dutVars, spikeVars, DutOK
<1>21. CASE CloseSpike
  BY <1>21 DEF CloseSpike, Goto, counters, dutVars, spikeVars, DutOK
<1>22. CASE KillSpike
  BY <1>22 DEF KillSpike, Goto, counters, dutVars, spikeVars, DutOK
<1>23. CASE SpikeReaped
  BY <1>23 DEF SpikeReaped, Goto, counters, dutVars, spikeVars, DutOK
<1>24. CASE DutKilled
  BY <1>24 DEF DutKilled, Prints, control, spikeVars, DutOK
<1>25. CASE SpikeKilled
  BY <1>25 DEF SpikeKilled, control, dutVars, DutOK
<1>26. CASE Pump
  BY <1>26 DEF Pump, control, spikeVars, DutOK
<1>27. CASE DutStep
  BY <1>27 DEF DutStep, Prints, control, spikeVars, DutOK
<1>28. CASE DutEnds
  BY <1>28 DEF DutEnds, Prints, control, spikeVars, DutOK
<1>29. CASE SpikeText
  BY <1>29 DEF SpikeText, control, dutVars, DutOK
<1>30. CASE SpikeAnswers
  BY <1>30 DEF SpikeAnswers, control, dutVars, DutOK
<1>31. CASE SpikeEnds
  BY <1>31 DEF SpikeEnds, control, dutVars, DutOK
<1>32. CASE Terminated
  BY <1>32 DEF Terminated, vars, control, dutVars, spikeVars, DutOK
<1> QED
  BY <1>1, <1>2, <1>3, <1>4, <1>5, <1>6, <1>7, <1>8, <1>9, <1>10, <1>11, <1>12,
     <1>13, <1>14, <1>15, <1>16, <1>17, <1>18, <1>19, <1>20, <1>21, <1>22,
     <1>23, <1>24, <1>25, <1>26, <1>27, <1>28, <1>29, <1>30, <1>31, <1>32 DEF
     Next, Controller, System, Startup, Waiting, Loop, Cleanup

LEMMA SpikeOKStep == TypeOK /\ Next => SpikeOK'
<1> SUFFICES ASSUME ControlOK, DutOK, SpikeOK, Next PROVE SpikeOK'
  BY DEF TypeOK
<1>1. CASE StartSpike
  BY <1>1 DEF StartSpike, Goto, counters, dutVars, SpikeOK
<1>2. CASE StartDut
  BY <1>2 DEF StartDut, Goto, counters, AtPrompt, TakesPrompt, SpikeOK
<1>3. CASE AlignQuery
  BY <1>3 DEF AlignQuery, Ask, Goto, Fail, counters, dutVars, spikeVars, SpikeOK
<1>4. CASE AlignPc
  BY <1>4 DEF AlignPc, AtPrompt, TakesPrompt, Goto, Fail, counters, dutVars,
       SpikeOK
<1>5. CASE AlignRun
  BY <1>5 DEF AlignRun, AtPrompt, TakesPrompt, Goto, dutVars, SpikeOK
<1>6. CASE SpikeSilent
  BY <1>6 DEF SpikeSilent, SpikeWaits, Fail, counters, dutVars, spikeVars,
       SpikeOK
<1>7. CASE ReadText
  BY <1>7 DEF ReadText, SpikeWaits, control, dutVars, SpikeOK
<1>8. CASE DutSilent
  BY <1>8 DEF DutSilent, Fail, counters, dutVars, spikeVars, SpikeOK
<1>9. CASE StepDut
  BY <1>9 DEF StepDut, Send, Goto, Fail, counters, spikeVars, SpikeOK
<1>10. CASE Idle
  BY <1>10 DEF Idle, TakeLine, Goto, Fail, spikeVars, SpikeOK
<1>11. CASE BadEvent
  BY <1>11 DEF BadEvent, TakeLine, Fail, counters, spikeVars, SpikeOK
<1>12. CASE Retire
  BY <1>12 DEF Retire, TakeLine, Acceptable, Ask, Goto, Fail, spikeVars, SpikeOK
<1>13. CASE Compare
  BY <1>13 DEF Compare, AtPrompt, TakesPrompt, Goto, Fail, dutVars, SpikeOK
<1>14. CASE Report
  BY <1>14 DEF Report, Ask, Goto, Fail, counters, dutVars, spikeVars, SpikeOK
<1>15. CASE Reported
  BY <1>15 DEF Reported, AtPrompt, TakesPrompt, Goto, Fail, dutVars, SpikeOK
<1>16. CASE Final
  BY <1>16 DEF Final, Send, Goto, Fail, Pass, counters, spikeVars, SpikeOK
<1>17. CASE FinalEvent
  BY <1>17 DEF FinalEvent, TakeLine, Pass, Fail, counters, spikeVars, SpikeOK
<1>18. CASE Quit
  BY <1>18 DEF Quit, Goto, counters, spikeVars, SpikeOK
<1>19. CASE KillDut
  BY <1>19 DEF KillDut, Goto, counters, dutVars, spikeVars, SpikeOK
<1>20. CASE DutReaped
  BY <1>20 DEF DutReaped, counters, dutVars, spikeVars, SpikeOK
<1>21. CASE CloseSpike
  BY <1>21 DEF CloseSpike, Goto, counters, dutVars, spikeVars, SpikeOK
<1>22. CASE KillSpike
  BY <1>22 DEF KillSpike, Goto, counters, dutVars, spikeVars, SpikeOK
<1>23. CASE SpikeReaped
  BY <1>23 DEF SpikeReaped, Goto, counters, dutVars, spikeVars, SpikeOK
<1>24. CASE DutKilled
  BY <1>24 DEF DutKilled, Prints, control, spikeVars, SpikeOK
<1>25. CASE SpikeKilled
  BY <1>25 DEF SpikeKilled, control, dutVars, SpikeOK
<1>26. CASE Pump
  BY <1>26 DEF Pump, control, spikeVars, SpikeOK
<1>27. CASE DutStep
  BY <1>27 DEF DutStep, Prints, control, spikeVars, SpikeOK
<1>28. CASE DutEnds
  BY <1>28 DEF DutEnds, Prints, control, spikeVars, SpikeOK
<1>29. CASE SpikeText
  BY <1>29 DEF SpikeText, control, dutVars, SpikeOK
<1>30. CASE SpikeAnswers
  <2>1. spike_steps' \in {spike_steps, spike_steps + 1}
    <3>1. CASE asked = "run"
      BY <1>30, <3>1 DEF SpikeAnswers
    <3>2. CASE asked = "pc"
      BY <1>30, <3>2 DEF SpikeAnswers
    <3>3. CASE asked \notin {"run", "pc"}
      BY <1>30, <3>3 DEF SpikeAnswers
    <3> QED
      BY <3>1, <3>2, <3>3
  <2>2. spike_steps' \in Nat
    BY <2>1 DEF SpikeOK
  <2> QED
    BY <2>2, <1>30 DEF SpikeAnswers, SpikeOK
<1>31. CASE SpikeEnds
  BY <1>31 DEF SpikeEnds, control, dutVars, SpikeOK
<1>32. CASE Terminated
  BY <1>32 DEF Terminated, vars, control, dutVars, spikeVars, SpikeOK
<1> QED
  BY <1>1, <1>2, <1>3, <1>4, <1>5, <1>6, <1>7, <1>8, <1>9, <1>10, <1>11, <1>12,
     <1>13, <1>14, <1>15, <1>16, <1>17, <1>18, <1>19, <1>20, <1>21, <1>22,
     <1>23, <1>24, <1>25, <1>26, <1>27, <1>28, <1>29, <1>30, <1>31, <1>32 DEF
     Next, Controller, System, Startup, Waiting, Loop, Cleanup

LEMMA TypeStep == TypeOK /\ [Next]_vars => TypeOK'
<1> SUFFICES ASSUME TypeOK, [Next]_vars PROVE TypeOK'
  OBVIOUS
<1>1. CASE Next
  BY <1>1, ControlOKStep, DutOKStep, SpikeOKStep DEF TypeOK
<1>2. CASE UNCHANGED vars
  BY <1>2 DEF TypeOK, ControlOK, DutOK, SpikeOK, vars, control, dutVars, spikeVars
<1> QED
  BY <1>1, <1>2

(* The registers of the controller and of both programs keep their types   *)
(* (lockstep.py:279-382), whatever the DUT and Spike print.                *)
THEOREM TypeCorrect == Spec => []TypeOK
  BY TypeInit, TypeStep, PTL DEF Spec
-----------------------------------------------------------------------------
(* The pipes hold lines the DUT may print.                                 *)
LEMMA PipesStep == Pipes /\ Next => Pipes'
<1> SUFFICES ASSUME Pipes, Next PROVE Pipes'
  OBVIOUS
<1> USE DEF Pipes
<1>1. EOF \in Line /\ \A k \in {"cycle", "done", "garbage"} : Plain(k) \in Line
  BY DEF Line
<1>2. \A n \in DOMAIN Events : \A e \in Events[n] : e \in Line
  BY DEF Line
<1>3. CASE Pump
  BY <1>3 DEF Pump
<1>4. CASE DutStep
  <2>1. PICK l \in Line : Prints(l)
    BY <1>1, <1>2, <1>4 DEF DutStep
  <2> QED
    BY <2>1, <1>4 DEF DutStep, Prints
<1>5. CASE DutEnds \/ DutKilled
  BY <1>1, <1>5 DEF DutEnds, DutKilled, Prints
<1>6. CASE Idle \/ BadEvent \/ Retire \/ FinalEvent
  <2>1. lines # <<>> /\ lines' = Tail(lines) /\ stdout' = stdout
    BY <1>6 DEF Idle, BadEvent, Retire, FinalEvent, TakeLine
  <2> QED
    BY <2>1
<1>7. CASE StartSpike \/ StartDut \/ AlignQuery \/ AlignPc \/ AlignRun \/
     SpikeSilent \/ ReadText \/ DutSilent
  BY <1>7 DEF StartSpike, StartDut, AlignQuery, AlignPc, AlignRun, SpikeSilent,
       ReadText, DutSilent, control, dutVars, spikeVars
<1>8. CASE StepDut \/ Compare \/ Report \/ Reported \/ Final \/ Quit \/ KillDut
     \/ DutReaped
  BY <1>8 DEF StepDut, Compare, Report, Reported, Final, Quit, KillDut,
       DutReaped, dutVars, spikeVars
<1>9. CASE CloseSpike \/ KillSpike \/ SpikeReaped \/ SpikeKilled \/ SpikeText
     \/ SpikeAnswers \/ SpikeEnds \/ Terminated
  BY <1>9 DEF CloseSpike, KillSpike, SpikeReaped, SpikeKilled, SpikeText,
       SpikeAnswers, SpikeEnds, Terminated, control, dutVars, spikeVars, vars
<1> QED
  BY <1>3, <1>4, <1>5, <1>6, <1>7, <1>8, <1>9 DEF Next, Controller, System,
       Startup, Waiting, Loop, Cleanup

LEMMA DutStepInv == TypeOK /\ Pipes /\ DutInv /\ Next => DutInv'
<1> SUFFICES ASSUME ControlOK, DutOK, Pipes, DutInv, Next PROVE DutInv'
  BY DEF TypeOK
<1>1. CASE StartSpike
  BY <1>1 DEF StartSpike, DutInv, Bounded, Unread, Unstarted, Settled, Compared,
       Awaited, Calm, Early, Waits, Absent, Idling, Empty, First, Goto, counters,
       dutVars
<1>2. CASE StartDut
  BY <1>2 DEF StartDut, DutInv, Bounded, Unread, Unstarted, Settled, Compared,
       Awaited, Calm, Early, Waits, Absent, Idling, Empty, First, AtPrompt, Goto,
       TakesPrompt, counters
<1>3. CASE AlignQuery
  BY <1>3 DEF AlignQuery, DutInv, Bounded, Unread, Unstarted, Settled, Compared,
       Awaited, Calm, Early, Waits, Absent, Idling, Empty, First, Ask, Fail,
       Goto, counters, dutVars, spikeVars
<1>4. CASE AlignPc
  BY <1>4 DEF AlignPc, DutInv, Bounded, Unread, Unstarted, Settled, Compared,
       Awaited, Calm, Early, Waits, Absent, Idling, Empty, First, AtPrompt, Fail,
       Goto, TakesPrompt, counters, dutVars
<1>5. CASE AlignRun
  BY <1>5 DEF AlignRun, DutInv, Bounded, Unread, Unstarted, Settled, Compared,
       Awaited, Calm, Early, Waits, Absent, Idling, Empty, First, AtPrompt, Goto,
       TakesPrompt, dutVars
<1>6. CASE SpikeSilent
  BY <1>6 DEF SpikeSilent, DutInv, Bounded, Unread, Unstarted, Settled, Compared,
       Awaited, Calm, Early, Waits, Absent, Idling, Empty, First, Fail,
       SpikeWaits, counters, dutVars, spikeVars
<1>7. CASE ReadText
  BY <1>7 DEF ReadText, DutInv, Bounded, Unread, Unstarted, Settled, Compared,
       Awaited, Calm, Early, Waits, Absent, Idling, Empty, First, SpikeWaits,
       control, dutVars
<1>8. CASE DutSilent
  BY <1>8 DEF DutSilent, DutInv, Bounded, Unread, Unstarted, Settled, Compared,
       Awaited, Calm, Early, Waits, Absent, Idling, Empty, First, Fail, counters,
       dutVars, spikeVars
<1>9. CASE StepDut
  BY <1>9 DEF StepDut, DutInv, Bounded, Unread, Unstarted, Settled, Compared,
       Awaited, Calm, Early, Waits, Absent, Idling, Empty, First, Fail, Goto,
       Send, counters, spikeVars
<1>10. CASE Idle
  <2>1. lines # <<>> /\ lines' = Tail(lines) /\ First = Head(lines) /\ ~Empty
    BY <1>10 DEF Idle, TakeLine, First, Empty
  <2>2. First.kind = "cycle" /\ dut_retires = retired
    BY <1>10, <2>1 DEF Idle, ControlOK, DutInv, Awaited, Waits, One
  <2>3. dut = "up" => Idling'
    <3>1. dut = "up" => "step" \notin inbox /\ Len(lines) + Len(stdout) = 1
      BY <1>10, <2>1 DEF Idle, DutInv, Awaited, Waits
    <3>2. dut = "up" => lines' = <<>> /\ stdout = <<>>
      BY <2>1, <3>1 DEF Pipes
    <3> QED
      BY <1>10, <3>1, <3>2 DEF Idle, Idling, Empty
  <2>4. dut # "absent"
    BY <1>10, <2>1 DEF Idle, DutInv, Absent
  <2>5. phase' \in {"step", "quit"}
    BY <1>10 DEF Idle, Goto, Fail
  <2> QED
    BY <1>10, <2>2, <2>3, <2>4, <2>5
    DEF Idle, DutOK, DutInv, Bounded, Unread, Unstarted, Settled, Compared, Awaited, Waits, Absent
<1>11. CASE BadEvent
  BY <1>11 DEF BadEvent, DutInv, Bounded, Unread, Unstarted, Settled, Compared,
       Awaited, Calm, Early, Waits, Absent, Idling, Empty, First, Fail, TakeLine,
       counters, spikeVars
<1>12. CASE Retire
  <2>1. lines # <<>> /\ lines' = Tail(lines) /\ First = Head(lines) /\ ~Empty
    BY <1>12 DEF Retire, TakeLine, First, Empty
  <2>2. First.kind = "retire" /\ dut_retires = retired + 1
    BY <1>12, <2>1 DEF Retire, Acceptable, DutInv, Awaited, Waits, One
  <2>3. dut = "up" => Idling'
    <3>1. dut = "up" => "step" \notin inbox /\ Len(lines) + Len(stdout) = 1
      BY <1>12, <2>1 DEF Retire, DutInv, Awaited, Waits
    <3>2. dut = "up" => lines' = <<>> /\ stdout = <<>>
      BY <2>1, <3>1 DEF Pipes
    <3> QED
      BY <1>12, <3>1, <3>2 DEF Retire, Idling, Empty
  <2>4. phase' \in {"answer", "quit"}
    BY <1>12 DEF Retire, Ask, Goto, Fail
  <2>5. dut # "absent"
    BY <1>12, <2>1 DEF Retire, DutInv, Absent
  <2> QED
    BY <1>12, <2>2, <2>3, <2>4, <2>5
    DEF Retire, DutInv, Bounded, Unread, Unstarted, Settled, Compared, Awaited, Calm, Early, Waits, Absent
<1>13. CASE Compare
  <2>1. dut_retires = retired + 1 /\ (dut # "gone" => Idling)
    BY <1>13 DEF Compare, DutInv, Compared, Absent, Idling, DutOK
  <2>2. \/ phase' \in {"step", "final"} /\ retired' = retired + 1
        \/ phase' \in {"report", "quit"} /\ retired' = retired
    BY <1>13 DEF Compare, Goto, Fail
  <2>3. Idling' = Idling
    BY <1>13 DEF Compare, dutVars, Idling, Empty
  <2> QED
    BY <1>13, <2>1, <2>2, <2>3 DEF Compare, dutVars, ControlOK, DutInv, Bounded, Unread,
       Unstarted, Settled, Compared, Awaited, Waits, Absent, Calm, Early, Idling
<1>14. CASE Report
  BY <1>14 DEF Report, DutInv, Bounded, Unread, Unstarted, Settled, Compared,
       Awaited, Calm, Early, Waits, Absent, Idling, Empty, First, Ask, Fail,
       Goto, counters, dutVars, spikeVars
<1>15. CASE Reported
  BY <1>15 DEF Reported, DutInv, Bounded, Unread, Unstarted, Settled, Compared,
       Awaited, Calm, Early, Waits, Absent, Idling, Empty, First, AtPrompt, Fail,
       Goto, TakesPrompt, dutVars
<1>16. CASE Final
  BY <1>16 DEF Final, DutInv, Bounded, Unread, Unstarted, Settled, Compared,
       Awaited, Calm, Early, Waits, Absent, Idling, Empty, First, Fail, Goto,
       Pass, Send, counters, spikeVars
<1>17. CASE FinalEvent
  BY <1>17 DEF FinalEvent, DutInv, Bounded, Unread, Unstarted, Settled, Compared,
       Awaited, Calm, Early, Waits, Absent, Idling, Empty, First, Fail, Pass,
       TakeLine, counters, spikeVars
<1>18. CASE Quit
  BY <1>18 DEF Quit, DutInv, Bounded, Unread, Unstarted, Settled, Compared,
       Awaited, Calm, Early, Waits, Absent, Idling, Empty, First, Goto, counters,
       spikeVars
<1>19. CASE KillDut
  BY <1>19 DEF KillDut, DutInv, Bounded, Unread, Unstarted, Settled, Compared,
       Awaited, Calm, Early, Waits, Absent, Idling, Empty, First, Goto, counters,
       dutVars, spikeVars
<1>20. CASE DutReaped
  BY <1>20 DEF DutReaped, DutInv, Bounded, Unread, Unstarted, Settled, Compared,
       Awaited, Calm, Early, Waits, Absent, Idling, Empty, First, counters,
       dutVars, spikeVars
<1>21. CASE CloseSpike
  BY <1>21 DEF CloseSpike, DutInv, Bounded, Unread, Unstarted, Settled, Compared,
       Awaited, Calm, Early, Waits, Absent, Idling, Empty, First, Goto, counters,
       dutVars, spikeVars
<1>22. CASE KillSpike
  BY <1>22 DEF KillSpike, DutInv, Bounded, Unread, Unstarted, Settled, Compared,
       Awaited, Calm, Early, Waits, Absent, Idling, Empty, First, Goto, counters,
       dutVars, spikeVars
<1>23. CASE SpikeReaped
  BY <1>23 DEF SpikeReaped, DutInv, Bounded, Unread, Unstarted, Settled,
       Compared, Awaited, Calm, Early, Waits, Absent, Idling, Empty, First, Goto,
       counters, dutVars, spikeVars
<1>24. CASE DutKilled
  BY <1>24 DEF DutKilled, DutInv, Bounded, Unread, Unstarted, Settled, Compared,
       Awaited, Calm, Early, Waits, Absent, Idling, Empty, First, Prints,
       control, spikeVars
<1>25. CASE SpikeKilled
  BY <1>25 DEF SpikeKilled, DutInv, Bounded, Unread, Unstarted, Settled,
       Compared, Awaited, Calm, Early, Waits, Absent, Idling, Empty, First,
       control, dutVars
<1>26. CASE Pump
  <2>1. /\ ~Empty /\ ~Empty'
        /\ First' = First
        /\ Len(lines') + Len(stdout') = Len(lines) + Len(stdout)
    BY <1>26 DEF Pump, Empty, First, Pipes
  <2> QED
    BY <1>26, <2>1 DEF Pump, control, DutInv, Bounded, Unread, Unstarted, Settled, Compared,
       Awaited, Waits, Idling, Absent
<1>27. CASE DutStep
  <2>1. dut = "up" /\ "step" \in inbox /\ dut_retires = retired
    BY <1>27 DEF DutStep, DutInv, Unread
  <2>2. phase \notin Calm \cup {"answer"}
    BY <2>1 DEF DutInv, Settled, Compared, Idling
  <2>3. PICK l \in Line : /\ stdout' = Append(stdout, l)
                         /\ dut_retires' = retired + One(l.kind = "retire")
    <3>1. ASSUME NEW n \in DOMAIN Events, NEW e \in Events[n]
          PROVE  e \in Line /\ e.kind = "retire"
      BY <3>1, PrintedAssumption DEF Line, IsEvent
    <3>2. ASSUME NEW k \in {"cycle", "done", "garbage"}
          PROVE  Plain(k) \in Line /\ Plain(k).kind # "retire"
      BY <3>2 DEF Line, Plain
    <3>3. CASE dut_retires' = dut_retires
      <4>1. PICK k \in {"cycle", "done", "garbage"} : Prints(Plain(k))
        BY <1>27, <3>3 DEF DutStep, DutOK
      <4> QED
        BY <2>1, <3>2, <3>3, <4>1 DEF Prints, One, ControlOK
    <3>4. CASE dut_retires' # dut_retires
      <4>1. PICK e \in Events[dut_retires] : Prints(e)
        BY <1>27, <3>4 DEF DutStep
      <4>2. dut_retires \in DOMAIN Events /\ dut_retires' = dut_retires + 1
        BY <1>27, <3>4 DEF DutStep
      <4> QED
        BY <2>1, <3>1, <4>1, <4>2 DEF Prints, One
    <3> QED
      BY <3>3, <3>4
  <2>4. Waits => /\ ~Empty' /\ First' = l
                 /\ Len(lines') + Len(stdout') = 1
    BY <1>27, <2>1, <2>3 DEF DutStep, DutInv, Awaited, Empty, First
  <2> QED
    BY <1>27, <2>1, <2>2, <2>3, <2>4 DEF DutStep, control, DutOK, DutInv, Bounded, Unread,
       Unstarted, Settled, Compared, Awaited, Waits, One, Absent, Calm, Early
<1>28. CASE DutEnds
  <2>1. dut = "up" /\ dut' = "gone" /\ stdout' = Append(stdout, EOF)
    BY <1>28 DEF DutEnds, Prints
  <2>2. EOF \in Line /\ EOF.kind # "retire"
    BY DEF Line, EOF
  <2>3. Waits => dut_retires = retired + One(First'.kind = "retire")
    <3>1. ASSUME Empty, Waits
          PROVE  dut_retires = retired /\ First' = EOF
      BY <1>28, <2>1, <2>2, <3>1 DEF DutEnds, DutInv, Unread, Awaited, Empty, First
    <3>2. ASSUME ~Empty, Waits
          PROVE  First' = First /\ dut_retires = retired + One(First.kind = "retire")
      BY <1>28, <2>1, <2>2, <3>2 DEF DutEnds, DutInv, Awaited, Empty, First, Pipes
    <3> QED
      BY <2>2, <3>1, <3>2 DEF One, DutOK, DutInv, Bounded
  <2> QED
    BY <1>28, <2>1, <2>3 DEF DutEnds, control, DutInv, Bounded, Unread, Unstarted, Settled,
       Compared, Awaited, Waits, Absent
<1>29. CASE SpikeText
  BY <1>29 DEF SpikeText, DutInv, Bounded, Unread, Unstarted, Settled, Compared,
       Awaited, Calm, Early, Waits, Absent, Idling, Empty, First, control,
       dutVars
<1>30. CASE SpikeAnswers
  BY <1>30 DEF SpikeAnswers, DutInv, Bounded, Unread, Unstarted, Settled,
       Compared, Awaited, Calm, Early, Waits, Absent, Idling, Empty, First,
       control, dutVars
<1>31. CASE SpikeEnds
  BY <1>31 DEF SpikeEnds, DutInv, Bounded, Unread, Unstarted, Settled, Compared,
       Awaited, Calm, Early, Waits, Absent, Idling, Empty, First, control,
       dutVars
<1>32. CASE Terminated
  BY <1>32 DEF Terminated, DutInv, Bounded, Unread, Unstarted, Settled, Compared,
       Awaited, Calm, Early, Waits, Absent, Idling, Empty, First, control,
       dutVars, spikeVars, vars
<1> QED
  BY <1>1, <1>2, <1>3, <1>4, <1>5, <1>6, <1>7, <1>8, <1>9, <1>10, <1>11, <1>12,
     <1>13, <1>14, <1>15, <1>16, <1>17, <1>18, <1>19, <1>20, <1>21, <1>22,
     <1>23, <1>24, <1>25, <1>26, <1>27, <1>28, <1>29, <1>30, <1>31, <1>32 DEF
     Next, Controller, System, Startup, Waiting, Loop, Cleanup

LEMMA SpikeStepInv == TypeOK /\ TypeOK' /\ DutInv /\ DutInv' /\ SpikeInv /\ Next => SpikeInv'
<1> SUFFICES ASSUME ControlOK, DutOK, SpikeOK, ControlOK', DutOK', SpikeOK',
                    Bounded, Settled, Compared, Compared', SpikeInv, Next
             PROVE  SpikeInv'
  BY DEF TypeOK, DutInv
<1>1. /\ retired \in Nat /\ skipped \in Nat /\ dut_retires \in Nat /\ Reached \in Nat
      /\ retired' \in Nat /\ skipped' \in Nat /\ dut_retires' \in Nat /\ Reached' \in Nat
  <2>1. Reached \in Nat
    BY DEF SpikeOK, Reached, One
  <2>2. Reached' \in Nat
    <3>1. One(asked' = "run") \in Nat
      BY DEF One
    <3> QED
      BY <3>1 DEF SpikeOK, Reached
  <2> QED
    BY <2>1, <2>2 DEF ControlOK, DutOK
<1>2. retired <= dut_retires
  BY <1>1 DEF Bounded
<1>3. spike_steps' = spike_steps /\ (asked' = asked \/ asked' # "run") => Reached' <= Reached
  BY DEF SpikeOK, Reached, One
<1>4. spike_steps' = spike_steps => Reached' <= Reached + 1
  BY DEF SpikeOK, Reached, One
<1>5. CASE StartSpike
  <2>1. Reached <= skipped + retired /\ retired = 0 /\ "step" \notin inbox
    BY <1>5 DEF StartSpike, SpikeInv, Unaligned, Caught, Level, Early
  <2>2. /\ skipped' = skipped /\ retired' = retired /\ dut_retires' = dut_retires
        /\ spike_steps' = spike_steps /\ (asked' = asked \/ asked' # "run")
    BY <1>5 DEF StartSpike, Goto, counters, dutVars
  <2>3. phase' \in {"prompt", "exited"} /\ inbox' = inbox
    BY <1>5 DEF StartSpike, Goto, counters, dutVars
  <2>4. Reached' <= skipped' + retired' /\ Reached' <= skipped' + dut_retires'
    BY <1>1, <1>2, <1>3, <2>1, <2>2
  <2> QED
    BY <2>1, <2>2, <2>3, <2>4 DEF SpikeInv, Unaligned, Behind, Caught, Differing, Level, Early
<1>6. CASE StartDut
  BY <1>6 DEF StartDut, SpikeInv, Unaligned, Differing, NeverStepped, Behind,
       Caught, Level, Early, Reached, AtPrompt, Goto, TakesPrompt, counters
<1>7. CASE AlignQuery
  <2>1. Reached <= skipped + retired /\ retired = 0 /\ "step" \notin inbox
    BY <1>7 DEF AlignQuery, SpikeInv, Unaligned, Caught, Level, Early
  <2>2. /\ skipped' = skipped /\ retired' = retired /\ dut_retires' = dut_retires
        /\ spike_steps' = spike_steps /\ (asked' = asked \/ asked' # "run")
    BY <1>7 DEF AlignQuery, Ask, Goto, Fail, counters, dutVars, spikeVars
  <2>3. phase' \in {"align pc", "quit"} /\ inbox' = inbox
    BY <1>7 DEF AlignQuery, Ask, Goto, Fail, counters, dutVars, spikeVars
  <2>4. Reached' <= skipped' + retired' /\ Reached' <= skipped' + dut_retires'
    BY <1>1, <1>2, <1>3, <2>1, <2>2
  <2> QED
    BY <2>1, <2>2, <2>3, <2>4 DEF SpikeInv, Unaligned, Behind, Caught, Differing, Level, Early
<1>8. CASE AlignPc
  <2>1. Reached <= skipped + retired /\ retired = 0 /\ "step" \notin inbox
    BY <1>8 DEF AlignPc, SpikeInv, Unaligned, Caught, Level, Early
  <2>2. /\ skipped' = skipped /\ retired' = retired /\ dut_retires' = dut_retires
        /\ spike_steps' = spike_steps /\ inbox' = inbox
    BY <1>8 DEF AlignPc, counters, dutVars
  <2>3. (phase' \in {"step", "quit"} /\ asked' = asked) \/ phase' = "align run"
    BY <1>8 DEF AlignPc, Goto, Fail
  <2>4. CASE phase' = "align run"
    <3>1. Reached' <= skipped' + 1
      BY <1>1, <1>4, <2>1, <2>2
    <3> QED
      BY <2>1, <2>2, <2>4, <3>1 DEF SpikeInv, Unaligned, Behind, Caught, Differing, Level, Early
  <2>5. CASE phase' \in {"step", "quit"} /\ asked' = asked
    <3>1. Reached' <= skipped' + retired' /\ Reached' <= skipped' + dut_retires'
      BY <1>1, <1>2, <1>3, <2>1, <2>2, <2>5
    <3> QED
      BY <2>5, <3>1 DEF SpikeInv, Unaligned, Behind, Caught, Differing, Level, Early
  <2> QED
    BY <2>3, <2>4, <2>5
<1>9. CASE AlignRun
  <2>1. retired = 0 /\ "step" \notin inbox /\ dut_retires = retired
    BY <1>9 DEF AlignRun, Settled, Calm, Early, SpikeInv, Unaligned
  <2>2. Reached <= skipped + 1
    <3>1. Reached <= skipped + dut_retires \/ Reached <= skipped + 1
      BY DEF SpikeInv, Behind
    <3> QED
      BY <1>1, <2>1, <3>1
  <2>3. /\ phase' = "align" /\ skipped' = skipped + 1 /\ retired' = retired
        /\ dut_retires' = dut_retires /\ inbox' = inbox
        /\ spike_steps' = spike_steps /\ asked' = asked
    BY <1>9 DEF AlignRun, Goto, dutVars
  <2>4. Reached' <= skipped' + retired' /\ Reached' <= skipped' + dut_retires'
    BY <1>1, <1>3, <2>1, <2>2, <2>3
  <2> QED
    BY <2>1, <2>3, <2>4 DEF SpikeInv, Unaligned, Behind, Caught, Differing, Level, Early
<1>10. CASE SpikeSilent
  <2>1. Reached' = Reached /\ phase' \in {"close", "quit"} /\ verdict' = "error"
    BY <1>10 DEF SpikeSilent, SpikeWaits, Fail, spikeVars, Reached
  <2>2. phase = "align run" => retired = 0 /\ "step" \notin inbox /\ dut_retires = retired
    BY DEF Settled, Calm, Early, SpikeInv, Unaligned
  <2>3. Behind'
    BY <1>10, <2>1, <2>2 DEF SpikeSilent, counters, dutVars, SpikeInv, Behind, NeverStepped
  <2> QED
    BY <2>1, <2>3 DEF SpikeInv, Unaligned, Caught, Differing, Level, Early
<1>11. CASE ReadText
  BY <1>11 DEF ReadText, SpikeInv, Unaligned, Differing, NeverStepped, Behind,
       Caught, Level, Early, Reached, SpikeWaits, control, dutVars
<1>12. CASE DutSilent
  BY <1>12 DEF DutSilent, SpikeInv, Unaligned, Differing, NeverStepped, Behind,
       Caught, Level, Early, Reached, Fail, counters, dutVars, spikeVars
<1>13. CASE StepDut
  <2>1. Reached <= skipped + retired
    BY <1>13 DEF StepDut, SpikeInv, Unaligned, Caught, Level, Early
  <2>2. /\ skipped' = skipped /\ retired' = retired /\ dut_retires' = dut_retires
        /\ spike_steps' = spike_steps /\ (asked' = asked \/ asked' # "run")
    BY <1>13 DEF StepDut, Send, Goto, Fail, counters, spikeVars
  <2>3. phase' \in {"event", "final", "quit"}
    BY <1>13 DEF StepDut, Send, Goto, Fail, counters, spikeVars
  <2>4. Reached' <= skipped' + retired' /\ Reached' <= skipped' + dut_retires'
    BY <1>1, <1>2, <1>3, <2>1, <2>2
  <2> QED
    BY <2>2, <2>3, <2>4 DEF SpikeInv, Unaligned, Behind, Caught, Differing, Level, Early
<1>14. CASE Idle
  BY <1>14 DEF Idle, SpikeInv, Unaligned, Differing, NeverStepped, Behind,
       Caught, Level, Early, Reached, Fail, Goto, TakeLine, spikeVars
<1>15. CASE BadEvent
  BY <1>15 DEF BadEvent, SpikeInv, Unaligned, Differing, NeverStepped, Behind,
       Caught, Level, Early, Reached, Fail, TakeLine, counters, spikeVars
<1>16. CASE Retire
  <2>1. Reached <= skipped + retired
    BY <1>16 DEF Retire, SpikeInv, Caught, Level
  <2>2. /\ skipped' = skipped /\ retired' = retired /\ dut_retires' = dut_retires
        /\ spike_steps' = spike_steps
    BY <1>16 DEF Retire, Ask, spikeVars
  <2>3. phase' = "answer" \/ (phase' = "quit" /\ asked' = asked)
    BY <1>16 DEF Retire, Ask, Goto, Fail, spikeVars
  <2>4. phase' = "answer" => dut_retires' = retired' + 1
    BY DEF Compared
  <2>5. Reached' <= skipped' + dut_retires'
    BY <1>1, <1>2, <1>3, <1>4, <2>1, <2>2, <2>3, <2>4
  <2> QED
    BY <2>3, <2>5 DEF SpikeInv, Unaligned, Behind, Caught, Differing, Level, Early
<1>17. CASE Compare
  <2>1. dut_retires = retired + 1
    BY <1>17 DEF Compare, Compared
  <2>2. Reached <= skipped + dut_retires
    BY <1>1, <1>17, <2>1 DEF Compare, SpikeInv, Behind, NeverStepped
  <2>3. /\ skipped' = skipped /\ dut_retires' = dut_retires
        /\ spike_steps' = spike_steps /\ asked' = asked
    BY <1>17 DEF Compare, dutVars
  <2>4. (phase' \in {"step", "final"} /\ retired' = retired + 1) \/ phase' \in {"report", "quit"}
    BY <1>17 DEF Compare, Goto, Fail
  <2>5. Reached' <= Reached
    BY <1>3, <2>3
  <2>6. /\ Reached' <= skipped' + dut_retires' /\ dut_retires' > 0
        /\ (retired' = retired + 1 => Reached' <= skipped' + retired')
    <3>1. skipped' = skipped /\ dut_retires' = retired + 1
      BY <2>1, <2>3
    <3>2. Reached' <= skipped + (retired + 1)
      BY <1>1, <2>1, <2>2, <2>5
    <3>3. retired + 1 > 0
      BY <1>1
    <3> QED
      BY <3>1, <3>2, <3>3
  <2> QED
    BY <2>4, <2>6 DEF SpikeInv, Unaligned, Behind, Caught, Differing, Level, Early
<1>18. CASE Report
  <2>1. Reached <= skipped + dut_retires /\ dut_retires > 0
    <3>1. dut_retires > 0
      BY <1>18 DEF Report, SpikeInv, Differing
    <3>2. dut_retires # 0
      BY <1>1, <3>1
    <3> QED
      BY <1>18, <3>1, <3>2 DEF Report, SpikeInv, Behind, NeverStepped
  <2>2. /\ skipped' = skipped /\ dut_retires' = dut_retires
        /\ spike_steps' = spike_steps /\ (asked' = asked \/ asked' # "run")
    BY <1>18 DEF Report, Ask, counters, dutVars, spikeVars
  <2>3. phase' \in {"report answer", "quit"}
    BY <1>18 DEF Report, Ask, Goto, Fail
  <2>4. Reached' <= skipped' + dut_retires' /\ dut_retires' > 0
    BY <1>1, <1>3, <2>1, <2>2
  <2> QED
    BY <2>3, <2>4 DEF SpikeInv, Unaligned, Behind, Caught, Differing, Level, Early
<1>19. CASE Reported
  BY <1>19 DEF Reported, SpikeInv, Unaligned, Differing, NeverStepped, Behind,
       Caught, Level, Early, Reached, AtPrompt, Fail, Goto, TakesPrompt, dutVars
<1>20. CASE Final
  <2>1. Reached <= skipped + retired
    BY <1>20 DEF Final, SpikeInv, Unaligned, Caught, Level, Early
  <2>2. /\ skipped' = skipped /\ retired' = retired /\ dut_retires' = dut_retires
        /\ spike_steps' = spike_steps /\ (asked' = asked \/ asked' # "run")
    BY <1>20 DEF Final, Send, Goto, Fail, Pass, counters, spikeVars
  <2>3. phase' \in {"final event", "quit"}
    BY <1>20 DEF Final, Send, Goto, Fail, Pass, counters, spikeVars
  <2>4. Reached' <= skipped' + retired' /\ Reached' <= skipped' + dut_retires'
    BY <1>1, <1>2, <1>3, <2>1, <2>2
  <2> QED
    BY <2>2, <2>3, <2>4 DEF SpikeInv, Unaligned, Behind, Caught, Differing, Level, Early
<1>21. CASE FinalEvent
  <2>1. Reached <= skipped + retired
    BY <1>21 DEF FinalEvent, SpikeInv, Unaligned, Caught, Level, Early
  <2>2. /\ skipped' = skipped /\ retired' = retired /\ dut_retires' = dut_retires
        /\ spike_steps' = spike_steps /\ (asked' = asked \/ asked' # "run")
    BY <1>21 DEF FinalEvent, TakeLine, Pass, Fail, counters, spikeVars
  <2>3. phase' \in {"quit"}
    BY <1>21 DEF FinalEvent, TakeLine, Pass, Fail, counters, spikeVars
  <2>4. Reached' <= skipped' + retired' /\ Reached' <= skipped' + dut_retires'
    BY <1>1, <1>2, <1>3, <2>1, <2>2
  <2> QED
    BY <2>2, <2>3, <2>4 DEF SpikeInv, Unaligned, Behind, Caught, Differing, Level, Early
<1>22. CASE Quit
  BY <1>22 DEF Quit, SpikeInv, Unaligned, Differing, NeverStepped, Behind,
       Caught, Level, Early, Reached, Goto, counters, spikeVars
<1>23. CASE KillDut
  BY <1>23 DEF KillDut, SpikeInv, Unaligned, Differing, NeverStepped, Behind,
       Caught, Level, Early, Reached, Goto, counters, dutVars, spikeVars
<1>24. CASE DutReaped
  BY <1>24 DEF DutReaped, SpikeInv, Unaligned, Differing, NeverStepped, Behind,
       Caught, Level, Early, Reached, counters, dutVars, spikeVars
<1>25. CASE CloseSpike
  BY <1>25 DEF CloseSpike, SpikeInv, Unaligned, Differing, NeverStepped, Behind,
       Caught, Level, Early, Reached, Goto, counters, dutVars, spikeVars
<1>26. CASE KillSpike
  BY <1>26 DEF KillSpike, SpikeInv, Unaligned, Differing, NeverStepped, Behind,
       Caught, Level, Early, Reached, Goto, counters, dutVars, spikeVars
<1>27. CASE SpikeReaped
  BY <1>27 DEF SpikeReaped, SpikeInv, Unaligned, Differing, NeverStepped, Behind,
       Caught, Level, Early, Reached, Goto, counters, dutVars, spikeVars
<1>28. CASE DutKilled
  BY <1>28 DEF DutKilled, SpikeInv, Unaligned, Differing, NeverStepped, Behind,
       Caught, Level, Early, Reached, Prints, control, spikeVars
<1>29. CASE SpikeKilled
  BY <1>29 DEF SpikeKilled, SpikeInv, Unaligned, Differing, NeverStepped, Behind,
       Caught, Level, Early, Reached, control, dutVars
<1>30. CASE Pump
  BY <1>30 DEF Pump, SpikeInv, Unaligned, Differing, NeverStepped, Behind,
       Caught, Level, Early, Reached, control, spikeVars
<1>31. CASE DutStep
  <2>1. "step" \in inbox /\ phase \notin Early
    BY <1>31 DEF DutStep, SpikeInv, Unaligned
  <2>2. dut_retires' \in {dut_retires, dut_retires + 1}
    BY <1>31 DEF DutStep
  <2>3. Reached <= skipped + dut_retires
    BY <2>1 DEF SpikeInv, Behind, NeverStepped, Early
  <2>4. /\ phase' = phase /\ skipped' = skipped /\ retired' = retired
        /\ spike_steps' = spike_steps /\ asked' = asked
    BY <1>31 DEF DutStep, control, spikeVars
  <2>5. Reached' = Reached
    BY <2>4 DEF Reached
  <2>6. Reached' <= skipped' + dut_retires' /\ (dut_retires > 0 => dut_retires' > 0)
    <3>1. CASE dut_retires' = dut_retires
      BY <2>3, <2>4, <2>5, <3>1
    <3>2. CASE dut_retires' = dut_retires + 1
      <4>1. Reached <= skipped + (dut_retires + 1) /\ dut_retires + 1 > 0
        BY <1>1, <2>3
      <4> QED
        BY <2>4, <2>5, <3>2, <4>1
    <3> QED
      BY <2>2, <3>1, <3>2
  <2> QED
    BY <2>1, <2>4, <2>5, <2>6 DEF SpikeInv, Unaligned, Behind, Caught, Differing
<1>32. CASE DutEnds
  BY <1>32 DEF DutEnds, SpikeInv, Unaligned, Differing, NeverStepped, Behind,
       Caught, Level, Early, Reached, Prints, control, spikeVars
<1>33. CASE SpikeText
  BY <1>33 DEF SpikeText, SpikeInv, Unaligned, Differing, NeverStepped, Behind,
       Caught, Level, Early, Reached, control, dutVars
<1>34. CASE SpikeAnswers
  <2>1. \/ asked = "run" /\ spike_steps' = spike_steps + 1
        \/ asked # "run" /\ spike_steps' = spike_steps
    <3>1. CASE asked = "run"
      BY <1>34, <3>1 DEF SpikeAnswers
    <3>2. CASE asked = "pc"
      BY <1>34, <3>2 DEF SpikeAnswers
    <3>3. CASE asked \notin {"run", "pc"}
      BY <1>34, <3>3 DEF SpikeAnswers
    <3> QED
      BY <3>1, <3>2, <3>3
  <2>2. asked' = "nothing"
    BY <1>34 DEF SpikeAnswers
  <2>3. Reached' = Reached
    <3>1. CASE asked = "run" /\ spike_steps' = spike_steps + 1
      <4>1. Reached = spike_steps + 1 /\ Reached' = spike_steps' + 0
        BY <2>2, <3>1 DEF Reached, One
      <4> QED
        BY <3>1, <4>1 DEF SpikeOK
    <3>2. CASE asked # "run" /\ spike_steps' = spike_steps
      BY <2>2, <3>2 DEF Reached, One
    <3> QED
      BY <2>1, <3>1, <3>2
  <2> QED
    BY <1>34, <2>3 DEF SpikeAnswers, control, dutVars, SpikeInv, Unaligned, NeverStepped,
       Behind, Caught, Differing
<1>35. CASE SpikeEnds
  BY <1>35 DEF SpikeEnds, SpikeInv, Unaligned, Differing, NeverStepped, Behind,
       Caught, Level, Early, Reached, control, dutVars
<1>36. CASE Terminated
  BY <1>36 DEF Terminated, SpikeInv, Unaligned, Differing, NeverStepped, Behind,
       Caught, Level, Early, Reached, control, dutVars, spikeVars, vars
<1> QED
  BY <1>5, <1>6, <1>7, <1>8, <1>9, <1>10, <1>11, <1>12, <1>13, <1>14, <1>15,
     <1>16, <1>17, <1>18, <1>19, <1>20, <1>21, <1>22, <1>23, <1>24, <1>25,
     <1>26, <1>27, <1>28, <1>29, <1>30, <1>31, <1>32, <1>33, <1>34, <1>35,
     <1>36 DEF Next, Controller, System, Startup, Waiting, Loop, Cleanup

IInv == TypeOK /\ Pipes /\ DutInv /\ SpikeInv

LEMMA IInvInit == Init => IInv
<1> SUFFICES ASSUME Init PROVE IInv
  OBVIOUS
<1>1. TypeOK
  BY TypeInit
<1>2. Pipes
  BY DEF Init, Pipes
<1>3. DutInv
  BY DEF Init, DutInv, Bounded, Unread, Unstarted, Absent, Settled, Compared, Awaited, Calm,
     Waits, Idling, Empty
<1>4. SpikeInv
  BY DEF Init, SpikeInv, Unaligned, Behind, Caught, Differing, Level, Early, Reached, One
<1> QED
  BY <1>1, <1>2, <1>3, <1>4 DEF IInv

LEMMA IInvStep == IInv /\ [Next]_vars => IInv'
<1> SUFFICES ASSUME IInv, [Next]_vars PROVE IInv'
  OBVIOUS
<1>1. CASE Next
  <2>1. TypeOK'
    BY <1>1, TypeStep DEF IInv
  <2>2. Pipes' /\ DutInv'
    BY <1>1, PipesStep, DutStepInv DEF IInv
  <2> QED
    BY <1>1, <2>1, <2>2, SpikeStepInv DEF IInv
<1>2. CASE UNCHANGED vars
  <2>1. TypeOK'
    BY TypeStep DEF IInv
  <2>2. Pipes' /\ DutInv'
    BY <1>2 DEF vars, control, dutVars, spikeVars, IInv, Pipes, DutInv, Bounded, Unread,
       Unstarted, Absent, Settled, Compared, Awaited, Waits, Idling, Empty, First
  <2>3. SpikeInv'
    BY <1>2 DEF vars, control, dutVars, spikeVars, IInv, SpikeInv, Unaligned, Behind,
       NeverStepped, Caught, Differing, Reached
  <2> QED
    BY <2>1, <2>2, <2>3 DEF IInv
<1> QED
  BY <1>1, <1>2

LEMMA IInvBounds == IInv => NoRunAhead
<1> SUFFICES ASSUME IInv PROVE NoRunAhead
  OBVIOUS
<1>1. spike_steps \in Nat /\ skipped \in Nat /\ retired \in Nat /\ dut_retires \in Nat
  BY DEF IInv, TypeOK, ControlOK, DutOK, SpikeOK
<1>2. dut_retires <= retired + 1
  BY <1>1 DEF IInv, DutInv, Bounded
<1>3. spike_steps <= Reached /\ Reached \in Nat
  BY <1>1 DEF Reached, One
<1>4. CASE Reached <= skipped + dut_retires
  BY <1>1, <1>2, <1>3, <1>4 DEF NoRunAhead
<1>5. CASE Reached <= skipped + 1 /\ Aligning
  <2>1. spike_steps <= skipped + dut_retires + 1
    BY <1>1, <1>3, <1>5
  <2> QED
    BY <1>2, <1>5, <2>1 DEF NoRunAhead
<1> QED
  BY <1>4, <1>5 DEF IInv, SpikeInv, Behind, NeverStepped, Aligning

(* The comparison is in lockstep, whatever the DUT and Spike do: the DUT   *)
(* is never two retirements ahead of what has been compared, and Spike     *)
(* never past what the DUT has retired (lockstep.py:300-351).              *)
THEOREM Lockstepped == Spec => []NoRunAhead
<1>1. Spec => []IInv
  BY IInvInit, IInvStep, PTL DEF Spec
<1> QED
  BY <1>1, IInvBounds, PTL

-----------------------------------------------------------------------------
(* The bytes an access of a recognised size covers.                        *)
LEMMA Sizes ==
  ASSUME NEW insn \in Insn
  PROVE  /\ load_size(insn) \in {0, SizeOf(insn)}
         /\ store_size(insn) \in {0, SizeOf(insn)}
         /\ SizeOf(insn) \in {0, 1, 2, 4}
<1>1. insn.funct3 \in 0 .. 7 /\ insn.opcode \in {"load", "store", "amo", "op"}
  BY DEF Insn, Opcodes
<1>2. SizeOf(insn) \in {0, 1, 2, 4}
  BY DEF SizeOf
<1>3. load_size(insn) \in {0, SizeOf(insn)}
  <2>1. CASE insn.opcode = "load"
    BY <1>1, <2>1 DEF load_size, SizeOf
  <2>2. CASE insn.opcode = "amo"
    BY <1>1, <2>2 DEF load_size, SizeOf
  <2>3. CASE insn.opcode \in {"store", "op"}
    BY <1>1, <2>3 DEF load_size, SizeOf
  <2> QED
    BY <1>1, <2>1, <2>2, <2>3
<1>4. store_size(insn) \in {0, SizeOf(insn)}
  <2>1. CASE insn.opcode = "store"
    BY <1>1, <2>1 DEF store_size, SizeOf
  <2>2. CASE insn.opcode = "amo"
    BY <1>1, <2>2 DEF store_size, SizeOf
  <2>3. CASE insn.opcode \in {"load", "op"}
    BY <1>1, <2>3 DEF store_size, SizeOf
  <2> QED
    BY <1>1, <2>1, <2>2, <2>3
<1> QED
  BY <1>2, <1>3, <1>4

(* A byte is in the masked word exactly when it is one of the lanes.       *)
LEMMA WordLanes ==
  ASSUME NEW a \in Nat, NEW b \in Nat
  PROVE  /\ Aligned(a) \in Nat /\ b % WordBytes \in Lane
         /\ Aligned(b) = Aligned(a) => b = Aligned(a) + (b % WordBytes)
         /\ \A l \in Lane : b = Aligned(a) + l
              => Aligned(b) = Aligned(a) /\ b % WordBytes = l
<1> DEFINE p == a \div 4
           q == b \div 4
<1>1. /\ a = 4 * p + (a % 4) /\ a % 4 \in 0 .. 3 /\ p \in Nat
      /\ b = 4 * q + (b % 4) /\ b % 4 \in 0 .. 3 /\ q \in Nat
  BY SMT
<1> HIDE DEF p, q
<1>2. Aligned(a) = 4 * p /\ Aligned(b) = 4 * q
  BY <1>1, SMT DEF Aligned, WordBytes
<1>3. Aligned(b) = Aligned(a) => b = Aligned(a) + (b % 4)
  BY <1>1, <1>2, SMT
<1>4. ASSUME NEW l \in 0 .. 3, b = Aligned(a) + l
      PROVE  Aligned(b) = Aligned(a) /\ b % 4 = l
  <2>1. b = 4 * p + l
    BY <1>2, <1>4
  <2>2. q = p /\ b % 4 = l
    BY <1>1, <2>1, SMT
  <2> QED
    BY <1>2, <2>2
<1>5. Aligned(a) \in Nat /\ b % 4 \in 0 .. 3
  BY <1>1, <1>2
<1> QED
  BY <1>3, <1>4, <1>5 DEF Lane, WordBytes

LanesOf(e, mask) == {Aligned(e.mem_addr) + l : l \in mask}
LEMMA InWordLanes ==
  ASSUME NEW e, IsEvent(e), NEW b \in Nat, NEW mask \in SUBSET Lane
  PROVE  /\ InWord(e, b, mask) <=> b \in LanesOf(e, mask)
         /\ InWord(e, b, mask) => b - Aligned(e.mem_addr) = b % WordBytes
<1>1. e.mem_addr \in Nat
  BY DEF IsEvent
<1>2. Aligned(e.mem_addr) \in Nat /\ b % WordBytes \in Nat
  BY <1>1, WordLanes DEF Lane, WordBytes
<1>3. InWord(e, b, mask) => b = Aligned(e.mem_addr) + (b % WordBytes)
  BY <1>1, WordLanes DEF InWord
<1>4. ASSUME NEW l \in mask, b = Aligned(e.mem_addr) + l PROVE InWord(e, b, mask)
  BY <1>1, <1>4, WordLanes DEF InWord
<1>5. InWord(e, b, mask) => b \in LanesOf(e, mask)
  <2>1. SUFFICES ASSUME InWord(e, b, mask) PROVE \E l \in mask : b = Aligned(e.mem_addr) + l
    BY DEF LanesOf
  <2>2. b % WordBytes \in mask
    BY <2>1 DEF InWord
  <2> QED
    BY <1>3, <2>1, <2>2, Zenon
<1>6. b \in LanesOf(e, mask) => InWord(e, b, mask)
  BY <1>4 DEF LanesOf
<1>7. InWord(e, b, mask) => b - Aligned(e.mem_addr) = b % WordBytes
  <2>1. SUFFICES ASSUME InWord(e, b, mask) PROVE b - Aligned(e.mem_addr) = b % WordBytes
    OBVIOUS
  <2>2. b = Aligned(e.mem_addr) + (b % WordBytes)
    BY <1>3, <2>1, Zenon
  <2> QED
    BY <1>2, <2>2
<1> QED
  BY <1>5, <1>6, <1>7

(* The items of a commit that Spike's answer can be parsed with.           *)
Sized(c) ==
  \A i \in DOMAIN c.mems :
    IF c.mems[i].value = NoValue THEN load_size(c.insn) # 0 ELSE store_size(c.insn) # 0

LEMMA Items ==
  ASSUME NEW c, IsCommit(c)
  PROVE  /\ IsFiniteSet(DOMAIN c.mems)
         /\ \A i \in DOMAIN c.mems : c.mems[i].addr \in Nat
         /\ c.insn \in Insn /\ load_size(c.insn) \in Nat /\ store_size(c.insn) \in Nat
<1> DEFINE Item == [addr : Nat, value : {NoValue} \cup Nat]
<1>1. c.mems \in Seq(Item) /\ c.insn \in Insn
  BY DEF IsCommit
<1>2. ASSUME NEW i \in DOMAIN c.mems PROVE c.mems[i].addr \in Nat
  <2>1. c.mems[i] \in Item
    <3> HIDE DEF Item
    <3> QED
      BY <1>1
  <2> QED
    BY <2>1
<1>3. DOMAIN c.mems = 1 .. Len(c.mems) /\ Len(c.mems) \in Nat
  <2> HIDE DEF Item
  <2> QED
    BY <1>1
<1>4. IsFiniteSet(DOMAIN c.mems)
  BY <1>3, FS_Interval
<1>5. load_size(c.insn) \in Nat /\ store_size(c.insn) \in Nat
  BY <1>1, Sizes
<1> QED
  BY <1>1, <1>2, <1>4, <1>5

(* Whether an item covers a byte, said with its size and with an interval. *)
LEMMA Coverage ==
  ASSUME NEW c, IsCommit(c), Sized(c), NEW i \in DOMAIN c.mems, NEW b \in Nat
  PROVE  /\ c.mems[i].value = NoValue =>
              /\ Covers(c, i, b) <=> b - c.mems[i].addr \in 0 .. load_size(c.insn) - 1
              /\ Covers(c, i, b)
                   <=> b \in c.mems[i].addr .. c.mems[i].addr + load_size(c.insn) - 1
              /\ Covers(c, i, b) => b \in Bytes
         /\ c.mems[i].value # NoValue =>
              /\ Covers(c, i, b) <=> b - c.mems[i].addr \in 0 .. store_size(c.insn) - 1
              /\ Covers(c, i, b)
                   <=> b \in c.mems[i].addr .. c.mems[i].addr + store_size(c.insn) - 1
              /\ Covers(c, i, b) => b \in Bytes
<1> DEFINE a == c.mems[i].addr
           n == SizeOf(c.insn)
<1>1. a \in Nat
  BY Items
<1>2. c.insn \in Insn
  BY DEF IsCommit
<1>3. n \in {0, 1, 2, 4} /\ load_size(c.insn) \in {0, n} /\ store_size(c.insn) \in {0, n}
  BY <1>2, Sizes
<1>4. Covers(c, i, b) <=> a <= b /\ b < a + n
  BY DEF Covers
<1>5. \A k \in Lane : k < store_size(c.insn) \/ k < load_size(c.insn) => a + k \in Bytes
  BY DEF IsCommit
<1> HIDE DEF a, n
<1>6. \A s \in {n} : /\ a <= b /\ b < a + n <=> b - a \in 0 .. s - 1
                     /\ a <= b /\ b < a + n <=> b \in a .. a + s - 1
                     /\ a <= b /\ b < a + n => b - a \in Lane /\ b - a < s /\ a + (b - a) = b
  BY <1>1, <1>3, SMT DEF Lane, WordBytes
<1>7. c.mems[i].value = NoValue => load_size(c.insn) = n
  BY <1>3 DEF Sized
<1>8. c.mems[i].value # NoValue => store_size(c.insn) = n
  BY <1>3 DEF Sized
<1>9. CASE c.mems[i].value = NoValue
  <2>1. Covers(c, i, b) => b \in Bytes
    BY <1>4, <1>5, <1>6, <1>7, <1>9
  <2> QED
    BY <1>4, <1>6, <1>7, <1>9, <2>1 DEF a
<1>10. CASE c.mems[i].value # NoValue
  <2>1. Covers(c, i, b) => b \in Bytes
    BY <1>4, <1>5, <1>6, <1>8, <1>10
  <2> QED
    BY <1>4, <1>6, <1>8, <1>10, <2>1 DEF a
<1> QED
  BY <1>9, <1>10

(* The DUT reports the bytes that Spike reads, once each, when it does so  *)
(* byte by byte.                                                           *)
ReadsAgree(e, c) ==
  \A b \in Bytes : IF InWord(e, b, e.mem_rmask)
                  THEN \E i \in DOMAIN c.mems : SpikeReads(c, b) = {i}
                  ELSE SpikeReads(c, b) = {}

LEMMA SameReads ==
  ASSUME NEW e, NEW c, IsEvent(e), IsCommit(c), Sized(c)
  PROVE  dut_effects(e).reads = reads_of(c) <=> ReadsAgree(e, c)
<1> DEFINE Rd(b) == {i \in DOMAIN c.mems :
                       /\ c.mems[i].value = NoValue
                       /\ b - c.mems[i].addr \in 0 .. load_size(c.insn) - 1}
           read == UNION {m.addr .. m.addr + load_size(c.insn) - 1 :
                            m \in {n \in Elements(c.mems) : n.value = NoValue}}
           lanes == LanesOf(e, e.mem_rmask)
<1>1. reads_of(c) = [b \in read |-> Cardinality(Rd(b))]
  BY DEF reads_of
<1>2. dut_effects(e).reads = [b \in lanes |-> 1]
  BY DEF dut_effects, LanesOf
<1>3. ASSUME NEW b \in Nat
      PROVE  Rd(b) = SpikeReads(c, b)
  BY <1>3, Coverage DEF SpikeReads
<1>4. ASSUME NEW b \in Nat PROVE b \in read <=> SpikeReads(c, b) # {}
  <2>1. b \in read <=> \E i \in DOMAIN c.mems :
                         /\ c.mems[i].value = NoValue
                         /\ b \in c.mems[i].addr .. c.mems[i].addr + load_size(c.insn) - 1
    BY DEF Elements
  <2> QED
    BY <1>4, <2>1, Coverage DEF SpikeReads
<1>5. Bytes \subseteq Nat
  BY PrintedAssumption
<1>6. lanes \subseteq Bytes
  BY DEF IsEvent, LanesOf
<1>7. read \subseteq Bytes
  <2>1. SUFFICES ASSUME NEW i \in DOMAIN c.mems, c.mems[i].value = NoValue,
                        NEW b \in c.mems[i].addr .. c.mems[i].addr + load_size(c.insn) - 1
                 PROVE  b \in Bytes
    BY DEF Elements
  <2>2. c.mems[i].addr \in Nat /\ load_size(c.insn) \in Nat
    BY Items
  <2>3. b \in Nat
    BY <2>2
  <2> QED
    BY <2>1, <2>3, Coverage
<1>8. ASSUME NEW b \in Nat PROVE InWord(e, b, e.mem_rmask) <=> b \in lanes
  BY <1>8, InWordLanes DEF IsEvent
<1>9. ASSUME NEW b \in Nat
      PROVE  Cardinality(SpikeReads(c, b)) = 1
               <=> \E i \in DOMAIN c.mems : SpikeReads(c, b) = {i}
  <2>1. IsFiniteSet(DOMAIN c.mems)
    BY Items
  <2>2. IsFiniteSet(SpikeReads(c, b)) /\ SpikeReads(c, b) \subseteq DOMAIN c.mems
    BY <2>1, FS_Subset DEF SpikeReads
  <2> QED
    BY <2>2, FS_Singleton
<1> HIDE DEF Rd, read, lanes
<1>10. ASSUME dut_effects(e).reads = reads_of(c) PROVE ReadsAgree(e, c)
  <2>1. lanes = read /\ \A b \in lanes : Cardinality(Rd(b)) = 1
    <3>1. [b \in lanes |-> 1] = [b \in read |-> Cardinality(Rd(b))]
      BY <1>1, <1>2, <1>10
    <3>2. DOMAIN [b \in lanes |-> 1] = DOMAIN [b \in read |-> Cardinality(Rd(b))]
      BY <3>1
    <3>3. lanes = read
      BY <3>2
    <3> QED
      BY <3>1, <3>3
  <2> QED
    BY <1>3, <1>4, <1>5, <1>8, <1>9, <2>1 DEF ReadsAgree
<1>11. ASSUME ReadsAgree(e, c) PROVE dut_effects(e).reads = reads_of(c)
  <2>1. ASSUME NEW b \in Bytes PROVE b \in lanes <=> b \in read
    BY <1>4, <1>5, <1>8, <1>11, <2>1 DEF ReadsAgree
  <2>2. lanes = read
    BY <1>6, <1>7, <2>1
  <2>3. ASSUME NEW b \in read PROVE Cardinality(Rd(b)) = 1
    BY <1>3, <1>5, <1>7, <1>8, <1>9, <1>11, <2>2, <2>3 DEF ReadsAgree
  <2> QED
    BY <1>1, <1>2, <2>2, <2>3
<1> QED
  BY <1>10, <1>11

(* It writes the values that Spike writes, the last of each byte, when it  *)
(* does so byte by byte.                                                   *)
WritesAgree(e, c) == \A b \in Bytes : DutByte(e, b) = SpikeByte(c, b)

LEMMA SameWrites ==
  ASSUME NEW e, NEW c, IsEvent(e), IsCommit(c), Sized(c)
  PROVE  dut_effects(e).writes = writes_of(c) <=> WritesAgree(e, c)
<1> DEFINE Wr(b) == {i \in DOMAIN c.mems :
                       /\ c.mems[i].value # NoValue
                       /\ b - c.mems[i].addr \in 0 .. store_size(c.insn) - 1}
           last(b) == c.mems[CHOOSE i \in Wr(b) : \A j \in Wr(b) : j <= i]
           stored == UNION {m.addr .. m.addr + store_size(c.insn) - 1 :
                               m \in {n \in Elements(c.mems) : n.value # NoValue}}
           lanes == LanesOf(e, e.mem_wmask)
           SpikeValue(b) == Byte(last(b).value, b - last(b).addr)
           DutValue(b) == Byte(e.mem_wdata, b - Aligned(e.mem_addr))
<1>1. writes_of(c) = [b \in stored |-> SpikeValue(b)]
  BY DEF writes_of
<1>2. dut_effects(e).writes = [b \in lanes |-> DutValue(b)]
  BY DEF dut_effects, LanesOf
<1>3. Bytes \subseteq Nat
  BY PrintedAssumption
<1>4. lanes \subseteq Bytes
  BY DEF IsEvent, LanesOf
<1>5. stored \subseteq Bytes
  <2>1. SUFFICES ASSUME NEW i \in DOMAIN c.mems, c.mems[i].value # NoValue,
                        NEW b \in c.mems[i].addr .. c.mems[i].addr + store_size(c.insn) - 1
                 PROVE  b \in Bytes
    BY DEF Elements
  <2>2. c.mems[i].addr \in Nat /\ store_size(c.insn) \in Nat
    BY Items
  <2>3. b \in Nat
    BY <2>2
  <2> QED
    BY <2>1, <2>3, Coverage
<1>6. ASSUME NEW b \in Nat PROVE b \in stored <=> Wr(b) # {}
  <2>1. b \in stored <=> \E i \in DOMAIN c.mems :
                         /\ c.mems[i].value # NoValue
                         /\ b \in c.mems[i].addr .. c.mems[i].addr + store_size(c.insn) - 1
    BY DEF Elements
  <2> QED
    BY <1>6, <2>1, Coverage
<1>7. ASSUME NEW b \in Nat
      PROVE  SpikeByte(c, b) = IF b \in stored THEN {SpikeValue(b)} ELSE {}
  <2> DEFINE hits == {i \in DOMAIN c.mems : c.mems[i].value # NoValue /\ Covers(c, i, b)}
  <2>1. hits = Wr(b)
    BY <1>7, Coverage
  <2>2. SpikeByte(c, b) = IF Wr(b) = {} THEN {} ELSE {SpikeValue(b)}
    BY <2>1 DEF SpikeByte
  <2> QED
    BY <1>6, <1>7, <2>2
<1>8. ASSUME NEW b \in Nat
      PROVE  DutByte(e, b) = IF b \in lanes THEN {DutValue(b)} ELSE {}
  <2>1. e.mem_wmask \in SUBSET Lane
    BY DEF IsEvent
  <2>2. InWord(e, b, e.mem_wmask) <=> b \in lanes
    BY <1>8, <2>1, InWordLanes
  <2>3. InWord(e, b, e.mem_wmask) => b - Aligned(e.mem_addr) = b % WordBytes
    BY <1>8, <2>1, InWordLanes
  <2> QED
    BY <2>2, <2>3 DEF DutByte
<1> HIDE DEF Wr, last, stored, lanes, SpikeValue, DutValue
<1>9. ASSUME NEW b \in Bytes
      PROVE  DutByte(e, b) = SpikeByte(c, b)
               <=> /\ b \in lanes <=> b \in stored
                   /\ b \in lanes => DutValue(b) = SpikeValue(b)
  <2>1. /\ DutByte(e, b) = IF b \in lanes THEN {DutValue(b)} ELSE {}
        /\ SpikeByte(c, b) = IF b \in stored THEN {SpikeValue(b)} ELSE {}
    BY <1>3, <1>7, <1>8
  <2>2. {DutValue(b)} = {SpikeValue(b)} <=> DutValue(b) = SpikeValue(b)
    OBVIOUS
  <2>3. {DutValue(b)} # {} /\ {SpikeValue(b)} # {}
    OBVIOUS
  <2> QED
    BY <2>1, <2>2, <2>3
<1>10. ASSUME dut_effects(e).writes = writes_of(c) PROVE WritesAgree(e, c)
  <2>1. [b \in lanes |-> DutValue(b)] = [b \in stored |-> SpikeValue(b)]
    BY <1>1, <1>2, <1>10
  <2>2. DOMAIN [b \in lanes |-> DutValue(b)] = DOMAIN [b \in stored |-> SpikeValue(b)]
    BY <2>1
  <2>3. lanes = stored
    BY <2>2
  <2>4. ASSUME NEW b \in lanes PROVE DutValue(b) = SpikeValue(b)
    <3>1. [x \in lanes |-> DutValue(x)][b] = [x \in stored |-> SpikeValue(x)][b]
      BY <2>1
    <3> QED
      BY <2>3, <3>1
  <2> QED
    BY <1>9, <2>3, <2>4 DEF WritesAgree
<1>11. ASSUME WritesAgree(e, c) PROVE dut_effects(e).writes = writes_of(c)
  <2>1. ASSUME NEW b \in Bytes
        PROVE  /\ b \in lanes <=> b \in stored
               /\ b \in lanes => DutValue(b) = SpikeValue(b)
    BY <1>9, <1>11 DEF WritesAgree
  <2>2. lanes = stored
    BY <1>4, <1>5, <2>1
  <2>3. ASSUME NEW b \in lanes PROVE DutValue(b) = SpikeValue(b)
    BY <1>4, <2>1, <2>3
  <2> QED
    BY <1>1, <1>2, <2>2, <2>3
<1> QED
  BY <1>10, <1>11

(* It writes the register that Spike writes, or none as Spike does.        *)
RegsAgree(e, c) ==
  \A r \in Registers :
    IF e.rd = r /\ r # 0
    THEN r \in DOMAIN c.regs /\ c.regs[r] = e.rd_data
    ELSE r \notin DOMAIN c.regs

LEMMA SameRegs ==
  ASSUME NEW e, NEW c, IsEvent(e), IsCommit(c)
  PROVE  dut_effects(e).regs = c.regs <=> RegsAgree(e, c)
<1> DEFINE dst == {e.rd} \ {0}
<1>1. dut_effects(e).regs = [r \in dst |-> e.rd_data]
  BY DEF dut_effects
<1>2. c.regs = [r \in DOMAIN c.regs |-> c.regs[r]] /\ DOMAIN c.regs \subseteq Registers
  BY DEF IsCommit
<1>3. e.rd \in Registers
  BY DEF IsEvent
<1>4. ASSUME dut_effects(e).regs = c.regs PROVE RegsAgree(e, c)
  <2>1. DOMAIN c.regs = dst
    BY <1>1, <1>4
  <2>2. \A r \in dst : c.regs[r] = e.rd_data
    BY <1>1, <1>4
  <2> QED
    BY <2>1, <2>2 DEF RegsAgree
<1>5. ASSUME RegsAgree(e, c) PROVE dut_effects(e).regs = c.regs
  <2>1. ASSUME NEW r \in Registers PROVE r \in DOMAIN c.regs <=> r \in dst
    BY <1>5, <2>1 DEF RegsAgree
  <2>2. DOMAIN c.regs = dst
    BY <1>2, <1>3, <2>1
  <2>3. \A r \in dst : c.regs[r] = e.rd_data
    BY <1>3, <1>5 DEF RegsAgree
  <2> QED
    BY <1>1, <1>2, <2>2, <2>3
<1> QED
  BY <1>4, <1>5

(* What differences() finds nothing in is, byte by byte and register by    *)
(* register, the architectural step that Spike took, and what it finds     *)
(* something in is not (lockstep.py:128-253).                              *)
THEOREM SameStep ==
  ASSUME NEW e, NEW a, IsEvent(e), IsAnswer(a), a.kind = "lines", Parses(a)
  PROVE  differences(e, parse_spike_step(a)) = {} <=> Agrees(e, a)
<1> DEFINE r == parse_spike_step(a)
           d == differences(e, r)
<1> SUFFICES d = {} <=> Agrees(e, a)
  OBVIOUS
<1>1. e.trap \in BOOLEAN
  BY DEF IsEvent
<1>2. CASE a.traps # <<>>
  <2> DEFINE t == a.traps[1]
  <2>1. r = [trap |-> TRUE, pc |-> t.epc,
             insn |-> IF a.traces = <<>> THEN NoInsn ELSE a.traces[1].insn,
             cause |-> Causes[t.name],
             tval |-> IF a.tvals = <<>> THEN 0 ELSE a.tvals[1]]
    BY <1>2 DEF parse_spike_step
  <2>2. /\ r.trap = TRUE /\ r.pc = t.epc /\ r.cause = Causes[t.name]
        /\ r.insn = (IF a.traces = <<>> THEN NoInsn ELSE a.traces[1].insn)
        /\ r.tval = (IF a.tvals = <<>> THEN 0 ELSE a.tvals[1])
    BY <2>1
  <2> HIDE DEF r
  <2>3. d = {} <=> /\ e.pc = r.pc /\ e.trap = r.trap
                   /\ r.insn # NoInsn => e.insn = r.insn
                   /\ e.cause = r.cause /\ e.tval = r.tval
    <3>1. d = {f \in {"pc", "trap"} : e[f] # r[f]}
              \cup {f \in {"insn"} : r.insn # NoInsn /\ e.insn # r.insn}
              \cup {f \in {"cause", "tval"} : e[f] # r[f]}
      BY <2>2 DEF differences
    <3> HIDE DEF d
    <3> QED
      BY <3>1
  <2>4. \/ a.traces = <<>> /\ Elements(a.traces) = {}
        \/ /\ a.traces # <<>> /\ Elements(a.traces) = {a.traces[1]}
           /\ a.traces[1].insn # NoInsn /\ a.traces[1].pc = t.epc
    <3>1. CASE a.traces = <<>>
      BY <3>1 DEF Elements
    <3>2. CASE a.traces # <<>>
      <4>1. Len(a.traces) = 1 /\ a.traces[1].pc = t.epc
        BY <1>2, <3>2 DEF Parses
      <4>2. a.traces \in Seq(Elements(a.traces))
        BY DEF IsAnswer
      <4>3. DOMAIN a.traces = {1}
        BY <4>1, <4>2
      <4>4. Elements(a.traces) = {a.traces[1]}
        BY <4>3 DEF Elements
      <4>5. a.traces[1].insn # NoInsn
        BY <4>4, PrintedAssumption DEF IsAnswer
      <4> QED
        BY <3>2, <4>1, <4>4, <4>5
    <3> QED
      BY <3>1, <3>2
  <2>5. Agrees(e, a) <=>
          /\ e.trap /\ e.pc = t.epc /\ e.cause = Causes[t.name]
          /\ \A x \in Elements(a.traces) : e.insn = x.insn /\ e.pc = x.pc
          /\ e.tval = r.tval
    BY <1>2, <2>2 DEF Agrees
  <2>6. e.trap <=> e.trap = r.trap
    BY <1>1, <2>2
  <2>7. CASE a.traces = <<>> /\ Elements(a.traces) = {}
    <3>1. r.insn = NoInsn
      BY <2>2, <2>7
    <3> QED
      BY <2>2, <2>3, <2>5, <2>6, <2>7, <3>1
  <2>8. CASE /\ a.traces # <<>> /\ Elements(a.traces) = {a.traces[1]}
             /\ a.traces[1].insn # NoInsn /\ a.traces[1].pc = t.epc
    <3>1. r.insn = a.traces[1].insn
      BY <2>2, <2>8
    <3>2. (\A x \in Elements(a.traces) : e.insn = x.insn /\ e.pc = x.pc)
            <=> e.insn = r.insn /\ e.pc = t.epc
      BY <2>8, <3>1
    <3>3. d = {} <=> e.pc = t.epc /\ e.trap /\ e.insn = r.insn
                     /\ e.cause = Causes[t.name] /\ e.tval = r.tval
      BY <2>2, <2>3, <2>6, <2>8, <3>1
    <3> QED
      BY <2>5, <3>2, <3>3
  <2> QED
    BY <2>4, <2>7, <2>8
<1>3. CASE a.traps = <<>>
  <2> DEFINE c == a.commits[1]
  <2>1. IsCommit(c) /\ Sized(c)
    <3>1. Len(a.commits) = 1
      <4>1. Len(a.commits) + Len(<<>>) = 1 /\ a.commits \in Seq(Elements(a.commits))
        BY <1>3 DEF Parses, IsAnswer
      <4>2. Len(a.commits) \in Nat
        BY <4>1
      <4> QED
        BY <4>1, <4>2
    <3>2. 1 \in DOMAIN a.commits
      BY <3>1 DEF IsAnswer
    <3>3. c \in Elements(a.commits)
      BY <3>2 DEF Elements
    <3>4. IsCommit(c)
      BY <3>3 DEF IsAnswer
    <3>5. \A m \in Elements(c.mems) :
             IF m.value = NoValue THEN load_size(c.insn) # 0 ELSE store_size(c.insn) # 0
      BY <1>3 DEF Parses
    <3> QED
      BY <3>4, <3>5 DEF Sized, Elements
  <2>2. r = [trap |-> FALSE, pc |-> c.pc, insn |-> c.insn, priv |-> c.priv,
             regs |-> c.regs, csrs |-> c.csrs,
             reads |-> reads_of(c), writes |-> writes_of(c)]
    BY <1>3 DEF parse_spike_step
  <2>3. /\ r.trap = FALSE /\ r.pc = c.pc /\ r.insn = c.insn /\ r.priv = c.priv
        /\ r.regs = c.regs /\ r.csrs = c.csrs
        /\ r.reads = reads_of(c) /\ r.writes = writes_of(c)
    BY <2>2
  <2>4. c.insn # NoInsn
    BY <2>1, PrintedAssumption DEF IsCommit
  <2> HIDE DEF r, c
  <2>5. d = {} <=> /\ e.pc = r.pc /\ e.trap = r.trap /\ e.insn = r.insn
                   /\ e.priv = r.priv
                   /\ dut_effects(e).regs = r.regs /\ dut_effects(e).csrs = r.csrs
                   /\ dut_effects(e).reads = r.reads /\ dut_effects(e).writes = r.writes
    <3> DEFINE effects == dut_effects(e)
    <3>1. d = {f \in {"pc", "trap"} : e[f] # r[f]}
              \cup {f \in {"insn"} : r.insn # NoInsn /\ e.insn # r.insn}
              \cup ({f \in {"priv"} : e.priv # r.priv}
                    \cup {f \in {"regs", "csrs", "reads", "writes"} : effects[f] # r[f]})
      BY <2>3 DEF differences
    <3> HIDE DEF d, effects
    <3>2. d = {} <=> /\ e.pc = r.pc /\ e.trap = r.trap /\ e.insn = r.insn
                     /\ e.priv = r.priv
                     /\ effects.regs = r.regs /\ effects.csrs = r.csrs
                     /\ effects.reads = r.reads /\ effects.writes = r.writes
      BY <2>3, <2>4, <3>1
    <3> QED
      BY <3>2 DEF effects
  <2>6. dut_effects(e).csrs = e.csr_writes
    BY DEF dut_effects
  <2>7. Agrees(e, a) <=>
          /\ ~e.trap /\ e.pc = c.pc /\ e.insn = c.insn /\ e.priv = c.priv
          /\ ReadsAgree(e, c) /\ WritesAgree(e, c) /\ RegsAgree(e, c)
          /\ e.csr_writes = c.csrs
    BY <1>3 DEF Agrees, SameEffects, ReadsAgree, WritesAgree, RegsAgree, c
  <2>8. ~e.trap <=> e.trap = r.trap
    BY <1>1, <2>3
  <2>9. /\ dut_effects(e).reads = r.reads <=> ReadsAgree(e, c)
        /\ dut_effects(e).writes = r.writes <=> WritesAgree(e, c)
        /\ dut_effects(e).regs = r.regs <=> RegsAgree(e, c)
    BY <2>1, <2>3, SameReads, SameWrites, SameRegs
  <2>10. /\ e.pc = r.pc <=> e.pc = c.pc
         /\ e.insn = r.insn <=> e.insn = c.insn
         /\ e.priv = r.priv <=> e.priv = c.priv
         /\ dut_effects(e).csrs = r.csrs <=> e.csr_writes = c.csrs
    BY <2>3, <2>6
  <2> QED
    BY <2>5, <2>7, <2>8, <2>9, <2>10
<1> QED
  BY <1>2, <1>3

-----------------------------------------------------------------------------
Cleaning == {"quit", "wait", "reap", "close", "closing", "close reap", "exited"}

(* What Spike has said and the event it is compared with are well formed,  *)
(* and the event is the one the controller is waiting for.                 *)
Printed ==
  /\ IsAnswer(says)
  /\ phase = "answer" => IsEvent(event) /\ event.order = retired

(* Between questions nothing is on its way from Spike, and a question is   *)
(* open until its prompt.                                                  *)
Quiet ==
  /\ phase \in {"open", "align", "step", "event", "final", "final event", "report"}
       => asked = "nothing" /\ pty = "empty"
  /\ asked # "nothing" => pty # "prompt"

(* Spike has taken exactly the steps that are counted, and while a step is *)
(* asked for or answered, one more.                                        *)
Stepped ==
  /\ phase \in (Early \ {"align run"}) \cup {"step", "event", "final", "final event"}
     \/ verdict = "pass"
       => asked # "run" /\ spike_steps = skipped + retired
  /\ phase \in {"align run", "answer"} => Reached = skipped + retired + 1

(* What a run that has passed has counted.                                 *)
Enough == IF args.until_trap THEN traps = 1 ELSE retired = args.limit
Counted ==
  /\ retired <= args.limit
  /\ phase \in {"event", "answer"} => retired < args.limit
  /\ phase \in {"final", "final event"} => args.until_trap \/ retired = args.limit
  /\ phase = "final event" => Enough
  /\ verdict = "pass" => /\ Enough /\ dut_retires = retired
                         /\ dut = "up" => "step" \notin inbox

(* The verdict is given when the loop is left; what it says of the DUT's   *)
(* end is known once the DUT has been reaped.                              *)
Judged ==
  /\ phase \notin Cleaning => verdict = "none"
  /\ verdict = "pass" /\ phase \in {"close", "closing", "close reap", "exited"}
       => dut = "gone" /\ dut_code = 0

(* A reported difference is one.                                           *)
Different ==
  phase \in {"report", "report answer"} \/ verdict = "diverged" =>
    /\ IsEvent(event) /\ IsAnswer(answer) /\ answer.kind = "lines" /\ Parses(answer)
    /\ differences(event, parse_spike_step(answer)) # {}

(* Which process can still be there.                                       *)
Reaped ==
  /\ phase = "open" => spike = "absent"
  /\ phase \in {"open", "prompt"} => dut = "absent"
  /\ phase \notin {"open", "exited"} => spike # "absent"
  /\ phase \in {"close", "closing", "close reap", "exited"} => dut # "up"
  /\ phase = "exited" /\ dut # "absent" => spike = "gone"

VerdictInv == /\ Printed /\ Quiet /\ Stepped /\ Counted /\ Judged /\ Different /\ Reaped

-----------------------------------------------------------------------------
(* An injected fault leaves an event an event.                             *)
LEMMA InjectedEvent ==
  ASSUME NEW e, IsEvent(e), NEW what
  PROVE  IsEvent(Injected(e, what)) /\ Injected(e, what).order = e.order
<1>1. \A n \in Nat : FlipLowBit(n) \in Nat
  BY SMT DEF FlipLowBit
<1>2. CASE what = "rd"
  <2>1. Injected(e, what) = [e EXCEPT !.rd_data = FlipLowBit(@)]
    BY <1>2 DEF Injected
  <2> QED
    BY <1>1, <2>1 DEF IsEvent
<1>3. CASE what = "store"
  <2>1. Injected(e, what) = [e EXCEPT !.mem_wdata = FlipLowBit(@)]
    BY <1>3 DEF Injected
  <2> QED
    BY <1>1, <2>1 DEF IsEvent
<1>4. CASE what = "cause"
  <2>1. Injected(e, what) = [e EXCEPT !.cause = FlipLowBit(@)]
    BY <1>4 DEF Injected
  <2> QED
    BY <1>1, <2>1 DEF IsEvent
<1>5. CASE what \notin {"rd", "store", "cause"}
  BY <1>5 DEF Injected
<1> QED
  BY <1>2, <1>3, <1>4, <1>5

LEMMA PrintedStep ==
  ASSUME TypeOK, Pipes, Printed, Next
  PROVE  Printed'
<1>1. CASE StartSpike \/ StartDut \/ AlignQuery \/ AlignPc \/ AlignRun \/
     SpikeSilent
  BY <1>1 DEF StartSpike, StartDut, AlignQuery, AlignPc, AlignRun,
       SpikeSilent, Printed, Goto, counters, dutVars, AtPrompt, TakesPrompt,
       Ask, Fail, spikeVars, SpikeWaits
<1>2. CASE ReadText \/ DutSilent \/ StepDut \/ Idle \/ BadEvent \/ Compare
  BY <1>2 DEF ReadText, DutSilent, StepDut, Idle, BadEvent, Compare, Printed,
       SpikeWaits, control, dutVars, Fail, counters, spikeVars, Send, Goto,
       TakeLine, AtPrompt, TakesPrompt
<1>3. CASE Report \/ Reported \/ Final \/ FinalEvent \/ Quit \/ KillDut
  BY <1>3 DEF Report, Reported, Final, FinalEvent, Quit, KillDut, Printed,
       Ask, Goto, Fail, counters, dutVars, spikeVars, AtPrompt, TakesPrompt,
       Send, Pass, TakeLine
<1>4. CASE DutReaped \/ CloseSpike \/ KillSpike \/ SpikeReaped \/ DutKilled \/
     SpikeKilled
  BY <1>4 DEF DutReaped, CloseSpike, KillSpike, SpikeReaped, DutKilled,
       SpikeKilled, Printed, counters, dutVars, spikeVars, Goto, Prints,
       control
<1>5. CASE Pump \/ DutStep \/ DutEnds \/ SpikeText \/ SpikeEnds \/ Terminated
  BY <1>5 DEF Pump, DutStep, DutEnds, SpikeText, SpikeEnds, Terminated,
       Printed, control, spikeVars, Prints, dutVars, vars
<1>6. CASE Retire
  <2>1. lines # <<>> /\ Head(lines) \in Line /\ Head(lines).kind = "retire"
    BY <1>6 DEF Retire, TakeLine, Acceptable, Pipes
  <2>2. IsEvent(Head(lines))
    BY <2>1, PrintedAssumption DEF Line, EOF, Plain
  <2>3. Head(lines).order = retired /\ retired' = retired /\ says' = says
    BY <1>6 DEF Retire, Acceptable, Ask, spikeVars
  <2>4. event' = Head(lines) \/ event' = Injected(Head(lines), args.inject.what)
    BY <1>6 DEF Retire
  <2>5. IsEvent(event') /\ event'.order = retired'
    BY <2>2, <2>3, <2>4, InjectedEvent
  <2> QED
    BY <2>3, <2>5 DEF Printed
<1>7. CASE SpikeAnswers
  <2>1. IsAnswer(says')
    <3>1. \A k : k # "lines" => IsAnswer(Plain(k))
      BY DEF IsAnswer, Plain
    <3>2. CASE asked = "run"
      <4>1. says' \in IF spike_steps - boot \in DOMAIN Answers
                      THEN Answers[spike_steps - boot] ELSE {Plain("boot rom")}
        BY <1>7, <3>2 DEF SpikeAnswers
      <4>2. says' = Plain("boot rom") \/ \E n \in DOMAIN Answers : says' \in Answers[n]
        BY <4>1
      <4> QED
        BY <3>1, <4>2, PrintedAssumption
    <3>3. CASE asked = "pc"
      <4>1. says' \in {Plain("entry"), Plain("elsewhere"), Plain("no number")}
        BY <1>7, <3>3 DEF SpikeAnswers
      <4> QED
        BY <3>1, <4>1
    <3>4. CASE asked \notin {"run", "pc"}
      <4>1. says' \in {Plain("number"), Plain("no number")}
        BY <1>7, <3>4 DEF SpikeAnswers
      <4> QED
        BY <3>1, <4>1
    <3> QED
      BY <3>2, <3>3, <3>4
  <2>2. UNCHANGED <<phase, event, retired>>
    BY <1>7 DEF SpikeAnswers, control
  <2> QED
    BY <2>1, <2>2 DEF Printed
<1> QED
  BY <1>1, <1>2, <1>3, <1>4, <1>5, <1>6, <1>7
     DEF Next, Controller, System, Startup, Waiting, Loop, Cleanup

LEMMA QuietStep ==
  ASSUME TypeOK, Quiet, Next
  PROVE  Quiet'
<1>1. CASE StartSpike \/ StartDut \/ AlignQuery \/ AlignPc
  BY <1>1 DEF StartSpike, StartDut, AlignQuery, AlignPc, Quiet, Goto,
       counters, dutVars, AtPrompt, TakesPrompt, Ask, Fail, spikeVars
<1>2. CASE AlignRun \/ SpikeSilent \/ ReadText \/ DutSilent
  BY <1>2 DEF AlignRun, SpikeSilent, ReadText, DutSilent, Quiet, AtPrompt,
       TakesPrompt, Goto, dutVars, SpikeWaits, Fail, counters, spikeVars,
       control
<1>3. CASE StepDut \/ Idle \/ BadEvent \/ Retire
  BY <1>3 DEF StepDut, Idle, BadEvent, Retire, Quiet, Send, Goto, Fail,
       counters, spikeVars, TakeLine, Acceptable, Ask
<1>4. CASE Compare \/ Report \/ Reported \/ Final
  BY <1>4 DEF Compare, Report, Reported, Final, Quiet, AtPrompt, TakesPrompt,
       Goto, Fail, dutVars, Ask, counters, spikeVars, Send, Pass
<1>5. CASE FinalEvent \/ Quit \/ KillDut \/ DutReaped
  BY <1>5 DEF FinalEvent, Quit, KillDut, DutReaped, Quiet, TakeLine, Pass,
       Fail, counters, spikeVars, Goto, dutVars
<1>6. CASE CloseSpike \/ KillSpike \/ SpikeReaped \/ DutKilled
  BY <1>6 DEF CloseSpike, KillSpike, SpikeReaped, DutKilled, Quiet, Goto,
       counters, dutVars, spikeVars, Prints, control
<1>7. CASE SpikeKilled \/ Pump \/ DutStep \/ DutEnds
  BY <1>7 DEF SpikeKilled, Pump, DutStep, DutEnds, Quiet, control, dutVars,
       spikeVars, Prints
<1>8. CASE SpikeText \/ SpikeAnswers \/ SpikeEnds \/ Terminated
  BY <1>8 DEF SpikeText, SpikeAnswers, SpikeEnds, Terminated, Quiet, control,
       dutVars, vars, spikeVars
<1> QED
  BY <1>1, <1>2, <1>3, <1>4, <1>5, <1>6, <1>7, <1>8
     DEF Next, Controller, System, Startup, Waiting, Loop, Cleanup

LEMMA SteppedStep ==
  ASSUME TypeOK, Quiet, Stepped, Judged, Next
  PROVE  Stepped'
<1>1. spike_steps \in Nat /\ skipped \in Nat /\ retired \in Nat
  BY DEF TypeOK, ControlOK, SpikeOK
<1>2. CASE StartSpike \/ StartDut \/ AlignQuery \/ SpikeSilent
  BY <1>2 DEF StartSpike, StartDut, AlignQuery, SpikeSilent, Stepped, Early,
       Reached, Judged, Cleaning, Goto, counters, dutVars, AtPrompt,
       TakesPrompt, Ask, Fail, spikeVars, SpikeWaits
<1>3. CASE ReadText \/ DutSilent \/ StepDut \/ Idle
  BY <1>3 DEF ReadText, DutSilent, StepDut, Idle, Stepped, Early, Reached,
       Judged, Cleaning, SpikeWaits, control, dutVars, Fail, counters,
       spikeVars, Send, Goto, TakeLine
<1>4. CASE BadEvent \/ Report \/ Reported \/ Final
  BY <1>4 DEF BadEvent, Report, Reported, Final, Stepped, Early, Reached,
       Judged, Cleaning, TakeLine, Fail, counters, spikeVars, Ask, Goto,
       dutVars, AtPrompt, TakesPrompt, Send, Pass
<1>5. CASE FinalEvent \/ Quit \/ KillDut \/ DutReaped
  BY <1>5 DEF FinalEvent, Quit, KillDut, DutReaped, Stepped, Early, Reached,
       Judged, Cleaning, TakeLine, Pass, Fail, counters, spikeVars, Goto,
       dutVars
<1>6. CASE CloseSpike \/ KillSpike \/ SpikeReaped \/ DutKilled
  BY <1>6 DEF CloseSpike, KillSpike, SpikeReaped, DutKilled, Stepped, Early,
       Reached, Judged, Cleaning, Goto, counters, dutVars, spikeVars, Prints,
       control
<1>7. CASE SpikeKilled \/ Pump \/ DutStep \/ DutEnds
  BY <1>7 DEF SpikeKilled, Pump, DutStep, DutEnds, Stepped, Early, Reached,
       Judged, Cleaning, control, dutVars, spikeVars, Prints
<1>8. CASE SpikeText \/ SpikeEnds \/ Terminated
  BY <1>8 DEF SpikeText, SpikeEnds, Terminated, Stepped, Early, Reached,
       Judged, Cleaning, control, dutVars, vars, spikeVars
<1>9. CASE SpikeAnswers
  <2>1. \/ asked = "run" /\ spike_steps' = spike_steps + 1
        \/ asked # "run" /\ spike_steps' = spike_steps
    <3>1. CASE asked = "run"
      BY <1>9, <3>1 DEF SpikeAnswers
    <3>2. CASE asked = "pc"
      BY <1>9, <3>2 DEF SpikeAnswers
    <3>3. CASE asked \notin {"run", "pc"}
      BY <1>9, <3>3 DEF SpikeAnswers
    <3> QED
      BY <3>1, <3>2, <3>3
  <2>2. asked' = "nothing" /\ UNCHANGED control
    BY <1>9 DEF SpikeAnswers
  <2>3. Reached' = Reached
    BY <1>1, <2>1, <2>2 DEF Reached, One
  <2> QED
    BY <2>1, <2>2, <2>3 DEF Stepped, control
<1>10. CASE AlignRun
  <2>1. asked = "nothing" /\ Reached = skipped + retired + 1
    BY <1>10 DEF AlignRun, AtPrompt, Quiet, Stepped
  <2>2. spike_steps = skipped + retired + 1
    BY <1>1, <2>1 DEF Reached, One
  <2>3. /\ skipped' = skipped + 1 /\ retired' = retired /\ spike_steps' = spike_steps
        /\ phase' = "align" /\ verdict' = verdict /\ asked' = asked
    BY <1>10 DEF AlignRun, Goto
  <2>4. spike_steps' = skipped' + retired'
    BY <1>1, <2>2, <2>3
  <2> QED
    BY <2>1, <2>3, <2>4 DEF Stepped
<1>11. CASE AlignPc
  <2>1. asked # "run" /\ spike_steps = skipped + retired
    BY <1>11 DEF AlignPc, Stepped, Early
  <2>2. skipped' = skipped /\ retired' = retired /\ spike_steps' = spike_steps
    BY <1>11 DEF AlignPc, counters
  <2>3. \/ phase' = "step" /\ asked' = asked /\ verdict' = verdict
        \/ phase' = "align run" /\ asked' = "run" /\ verdict' = verdict
        \/ phase' = "quit" /\ verdict' = "error" /\ asked' = asked
    BY <1>11 DEF AlignPc, Goto, Fail
  <2>4. asked' = "run" => Reached' = skipped' + retired' + 1
    BY <1>1, <2>1, <2>2 DEF Reached, One
  <2>5. verdict = "none"
    BY <1>11 DEF AlignPc, Judged, Cleaning
  <2> QED
    BY <2>1, <2>2, <2>3, <2>4, <2>5 DEF Stepped, Early
<1>12. CASE Retire
  <2>1. asked # "run" /\ spike_steps = skipped + retired
    BY <1>12 DEF Retire, Stepped, Early
  <2>2. skipped' = skipped /\ retired' = retired /\ spike_steps' = spike_steps
    BY <1>12 DEF Retire, Ask, spikeVars
  <2>3. \/ phase' = "answer" /\ asked' = "run" /\ verdict' = verdict
        \/ phase' = "quit" /\ verdict' = "error" /\ asked' = asked
    BY <1>12 DEF Retire, Ask, Goto, Fail, spikeVars
  <2>4. asked' = "run" => Reached' = skipped' + retired' + 1
    BY <1>1, <2>1, <2>2 DEF Reached, One
  <2>5. verdict = "none"
    BY <1>12 DEF Retire, Judged, Cleaning
  <2> QED
    BY <2>1, <2>2, <2>3, <2>4, <2>5 DEF Stepped, Early
<1>13. CASE Compare
  <2>1. asked = "nothing" /\ Reached = skipped + retired + 1
    BY <1>13 DEF Compare, AtPrompt, Quiet, Stepped
  <2>2. spike_steps = skipped + retired + 1
    BY <1>1, <2>1 DEF Reached, One
  <2>3. /\ skipped' = skipped /\ spike_steps' = spike_steps /\ asked' = asked
        /\ \/ phase' \in {"step", "final"} /\ retired' = retired + 1 /\ verdict' = verdict
           \/ phase' = "report" /\ verdict' = verdict
           \/ phase' = "quit" /\ verdict' = "error"
    BY <1>13 DEF Compare, Goto, Fail
  <2>4. verdict = "none"
    BY <1>13 DEF Compare, Judged, Cleaning
  <2>5. retired' = retired + 1 => spike_steps' = skipped' + retired'
    BY <1>1, <2>2, <2>3
  <2> QED
    BY <2>1, <2>3, <2>4, <2>5 DEF Stepped, Early
<1> QED
  BY <1>2, <1>3, <1>4, <1>5, <1>6, <1>7, <1>8, <1>9, <1>10, <1>11, <1>12,
       <1>13
     DEF Next, Controller, System, Startup, Waiting, Loop, Cleanup

LEMMA JudgedStep ==
  ASSUME TypeOK, Judged, Reaped, Next
  PROVE  Judged'
<1>1. CASE StartSpike \/ StartDut \/ AlignQuery \/ AlignPc
  BY <1>1 DEF StartSpike, StartDut, AlignQuery, AlignPc, Judged, Cleaning,
       Reaped, Goto, counters, dutVars, AtPrompt, TakesPrompt, Ask, Fail,
       spikeVars
<1>2. CASE AlignRun \/ SpikeSilent \/ ReadText \/ DutSilent
  BY <1>2 DEF AlignRun, SpikeSilent, ReadText, DutSilent, Judged, Cleaning,
       Reaped, AtPrompt, TakesPrompt, Goto, dutVars, SpikeWaits, Fail,
       counters, spikeVars, control
<1>3. CASE StepDut \/ Idle \/ BadEvent \/ Retire
  BY <1>3 DEF StepDut, Idle, BadEvent, Retire, Judged, Cleaning, Reaped, Send,
       Goto, Fail, counters, spikeVars, TakeLine, Acceptable, Ask
<1>4. CASE Compare \/ Report \/ Reported \/ Final
  BY <1>4 DEF Compare, Report, Reported, Final, Judged, Cleaning, Reaped,
       AtPrompt, TakesPrompt, Goto, Fail, dutVars, Ask, counters, spikeVars,
       Send, Pass
<1>5. CASE FinalEvent \/ Quit \/ KillDut \/ DutReaped
  BY <1>5 DEF FinalEvent, Quit, KillDut, DutReaped, Judged, Cleaning, Reaped,
       TakeLine, Pass, Fail, counters, spikeVars, Goto, dutVars
<1>6. CASE CloseSpike \/ KillSpike \/ SpikeReaped \/ DutKilled
  BY <1>6 DEF CloseSpike, KillSpike, SpikeReaped, DutKilled, Judged, Cleaning,
       Reaped, Goto, counters, dutVars, spikeVars, Prints, control
<1>7. CASE SpikeKilled \/ Pump \/ DutStep \/ DutEnds
  BY <1>7 DEF SpikeKilled, Pump, DutStep, DutEnds, Judged, Cleaning, Reaped,
       control, dutVars, spikeVars, Prints
<1>8. CASE SpikeText \/ SpikeAnswers \/ SpikeEnds \/ Terminated
  BY <1>8 DEF SpikeText, SpikeAnswers, SpikeEnds, Terminated, Judged,
       Cleaning, Reaped, control, dutVars, vars, spikeVars
<1> QED
  BY <1>1, <1>2, <1>3, <1>4, <1>5, <1>6, <1>7, <1>8
     DEF Next, Controller, System, Startup, Waiting, Loop, Cleanup

LEMMA ReapedStep ==
  ASSUME TypeOK, Reaped, Next
  PROVE  Reaped'
<1>1. CASE StartSpike \/ StartDut \/ AlignQuery \/ AlignPc
  BY <1>1 DEF StartSpike, StartDut, AlignQuery, AlignPc, Reaped, TypeOK,
       DutOK, SpikeOK, Goto, counters, dutVars, AtPrompt, TakesPrompt, Ask,
       Fail, spikeVars
<1>2. CASE AlignRun \/ SpikeSilent \/ ReadText \/ DutSilent
  BY <1>2 DEF AlignRun, SpikeSilent, ReadText, DutSilent, Reaped, TypeOK,
       DutOK, SpikeOK, AtPrompt, TakesPrompt, Goto, dutVars, SpikeWaits, Fail,
       counters, spikeVars, control
<1>3. CASE StepDut \/ Idle \/ BadEvent \/ Retire
  BY <1>3 DEF StepDut, Idle, BadEvent, Retire, Reaped, TypeOK, DutOK, SpikeOK,
       Send, Goto, Fail, counters, spikeVars, TakeLine, Acceptable, Ask
<1>4. CASE Compare \/ Report \/ Reported \/ Final
  BY <1>4 DEF Compare, Report, Reported, Final, Reaped, TypeOK, DutOK,
       SpikeOK, AtPrompt, TakesPrompt, Goto, Fail, dutVars, Ask, counters,
       spikeVars, Send, Pass
<1>5. CASE FinalEvent \/ Quit \/ KillDut \/ DutReaped
  BY <1>5 DEF FinalEvent, Quit, KillDut, DutReaped, Reaped, TypeOK, DutOK,
       SpikeOK, TakeLine, Pass, Fail, counters, spikeVars, Goto, dutVars
<1>6. CASE CloseSpike \/ KillSpike \/ SpikeReaped \/ DutKilled
  BY <1>6 DEF CloseSpike, KillSpike, SpikeReaped, DutKilled, Reaped, TypeOK,
       DutOK, SpikeOK, Goto, counters, dutVars, spikeVars, Prints, control
<1>7. CASE SpikeKilled \/ Pump \/ DutStep \/ DutEnds
  BY <1>7 DEF SpikeKilled, Pump, DutStep, DutEnds, Reaped, TypeOK, DutOK,
       SpikeOK, control, dutVars, spikeVars, Prints
<1>8. CASE SpikeText \/ SpikeAnswers \/ SpikeEnds \/ Terminated
  BY <1>8 DEF SpikeText, SpikeAnswers, SpikeEnds, Terminated, Reaped, TypeOK,
       DutOK, SpikeOK, control, dutVars, vars, spikeVars
<1> QED
  BY <1>1, <1>2, <1>3, <1>4, <1>5, <1>6, <1>7, <1>8
     DEF Next, Controller, System, Startup, Waiting, Loop, Cleanup

LEMMA CountedStep ==
  ASSUME TypeOK, Pipes, DutInv, Counted, Judged, Next
  PROVE  Counted'
<1>1. /\ retired \in Nat /\ args.limit \in Nat /\ dut_retires \in Nat
  BY LockstepAssumption DEF TypeOK, ControlOK, DutOK
<1>2. CASE StartSpike \/ StartDut \/ AlignQuery \/ AlignPc
  BY <1>2 DEF StartSpike, StartDut, AlignQuery, AlignPc, Counted, Enough,
       Judged, Cleaning, Goto, counters, dutVars, AtPrompt, TakesPrompt, Ask,
       Fail, spikeVars
<1>3. CASE AlignRun \/ SpikeSilent \/ ReadText \/ DutSilent
  BY <1>3 DEF AlignRun, SpikeSilent, ReadText, DutSilent, Counted, Enough,
       Judged, Cleaning, AtPrompt, TakesPrompt, Goto, dutVars, SpikeWaits,
       Fail, counters, spikeVars, control
<1>4. CASE Idle \/ BadEvent \/ Retire \/ Report
  BY <1>4 DEF Idle, BadEvent, Retire, Report, Counted, Enough, Judged,
       Cleaning, TakeLine, Goto, Fail, spikeVars, counters, Acceptable, Ask,
       dutVars
<1>5. CASE Reported \/ Quit \/ KillDut \/ DutReaped
  BY <1>5 DEF Reported, Quit, KillDut, DutReaped, Counted, Enough, Judged,
       Cleaning, AtPrompt, TakesPrompt, Goto, Fail, dutVars, counters,
       spikeVars
<1>6. CASE CloseSpike \/ KillSpike \/ SpikeReaped \/ DutKilled
  BY <1>6 DEF CloseSpike, KillSpike, SpikeReaped, DutKilled, Counted, Enough,
       Judged, Cleaning, Goto, counters, dutVars, spikeVars, Prints, control
<1>7. CASE SpikeKilled \/ Pump \/ DutStep \/ DutEnds
  BY <1>7 DEF SpikeKilled, Pump, DutStep, DutEnds, Counted, Enough, Judged,
       Cleaning, control, dutVars, spikeVars, Prints
<1>8. CASE SpikeText \/ SpikeAnswers \/ SpikeEnds \/ Terminated
  BY <1>8 DEF SpikeText, SpikeAnswers, SpikeEnds, Terminated, Counted, Enough,
       Judged, Cleaning, control, dutVars, vars, spikeVars
<1>9. CASE StepDut
  <2>1. args' = args /\ retired' = retired /\ verdict = "none"
    BY <1>9 DEF StepDut, counters, Judged, Cleaning
  <2>2. \/ phase' = "event" /\ verdict' = verdict /\ retired < args.limit
        \/ phase' = "quit" /\ verdict' = "error"
        \/ phase' = "final" /\ verdict' = verdict /\ ~(retired < args.limit)
    BY <1>9 DEF StepDut, Send, Goto, Fail
  <2>3. ~(retired < args.limit) => retired = args.limit
    <3>1. retired <= args.limit
      BY DEF Counted
    <3> QED
      BY <1>1, <3>1
  <2> QED
    BY <2>1, <2>2, <2>3 DEF Counted
<1>10. CASE Compare
  <2>1. retired < args.limit /\ verdict = "none" /\ args' = args
    BY <1>10 DEF Compare, Counted, Judged, Cleaning
  <2>2. \/ phase' \in {"report", "quit"} /\ retired' = retired /\ verdict' # "pass"
        \/ /\ retired' = retired + 1 /\ verdict' = verdict
           /\ phase' = "step" \/ (phase' = "final" /\ args.until_trap)
    BY <1>10, <2>1 DEF Compare, Goto, Fail
  <2>3. retired' <= args.limit
    BY <1>1, <2>1, <2>2
  <2> QED
    BY <2>1, <2>2, <2>3 DEF Counted
<1>11. CASE Final
  <2>1. /\ dut_retires = retired /\ ("step" \notin inbox \/ dut = "gone")
        /\ args.until_trap \/ retired = args.limit
        /\ verdict = "none"
    BY <1>11 DEF Final, DutInv, Settled, Calm, Idling, Counted, Judged, Cleaning
  <2>2. /\ args' = args /\ retired' = retired /\ traps' = traps
        /\ dut' = dut /\ dut_retires' = dut_retires
        /\ \/ phase' = "quit" /\ verdict' = "error"
           \/ Enough /\ phase' = "final event" /\ verdict' = "none"
           \/ Enough /\ phase' = "quit" /\ inbox' = inbox
    BY <1>11, <2>1 DEF Final, Send, Goto, Fail, Pass, Enough, counters
  <2>3. Enough' <=> Enough
    BY <2>2 DEF Enough
  <2>4. retired' <= args'.limit /\ phase' \notin {"event", "answer", "final"}
    BY <2>2 DEF Counted
  <2>5. phase' = "final event" => verdict' = "none" /\ Enough
    BY <2>2
  <2>6. verdict' = "pass" => Enough /\ inbox' = inbox
    BY <2>2
  <2> QED
    BY <2>1, <2>2, <2>3, <2>4, <2>5, <2>6 DEF Counted
<1>12. CASE FinalEvent
  <2>1. verdict = "none" /\ Enough
    BY <1>12 DEF FinalEvent, Counted, Judged, Cleaning
  <2>2. /\ UNCHANGED <<args, retired, traps, dut, dut_retires, inbox>>
        /\ \/ phase' = "quit" /\ verdict' = "error"
           \/ phase' = "quit" /\ Head(lines).kind = "done"
    BY <1>12 DEF FinalEvent, Fail, Pass, counters
  <2>3. ASSUME Head(lines).kind = "done"
        PROVE  dut_retires = retired /\ (dut = "up" => "step" \notin inbox)
    <3>1. lines # <<>> /\ First = Head(lines) /\ ~Empty
      BY <1>12 DEF FinalEvent, TakeLine, First, Empty
    <3>2. First.kind # "retire"
      BY <2>3, <3>1
    <3>3. /\ dut = "up" /\ "step" \in inbox => Empty
          /\ ~Empty => dut_retires = retired + One(First.kind = "retire")
      BY <1>12 DEF FinalEvent, DutInv, Awaited, Waits
    <3>4. dut_retires = retired
      BY <1>1, <3>1, <3>2, <3>3 DEF One
    <3> QED
      BY <3>1, <3>3, <3>4
  <2> QED
    BY <2>1, <2>2, <2>3 DEF Counted, Enough
<1> QED
  BY <1>2, <1>3, <1>4, <1>5, <1>6, <1>7, <1>8, <1>9, <1>10, <1>11, <1>12
     DEF Next, Controller, System, Startup, Waiting, Loop, Cleanup

LEMMA DifferentStep ==
  ASSUME TypeOK, Printed, Judged, Different, Next
  PROVE  Different'
<1>1. CASE StartSpike \/ StartDut \/ AlignQuery \/ AlignPc
  BY <1>1 DEF StartSpike, StartDut, AlignQuery, AlignPc, Different, Judged,
       Cleaning, Goto, counters, dutVars, AtPrompt, TakesPrompt, Ask, Fail,
       spikeVars
<1>2. CASE AlignRun \/ SpikeSilent \/ ReadText \/ DutSilent
  BY <1>2 DEF AlignRun, SpikeSilent, ReadText, DutSilent, Different, Judged,
       Cleaning, AtPrompt, TakesPrompt, Goto, dutVars, SpikeWaits, Fail,
       counters, spikeVars, control
<1>3. CASE StepDut \/ Idle \/ BadEvent \/ Retire
  BY <1>3 DEF StepDut, Idle, BadEvent, Retire, Different, Judged, Cleaning,
       Send, Goto, Fail, counters, spikeVars, TakeLine, Acceptable, Ask
<1>4. CASE Report \/ Reported \/ Final \/ FinalEvent
  BY <1>4 DEF Report, Reported, Final, FinalEvent, Different, Judged,
       Cleaning, Ask, Goto, Fail, counters, dutVars, spikeVars, AtPrompt,
       TakesPrompt, Send, Pass, TakeLine
<1>5. CASE Quit \/ KillDut \/ DutReaped \/ CloseSpike
  BY <1>5 DEF Quit, KillDut, DutReaped, CloseSpike, Different, Judged,
       Cleaning, Goto, counters, spikeVars, dutVars
<1>6. CASE KillSpike \/ SpikeReaped \/ DutKilled \/ SpikeKilled
  BY <1>6 DEF KillSpike, SpikeReaped, DutKilled, SpikeKilled, Different,
       Judged, Cleaning, Goto, counters, dutVars, spikeVars, Prints, control
<1>7. CASE Pump \/ DutStep \/ DutEnds \/ SpikeText
  BY <1>7 DEF Pump, DutStep, DutEnds, SpikeText, Different, Judged, Cleaning,
       control, spikeVars, Prints, dutVars
<1>8. CASE SpikeAnswers \/ SpikeEnds \/ Terminated
  BY <1>8 DEF SpikeAnswers, SpikeEnds, Terminated, Different, Judged,
       Cleaning, control, dutVars, vars, spikeVars
<1>9. CASE Compare
  <2>1. IsEvent(event) /\ IsAnswer(says)
    BY <1>9 DEF Compare, Printed
  <2>2. event' = event /\ answer' = says /\ verdict = "none"
    BY <1>9 DEF Compare, Judged, Cleaning
  <2>3. \/ phase' \in {"step", "final", "quit"} /\ verdict' # "diverged"
        \/ ~Garbled /\ differences(event, Reference) # {}
    BY <1>9, <2>2 DEF Compare, Goto, Fail
  <2> QED
    BY <2>1, <2>2, <2>3 DEF Different, Garbled, Reference
<1> QED
  BY <1>1, <1>2, <1>3, <1>4, <1>5, <1>6, <1>7, <1>8, <1>9
     DEF Next, Controller, System, Startup, Waiting, Loop, Cleanup

VInv == IInv /\ VerdictInv

LEMMA VerdictInit == ASSUME Init PROVE VerdictInv
<1>1. Printed
  BY DEF Init, Printed, IsAnswer, Plain
<1>2. Quiet /\ Judged /\ Reaped /\ Different
  BY DEF Init, Quiet, Judged, Cleaning, Reaped, Different
<1>3. Stepped
  BY DEF Init, Stepped, Early, Reached, One
<1>4. Counted
  <2>1. args.limit \in Nat
    BY LockstepAssumption DEF Init
  <2> QED
    BY <2>1 DEF Init, Counted
<1> QED
  BY <1>1, <1>2, <1>3, <1>4 DEF VerdictInv

LEMMA VerdictStep == ASSUME VInv, [Next]_vars PROVE VerdictInv'
<1>1. CASE Next
  BY <1>1, PrintedStep, QuietStep, SteppedStep, CountedStep, JudgedStep,
     DifferentStep, ReapedStep DEF VInv, IInv, VerdictInv
<1>2. CASE UNCHANGED vars
  <2> USE <1>2 DEF vars, control, dutVars, spikeVars, VInv, VerdictInv
  <2>1. Printed' /\ Quiet'
    BY DEF Printed, Quiet
  <2>2. Stepped'
    BY DEF Stepped, Reached
  <2>3. Counted' /\ Judged'
    BY DEF Counted, Enough, Judged
  <2>4. Different' /\ Reaped'
    BY DEF Different, Reaped
  <2> QED
    BY <2>1, <2>2, <2>3, <2>4
<1> QED
  BY <1>1, <1>2

(* The invariant from which the exit status has its meaning holds.         *)
THEOREM VerdictInvariant == Spec => []VInv
<1>1. Init => VInv
  BY IInvInit, VerdictInit DEF VInv
<1>2. VInv /\ [Next]_vars => VInv'
  BY IInvStep, VerdictStep DEF VInv
<1> QED
  BY <1>1, <1>2, PTL DEF Spec

(* Exit status 0 means that as many retirements were compared as were      *)
(* asked for and that the DUT ended by itself without an error; 1 means    *)
(* that the last event really differs from the step Spike took; and no     *)
(* process outlives the comparison (lockstep.py:352-392).                  *)
THEOREM ExitIsMeant == Spec => []ExitMeans
<1>1. ASSUME VInv PROVE ExitMeans
  <2> SUFFICES ASSUME phase = "exited"
               PROVE  /\ exit_code = 0 =>
                           /\ IF args.until_trap THEN traps = 1 ELSE retired = args.limit
                           /\ spike_steps = skipped + retired /\ dut_retires = retired
                           /\ dut_code = 0
                      /\ exit_code = 1 => ~Agrees(event, answer)
                      /\ dut # "up" /\ (dut # "absent" => spike = "gone")
    BY DEF ExitMeans
  <2>1. /\ exit_code = 0 => verdict = "pass"
        /\ exit_code = 1 => verdict = "diverged"
    BY DEF exit_code
  <2>2. ASSUME verdict = "pass"
        PROVE  /\ Enough /\ spike_steps = skipped + retired /\ dut_retires = retired
               /\ dut_code = 0
    BY <1>1, <2>2 DEF VInv, VerdictInv, Counted, Stepped, Judged
  <2>3. ASSUME verdict = "diverged" PROVE ~Agrees(event, answer)
    BY <1>1, <2>3, SameStep DEF VInv, VerdictInv, Different
  <2>4. dut # "up" /\ (dut # "absent" => spike = "gone")
    BY <1>1 DEF VInv, VerdictInv, Reaped
  <2> QED
    BY <2>1, <2>2, <2>3, <2>4 DEF Enough
<1> QED
  BY <1>1, VerdictInvariant, PTL

(* A retirement is counted only when it is the architectural step Spike    *)
(* took, byte for byte and register for register (lockstep.py:300-351).    *)
THEOREM AgreementCounts == Spec => OnlyAgreementCounts
<1>1. ASSUME VInv, [Next]_vars, retired' # retired
      PROVE  /\ event.order = retired /\ Len(says.commits) + Len(says.traps) = 1
             /\ Agrees(event, says)
  <2>1. Compare
    <3>1. Compare \/ retired' = retired
      BY <1>1 DEF Next, Controller, System, Startup, Waiting, Loop, Cleanup,
         StartSpike, StartDut, AlignQuery, AlignPc, AlignRun, SpikeSilent, ReadText,
         DutSilent, StepDut, Idle, BadEvent, Retire, Report, Reported, Final,
         FinalEvent, Quit, KillDut, DutReaped, CloseSpike, KillSpike, SpikeReaped,
         DutKilled, SpikeKilled, Pump, DutStep, DutEnds, SpikeText, SpikeAnswers,
         SpikeEnds, Terminated, counters, control, vars
    <3> QED
      BY <1>1, <3>1
  <2>2. IsEvent(event) /\ event.order = retired /\ IsAnswer(says)
    BY <1>1, <2>1 DEF Compare, VInv, VerdictInv, Printed
  <2>3. ~Garbled /\ differences(event, Reference) = {}
    BY <1>1, <2>1 DEF Compare
  <2>4. says.kind = "lines" /\ Parses(says)
    BY <2>3 DEF Garbled
  <2>5. Agrees(event, says)
    BY <2>2, <2>3, <2>4, SameStep DEF Reference
  <2> QED
    BY <2>2, <2>4, <2>5 DEF Parses
<1>2. VInv /\ [Next]_vars =>
        [retired' # retired =>
           /\ event.order = retired /\ Len(says.commits) + Len(says.traps) = 1
           /\ Agrees(event, says)]_vars
  BY <1>1
<1> QED
  BY <1>2, VerdictInvariant, PTL DEF Spec, OnlyAgreementCounts
=============================================================================
