------------------------------ MODULE DeviceProofs ------------------------------
(***************************************************************************)
(* The devices of the peripheral bus, each with any number of what it has: *)
(* sources, contexts and priority levels of the interrupt controller, the  *)
(* width of the timer's registers, the devices behind the adapter, the     *)
(* depth of the serial port's rings, the windows of the pin's handover.    *)
(***************************************************************************)
EXTENDS MCDevices, WellFoundedInduction, SequenceTheorems, TLAPS

(* A step is one of the device a behaviour is about, and of no other.      *)
LEMMA OneDevice ==
  [MCNext]_all => /\ [Next]_vars
                  /\ [Timer!Next]_(Timer!vars) /\ [Bus!Next]_(Bus!vars)
                  /\ [Serial!Next]_(Serial!vars) /\ [Pin!Next]_(Pin!vars)
BY DEF MCNext, all, timerVars, busVars, serialVars, pinVars,
       Timer!vars, Timer!software,
       Bus!vars, Bus!bridgeVars, Bus!adapterVars, Bus!muxVars,
       Serial!vars, Serial!config, Serial!txVars, Serial!rxVars,
       Pin!vars, Pin!owner

-----------------------------------------------------------------------------
(* The interrupt controller.                                               *)
LEMMA LeastNat ==
  ASSUME NEW D \in SUBSET Nat, D # {}
  PROVE  \E k \in D : \A j \in D : k <= j
<1> DEFINE Less == OpToRel(<, Nat)
<1>1. IsWellFoundedOn(Less, Nat)
  BY NatLessThanWellFounded
<1>2. \A a, b \in Nat : a < b => <<a, b>> \in Less
  BY Zenon DEF OpToRel
<1> HIDE DEF Less
<1>3. PICK k \in D : \A j \in D : ~(<<j, k>> \in Less)
  BY <1>1, WFMin
<1>4. \A j \in D : ~(j < k)
  BY <1>2, <1>3, Zenon
<1>5. QED
  BY <1>4

(* The scan finds a source: one of the highest priority, the first of them.*)
LEMMA FirstOfHighest ==
  ASSUME NEW f \in [Sources -> Priorities], NEW C \in SUBSET Sources, C # {}
  PROVE  \E id \in C : \A o \in C : f[o] < f[id] \/ (f[o] = f[id] /\ id <= o)
<1> DEFINE Short == {MaxPriority - f[id] : id \in C}
<1>1. Short \in SUBSET Nat /\ Short # {}
  BY PlicAssumption DEF Priorities
<1>2. PICK k \in Short : \A j \in Short : k <= j
  BY <1>1, LeastNat
<1>3. PICK top \in C : k = MaxPriority - f[top]
  OBVIOUS
<1>4. \A o \in C : f[o] <= f[top]
  BY <1>2, <1>3, PlicAssumption DEF Priorities
<1> DEFINE Tops == {id \in C : f[id] = f[top]}
<1>5. Tops \in SUBSET Nat /\ Tops # {}
  BY DEF Sources
<1>6. PICK id \in Tops : \A o \in Tops : id <= o
  BY <1>5, LeastNat
<1>7. \A o \in C : f[o] < f[id] \/ (f[o] = f[id] /\ id <= o)
  BY <1>4, <1>6, PlicAssumption DEF Priorities
<1>8. QED
  BY <1>6, <1>7

PlicInv == TypeOK /\ NotRaisedInService /\ ClaimsHeld

LEMMA BestIsCandidate ==
  ASSUME TypeOK, NEW c \in Contexts, Best(c) # NoSource
  PROVE  /\ Best(c) \in pending /\ Best(c) \in Sources
         /\ Candidates(c) # {} /\ Best(c) \in Candidates(c)
<1>1. Candidates(c) # {}
  BY DEF Best
<1>2. Best(c) \in Candidates(c)
  BY <1>1, FirstOfHighest DEF Best, Candidates, TypeOK
<1>3. QED
  BY <1>1, <1>2 DEF Candidates, TypeOK

LEMMA PlicInit == Init => PlicInv
BY PlicAssumption
   DEF Init, PlicInv, TypeOK, NotRaisedInService, ClaimsHeld, Sources, Contexts, Priorities

LEMMA FieldType == \A word \in Words : Field(word) \in Priorities
BY PlicAssumption DEF Words, Field, Priorities

LEMMA LatchOnly ==
  ASSUME PlicInv, pending' = Raised({}), in_service' = in_service
  PROVE  /\ pending' \subseteq Sources
         /\ NotRaisedInService'
         /\ pending \subseteq pending'
BY DEF PlicInv, TypeOK, NotRaisedInService, Raised, Latched

LEMMA ClaimStep ==
  ASSUME PlicInv, NEW c \in Contexts, Claim(c) PROVE PlicInv'
<1>1. CASE Best(c) = NoSource
  BY <1>1, LatchOnly DEF PlicInv, TypeOK, ClaimsHeld, Claim, Accept, config
<1>2. CASE Best(c) # NoSource
  <2>1. Best(c) \in pending /\ Best(c) \in Sources /\ Best(c) \notin in_service
    BY <1>2, BestIsCandidate DEF PlicInv, NotRaisedInService
  <2> DEFINE b == Best(c)
  <2>2. /\ pending' = Raised({b})
        /\ in_service' = in_service \cup {b}
        /\ owner' = [owner EXCEPT ![b] = c]
        /\ claimed' = [claimed EXCEPT ![c] = @ \cup {b}]
        /\ response' = "data" /\ UNCHANGED <<level, config>>
    BY <1>2 DEF Claim, Accept
  <2> HIDE DEF b
  <2>3. b \in pending /\ b \in Sources /\ b \notin in_service
    BY <2>1 DEF b
  <2>4. TypeOK'
    BY <2>2, <2>3 DEF PlicInv, TypeOK, config, Raised, Latched
  <2>5. NotRaisedInService'
    BY <2>2 DEF PlicInv, NotRaisedInService, Raised, Latched
  <2>6. ClaimsHeld'
    BY <2>2, <2>3 DEF PlicInv, TypeOK, ClaimsHeld
  <2>7. QED
    BY <2>4, <2>5, <2>6 DEF PlicInv
<1>3. QED
  BY <1>1, <1>2

LEMMA CompleteStep ==
  ASSUME PlicInv, NEW c \in Contexts, Complete(c) PROVE PlicInv'
<1>1. pending' = Raised({}) /\ response' = "data" /\ UNCHANGED <<level, config, owner>>
  BY DEF Complete, Accept
<1>2. CASE UNCHANGED <<in_service, claimed>>
  BY <1>1, <1>2, LatchOnly DEF PlicInv, TypeOK, ClaimsHeld, config
<1>3. ASSUME NEW id \in Sources, in_service' = Completed(c, id),
             claimed' = [claimed EXCEPT ![c] = @ \ {id}]
      PROVE  PlicInv'
  <2>1. TypeOK'
    BY <1>1, <1>3 DEF PlicInv, TypeOK, config, Completed, Raised, Latched
  <2>2. NotRaisedInService'
    BY <1>1, <1>3 DEF PlicInv, NotRaisedInService, Raised, Latched, Completed
  <2>3. ClaimsHeld'
    BY <1>1, <1>3 DEF PlicInv, TypeOK, ClaimsHeld, Completed
  <2>4. QED
    BY <2>1, <2>2, <2>3 DEF PlicInv
<1>4. QED
  BY <1>2, <1>3 DEF Complete

LEMMA PlicStep == PlicInv /\ [Next]_vars => PlicInv'
<1> SUFFICES ASSUME PlicInv, [Next]_vars PROVE PlicInv'
  OBVIOUS
<1>1. CASE Wires
  BY <1>1 DEF Wires, PlicInv, TypeOK, NotRaisedInService, ClaimsHeld, config
<1>2. CASE NoRequest
  BY <1>2, LatchOnly DEF NoRequest, PlicInv, TypeOK, ClaimsHeld, config
<1>3. CASE TakeResponse
  BY <1>3, LatchOnly DEF TakeResponse, PlicInv, TypeOK, ClaimsHeld, config
<1>4. CASE BadRequest
  BY <1>4, LatchOnly DEF BadRequest, Accept, PlicInv, TypeOK, ClaimsHeld, config
<1>5. CASE ReadRegister
  BY <1>5, LatchOnly DEF ReadRegister, Accept, PlicInv, TypeOK, ClaimsHeld, config
<1>6. CASE WriteRegister
  <2>1. /\ source_priority' \in [Sources -> Priorities]
        /\ threshold' \in [Contexts -> Priorities]
        /\ enable' \in [Contexts -> SUBSET Sources]
    BY <1>6, FieldType DEF WriteRegister, PlicInv, TypeOK
  <2>2. QED
    BY <1>6, <2>1, LatchOnly DEF WriteRegister, Accept, PlicInv, TypeOK, ClaimsHeld
<1>7. CASE Reset
  BY <1>7, PlicAssumption
     DEF Reset, PlicInv, TypeOK, NotRaisedInService, ClaimsHeld, Sources, Contexts, Priorities
<1>8. ASSUME NEW c \in Contexts, Claim(c) \/ Complete(c) PROVE PlicInv'
  BY <1>8, ClaimStep, CompleteStep
<1>9. CASE UNCHANGED vars
  BY <1>9 DEF vars, config, PlicInv, TypeOK, NotRaisedInService, ClaimsHeld
<1>10. QED
  BY <1>1, <1>2, <1>3, <1>4, <1>5, <1>6, <1>7, <1>8, <1>9 DEF Next

LEMMA PlicAlways == MCSpec => []PlicInv
<1>1. MCInit => PlicInv
  BY PlicInit DEF MCInit
<1>2. QED
  BY <1>1, PlicStep, OneDevice, PTL DEF MCSpec

(* Every variable keeps its type: claims only ever name real sources.      *)
THEOREM PlicTypes == MCSpec => []TypeOK
<1>1. PlicInv => TypeOK
  BY DEF PlicInv
<1>2. QED
  BY <1>1, PlicAlways, PTL

(* A source in service is not raised again, and is held by the one context *)
(* that claimed it until that context completes it.                        *)
THEOREM PlicClaims == MCSpec => []ServedOnce
<1>1. PlicInv => ServedOnce
  BY DEF PlicInv, ServedOnce
<1>2. QED
  BY <1>1, PlicAlways, PTL

(* A step that claims nothing and reprograms nothing withdraws no pending  *)
(* source.                                                                 *)
LEMMA PendingHolds ==
  ASSUME PlicInv, [Next]_vars, UNCHANGED <<config, in_service>>,
         NEW c \in Contexts, irq(c)
  PROVE  pending \subseteq pending'
<1>1. /\ Best(c) \in Sources /\ source_priority[Best(c)] > threshold[c]
      /\ threshold[c] \in Nat
  BY BestIsCandidate DEF irq, PlicInv, TypeOK, Priorities
<1>2. CASE pending' = Raised({}) \/ pending' = pending
  BY <1>2 DEF Raised
<1>3. CASE Reset
  <2>1. source_priority[Best(c)] = 0
    BY <1>1, <1>3 DEF Reset, config
  <2>2. QED
    BY <1>1, <2>1
<1>4. ASSUME NEW d \in Contexts, Claim(d) PROVE pending \subseteq pending'
  <2>1. CASE Best(d) = NoSource
    BY <1>4, <2>1, <1>2 DEF Claim
  <2>2. CASE Best(d) # NoSource
    <3>1. Best(d) \in pending /\ in_service' = in_service \cup {Best(d)}
      BY <1>4, <2>2, BestIsCandidate DEF Claim, PlicInv
    <3>2. Best(d) \notin in_service
      BY <3>1 DEF PlicInv, NotRaisedInService
    <3>3. QED
      BY <3>1, <3>2
  <2>3. QED
    BY <2>1, <2>2
<1>5. QED
  BY <1>2, <1>3, <1>4
     DEF Next, vars, Wires, NoRequest, TakeResponse, BadRequest, ReadRegister,
         WriteRegister, Complete

(* A context's interrupt line falls only by a claim or by reprogramming.   *)
THEOREM PlicSignals == MCSpec => IrqHolds
<1>1. ASSUME PlicInv, PlicInv', [Next]_vars, NEW c \in Contexts, irq(c),
             UNCHANGED <<config, in_service>>
      PROVE  irq(c)'
  <2>1. pending \subseteq pending'
    BY <1>1, PendingHolds
  <2>2. /\ Best(c) \in Candidates(c) /\ Best(c) \in Sources
        /\ source_priority[Best(c)] > threshold[c]
    BY <1>1, BestIsCandidate DEF irq, PlicInv
  <2>3. Best(c) \in Candidates(c)'
    BY <1>1, <2>1, <2>2 DEF Candidates, config
  <2> DEFINE C == Candidates(c)'
             f == source_priority'
  <2>4. C \in SUBSET Sources /\ f \in [Sources -> Priorities] /\ C # {}
    BY <1>1, <2>3 DEF Candidates, PlicInv, TypeOK
  <2>5. Best(c)' = CHOOSE id \in C :
                     \A o \in C : f[o] < f[id] \/ (f[o] = f[id] /\ id <= o)
    BY <2>4 DEF Best
  <2> HIDE DEF C, f
  <2>6. /\ Best(c)' \in C
        /\ \A o \in C : f[o] < f[Best(c)'] \/ (f[o] = f[Best(c)'] /\ Best(c)' <= o)
    BY <2>4, <2>5, FirstOfHighest
  <2>7. /\ f[Best(c)] \in Nat /\ f[Best(c)'] \in Nat
        /\ f[Best(c)] <= f[Best(c)']
    BY <2>2, <2>3, <2>4, <2>6, PlicAssumption DEF C, Priorities
  <2>8. /\ f[Best(c)] > threshold'[c] /\ threshold'[c] \in Nat
    BY <1>1, <2>2, PlicAssumption DEF f, config, PlicInv, TypeOK, Priorities
  <2>9. Best(c)' # NoSource
    BY <2>4, <2>6, PlicAssumption DEF Sources, NoSource
  <2>10. QED
    BY <2>7, <2>8, <2>9 DEF irq, f
<1>2. PlicInv /\ PlicInv' /\ [Next]_vars =>
        [\A c \in Contexts :
           irq(c) /\ UNCHANGED <<config, in_service>> => irq(c)']_vars
  BY <1>1
<1>3. QED
  BY <1>2, PlicAlways, OneDevice, PTL DEF MCSpec, IrqHolds

-----------------------------------------------------------------------------
(* The timer.                                                              *)
(* The halves of a time are halves, and make it up.                        *)
LEMMA HalvesOfTime ==
  ASSUME NEW t \in Timer!Times
  PROVE  /\ Timer!High(t) \in Timer!Halves /\ Timer!Low(t) \in Timer!Halves
         /\ t = Timer!High(t) * Half + Timer!Low(t)
<1>1. /\ t \in Nat /\ t < Half * Half /\ Half \in Nat /\ Half > 1
  BY TimerAssumption, Z3 DEF Timer!Times
<1>2. /\ t = Half * (t \div Half) + (t % Half)
      /\ (t % Half) \in 0 .. Half - 1 /\ t \div Half \in Nat
  BY <1>1, Z3
<1>3. t \div Half < Half
  <2>1. SUFFICES ASSUME Half <= t \div Half PROVE FALSE
    BY <1>1, <1>2
  <2>2. Half * Half <= Half * (t \div Half)
    BY <1>1, <1>2, <2>1, SMT
  <2>3. QED
    BY <1>1, <1>2, <2>2, SMT
<1>4. QED
  BY <1>1, <1>2, <1>3, SMT DEF Timer!High, Timer!Low, Timer!Halves

(* Two halves make a time, whose halves they are.                          *)
LEMMA TimeOfHalves ==
  ASSUME NEW h \in Timer!Halves, NEW l \in Timer!Halves
  PROVE  /\ h * Half + l \in Timer!Times
         /\ Timer!High(h * Half + l) = h /\ Timer!Low(h * Half + l) = l
<1>1. /\ h \in Nat /\ l \in Nat /\ Half \in Nat /\ Half > 1
      /\ h <= Half - 1 /\ l < Half
  BY TimerAssumption DEF Timer!Halves
<1>2. h * Half <= (Half - 1) * Half
  BY <1>1, SMT
<1>3. (h * Half + l) \div Half = h /\ (h * Half + l) % Half = l
  BY <1>1, SMTT(60)
<1>4. h * Half + l \in Timer!Times
  BY <1>1, <1>2, SMT DEF Timer!Times
<1>5. QED
  BY <1>3, <1>4 DEF Timer!High, Timer!Low

(* Of two times the one with the larger high half, and a low half no       *)
(* smaller, is no earlier.                                                 *)
LEMMA LaterTime ==
  ASSUME NEW t \in Timer!Times, NEW l \in Timer!Halves,
         l >= Timer!Low(t)
  PROVE  (Half - 1) * Half + l >= t
<1>1. /\ Timer!High(t) \in Nat /\ Timer!High(t) <= Half - 1 /\ Timer!Low(t) \in Nat
      /\ l \in Nat /\ Half \in Nat /\ t = Timer!High(t) * Half + Timer!Low(t)
  BY HalvesOfTime, TimerAssumption DEF Timer!Halves
<1>2. Timer!High(t) * Half <= (Half - 1) * Half
  BY <1>1, SMT
<1>3. QED
  BY <1>1, <1>2, SMT

(* What has been written of a new deadline.                                *)
Postponed ==
  /\ cl_step = 1 => /\ Timer!High(cl_mtimecmp) = Timer!Sentinel
                    /\ cl_mtimecmp >= cl_deadline
  /\ cl_step = 2 => /\ Timer!High(cl_mtimecmp) = Timer!Sentinel
                    /\ cl_mtimecmp >= cl_target
                    /\ Timer!Low(cl_mtimecmp) = Timer!Low(cl_target)
TimerInv == /\ cl_mtime \in Timer!Times /\ cl_mtimecmp \in Timer!Times
            /\ cl_deadline \in Timer!Times /\ cl_target \in Timer!Times
            /\ cl_step \in 0 .. 2
            /\ cl_step = 0 => cl_mtimecmp = cl_deadline
            /\ Postponed

LEMMA TimerInit == ASSUME Timer!Init PROVE TimerInv
<1>1. Half * Half - 1 \in Timer!Times /\ 0 \in Timer!Times
  BY TimerAssumption, SMT DEF Timer!Times
<1>2. QED
  BY <1>1 DEF Timer!Init, TimerInv, Postponed

(* What an edge leaves of the time is a time.                              *)
LEMMA TickedTime == ASSUME TimerInv PROVE Timer!Ticked \in Timer!Times
<1> DEFINE n == cl_mtime + (IF Timer!tick THEN 1 ELSE 0)
           s == Half * Half
<1>1. s \in Nat \ {0} /\ n \in Nat
  BY TimerAssumption, SMT DEF TimerInv, Timer!Times
<1> HIDE DEF n, s
<1>2. n % s \in 0 .. s - 1
  BY <1>1, SMT
<1>3. QED
  BY <1>2 DEF Timer!Ticked, n, s, Timer!Times

(* The steps that do not write the compare register.                       *)
LEMMA TimeOnly ==
  ASSUME TimerInv, UNCHANGED <<cl_mtimecmp, Timer!software>>,
         cl_mtime' \in Timer!Times
  PROVE  TimerInv'
BY DEF TimerInv, Postponed, Timer!software, Timer!High, Timer!Low

LEMMA TimerStep == ASSUME TimerInv, [Timer!Next]_(Timer!vars) PROVE TimerInv'
<1>1. Timer!Ticked \in Timer!Times
  BY TickedTime
<1>2. Timer!Sentinel \in Timer!Halves
  BY TimerAssumption, SMT DEF Timer!Sentinel, Timer!Halves
<1>3. CASE \/ Timer!NoRequest \/ Timer!TakeResponse \/ Timer!BadRequest
           \/ Timer!ReadRegister \/ Timer!WriteMsip
  BY <1>1, <1>3, TimeOnly
     DEF Timer!NoRequest, Timer!TakeResponse, Timer!BadRequest,
         Timer!ReadRegister, Timer!WriteMsip, Timer!Clocked
<1>4. CASE Timer!WriteTime
  <2>1. PICK half \in Timer!Halves :
          \/ Timer!Clocked(Timer!WithLow(Timer!Ticked, half))
          \/ Timer!Clocked(Timer!WithHigh(Timer!Ticked, half))
    BY <1>4 DEF Timer!WriteTime
  <2>2. /\ Timer!WithLow(Timer!Ticked, half) \in Timer!Times
        /\ Timer!WithHigh(Timer!Ticked, half) \in Timer!Times
    BY <1>1, <2>1, HalvesOfTime, TimeOfHalves
       DEF Timer!WithLow, Timer!WithHigh
  <2>3. QED
    BY <1>4, <2>1, <2>2, TimeOnly DEF Timer!WriteTime, Timer!Clocked
<1>5. CASE Timer!Postpone
  <2>1. /\ cl_mtimecmp' = Timer!Sentinel * Half + Timer!Low(cl_mtimecmp)
        /\ cl_mtime' \in Timer!Times /\ cl_step = 0 /\ cl_step' = 1
        /\ cl_target' \in Timer!Times /\ cl_deadline' = cl_deadline
    BY <1>1, <1>5
       DEF Timer!Postpone, Timer!WriteCmpHi, Timer!Clocked, Timer!WithHigh
  <2>2. /\ cl_mtimecmp = cl_deadline /\ cl_deadline \in Timer!Times
        /\ Timer!Low(cl_mtimecmp) \in Timer!Halves
    BY <2>1, HalvesOfTime DEF TimerInv
  <2>3. cl_mtimecmp' \in Timer!Times /\ Timer!High(cl_mtimecmp') = Timer!Sentinel
    BY <1>2, <2>1, <2>2, TimeOfHalves
  <2>4. cl_mtimecmp' >= cl_deadline
    <3>1. Timer!Low(cl_mtimecmp) >= Timer!Low(cl_deadline)
      BY <2>2, SMT DEF Timer!Halves
    <3>2. QED
      BY <2>1, <2>2, <3>1, LaterTime DEF Timer!Sentinel
  <2>5. QED
    BY <2>1, <2>2, <2>3, <2>4 DEF TimerInv, Postponed, Timer!High
<1>6. CASE Timer!SetLow
  <2>1. /\ cl_mtimecmp' = Timer!High(cl_mtimecmp) * Half + Timer!Low(cl_target)
        /\ cl_mtime' \in Timer!Times /\ cl_step = 1 /\ cl_step' = 2
        /\ cl_target' = cl_target /\ cl_deadline' = cl_deadline
    BY <1>1, <1>6 DEF Timer!SetLow, Timer!WriteCmpLo, Timer!Clocked, Timer!WithLow
  <2>2. /\ Timer!High(cl_mtimecmp) = Timer!Sentinel /\ cl_deadline \in Timer!Times
        /\ cl_target \in Timer!Times /\ Timer!Low(cl_target) \in Timer!Halves
    BY <2>1, HalvesOfTime DEF TimerInv, Postponed
  <2>3. /\ cl_mtimecmp' \in Timer!Times /\ Timer!High(cl_mtimecmp') = Timer!Sentinel
        /\ Timer!Low(cl_mtimecmp') = Timer!Low(cl_target)
    BY <1>2, <2>1, <2>2, TimeOfHalves
  <2>4. cl_mtimecmp' >= cl_target
    <3>1. Timer!Low(cl_target) >= Timer!Low(cl_target)
      BY <2>2, SMT DEF Timer!Halves
    <3>2. QED
      BY <2>1, <2>2, <3>1, LaterTime DEF Timer!Sentinel
  <2>5. QED
    BY <2>1, <2>2, <2>3, <2>4 DEF TimerInv, Postponed, Timer!High, Timer!Low
<1>7. CASE Timer!SetHigh
  <2>1. /\ cl_mtimecmp' = Timer!High(cl_target) * Half + Timer!Low(cl_mtimecmp)
        /\ cl_mtime' \in Timer!Times /\ cl_step = 2 /\ cl_step' = 0
        /\ cl_target' = cl_target /\ cl_deadline' = cl_target
    BY <1>1, <1>7 DEF Timer!SetHigh, Timer!WriteCmpHi, Timer!Clocked, Timer!WithHigh
  <2>2. cl_target \in Timer!Times /\ Timer!Low(cl_mtimecmp) = Timer!Low(cl_target)
    BY <2>1 DEF TimerInv, Postponed
  <2>3. cl_mtimecmp' = cl_target
    BY <2>1, <2>2, HalvesOfTime
  <2>4. QED
    BY <2>1, <2>2, <2>3 DEF TimerInv, Postponed
<1>8. CASE Timer!Reset
  <2>1. Half * Half - 1 \in Timer!Times /\ 0 \in Timer!Times
    BY TimerAssumption, SMT DEF Timer!Times
  <2>2. QED
    BY <1>8, <2>1 DEF Timer!Reset, TimerInv, Postponed
<1>9. CASE UNCHANGED Timer!vars
  BY <1>9, TimeOnly DEF Timer!vars, TimerInv
<1>10. QED
  BY <1>3, <1>4, <1>5, <1>6, <1>7, <1>8, <1>9 DEF Timer!Next, Timer!Edge

(* A deadline set in halves raises the interrupt when it has come and not  *)
(* before, for registers of any width (clint.sv:43, 58-65, 86-93).         *)
THEOREM DeadlinesExact == MCSpec => []TimerExact
<1>1. ASSUME TimerInv PROVE TimerExact
  <2>1. /\ cl_mtime \in Nat /\ cl_mtimecmp \in Nat
        /\ cl_deadline \in Nat /\ cl_target \in Nat
    BY <1>1, SMT, TimerAssumption DEF TimerInv, Timer!Times
  <2>2. QED
    BY <1>1, <2>1, SMT
       DEF TimerInv, Postponed, TimerExact, Timer!TimerExact, Timer!mtip_irq
<1>2. MCInit => TimerInv
  BY TimerInit DEF MCInit
<1>3. TimerInv /\ [MCNext]_all => TimerInv'
  BY TimerStep, OneDevice
<1>4. QED
  BY <1>1, <1>2, <1>3, PTL DEF MCSpec

-----------------------------------------------------------------------------
(* The handover of the pin.                                                *)
(* While a halted core's store is on its way, the window has not been open *)
(* for longer than the store has travelled.                                *)
PinTypes == /\ uo_quiet \in 0 .. QUIET_CYCLES
            /\ uo_halt_cpu \in BOOLEAN /\ uo_debug_selected \in BOOLEAN
            /\ uo_console \in Nat /\ uo_flight \in 0 .. Pin!NoStore
NoOlderThanStore ==
  /\ ~uo_halt_cpu => uo_quiet = 0
  /\ uo_halt_cpu /\ uo_flight # Pin!NoStore => uo_quiet <= uo_flight
PinInv == /\ PinTypes
          /\ NoOlderThanStore
          /\ uo_debug_selected => uo_halt_cpu
          /\ Pin!HandOver

LEMMA PinInit == ASSUME Pin!Init PROVE PinInv
<1>1. /\ uo_quiet \in 0 .. QUIET_CYCLES /\ uo_console \in Nat
      /\ uo_flight \in 0 .. Pin!NoStore
  BY PinAssumption, SMT DEF Pin!Init, Pin!NoStore
<1>2. ~uo_halt_cpu /\ ~uo_debug_selected /\ uo_quiet = 0
      /\ uo_halt_cpu \in BOOLEAN /\ uo_debug_selected \in BOOLEAN
  BY DEF Pin!Init
<1>3. QED
  BY <1>1, <1>2 DEF PinInv, PinTypes, NoOlderThanStore, Pin!HandOver

(* An edge of a core that is halted takes no new store.                    *)
LEMMA PinEdge == ASSUME PinInv, Pin!Edge PROVE PinInv'
<1>1. PinTypes'
  <2>1. /\ uo_quiet' \in 0 .. QUIET_CYCLES
        /\ uo_halt_cpu' \in BOOLEAN /\ uo_debug_selected' \in BOOLEAN
    BY PinAssumption, SMT DEF PinInv, PinTypes, Pin!Edge, Pin!Owner
  <2>2. uo_console' \in Nat /\ uo_flight' \in 0 .. Pin!NoStore
    BY PinAssumption, SMT
       DEF PinInv, PinTypes, Pin!Edge, Pin!Console, Pin!Store, Pin!Travel,
           Pin!Land, Pin!NoStore
  <2>3. QED
    BY <2>1, <2>2 DEF PinTypes
<1>2. NoOlderThanStore'
  BY PinAssumption, SMT
     DEF PinInv, PinTypes, NoOlderThanStore, Pin!Edge, Pin!Owner, Pin!Console,
         Pin!Store, Pin!Travel, Pin!Land, Pin!NoStore
<1>3. Pin!Select => uo_flight = Pin!NoStore
  BY PinAssumption, SMT
     DEF PinInv, PinTypes, NoOlderThanStore, Pin!Select, Pin!NoStore
<1>4. uo_debug_selected' => uo_halt_cpu /\ Pin!console_idle /\ uo_flight = Pin!NoStore
  BY <1>3 DEF PinInv, Pin!HandOver, Pin!Edge, Pin!Owner, Pin!Select
<1>5. ASSUME uo_debug_selected'
      PROVE  uo_halt_cpu' /\ (Pin!console_idle /\ uo_flight = Pin!NoStore)'
  <2>1. uo_halt_cpu /\ uo_console = 0 /\ uo_flight = Pin!NoStore
    BY <1>4, <1>5 DEF Pin!console_idle
  <2>2. uo_halt_cpu'
    BY <2>1 DEF Pin!Edge, Pin!Owner
  <2>3. ~Pin!Store /\ ~Pin!Land
    BY <2>1 DEF Pin!Store, Pin!Land
  <2>4. Pin!Travel /\ uo_console' = 0
    BY <2>1, <2>3, SMT DEF Pin!Edge, Pin!Console
  <2>5. uo_flight' = Pin!NoStore
    BY <2>1, <2>4 DEF Pin!Travel
  <2>6. QED
    BY <2>2, <2>4, <2>5 DEF Pin!console_idle, Pin!NoStore
<1>6. QED
  BY <1>1, <1>2, <1>5 DEF PinInv, Pin!HandOver

LEMMA PinStep == ASSUME PinInv, [Pin!Next]_(Pin!vars) PROVE PinInv'
<1>1. CASE Pin!Reset
  <2>1. /\ (uo_quiet \in 0 .. QUIET_CYCLES /\ uo_console \in Nat)'
        /\ (uo_flight \in 0 .. Pin!NoStore)'
    BY <1>1, SMT, PinAssumption DEF Pin!Reset, Pin!NoStore
  <2>2. (/\ ~uo_halt_cpu /\ ~uo_debug_selected /\ uo_quiet = 0
         /\ uo_halt_cpu \in BOOLEAN /\ uo_debug_selected \in BOOLEAN)'
    BY <1>1 DEF Pin!Reset
  <2>3. QED
    BY <2>1, <2>2 DEF PinInv, PinTypes, NoOlderThanStore, Pin!HandOver
<1>2. CASE UNCHANGED Pin!vars
  BY <1>2 DEF Pin!vars, Pin!owner, PinInv, PinTypes, NoOlderThanStore,
              Pin!HandOver, Pin!NoStore, Pin!console_idle
<1>3. QED
  BY <1>1, <1>2, PinEdge DEF Pin!Next

LEMMA PinAlways == MCSpec => []PinInv
<1>1. MCInit => PinInv
  BY PinInit DEF MCInit
<1>2. QED
  BY <1>1, PinStep, OneDevice, PTL DEF MCSpec

-----------------------------------------------------------------------------
(* The way to a device and back.  AccessOnce speaks of an access that has  *)
(* come back; BusInv follows it there: which handshake belongs to which    *)
(* master, what the device has done for it and offers in each state of the *)
(* adapter, and that nothing else is on offer.                             *)
Codes == {"none", "OKAY", "SLVERR", "DECERR"}
Operations == [by : Bus!Masters, on : Bus!Dests, write : BOOLEAN]
Histories == {<<>>} \cup {<<op>> : op \in Operations}
Answers == [code : Codes, for : Histories]

Known(a) == a.fits /\ a.dest # Unmapped
OperationOf(m) == [by |-> m, on |-> pb_held[m].dest, write |-> pb_held[m].write]
OutcomeOf(m) ==
  [code |-> IF Known(pb_held[m])
            THEN IF pb_held[m].bad THEN "SLVERR" ELSE "OKAY"
            ELSE IF pb_held[m].fits THEN "DECERR" ELSE "SLVERR",
   for |-> IF Known(pb_held[m]) THEN <<OperationOf(m)>> ELSE <<>>]
Done(m) == pb_operated[m] = IF Known(pb_held[m]) /\ ~pb_held[m].bad
                            THEN <<OperationOf(m)>> ELSE <<>>

Requesting == {"R_REQUEST", "W_REQUEST"}
Awaiting == {"R_WAIT", "W_WAIT"}
Answering == {"R_RESPONSE", "W_RESPONSE"}
Reading == {"R_REQUEST", "R_WAIT", "R_RESPONSE"}
Writing == {"W_CAPTURE", "W_REQUEST", "W_WAIT", "W_RESPONSE"}

BusTypes ==
  /\ pb_bridge \in [Bus!Masters -> {"IDLE", "SEND_READ", "WAIT_READ", "SEND_WRITE",
                                    "WAIT_WRITE", "RESPONSE"}]
  /\ pb_held \in [Bus!Masters -> Bus!Access]
  /\ pb_result \in [Bus!Masters -> Answers]
  /\ pb_operated \in [Bus!Masters -> Histories]
  /\ pb_r_owner \in Bus!Masters \cup {"none"}
  /\ pb_w_owner \in Bus!Masters \cup {"none"}
  /\ pb_state \in {"IDLE"} \cup Reading \cup Writing
  /\ pb_response \in Answers /\ pb_owner \in Bus!Dests
  /\ pb_unmapped_pending \in BOOLEAN
  /\ pb_pending \in [Devices -> Answers]
MasterSide(m) ==
  /\ pb_bridge[m] \in {"SEND_READ", "WAIT_READ"} => ~pb_held[m].write
  /\ pb_bridge[m] \in {"SEND_WRITE", "WAIT_WRITE"} => pb_held[m].write
  /\ pb_bridge[m] \in {"IDLE", "SEND_READ", "SEND_WRITE"} => pb_operated[m] = <<>>
  /\ pb_bridge[m] = "WAIT_READ" <=> pb_r_owner = m
  /\ pb_bridge[m] = "WAIT_WRITE" => pb_w_owner = m
  /\ pb_bridge[m] = "RESPONSE" => Done(m) /\ pb_result[m] = OutcomeOf(m)
AdapterSide(m) ==
  /\ pb_r_owner = m => pb_state \in Reading /\ pb_current = Bus!Captured(m)
  /\ pb_w_owner = m => /\ pb_state \in Writing /\ pb_current = Bus!Captured(m)
                       /\ pb_bridge[m] = IF pb_state = "W_CAPTURE"
                                         THEN "SEND_WRITE" ELSE "WAIT_WRITE"
  /\ m \in {pb_r_owner, pb_w_owner} =>
       /\ pb_state \in Requesting => pb_held[m].fits /\ pb_operated[m] = <<>>
       /\ pb_state \in Awaiting =>
            /\ pb_held[m].fits /\ Done(m) /\ pb_owner = pb_held[m].dest
            /\ pb_unmapped_pending = (pb_owner = Unmapped)
            /\ pb_owner # Unmapped => pb_pending[pb_owner] = OutcomeOf(m)
       /\ pb_state \in Answering => Done(m) /\ pb_response = OutcomeOf(m)
NothingElseOffered ==
  /\ pb_state \in Reading => pb_r_owner \in Bus!Masters
  /\ pb_state \in Writing => pb_w_owner \in Bus!Masters
  /\ pb_state \notin Awaiting => ~pb_unmapped_pending
  /\ \A d \in Devices : pb_state \notin Awaiting \/ pb_owner # d
                          => pb_pending[d] = Bus!NoAnswer
BusInv == /\ BusTypes /\ NothingElseOffered
          /\ \A m \in Bus!Masters : MasterSide(m) /\ AdapterSide(m)

LEMMA BusInit == ASSUME Bus!Init PROVE BusInv
<1>1. /\ Bus!Idle \in Bus!Access /\ Bus!NoAnswer \in Answers
      /\ Bus!None = "none" /\ "none" \notin Bus!Masters
  BY DEF Bus!Idle, Bus!Access, Bus!Dests, Bus!NoAnswer, Bus!None, Answers, Codes,
         Histories, Bus!Masters
<1>2. BusTypes
  BY <1>1 DEF Bus!Init, BusTypes, Bus!Dests, Histories
<1>3. QED
  BY <1>1, <1>2 DEF Bus!Init, BusInv, MasterSide, AdapterSide, NothingElseOffered,
                    Reading, Writing, Requesting, Awaiting, Answering

LEMMA AskStep ==
  ASSUME BusInv, NEW m \in Bus!Masters, NEW a \in Bus!Access, Bus!Ask(m, a)
  PROVE  BusInv'
<1> USE DEF BusInv
<1>1. /\ Bus!Answer("SLVERR") \in Answers /\ Bus!NoAnswer \in Answers
      /\ <<>> \in Histories
  BY DEF Bus!Answer, Bus!NoAnswer, Bus!None, Answers, Codes, Histories
<1>2. BusTypes'
  BY <1>1 DEF Bus!Ask, BusTypes, Bus!adapterVars, Bus!muxVars
<1>3. NothingElseOffered'
  BY DEF Bus!Ask, NothingElseOffered, Bus!adapterVars, Bus!muxVars
<1>4. /\ pb_bridge[m] = "IDLE" /\ m # pb_r_owner /\ m # pb_w_owner
  BY DEF Bus!Ask, MasterSide, AdapterSide
<1>5. ASSUME NEW o \in Bus!Masters, o # m PROVE (MasterSide(o) /\ AdapterSide(o))'
  BY <1>4, <1>5 DEF Bus!Ask, BusTypes, MasterSide, AdapterSide, Done, OutcomeOf,
     OperationOf, Bus!Captured, Bus!adapterVars, Bus!muxVars
<1>6. (MasterSide(m) /\ AdapterSide(m))'
  <2>1. ~a.fits => a.dest = Unmapped
    BY DEF Bus!Access
  <2>2. pb_held'[m] = a /\ pb_operated'[m] = <<>>
    BY DEF Bus!Ask, BusTypes
  <2>3. AdapterSide(m)'
    BY <1>4 DEF Bus!Ask, AdapterSide, Bus!adapterVars
  <2>4. CASE ~a.fits /\ m \in Bus!Bridges
    <3>1. pb_bridge'[m] = "RESPONSE" /\ pb_result'[m] = Bus!Answer("SLVERR")
      BY <2>4 DEF Bus!Ask, BusTypes
    <3>2. QED
      BY <1>4, <2>1, <2>2, <2>3, <2>4, <3>1
         DEF MasterSide, Done, OutcomeOf, Known, Bus!Answer, Bus!Ask
  <2>5. CASE ~(~a.fits /\ m \in Bus!Bridges)
    <3>1. pb_bridge'[m] = IF a.write THEN "SEND_WRITE" ELSE "SEND_READ"
      BY <2>5 DEF Bus!Ask, BusTypes
    <3>2. QED
      BY <1>4, <2>2, <2>3, <3>1 DEF MasterSide, Bus!Ask
  <2>6. QED
    BY <2>4, <2>5
<1>7. QED
  BY <1>2, <1>3, <1>5, <1>6

LEMMA TakeStep ==
  ASSUME BusInv, NEW m \in Bus!Masters, Bus!Take(m) PROVE BusInv'
<1> USE DEF BusInv
<1>1. /\ Bus!Idle \in Bus!Access /\ Bus!NoAnswer \in Answers /\ <<>> \in Histories
  BY DEF Bus!Idle, Bus!Access, Bus!Dests, Bus!NoAnswer, Bus!None, Answers, Codes,
         Histories
<1>2. BusTypes'
  BY <1>1 DEF Bus!Take, BusTypes, Bus!adapterVars, Bus!muxVars
<1>3. NothingElseOffered'
  BY DEF Bus!Take, NothingElseOffered, Bus!adapterVars, Bus!muxVars
<1>4. /\ pb_bridge[m] = "RESPONSE" /\ m # pb_r_owner /\ m # pb_w_owner
  BY DEF Bus!Take, MasterSide, AdapterSide
<1>5. ASSUME NEW o \in Bus!Masters, o # m PROVE (MasterSide(o) /\ AdapterSide(o))'
  BY <1>4, <1>5 DEF Bus!Take, BusTypes, MasterSide, AdapterSide, Done, OutcomeOf,
     OperationOf, Bus!Captured, Bus!adapterVars, Bus!muxVars
<1>6. (MasterSide(m) /\ AdapterSide(m))'
  <2>1. pb_bridge'[m] = "IDLE" /\ pb_operated'[m] = <<>>
    BY DEF Bus!Take, BusTypes
  <2>2. QED
    BY <1>4, <2>1 DEF Bus!Take, MasterSide, AdapterSide, Bus!adapterVars
<1>7. QED
  BY <1>2, <1>3, <1>5, <1>6

LEMMA SendArStep ==
  ASSUME BusInv, NEW m \in Bus!Masters, Bus!SendAr(m) PROVE BusInv'
<1> USE DEF BusInv
<1>1. Bus!Answer("SLVERR") \in Answers /\ Bus!NoAnswer \in Answers
  BY DEF Bus!Answer, Bus!NoAnswer, Bus!None, Answers, Codes, Histories
<1>2. BusTypes'
  BY <1>1 DEF Bus!SendAr, BusTypes, Bus!muxVars, Reading
<1>3. /\ pb_bridge[m] = "SEND_READ" /\ pb_r_owner = "none" /\ pb_state = "IDLE"
      /\ \A o \in Bus!Masters : o # pb_w_owner
  BY DEF Bus!SendAr, Bus!MayRead, Bus!None, AdapterSide, Writing
<1>4. NothingElseOffered'
  BY <1>3 DEF Bus!SendAr, NothingElseOffered, Bus!muxVars, Awaiting, Reading, Writing
<1>5. ASSUME NEW o \in Bus!Masters, o # m PROVE (MasterSide(o) /\ AdapterSide(o))'
  BY <1>3, <1>5 DEF Bus!SendAr, BusTypes, MasterSide, AdapterSide, Done, OutcomeOf,
     OperationOf, Bus!Captured, Bus!muxVars, Bus!Masters
<1>6. (MasterSide(m) /\ AdapterSide(m))'
  <2>1. /\ pb_bridge'[m] = "WAIT_READ" /\ pb_r_owner' = m /\ pb_w_owner' # m
        /\ pb_held' = pb_held /\ pb_operated' = pb_operated
        /\ ~pb_held[m].write /\ pb_operated[m] = <<>>
    BY <1>3 DEF Bus!SendAr, BusTypes, MasterSide
  <2>2. MasterSide(m)'
    BY <2>1 DEF MasterSide
  <2>3. pb_state' \in Reading /\ pb_current' = Bus!Captured(m)'
    BY <2>1 DEF Bus!SendAr, Bus!Captured, Reading
  <2>4. CASE pb_held[m].fits
    BY <2>1, <2>2, <2>3, <2>4 DEF Bus!SendAr, AdapterSide, Awaiting, Answering
  <2>5. CASE ~pb_held[m].fits
    <3>1. pb_state' = "R_RESPONSE" /\ pb_response' = Bus!Answer("SLVERR")
      BY <2>5 DEF Bus!SendAr
    <3>2. Done(m)' /\ pb_response' = OutcomeOf(m)'
      BY <2>1, <2>5, <3>1 DEF Done, OutcomeOf, Known, Bus!Answer
    <3>3. QED
      BY <2>1, <2>2, <2>3, <3>1, <3>2 DEF AdapterSide, Requesting, Awaiting
  <2>6. QED
    BY <2>4, <2>5
<1>7. QED
  BY <1>2, <1>4, <1>5, <1>6

LEMMA SendAwStep ==
  ASSUME BusInv, NEW m \in Bus!Masters, Bus!SendAw(m) PROVE BusInv'
<1> USE DEF BusInv
<1>1. Bus!NoAnswer \in Answers
  BY DEF Bus!NoAnswer, Bus!None, Answers, Codes, Histories
<1>2. BusTypes'
  BY <1>1 DEF Bus!SendAw, BusTypes, Bus!muxVars, Writing
<1>3. /\ pb_bridge[m] = "SEND_WRITE" /\ pb_w_owner = "none" /\ pb_state = "IDLE"
      /\ \A o \in Bus!Masters : o # pb_r_owner
  BY DEF Bus!SendAw, Bus!None, AdapterSide, Reading
<1>4. NothingElseOffered'
  BY <1>3 DEF Bus!SendAw, NothingElseOffered, Bus!muxVars, Awaiting, Reading, Writing
<1>5. ASSUME NEW o \in Bus!Masters, o # m PROVE (MasterSide(o) /\ AdapterSide(o))'
  BY <1>3, <1>5 DEF Bus!SendAw, BusTypes, MasterSide, AdapterSide, Done, OutcomeOf,
     OperationOf, Bus!Captured, Bus!muxVars, Bus!Masters
<1>6. (MasterSide(m) /\ AdapterSide(m))'
  BY <1>3 DEF Bus!SendAw, BusTypes, MasterSide, AdapterSide, Bus!Captured,
     Requesting, Awaiting, Answering, Writing
<1>7. QED
  BY <1>2, <1>4, <1>5, <1>6

LEMMA SendWStep ==
  ASSUME BusInv, NEW m \in Bus!Masters, Bus!SendW(m) PROVE BusInv'
<1> USE DEF BusInv
<1>1. Bus!Answer("SLVERR") \in Answers
  BY DEF Bus!Answer, Answers, Codes, Histories
<1>2. BusTypes'
  BY <1>1 DEF Bus!SendW, BusTypes, Bus!muxVars, Writing
<1>3. /\ pb_bridge[m] = "SEND_WRITE" /\ pb_w_owner = m /\ pb_state = "W_CAPTURE"
      /\ \A o \in Bus!Masters : o # pb_r_owner
  BY DEF Bus!SendW, AdapterSide, Reading
<1>4. NothingElseOffered'
  BY <1>3 DEF Bus!SendW, NothingElseOffered, Bus!muxVars, Awaiting, Reading, Writing
<1>5. ASSUME NEW o \in Bus!Masters, o # m PROVE (MasterSide(o) /\ AdapterSide(o))'
  BY <1>3, <1>5 DEF Bus!SendW, BusTypes, MasterSide, AdapterSide, Done, OutcomeOf,
     OperationOf, Bus!Captured, Bus!muxVars
<1>6. (MasterSide(m) /\ AdapterSide(m))'
  <2>1. /\ pb_r_owner' # m /\ pb_w_owner' = m /\ pb_current' = Bus!Captured(m)'
        /\ pb_held' = pb_held /\ pb_operated' = pb_operated
        /\ pb_held[m].write /\ pb_operated[m] = <<>>
    BY <1>3 DEF Bus!SendW, MasterSide, AdapterSide, Bus!Captured
  <2>2. CASE pb_remaining # 0
    BY <1>3, <2>1, <2>2 DEF Bus!SendW, MasterSide, AdapterSide, Bus!Captured,
       Requesting, Awaiting, Answering, Writing
  <2>3. CASE pb_remaining = 0 /\ pb_held[m].fits
    <3>1. pb_state' = "W_REQUEST" /\ pb_bridge'[m] = "WAIT_WRITE"
      BY <2>3 DEF Bus!SendW, BusTypes
    <3>2. QED
      BY <2>1, <2>3, <3>1 DEF MasterSide, AdapterSide, Awaiting, Answering, Writing
  <2>4. CASE pb_remaining = 0 /\ ~pb_held[m].fits
    <3>1. /\ pb_state' = "W_RESPONSE" /\ pb_bridge'[m] = "WAIT_WRITE"
          /\ pb_response' = Bus!Answer("SLVERR")
      BY <2>4 DEF Bus!SendW, BusTypes
    <3>2. Done(m)' /\ pb_response' = OutcomeOf(m)'
      BY <2>1, <2>4, <3>1 DEF Done, OutcomeOf, Known, Bus!Answer
    <3>3. QED
      BY <2>1, <3>1, <3>2 DEF MasterSide, AdapterSide, Awaiting, Requesting, Writing
  <2>5. QED
    BY <2>2, <2>3, <2>4
<1>7. QED
  BY <1>2, <1>4, <1>5, <1>6

LEMMA GiveStep ==
  ASSUME BusInv, NEW m \in Bus!Masters, Bus!GiveR(m) \/ Bus!GiveB(m) PROVE BusInv'
<1> USE DEF BusInv
<1>1. Bus!NoAnswer \in Answers /\ "none" \notin Bus!Masters
  BY DEF Bus!NoAnswer, Bus!None, Answers, Codes, Histories, Bus!Masters
<1>2. BusTypes'
  BY <1>1 DEF Bus!GiveR, Bus!GiveB, BusTypes, Bus!muxVars, Bus!None
<1>3. /\ pb_state \in Answering /\ Done(m) /\ pb_response = OutcomeOf(m)
      /\ \A o \in Bus!Masters : o # m => o # pb_r_owner /\ o # pb_w_owner
  BY DEF Bus!GiveR, Bus!GiveB, AdapterSide, Answering, Reading, Writing
<1>4. /\ pb_state' = "IDLE" /\ pb_bridge'[m] = "RESPONSE"
      /\ pb_result'[m] = pb_response
      /\ pb_held' = pb_held /\ pb_operated' = pb_operated
      /\ \A o \in Bus!Masters : o # pb_r_owner' /\ o # pb_w_owner'
  BY <1>1, <1>3 DEF Bus!GiveR, Bus!GiveB, BusTypes, Bus!None, AdapterSide,
     Reading, Writing
<1>5. NothingElseOffered'
  BY <1>3, <1>4 DEF Bus!GiveR, Bus!GiveB, NothingElseOffered, Bus!muxVars,
     Awaiting, Answering, Reading, Writing
<1>6. ASSUME NEW o \in Bus!Masters, o # m PROVE (MasterSide(o) /\ AdapterSide(o))'
  BY <1>3, <1>4, <1>6 DEF Bus!GiveR, Bus!GiveB, BusTypes, MasterSide, AdapterSide,
     Done, OutcomeOf, OperationOf
<1>7. (MasterSide(m) /\ AdapterSide(m))'
  BY <1>3, <1>4 DEF MasterSide, AdapterSide, Done, OutcomeOf, OperationOf
<1>8. QED
  BY <1>2, <1>5, <1>6, <1>7

(* The adapter's request: the master it is for, and what is on offer.      *)
LEMMA OneServed ==
  ASSUME BusInv, pb_state \in Requesting \cup Awaiting
  PROVE  \E m \in Bus!Masters :
           /\ m \in {pb_r_owner, pb_w_owner} /\ pb_current = Bus!Captured(m)
           /\ pb_held[m].fits /\ pb_held[m].dest \in Bus!Dests
           /\ pb_held[m].write = (pb_state \in Writing)
           /\ \A o \in Bus!Masters : o # m => o # pb_r_owner /\ o # pb_w_owner
<1> USE DEF BusInv
<1>1. CASE pb_state \in Reading
  <2>1. PICK m \in Bus!Masters : m = pb_r_owner
    BY <1>1 DEF NothingElseOffered
  <2>2. /\ pb_current = Bus!Captured(m) /\ pb_held[m].fits /\ ~pb_held[m].write
        /\ pb_held[m].write \in BOOLEAN /\ pb_held[m].dest \in Bus!Dests
    BY <2>1 DEF AdapterSide, MasterSide, BusTypes, Bus!Access
  <2>3. pb_state \notin Writing
    BY <1>1 DEF Reading, Writing
  <2>4. QED
    BY <2>1, <2>2, <2>3 DEF AdapterSide
<1>2. CASE pb_state \in Writing
  <2>1. PICK m \in Bus!Masters : m = pb_w_owner
    BY <1>2 DEF NothingElseOffered
  <2>2. /\ pb_current = Bus!Captured(m) /\ pb_held[m].fits /\ pb_held[m].write
        /\ pb_held[m].write \in BOOLEAN /\ pb_held[m].dest \in Bus!Dests
    BY <2>1 DEF AdapterSide, MasterSide, BusTypes, Bus!Access, Requesting, Awaiting
  <2>3. pb_state \notin Reading
    BY <1>2 DEF Reading, Writing
  <2>4. QED
    BY <1>2, <2>1, <2>2, <2>3 DEF AdapterSide
<1>3. QED
  BY <1>1, <1>2 DEF Reading, Writing, Requesting, Awaiting

LEMMA RequestStep == ASSUME BusInv, Bus!Request PROVE BusInv'
<1> USE DEF BusInv
<1>1. pb_state \in Requesting
  BY DEF Bus!Request, Requesting
<1>2. PICK m \in Bus!Masters :
           /\ m \in {pb_r_owner, pb_w_owner} /\ pb_current = Bus!Captured(m)
           /\ pb_held[m].fits /\ pb_held[m].dest \in Bus!Dests
           /\ pb_held[m].write = (pb_state \in Writing)
           /\ \A o \in Bus!Masters : o # m => o # pb_r_owner /\ o # pb_w_owner
  BY <1>1, OneServed
<1>3. /\ Bus!dest = pb_held[m].dest /\ pb_current.access = pb_held[m]
      /\ pb_current.by = m
  BY <1>2 DEF Bus!dest, Bus!Captured
<1>4. pb_held[m].write = (pb_state = "W_REQUEST")
  BY <1>1, <1>2 DEF Writing, Requesting
<1>5. Bus!Operation = OperationOf(m) /\ Bus!Operation \in Operations
  BY <1>2, <1>3, <1>4 DEF Bus!Operation, OperationOf, Operations
<1>6. Bus!Offered \in Answers /\ <<Bus!Operation>> \in Histories
  BY <1>5 DEF Bus!Offered, Answers, Codes, Histories
<1>7. /\ ~pb_unmapped_pending /\ \A d \in Devices : pb_pending[d] = Bus!NoAnswer
      /\ pb_operated[m] = <<>>
  BY <1>1, <1>2 DEF NothingElseOffered, AdapterSide, Requesting, Awaiting
<1>8. /\ pb_state' = Bus!Waiting /\ pb_owner' = pb_held[m].dest
      /\ pb_held' = pb_held /\ pb_bridge' = pb_bridge /\ pb_result' = pb_result
      /\ pb_r_owner' = pb_r_owner /\ pb_w_owner' = pb_w_owner
      /\ pb_current' = pb_current /\ pb_response' = pb_response
  BY <1>3 DEF Bus!Request, Bus!bridgeVars
<1>9. /\ pb_state' \in Awaiting /\ pb_state' \notin Requesting \cup Answering
      /\ pb_state \in Reading <=> pb_state' \in Reading
      /\ pb_state \in Writing <=> pb_state' \in Writing
      /\ pb_state' # "W_CAPTURE" /\ pb_state # "W_CAPTURE"
  BY <1>1, <1>8 DEF Bus!Waiting, Requesting, Awaiting, Answering, Reading, Writing
<1>10. /\ pb_operated' \in [Bus!Masters -> Histories]
       /\ pb_pending' \in [Devices -> Answers]
       /\ pb_unmapped_pending' \in BOOLEAN
       /\ \A o \in Bus!Masters : o # m => pb_operated'[o] = pb_operated[o]
       /\ Done(m)' /\ pb_unmapped_pending' = (pb_owner' = Unmapped)
       /\ \A d \in Devices : pb_owner' # d => pb_pending'[d] = Bus!NoAnswer
       /\ pb_owner' # Unmapped => pb_pending'[pb_owner'] = OutcomeOf(m)'
  <2>1. CASE pb_held[m].dest = Unmapped
    <3>1. pb_unmapped_pending' = TRUE /\ pb_pending' = pb_pending
          /\ pb_operated' = pb_operated
      BY <1>3, <2>1 DEF Bus!Request
    <3>2. Done(m)'
      BY <1>7, <1>8, <2>1, <3>1 DEF Done, Known
    <3>3. QED
      BY <1>7, <1>8, <2>1, <3>1, <3>2 DEF BusTypes
  <2>2. CASE pb_held[m].dest # Unmapped
    <3>1. /\ pb_pending' = [pb_pending EXCEPT ![pb_held[m].dest] = Bus!Offered]
          /\ pb_unmapped_pending' = pb_unmapped_pending
          /\ pb_operated' = IF pb_held[m].bad THEN pb_operated
                     ELSE [pb_operated EXCEPT ![m] = Append(@, Bus!Operation)]
      BY <1>3, <2>2 DEF Bus!Request
    <3>2. Append(pb_operated[m], Bus!Operation) = <<Bus!Operation>>
      BY <1>7
    <3>3. /\ pb_operated' \in [Bus!Masters -> Histories]
          /\ \A o \in Bus!Masters : o # m => pb_operated'[o] = pb_operated[o]
          /\ pb_operated'[m] = IF pb_held[m].bad THEN <<>> ELSE <<Bus!Operation>>
      BY <1>6, <1>7, <3>1, <3>2 DEF BusTypes
    <3>4. Bus!Offered = OutcomeOf(m)' /\ Done(m)'
      BY <1>2, <1>3, <1>5, <1>8, <2>2, <3>3
         DEF Bus!Offered, OutcomeOf, Known, Done, OperationOf
    <3>5. pb_held[m].dest \in Devices
      BY <1>2, <2>2 DEF Bus!Dests
    <3>6. QED
      BY <1>6, <1>7, <1>8, <2>2, <3>1, <3>3, <3>4, <3>5, BusAssumption DEF BusTypes
  <2>3. QED
    BY <2>1, <2>2
<1>11. BusTypes'
  BY <1>2, <1>8, <1>9, <1>10 DEF BusTypes, Awaiting, Reading, Writing
<1>12. NothingElseOffered'
  BY <1>8, <1>9, <1>10 DEF NothingElseOffered
<1>13. ASSUME NEW o \in Bus!Masters, o # m PROVE (MasterSide(o) /\ AdapterSide(o))'
  BY <1>2, <1>8, <1>10, <1>13 DEF MasterSide, AdapterSide, Done, OutcomeOf,
     OperationOf
<1>14. (MasterSide(m) /\ AdapterSide(m))'
  <2>1. pb_bridge[m] \notin {"IDLE", "SEND_READ", "SEND_WRITE", "RESPONSE"}
    BY <1>2, <1>9 DEF MasterSide, AdapterSide
  <2>2. MasterSide(m)'
    BY <1>8, <2>1 DEF MasterSide
  <2>3. AdapterSide(m)'
    BY <1>2, <1>8, <1>9, <1>10 DEF AdapterSide, Bus!Captured
  <2>4. QED
    BY <2>2, <2>3
<1>15. QED
  BY <1>11, <1>12, <1>13, <1>14

LEMMA RespondStep == ASSUME BusInv, Bus!Respond PROVE BusInv'
<1> USE DEF BusInv
<1>1. pb_state \in Awaiting
  BY DEF Bus!Respond, Awaiting
<1>2. PICK m \in Bus!Masters :
           /\ m \in {pb_r_owner, pb_w_owner} /\ pb_current = Bus!Captured(m)
           /\ pb_held[m].fits /\ pb_held[m].dest \in Bus!Dests
           /\ pb_held[m].write = (pb_state \in Writing)
           /\ \A o \in Bus!Masters : o # m => o # pb_r_owner /\ o # pb_w_owner
  BY <1>1, OneServed
<1>3. /\ Done(m) /\ pb_owner = pb_held[m].dest
      /\ pb_unmapped_pending = (pb_owner = Unmapped)
      /\ pb_owner # Unmapped => pb_pending[pb_owner] = OutcomeOf(m)
  BY <1>1, <1>2 DEF AdapterSide
<1>4. /\ pb_state' = Bus!Responding /\ pb_unmapped_pending' = FALSE
      /\ pb_response' = IF pb_unmapped_pending THEN Bus!Answer("DECERR")
                        ELSE pb_pending[pb_owner]
      /\ pb_pending' = IF pb_owner = Unmapped THEN pb_pending
                       ELSE [pb_pending EXCEPT ![pb_owner] = Bus!NoAnswer]
      /\ pb_held' = pb_held /\ pb_bridge' = pb_bridge /\ pb_result' = pb_result
      /\ pb_r_owner' = pb_r_owner /\ pb_w_owner' = pb_w_owner
      /\ pb_current' = pb_current /\ pb_owner' = pb_owner
      /\ pb_operated' = pb_operated
  BY DEF Bus!Respond, Bus!bridgeVars
<1>5. /\ pb_state' \in Answering /\ pb_state' \notin Requesting \cup Awaiting
      /\ pb_state \in Reading <=> pb_state' \in Reading
      /\ pb_state \in Writing <=> pb_state' \in Writing
      /\ pb_state' # "W_CAPTURE" /\ pb_state # "W_CAPTURE"
  BY <1>1, <1>4 DEF Bus!Responding, Requesting, Awaiting, Answering, Reading, Writing
<1>6. pb_response' = OutcomeOf(m)'
  BY <1>2, <1>3, <1>4 DEF OutcomeOf, OperationOf, Known, Bus!Answer
<1>7. Bus!NoAnswer \in Answers /\ Bus!Answer("DECERR") \in Answers
  BY DEF Bus!NoAnswer, Bus!None, Bus!Answer, Answers, Codes, Histories
<1>8. pb_owner # Unmapped => pb_owner \in Devices
  BY <1>2, <1>3 DEF Bus!Dests
<1>9. BusTypes'
  BY <1>3, <1>4, <1>5, <1>7, <1>8 DEF BusTypes, Answering, Reading, Writing
<1>10. NothingElseOffered'
  BY <1>3, <1>4, <1>5, <1>8, BusAssumption DEF NothingElseOffered, BusTypes
<1>11. ASSUME NEW o \in Bus!Masters, o # m PROVE (MasterSide(o) /\ AdapterSide(o))'
  BY <1>2, <1>4, <1>11 DEF MasterSide, AdapterSide, Done, OutcomeOf, OperationOf
<1>12. (MasterSide(m) /\ AdapterSide(m))'
  BY <1>2, <1>3, <1>4, <1>5, <1>6
     DEF MasterSide, AdapterSide, Bus!Captured, Done, OutcomeOf, OperationOf
<1>13. QED
  BY <1>9, <1>10, <1>11, <1>12

LEMMA BusStep == ASSUME BusInv, [Bus!Next]_(Bus!vars) PROVE BusInv'
<1>1. ASSUME NEW m \in Bus!Masters,
             \/ \E a \in Bus!Access : Bus!Ask(m, a)
             \/ Bus!Take(m) \/ Bus!SendAr(m) \/ Bus!SendAw(m) \/ Bus!SendW(m)
             \/ Bus!GiveR(m) \/ Bus!GiveB(m)
      PROVE  BusInv'
  BY <1>1, AskStep, TakeStep, SendArStep, SendAwStep, SendWStep, GiveStep
<1>2. CASE Bus!Request \/ Bus!Respond
  BY <1>2, RequestStep, RespondStep
<1>3. CASE Bus!Reset
  <2>1. (Bus!Init)' => BusInv'
    BY BusInit, PTL
  <2>2. QED
    BY <1>3, <2>1 DEF Bus!Reset, Bus!Init
<1>4. CASE UNCHANGED Bus!vars
  BY <1>4 DEF Bus!vars, Bus!bridgeVars, Bus!adapterVars, Bus!muxVars, BusInv,
     BusTypes, NothingElseOffered, MasterSide, AdapterSide, Done, OutcomeOf,
     OperationOf, Bus!Captured
<1>5. QED
  BY <1>1, <1>2, <1>3, <1>4 DEF Bus!Next

(* An access is answered by the device that it addressed, which operated   *)
(* once for it, whatever devices there are (axi_width_bridge.sv:75-110,    *)
(* axi_peripheral_adapter.sv:73-118, checkpoint10_mmio.sv:27-52).          *)
THEOREM AccessesOnce == MCSpec => []AccessOnce
<1>1. ASSUME BusInv PROVE AccessOnce
  <2>1. SUFFICES ASSUME NEW m \in Bus!Masters
                 PROVE  /\ Len(pb_operated[m]) <= 1
                        /\ pb_bridge[m] = "RESPONSE" =>
                             Done(m) /\ pb_result[m] = OutcomeOf(m)
    <3>1. ASSUME NEW m \in Bus!Masters, Done(m), pb_result[m] = OutcomeOf(m)
          PROVE  LET a == pb_held[m]
                     op == [by |-> m, on |-> a.dest, write |-> a.write]
                     known == a.fits /\ a.dest # Unmapped
                 IN /\ pb_operated[m] = IF known /\ ~a.bad THEN <<op>> ELSE <<>>
                    /\ pb_result[m].for = IF known THEN <<op>> ELSE <<>>
                    /\ pb_result[m].code =
                         IF a.fits /\ a.dest = Unmapped THEN "DECERR"
                         ELSE IF known /\ ~a.bad THEN "OKAY" ELSE "SLVERR"
      BY <3>1 DEF Done, OutcomeOf, OperationOf, Known
    <3>2. QED
      BY <3>1 DEF AccessOnce, Bus!AccessOnce
  <2>2. pb_operated[m] \in Histories /\ MasterSide(m)
    BY <1>1 DEF BusInv, BusTypes
  <2>3. Len(pb_operated[m]) <= 1
    <3>1. CASE pb_operated[m] = <<>>
      <4>1. Len(pb_operated[m]) = 0
        BY <3>1
      <4>2. QED
        BY <4>1
    <3>2. CASE \E op \in Operations : pb_operated[m] = <<op>>
      <4>1. Len(pb_operated[m]) = 1
        BY <3>2
      <4>2. QED
        BY <4>1
    <3>3. QED
      BY <2>2, <3>1, <3>2 DEF Histories
  <2>4. QED
    BY <2>2, <2>3 DEF MasterSide
<1>2. MCInit => BusInv
  BY BusInit DEF MCInit
<1>3. BusInv /\ [MCNext]_all => BusInv'
  BY BusStep, OneDevice
<1>4. QED
  BY <1>1, <1>2, <1>3, PTL DEF MCSpec

-----------------------------------------------------------------------------
(* The serial port.  Its rings hold what is owed in the order it came: the *)
(* lemmas say what putting in, taking out and marking the first one do to  *)
(* the content of a ring, wherever in its memory it stands.                *)
Rings(S) == {r \in [mem : [Serial!Slots -> S], head : Serial!Slots,
                    tail : Serial!Slots, count : 0 .. Depth] :
               r.tail = (r.head + r.count) % Depth}

LEMMA Wrapped ==
  ASSUME NEW a \in Serial!Slots, NEW i \in 0 .. Depth
  PROVE  /\ (a + i) % Depth = IF a + i < Depth THEN a + i ELSE a + i - Depth
         /\ (a + i) % Depth \in Serial!Slots
<1>1. /\ Depth \in Nat /\ Depth > 0 /\ a \in Nat /\ a < Depth
      /\ i \in Nat /\ i <= Depth
  BY SerialAssumption DEF Serial!Slots
<1>2. (a + i) % Depth = IF a + i < Depth THEN a + i ELSE a + i - Depth
  BY <1>1, SMT
<1>3. QED
  BY <1>1, <1>2, SMT DEF Serial!Slots

LEMMA RingContent ==
  ASSUME NEW S, NEW r \in Rings(S)
  PROVE  /\ Serial!Content(r) \in Seq(S)
         /\ Len(Serial!Content(r)) = r.count
         /\ r.count \in Nat /\ r.count <= Depth
         /\ \A i \in 1 .. r.count :
              Serial!Content(r)[i] = r.mem[(r.head + i - 1) % Depth]
<1>1. /\ r.mem \in [Serial!Slots -> S] /\ r.head \in Serial!Slots
      /\ r.count \in 0 .. Depth
  BY DEF Rings
<1>2. r.count \in Nat /\ r.count <= Depth /\ Depth \in Nat
  BY <1>1, SerialAssumption
<1>3. ASSUME NEW i \in 1 .. r.count
      PROVE  r.mem[(r.head + i - 1) % Depth] \in S
  <2>1. r.head + i - 1 = r.head + (i - 1) /\ i - 1 \in 0 .. Depth
    BY <1>1, <1>2 DEF Serial!Slots
  <2>2. (r.head + i - 1) % Depth \in Serial!Slots
    BY <1>1, <2>1, Wrapped
  <2>3. QED
    BY <1>1, <2>2
<1>4. Serial!Content(r) \in [1 .. r.count -> S]
  BY <1>3 DEF Serial!Content
<1>5. ASSUME NEW c \in [1 .. r.count -> S] PROVE c \in Seq(S) /\ Len(c) = r.count
  BY <1>2
<1>6. \A i \in 1 .. r.count :
        Serial!Content(r)[i] = r.mem[(r.head + i - 1) % Depth]
  BY DEF Serial!Content
<1>7. QED
  BY <1>2, <1>4, <1>5, <1>6

LEMMA EmptyRing ==
  ASSUME NEW S, "-" \in S
  PROVE  /\ Serial!Empty \in Rings(S) /\ Serial!Content(Serial!Empty) = <<>>
         /\ Serial!Empty.count = 0
<1>1. /\ 0 \in Serial!Slots /\ 0 \in 0 .. Depth /\ (0 + 0) % Depth = 0
  BY SerialAssumption DEF Serial!Slots
<1>2. Serial!Empty \in Rings(S) /\ Serial!Empty.count = 0
  BY <1>1 DEF Serial!Empty, Rings
<1>3. Len(Serial!Content(Serial!Empty)) = 0 /\ Serial!Content(Serial!Empty) \in Seq(S)
  BY <1>2, RingContent
<1>4. QED
  BY <1>2, <1>3, EmptySeq

LEMMA PushRing ==
  ASSUME NEW S, NEW r \in Rings(S), NEW x \in S, r.count < Depth
  PROVE  /\ Serial!Pushed(r, x) \in Rings(S)
         /\ Serial!Pushed(r, x).count = r.count + 1
         /\ Serial!Content(Serial!Pushed(r, x)) = Append(Serial!Content(r), x)
<1> DEFINE p == Serial!Pushed(r, x)
<1>1. /\ r.mem \in [Serial!Slots -> S] /\ r.head \in Serial!Slots
      /\ r.tail \in Serial!Slots /\ r.tail = (r.head + r.count) % Depth
      /\ r = [mem |-> r.mem, head |-> r.head, tail |-> r.tail, count |-> r.count]
  BY DEF Rings
<1>2. /\ Depth \in Nat \ {0} /\ r.count \in Nat /\ r.head \in Nat /\ r.tail \in Nat
      /\ r.head < Depth /\ r.tail < Depth
      /\ 1 \in 0 .. Depth /\ r.count + 1 \in 0 .. Depth
  BY <1>1, SerialAssumption, RingContent DEF Serial!Slots
<1>3. /\ p.mem = [r.mem EXCEPT ![r.tail] = x] /\ p.head = r.head
      /\ p.tail = (r.tail + 1) % Depth /\ p.count = r.count + 1
      /\ p = [mem |-> p.mem, head |-> p.head, tail |-> p.tail, count |-> p.count]
  <2>1. p = [r EXCEPT !.mem = [@ EXCEPT ![r.tail] = x],
                      !.tail = (r.tail + 1) % Depth, !.count = r.count + 1]
    BY <1>1, Zenon DEF Serial!Pushed
  <2>2. QED
    BY <1>1, <2>1
<1> HIDE DEF p
<1>4. p.tail = (p.head + p.count) % Depth /\ p.tail \in Serial!Slots
  <2>1. r.tail = IF r.head + r.count < Depth THEN r.head + r.count
                 ELSE r.head + r.count - Depth
    BY <1>1, <1>2, Wrapped
  <2>2. (r.tail + 1) % Depth = IF r.tail + 1 < Depth THEN r.tail + 1
                               ELSE r.tail + 1 - Depth
    BY <1>1, <1>2, Wrapped
  <2>3. (r.head + (r.count + 1)) % Depth
          = IF r.head + (r.count + 1) < Depth THEN r.head + (r.count + 1)
            ELSE r.head + (r.count + 1) - Depth
    BY <1>1, <1>2, Wrapped
  <2>4. (r.tail + 1) % Depth \in Serial!Slots
    BY <1>1, <1>2, Wrapped
  <2>5. QED
    BY <1>2, <1>3, <2>1, <2>2, <2>3, <2>4
<1>5. p \in Rings(S)
  <2>1. p.mem \in [Serial!Slots -> S] /\ p.head \in Serial!Slots /\ p.count \in 0 .. Depth
    BY <1>1, <1>2, <1>3
  <2>2. QED
    BY <1>3, <1>4, <2>1 DEF Rings
<1>6. /\ Serial!Content(p) \in Seq(S) /\ Len(Serial!Content(p)) = r.count + 1
      /\ \A i \in 1 .. r.count + 1 :
           Serial!Content(p)[i] = p.mem[(r.head + i - 1) % Depth]
  <2>1. /\ Serial!Content(p) \in Seq(S) /\ Len(Serial!Content(p)) = p.count
        /\ \A i \in 1 .. p.count :
             Serial!Content(p)[i] = p.mem[(p.head + i - 1) % Depth]
    BY <1>5, RingContent
  <2>2. QED
    BY <1>3, <2>1
<1>7. /\ Append(Serial!Content(r), x) \in Seq(S)
      /\ Len(Append(Serial!Content(r), x)) = r.count + 1
      /\ \A i \in 1 .. r.count :
           Append(Serial!Content(r), x)[i] = r.mem[(r.head + i - 1) % Depth]
      /\ Append(Serial!Content(r), x)[r.count + 1] = x
  BY RingContent, AppendProperties
<1>8. ASSUME NEW i \in 1 .. r.count + 1
      PROVE  p.mem[(r.head + i - 1) % Depth] = Append(Serial!Content(r), x)[i]
  <2>1. r.head + i - 1 = r.head + (i - 1) /\ i - 1 \in 0 .. Depth /\ i \in Nat
    BY <1>2
  <2>2. /\ (r.head + i - 1) % Depth
             = IF r.head + (i - 1) < Depth THEN r.head + (i - 1)
               ELSE r.head + (i - 1) - Depth
        /\ (r.head + i - 1) % Depth \in Serial!Slots
    BY <1>1, <2>1, Wrapped
  <2>3. r.tail = IF r.head + r.count < Depth THEN r.head + r.count
                 ELSE r.head + r.count - Depth
    BY <1>1, <1>2, Wrapped
  <2>4. CASE i = r.count + 1
    <3>1. (r.head + i - 1) % Depth = r.tail
      BY <1>1, <1>2, <2>4, <2>2, <2>3
    <3>2. QED
      BY <1>1, <1>3, <1>7, <2>4, <3>1
  <2>5. CASE i # r.count + 1
    <3>1. i \in 1 .. r.count /\ (r.head + i - 1) % Depth # r.tail
      BY <1>2, <2>1, <2>2, <2>3, <2>5
    <3>2. QED
      BY <1>1, <1>3, <1>7, <2>2, <3>1
  <2>6. QED
    BY <2>4, <2>5
<1>9. Serial!Content(p) = Append(Serial!Content(r), x)
  BY <1>6, <1>7, <1>8, SeqEqual
<1>10. QED
  BY <1>3, <1>5, <1>9 DEF p

LEMMA PopRing ==
  ASSUME NEW S, "-" \in S, NEW r \in Rings(S), r.count # 0
  PROVE  /\ Serial!Popped(r) \in Rings(S)
         /\ Serial!Popped(r).count = r.count - 1
         /\ Serial!Content(r) # <<>>
         /\ Serial!Top(r) = Head(Serial!Content(r))
         /\ Serial!Content(Serial!Popped(r)) = Tail(Serial!Content(r))
<1> DEFINE p == Serial!Popped(r)
           c == Serial!Content(r)
<1>1. /\ r.mem \in [Serial!Slots -> S] /\ r.head \in Serial!Slots
      /\ r.tail \in Serial!Slots /\ r.tail = (r.head + r.count) % Depth
      /\ r = [mem |-> r.mem, head |-> r.head, tail |-> r.tail, count |-> r.count]
  BY DEF Rings
<1>2. /\ Depth \in Nat \ {0} /\ r.count \in Nat \ {0} /\ r.count <= Depth
      /\ r.head \in Nat /\ r.tail \in Nat /\ r.head < Depth /\ r.tail < Depth
      /\ 1 \in 0 .. Depth
  BY <1>1, SerialAssumption, RingContent DEF Serial!Slots
<1>3. /\ p.mem = [r.mem EXCEPT ![r.head] = "-"] /\ p.head = (r.head + 1) % Depth
      /\ p.tail = r.tail /\ p.count = r.count - 1
      /\ p = [mem |-> p.mem, head |-> p.head, tail |-> p.tail, count |-> p.count]
  <2>1. p = [r EXCEPT !.mem = [@ EXCEPT ![r.head] = "-"],
                      !.head = (r.head + 1) % Depth, !.count = r.count - 1]
    BY <1>1, Zenon DEF Serial!Popped
  <2>2. QED
    BY <1>1, <2>1
<1> HIDE DEF p
<1>4. p.head = IF r.head + 1 < Depth THEN r.head + 1 ELSE r.head + 1 - Depth
  BY <1>1, <1>2, <1>3, Wrapped
<1>5. p.head \in Serial!Slots /\ p.count \in 0 .. Depth
  BY <1>2, <1>3, <1>4 DEF Serial!Slots
<1>6. p.tail = (p.head + p.count) % Depth
  <2>1. r.tail = IF r.head + r.count < Depth THEN r.head + r.count
                 ELSE r.head + r.count - Depth
    BY <1>1, <1>2, Wrapped
  <2>2. (p.head + p.count) % Depth
          = IF p.head + p.count < Depth THEN p.head + p.count
            ELSE p.head + p.count - Depth
    BY <1>5, Wrapped
  <2>3. QED
    BY <1>2, <1>3, <1>4, <2>1, <2>2
<1>7. p \in Rings(S)
  <2>1. p.mem \in [Serial!Slots -> S] /\ p.tail \in Serial!Slots
    BY <1>1, <1>3
  <2>2. QED
    BY <1>3, <1>5, <1>6, <2>1 DEF Rings
<1>8. /\ c \in Seq(S) /\ Len(c) = r.count
      /\ \A i \in 1 .. r.count : c[i] = r.mem[(r.head + i - 1) % Depth]
  BY RingContent
<1> HIDE DEF c
<1>9. c # <<>>
  BY <1>2, <1>8, EmptySeq
<1>10. /\ Tail(c) \in Seq(S) /\ Len(Tail(c)) = r.count - 1
       /\ \A i \in 1 .. r.count - 1 : Tail(c)[i] = c[i + 1]
       /\ Head(c) = c[1]
  <2>1. /\ Tail(c) \in Seq(S) /\ Len(Tail(c)) = Len(c) - 1
        /\ \A i \in 1 .. Len(Tail(c)) : Tail(c)[i] = c[i + 1]
    BY <1>8, <1>9, HeadTailProperties
  <2>2. QED
    BY <1>8, <2>1 DEF Head
<1>11. c[1] = r.mem[r.head]
  <2>1. (r.head + 1 - 1) % Depth = r.head
    BY <1>2, SMT
  <2>2. QED
    BY <1>2, <1>8, <2>1
<1>12. /\ Serial!Content(p) \in Seq(S) /\ Len(Serial!Content(p)) = r.count - 1
       /\ \A i \in 1 .. r.count - 1 :
            Serial!Content(p)[i] = p.mem[(p.head + i - 1) % Depth]
  BY <1>3, <1>7, RingContent
<1>13. ASSUME NEW i \in 1 .. r.count - 1
       PROVE  p.mem[(p.head + i - 1) % Depth] = Tail(c)[i]
  <2>1. /\ p.head + i - 1 = p.head + (i - 1) /\ r.head + (i + 1) - 1 = r.head + i
        /\ i - 1 \in 0 .. Depth /\ i \in 0 .. Depth /\ i \in Nat /\ i + 1 \in 1 .. r.count
    BY <1>2, <1>5 DEF Serial!Slots
  <2>2. (p.head + i - 1) % Depth
          = IF p.head + (i - 1) < Depth THEN p.head + (i - 1)
            ELSE p.head + (i - 1) - Depth
    BY <1>5, <2>1, Wrapped
  <2>3. /\ (r.head + (i + 1) - 1) % Depth
             = IF r.head + i < Depth THEN r.head + i ELSE r.head + i - Depth
        /\ (r.head + (i + 1) - 1) % Depth \in Serial!Slots
    BY <1>1, <2>1, Wrapped
  <2>4. (p.head + i - 1) % Depth = (r.head + (i + 1) - 1) % Depth
    BY <1>2, <1>4, <2>1, <2>2, <2>3
  <2>5. (r.head + (i + 1) - 1) % Depth # r.head
    BY <1>2, <2>1, <2>3
  <2>6. p.mem[(p.head + i - 1) % Depth] = c[i + 1]
    BY <1>1, <1>3, <1>8, <2>1, <2>3, <2>4, <2>5
  <2>7. QED
    BY <1>10, <2>6
<1>14. Serial!Content(p) = Tail(c)
  BY <1>10, <1>12, <1>13, SeqEqual
<1>15. QED
  BY <1>3, <1>7, <1>9, <1>10, <1>11, <1>14 DEF p, c, Serial!Top

LEMMA FirstOfSeq ==
  ASSUME NEW S, NEW s \in Seq(S), NEW x \in S
  PROVE  /\ <<x>> \o s \in Seq(S) /\ Tail(<<x>> \o s) = s
         /\ SubSeq(<<x>> \o s, 1, 1) = <<x>> /\ SubSeq(s, 1, 0) = <<>>
         /\ \A y \in S : Append(<<x>> \o s, y) = <<x>> \o Append(s, y)
         /\ s # <<>> => s = <<Head(s)>> \o Tail(s)
<1>1. <<x>> \in Seq(S) /\ Len(<<x>>) = 1
  OBVIOUS
<1>2. /\ <<x>> \o s \in Seq(S) /\ Len(<<x>> \o s) = 1 + Len(s)
      /\ \A i \in 1 .. 1 + Len(s) :
           (<<x>> \o s)[i] = IF i <= 1 THEN x ELSE s[i - 1]
  BY <1>1, ConcatProperties
<1>3. Len(s) \in Nat
  OBVIOUS
<1>4. Tail(<<x>> \o s) = s
  <2>1. <<x>> \o s # <<>>
    BY <1>2, <1>3, EmptySeq
  <2>2. /\ Tail(<<x>> \o s) \in Seq(S) /\ Len(Tail(<<x>> \o s)) = Len(s)
        /\ \A i \in 1 .. Len(s) : Tail(<<x>> \o s)[i] = (<<x>> \o s)[i + 1]
    BY <1>2, <1>3, <2>1, HeadTailProperties
  <2>3. \A i \in 1 .. Len(s) : (<<x>> \o s)[i + 1] = s[i]
    BY <1>2, <1>3
  <2>4. QED
    BY <2>2, <2>3, SeqEqual
<1>5. SubSeq(<<x>> \o s, 1, 1) = <<x>>
  <2>1. \A i \in 1 .. 1 : (<<x>> \o s)[i] \in S
    BY <1>2, <1>3
  <2>2. /\ SubSeq(<<x>> \o s, 1, 1) \in Seq(S) /\ Len(SubSeq(<<x>> \o s, 1, 1)) = 1
        /\ SubSeq(<<x>> \o s, 1, 1)[1] = x
    BY <1>2, <1>3, <2>1, SubSeqProperties
  <2>3. \A i \in 1 .. 1 : SubSeq(<<x>> \o s, 1, 1)[i] = <<x>>[i]
    BY <2>2
  <2>4. QED
    BY <1>1, <2>2, <2>3, SeqEqual
<1>6. SubSeq(s, 1, 0) = <<>>
  BY SubSeqEmpty
<1>7. ASSUME NEW y \in S PROVE Append(<<x>> \o s, y) = <<x>> \o Append(s, y)
  <2>1. <<y>> \in Seq(S) /\ Append(s, y) = s \o <<y>>
    BY AppendIsConcat
  <2>2. Append(<<x>> \o s, y) = (<<x>> \o s) \o <<y>>
    BY <1>2, AppendIsConcat
  <2>3. QED
    BY <1>1, <2>1, <2>2, ConcatAssociative
<1>8. s # <<>> => s = <<Head(s)>> \o Tail(s)
  <2>1. SUFFICES ASSUME s # <<>> PROVE s = <<Head(s)>> \o Tail(s)
    OBVIOUS
  <2>2. /\ Tail(s) \in Seq(S) /\ Head(s) \in S /\ Len(s) # 0
        /\ Len(Tail(s)) = Len(s) - 1
        /\ \A i \in 1 .. Len(Tail(s)) : Tail(s)[i] = s[i + 1]
    BY <2>1, HeadTailProperties, EmptySeq
  <2>3. <<Head(s)>> \in Seq(S) /\ Len(<<Head(s)>>) = 1 /\ <<Head(s)>>[1] = s[1]
    BY <2>2
  <2>4. /\ <<Head(s)>> \o Tail(s) \in Seq(S)
        /\ Len(<<Head(s)>> \o Tail(s)) = 1 + Len(Tail(s))
        /\ \A i \in 1 .. 1 + Len(Tail(s)) : (<<Head(s)>> \o Tail(s))[i]
             = IF i <= 1 THEN s[1] ELSE Tail(s)[i - 1]
    BY <2>2, <2>3, ConcatProperties
  <2>5. \A i \in 1 .. Len(s) : (<<Head(s)>> \o Tail(s))[i] = s[i]
    BY <1>3, <2>2, <2>4
  <2>6. QED
    BY <1>3, <2>2, <2>4, <2>5, SeqEqual
<1>9. QED
  BY <1>2, <1>4, <1>5, <1>6, <1>7, <1>8

Characters == [byte : Bytes, error : BOOLEAN]
TxCells == Bytes \cup {"-"}
RxCells == Characters \cup {"-"}
(* What UartExact leaves out: the rings are rings, what is owed consists   *)
(* of characters, the interrupt of an empty ring waits only while it is    *)
(* empty, and software that does not know waits for it.                    *)
SerialTypes ==
  /\ ua_fifo_on \in BOOLEAN /\ ua_dlab \in BOOLEAN
  /\ ua_thre_pending \in BOOLEAN /\ ua_told \in BOOLEAN
  /\ ua_tx \in Rings(TxCells) /\ ua_rx \in Rings(RxCells)
  /\ ua_tx_busy \in TxCells
  /\ ua_owed \in Seq(Bytes) /\ ua_heard \in Seq(Characters) /\ ua_room \in Nat
PendingWhileEmpty ==
  /\ ua_thre_pending => ua_tx.count = 0
  /\ "thre" \in ua_ier /\ ua_tx.count = 0 => ua_told \/ ua_thre_pending
SerialInv == /\ SerialTypes /\ PendingWhileEmpty
             /\ Serial!InOrder /\ Serial!NoneDropped

(* A request is for one register.                                          *)
LEMMA OneRegister ==
  ASSUME NEW op \in Serial!Op
  PROVE  /\ Serial!wr(op, "thr") => op[3] \in Bytes
         /\ Serial!wr(op, "thr") => /\ ~Serial!wr(op, "fcr") /\ ~Serial!wr(op, "ier")
                                    /\ ~Serial!wr(op, "lcr")
         /\ Serial!wr(op, "fcr") => /\ op[3].on \in BOOLEAN
                                    /\ ~Serial!wr(op, "ier") /\ ~Serial!wr(op, "lcr")
         /\ Serial!wr(op, "lcr") => op[3] \in BOOLEAN
         /\ \A reg : Serial!rd(op, reg) =>
              /\ ~Serial!wr(op, "thr") /\ ~Serial!wr(op, "fcr")
              /\ ~Serial!wr(op, "ier") /\ ~Serial!wr(op, "lcr")
<1>1. CASE op \in {<<"none">>, <<"take">>, <<"bad">>}
  BY <1>1 DEF Serial!wr, Serial!rd
<1>2. CASE \E r \in Serial!Reads : op = <<"read", r>>
  BY <1>2 DEF Serial!wr, Serial!rd
<1>3. CASE \E b \in Bytes : op = <<"write", "thr", b>>
  BY <1>3 DEF Serial!wr, Serial!rd
<1>4. CASE \E e \in SUBSET {"line", "data", "thre"} : op = <<"write", "ier", e>>
  BY <1>4 DEF Serial!wr, Serial!rd
<1>5. CASE \E o, r, t \in BOOLEAN :
             op = <<"write", "fcr", [on |-> o, rx |-> r, tx |-> t]>>
  BY <1>5 DEF Serial!wr, Serial!rd
<1>6. CASE \E d \in BOOLEAN : op = <<"write", "lcr", d>>
  BY <1>6 DEF Serial!wr, Serial!rd
<1>7. QED
  BY <1>1, <1>2, <1>3, <1>4, <1>5, <1>6 DEF Serial!Op

LEMMA ReportedHolds ==
  Serial!iir = "thre" => "thre" \in ua_ier /\ ua_thre_pending
<1>1. SUFFICES ASSUME Serial!iir = "thre" PROVE Serial!Holds["thre"]
  BY DEF Serial!Holds
<1> DEFINE First(i) == /\ Serial!Holds[Serial!Order[i]]
                       /\ \A j \in 1 .. i - 1 : ~Serial!Holds[Serial!Order[j]]
<1>2. Serial!irq /\ DOMAIN Serial!Order = 1 .. 4
  BY <1>1 DEF Serial!iir, Serial!Order
<1>3. \E i \in 1 .. 4 : First(i)
  <2>1. \/ Serial!Holds[Serial!Order[1]] \/ Serial!Holds[Serial!Order[2]]
        \/ Serial!Holds[Serial!Order[3]] \/ Serial!Holds[Serial!Order[4]]
    <3>1. PICK i \in 1 .. 4 : Serial!Holds[Serial!Order[i]]
      BY <1>2 DEF Serial!irq
    <3>2. i = 1 \/ i = 2 \/ i = 3 \/ i = 4
      OBVIOUS
    <3>3. QED
      BY <3>1, <3>2
  <2>2. /\ \A j \in 1 .. 1 - 1 : FALSE
        /\ \A j \in 1 .. 2 - 1 : j = 1
        /\ \A j \in 1 .. 3 - 1 : j = 1 \/ j = 2
        /\ \A j \in 1 .. 4 - 1 : j = 1 \/ j = 2 \/ j = 3
    OBVIOUS
  <2>3. 1 \in 1 .. 4 /\ 2 \in 1 .. 4 /\ 3 \in 1 .. 4 /\ 4 \in 1 .. 4
    OBVIOUS
  <2>4. QED
    BY <2>1, <2>2, <2>3, Zenon
<1>4. LET i == CHOOSE i \in DOMAIN Serial!Order : First(i)
      IN Serial!iir = Serial!Order[i] /\ Serial!Holds[Serial!Order[i]]
  BY <1>2, <1>3, Zenon DEF Serial!iir
<1>5. QED
  BY <1>1, <1>4

LEMMA ThreSignals ==
  "thre" \in ua_ier /\ ua_thre_pending => Serial!irq
<1>1. SUFFICES ASSUME "thre" \in ua_ier /\ ua_thre_pending PROVE Serial!irq
  OBVIOUS
<1>2. 4 \in DOMAIN Serial!Order /\ Serial!Order[4] = "thre"
  BY DEF Serial!Order
<1>3. Serial!Holds["thre"]
  BY <1>1 DEF Serial!Holds
<1>4. QED
  BY <1>2, <1>3 DEF Serial!irq

LEMMA SerialInit == ASSUME Serial!Init PROVE SerialInv
<1>1. /\ Serial!Empty \in Rings(TxCells) /\ Serial!Empty \in Rings(RxCells)
      /\ Serial!Content(Serial!Empty) = <<>> /\ Serial!Empty.count = 0
  BY EmptyRing DEF TxCells, RxCells
<1>2. SerialTypes /\ PendingWhileEmpty
  <2>1. <<>> \in Seq(Bytes) /\ <<>> \in Seq(Characters) /\ 0 \in Nat
    OBVIOUS
  <2>2. SerialTypes
    BY <1>1, <2>1, Zenon DEF Serial!Init, SerialTypes, TxCells
  <2>3. PendingWhileEmpty
    BY <1>1 DEF Serial!Init, PendingWhileEmpty
  <2>4. QED
    BY <2>2, <2>3
<1>3. Serial!InOrder
  BY <1>1 DEF Serial!Init, Serial!InOrder
<1>4. Serial!NoneDropped
  BY <1>1 DEF Serial!Init, Serial!NoneDropped, Serial!depth
<1>5. QED
  BY <1>2, <1>3, <1>4 DEF SerialInv

(* What an edge does to the transmitter's ring and to what is owed.        *)
LEMMA SendStep ==
  ASSUME SerialInv, NEW op \in Serial!Op, NEW ends \in BOOLEAN,
         Serial!Transmit(op, ends), Serial!Keep(op, ends)
  PROVE  /\ ua_tx' \in Rings(TxCells) /\ ua_tx_busy' \in TxCells
         /\ ua_owed' \in Seq(Bytes)
         /\ ua_owed' = (IF ua_tx_busy' = "-" THEN <<>> ELSE <<ua_tx_busy'>>)
                       \o Serial!Content(ua_tx')
         /\ Serial!clear_tx(op) => ua_tx'.count = 0
         /\ ~Serial!clear_tx(op) =>
              ua_tx'.count = ua_tx.count - (IF Serial!tx_pop(op) THEN 1 ELSE 0)
                               + (IF Serial!tx_push(op) THEN 1 ELSE 0)
         /\ Serial!tx_pop(op) => ua_tx.count # 0
<1> DEFINE pop == Serial!tx_pop(op)
           push == Serial!tx_push(op)
           clear == Serial!clear_tx(op)
           C == Serial!Content(ua_tx)
           line(b) == IF b = "-" THEN <<>> ELSE <<b>>
           left == IF pop THEN Serial!Popped(ua_tx) ELSE ua_tx
<1>1. /\ ua_tx \in Rings(TxCells) /\ ua_tx_busy \in TxCells
      /\ ua_owed \in Seq(Bytes) /\ "-" \notin Bytes
      /\ "-" \in TxCells /\ Bytes \subseteq TxCells
      /\ ua_tx.count \in Nat /\ ua_tx.count <= Depth /\ C \in Seq(TxCells)
  BY SerialAssumption, RingContent DEF SerialInv, SerialTypes, TxCells
<1>2. ua_owed = line(ua_tx_busy) \o C
  BY DEF SerialInv, Serial!InOrder
<1>3. C \in Seq(Bytes)
  <2>1. CASE ua_tx_busy = "-"
    BY <1>1, <1>2, <2>1, ConcatEmptySeq
  <2>2. CASE ua_tx_busy # "-"
    <3>1. ua_tx_busy \in Bytes
      BY <1>1, <2>2 DEF TxCells
    <3>2. ua_owed = <<ua_tx_busy>> \o C
      BY <1>2, <2>2
    <3>3. C = Tail(ua_owed) /\ ua_owed # <<>>
      BY <1>1, <3>2, FirstOfSeq, ConcatProperties, EmptySeq
    <3>4. QED
      BY <1>1, <3>3, HeadTailProperties
  <2>3. QED
    BY <2>1, <2>2
<1>4. /\ pop => ua_tx_busy = "-" /\ ua_tx.count # 0 /\ ~clear
      /\ push => Serial!wr(op, "thr") /\ op[3] \in Bytes
      /\ ~(push /\ clear)
      /\ ends => ua_tx_busy # "-"
  BY OneRegister DEF Serial!tx_pop, Serial!tx_push, Serial!clear_tx, Serial!Transmit
<1>5. /\ ua_tx_busy' = IF pop THEN Serial!Top(ua_tx)
                       ELSE IF ends THEN "-" ELSE ua_tx_busy
      /\ ua_tx' = IF clear THEN Serial!Empty
                  ELSE IF push THEN Serial!Pushed(left, op[3]) ELSE left
  BY DEF Serial!Transmit
<1>6. ua_owed' = LET first == SubSeq(ua_owed, 1, IF ua_tx_busy = "-" THEN 0 ELSE 1)
                     rest == IF clear THEN first ELSE ua_owed
                     remains == IF ends THEN Tail(rest) ELSE rest
                 IN IF push THEN Append(remains, op[3]) ELSE remains
  BY DEF Serial!Keep
<1> HIDE DEF pop, push, clear
(* The line and the ring after what leaves them has left.                  *)
<1>7. ASSUME ~clear
      PROVE  /\ left \in Rings(TxCells) /\ Serial!Content(left) \in Seq(Bytes)
             /\ left.count = ua_tx.count - (IF pop THEN 1 ELSE 0)
             /\ ua_tx_busy' \in TxCells
             /\ (IF ends THEN Tail(ua_owed) ELSE ua_owed)
                   = line(ua_tx_busy') \o Serial!Content(left)
  <2>1. CASE pop
    <3>1. ~ends /\ ua_owed = C /\ ua_tx_busy' = Serial!Top(ua_tx)
      BY <1>1, <1>2, <1>4, <1>5, <2>1, ConcatEmptySeq
    <3>2. /\ Serial!Popped(ua_tx) \in Rings(TxCells)
          /\ Serial!Popped(ua_tx).count = ua_tx.count - 1
          /\ C # <<>> /\ Serial!Top(ua_tx) = Head(C)
          /\ Serial!Content(Serial!Popped(ua_tx)) = Tail(C)
      BY <1>1, <1>4, <2>1, PopRing
    <3>3. Head(C) \in Bytes /\ Tail(C) \in Seq(Bytes)
      BY <1>3, <3>2, HeadTailProperties
    <3>4. C = <<Head(C)>> \o Tail(C)
      BY <1>3, <3>2, <3>3, FirstOfSeq
    <3>5. QED
      BY <1>1, <2>1, <3>1, <3>2, <3>3, <3>4
  <2>2. CASE ~pop /\ ends
    <3>1. ua_tx_busy \in Bytes /\ ua_tx_busy' = "-"
      BY <1>1, <1>4, <1>5, <2>2 DEF TxCells
    <3>2. Tail(ua_owed) = C
      BY <1>1, <1>2, <1>3, <1>4, <2>2, <3>1, FirstOfSeq
    <3>3. <<>> \o C = C
      BY <1>3, ConcatEmptySeq
    <3>4. QED
      BY <1>1, <1>3, <2>2, <3>1, <3>2, <3>3
  <2>3. CASE ~pop /\ ~ends
    BY <1>1, <1>2, <1>3, <1>5, <2>3
  <2>4. QED
    BY <2>1, <2>2, <2>3
<1> HIDE DEF left
<1>8. CASE clear
  <2>1. ~pop /\ ~push /\ ua_tx' = Serial!Empty
    BY <1>4, <1>5, <1>8
  <2>2. /\ Serial!Empty \in Rings(TxCells) /\ Serial!Empty.count = 0
        /\ Serial!Content(Serial!Empty) = <<>>
    BY <1>1, EmptyRing
  <2>3. ua_owed' = line(ua_tx_busy') /\ ua_tx_busy' \in TxCells
                   /\ line(ua_tx_busy') \in Seq(Bytes)
    <3>1. CASE ua_tx_busy = "-"
      <4>1. ~ends /\ SubSeq(ua_owed, 1, 0) = <<>> /\ <<>> \in Seq(Bytes)
        BY <1>4, <3>1, SubSeqEmpty
      <4>2. QED
        BY <1>1, <1>5, <1>6, <1>8, <2>1, <3>1, <4>1
    <3>2. CASE ua_tx_busy # "-"
      <4>1. ua_tx_busy \in Bytes
        BY <1>1, <3>2 DEF TxCells
      <4>2. SubSeq(ua_owed, 1, 1) = <<ua_tx_busy>>
        BY <1>2, <1>3, <3>2, <4>1, FirstOfSeq
      <4>3. /\ Tail(<<ua_tx_busy>>) = <<>> /\ <<ua_tx_busy>> \in Seq(Bytes)
            /\ <<>> \in Seq(Bytes)
        BY <4>1
      <4>4. QED
        BY <1>1, <1>5, <1>6, <1>8, <2>1, <3>2, <4>2, <4>3
    <3>3. QED
      BY <3>1, <3>2
  <2>4. line(ua_tx_busy') \o <<>> = line(ua_tx_busy')
    BY <2>3, ConcatEmptySeq
  <2>5. QED
    BY <1>8, <2>1, <2>2, <2>3, <2>4 DEF clear, pop, push
<1>9. CASE ~clear
  <2>1. line(ua_tx_busy') \in Seq(Bytes)
    <3>1. CASE ua_tx_busy' = "-"
      BY <3>1
    <3>2. CASE ua_tx_busy' # "-"
      <4>1. ua_tx_busy' \in Bytes
        BY <1>7, <1>9, <3>2 DEF TxCells
      <4>2. QED
        BY <3>2, <4>1
    <3>3. QED
      BY <3>1, <3>2
  <2> DEFINE remains == IF ends THEN Tail(ua_owed) ELSE ua_owed
  <2>2. /\ remains = line(ua_tx_busy') \o Serial!Content(left)
        /\ remains \in Seq(Bytes)
    BY <1>7, <1>9, <2>1, ConcatProperties
  <2>3. CASE ~push
    <3>1. ua_tx' = left /\ ua_owed' = remains
      BY <1>5, <1>6, <1>9, <2>3
    <3>2. QED
      BY <1>1, <1>4, <1>7, <1>9, <2>2, <2>3, <3>1 DEF clear, pop, push
  <2>4. CASE push
    <3>1. ua_tx' = Serial!Pushed(left, op[3]) /\ ua_owed' = Append(remains, op[3])
      BY <1>5, <1>6, <1>9, <2>4
    <3>2. left.count < Depth /\ op[3] \in TxCells /\ op[3] \in Bytes
      <4>1. ua_tx.count < Serial!depth \/ pop
        BY <2>4 DEF push, pop, Serial!tx_push
      <4>2. Serial!depth <= Depth /\ Serial!depth \in Nat /\ Depth \in Nat
        BY SerialAssumption DEF Serial!depth
      <4>3. QED
        BY <1>1, <1>4, <1>7, <1>9, <2>4, <4>1, <4>2
    <3>3. /\ Serial!Pushed(left, op[3]) \in Rings(TxCells)
          /\ Serial!Pushed(left, op[3]).count = left.count + 1
          /\ Serial!Content(Serial!Pushed(left, op[3]))
               = Append(Serial!Content(left), op[3])
      BY <1>7, <1>9, <3>2, PushRing
    <3>4. Append(remains, op[3])
            = line(ua_tx_busy') \o Append(Serial!Content(left), op[3])
      <4>1. CASE ua_tx_busy' = "-"
        <5>1. /\ Append(Serial!Content(left), op[3]) \in Seq(Bytes)
              /\ remains = Serial!Content(left)
          BY <1>7, <1>9, <2>2, <3>2, <4>1, ConcatEmptySeq, AppendProperties
        <5>2. QED
          BY <4>1, <5>1, ConcatEmptySeq
      <4>2. CASE ua_tx_busy' # "-"
        <5>1. ua_tx_busy' \in Bytes
          BY <1>7, <1>9, <4>2 DEF TxCells
        <5>2. QED
          BY <1>7, <1>9, <2>2, <3>2, <4>2, <5>1, FirstOfSeq
      <4>3. QED
        BY <4>1, <4>2
    <3>5. Append(remains, op[3]) \in Seq(Bytes)
      BY <2>2, <3>2, AppendProperties
    <3>6. QED
      BY <1>1, <1>4, <1>7, <1>9, <2>4, <3>1, <3>3, <3>4, <3>5 DEF clear, pop, push
  <2>5. QED
    BY <2>3, <2>4
<1>10. QED
  BY <1>8, <1>9

(* A register that is read is not written.                                 *)
LEMMA TellsStep ==
  ASSUME SerialInv, NEW op \in Serial!Op, NEW ends \in BOOLEAN,
         Serial!Configure(op), Serial!Transmit(op, ends), Serial!Keep(op, ends)
  PROVE  /\ ua_fifo_on' \in BOOLEAN /\ ua_dlab' \in BOOLEAN
         /\ ua_thre_pending' \in BOOLEAN /\ ua_told' \in BOOLEAN
         /\ ua_room' \in Nat /\ Serial!NoneDropped' /\ PendingWhileEmpty'
<1> DEFINE pop == Serial!tx_pop(op)
           push == Serial!tx_push(op)
           clear == Serial!clear_tx(op)
           switch == Serial!wr(op, "fcr") /\ op[3].on # ua_fifo_on
           switched == /\ Serial!wr(op, "ier") /\ ~ua_dlab
                       /\ "thre" \in op[3] \ ua_ier /\ ua_tx.count = 0
           count == ua_tx.count
           countN == ua_tx'.count
<1>1. /\ clear => countN = 0
      /\ ~clear => countN = count - (IF pop THEN 1 ELSE 0) + (IF push THEN 1 ELSE 0)
      /\ pop => count # 0
      /\ count \in Nat /\ count <= Depth /\ countN \in Nat
  BY SendStep, RingContent DEF SerialInv, SerialTypes
<1>2. /\ Serial!depth \in Nat \ {0} /\ Serial!depth' \in Nat \ {0}
      /\ ua_fifo_on \in BOOLEAN /\ ua_dlab \in BOOLEAN /\ ua_thre_pending \in BOOLEAN
      /\ ua_told \in BOOLEAN /\ ua_room \in Nat
  BY SerialAssumption DEF Serial!depth, SerialInv, SerialTypes
<1>3. ua_room + count <= Serial!depth
  BY DEF SerialInv, Serial!NoneDropped
<1>4. /\ switch => clear /\ ~push
      /\ clear => Serial!wr(op, "fcr") /\ ~push /\ ~pop
      /\ push => Serial!wr(op, "thr") /\ ~ua_dlab /\ (count < Serial!depth \/ pop)
      /\ Serial!wr(op, "thr") /\ ~ua_dlab /\ count < Serial!depth => push
  BY OneRegister DEF Serial!tx_pop, Serial!tx_push, Serial!clear_tx
<1>5. /\ ua_fifo_on' \in BOOLEAN /\ ua_dlab' \in BOOLEAN
      /\ ~switch => Serial!depth' = Serial!depth
  BY <1>2, OneRegister DEF Serial!Configure, Serial!depth
<1>6. /\ Serial!rd(op, "lsr") \/ Serial!ReadsThre(op)
           => ~Serial!wr(op, "fcr") /\ ~Serial!wr(op, "thr") /\ ~switch
      /\ Serial!ReadsThre(op) => ua_thre_pending
  BY OneRegister, ReportedHolds DEF Serial!ReadsThre
<1> DEFINE told == (Serial!rd(op, "lsr") /\ count = 0) \/ Serial!ReadsThre(op)
           takes == Serial!wr(op, "thr") /\ ~ua_dlab /\ ua_room > 0
<1>7. /\ switch => ua_room' = 0
      /\ ~switch /\ told => ua_room' = Serial!depth
      /\ ~switch /\ ~told /\ takes => ua_room' = ua_room - 1
      /\ ~switch /\ ~told /\ ~takes => ua_room' = ua_room
  <2>1. told => ~switch
    BY <1>6
  <2>2. takes => ~switch /\ ~told
    BY OneRegister DEF Serial!ReadsThre
  <2>3. ua_room' = CASE switch -> 0 [] told -> Serial!depth
                     [] takes -> ua_room - 1 [] OTHER -> ua_room
    BY Zenon DEF Serial!Keep
  <2> HIDE DEF switch, told, takes
  <2>4. QED
    BY <2>1, <2>2, <2>3
<1>8. ua_thre_pending' = (\/ clear
                          \/ pop /\ count = 1 /\ ~push
                          \/ /\ ~Serial!clear_thre(op) /\ ~push
                             /\ ua_thre_pending \/ switched)
  BY DEF Serial!Transmit
<1>9. ua_told' = (Serial!ReadsThre(op) \/ (ua_told /\ ~push /\ ~clear))
  BY DEF Serial!Keep
<1>10. Serial!clear_thre(op) = Serial!ReadsThre(op)
  BY DEF Serial!clear_thre, Serial!ReadsThre
<1>11. ua_thre_pending => count = 0
  BY DEF SerialInv, PendingWhileEmpty
<1>12. "thre" \in ua_ier /\ count = 0 => ua_told \/ ua_thre_pending
  BY DEF SerialInv, PendingWhileEmpty
<1>13. "thre" \in ua_ier' /\ "thre" \notin ua_ier /\ count = 0 => switched
  BY DEF Serial!Configure
<1> HIDE DEF switch, clear, push, pop, count, countN, switched
<1>14. ua_room' \in Nat /\ ua_room' + countN <= Serial!depth'
  <2>1. CASE switch
    <3>1. ua_room' = 0 /\ countN = 0
      BY <1>1, <1>4, <1>7, <2>1
    <3>2. QED
      BY <1>2, <3>1
  <2>2. CASE ~switch /\ told
    <3>1. ua_room' = Serial!depth
      BY <1>7, <2>2
    <3>2. count = 0 /\ ~push /\ ~clear
      BY <1>4, <1>6, <1>11, <2>2
    <3>3. countN = 0
      BY <1>1, <3>2
    <3>4. QED
      BY <1>2, <1>5, <2>2, <3>1, <3>3
  <2>3. CASE ~switch /\ ~told /\ takes
    <3>1. ua_room' = ua_room - 1
      BY <1>7, <2>3
    <3>2. countN <= count + 1
      BY <1>1
    <3>3. QED
      BY <1>1, <1>2, <1>3, <1>5, <2>3, <3>1, <3>2
  <2>4. CASE ~switch /\ ~told /\ ~takes
    <3>1. ua_room' = ua_room /\ Serial!depth' = Serial!depth
      BY <1>5, <1>7, <2>4
    <3>2. CASE push
      <4>1. ua_room = 0 /\ ~clear
        BY <1>2, <1>4, <2>4, <3>2
      <4>2. countN <= Serial!depth
        <5>1. CASE pop
          BY <1>1, <1>2, <1>3, <3>2, <4>1, <5>1
        <5>2. CASE ~pop
          <6>1. countN = count + 1
            BY <1>1, <3>2, <4>1, <5>2
          <6>2. count < Serial!depth
            BY <1>4, <3>2, <5>2
          <6>3. QED
            BY <1>1, <1>2, <6>1, <6>2
        <5>3. QED
          BY <5>1, <5>2
      <4>3. QED
        BY <1>1, <1>2, <3>1, <4>1, <4>2
    <3>3. CASE ~push
      <4>1. countN <= count
        BY <1>1, <3>3
      <4>2. QED
        BY <1>1, <1>2, <1>3, <3>1, <4>1
    <3>4. QED
      BY <3>2, <3>3
  <2>5. QED
    BY <2>1, <2>2, <2>3, <2>4
<1>15. ua_thre_pending' => countN = 0
  <2>1. CASE clear
    BY <1>1, <2>1
  <2>2. CASE ~clear /\ pop /\ count = 1 /\ ~push
    BY <1>1, <2>2
  <2>3. CASE ~clear /\ ~push /\ count = 0
    BY <1>1, <2>3
  <2>4. ~push /\ (ua_thre_pending \/ switched) => count = 0
    BY <1>11 DEF switched, count
  <2>5. QED
    BY <1>8, <2>1, <2>2, <2>3, <2>4
<1>16. ASSUME "thre" \in ua_ier', countN = 0, ~ua_told' PROVE ua_thre_pending'
  <2>1. CASE clear
    BY <1>8, <2>1
  <2>2. CASE ~clear
    <3>1. ~push
      <4>1. CASE push
        <5>1. countN # 0
          BY <1>1, <2>2, <4>1
        <5>2. QED
          BY <1>16, <5>1
      <4>2. QED
        BY <4>1
    <3>2. ~Serial!clear_thre(op) /\ ~ua_told
      BY <1>9, <1>10, <1>16, <2>2, <3>1
    <3>3. CASE pop
      <4>1. count = 1
        BY <1>1, <1>16, <2>2, <3>1, <3>3
      <4>2. QED
        BY <1>8, <3>1, <3>3, <4>1
    <3>4. CASE ~pop
      <4>1. count = 0
        BY <1>1, <1>16, <2>2, <3>1, <3>4
      <4>2. ua_thre_pending \/ switched
        BY <1>12, <1>13, <1>16, <3>2, <4>1
      <4>3. QED
        BY <1>8, <3>1, <3>2, <4>2
    <3>5. QED
      BY <3>3, <3>4
  <2>3. QED
    BY <2>1, <2>2
<1>17. ua_thre_pending' \in BOOLEAN /\ ua_told' \in BOOLEAN
  BY <1>8, <1>9
<1>18. QED
  BY <1>5, <1>14, <1>15, <1>16, <1>17
     DEF Serial!NoneDropped, PendingWhileEmpty, countN, count

LEMMA ReceiveStep ==
  ASSUME SerialInv, NEW op \in Serial!Op,
         NEW got \in Characters \cup {Serial!Silence}, Serial!Receive(op, got)
  PROVE  /\ ua_rx' \in Rings(RxCells) /\ ua_heard' \in Seq(Characters)
         /\ ua_heard' = Serial!Content(ua_rx')
<1> DEFINE pop == Serial!rx_pop(op)
           push == Serial!rx_push(op, got)
           clear == Serial!clear_rx(op)
           seen == IF Serial!clear_lsr(op) /\ ua_rx.count # 0
                   THEN [ua_rx EXCEPT !.mem[ua_rx.head].error = FALSE] ELSE ua_rx
           line == IF Serial!clear_lsr(op) /\ ua_heard # <<>>
                   THEN [ua_heard EXCEPT ![1].error = FALSE] ELSE ua_heard
           left == IF pop THEN Serial!Popped(seen) ELSE seen
           rest == IF pop THEN Tail(line) ELSE line
<1>1. /\ ua_rx \in Rings(RxCells) /\ ua_heard \in Seq(Characters)
      /\ "-" \in RxCells /\ Characters \subseteq RxCells
      /\ ua_heard = Serial!Content(ua_rx) /\ Len(ua_heard) = ua_rx.count
      /\ ua_rx.count \in Nat /\ ua_rx.count <= Depth
      /\ \A i \in 1 .. ua_rx.count :
           ua_heard[i] = ua_rx.mem[(ua_rx.head + i - 1) % Depth]
  BY RingContent DEF SerialInv, SerialTypes, RxCells, Serial!InOrder
<1>2. /\ seen \in Rings(RxCells) /\ line \in Seq(Characters)
      /\ seen.count = ua_rx.count /\ line = Serial!Content(seen)
  <2>1. CASE ua_rx.count = 0
    <3>1. ua_heard = <<>>
      BY <1>1, <2>1, EmptySeq
    <3>2. QED
      BY <1>1, <2>1, <3>1
  <2>2. CASE ua_rx.count # 0 /\ ~Serial!clear_lsr(op)
    BY <1>1, <2>2
  <2>3. CASE ua_rx.count # 0 /\ Serial!clear_lsr(op)
    <3> DEFINE x == [ua_heard[1] EXCEPT !.error = FALSE]
               m == [ua_rx.mem EXCEPT ![ua_rx.head] = x]
               r == [ua_rx EXCEPT !.mem = m]
               h == [ua_heard EXCEPT ![1] = x]
    <3>1. /\ ua_rx.mem \in [Serial!Slots -> RxCells] /\ ua_rx.head \in Serial!Slots
          /\ ua_rx.tail \in Serial!Slots /\ ua_rx.count \in 0 .. Depth
          /\ ua_rx.tail = (ua_rx.head + ua_rx.count) % Depth
          /\ ua_rx = [mem |-> ua_rx.mem, head |-> ua_rx.head, tail |-> ua_rx.tail,
                      count |-> ua_rx.count]
      BY <1>1 DEF Rings
    <3>2. Depth \in Nat \ {0} /\ ua_rx.head \in Nat /\ ua_rx.head < Depth
      BY <3>1, SerialAssumption DEF Serial!Slots
    <3>3. 1 \in 1 .. ua_rx.count /\ 1 \in 1 .. Len(ua_heard) /\ ua_heard # <<>>
      BY <1>1, <2>3, EmptySeq
    <3>4. ua_heard[1] = ua_rx.mem[ua_rx.head]
      <4>1. (ua_rx.head + 1 - 1) % Depth = ua_rx.head
        BY <3>2, SMT
      <4>2. QED
        BY <1>1, <3>3, <4>1
    <3>5. x \in Characters
      <4>1. ua_heard[1] \in Characters
        BY <1>1, <3>3, ElementOfSeq
      <4>2. QED
        BY <4>1 DEF Characters
    <3>6. seen = r /\ line = h
      BY <2>3, <3>1, <3>3, <3>4, Zenon
    <3> HIDE DEF x
    <3>7. m \in [Serial!Slots -> RxCells]
      BY <1>1, <3>1, <3>5
    <3>8. r = [mem |-> m, head |-> ua_rx.head, tail |-> ua_rx.tail,
               count |-> ua_rx.count]
      BY <3>1
    <3> HIDE DEF m
    <3>9. r \in Rings(RxCells) /\ r.count = ua_rx.count /\ r.head = ua_rx.head
          /\ r.mem = m
      BY <3>1, <3>7, <3>8 DEF Rings
    <3> HIDE DEF r
    <3>10. /\ h \in Seq(Characters) /\ Len(h) = ua_rx.count
           /\ \A j \in 1 .. ua_rx.count : h[j] = IF j = 1 THEN x ELSE ua_heard[j]
      BY <1>1, <3>3, <3>5, ExceptSeq
    <3> HIDE DEF h
    <3>11. /\ Serial!Content(r) \in Seq(RxCells)
           /\ Len(Serial!Content(r)) = ua_rx.count
           /\ \A j \in 1 .. ua_rx.count :
                Serial!Content(r)[j] = m[(ua_rx.head + j - 1) % Depth]
      <4>1. /\ Serial!Content(r) \in Seq(RxCells)
            /\ Len(Serial!Content(r)) = r.count
            /\ \A j \in 1 .. r.count :
                 Serial!Content(r)[j] = r.mem[(r.head + j - 1) % Depth]
        BY <3>9, RingContent
      <4>2. QED
        BY <3>9, <4>1
    <3>12. ASSUME NEW j \in 1 .. ua_rx.count
           PROVE  m[(ua_rx.head + j - 1) % Depth] = h[j]
      <4>1. /\ ua_rx.head + j - 1 = ua_rx.head + (j - 1)
            /\ j - 1 \in 0 .. Depth /\ j \in Nat
        BY <1>1, <3>2
      <4>2. /\ (ua_rx.head + j - 1) % Depth
                 = IF ua_rx.head + (j - 1) < Depth THEN ua_rx.head + (j - 1)
                   ELSE ua_rx.head + (j - 1) - Depth
            /\ (ua_rx.head + j - 1) % Depth \in Serial!Slots
        BY <3>1, <4>1, Wrapped
      <4>3. CASE j = 1
        <5>1. (ua_rx.head + j - 1) % Depth = ua_rx.head
          BY <3>2, <4>2, <4>3
        <5>2. QED
          BY <3>1, <3>10, <4>3, <5>1 DEF m
      <4>4. CASE j # 1
        <5>1. (ua_rx.head + j - 1) % Depth # ua_rx.head
          <6>1. j - 1 \in 1 .. Depth - 1
            BY <1>1, <3>2, <4>1, <4>4
          <6>2. CASE ua_rx.head + (j - 1) < Depth
            BY <3>2, <4>2, <6>1, <6>2
          <6>3. CASE ~(ua_rx.head + (j - 1) < Depth)
            BY <3>2, <4>2, <6>1, <6>3
          <6>4. QED
            BY <6>2, <6>3
        <5>2. QED
          BY <1>1, <3>1, <3>10, <4>2, <4>4, <5>1 DEF m
      <4>5. QED
        BY <4>3, <4>4
    <3>13. h \in Seq(RxCells)
      BY <1>1, <3>10, SeqMonotonic
    <3>14. Serial!Content(r) = h
      BY <3>10, <3>11, <3>12, <3>13, SeqEqual
    <3>15. QED
      BY <3>6, <3>9, <3>10, <3>14
  <2>4. QED
    BY <2>1, <2>2, <2>3
<1> HIDE DEF seen, line
<1>3. /\ ua_rx' = IF clear THEN Serial!Empty
                 ELSE IF push THEN Serial!Pushed(left, got) ELSE left
      /\ ua_heard' = IF clear THEN <<>>
                    ELSE IF push THEN Append(rest, got) ELSE rest
  BY Zenon DEF Serial!Receive, seen, line
<1>4. /\ pop => ua_rx.count # 0
      /\ push => got \in Characters /\ (ua_rx.count < Serial!depth \/ pop)
  BY DEF Serial!rx_pop, Serial!rx_push
<1> HIDE DEF pop, push, clear
<1>5. /\ left \in Rings(RxCells) /\ rest \in Seq(Characters)
      /\ rest = Serial!Content(left)
      /\ left.count = ua_rx.count - (IF pop THEN 1 ELSE 0)
  <2>1. CASE pop
    <3>1. /\ Serial!Popped(seen) \in Rings(RxCells)
          /\ Serial!Popped(seen).count = seen.count - 1
          /\ Serial!Content(seen) # <<>>
          /\ Serial!Content(Serial!Popped(seen)) = Tail(Serial!Content(seen))
      BY <1>1, <1>2, <1>4, <2>1, PopRing
    <3>2. Tail(line) \in Seq(Characters)
      BY <1>2, <3>1, HeadTailProperties
    <3>3. QED
      BY <1>2, <2>1, <3>1, <3>2
  <2>2. CASE ~pop
    BY <1>1, <1>2, <2>2
  <2>3. QED
    BY <2>1, <2>2
<1> HIDE DEF left, rest
<1>6. CASE clear
  <2>1. ua_rx' = Serial!Empty /\ ua_heard' = <<>> /\ <<>> \in Seq(Characters)
    BY <1>3, <1>6
  <2>2. QED
    BY <1>1, <2>1, EmptyRing
<1>7. CASE ~clear /\ push
  <2>1. left.count < Depth /\ got \in Characters /\ got \in RxCells
    <3>1. Serial!depth <= Depth /\ Serial!depth \in Nat /\ Depth \in Nat
      BY SerialAssumption DEF Serial!depth
    <3>2. QED
      BY <1>1, <1>4, <1>5, <1>7, <3>1
  <2>2. /\ Serial!Pushed(left, got) \in Rings(RxCells)
        /\ Serial!Content(Serial!Pushed(left, got)) = Append(Serial!Content(left), got)
    BY <1>5, <2>1, PushRing
  <2>3. Append(rest, got) \in Seq(Characters)
    BY <1>5, <2>1, AppendProperties
  <2>4. QED
    BY <1>3, <1>5, <1>7, <2>2, <2>3
<1>8. CASE ~clear /\ ~push
  BY <1>3, <1>5, <1>8
<1>9. QED
  BY <1>6, <1>7, <1>8

LEMMA SerialStep == ASSUME SerialInv, [Serial!Next]_(Serial!vars) PROVE SerialInv'
<1>1. CASE Serial!Edge
  <2>1. PICK op \in Serial!Op, ends \in BOOLEAN, got \in Serial!Arrivals :
          /\ Serial!Configure(op) /\ Serial!Transmit(op, ends)
          /\ Serial!Keep(op, ends) /\ Serial!Receive(op, got)
    BY <1>1 DEF Serial!Edge
  <2>2. got \in Characters \cup {Serial!Silence}
    BY DEF Serial!Arrivals, Characters
  <2>3. /\ ua_rx' \in Rings(RxCells) /\ ua_heard' \in Seq(Characters)
        /\ ua_heard' = Serial!Content(ua_rx')
    BY <2>1, <2>2, ReceiveStep
  <2>4. /\ ua_tx' \in Rings(TxCells) /\ ua_tx_busy' \in TxCells
        /\ ua_owed' \in Seq(Bytes)
        /\ ua_owed' = (IF ua_tx_busy' = "-" THEN <<>> ELSE <<ua_tx_busy'>>)
                      \o Serial!Content(ua_tx')
    BY <2>1, SendStep
  <2>5. /\ ua_fifo_on' \in BOOLEAN /\ ua_dlab' \in BOOLEAN
        /\ ua_thre_pending' \in BOOLEAN /\ ua_told' \in BOOLEAN
        /\ ua_room' \in Nat /\ Serial!NoneDropped' /\ PendingWhileEmpty'
    BY <2>1, TellsStep
  <2>6. Serial!InOrder'
    BY <2>3, <2>4 DEF Serial!InOrder
  <2>7. SerialTypes'
    BY <2>3, <2>4, <2>5 DEF SerialTypes
  <2>8. QED
    BY <2>5, <2>6, <2>7 DEF SerialInv
<1>2. CASE Serial!Reset
  <2>1. /\ Serial!Empty \in Rings(TxCells) /\ Serial!Empty \in Rings(RxCells)
        /\ Serial!Content(Serial!Empty) = <<>> /\ Serial!Empty.count = 0
    BY EmptyRing DEF TxCells, RxCells
  <2>2. <<>> \in Seq(Bytes) /\ <<>> \in Seq(Characters) /\ 0 \in Nat
    OBVIOUS
  <2>3. SerialTypes'
    BY <1>2, <2>1, <2>2, Zenon DEF Serial!Reset, SerialTypes, TxCells
  <2>4. PendingWhileEmpty'
    BY <1>2, <2>1 DEF Serial!Reset, PendingWhileEmpty
  <2>5. Serial!InOrder'
    BY <1>2, <2>1 DEF Serial!Reset, Serial!InOrder
  <2>6. Serial!NoneDropped'
    BY <1>2, <2>1 DEF Serial!Reset, Serial!NoneDropped, Serial!depth
  <2>7. QED
    BY <2>3, <2>4, <2>5, <2>6 DEF SerialInv
<1>3. CASE UNCHANGED Serial!vars
  BY <1>3 DEF Serial!vars, Serial!config, Serial!txVars, Serial!rxVars, SerialInv,
     SerialTypes, PendingWhileEmpty, Serial!InOrder, Serial!NoneDropped,
     Serial!depth, Serial!Content
<1>4. QED
  BY <1>1, <1>2, <1>3 DEF Serial!Next

(* The serial port keeps its characters in order, software that heeds it   *)
(* loses none and is told when there is room, and the trace gets the pin   *)
(* only from a port that is done: for rings and windows of any size        *)
(* (uart16550.sv:72-109, 149-213, checkpoint10_uart_owner.sv:31-33).       *)
THEOREM ConsoleIsKept == MCSpec => []ConsoleKept
<1>1. ASSUME SerialInv, PinInv PROVE ConsoleKept
  <2>1. Serial!ThreTold
    BY <1>1, ThreSignals DEF SerialInv, PendingWhileEmpty, Serial!ThreTold
  <2>2. QED
    BY <1>1, <2>1 DEF ConsoleKept, Serial!UartExact, SerialInv, PinInv
<1>2. MCInit => SerialInv
  BY SerialInit DEF MCInit
<1>3. SerialInv /\ [MCNext]_all => SerialInv'
  BY SerialStep, OneDevice
<1>4. QED
  BY <1>1, <1>2, <1>3, PinAlways, PTL DEF MCSpec
=============================================================================
