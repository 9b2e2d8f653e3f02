------------------------------ MODULE MCLockstep ------------------------------
(***************************************************************************)
(* A program of three steps: a CSR or byte-load instruction, an AMO or a   *)
(* half-word store, and a trap with or without its instruction.  The DUT   *)
(* reports any of them right, or wrong in one field.                       *)
(***************************************************************************)
EXTENDS Lockstep, TLC

Op == [opcode |-> "op", funct3 |-> 0]
Lb == [opcode |-> "load", funct3 |-> 0]
Sh == [opcode |-> "store", funct3 |-> 1]
Amo == [opcode |-> "amo", funct3 |-> 2]

Commit(pc, insn, regs, csrs, mems) ==
  [kind |-> "lines", commits |-> <<[priv |-> 3, pc |-> pc, insn |-> insn, regs |-> regs,
                  csrs |-> csrs, mems |-> mems]>>,
   traps |-> <<>>, traces |-> <<>>, tvals |-> <<>>]
Trap(name, pc, traces, tvals) ==
  [kind |-> "lines", commits |-> <<>>, traps |-> <<[name |-> name, epc |-> pc]>>,
   traces |-> traces, tvals |-> tvals]

CsrStep == Commit(0, Op, 1 :> 2, 3 :> 1, <<>>)
LoadStep == Commit(0, Lb, 2 :> 1, <<>>, <<[addr |-> 5, value |-> NoValue]>>)
StoreStep == Commit(1, Sh, <<>>, <<>>, <<[addr |-> 2, value |-> 2]>>)
AmoStep == Commit(1, Amo, 1 :> 6, <<>>,
                  <<[addr |-> 4, value |-> NoValue], [addr |-> 4, value |-> 9]>>)
Illegal == Trap("illegal_instruction", 2, <<[pc |-> 2, insn |-> Op]>>, <<3>>)
NoFetch == Trap("instruction_access_fault", 2, <<>>, <<2>>)

Event(n, pc, insn) ==
  [kind |-> "retire", order |-> n, pc |-> pc, insn |-> insn, priv |-> 3,
   rd |-> 0, rd_data |-> 0, mem_addr |-> 0, mem_rmask |-> {}, mem_wmask |-> {},
   mem_wdata |-> 0, trap |-> FALSE, cause |-> 0, tval |-> 0, csr_writes |-> <<>>]
CsrEvent == [Event(0, 0, Op) EXCEPT !.rd = 1, !.rd_data = 2, !.csr_writes = 3 :> 1]
LoadEvent == [Event(0, 0, Lb) EXCEPT !.rd = 2, !.rd_data = 1, !.mem_addr = 5, !.mem_rmask = {1}]
StoreEvent == [Event(1, 1, Sh) EXCEPT !.mem_addr = 2, !.mem_wmask = {2, 3}, !.mem_wdata = 8]
AmoEvent == [Event(1, 1, Amo) EXCEPT !.rd = 1, !.rd_data = 6, !.mem_addr = 4,
               !.mem_rmask = 0 .. 3, !.mem_wmask = 0 .. 3, !.mem_wdata = 9]
IllegalEvent == [Event(2, 2, Op) EXCEPT !.trap = TRUE, !.cause = 2, !.tval = 3]
NoFetchEvent == [Event(2, 2, Lb) EXCEPT !.trap = TRUE, !.cause = 1, !.tval = 2]

(* Wrong in one place.                                                     *)
WrongStep(e) ==
  {[e EXCEPT !.order = @ + 1], [e EXCEPT !.pc = @ + 1],
   [e EXCEPT !.insn = IF @ = Op THEN Lb ELSE Op], [e EXCEPT !.priv = 1],
   [e EXCEPT !.trap = ~@], [e EXCEPT !.cause = @ + 1], [e EXCEPT !.tval = @ + 1]}
WrongEffect(e) ==
  {[e EXCEPT !.rd = IF @ = 0 THEN 3 ELSE 0], [e EXCEPT !.rd_data = @ + 1],
   [e EXCEPT !.mem_rmask = IF 1 \in @ THEN @ \ {1} ELSE {1}],
   [e EXCEPT !.csr_writes = IF @ = <<>> THEN 3 :> 0 ELSE <<>>]}
WrongMemory(e) ==
  {[e EXCEPT !.mem_addr = @ + 4], [e EXCEPT !.mem_wdata = @ + 4],
   [e EXCEPT !.mem_wmask = IF 2 \in @ THEN @ \ {2} ELSE {2}]}

MCEvents ==
  0 :> ({CsrEvent, LoadEvent} \cup WrongStep(CsrEvent) \cup WrongEffect(CsrEvent)
        \cup WrongEffect(LoadEvent))
  @@ 1 :> ({StoreEvent, AmoEvent} \cup WrongMemory(StoreEvent) \cup WrongEffect(AmoEvent))
  @@ 2 :> ({IllegalEvent, NoFetchEvent} \cup WrongStep(IllegalEvent)
           \cup WrongEffect(NoFetchEvent))

(* What else Spike may print: two commits, a trap without its instruction, *)
(* a trap it has no number for, a memory item of an instruction that does  *)
(* not access memory.                                                      *)
MCAnswers ==
  0 :> {CsrStep, LoadStep, [CsrStep EXCEPT !.commits = @ \o @],
        Commit(0, Op, <<>>, <<>>, <<[addr |-> 4, value |-> 1]>>)}
  @@ 1 :> {StoreStep, AmoStep}
  @@ 2 :> {Illegal, NoFetch, [Illegal EXCEPT !.traces = <<>>],
           Trap("user_timer", 2, <<[pc |-> 2, insn |-> Op]>>, <<>>),
           [Illegal EXCEPT !.tvals = <<>>]}

Args(limit, until_trap, require_done, inject) ==
  [limit |-> limit, watchdog |-> 1, until_trap |-> until_trap,
   require_done |-> require_done, inject |-> inject]
NoFault == [what |-> "none", at |-> 0]
MCArguments ==
  {Args(4, TRUE, TRUE, NoFault), Args(2, FALSE, FALSE, NoFault),
   Args(3, FALSE, TRUE, [what |-> "cause", at |-> 2]),
   Args(3, FALSE, TRUE, [what |-> "store", at |-> 1]),
   Args(1, FALSE, TRUE, [what |-> "rd", at |-> 0])}
MCBytes == 0 .. 7
MCRegisters == 0 .. 3
MCBootLengths == {1, 2}
=============================================================================
