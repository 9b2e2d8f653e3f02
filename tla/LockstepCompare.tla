---------------------------- MODULE LockstepCompare ----------------------------
(***************************************************************************)
(* The comparison of scripts/lockstep.py, without its processes: what a    *)
(* Spike answer to "run 1" says, what a retirement event of the DUT says,  *)
(* and where the two differ.                                               *)
(*                                                                         *)
(* An instruction is its opcode class and funct3; an answer is the lines   *)
(* the regular expressions of lines 18-24 pick out of it, in order; byte   *)
(* values are Radix-ary and a data word is the number its bytes make.      *)
(***************************************************************************)
EXTENDS Integers, Sequences, FiniteSets

CONSTANTS
  Radix,        \* values of a byte (256 in the code)
  NoInsn,       \* the missing instruction of a fetch access fault
  NoValue,      \* a "mem" item without a value: a read
  Bytes,        \* the byte addresses of the program
  Registers     \* the numbers of the integer registers

(* Spike's trap names and their cause numbers.                             *)
Causes ==
  [instruction_address_misaligned |-> 0, instruction_access_fault |-> 1,
   illegal_instruction |-> 2, breakpoint |-> 3, load_address_misaligned |-> 4,
   load_access_fault |-> 5, store_address_misaligned |-> 6, store_access_fault |-> 7,
   user_ecall |-> 8, supervisor_ecall |-> 9, machine_ecall |-> 11,
   instruction_page_fault |-> 12, load_page_fault |-> 13, store_page_fault |-> 15]

WordBytes == 4
Aligned(addr) == addr - (addr % WordBytes)
Byte(value, i) == (value \div Radix^i) % Radix
Elements(seq) == {seq[i] : i \in DOMAIN seq}
FlipLowBit(value) == IF value % 2 = 0 THEN value + 1 ELSE value - 1

(* Bytes an instruction reads or writes; 0 stands for None.                *)
load_size(insn) ==
  CASE insn.opcode = "load" /\ insn.funct3 \in {0, 4} -> 1
    [] insn.opcode = "load" /\ insn.funct3 \in {1, 5} -> 2
    [] insn.opcode \in {"load", "amo"} /\ insn.funct3 = 2 -> 4
    [] OTHER -> 0

store_size(insn) ==
  CASE insn.opcode = "store" /\ insn.funct3 = 0 -> 1
    [] insn.opcode = "store" /\ insn.funct3 = 1 -> 2
    [] insn.opcode \in {"store", "amo"} /\ insn.funct3 = 2 -> 4
    [] OTHER -> 0

-----------------------------------------------------------------------------
(* What the two programs print when they print a retirement: a DUT event,  *)
(* and the lines of a commit or of a trap.  A number of a kind that is     *)
(* only compared has no range here.                                        *)
Opcodes == {"load", "store", "amo", "op"}
Insn == [opcode : Opcodes, funct3 : 0 .. 7]
Lane == 0 .. WordBytes - 1
IsEvent(e) ==
  /\ e \in [kind : {"retire"}, order : Nat, pc : Nat, insn : Insn, priv : Nat,
            rd : Registers, rd_data : Nat, mem_addr : Nat, mem_rmask : SUBSET Lane,
            mem_wmask : SUBSET Lane, mem_wdata : Nat, trap : BOOLEAN, cause : Nat,
            tval : Nat, csr_writes : {e.csr_writes}]
  /\ \A l \in e.mem_rmask \cup e.mem_wmask : Aligned(e.mem_addr) + l \in Bytes

IsCommit(c) ==
  /\ c.insn \in Insn /\ DOMAIN c.regs \subseteq Registers
  /\ c.regs \in [DOMAIN c.regs -> Nat]
  /\ c.mems \in Seq([addr : Nat, value : {NoValue} \cup Nat])
  /\ \A i \in DOMAIN c.mems, k \in Lane :
       k < store_size(c.insn) \/ k < load_size(c.insn) => c.mems[i].addr + k \in Bytes

IsAnswer(a) ==
  a.kind = "lines" =>
    /\ a.commits \in Seq(Elements(a.commits)) /\ a.traces \in Seq(Elements(a.traces))
    /\ \A c \in Elements(a.commits) : IsCommit(c)
    /\ \A t \in Elements(a.traces) : t.insn \in Insn

-----------------------------------------------------------------------------
(* A size that cannot be inferred, two commits or a trap without its       *)
(* instruction make parse_spike_step raise.                                *)
Parses(lines) ==
  /\ Len(lines.commits) + Len(lines.traps) = 1
  /\ lines.traps # <<>> =>
       LET trap == lines.traps[1] IN
       /\ trap.name \in DOMAIN Causes
       /\ IF lines.traces = <<>>
          THEN trap.name = "instruction_access_fault"
          ELSE Len(lines.traces) = 1 /\ lines.traces[1].pc = trap.epc
  /\ lines.traps = <<>> =>
       LET commit == lines.commits[1] IN
       \A m \in Elements(commit.mems) :
         IF m.value = NoValue THEN load_size(commit.insn) # 0
                              ELSE store_size(commit.insn) # 0

(* How often a commit reads a byte, and the last value it writes there.    *)
reads_of(commit) ==
  LET Readers(b) == {i \in DOMAIN commit.mems :
                       /\ commit.mems[i].value = NoValue
                       /\ b - commit.mems[i].addr \in 0 .. load_size(commit.insn) - 1}
      bytes == UNION {m.addr .. m.addr + load_size(commit.insn) - 1 :
                        m \in {n \in Elements(commit.mems) : n.value = NoValue}}
  IN  [b \in bytes |-> Cardinality(Readers(b))]

writes_of(commit) ==
  LET Writers(b) == {i \in DOMAIN commit.mems :
                       /\ commit.mems[i].value # NoValue
                       /\ b - commit.mems[i].addr \in 0 .. store_size(commit.insn) - 1}
      bytes == UNION {m.addr .. m.addr + store_size(commit.insn) - 1 :
                        m \in {n \in Elements(commit.mems) : n.value # NoValue}}
      Last(b) == commit.mems[CHOOSE i \in Writers(b) : \A j \in Writers(b) : j <= i]
  IN  [b \in bytes |-> Byte(Last(b).value, b - Last(b).addr)]

parse_spike_step(lines) ==
  IF lines.traps # <<>>
  THEN LET trap == lines.traps[1] IN
       [trap |-> TRUE, pc |-> trap.epc,
        insn |-> IF lines.traces = <<>> THEN NoInsn ELSE lines.traces[1].insn,
        cause |-> Causes[trap.name],
        tval |-> IF lines.tvals = <<>> THEN 0 ELSE lines.tvals[1]]
  ELSE LET commit == lines.commits[1] IN
       [trap |-> FALSE, pc |-> commit.pc, insn |-> commit.insn, priv |-> commit.priv,
        regs |-> commit.regs, csrs |-> commit.csrs,
        reads |-> reads_of(commit), writes |-> writes_of(commit)]

-----------------------------------------------------------------------------
(* What a DUT event says of memory, registers and CSRs: lane masks on the  *)
(* aligned word, and no register write when rd is 0.                       *)
dut_effects(event) ==
  LET aligned == Aligned(event.mem_addr)
      Lanes(mask) == {aligned + lane : lane \in mask}
  IN  [reads |-> [b \in Lanes(event.mem_rmask) |-> 1],
       writes |-> [b \in Lanes(event.mem_wmask) |-> Byte(event.mem_wdata, b - aligned)],
       regs |-> [r \in {event.rd} \ {0} |-> event.rd_data],
       csrs |-> event.csr_writes]

differencesIfWritten(event, reference) ==   \* mutant: a missing register write passes
  LET effects == dut_effects(event) IN
  {f \in {"pc", "trap"} : event[f] # reference[f]}
  \cup {f \in {"insn"} : reference.insn # NoInsn /\ event.insn # reference.insn}
  \cup IF reference.trap
       THEN {f \in {"cause", "tval"} : event[f] # reference[f]}
       ELSE {f \in {"priv"} : event.priv # reference.priv}
            \cup {f \in {"csrs", "reads", "writes"} : effects[f] # reference[f]}
            \cup {f \in {"regs"} : event.rd # 0 /\ effects[f] # reference[f]}

(* The fields in which an event and its reference differ.                  *)
differences(event, reference) ==
  LET effects == dut_effects(event) IN
  {f \in {"pc", "trap"} : event[f] # reference[f]}
  \cup {f \in {"insn"} : reference.insn # NoInsn /\ event.insn # reference.insn}
  \cup IF reference.trap
       THEN {f \in {"cause", "tval"} : event[f] # reference[f]}
       ELSE {f \in {"priv"} : event.priv # reference.priv}
            \cup {f \in {"regs", "csrs", "reads", "writes"} : effects[f] # reference[f]}

(* The fault --inject puts into an event before it is compared.            *)
Injected(event, what) ==
  CASE what = "rd" -> [event EXCEPT !.rd_data = FlipLowBit(@)]
    [] what = "store" -> [event EXCEPT !.mem_wdata = FlipLowBit(@)]
    [] what = "cause" -> [event EXCEPT !.cause = FlipLowBit(@)]
    [] OTHER -> event

-----------------------------------------------------------------------------
(* The reference definition, byte by byte and register by register: what   *)
(* an event writes to a byte, if anything, and which events read it.       *)
InWord(event, b, mask) ==
  Aligned(b) = Aligned(event.mem_addr) /\ (b % WordBytes) \in mask

DutByte(event, b) ==
  IF InWord(event, b, event.mem_wmask)
  THEN {Byte(event.mem_wdata, b % WordBytes)} ELSE {}

SizeOf(insn) == CASE insn.opcode = "op" -> 0
                  [] insn.funct3 % 4 = 0 -> 1
                  [] insn.funct3 % 4 = 1 -> 2
                  [] OTHER -> 4

Covers(commit, i, b) == /\ commit.mems[i].addr <= b
                        /\ b < commit.mems[i].addr + SizeOf(commit.insn)
SpikeReads(commit, b) ==
  {i \in DOMAIN commit.mems : commit.mems[i].value = NoValue /\ Covers(commit, i, b)}
SpikeByte(commit, b) ==
  LET hits == {i \in DOMAIN commit.mems :
                 commit.mems[i].value # NoValue /\ Covers(commit, i, b)}
      last == commit.mems[CHOOSE i \in hits : \A j \in hits : j <= i]
  IN  IF hits = {} THEN {} ELSE {Byte(last.value, b - last.addr)}

SameEffects(event, commit) ==
  /\ \A b \in Bytes :
       /\ DutByte(event, b) = SpikeByte(commit, b)
       /\ IF InWord(event, b, event.mem_rmask)
          THEN \E i \in DOMAIN commit.mems : SpikeReads(commit, b) = {i}
          ELSE SpikeReads(commit, b) = {}
  /\ event.csr_writes = commit.csrs
  /\ \A r \in Registers :
       IF event.rd = r /\ r # 0
       THEN r \in DOMAIN commit.regs /\ commit.regs[r] = event.rd_data
       ELSE r \notin DOMAIN commit.regs

(* The same architectural step: for a trap, where and why; otherwise the   *)
(* same instruction with the same effects.                                 *)
Agrees(event, lines) ==
  IF lines.traps # <<>>
  THEN LET trap == lines.traps[1] IN
       /\ event.trap /\ event.pc = trap.epc /\ event.cause = Causes[trap.name]
       /\ \A t \in Elements(lines.traces) : event.insn = t.insn /\ event.pc = t.pc
       /\ IF lines.tvals = <<>> THEN event.tval = 0 ELSE event.tval = lines.tvals[1]
  ELSE LET commit == lines.commits[1] IN
       /\ ~event.trap /\ event.pc = commit.pc /\ event.insn = commit.insn
       /\ event.priv = commit.priv
       /\ SameEffects(event, commit)
=============================================================================
