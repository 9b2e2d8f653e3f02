-------------------------------- MODULE Atomic --------------------------------
(***************************************************************************)
(* Atomics of the core against the writes of other masters: the lock,      *)
(* drain and snoop of rtl/top/checkpoint9_top.sv with the reservation of   *)
(* rtl/core/rv32_slice.sv and the data port of rtl/top/rv32_cached_core.sv *)
(* on memory that both sides access uncached.  The core issues one atomic  *)
(* or store at a time: atomics wait in ID until EX, MEM and WB are empty   *)
(* and hold younger instructions back.  A word is a bus beat and a lane of *)
(* it; memory is the words that the core uses.  A beat of a burst that the *)
(* fabric accepts lands there at any time before the response; those of a  *)
(* burst that it refuses are taken and dropped.                            *)
(***************************************************************************)
EXTENDS Integers

CONSTANTS
  Ext,        \* the other writers: a subset of {Loader, Dma}
  NBeats, Lanes,
  CpuWords,   \* the words the core accesses
  Values,
  Amo         \* what the AMO instruction makes of a value

Cpu == 1
Loader == 2
Dma == 3
Masters == {Cpu} \cup Ext
Words == (0 .. NBeats - 1) \X Lanes

ASSUME AtomicAssumption ==
  /\ Ext \subseteq {Loader, Dma}
  /\ NBeats \in Nat \ {0}
  /\ CpuWords \subseteq Words /\ CpuWords # {}
  /\ Values # {} /\ Amo \in [Values -> Values]

VARIABLES
  stage, op, store,          \* the instruction in MEM or WB, and wb_stage.store
  dstate, d_rsp, d_data,     \* data port: state, response on offer, its data
  reservation_valid, reservation_addr,
  wstate, w_owner, w_error,  \* the fabric's write machine
  port,                      \* each master's burst: next beat and how many follow
  external_write_addr,
  inflight, mem,             \* words accepted but not yet in memory; memory
  link, written              \* history: word unwritten since LR read it; op landed

coreVars == <<stage, op, store>>
dataVars == <<dstate, d_rsp, d_data>>
resVars == <<reservation_valid, reservation_addr>>
busVars == <<wstate, w_owner, w_error, port, external_write_addr>>
memVars == <<inflight, mem, link, written>>
vars == <<coreVars, dataVars, resVars, busVars, memVars>>

Some(set) == CHOOSE x \in set : TRUE
NoLink == <<-1>>
Bubble == [kind |-> "none", word |-> Some(CpuWords), value |-> Some(Values)]
Idle == [st |-> "idle", beat |-> 0, left |-> 0]

Init ==
  /\ stage = "none" /\ store = FALSE
  /\ op = Bubble
  /\ dstate = "D_IDLE" /\ d_rsp = "none" /\ d_data = Some(Values)
  /\ reservation_valid = FALSE /\ reservation_addr = Some(CpuWords)
  /\ wstate = "W_IDLE" /\ w_owner = Cpu /\ w_error = FALSE
  /\ port = [m \in Masters |-> Idle]
  /\ external_write_addr = [m \in Ext |-> 0]
  /\ inflight = {} /\ mem \in [CpuWords -> Values]
  /\ link = NoLink /\ written = FALSE

atomic_lock == stage # "none" /\ op.kind \in {"LR", "SC", "AMO"}
activeOrAsked == wstate # "W_IDLE" \/ \E m \in Ext : port[m].st = "asking"
active == wstate # "W_IDLE"
allow_atomic_read == ~active

-----------------------------------------------------------------------------
(* Only a store conditional brings a value; what an AMO stores is Amo's.   *)
IssueAtomic ==
  /\ stage = "none"
  /\ stage' = "mem" /\ store' = FALSE /\ written' = FALSE
  /\ op' \in [kind : {"LR", "AMO"}, word : CpuWords, value : {Some(Values)}]
            \cup [kind : {"SC"}, word : CpuWords, value : Values]
  /\ UNCHANGED <<dataVars, resVars, busVars, inflight, mem, link>>

IssueStore ==
  /\ stage = "none"
  /\ stage' = "wb" /\ store' = TRUE /\ written' = FALSE
  /\ op' \in [kind : {"SW"}, word : CpuWords, value : Values]
  /\ UNCHANGED <<dataVars, resVars, busVars, inflight, mem, link>>

(* Another instruction traps, or an interrupt or a return is taken.        *)
Trap == /\ stage = "none"
        /\ reservation_valid' = FALSE
        /\ UNCHANGED <<coreVars, dataVars, reservation_addr, busVars, memVars>>

MayReadAtOnce == TRUE
MayRead == ~atomic_lock \/ allow_atomic_read
ReadRequest ==
  /\ stage = "mem" /\ op.kind \in {"LR", "AMO"}
  /\ dstate = "D_IDLE" /\ MayRead
  /\ dstate' = "D_READ"
  /\ UNCHANGED <<coreVars, d_rsp, d_data, resVars, busVars, memVars>>

ReadAnswer ==
  /\ dstate = "D_READ" /\ d_rsp = "none"
  /\ d_rsp' \in {"okay", "error"}
  /\ d_data' = mem[op.word]
  /\ link' = IF op.kind = "LR" THEN op.word ELSE link
  /\ UNCHANGED <<dstate, coreVars, resVars, busVars, inflight, mem, written>>

(* The core takes the answer; MEM moves on unless a write is active again, *)
(* and then reads once more.  Nothing reads the data after its answer.     *)
ReadTaken ==
  /\ dstate = "D_READ" /\ d_rsp # "none"
  /\ dstate' = "D_IDLE" /\ d_rsp' = "none" /\ d_data' = Some(Values)
  /\ \/ active /\ UNCHANGED coreVars
     \/ /\ ~active /\ d_rsp = "error"
        /\ stage' = "wb" /\ op' = [op EXCEPT !.kind = "trap"]
        /\ UNCHANGED store
     \/ /\ ~active /\ d_rsp = "okay"
        /\ stage' = "wb" /\ store' = (op.kind = "AMO")
        /\ op' = [op EXCEPT !.value = IF op.kind = "AMO" THEN Amo[d_data] ELSE @]
  /\ UNCHANGED <<resVars, busVars, memVars>>

StoreConditional ==
  /\ stage = "mem" /\ op.kind = "SC" /\ allow_atomic_read
  /\ stage' = "wb"
  /\ store' = (reservation_valid /\ reservation_addr = op.word)
  /\ UNCHANGED <<op, dataVars, resVars, busVars, memVars>>

WriteRequest ==
  /\ stage = "wb" /\ store /\ dstate = "D_IDLE"
  /\ dstate' = "D_WRITE"
  /\ port' = [port EXCEPT ![Cpu] = [st |-> "asking", beat |-> op.word[1], left |-> 0]]
  /\ UNCHANGED <<d_rsp, d_data, coreVars, resVars, wstate, w_owner, w_error,
                 external_write_addr, memVars>>

(* Retirement: a store retires with its response.                          *)
Commit ==
  /\ stage = "wb"
  /\ store => dstate = "D_WRITE" /\ d_rsp # "none"
  /\ LET trap == op.kind = "trap" \/ d_rsp = "error"
         same == store /\ op.word = reservation_addr
     IN IF op.kind = "LR" /\ ~trap
        THEN reservation_valid' = TRUE /\ reservation_addr' = op.word
        ELSE /\ reservation_valid' =
                  (reservation_valid /\ ~trap /\ op.kind # "SC" /\ ~same)
             /\ UNCHANGED reservation_addr
  /\ stage' = "none" /\ store' = FALSE /\ op' = Bubble
  /\ dstate' = "D_IDLE" /\ d_rsp' = "none"
  /\ UNCHANGED <<d_data, busVars, memVars>>

-----------------------------------------------------------------------------
AskWrite(m) ==
  /\ port[m].st = "idle"
  /\ \E first, last \in 0 .. NBeats - 1 :
       /\ first <= last
       /\ port' = [port EXCEPT ![m] = [st |-> "asking", beat |-> first,
                                       left |-> last - first]]
  /\ UNCHANGED <<coreVars, dataVars, resVars, wstate, w_owner, w_error,
                 external_write_addr, memVars>>

NotMasked(m) == TRUE
Masked(m) == m \in Ext => ~atomic_lock
LatchedNever(m) == external_write_addr
Latched(m) == [e \in Ext |-> IF e = m THEN port[m].beat ELSE external_write_addr[e]]
(* The fabric refuses a burst whose address, length or size does not       *)
(* decode, or the DMA's outside its window; the snoop latches it like any  *)
(* other.                                                                  *)
GrantWrite(m) ==
  /\ wstate = "W_IDLE" /\ port[m].st = "asking" /\ Masked(m)
  /\ w_error' \in BOOLEAN
  /\ wstate' = (IF w_error' THEN "W_ERROR" ELSE "W_DATA") /\ w_owner' = m
  /\ port' = [port EXCEPT ![m].st = "accepted"]
  /\ external_write_addr' = Latched(m)
  /\ UNCHANGED <<coreVars, dataVars, resVars, memVars>>

(* What a beat stores: the core one word, the others any lanes; of these,  *)
(* the words that the core accesses.                                       *)
Strobed(m, lanes, v) == {<<w, v>> : w \in ({port[m].beat} \X lanes) \cap CpuWords}
external_storeLoader(lanes) ==
  /\ w_owner \in Ext
  /\ external_write_addr[Loader] = reservation_addr[1]
  /\ reservation_addr[2] \in lanes
external_store(lanes) ==
  /\ w_owner \in Ext
  /\ external_write_addr[w_owner] = reservation_addr[1]
  /\ reservation_addr[2] \in lanes
NextAddrHeld(m) == external_write_addr
NextAddr(m) == [e \in Ext |-> IF e = m THEN external_write_addr[e] + 1
                              ELSE external_write_addr[e]]
WriteBeat ==
  /\ wstate \in {"W_DATA", "W_ERROR"}
  /\ \E lanes \in SUBSET Lanes, v \in Values :
       /\ w_owner = Cpu => lanes = {op.word[2]} /\ v = op.value
       /\ inflight' = IF wstate = "W_DATA"
                      THEN inflight \cup Strobed(w_owner, lanes, v) ELSE inflight
       /\ reservation_valid' = (reservation_valid /\ ~external_store(lanes))
  /\ IF port[w_owner].left = 0
     THEN wstate' = "W_RESP" /\ UNCHANGED port
     ELSE /\ port' = [port EXCEPT ![w_owner] = [st |-> "accepted", beat |-> @.beat + 1,
                                              left |-> @.left - 1]]
          /\ UNCHANGED wstate
  /\ external_write_addr' = NextAddr(w_owner)
  /\ UNCHANGED <<coreVars, dataVars, reservation_addr, w_owner, w_error, mem, link,
                 written>>

Land ==
  /\ \E x \in inflight :
       /\ inflight' = inflight \ {x}
       /\ mem' = [mem EXCEPT ![x[1]] = x[2]]
       /\ link' = IF link = x[1] THEN NoLink ELSE link
  /\ written' = (written \/ w_owner = Cpu)
  /\ UNCHANGED <<coreVars, dataVars, resVars, busVars>>

(* The response, after the last word has landed, or an error; nothing      *)
(* reads w_error after it.                                                 *)
WriteResponse ==
  /\ wstate = "W_RESP"
  /\ \E ok \in BOOLEAN :
       /\ ok => ~w_error /\ inflight = {}
       /\ d_rsp' = IF w_owner # Cpu THEN d_rsp ELSE IF ok THEN "okay" ELSE "error"
  /\ inflight' = {}
  /\ wstate' = "W_IDLE" /\ w_error' = FALSE
  /\ port' = [port EXCEPT ![w_owner] = Idle]
  /\ UNCHANGED <<coreVars, dstate, d_data, resVars, w_owner, external_write_addr,
                 mem, link, written>>

(* Loss of the memory resets core, fabric and link, and memory's contents. *)
Reset ==
  /\ stage' = "none" /\ store' = FALSE /\ op' = Bubble
  /\ dstate' = "D_IDLE" /\ d_rsp' = "none" /\ d_data' = Some(Values)
  /\ reservation_valid' = FALSE /\ reservation_addr' = Some(CpuWords)
  /\ wstate' = "W_IDLE" /\ w_owner' = Cpu /\ w_error' = FALSE
  /\ port' = [m \in Masters |-> Idle]
  /\ external_write_addr' = [m \in Ext |-> 0]
  /\ inflight' = {} /\ mem' \in [CpuWords -> Values]
  /\ link' = NoLink /\ written' = FALSE

Core == ReadRequest \/ ReadTaken \/ StoreConditional \/ WriteRequest \/ Commit
Bus == \/ ReadAnswer \/ WriteBeat \/ Land \/ WriteResponse
       \/ GrantWrite(Cpu)
Next == \/ IssueAtomic \/ IssueStore \/ Trap \/ Core \/ Bus
        \/ \E m \in Ext : AskWrite(m) \/ GrantWrite(m)
        \/ Reset

Spec == Init /\ [][Next]_vars

(* The core is clocked and not halted, memory answers, masters drive the   *)
(* beats they announced, and the core's write is granted in its turn.      *)
Fairness == /\ WF_vars(Core) /\ WF_vars(GrantWrite(Cpu))
            /\ WF_vars(ReadAnswer) /\ WF_vars(WriteBeat)
            /\ WF_vars(Land) /\ WF_vars(WriteResponse)
FairSpec == Spec /\ Fairness

-----------------------------------------------------------------------------
Kinds == {"none", "LR", "SC", "AMO", "SW", "trap"}
TypeOK ==
  /\ stage \in {"none", "mem", "wb"} /\ store \in BOOLEAN
  /\ op \in [kind : Kinds, word : CpuWords, value : Values]
  /\ dstate \in {"D_IDLE", "D_READ", "D_WRITE"}
  /\ d_rsp \in {"none", "okay", "error"} /\ d_data \in Values
  /\ reservation_valid \in BOOLEAN /\ reservation_addr \in CpuWords
  /\ wstate \in {"W_IDLE", "W_DATA", "W_ERROR", "W_RESP"} /\ w_owner \in Masters
  /\ w_error \in BOOLEAN
  /\ port \in [Masters -> [st : {"idle", "asking", "accepted"},
                           beat : 0 .. NBeats - 1, left : 0 .. NBeats - 1]]
  /\ external_write_addr \in [Ext -> 0 .. NBeats]
  /\ inflight \in SUBSET (CpuWords \X Values) /\ mem \in [CpuWords -> Values]
  /\ link \in CpuWords \cup {NoLink} /\ written \in BOOLEAN

(* An AMO stores the function of what memory still holds: between its read *)
(* and the landing of its write no other master's write lands, neither one *)
(* admitted before the lock nor one asked for meanwhile                    *)
(* (checkpoint9_top.sv:56-66, rv32_cached_core.sv:92-93).                  *)
AmoUndisturbed ==
  op.kind = "AMO" =>
    /\ stage = "mem" /\ d_rsp = "okay" => d_data = mem[op.word]
    /\ stage = "wb" /\ store /\ ~written => op.value = Amo[mem[op.word]]

(* A store conditional that is going to store does so on a word nobody has *)
(* written since the load reserved read it: every beat that lands in       *)
(* between was snooped, whichever master and burst it belongs to           *)
(* (checkpoint9_top.sv:67-83, rv32_slice.sv:701, 815-818, 929-936).        *)
ScUndisturbed ==
  op.kind = "SC" /\ stage = "wb" /\ store /\ ~written => link = op.word

(* While the read of an atomic is outstanding no write is active, so that  *)
(* its answer is taken at once and the read is never repeated, which a     *)
(* device would notice (rv32_slice.sv:269, 277).                           *)
ReadOnce == dstate = "D_READ" => ~active

(* A beat of another master that stores into the reserved word takes the   *)
(* reservation away, whatever burst and position it has, and a beat that   *)
(* stores elsewhere preserves it.  Only a burst that the fabric refuses    *)
(* may take it without storing: its beats are snooped as well, though they *)
(* are dropped (checkpoint9_top.sv:67-83, axi_fabric.sv:127, 201-204).     *)
Beat == /\ wstate \in {"W_DATA", "W_ERROR"} /\ w_owner \in Ext
        /\ \/ wstate' = "W_RESP"
           \/ wstate' = wstate /\ port'[w_owner] # port[w_owner]
Stored(w) == \E v \in Values : <<w, v>> \in inflight' \ inflight
SnoopExact ==
  [][Beat => /\ Stored(reservation_addr) => ~reservation_valid'
             /\ ~Stored(reservation_addr) /\ ~w_error =>
                  reservation_valid' = reservation_valid]_vars

(* An atomic ends: the drain that it waits for never waits for the lock    *)
(* (checkpoint9_top.sv:56-58).                                             *)
AtomicEnds == stage = "mem" ~> stage = "none"
=============================================================================
