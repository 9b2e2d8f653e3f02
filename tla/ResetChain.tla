------------------------------ MODULE ResetChain ------------------------------
(***************************************************************************)
(* Loss of the memory and recovery: the release chain of                   *)
(* rtl/bus/axi_subsystem.sv, the five FIFOs of rtl/bus/axi_cdc.sv with     *)
(* their own release registers, the fabric, the requesters and the reset   *)
(* of the core in rtl/top/checkpoint9_top.sv.  A FIFO is the queue of      *)
(* BoundedFifo, which AsyncFifo implements; it may be slow to offer or to  *)
(* take.  A burst is one beat.  Reads may also go to a peripheral, which   *)
(* is not behind the crossing.  A request is known by its master and by    *)
(* the life of the link in which it began.                                 *)
(***************************************************************************)
EXTENDS Naturals, Sequences

CONSTANTS
  Cpu, Loader,   \* masters reset through cpu_reset_n, and by masters_ready
  Dests,         \* where reads go: "ddr", "mmio"
  Writing,       \* whether there are writes
  Depth,         \* of a FIFO
  Lives          \* the life of the link is counted modulo Lives

Masters == Cpu \cup Loader

ASSUME ChainAssumption ==
  /\ Cpu \cap Loader = {} /\ Masters # {}
  /\ Dests \subseteq {"ddr", "mmio"} /\ Writing \in BOOLEAN
  /\ Depth \in Nat \ {0} /\ Lives \in Nat \ {0}

VARIABLES
  rst_n, mig_calib_complete, mig_release, link_rst_n,
  core_release, cpu_reset_n,
  core_side, mig_side,       \* release registers of the FIFOs, on each clock
  rising,                    \* link_rst_n rose since the last edge of core_clk
  ar, r, aw, w, b,           \* the FIFOs
  mig_ar, mig_aw, mig_w,     \* what the memory controller has taken
  mmio,                      \* the read the peripheral works on
  reader, writer,            \* each master's read and write channel
  rstate, r_owner, r_slave, wstate, w_owner,
  life

chain == <<rst_n, mig_calib_complete, mig_release, link_rst_n, life>>
sides == <<core_release, core_side, mig_side, rising>>
migVars == <<mig_ar, mig_aw, mig_w>>
readVars == <<reader, rstate, r_owner, r_slave, mmio>>
writeVars == <<writer, wstate, w_owner>>
vars == <<chain, sides, cpu_reset_n, ar, r, aw, w, b, migVars, readVars, writeVars>>

Fifos == {"ar", "r", "aw", "w", "b"}
Zero == [f \in Fifos |-> 0]
None == <<>>
Idle == [st |-> "idle", life |-> 0]
Token(channel, m) == <<m, channel[m].life>>

Init ==
  /\ rst_n = FALSE /\ mig_calib_complete = FALSE /\ mig_release = 0 /\ link_rst_n = FALSE
  /\ core_release = 0 /\ cpu_reset_n = FALSE
  /\ core_side = Zero /\ mig_side = Zero /\ rising = FALSE
  /\ ar = <<>> /\ r = <<>> /\ aw = <<>> /\ w = <<>> /\ b = <<>>
  /\ mig_ar = None /\ mig_aw = None /\ mig_w = None /\ mmio = None
  /\ reader = [m \in Masters |-> Idle] /\ writer = [m \in Masters |-> Idle]
  /\ rstate = "R_IDLE" /\ r_owner \in Masters /\ r_slave = "ddr"
  /\ wstate = "W_IDLE" /\ w_owner \in Masters
  /\ life = 0

masters_readyEarly == core_release # 0
masters_ready == core_release = 2
Runs(m) == IF m \in Cpu THEN cpu_reset_n ELSE masters_ready

-----------------------------------------------------------------------------
(* What link_rst_n clears without a clock: the chain after it, the FIFOs,  *)
(* the fabric and the peripheral.  The masters wait for their clock.       *)
LinkDown ==
  /\ link_rst_n' = FALSE
  /\ core_release' = 0 /\ core_side' = Zero /\ mig_side' = Zero /\ rising' = FALSE
  /\ ar' = <<>> /\ r' = <<>> /\ aw' = <<>> /\ w' = <<>> /\ b' = <<>>
  /\ rstate' = "R_IDLE" /\ wstate' = "W_IDLE" /\ mmio' = None
  /\ life' = IF link_rst_n THEN (life + 1) % Lives ELSE life
  /\ UNCHANGED <<reader, r_owner, r_slave, writer, w_owner>>
MigForgets == mig_ar' = None /\ mig_aw' = None /\ mig_w' = None

(* The button, or the loss of the clocks, resets both sides.               *)
Press ==
  /\ rst_n /\ rst_n' = FALSE /\ mig_release' = 0
  /\ mig_calib_complete' = FALSE /\ MigForgets
  /\ LinkDown
  /\ UNCHANGED cpu_reset_n

Unpress == /\ ~rst_n /\ rst_n' = TRUE
           /\ UNCHANGED <<mig_calib_complete, mig_release, link_rst_n, life, sides,
                          cpu_reset_n, ar, r, aw, w, b, migVars, readVars, writeVars>>

(* The controller forgets its work; calibration takes many clocks.         *)
LoseCalibration ==
  /\ mig_calib_complete /\ mig_calib_complete' = FALSE /\ MigForgets
  /\ UNCHANGED <<rst_n, mig_release, link_rst_n, life, sides, cpu_reset_n,
                 ar, r, aw, w, b, readVars, writeVars>>

Calibrate ==
  /\ rst_n /\ ~mig_calib_complete /\ ~link_rst_n
  /\ mig_calib_complete' = TRUE
  /\ UNCHANGED <<rst_n, mig_release, link_rst_n, life, sides, cpu_reset_n,
                 ar, r, aw, w, b, migVars, readVars, writeVars>>

-----------------------------------------------------------------------------
ShiftOver(n) == n + 1
Shift(n) == IF n = 2 THEN 2 ELSE n + 1
TakesUnreleased(side, f, q) == Len(q) < Depth
Takes(side, f, q) == side[f] = 2 /\ Len(q) < Depth
Offers(side, f, q) == side[f] = 2 /\ q # <<>>

(* The controller takes a command or data, or answers.                     *)
TakeAr == /\ Offers(mig_side, "ar", ar) /\ mig_ar = None
          /\ mig_ar' = Head(ar) /\ ar' = Tail(ar)
          /\ UNCHANGED <<r, aw, w, b, mig_aw, mig_w>>
TakeAw == /\ Offers(mig_side, "aw", aw) /\ mig_aw = None
          /\ mig_aw' = Head(aw) /\ aw' = Tail(aw)
          /\ UNCHANGED <<ar, r, w, b, mig_ar, mig_w>>
TakeW == /\ Offers(mig_side, "w", w) /\ mig_w = None
         /\ mig_w' = Head(w) /\ w' = Tail(w)
         /\ UNCHANGED <<ar, r, aw, b, mig_ar, mig_aw>>
GiveR == /\ Takes(mig_side, "r", r) /\ mig_ar # None
         /\ r' = Append(r, mig_ar) /\ mig_ar' = None
         /\ UNCHANGED <<ar, aw, w, b, mig_aw, mig_w>>
GiveB == /\ Takes(mig_side, "b", b) /\ mig_aw # None /\ mig_w # None
         /\ b' = Append(b, mig_aw) /\ mig_aw' = None /\ mig_w' = None
         /\ UNCHANGED <<ar, r, aw, w, mig_ar>>
Memory == TakeAr \/ TakeAw \/ TakeW \/ GiveR \/ GiveB

MigTick ==
  /\ mig_release' = IF rst_n THEN Shift(mig_release) ELSE 0
  /\ IF link_rst_n /\ ~mig_calib_complete
     THEN LinkDown /\ UNCHANGED migVars
     ELSE /\ link_rst_n' = (mig_release = 2 /\ mig_calib_complete)
          /\ rising' = (rising \/ (~link_rst_n /\ link_rst_n'))
          /\ mig_side' = IF link_rst_n THEN [f \in Fifos |-> Shift(mig_side[f])] ELSE Zero
          /\ \/ mig_calib_complete /\ Memory
             \/ UNCHANGED <<ar, r, aw, w, b, migVars>>
          /\ UNCHANGED <<core_release, core_side, life, readVars, writeVars>>
  /\ UNCHANGED <<rst_n, mig_calib_complete, cpu_reset_n>>

-----------------------------------------------------------------------------
(* An edge of core_clk resets the masters that do not run.                 *)
ClockedNever(channel) == channel
Clocked(channel) == [m \in Masters |-> IF Runs(m) THEN channel[m] ELSE Idle]
Asks(channel, m) == [channel EXCEPT ![m] = [st |-> "ask", life |-> life]]
Goes(channel, m, st) == [channel EXCEPT ![m].st = st]

ReadQuiet == /\ reader' = Clocked(reader)
             /\ UNCHANGED <<rstate, r_owner, r_slave, mmio, ar, r>>

AskRead(m) == /\ Dests # {} /\ Runs(m) /\ reader[m].st = "idle"
              /\ reader' = Clocked(Asks(reader, m))
              /\ UNCHANGED <<rstate, r_owner, r_slave, mmio, ar, r>>

(* An idle fabric passes an address on even while it is in reset, and then *)
(* neither it nor the peripheral remembers.                                *)
GrantRead(m, slave) ==
  /\ rstate = "R_IDLE" /\ reader[m].st = "ask"
  /\ IF slave = "ddr"
     THEN Takes(core_side, "ar", ar) /\ ar' = Append(ar, Token(reader, m)) /\ UNCHANGED mmio
     ELSE /\ mmio = None
          /\ mmio' = IF masters_ready THEN Token(reader, m) ELSE None
          /\ UNCHANGED ar
  /\ reader' = Clocked(Goes(reader, m, "wait"))
  /\ IF masters_ready THEN rstate' = "R_DATA" /\ r_owner' = m /\ r_slave' = slave
                      ELSE UNCHANGED <<rstate, r_owner, r_slave>>
  /\ UNCHANGED r

ReadBeat ==
  /\ rstate = "R_DATA" /\ reader[r_owner].st = "wait"
  /\ IF r_slave = "ddr"
     THEN Offers(core_side, "r", r) /\ r' = Tail(r) /\ UNCHANGED mmio
     ELSE mmio # None /\ mmio' = None /\ UNCHANGED r
  /\ reader' = Clocked(Goes(reader, r_owner, "idle"))
  /\ rstate' = "R_IDLE"
  /\ UNCHANGED <<r_owner, r_slave, ar>>

WriteQuiet == /\ writer' = Clocked(writer)
              /\ UNCHANGED <<wstate, w_owner, aw, w, b>>

AskWrite(m) == /\ Writing /\ Runs(m) /\ writer[m].st = "idle"
               /\ writer' = Clocked(Asks(writer, m))
               /\ UNCHANGED <<wstate, w_owner, aw, w, b>>

GrantWrite(m) ==
  /\ wstate = "W_IDLE" /\ writer[m].st = "ask"
  /\ Takes(core_side, "aw", aw) /\ aw' = Append(aw, Token(writer, m))
  /\ writer' = Clocked(Goes(writer, m, "data"))
  /\ IF masters_ready THEN wstate' = "W_DATA" /\ w_owner' = m
                      ELSE UNCHANGED <<wstate, w_owner>>
  /\ UNCHANGED <<w, b>>

WriteBeat ==
  /\ wstate = "W_DATA" /\ writer[w_owner].st = "data"
  /\ Takes(core_side, "w", w) /\ w' = Append(w, Token(writer, w_owner))
  /\ writer' = Clocked(Goes(writer, w_owner, "wait"))
  /\ wstate' = "W_RESP"
  /\ UNCHANGED <<w_owner, aw, b>>

WriteResponse ==
  /\ wstate = "W_RESP" /\ writer[w_owner].st = "wait"
  /\ Offers(core_side, "b", b) /\ b' = Tail(b)
  /\ writer' = Clocked(Goes(writer, w_owner, "idle"))
  /\ wstate' = "W_IDLE"
  /\ UNCHANGED <<w_owner, aw, w>>

ReadWork == (\E m \in Masters, slave \in Dests : GrantRead(m, slave)) \/ ReadBeat
WriteWork == (\E m \in Masters : GrantWrite(m)) \/ WriteBeat \/ WriteResponse
ReadSide == ReadQuiet \/ (\E m \in Masters : AskRead(m)) \/ ReadWork
WriteSide == WriteQuiet \/ (\E m \in Masters : AskWrite(m)) \/ WriteWork

(* The registers released by link_rst_n shift; at the first edge after it  *)
(* has risen each may still miss it.                                       *)
Late == IF rising THEN SUBSET (Fifos \cup {"release"}) ELSE {{}}
Released(late) ==
  /\ core_release' = IF "release" \in late THEN core_release ELSE Shift(core_release)
  /\ core_side' = [f \in Fifos |-> IF f \in late THEN core_side[f] ELSE Shift(core_side[f])]
CoreTick ==
  /\ cpu_reset_n' = masters_ready
  /\ rising' = FALSE
  /\ ReadSide /\ WriteSide
  /\ IF link_rst_n THEN \E late \in Late : Released(late)
                   ELSE UNCHANGED <<core_release, core_side>>
  /\ UNCHANGED <<chain, mig_side, migVars>>

Next == Press \/ Unpress \/ LoseCalibration \/ Calibrate \/ MigTick \/ CoreTick

Spec == Init /\ [][Next]_vars

(* Both clocks run, the controller and the fabric's slaves work, and       *)
(* masters take their answers.                                             *)
Fairness ==
  /\ WF_vars(MigTick) /\ WF_vars(TakeAr /\ MigTick) /\ WF_vars(GiveR /\ MigTick)
  /\ WF_vars(TakeAw /\ MigTick) /\ WF_vars(TakeW /\ MigTick) /\ WF_vars(GiveB /\ MigTick)
  /\ WF_vars(CoreTick) /\ WF_vars(ReadWork /\ CoreTick) /\ WF_vars(WriteWork /\ CoreTick)
FairSpec == Spec /\ Fairness

-----------------------------------------------------------------------------
Tokens == Masters \X (0 .. Lives - 1)
Channels(sts) == [Masters -> [st : sts, life : 0 .. Lives - 1]]
TypeOK ==
  /\ rst_n \in BOOLEAN /\ mig_calib_complete \in BOOLEAN /\ link_rst_n \in BOOLEAN
  /\ mig_release \in 0 .. 2 /\ core_release \in 0 .. 2
  /\ cpu_reset_n \in BOOLEAN /\ rising \in BOOLEAN
  /\ core_side \in [Fifos -> 0 .. 2] /\ mig_side \in [Fifos -> 0 .. 2]
  /\ \A q \in {ar, r, aw, w, b} : q \in Seq(Tokens) /\ Len(q) <= Depth
  /\ {mig_ar, mig_aw, mig_w, mmio} \subseteq Tokens \cup {None}
  /\ reader \in Channels({"idle", "ask", "wait"})
  /\ writer \in Channels({"idle", "ask", "data", "wait"})
  /\ rstate \in {"R_IDLE", "R_DATA"} /\ r_owner \in Masters /\ r_slave \in {"ddr", "mmio"}
  /\ wstate \in {"W_IDLE", "W_DATA", "W_RESP"} /\ w_owner \in Masters
  /\ life \in 0 .. Lives - 1

Held(t) == IF t = None THEN <<>> ELSE <<t>>

(* A read in flight, on either side of the crossing, is the one that its   *)
(* master waits for and that the fabric has granted, once: nothing from    *)
(* before a loss of the link is left to answer a request made after it     *)
(* (axi_subsystem.sv:34-46, checkpoint9_top.sv:45-51).                     *)
OneRead ==
  LET flying == ar \o Held(mig_ar) \o r \o Held(mmio)
  IN flying # <<>> =>
       /\ rstate = "R_DATA" /\ reader[r_owner].st = "wait"
       /\ flying = <<Token(reader, r_owner)>>

(* The same of writes; and data never meets the command of another write.  *)
OneWrite ==
  LET cmd == aw \o Held(mig_aw) \o b
      data == w \o Held(mig_w)
      mine == <<Token(writer, w_owner)>>
  IN /\ cmd # <<>> => wstate # "W_IDLE" /\ cmd = mine
     /\ data # <<>> => wstate = "W_RESP" /\ data = mine

(* No master waits for an answer that the fabric has forgotten, which it   *)
(* would once it granted what it could not remember: a request accepted    *)
(* while the fabric is in reset is dropped by its master too.              *)
NoOrphans ==
  masters_ready =>
    \A m \in Masters :
      /\ reader[m].st = "wait" <=> rstate = "R_DATA" /\ m = r_owner
      /\ writer[m].st \in {"data", "wait"} <=> wstate # "W_IDLE" /\ m = w_owner

(* When the memory is there to stay the masters are released for good, and *)
(* what the fabric grants is answered (axi_subsystem.sv:34-46).  Which of  *)
(* two masters is granted is the matter of AxiFabric.                      *)
Recovers ==
  <>[](rst_n /\ mig_calib_complete) =>
    /\ <>[](\A m \in Masters : Runs(m))
    /\ \A m \in Masters :
         /\ [](reader[m].st = "wait" => <>(reader[m].st = "idle"))
         /\ [](writer[m].st \in {"data", "wait"} => <>(writer[m].st = "idle"))
    /\ [](rstate = "R_DATA" => <>(rstate = "R_IDLE"))
    /\ [](wstate # "W_IDLE" => <>(wstate = "W_IDLE"))

(* The registers have their types, and nothing of an old life answers a    *)
(* new request, read or write.                                             *)
AnsweredOnce == TypeOK /\ OneRead /\ OneWrite
=============================================================================
