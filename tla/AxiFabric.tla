------------------------------ MODULE AxiFabric ------------------------------
(***************************************************************************)
(* The interconnect of rtl/bus/axi_fabric.sv between N masters and its two *)
(* slaves (0 DDR, 1 peripherals): one read and one write in flight, each   *)
(* picked round robin, with unmapped requests answered by the fabric.      *)
(* The read and the write machine share no register, so their clock edges  *)
(* are separate actions.  A request is what the fabric distinguishes of    *)
(* it: where decode() sends it, whether it starts in the DMA window, its   *)
(* length and its ID.  Masters and slaves obey the handshake rules:        *)
(* a request stays until accepted, a master moves len+1 beats per burst    *)
(* and has one read and one write outstanding, as every master of rtl/ has.*)
(***************************************************************************)
EXTENDS Naturals

CONSTANTS
  N,                  \* number of masters
  Readers, Writers,   \* the masters that issue reads, and writes
  Requests,           \* what they may ask
  DMA_UNCACHED_ONLY

Masters == 0 .. N - 1
Slaves == 0 .. 1
DmaMaster == 3

ASSUME FabricAssumption ==
  /\ N \in Nat \ {0}
  /\ Readers \subseteq Masters /\ Writers \subseteq Masters
  /\ \A q \in Requests : /\ q.dst \in 0 .. 2 /\ q.window \in BOOLEAN
                         /\ q.len \in Nat
  /\ DMA_UNCACHED_ONLY \in BOOLEAN

VARIABLES
  rstate, r_owner, r_next, r_slave, r_id,
  wstate, w_owner, w_next, w_slave, w_remaining, w_error, w_id,
  rd, wr,             \* what each master has asked and been answered
  s_rd, s_wr,         \* the burst each slave is serving
  r_passed, w_passed  \* history: grants to others while a master waits

readVars == <<rstate, r_owner, r_next, r_slave, r_id, rd, s_rd, r_passed>>
writeVars == <<wstate, w_owner, w_next, w_slave, w_remaining, w_error, w_id,
               wr, s_wr, w_passed>>
fabricVars == <<readVars, writeVars>>

NoRequest == [dst |-> 2, window |-> FALSE, len |-> 0, id |-> 0]
Quiet == [st |-> "idle", req |-> NoRequest, beats |-> 0, resp |-> "none", id |-> 0]

FabricInit ==
  /\ rstate = "R_IDLE" /\ r_owner = 0 /\ r_next = 0 /\ r_slave = 0 /\ r_id = 0
  /\ wstate = "W_IDLE" /\ w_owner = 0 /\ w_next = 0 /\ w_slave = 0 /\ w_id = 0
  /\ w_remaining = 0 /\ w_error = FALSE
  /\ rd = [m \in Masters |-> Quiet] /\ wr = [m \in Masters |-> Quiet]
  /\ s_rd = [s \in Slaves |-> [left |-> 0, id |-> 0]]
  /\ s_wr = [s \in Slaves |-> [busy |-> FALSE, left |-> 0, id |-> 0]]
  /\ r_passed = [m \in Masters |-> 0] /\ w_passed = [m \in Masters |-> 0]

SuccNoWrap(m) == m + 1
Succ(m) == IF m = N - 1 THEN 0 ELSE m + 1
(* How far the scan that starts at next goes before it reaches m.          *)
Distance(next, m) == IF m >= next THEN m - next ELSE m - next + N
Asking(port) == {m \in Masters : port[m].st = "asking"}
PickFixed(next, set) == CHOOSE m \in set : \A o \in set : m <= o
Pick(next, set) ==
  CHOOSE m \in set : \A o \in set : Distance(next, m) <= Distance(next, o)

DecodeOpen(m, q) == q.dst
Decode(m, q) ==
  IF DMA_UNCACHED_ONLY /\ m = DmaMaster /\ ~q.window THEN 2 ELSE q.dst

Ask(port, m, q) == [port EXCEPT ![m] = [Quiet EXCEPT !.st = "asking", !.req = q]]
Granted(port, m) == [port EXCEPT ![m].st = "accepted"]
(* The history counts to N, one more than BypassBounded allows.            *)
OneMore(n) == IF n = N THEN N ELSE n + 1
Passed(count, port, m) ==
  [o \in Masters |-> IF o = m THEN 0
                     ELSE IF port[o].st = "asking" THEN OneMore(count[o])
                     ELSE count[o]]
Answered(port, m, beats, resp, id) ==
  [port EXCEPT ![m] = [st |-> "done", req |-> port[m].req, beats |-> beats,
                       resp |-> resp, id |-> id]]

-----------------------------------------------------------------------------
AskRead(m) == /\ rd[m].st \in {"idle", "done"}
              /\ \E q \in Requests : rd' = Ask(rd, m, q)
              /\ UNCHANGED <<rstate, r_owner, r_next, r_slave, r_id, s_rd, r_passed>>

(* R_IDLE with a request: the slave's arready is the step being taken.     *)
GrantRead ==
  /\ rstate = "R_IDLE"
  /\ Asking(rd) # {}
  /\ LET m == Pick(r_next, Asking(rd))
         q == rd[m].req
         d == Decode(m, q)
     IN /\ r_owner' = m
        /\ r_id' = q.id
        /\ rd' = Granted(rd, m)
        /\ r_passed' = Passed(r_passed, rd, m)
        /\ \/ d = 2 /\ rstate' = "R_ERROR" /\ UNCHANGED <<r_slave, s_rd>>
           \/ /\ d # 2
              /\ rstate' = "R_DATA"
              /\ r_slave' = d
              /\ s_rd' = [s_rd EXCEPT ![d] = [left |-> q.len + 1, id |-> m]]
  /\ UNCHANGED r_next

ReadBeatNoLast ==
  /\ rstate = "R_DATA"
  /\ s_rd[r_slave].left > 0
  /\ s_rd' = [s_rd EXCEPT ![r_slave].left = @ - 1]
  /\ rd' = Answered(rd, r_owner, rd[r_owner].beats + 1, "slave", r_id)
  /\ r_next' = Succ(r_owner)
  /\ rstate' = "R_IDLE"
  /\ UNCHANGED <<r_owner, r_slave, r_id, r_passed>>
(* A beat from the slave to the owner; the last one ends the read.         *)
ReadBeat ==
  /\ rstate = "R_DATA"
  /\ s_rd[r_slave].left > 0
  /\ s_rd' = [s_rd EXCEPT ![r_slave].left = @ - 1]
  /\ IF s_rd[r_slave].left = 1
     THEN /\ rd' = Answered(rd, r_owner, rd[r_owner].beats + 1, "slave", r_id)
          /\ r_next' = Succ(r_owner)
          /\ rstate' = "R_IDLE"
     ELSE /\ rd' = [rd EXCEPT ![r_owner].beats = @ + 1]
          /\ UNCHANGED <<r_next, rstate>>
  /\ UNCHANGED <<r_owner, r_slave, r_id, r_passed>>

ReadError ==
  /\ rstate = "R_ERROR"
  /\ rd' = Answered(rd, r_owner, rd[r_owner].beats + 1, "decerr", r_id)
  /\ r_next' = Succ(r_owner)
  /\ rstate' = "R_IDLE"
  /\ UNCHANGED <<r_owner, r_slave, r_id, s_rd, r_passed>>

-----------------------------------------------------------------------------
AskWrite(m) == /\ wr[m].st \in {"idle", "done"}
               /\ \E q \in Requests : wr' = Ask(wr, m, q)
               /\ UNCHANGED <<wstate, w_owner, w_next, w_slave, w_remaining,
                              w_error, w_id, s_wr, w_passed>>

GrantWrite ==
  /\ wstate = "W_IDLE"
  /\ Asking(wr) # {}
  /\ LET m == Pick(w_next, Asking(wr))
         q == wr[m].req
         d == Decode(m, q)
     IN /\ w_owner' = m
        /\ w_id' = q.id
        /\ w_remaining' = q.len
        /\ w_error' = (d = 2)
        /\ wr' = Granted(wr, m)
        /\ w_passed' = Passed(w_passed, wr, m)
        /\ \/ d = 2 /\ wstate' = "W_ERROR" /\ UNCHANGED <<w_slave, s_wr>>
           \/ /\ d # 2
              /\ wstate' = "W_DATA"
              /\ w_slave' = d
              /\ s_wr' = [s_wr EXCEPT ![d] =
                            [busy |-> TRUE, left |-> q.len + 1, id |-> m]]
  /\ UNCHANGED w_next

(* The owner drives the beats it announced, by its own count.              *)
SendBeat(m) ==
  /\ wr[m].st = "accepted" /\ wr[m].beats <= wr[m].req.len
  /\ wr' = [wr EXCEPT ![m].beats = @ + 1]
CountBeatEarly ==
  IF w_remaining <= 1 THEN wstate' = "W_RESP" /\ UNCHANGED w_remaining
  ELSE w_remaining' = w_remaining - 1 /\ UNCHANGED wstate
CountBeat ==
  IF w_remaining = 0 THEN wstate' = "W_RESP" /\ UNCHANGED w_remaining
  ELSE w_remaining' = w_remaining - 1 /\ UNCHANGED wstate

WriteBeat ==
  /\ wstate = "W_DATA"
  /\ SendBeat(w_owner)
  /\ s_wr[w_slave].left > 0
  /\ s_wr' = [s_wr EXCEPT ![w_slave].left = @ - 1]
  /\ CountBeat
  /\ UNCHANGED <<w_owner, w_next, w_slave, w_error, w_id, w_passed>>

WriteErrorBeat ==
  /\ wstate = "W_ERROR"
  /\ SendBeat(w_owner)
  /\ CountBeat
  /\ UNCHANGED <<w_owner, w_next, w_slave, w_error, w_id, w_passed, s_wr>>

WriteResponse ==
  /\ wstate = "W_RESP"
  /\ \/ /\ w_error
        /\ wr' = Answered(wr, w_owner, wr[w_owner].beats, "decerr", w_id)
        /\ UNCHANGED s_wr
     \/ /\ ~w_error
        /\ s_wr[w_slave].busy /\ s_wr[w_slave].left = 0
        /\ wr' = Answered(wr, w_owner, wr[w_owner].beats, "slave", w_id)
        /\ s_wr' = [s_wr EXCEPT ![w_slave].busy = FALSE]
  /\ w_next' = Succ(w_owner)
  /\ wstate' = "W_IDLE"
  /\ UNCHANGED <<w_owner, w_slave, w_remaining, w_error, w_id, w_passed>>

ReadMachine == GrantRead \/ ReadBeat \/ ReadError
WriteMachine == GrantWrite \/ WriteBeat \/ WriteErrorBeat \/ WriteResponse

ReadNext == (\E m \in Readers : AskRead(m)) \/ ReadMachine
WriteNext == (\E m \in Writers : AskWrite(m)) \/ WriteMachine

(* core_release resets the fabric, its masters and the DDR link together.  *)
Reset ==
  /\ rstate' = "R_IDLE" /\ r_owner' = 0 /\ r_next' = 0 /\ r_slave' = 0 /\ r_id' = 0
  /\ wstate' = "W_IDLE" /\ w_owner' = 0 /\ w_next' = 0 /\ w_slave' = 0 /\ w_id' = 0
  /\ w_remaining' = 0 /\ w_error' = FALSE
  /\ rd' = [m \in Masters |-> Quiet] /\ wr' = [m \in Masters |-> Quiet]
  /\ s_rd' = [s \in Slaves |-> [left |-> 0, id |-> 0]]
  /\ s_wr' = [s \in Slaves |-> [busy |-> FALSE, left |-> 0, id |-> 0]]
  /\ r_passed' = [m \in Masters |-> 0] /\ w_passed' = [m \in Masters |-> 0]

FabricNext ==
  \/ ReadNext /\ UNCHANGED writeVars
  \/ WriteNext /\ UNCHANGED readVars
  \/ Reset

FabricSpec == FabricInit /\ [][FabricNext]_fabricVars

(* Slaves answer, masters take answers and drive the beats they announced. *)
FabricFairness ==
  /\ WF_fabricVars(ReadMachine /\ UNCHANGED writeVars)
  /\ WF_fabricVars(WriteMachine /\ UNCHANGED readVars)
FabricFairSpec == FabricSpec /\ FabricFairness

-----------------------------------------------------------------------------
Ids == {q.id : q \in Requests} \cup {0}
MasterStates == {"idle", "asking", "accepted", "done"}
Port == [st : MasterStates, req : Requests \cup {NoRequest}, beats : Nat,
         resp : {"none", "slave", "decerr"},
         id : Ids]
ReadTypeOK ==
  /\ rstate \in {"R_IDLE", "R_DATA", "R_ERROR"}
  /\ r_owner \in Masters /\ r_next \in Masters
  /\ r_slave \in Slaves /\ r_id \in Ids
  /\ rd \in [Masters -> Port]
  /\ s_rd \in [Slaves -> [left : Nat, id : Masters]]
  /\ r_passed \in [Masters -> Nat]
WriteTypeOK ==
  /\ wstate \in {"W_IDLE", "W_DATA", "W_RESP", "W_ERROR"}
  /\ w_owner \in Masters /\ w_next \in Masters
  /\ w_slave \in Slaves /\ w_id \in Ids
  /\ w_remaining \in Nat /\ w_error \in BOOLEAN
  /\ wr \in [Masters -> Port]
  /\ s_wr \in [Slaves -> [busy : BOOLEAN, left : Nat, id : Masters]]
  /\ w_passed \in [Masters -> Nat]
FabricTypeOK == ReadTypeOK /\ WriteTypeOK

(* What may reach slave s: a request mapped to it, and for the DMA master  *)
(* of an integrated system only one that starts in the uncached window.    *)
Allowed(m, q, s) ==
  q.dst = s /\ (DMA_UNCACHED_ONLY /\ m = DmaMaster => q.window)
Refused(m, q) == \A s \in Slaves : ~Allowed(m, q, s)

(* An answered read was answered as asked: its own ID, every beat of its   *)
(* burst from the slave, or one DECERR beat if and only if no slave may    *)
(* serve it (axi_fabric.sv, the R_DATA and R_ERROR routes).                *)
ReadAnswered ==
  \A m \in Masters : rd[m].st = "done" =>
    LET refused == Refused(m, rd[m].req)
    IN /\ rd[m].id = rd[m].req.id
       /\ rd[m].resp = IF refused THEN "decerr" ELSE "slave"
       /\ rd[m].beats = IF refused THEN 1 ELSE rd[m].req.len + 1

(* An answered write has sent every beat it announced, refused or not, and *)
(* got its own ID back; DECERR if and only if no slave may serve it.       *)
WriteAnswered ==
  \A m \in Masters : wr[m].st = "done" =>
    /\ wr[m].id = wr[m].req.id
    /\ wr[m].beats = wr[m].req.len + 1
    /\ wr[m].resp = IF Refused(m, wr[m].req) THEN "decerr" ELSE "slave"

(* Both: each burst is answered once, with what it asked for.              *)
EachAnswered == ReadAnswered /\ WriteAnswered

(* A slave is busy only for the request the fabric is routing to it, which *)
(* its owner made and may make of that slave: a refused request, or a beat *)
(* of one, reaches no slave, and no burst is left over when the next one   *)
(* is granted (axi_fabric.sv, r_slave and w_slave).                        *)
SlavesServeOwner ==
  \A s \in Slaves :
    /\ s_rd[s].left > 0 =>
         /\ rstate = "R_DATA" /\ r_slave = s /\ s_rd[s].id = r_owner
         /\ Allowed(r_owner, rd[r_owner].req, s)
         /\ s_rd[s].left + rd[r_owner].beats = rd[r_owner].req.len + 1
    /\ s_wr[s].busy =>
         /\ wstate \in {"W_DATA", "W_RESP"} /\ ~w_error
         /\ w_slave = s /\ s_wr[s].id = w_owner
         /\ Allowed(w_owner, wr[w_owner].req, s)
         /\ s_wr[s].left + wr[w_owner].beats = wr[w_owner].req.len + 1

(* A waiting master sees each of the others go first at most once, however *)
(* the pick moves before a slave accepts it (r_next and w_next).           *)
BypassBounded ==
  \A m \in Masters :
    /\ rd[m].st = "asking" => r_passed[m] <= N - 1
    /\ wr[m].st = "asking" => w_passed[m] <= N - 1

(* Every read is answered, or reset drops it, however many masters contend *)
(* for the one read in flight.                                             *)
ReadServed == \A m \in Readers :
                rd[m].st = "asking" ~> rd[m].st \in {"done", "idle"}

(* So is every write, which needs its beats taken first, even if refused.  *)
WriteServed == \A m \in Writers :
                 wr[m].st = "asking" ~> wr[m].st \in {"done", "idle"}

(* Every burst asked for is answered, or dropped by a reset.               *)
AllServed == ReadServed /\ WriteServed
=============================================================================
