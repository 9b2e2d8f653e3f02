--------------------------- MODULE ResetChainProofs ---------------------------
(***************************************************************************)
(* Every answer is to the request that waits for it and no request is      *)
(* forgotten, over any losses of the memory, for every set of masters, any *)
(* depth of the FIFOs and any count of lives.                              *)
(***************************************************************************)
EXTENDS ResetChain, TLAPS

-----------------------------------------------------------------------------
(* The link stands on the button and on the chain before it, and nothing   *)
(* behind it is released while it is down; a controller that is not        *)
(* calibrated holds no work.                                               *)
Chain ==
  /\ ~rst_n => mig_release = 0
  /\ link_rst_n => rst_n /\ mig_release = 2
  /\ ~link_rst_n => core_release = 0 /\ core_side = Zero /\ mig_side = Zero
  /\ ~mig_calib_complete => mig_ar = None /\ mig_aw = None /\ mig_w = None

ReadsEmpty == /\ ar = <<>> /\ r = <<>> /\ mig_ar = None /\ mmio = None
              /\ rstate = "R_IDLE"
WritesEmpty == /\ aw = <<>> /\ w = <<>> /\ b = <<>> /\ mig_aw = None /\ mig_w = None
               /\ wstate = "W_IDLE"
AtRest(m) == reader[m] = Idle /\ writer[m] = Idle
Begun == core_release # 0 \/ \E f \in Fifos : core_side[f] # 0

(* Before the masters are released nothing is in flight; at the first edge *)
(* of the core clock behind the link the loaders rest, at the second, and  *)
(* before any FIFO takes a request, the core rests too.                    *)
Stages ==
  /\ ~masters_ready => ReadsEmpty /\ WritesEmpty
  /\ ~masters_ready /\ Begun => ~cpu_reset_n /\ \A m \in Loader : AtRest(m)
  /\ ~masters_ready /\ (\E f \in Fifos : core_side[f] = 2) => \A m \in Cpu : AtRest(m)
  /\ masters_ready /\ ~cpu_reset_n => \A m \in Cpu : AtRest(m)

(* The read in flight is in one of four places, and the master waits.      *)
At(t, here, there1, there2, there3) ==
  here = <<t>> /\ there1 = <<>> /\ there2 = <<>> /\ there3 = <<>>
Reading(t) == \/ At(t, ar, Held(mig_ar), r, Held(mmio))
              \/ At(t, Held(mig_ar), ar, r, Held(mmio))
              \/ At(t, r, ar, Held(mig_ar), Held(mmio))
              \/ At(t, Held(mmio), ar, Held(mig_ar), r)
Reads ==
  /\ \/ ar = <<>> /\ r = <<>> /\ mig_ar = None /\ mmio = None
     \/ /\ rstate = "R_DATA" /\ reader[r_owner].st = "wait"
        /\ Reading(Token(reader, r_owner))
  /\ masters_ready => \A m \in Masters :
       reader[m].st = "wait" <=> rstate = "R_DATA" /\ m = r_owner

(* A command in flight is in one of three places, its data in one of two,  *)
(* and an answer comes after the data.                                     *)
Commanding(t) == \/ At(t, aw, Held(mig_aw), b, <<>>)
                 \/ At(t, Held(mig_aw), aw, b, <<>>)
                 \/ At(t, b, aw, Held(mig_aw), <<>>)
Sending(t) == At(t, w, Held(mig_w), <<>>, <<>>) \/ At(t, Held(mig_w), w, <<>>, <<>>)
WritesInFlight ==
  /\ \/ aw = <<>> /\ b = <<>> /\ mig_aw = None
     \/ wstate # "W_IDLE" /\ Commanding(Token(writer, w_owner))
  /\ \/ w = <<>> /\ mig_w = None
     \/ wstate = "W_RESP" /\ Sending(Token(writer, w_owner))
  /\ b # <<>> => wstate = "W_RESP" /\ w = <<>> /\ mig_w = None
  /\ masters_ready => \A m \in Masters :
       writer[m].st \in {"data", "wait"} <=> wstate # "W_IDLE" /\ m = w_owner

ChainInv == TypeOK /\ Chain /\ Stages /\ Reads /\ WritesInFlight


-----------------------------------------------------------------------------
(* Tokens, channels and what a clock edge leaves of them.                  *)
LEMMA TokenIsSome == None \notin Tokens /\ \A t \in Tokens : Held(t) = <<t>>
<1>1. \A t \in Tokens : Len(t) = 2
  BY DEF Tokens
<1>2. Len(None) = 0
  BY DEF None
<1>3. None \notin Tokens
  BY <1>1, <1>2
<1>4. QED
  BY <1>3, Zenon DEF Held

LEMMA HeldNone == Held(None) = <<>> /\ \A t : Held(t) = <<>> => t = None
<1>1. \A t : <<t>> # <<>>
  OBVIOUS
<1>2. QED
  BY <1>1, Zenon DEF Held

LEMMA LifeType == 0 \in 0 .. Lives - 1
BY ChainAssumption

LEMMA IdleType ==
  ASSUME NEW S, "idle" \in S
  PROVE  Idle \in [st : S, life : 0 .. Lives - 1] /\ Idle.st = "idle" /\ Idle.life = 0
BY LifeType DEF Idle

LEMMA Going ==
  ASSUME NEW S, NEW ch \in Channels(S), NEW m \in Masters, NEW st \in S
  PROVE  /\ Goes(ch, m, st) \in Channels(S)
         /\ \A n \in Masters :
              /\ Goes(ch, m, st)[n].st = IF n = m THEN st ELSE ch[n].st
              /\ Goes(ch, m, st)[n].life = ch[n].life
              /\ n # m => Goes(ch, m, st)[n] = ch[n]
BY DEF Goes, Channels

LEMMA Asking ==
  ASSUME NEW S, NEW ch \in Channels(S), NEW m \in Masters, "ask" \in S,
         life \in 0 .. Lives - 1
  PROVE  /\ Asks(ch, m) \in Channels(S)
         /\ Asks(ch, m)[m].st = "ask"
         /\ \A n \in Masters : n # m => Asks(ch, m)[n] = ch[n]
BY DEF Asks, Channels

LEMMA Clocking ==
  ASSUME NEW S, "idle" \in S, NEW ch \in Channels(S)
  PROVE  /\ Clocked(ch) \in Channels(S)
         /\ \A n \in Masters :
              Clocked(ch)[n] = IF Runs(n) THEN ch[n] ELSE Idle
<1>1. \A n \in Masters : ch[n] \in [st : S, life : 0 .. Lives - 1]
  BY DEF Channels
<1>2. QED
  BY <1>1, IdleType DEF Clocked, Channels

RSts == {"idle", "ask", "wait"}
WSts == {"idle", "ask", "data", "wait"}

LEMMA TokenType ==
  ASSUME NEW S, NEW ch \in Channels(S), NEW m \in Masters
  PROVE  Token(ch, m) \in Tokens
<1>1. ch[m].life \in 0 .. Lives - 1
  BY DEF Channels
<1>2. QED
  BY <1>1 DEF Token, Tokens

-----------------------------------------------------------------------------
(* Types.                                                                  *)
ChainTypes ==
  /\ rst_n \in BOOLEAN /\ mig_calib_complete \in BOOLEAN /\ link_rst_n \in BOOLEAN
  /\ mig_release \in 0 .. 2 /\ core_release \in 0 .. 2
  /\ cpu_reset_n \in BOOLEAN /\ rising \in BOOLEAN
  /\ core_side \in [Fifos -> 0 .. 2] /\ mig_side \in [Fifos -> 0 .. 2]
  /\ life \in 0 .. Lives - 1
IsFifo(q) == q \in Seq(Tokens) /\ Len(q) <= Depth
QueueTypes == IsFifo(ar) /\ IsFifo(r) /\ IsFifo(aw) /\ IsFifo(w) /\ IsFifo(b)
Places == Tokens \cup {None}
MigTypes == mig_ar \in Places /\ mig_aw \in Places /\ mig_w \in Places
ReadTypes == /\ reader \in Channels(RSts)
             /\ rstate \in {"R_IDLE", "R_DATA"} /\ r_owner \in Masters
             /\ r_slave \in {"ddr", "mmio"} /\ mmio \in Places
WriteTypes == /\ writer \in Channels(WSts)
              /\ wstate \in {"W_IDLE", "W_DATA", "W_RESP"} /\ w_owner \in Masters

LEMMA AllTypes ==
  /\ TypeOK <=> ChainTypes /\ QueueTypes /\ MigTypes /\ ReadTypes /\ WriteTypes
  /\ ChainTypes' /\ QueueTypes' /\ MigTypes' /\ ReadTypes' /\ WriteTypes' => TypeOK'
<1>1. TypeOK <=> ChainTypes /\ QueueTypes /\ MigTypes /\ ReadTypes /\ WriteTypes
  BY Zenon
  DEF TypeOK, ChainTypes, QueueTypes, IsFifo, MigTypes, Places, ReadTypes, WriteTypes,
      RSts, WSts
<1>2. QED
  BY <1>1, PTL

LEMMA EmptyFifo == IsFifo(<<>>)
BY ChainAssumption DEF IsFifo

LEMMA Takes1 ==
  ASSUME NEW q, IsFifo(q), q # <<>>
  PROVE  Head(q) \in Tokens /\ IsFifo(Tail(q))
BY ChainAssumption DEF IsFifo

LEMMA Puts1 ==
  ASSUME NEW q, IsFifo(q), Len(q) < Depth, NEW t \in Tokens
  PROVE  IsFifo(Append(q, t))
BY ChainAssumption DEF IsFifo

LEMMA ZeroType == Zero \in [Fifos -> 0 .. 2] /\ \A f \in Fifos : Zero[f] = 0
<1>1. 0 \in 0 .. 2
  OBVIOUS
<1>2. QED
  BY <1>1, Zenon DEF Zero

LEMMA InitTypes == Init => TypeOK
<1> SUFFICES ASSUME Init PROVE TypeOK
  OBVIOUS
<1>1. ChainTypes
  <2>1. /\ rst_n \in BOOLEAN /\ mig_calib_complete \in BOOLEAN /\ link_rst_n \in BOOLEAN
        /\ cpu_reset_n \in BOOLEAN /\ rising \in BOOLEAN
    BY DEF Init
  <2>2. mig_release \in 0 .. 2 /\ core_release \in 0 .. 2 /\ life \in 0 .. Lives - 1
    BY LifeType DEF Init
  <2>3. core_side \in [Fifos -> 0 .. 2] /\ mig_side \in [Fifos -> 0 .. 2]
    BY ZeroType DEF Init
  <2>4. QED
    BY <2>1, <2>2, <2>3 DEF ChainTypes
<1>2. QueueTypes
  BY EmptyFifo DEF Init, QueueTypes
<1>3. MigTypes
  BY DEF Init, MigTypes, Places
<1>4. ReadTypes /\ WriteTypes
  BY IdleType DEF Init, ReadTypes, WriteTypes, Channels, RSts, WSts, Places
<1>5. QED
  BY <1>1, <1>2, <1>3, <1>4, AllTypes

LEMMA DownTypes ==
  ASSUME TypeOK, LinkDown
  PROVE  /\ link_rst_n' \in BOOLEAN /\ core_release' \in 0 .. 2 /\ rising' \in BOOLEAN
         /\ core_side' \in [Fifos -> 0 .. 2] /\ mig_side' \in [Fifos -> 0 .. 2]
         /\ life' \in 0 .. Lives - 1 /\ QueueTypes' /\ ReadTypes' /\ WriteTypes'
<1>1. life' \in 0 .. Lives - 1
  <2>1. life \in Nat /\ Lives \in Nat \ {0}
    BY ChainAssumption DEF TypeOK
  <2>2. (life + 1) % Lives \in 0 .. Lives - 1
    BY <2>1
  <2>3. QED
    BY <2>2 DEF LinkDown, TypeOK
<1>2. QueueTypes'
  BY EmptyFifo DEF LinkDown, QueueTypes
<1>3. ReadTypes' /\ WriteTypes'
  BY AllTypes DEF LinkDown, ReadTypes, WriteTypes, Places
<1>4. QED
  <2>1. core_side' \in [Fifos -> 0 .. 2] /\ mig_side' \in [Fifos -> 0 .. 2]
    BY ZeroType DEF LinkDown
  <2>2. link_rst_n' \in BOOLEAN /\ core_release' \in 0 .. 2 /\ rising' \in BOOLEAN
    <3>1. link_rst_n' = FALSE /\ core_release' = 0 /\ rising' = FALSE
      BY Zenon DEF LinkDown
    <3>2. link_rst_n' \in BOOLEAN /\ rising' \in BOOLEAN
      BY <3>1, Zenon
    <3>3. core_release' \in 0 .. 2
      BY <3>1
    <3>4. QED
      BY <3>2, <3>3
  <2>3. QED
    BY <1>1, <1>2, <1>3, <2>1, <2>2

LEMMA MemoryTypes ==
  ASSUME TypeOK, Memory
  PROVE  QueueTypes' /\ MigTypes'
<1>1. QueueTypes /\ MigTypes
  BY AllTypes
<1>2. None \in Places /\ \A t \in Tokens : t \in Places
  BY DEF Places
<1>3. \A t \in Places : t # None => t \in Tokens
  BY DEF Places
<1>4. CASE TakeAr
  BY <1>1, <1>2, <1>4, Takes1 DEF TakeAr, Offers, QueueTypes, MigTypes
<1>5. CASE TakeAw
  BY <1>1, <1>2, <1>5, Takes1 DEF TakeAw, Offers, QueueTypes, MigTypes
<1>6. CASE TakeW
  BY <1>1, <1>2, <1>6, Takes1 DEF TakeW, Offers, QueueTypes, MigTypes
<1>7. CASE GiveR
  BY <1>1, <1>2, <1>3, <1>7, Puts1 DEF GiveR, Takes, QueueTypes, MigTypes
<1>8. CASE GiveB
  BY <1>1, <1>2, <1>3, <1>8, Puts1 DEF GiveB, Takes, QueueTypes, MigTypes
<1>9. QED
  BY <1>4, <1>5, <1>6, <1>7, <1>8 DEF Memory

LEMMA ReadSideTypes ==
  ASSUME TypeOK, ReadSide
  PROVE  ReadTypes' /\ IsFifo(ar)' /\ IsFifo(r)'
<1>1. ReadTypes /\ IsFifo(ar) /\ IsFifo(r) /\ life \in 0 .. Lives - 1
  BY AllTypes DEF QueueTypes, ChainTypes
<1>2. {"idle", "ask", "wait"} \subseteq RSts
  BY DEF RSts
<1>3. CASE ReadQuiet
  BY <1>1, <1>2, <1>3, Clocking DEF ReadQuiet, ReadTypes, IsFifo
<1>4. ASSUME NEW m \in Masters, AskRead(m)
      PROVE  ReadTypes' /\ IsFifo(ar)' /\ IsFifo(r)'
  <2>1. reader' \in Channels(RSts)
    BY <1>1, <1>2, <1>4, Clocking, Asking DEF AskRead, ReadTypes
  <2>2. QED
    BY <1>1, <1>4, <2>1 DEF AskRead, ReadTypes, IsFifo
<1>5. ASSUME NEW m \in Masters, NEW slave \in Dests, GrantRead(m, slave)
      PROVE  ReadTypes' /\ IsFifo(ar)' /\ IsFifo(r)'
  <2>1. reader' \in Channels(RSts)
    BY <1>1, <1>2, <1>5, Clocking, Going DEF GrantRead, ReadTypes
  <2>2. Token(reader, m) \in Tokens
    BY <1>1, TokenType DEF ReadTypes
  <2>3. mmio' \in Places
    BY <1>1, <1>5, <2>2 DEF GrantRead, ReadTypes, Places
  <2>4. slave \in {"ddr", "mmio"}
    BY ChainAssumption
  <2>5. ReadTypes'
    BY <1>1, <1>5, <2>1, <2>3, <2>4 DEF GrantRead, ReadTypes
  <2>6. IsFifo(ar')
    BY <1>1, <1>5, <2>2, Puts1 DEF GrantRead, Takes
  <2>7. IsFifo(r')
    BY <1>1, <1>5 DEF GrantRead
  <2>8. QED
    BY <2>5, <2>6, <2>7 DEF IsFifo
<1>6. CASE ReadBeat
  <2>1. reader' \in Channels(RSts)
    BY <1>1, <1>2, <1>6, Clocking, Going DEF ReadBeat, ReadTypes
  <2>2. ReadTypes'
    BY <1>1, <1>6, <2>1 DEF ReadBeat, ReadTypes, Places
  <2>3. IsFifo(r') /\ IsFifo(ar')
    BY <1>1, <1>6, Takes1 DEF ReadBeat, Offers
  <2>4. QED
    BY <2>2, <2>3 DEF IsFifo
<1>7. QED
  BY <1>3, <1>4, <1>5, <1>6 DEF ReadSide, ReadWork

LEMMA WriteSideTypes ==
  ASSUME TypeOK, WriteSide
  PROVE  WriteTypes' /\ IsFifo(aw)' /\ IsFifo(w)' /\ IsFifo(b)'
<1>1. WriteTypes /\ IsFifo(aw) /\ IsFifo(w) /\ IsFifo(b) /\ life \in 0 .. Lives - 1
  BY AllTypes DEF QueueTypes, ChainTypes
<1>2. {"idle", "ask", "data", "wait"} \subseteq WSts
  BY DEF WSts
<1>3. writer' \in Channels(WSts)
  <2>1. CASE WriteQuiet
    BY <1>1, <1>2, <2>1, Clocking DEF WriteQuiet, WriteTypes
  <2>2. ASSUME NEW m \in Masters, AskWrite(m) PROVE writer' \in Channels(WSts)
    BY <1>1, <1>2, <2>2, Clocking, Asking DEF AskWrite, WriteTypes
  <2>3. ASSUME NEW m \in Masters, GrantWrite(m) PROVE writer' \in Channels(WSts)
    BY <1>1, <1>2, <2>3, Clocking, Going DEF GrantWrite, WriteTypes
  <2>4. CASE WriteBeat
    BY <1>1, <1>2, <2>4, Clocking, Going DEF WriteBeat, WriteTypes
  <2>5. CASE WriteResponse
    BY <1>1, <1>2, <2>5, Clocking, Going DEF WriteResponse, WriteTypes
  <2>6. QED
    BY <2>1, <2>2, <2>3, <2>4, <2>5 DEF WriteSide, WriteWork
<1>4. \A m \in Masters : Token(writer, m) \in Tokens
  BY <1>1, TokenType DEF WriteTypes
<1>5. IsFifo(aw') /\ IsFifo(w') /\ IsFifo(b')
  <2>1. CASE WriteQuiet \/ \E m \in Masters : AskWrite(m)
    BY <1>1, <2>1 DEF WriteQuiet, AskWrite
  <2>2. CASE \E m \in Masters : GrantWrite(m)
    BY <1>1, <1>4, <2>2, Puts1 DEF GrantWrite, Takes
  <2>3. CASE WriteBeat
    BY <1>1, <1>4, <2>3, Puts1 DEF WriteBeat, Takes, WriteTypes
  <2>4. CASE WriteResponse
    BY <1>1, <2>4, Takes1 DEF WriteResponse, Offers
  <2>5. QED
    BY <2>1, <2>2, <2>3, <2>4 DEF WriteSide, WriteWork
<1>6. wstate' \in {"W_IDLE", "W_DATA", "W_RESP"} /\ w_owner' \in Masters
  BY <1>1
  DEF WriteSide, WriteWork, WriteQuiet, AskWrite, GrantWrite, WriteBeat, WriteResponse,
      WriteTypes
<1>7. QED
  BY <1>3, <1>5, <1>6 DEF WriteTypes, IsFifo

LEMMA ShiftType == \A n \in 0 .. 2 : Shift(n) \in 0 .. 2
BY DEF Shift

LEMMA StepTypes == TypeOK /\ [Next]_vars => TypeOK'
<1> SUFFICES ASSUME TypeOK, [Next]_vars PROVE TypeOK'
  OBVIOUS
<1>1. ChainTypes /\ QueueTypes /\ MigTypes /\ ReadTypes /\ WriteTypes
  BY AllTypes
<1>2. CASE Press
  <2>1. MigTypes'
    BY <1>2 DEF Press, MigForgets, MigTypes, Places
  <2>2. ChainTypes'
    <3>1. LinkDown /\ rst_n' = FALSE /\ mig_release' = 0 /\ mig_calib_complete' = FALSE
          /\ cpu_reset_n' = cpu_reset_n
      BY <1>2 DEF Press
    <3>2. /\ link_rst_n' \in BOOLEAN /\ core_release' \in 0 .. 2 /\ rising' \in BOOLEAN
          /\ core_side' \in [Fifos -> 0 .. 2] /\ mig_side' \in [Fifos -> 0 .. 2]
          /\ life' \in 0 .. Lives - 1
      BY <3>1, DownTypes
    <3>3. mig_release' \in 0 .. 2
      BY <3>1
    <3>4. cpu_reset_n' \in BOOLEAN
      BY <1>1, <3>1 DEF ChainTypes
    <3>5. QED
      BY <3>1, <3>2, <3>3, <3>4 DEF ChainTypes
  <2>3. QED
    BY <1>2, <2>1, <2>2, DownTypes, AllTypes DEF Press
<1>3. CASE Unpress \/ LoseCalibration \/ Calibrate \/ UNCHANGED vars
  <2>1. MigTypes'
    BY <1>1, <1>3
    DEF Unpress, LoseCalibration, Calibrate, vars, migVars, MigForgets, MigTypes, Places
  <2>2. ChainTypes'
    BY <1>1, <1>3 DEF Unpress, LoseCalibration, Calibrate, vars, chain, sides, ChainTypes
  <2>3. QueueTypes' /\ ReadTypes' /\ WriteTypes'
    BY <1>1, <1>3
    DEF Unpress, LoseCalibration, Calibrate, vars, readVars, writeVars, QueueTypes,
        IsFifo, ReadTypes, WriteTypes
  <2>4. QED
    BY <2>1, <2>2, <2>3, AllTypes
<1>4. CASE MigTick
  <2>1. mig_release' \in 0 .. 2
    BY <1>1, <1>4, ShiftType DEF MigTick, ChainTypes
  <2>2. CASE link_rst_n /\ ~mig_calib_complete
    <3>1. LinkDown /\ UNCHANGED migVars /\ UNCHANGED <<rst_n, mig_calib_complete, cpu_reset_n>>
      BY <1>4, <2>2 DEF MigTick
    <3>2. ChainTypes' /\ MigTypes'
      BY <1>1, <2>1, <3>1, DownTypes DEF ChainTypes, MigTypes, migVars
    <3>3. QED
      BY <3>1, <3>2, DownTypes, AllTypes
  <2>3. CASE ~(link_rst_n /\ ~mig_calib_complete)
    <3>1. mig_side' \in [Fifos -> 0 .. 2]
      BY <1>1, <1>4, <2>3, ShiftType DEF MigTick, ChainTypes, Zero
    <3>2. ChainTypes'
      BY <1>1, <1>4, <2>1, <2>3, <3>1 DEF MigTick, ChainTypes
    <3>3. QueueTypes' /\ MigTypes'
      <4>1. CASE Memory
        BY <4>1, MemoryTypes
      <4>2. CASE UNCHANGED <<ar, r, aw, w, b, migVars>>
        BY <1>1, <4>2 DEF QueueTypes, IsFifo, MigTypes, migVars
      <4>3. QED
        BY <1>4, <2>3, <4>1, <4>2 DEF MigTick
    <3>4. ReadTypes' /\ WriteTypes'
      BY <1>1, <1>4, <2>3 DEF MigTick, readVars, writeVars, ReadTypes, WriteTypes
    <3>5. QED
      BY <3>2, <3>3, <3>4, AllTypes
  <2>4. QED
    BY <2>2, <2>3
<1>5. CASE CoreTick
  <2>1. core_release' \in 0 .. 2 /\ core_side' \in [Fifos -> 0 .. 2]
    <3>1. CASE \E late \in Late : Released(late)
      <4>1. PICK late : Released(late)
        BY <3>1
      <4>2. core_release' \in 0 .. 2
        BY <1>1, <4>1, ShiftType DEF Released, ChainTypes
      <4>3. core_side' \in [Fifos -> 0 .. 2]
        BY <1>1, <4>1, ShiftType DEF Released, ChainTypes
      <4>4. QED
        BY <4>2, <4>3
    <3>2. CASE UNCHANGED <<core_release, core_side>>
      BY <1>1, <3>2 DEF ChainTypes
    <3>3. QED
      BY <1>5, <3>1, <3>2 DEF CoreTick
  <2>2. ChainTypes'
    BY <1>1, <1>5, <2>1 DEF CoreTick, ChainTypes, chain, masters_ready
  <2>3. MigTypes'
    BY <1>1, <1>5 DEF CoreTick, MigTypes, migVars
  <2>4. ReadTypes' /\ WriteTypes' /\ QueueTypes'
    BY <1>5, ReadSideTypes, WriteSideTypes DEF CoreTick, QueueTypes
  <2>5. QED
    BY <2>2, <2>3, <2>4, AllTypes
<1>6. QED
  BY <1>2, <1>3, <1>4, <1>5 DEF Next


-----------------------------------------------------------------------------
(* The release chain.                                                      *)
LEMMA ChainStep == TypeOK /\ Chain /\ [Next]_vars => Chain'
<1> SUFFICES ASSUME TypeOK, Chain, [Next]_vars PROVE Chain'
  OBVIOUS
<1>1. CASE Press
  <2>1. /\ mig_release' = 0 /\ link_rst_n' = FALSE /\ core_release' = 0
        /\ core_side' = Zero /\ mig_side' = Zero
        /\ mig_ar' = None /\ mig_aw' = None /\ mig_w' = None
    BY <1>1, Zenon DEF Press, LinkDown, MigForgets
  <2>2. QED
    BY <2>1 DEF Chain
<1>2. CASE Unpress
  <2>1. /\ UNCHANGED <<mig_calib_complete, mig_release, link_rst_n, core_release>>
        /\ UNCHANGED <<core_side, mig_side, mig_ar, mig_aw, mig_w>> /\ rst_n'
    BY <1>2 DEF Unpress, sides, migVars
  <2>2. QED
    BY <2>1 DEF Chain
<1>3. CASE LoseCalibration
  <2>1. /\ UNCHANGED <<rst_n, mig_release, link_rst_n, core_release, core_side, mig_side>>
        /\ mig_ar' = None /\ mig_aw' = None /\ mig_w' = None
    BY <1>3 DEF LoseCalibration, sides, MigForgets
  <2>2. QED
    BY <2>1 DEF Chain
<1>4. CASE Calibrate
  <2>1. /\ UNCHANGED <<rst_n, mig_release, link_rst_n, core_release, core_side, mig_side>>
        /\ UNCHANGED <<mig_ar, mig_aw, mig_w>> /\ mig_calib_complete'
    BY <1>4 DEF Calibrate, sides, migVars
  <2>2. QED
    BY <2>1 DEF Chain
<1>5. CASE MigTick
  <2>1. /\ UNCHANGED <<rst_n, mig_calib_complete>>
        /\ mig_release' = IF rst_n THEN Shift(mig_release) ELSE 0
    BY <1>5 DEF MigTick
  <2>2. CASE link_rst_n /\ ~mig_calib_complete
    <3>1. LinkDown /\ UNCHANGED <<mig_ar, mig_aw, mig_w>>
      BY <1>5, <2>2 DEF MigTick, migVars
    <3>2. /\ link_rst_n' = FALSE /\ core_release' = 0
          /\ core_side' = Zero /\ mig_side' = Zero
      BY <3>1, Zenon DEF LinkDown
    <3>3. QED
      BY <2>1, <2>2, <3>1, <3>2 DEF Chain
  <2>3. CASE ~(link_rst_n /\ ~mig_calib_complete)
    <3>1. /\ link_rst_n' = (mig_release = 2 /\ mig_calib_complete)
          /\ mig_side' = IF link_rst_n THEN [f \in Fifos |-> Shift(mig_side[f])] ELSE Zero
          /\ UNCHANGED <<core_release, core_side>>
          /\ ~mig_calib_complete => UNCHANGED <<mig_ar, mig_aw, mig_w>>
      BY <1>5, <2>3 DEF MigTick, migVars
    <3>2. link_rst_n' <=> mig_release = 2 /\ mig_calib_complete
      BY <3>1
    <3>3. link_rst_n' => rst_n' /\ mig_release' = 2
      BY <2>1, <3>2 DEF Chain, Shift
    <3>4. ~link_rst_n' => ~link_rst_n
      BY <2>3, <3>2 DEF Chain
    <3>5. ~link_rst_n' => core_release' = 0 /\ core_side' = Zero /\ mig_side' = Zero
      BY <3>1, <3>4 DEF Chain
    <3>6. QED
      BY <2>1, <3>1, <3>3, <3>5 DEF Chain
  <2>4. QED
    BY <2>2, <2>3
<1>6. CASE CoreTick
  <2>1. /\ UNCHANGED <<rst_n, mig_calib_complete, mig_release, link_rst_n>>
        /\ UNCHANGED <<mig_side, mig_ar, mig_aw, mig_w>>
        /\ ~link_rst_n => UNCHANGED <<core_release, core_side>>
    BY <1>6 DEF CoreTick, chain, migVars
  <2>2. QED
    BY <2>1 DEF Chain
<1>7. CASE UNCHANGED vars
  BY <1>7 DEF vars, chain, sides, migVars, Chain
<1>8. QED
  BY <1>1, <1>2, <1>3, <1>4, <1>5, <1>6, <1>7 DEF Next

-----------------------------------------------------------------------------
(* What an edge of the core clock does to the channels.                    *)

(* Released, a master that does not run rests, and no request is lost.     *)
LEMMA Keeps ==
  ASSUME NEW S, "idle" \in S, NEW ch \in Channels(S),
         \A m \in Masters : ~Runs(m) => ch[m] = Idle
  PROVE  \A m \in Masters : Clocked(ch)[m] = ch[m]
BY Clocking

LEMMA ReadsStep ==
  ASSUME TypeOK, Stages, Reads, masters_ready, ReadSide, UNCHANGED mig_ar
  PROVE  /\ \/ ar' = <<>> /\ r' = <<>> /\ mig_ar' = None /\ mmio' = None
            \/ /\ rstate' = "R_DATA" /\ reader'[r_owner'].st = "wait"
               /\ Reading(Token(reader, r_owner))'
         /\ \A m \in Masters :
              reader'[m].st = "wait" <=> rstate' = "R_DATA" /\ m = r_owner'
<1>1. /\ reader \in Channels(RSts) /\ rstate \in {"R_IDLE", "R_DATA"}
      /\ r_owner \in Masters /\ life \in 0 .. Lives - 1
      /\ IsFifo(ar) /\ IsFifo(r) /\ mig_ar \in Places /\ mmio \in Places
  BY AllTypes DEF QueueTypes, MigTypes, ReadTypes, ChainTypes
<1>2. "idle" \in RSts /\ "ask" \in RSts /\ "wait" \in RSts
  BY DEF RSts
<1>3. \A m \in Masters : ~Runs(m) => reader[m] = Idle
  BY DEF Stages, Runs, Masters, AtRest
<1>4. Idle.st = "idle"
  BY <1>2, IdleType
<1>5. \A m \in Masters : reader[m].st = "wait" <=> rstate = "R_DATA" /\ m = r_owner
  BY DEF Reads
<1>6. \A m \in Masters : Token(reader, m) \in Tokens
  BY <1>1, TokenType
<1>7. CASE UNCHANGED <<rstate, r_owner, mmio, ar, r>>
           /\ \A m \in Masters : \/ reader'[m] = reader[m]
                                 \/ reader[m].st = "idle" /\ reader'[m].st = "ask"
  <2>1. \A m \in Masters : /\ reader'[m].st = "wait" <=> reader[m].st = "wait"
                           /\ reader[m].st = "wait" => reader'[m] = reader[m]
    BY <1>7
  <2>2. reader[r_owner].st = "wait" => Token(reader, r_owner)' = Token(reader, r_owner)
    BY <1>1, <1>7, <2>1 DEF Token
  <2>3. ASSUME rstate = "R_DATA", reader[r_owner].st = "wait",
               Reading(Token(reader, r_owner))
        PROVE  Reading(Token(reader, r_owner))'
    BY <1>7, <2>2, <2>3 DEF Reading, At, Held
  <2>4. QED
    BY <1>1, <1>5, <1>7, <2>1, <2>3 DEF Reads
<1>8. CASE ReadQuiet
  <2>1. \A m \in Masters : reader'[m] = reader[m]
    BY <1>1, <1>2, <1>3, <1>8, Keeps DEF ReadQuiet
  <2>2. QED
    BY <1>7, <1>8, <2>1 DEF ReadQuiet
<1>9. ASSUME NEW m \in Masters, AskRead(m)
      PROVE  UNCHANGED <<rstate, r_owner, mmio, ar, r>>
             /\ \A n \in Masters : \/ reader'[n] = reader[n]
                                   \/ reader[n].st = "idle" /\ reader'[n].st = "ask"
  <2>1. Runs(m) /\ reader[m].st = "idle" /\ reader' = Clocked(Asks(reader, m))
    BY <1>9 DEF AskRead
  <2>2. /\ Asks(reader, m) \in Channels(RSts) /\ Asks(reader, m)[m].st = "ask"
        /\ \A n \in Masters : n # m => Asks(reader, m)[n] = reader[n]
    BY <1>1, <1>2, Asking
  <2>3. \A n \in Masters : reader'[n] = Asks(reader, m)[n]
    BY <1>2, <1>3, <2>1, <2>2, Keeps
  <2>4. QED
    BY <1>9, <2>1, <2>2, <2>3 DEF AskRead
<1>10. ASSUME NEW m \in Masters, NEW st \in RSts, reader[m].st # "idle",
              reader' = Clocked(Goes(reader, m, st))
       PROVE  /\ reader'[m].st = st /\ reader'[m].life = reader[m].life
              /\ \A n \in Masters : n # m => reader'[n] = reader[n]
  <2>1. Runs(m)
    BY <1>3, <1>4, <1>10
  <2>2. /\ Goes(reader, m, st) \in Channels(RSts)
        /\ \A n \in Masters :
             /\ Goes(reader, m, st)[n].st = IF n = m THEN st ELSE reader[n].st
             /\ Goes(reader, m, st)[n].life = reader[n].life
             /\ n # m => Goes(reader, m, st)[n] = reader[n]
    BY <1>1, Going
  <2>3. \A n \in Masters : reader'[n] = Goes(reader, m, st)[n]
    BY <1>2, <1>3, <1>10, <2>1, <2>2, Keeps
  <2>4. QED
    BY <2>2, <2>3
<1>11. ASSUME NEW m \in Masters, NEW slave \in Dests, GrantRead(m, slave)
       PROVE  /\ rstate' = "R_DATA" /\ r_owner' = m
              /\ Reading(Token(reader, r_owner))'
              /\ \A n \in Masters : reader'[n].st = "wait" <=> n = m
  <2>1. /\ rstate = "R_IDLE" /\ reader[m].st = "ask" /\ rstate' = "R_DATA" /\ r_owner' = m
        /\ reader' = Clocked(Goes(reader, m, "wait")) /\ r' = r
    BY <1>11 DEF GrantRead
  <2>2. /\ reader'[m].st = "wait" /\ reader'[m].life = reader[m].life
        /\ \A n \in Masters : n # m => reader'[n] = reader[n]
    BY <1>2, <1>10, <2>1
  <2>3. ar = <<>> /\ r = <<>> /\ mig_ar = None /\ mmio = None
    BY <2>1 DEF Reads
  <2>4. Token(reader, r_owner)' = Token(reader, m)
    BY <2>1, <2>2 DEF Token
  <2>5. \/ ar' = <<Token(reader, m)>> /\ mmio' = None
        \/ ar' = <<>> /\ mmio' = Token(reader, m)
    BY <1>11, <2>3 DEF GrantRead
  <2>6. Reading(Token(reader, r_owner))'
    BY <1>6, <2>1, <2>3, <2>4, <2>5, TokenIsSome, HeldNone DEF Reading, At
  <2>7. QED
    BY <1>5, <2>1, <2>2, <2>6
<1>12. CASE ReadBeat
  <2>1. /\ rstate = "R_DATA" /\ reader[r_owner].st = "wait" /\ rstate' = "R_IDLE"
        /\ reader' = Clocked(Goes(reader, r_owner, "idle"))
        /\ ar' = ar
    BY <1>12 DEF ReadBeat
  <2>2. /\ reader'[r_owner].st = "idle"
        /\ \A n \in Masters : n # r_owner => reader'[n] = reader[n]
    BY <1>1, <1>2, <1>10, <2>1
  <2>3. \/ r # <<>> /\ r' = Tail(r) /\ mmio' = mmio
        \/ mmio # None /\ mmio' = None /\ r' = r
    BY <1>12 DEF ReadBeat, Offers
  <2>4. r # <<>> \/ mmio # None
    BY <2>3
  <2>5. PICK t \in Tokens : Reading(t)
    BY <1>1, <1>6, <2>1, <2>4 DEF Reads
  <2>6. ar = <<>> /\ mig_ar = None
    BY <2>4, <2>5, HeldNone DEF Reading, At
  <2>7. r' = <<>> /\ mmio' = None
    <3>1. Tail(<<t>>) = <<>> /\ <<t>> # <<>>
      OBVIOUS
    <3>2. \/ r = <<t>> /\ Held(mmio) = <<>>
          \/ r = <<>> /\ Held(mmio) = <<t>>
      BY <2>3, <2>5, <3>1, HeldNone, Zenon DEF Reading, At
    <3>3. CASE r = <<t>> /\ Held(mmio) = <<>>
      BY <2>3, <3>1, <3>3, HeldNone, Zenon
    <3>4. CASE r = <<>> /\ Held(mmio) = <<t>>
      BY <2>3, <3>1, <3>4, HeldNone, Zenon
    <3>5. QED
      BY <3>2, <3>3, <3>4
  <2>8. QED
    BY <1>5, <2>1, <2>2, <2>6, <2>7
<1>13. QED
  BY <1>7, <1>8, <1>9, <1>11, <1>12 DEF ReadSide, ReadWork


LEMMA WritesStep ==
  ASSUME TypeOK, Stages, WritesInFlight, masters_ready, WriteSide,
         UNCHANGED <<mig_aw, mig_w>>
  PROVE  /\ \/ aw' = <<>> /\ b' = <<>> /\ mig_aw' = None
            \/ wstate' # "W_IDLE" /\ Commanding(Token(writer, w_owner))'
         /\ \/ w' = <<>> /\ mig_w' = None
            \/ wstate' = "W_RESP" /\ Sending(Token(writer, w_owner))'
         /\ b' # <<>> => wstate' = "W_RESP" /\ w' = <<>> /\ mig_w' = None
         /\ \A m \in Masters :
              writer'[m].st \in {"data", "wait"} <=> wstate' # "W_IDLE" /\ m = w_owner'
<1>1. /\ writer \in Channels(WSts) /\ wstate \in {"W_IDLE", "W_DATA", "W_RESP"}
      /\ w_owner \in Masters /\ life \in 0 .. Lives - 1
      /\ IsFifo(aw) /\ IsFifo(w) /\ IsFifo(b) /\ mig_aw \in Places /\ mig_w \in Places
  BY AllTypes DEF QueueTypes, MigTypes, WriteTypes, ChainTypes
<1>2. "idle" \in WSts /\ "ask" \in WSts /\ "data" \in WSts /\ "wait" \in WSts
  BY DEF WSts
<1>3. \A m \in Masters : ~Runs(m) => writer[m] = Idle
  BY DEF Stages, Runs, Masters, AtRest
<1>4. Idle.st = "idle"
  BY <1>2, IdleType
<1>5. \A m \in Masters :
        writer[m].st \in {"data", "wait"} <=> wstate # "W_IDLE" /\ m = w_owner
  BY DEF WritesInFlight
<1>6. \A m \in Masters : Token(writer, m) \in Tokens
  BY <1>1, TokenType
<1>7. CASE UNCHANGED <<wstate, w_owner, aw, w, b>>
           /\ \A m \in Masters : \/ writer'[m] = writer[m]
                                 \/ writer[m].st = "idle" /\ writer'[m].st = "ask"
  <2>1. \A m \in Masters :
          /\ writer'[m].st \in {"data", "wait"} <=> writer[m].st \in {"data", "wait"}
          /\ writer[m].st \in {"data", "wait"} => writer'[m] = writer[m]
    BY <1>7
  <2>2. wstate # "W_IDLE" => Token(writer, w_owner)' = Token(writer, w_owner)
    BY <1>1, <1>5, <1>7, <2>1 DEF Token
  <2>3. ASSUME wstate # "W_IDLE", Commanding(Token(writer, w_owner))
        PROVE  Commanding(Token(writer, w_owner))'
    BY <1>7, <2>2, <2>3 DEF Commanding, At, Held
  <2>4. ASSUME wstate # "W_IDLE", Sending(Token(writer, w_owner))
        PROVE  Sending(Token(writer, w_owner))'
    BY <1>7, <2>2, <2>4 DEF Sending, At, Held
  <2>5. QED
    BY <1>1, <1>5, <1>7, <2>1, <2>3, <2>4 DEF WritesInFlight
<1>8. CASE WriteQuiet
  <2>1. \A m \in Masters : writer'[m] = writer[m]
    BY <1>1, <1>2, <1>3, <1>8, Keeps DEF WriteQuiet
  <2>2. QED
    BY <1>7, <1>8, <2>1 DEF WriteQuiet
<1>9. ASSUME NEW m \in Masters, AskWrite(m)
      PROVE  UNCHANGED <<wstate, w_owner, aw, w, b>>
             /\ \A n \in Masters : \/ writer'[n] = writer[n]
                                   \/ writer[n].st = "idle" /\ writer'[n].st = "ask"
  <2>1. Runs(m) /\ writer[m].st = "idle" /\ writer' = Clocked(Asks(writer, m))
    BY <1>9 DEF AskWrite
  <2>2. /\ Asks(writer, m) \in Channels(WSts) /\ Asks(writer, m)[m].st = "ask"
        /\ \A n \in Masters : n # m => Asks(writer, m)[n] = writer[n]
    BY <1>1, <1>2, Asking
  <2>3. \A n \in Masters : writer'[n] = Asks(writer, m)[n]
    BY <1>2, <1>3, <2>1, <2>2, Keeps
  <2>4. QED
    BY <1>9, <2>1, <2>2, <2>3 DEF AskWrite
<1>10. ASSUME NEW m \in Masters, NEW st \in WSts, writer[m].st # "idle",
              writer' = Clocked(Goes(writer, m, st))
       PROVE  /\ writer'[m].st = st /\ writer'[m].life = writer[m].life
              /\ \A n \in Masters : n # m => writer'[n] = writer[n]
  <2>1. Runs(m)
    BY <1>3, <1>4, <1>10
  <2>2. /\ Goes(writer, m, st) \in Channels(WSts)
        /\ \A n \in Masters :
             /\ Goes(writer, m, st)[n].st = IF n = m THEN st ELSE writer[n].st
             /\ Goes(writer, m, st)[n].life = writer[n].life
             /\ n # m => Goes(writer, m, st)[n] = writer[n]
    BY <1>1, Going
  <2>3. \A n \in Masters : writer'[n] = Goes(writer, m, st)[n]
    BY <1>2, <1>3, <1>10, <2>1, <2>2, Keeps
  <2>4. QED
    BY <2>2, <2>3
<1>11. ASSUME NEW m \in Masters, GrantWrite(m)
       PROVE  /\ wstate' = "W_DATA" /\ w_owner' = m /\ w' = <<>> /\ b' = <<>>
              /\ mig_w' = None /\ Commanding(Token(writer, w_owner))'
              /\ \A n \in Masters : writer'[n].st \in {"data", "wait"} <=> n = m
  <2>1. /\ wstate = "W_IDLE" /\ writer[m].st = "ask" /\ wstate' = "W_DATA" /\ w_owner' = m
        /\ writer' = Clocked(Goes(writer, m, "data")) /\ w' = w /\ b' = b
        /\ aw' = Append(aw, Token(writer, m))
    BY <1>11 DEF GrantWrite
  <2>2. /\ writer'[m].st = "data" /\ writer'[m].life = writer[m].life
        /\ \A n \in Masters : n # m => writer'[n] = writer[n]
    BY <1>2, <1>10, <2>1
  <2>3. aw = <<>> /\ b = <<>> /\ mig_aw = None /\ w = <<>> /\ mig_w = None
    BY <2>1 DEF WritesInFlight
  <2>4. Token(writer, w_owner)' = Token(writer, m)
    BY <2>1, <2>2 DEF Token
  <2>5. aw' = <<Token(writer, m)>>
    BY <2>1, <2>3
  <2>6. Commanding(Token(writer, w_owner))'
    BY <2>1, <2>3, <2>4, <2>5, HeldNone DEF Commanding, At
  <2>7. QED
    BY <1>5, <2>1, <2>2, <2>3, <2>6
<1>12. CASE WriteBeat
  <2>1. /\ wstate = "W_DATA" /\ writer[w_owner].st = "data" /\ wstate' = "W_RESP"
        /\ writer' = Clocked(Goes(writer, w_owner, "wait"))
        /\ w' = Append(w, Token(writer, w_owner))
        /\ UNCHANGED <<w_owner, aw, b>>
    BY <1>12 DEF WriteBeat
  <2>2. /\ writer'[w_owner].st = "wait" /\ writer'[w_owner].life = writer[w_owner].life
        /\ \A n \in Masters : n # w_owner => writer'[n] = writer[n]
    BY <1>1, <1>2, <1>10, <2>1
  <2>3. w = <<>> /\ mig_w = None /\ b = <<>>
    BY <2>1 DEF WritesInFlight
  <2>4. Token(writer, w_owner)' = Token(writer, w_owner)
    BY <2>1, <2>2 DEF Token
  <2>5. w' = <<Token(writer, w_owner)>>
    BY <2>1, <2>3
  <2>6. Sending(Token(writer, w_owner))'
    BY <2>3, <2>4, <2>5, HeldNone DEF Sending, At
  <2>7. ASSUME Commanding(Token(writer, w_owner))
        PROVE  Commanding(Token(writer, w_owner))'
    BY <2>1, <2>4, <2>7 DEF Commanding, At, Held
  <2>8. \A n \in Masters : writer'[n].st \in {"data", "wait"} <=> n = w_owner
    BY <1>5, <2>1, <2>2
  <2>9. QED
    BY <2>1, <2>3, <2>6, <2>7, <2>8 DEF WritesInFlight
<1>13. CASE WriteResponse
  <2>1. /\ wstate = "W_RESP" /\ writer[w_owner].st = "wait" /\ wstate' = "W_IDLE"
        /\ writer' = Clocked(Goes(writer, w_owner, "idle"))
        /\ b # <<>> /\ b' = Tail(b) /\ UNCHANGED <<w_owner, aw, w>>
    BY <1>13 DEF WriteResponse, Offers
  <2>2. /\ writer'[w_owner].st = "idle"
        /\ \A n \in Masters : n # w_owner => writer'[n] = writer[n]
    BY <1>1, <1>2, <1>10, <2>1
  <2>3. PICK t \in Tokens : Commanding(t)
    BY <1>1, <1>6, <2>1 DEF WritesInFlight
  <2>4. b = <<t>> /\ aw = <<>> /\ mig_aw = None
    BY <2>1, <2>3, HeldNone DEF Commanding, At
  <2>5. b' = <<>>
    <3>1. Tail(<<t>>) = <<>>
      OBVIOUS
    <3>2. QED
      BY <2>1, <2>4, <3>1, Zenon
  <2>6. w = <<>> /\ mig_w = None
    BY <2>1 DEF WritesInFlight
  <2>7. QED
    BY <1>5, <2>1, <2>2, <2>4, <2>5, <2>6
<1>14. QED
  BY <1>7, <1>8, <1>9, <1>11, <1>12, <1>13 DEF WriteSide, WriteWork

(* Before the release nothing happens but that masters come to rest.       *)
LEMMA QuietReads ==
  ASSUME TypeOK, Stages, ~masters_ready, ReadSide, UNCHANGED mig_ar
  PROVE  ReadsEmpty' /\ \A m \in Masters : ~Runs(m) => reader'[m] = Idle
<1>1. reader \in Channels(RSts) /\ life \in 0 .. Lives - 1 /\ r_owner \in Masters
  BY AllTypes DEF ReadTypes, ChainTypes
<1>2. {"idle", "ask", "wait"} \subseteq RSts
  BY DEF RSts
<1>3. ReadsEmpty
  BY DEF Stages
<1>4. PICK ch \in Channels(RSts) : reader' = Clocked(ch)
  <2>1. CASE ReadQuiet
    BY <1>1, <2>1 DEF ReadQuiet
  <2>2. CASE \E m \in Masters : AskRead(m)
    BY <1>1, <1>2, <2>2, Asking DEF AskRead
  <2>3. CASE \E m \in Masters, slave \in Dests : GrantRead(m, slave)
    BY <1>1, <1>2, <2>3, Going DEF GrantRead
  <2>4. CASE ReadBeat
    BY <1>1, <1>2, <2>4, Going DEF ReadBeat
  <2>5. QED
    BY <2>1, <2>2, <2>3, <2>4 DEF ReadSide, ReadWork
<1>5. \A m \in Masters : ~Runs(m) => reader'[m] = Idle
  BY <1>2, <1>4, Clocking
<1>6. ASSUME NEW m \in Masters, NEW slave \in Dests, GrantRead(m, slave)
      PROVE  ReadsEmpty'
  <2>1. reader[m].st = "ask"
    BY <1>6 DEF GrantRead
  <2>2. "ar" \in Fifos
    BY DEF Fifos
  <2>3. ASSUME core_side["ar"] = 2 PROVE FALSE
    <3>1. reader[m] = Idle
      BY <2>2, <2>3 DEF Stages, Begun, Masters, AtRest
    <3>2. QED
      BY <2>1, <3>1 DEF Idle
  <2>4. ar' = ar /\ mmio' = None /\ rstate' = rstate /\ r' = r
    BY <1>3, <1>6, <2>3 DEF GrantRead, Takes, ReadsEmpty
  <2>5. QED
    BY <1>3, <2>4 DEF ReadsEmpty
<1>7. CASE ReadQuiet \/ (\E m \in Masters : AskRead(m)) \/ ReadBeat
  <2>1. ~ReadBeat
    BY <1>3 DEF ReadBeat, ReadsEmpty
  <2>2. rstate' = rstate /\ mmio' = mmio /\ ar' = ar /\ r' = r
    BY <1>7, <2>1, Zenon DEF ReadQuiet, AskRead
  <2>3. QED
    BY <1>3, <1>5, <2>2 DEF ReadsEmpty
<1>8. QED
  BY <1>5, <1>6, <1>7 DEF ReadSide, ReadWork

LEMMA QuietWrites ==
  ASSUME TypeOK, Stages, ~masters_ready, WriteSide, UNCHANGED <<mig_aw, mig_w>>
  PROVE  WritesEmpty' /\ \A m \in Masters : ~Runs(m) => writer'[m] = Idle
<1>1. writer \in Channels(WSts) /\ life \in 0 .. Lives - 1 /\ w_owner \in Masters
  BY AllTypes DEF WriteTypes, ChainTypes
<1>2. {"idle", "ask", "data", "wait"} \subseteq WSts
  BY DEF WSts
<1>3. WritesEmpty
  BY DEF Stages
<1>4. PICK ch \in Channels(WSts) : writer' = Clocked(ch)
  <2>1. CASE WriteQuiet
    BY <1>1, <2>1 DEF WriteQuiet
  <2>2. CASE \E m \in Masters : AskWrite(m)
    BY <1>1, <1>2, <2>2, Asking DEF AskWrite
  <2>3. CASE \E m \in Masters : GrantWrite(m)
    BY <1>1, <1>2, <2>3, Going DEF GrantWrite
  <2>4. CASE WriteBeat \/ WriteResponse
    BY <1>1, <1>2, <2>4, Going DEF WriteBeat, WriteResponse
  <2>5. QED
    BY <2>1, <2>2, <2>3, <2>4 DEF WriteSide, WriteWork
<1>5. \A m \in Masters : ~Runs(m) => writer'[m] = Idle
  BY <1>2, <1>4, Clocking
<1>6. ASSUME NEW m \in Masters, GrantWrite(m) PROVE FALSE
  <2>1. writer[m].st = "ask" /\ core_side["aw"] = 2
    BY <1>6 DEF GrantWrite, Takes
  <2>2. "aw" \in Fifos
    BY DEF Fifos
  <2>3. writer[m] = Idle
    BY <2>1, <2>2 DEF Stages, Begun, Masters, AtRest
  <2>4. QED
    BY <2>1, <2>3 DEF Idle
<1>7. ~WriteBeat /\ ~WriteResponse
  BY <1>3 DEF WriteBeat, WriteResponse, WritesEmpty
<1>8. CASE WriteQuiet \/ (\E m \in Masters : AskWrite(m))
  <2>1. wstate' = wstate /\ aw' = aw /\ w' = w /\ b' = b
    BY <1>8, Zenon DEF WriteQuiet, AskWrite
  <2>2. QED
    BY <1>3, <1>5, <2>1 DEF WritesEmpty
<1>9. QED
  BY <1>5, <1>6, <1>7, <1>8 DEF WriteSide, WriteWork


-----------------------------------------------------------------------------
(* The invariant over the steps of both clocks.                            *)
ReadsForm == \/ ar = <<>> /\ r = <<>> /\ mig_ar = None /\ mmio = None
             \/ /\ rstate = "R_DATA" /\ reader[r_owner].st = "wait"
                /\ Reading(Token(reader, r_owner))
WritesForm ==
  /\ \/ aw = <<>> /\ b = <<>> /\ mig_aw = None
     \/ wstate # "W_IDLE" /\ Commanding(Token(writer, w_owner))
  /\ \/ w = <<>> /\ mig_w = None
     \/ wstate = "W_RESP" /\ Sending(Token(writer, w_owner))
  /\ b # <<>> => wstate = "W_RESP" /\ w = <<>> /\ mig_w = None
ReadsHeld == \A m \in Masters : reader[m].st = "wait" <=> rstate = "R_DATA" /\ m = r_owner
WritesHeld == \A m \in Masters :
  writer[m].st \in {"data", "wait"} <=> wstate # "W_IDLE" /\ m = w_owner

LEMMA Forms ==
  /\ Reads <=> ReadsForm /\ (masters_ready => ReadsHeld)
  /\ WritesInFlight <=> WritesForm /\ (masters_ready => WritesHeld)
  /\ ReadsEmpty => ReadsForm
  /\ WritesEmpty => WritesForm
<1>1. Reads <=> ReadsForm /\ (masters_ready => ReadsHeld)
  BY Zenon DEF Reads, ReadsForm, ReadsHeld
<1>2. WritesInFlight <=> WritesForm /\ (masters_ready => WritesHeld)
  BY Zenon DEF WritesInFlight, WritesForm, WritesHeld
<1>3. QED
  BY <1>1, <1>2, Zenon DEF ReadsEmpty, ReadsForm, WritesEmpty, WritesForm

Flight == Stages /\ Reads /\ WritesInFlight

LEMMA ResetFlight ==
  ASSUME core_release = 0, core_side = Zero, ReadsEmpty, WritesEmpty
  PROVE  Flight
<1>1. ~masters_ready
  BY DEF masters_ready
<1>2. ~Begun /\ ~\E f \in Fifos : core_side[f] = 2
  BY ZeroType DEF Begun
<1>3. QED
  BY <1>1, <1>2, Forms DEF Flight, Stages

(* The controller moves what it holds, and no more than it holds.          *)
LEMMA MemoryForms ==
  ASSUME TypeOK, ReadsForm, WritesForm, Memory, UNCHANGED <<readVars, writeVars>>
  PROVE  ReadsForm' /\ WritesForm'
<1>1. /\ reader \in Channels(RSts) /\ r_owner \in Masters
      /\ writer \in Channels(WSts) /\ w_owner \in Masters
      /\ mig_ar \in Places /\ mig_aw \in Places /\ mig_w \in Places /\ mmio \in Places
  BY AllTypes DEF MigTypes, ReadTypes, WriteTypes
<1>2. PICK t \in Tokens : t = Token(reader, r_owner)
  BY <1>1, TokenType
<1>3. PICK u \in Tokens : u = Token(writer, w_owner)
  BY <1>1, TokenType
<1>4. /\ UNCHANGED <<reader, rstate, r_owner, mmio>>
      /\ UNCHANGED <<writer, wstate, w_owner>>
      /\ Token(reader, r_owner)' = t /\ Token(writer, w_owner)' = u
  BY <1>2, <1>3 DEF readVars, writeVars, Token
<1>5. \A x : /\ Head(<<x>>) = x /\ Tail(<<x>>) = <<>> /\ Append(<<>>, x) = <<x>>
             /\ <<x>> # <<>>
  OBVIOUS
<1>6. \A x, y : <<x>> = <<y>> => x = y
  BY <1>5, Zenon
<1>7. /\ Held(t) = <<t>> /\ Held(u) = <<u>> /\ Held(None) = <<>>
      /\ \A p \in Places : Held(p) = <<>> <=> p = None
      /\ \A p \in Places : p # None => Held(p) = <<p>>
  BY TokenIsSome, HeldNone DEF Places
<1>8. CASE TakeAr
  <2>1. /\ ar # <<>> /\ mig_ar' = Head(ar) /\ ar' = Tail(ar) /\ r' = r
        /\ UNCHANGED <<aw, w, b, mig_aw, mig_w>>
    BY <1>8 DEF TakeAr, Offers
  <2>2. /\ ar = <<t>> /\ r = <<>> /\ mmio = None
        /\ rstate = "R_DATA" /\ reader[r_owner].st = "wait"
    BY <1>1, <1>2, <1>7, <2>1, Zenon DEF ReadsForm, Reading, At
  <2>3. mig_ar' = t /\ ar' = <<>>
    BY <1>5, <2>1, <2>2, Zenon
  <2>4. Reading(Token(reader, r_owner))'
    BY <1>4, <1>7, <2>1, <2>2, <2>3 DEF Reading, At
  <2>5. ReadsForm'
    BY <1>4, <2>2, <2>4 DEF ReadsForm
  <2>6. WritesForm'
    BY <1>3, <1>4, <2>1 DEF WritesForm, Commanding, Sending, At, Held
  <2>7. QED
    BY <2>5, <2>6
<1>9. CASE GiveR
  <2>1. /\ mig_ar # None /\ r' = Append(r, mig_ar) /\ mig_ar' = None /\ ar' = ar
        /\ UNCHANGED <<aw, w, b, mig_aw, mig_w>>
    BY <1>9 DEF GiveR
  <2>2. /\ Held(mig_ar) = <<t>> /\ ar = <<>> /\ r = <<>> /\ mmio = None
        /\ rstate = "R_DATA" /\ reader[r_owner].st = "wait"
    BY <1>1, <1>2, <1>7, <2>1, Zenon DEF ReadsForm, Reading, At
  <2>3. r' = <<t>>
    BY <1>1, <1>5, <1>6, <1>7, <2>1, <2>2, Zenon
  <2>4. Reading(Token(reader, r_owner))'
    BY <1>4, <1>7, <2>1, <2>2, <2>3 DEF Reading, At
  <2>5. ReadsForm'
    BY <1>4, <2>2, <2>4 DEF ReadsForm
  <2>6. WritesForm'
    BY <1>3, <1>4, <2>1 DEF WritesForm, Commanding, Sending, At, Held
  <2>7. QED
    BY <2>5, <2>6
<1>10. CASE TakeAw
  <2>1. /\ aw # <<>> /\ mig_aw' = Head(aw) /\ aw' = Tail(aw) /\ b' = b
        /\ UNCHANGED <<ar, r, w, mig_ar, mig_w>>
    BY <1>10 DEF TakeAw, Offers
  <2>2. aw = <<u>> /\ b = <<>> /\ wstate # "W_IDLE"
    BY <1>1, <1>3, <1>7, <2>1, Zenon DEF WritesForm, Commanding, At
  <2>3. mig_aw' = u /\ aw' = <<>>
    BY <1>5, <2>1, <2>2, Zenon
  <2>4. Commanding(Token(writer, w_owner))'
    BY <1>4, <1>7, <2>1, <2>2, <2>3 DEF Commanding, At
  <2>5. WritesForm'
    BY <1>3, <1>4, <2>1, <2>2, <2>4 DEF WritesForm, Sending, At, Held
  <2>6. ReadsForm'
    BY <1>2, <1>4, <2>1 DEF ReadsForm, Reading, At, Held
  <2>7. QED
    BY <2>5, <2>6
<1>11. CASE TakeW
  <2>1. /\ w # <<>> /\ mig_w' = Head(w) /\ w' = Tail(w) /\ b' = b
        /\ UNCHANGED <<ar, r, aw, mig_ar, mig_aw>>
    BY <1>11 DEF TakeW, Offers
  <2>2. w = <<u>> /\ b = <<>> /\ wstate = "W_RESP"
    BY <1>1, <1>3, <1>7, <2>1, Zenon DEF WritesForm, Sending, At
  <2>3. mig_w' = u /\ w' = <<>>
    BY <1>5, <2>1, <2>2, Zenon
  <2>4. Sending(Token(writer, w_owner))'
    BY <1>4, <1>7, <2>3 DEF Sending, At
  <2>5. WritesForm'
    BY <1>3, <1>4, <2>1, <2>2, <2>4 DEF WritesForm, Commanding, At, Held
  <2>6. ReadsForm'
    BY <1>2, <1>4, <2>1 DEF ReadsForm, Reading, At, Held
  <2>7. QED
    BY <2>5, <2>6
<1>12. CASE GiveB
  <2>1. /\ mig_aw # None /\ mig_w # None /\ b' = Append(b, mig_aw)
        /\ mig_aw' = None /\ mig_w' = None
        /\ UNCHANGED <<ar, r, aw, w, mig_ar>>
    BY <1>12 DEF GiveB
  <2>2. Held(mig_aw) = <<u>> /\ aw = <<>> /\ b = <<>>
    BY <1>1, <1>3, <1>7, <2>1, Zenon DEF WritesForm, Commanding, At
  <2>3. w = <<>> /\ wstate = "W_RESP"
    BY <1>1, <1>3, <1>7, <2>1, <1>5, Zenon DEF WritesForm, Sending, At
  <2>4. b' = <<u>>
    BY <1>1, <1>5, <1>6, <1>7, <2>1, <2>2, Zenon
  <2>5. Commanding(Token(writer, w_owner))'
    BY <1>4, <1>7, <2>1, <2>2, <2>4 DEF Commanding, At
  <2>6. WritesForm'
    BY <1>4, <2>1, <2>3, <2>5 DEF WritesForm
  <2>7. ReadsForm'
    BY <1>2, <1>4, <2>1 DEF ReadsForm, Reading, At, Held
  <2>8. QED
    BY <2>6, <2>7
<1>13. QED
  BY <1>8, <1>9, <1>10, <1>11, <1>12 DEF Memory


LEMMA InitInv == Init => ChainInv
<1> SUFFICES ASSUME Init PROVE ChainInv
  OBVIOUS
<1>1. TypeOK
  BY InitTypes
<1>2. Chain
  BY DEF Init, Chain
<1>3. ReadsEmpty /\ WritesEmpty
  BY DEF Init, ReadsEmpty, WritesEmpty
<1>4. core_release = 0 /\ core_side = Zero
  BY DEF Init
<1>5. QED
  BY <1>1, <1>2, <1>3, <1>4, ResetFlight DEF ChainInv, Flight

LEMMA FlightStep == ChainInv /\ [Next]_vars => Flight'
<1> SUFFICES ASSUME ChainInv, [Next]_vars PROVE Flight'
  OBVIOUS
<1>1. TypeOK /\ Chain /\ Flight /\ ReadsForm /\ WritesForm
  BY Forms DEF ChainInv, Flight
<1>2. core_release' = 0 /\ core_side' = Zero /\ ReadsEmpty' /\ WritesEmpty' => Flight'
  <2>1. (core_release = 0 /\ core_side = Zero /\ ReadsEmpty /\ WritesEmpty => Flight)'
    BY ResetFlight, PTL
  <2>2. QED
    BY <2>1
<1>3. (/\ Reads <=> ReadsForm /\ (masters_ready => ReadsHeld)
       /\ WritesInFlight <=> WritesForm /\ (masters_ready => WritesHeld)
       /\ ReadsEmpty => ReadsForm
       /\ WritesEmpty => WritesForm)'
  BY Forms, PTL
<1>4. core_release \in 0 .. 2 /\ core_side \in [Fifos -> 0 .. 2]
  BY <1>1 DEF TypeOK
<1>5. ASSUME LinkDown, mig_ar' = None, mig_aw' = None, mig_w' = None PROVE Flight'
  <2>1. core_release' = 0 /\ core_side' = Zero
    BY <1>5, Zenon DEF LinkDown
  <2>2. ReadsEmpty' /\ WritesEmpty'
    BY <1>5, Zenon DEF LinkDown, ReadsEmpty, WritesEmpty
  <2>3. QED
    BY <1>2, <2>1, <2>2
(* A step that leaves masters, fabric and releases as they are.            *)
<1>6. ASSUME UNCHANGED <<core_release, core_side, cpu_reset_n>>,
             UNCHANGED <<readVars, writeVars>>, ReadsForm', WritesForm',
             ~masters_ready => ReadsEmpty' /\ WritesEmpty'
      PROVE  Flight'
  <2>1. masters_ready' = masters_ready /\ Begun' = Begun
    BY <1>6 DEF masters_ready, Begun
  <2>2. \A m \in Masters : AtRest(m)' = AtRest(m)
    BY <1>6 DEF AtRest, readVars, writeVars
  <2>3. Stages'
    BY <1>1, <1>6, <2>1, <2>2 DEF Flight, Stages, Masters
  <2>4. ReadsHeld' = ReadsHeld /\ WritesHeld' = WritesHeld
    BY <1>6 DEF ReadsHeld, WritesHeld, readVars, writeVars
  <2>5. (masters_ready' => ReadsHeld') /\ (masters_ready' => WritesHeld')
    BY <1>1, <2>1, <2>4, Forms DEF Flight
  <2>6. QED
    BY <1>3, <1>6, <2>3, <2>5 DEF Flight
<1>7. CASE Press
  BY <1>5, <1>7 DEF Press, MigForgets
<1>8. CASE LoseCalibration
  <2>1. /\ UNCHANGED <<core_release, core_side, cpu_reset_n, ar, r, aw, w, b>>
        /\ UNCHANGED <<readVars, writeVars>>
        /\ mig_ar' = None /\ mig_aw' = None /\ mig_w' = None
    BY <1>8 DEF LoseCalibration, sides, MigForgets
  <2>2. ReadsForm'
    BY <1>1, <2>1 DEF ReadsForm, Reading, At, Held, readVars, Token
  <2>3. WritesForm'
    BY <1>1, <2>1 DEF WritesForm, Commanding, Sending, At, Held, writeVars, Token
  <2>4. ~masters_ready => ReadsEmpty' /\ WritesEmpty'
    BY <1>1, <2>1 DEF Flight, Stages, ReadsEmpty, WritesEmpty, readVars, writeVars
  <2>5. QED
    BY <1>6, <2>1, <2>2, <2>3, <2>4
<1>9. ASSUME UNCHANGED <<core_release, core_side, cpu_reset_n, ar, r, aw, w, b>>,
             UNCHANGED <<migVars, readVars, writeVars>>
      PROVE  Flight'
  <2>1. ReadsForm' /\ WritesForm'
    BY <1>1, <1>9
    DEF ReadsForm, Reading, At, Held, WritesForm, Commanding, Sending, Token, migVars,
        readVars, writeVars
  <2>2. ~masters_ready => ReadsEmpty' /\ WritesEmpty'
    BY <1>1, <1>9
    DEF Flight, Stages, ReadsEmpty, WritesEmpty, migVars, readVars, writeVars
  <2>3. QED
    BY <1>6, <1>9, <2>1, <2>2
<1>10. CASE Unpress \/ Calibrate \/ UNCHANGED vars
  <2>1. /\ UNCHANGED <<core_release, core_side, cpu_reset_n, ar, r, aw, w, b>>
        /\ UNCHANGED <<migVars, readVars, writeVars>>
    BY <1>10 DEF Unpress, Calibrate, vars, sides
  <2>2. QED
    BY <1>9, <2>1
<1>11. CASE MigTick
  <2>1. CASE link_rst_n /\ ~mig_calib_complete
    <3>1. LinkDown /\ UNCHANGED migVars
      BY <1>11, <2>1 DEF MigTick
    <3>2. mig_ar' = None /\ mig_aw' = None /\ mig_w' = None
      BY <1>1, <2>1, <3>1 DEF Chain, migVars
    <3>3. QED
      BY <1>5, <3>1, <3>2
  <2>2. CASE ~(link_rst_n /\ ~mig_calib_complete)
    <3>1. /\ UNCHANGED <<core_release, core_side, cpu_reset_n, readVars, writeVars>>
          /\ Memory \/ UNCHANGED <<ar, r, aw, w, b, migVars>>
      BY <1>11, <2>2 DEF MigTick
    <3>2. CASE UNCHANGED <<ar, r, aw, w, b, migVars>>
      BY <1>9, <3>1, <3>2
    <3>3. CASE Memory
      <4>1. ReadsForm' /\ WritesForm'
        BY <1>1, <3>1, <3>3, MemoryForms
      <4>2. masters_ready
        <5>1. ~(ReadsEmpty /\ WritesEmpty)
          BY <3>3
          DEF Memory, TakeAr, TakeAw, TakeW, GiveR, GiveB, Offers, ReadsEmpty,
              WritesEmpty
        <5>2. QED
          BY <1>1, <5>1 DEF Flight, Stages
      <4>3. QED
        BY <1>6, <3>1, <4>1, <4>2
    <3>4. QED
      BY <3>1, <3>2, <3>3
  <2>3. QED
    BY <2>1, <2>2
<1>12. CASE CoreTick
  <2>1. /\ cpu_reset_n' = masters_ready /\ ReadSide /\ WriteSide
        /\ mig_ar' = mig_ar /\ mig_aw' = mig_aw /\ mig_w' = mig_w
        /\ ~link_rst_n => UNCHANGED <<core_release, core_side>>
    BY <1>12 DEF CoreTick, migVars
  <2>2. /\ core_release' = core_release \/ core_release' = Shift(core_release)
        /\ \A f \in Fifos : core_side'[f] = core_side[f] \/ core_side'[f] = Shift(core_side[f])
    <3>1. CASE UNCHANGED <<core_release, core_side>>
      BY <3>1
    <3>2. CASE \E late \in Late : Released(late)
      BY <3>2 DEF Released
    <3>3. QED
      BY <1>12, <3>1, <3>2 DEF CoreTick
  <2>3. CASE masters_ready
    <3>1. masters_ready' /\ cpu_reset_n'
      BY <2>1, <2>2, <2>3 DEF masters_ready, Shift
    <3>2. ReadsForm' /\ ReadsHeld'
      BY <1>1, <2>1, <2>3, ReadsStep DEF Flight, ReadsForm, ReadsHeld
    <3>3. WritesForm' /\ WritesHeld'
      BY <1>1, <2>1, <2>3, WritesStep DEF Flight, WritesForm, WritesHeld
    <3>4. Stages'
      BY <3>1 DEF Stages
    <3>5. QED
      BY <1>3, <3>2, <3>3, <3>4 DEF Flight
  <2>4. CASE ~masters_ready
    <3>1. ~cpu_reset_n'
      BY <2>1, <2>4
    <3>2. /\ ReadsEmpty' /\ WritesEmpty'
          /\ \A m \in Masters : ~Runs(m) => reader'[m] = Idle /\ writer'[m] = Idle
      BY <1>1, <2>1, <2>4, QuietReads, QuietWrites DEF Flight
    <3>3. \A m \in Loader : AtRest(m)'
      <4>1. \A m \in Loader : m \in Masters /\ ~Runs(m)
        BY <2>4, ChainAssumption DEF Masters, Runs
      <4>2. QED
        BY <3>2, <4>1 DEF AtRest
    <3>4. Begun => \A m \in Cpu : AtRest(m)'
      <4>1. Begun => \A m \in Cpu : m \in Masters /\ ~Runs(m)
        BY <1>1, <2>4 DEF Flight, Stages, Masters, Runs
      <4>2. QED
        BY <3>2, <4>1 DEF AtRest
    <3>5. masters_ready' \/ (\E f \in Fifos : core_side'[f] = 2) => Begun
      <4>1. Shift(0) # 2
        BY DEF Shift
      <4>2. masters_ready' => core_release # 0
        BY <2>2, <4>1 DEF masters_ready
      <4>3. ASSUME NEW f \in Fifos, core_side'[f] = 2 PROVE core_side[f] # 0
        BY <2>2, <4>1, <4>3
      <4>4. QED
        BY <4>2, <4>3 DEF Begun
    <3>6. Stages'
      BY <3>1, <3>2, <3>3, <3>4, <3>5 DEF Stages
    <3>7. masters_ready' => ReadsHeld' /\ WritesHeld'
      <4>1. SUFFICES ASSUME masters_ready' PROVE ReadsHeld' /\ WritesHeld'
        OBVIOUS
      <4>2. \A m \in Masters : AtRest(m)'
        BY <3>3, <3>4, <3>5, <4>1 DEF Masters
      <4>3. \A m \in Masters : reader'[m].st = "idle" /\ writer'[m].st = "idle"
        BY <4>2 DEF AtRest, Idle
      <4>4. QED
        BY <3>2, <4>3 DEF ReadsHeld, WritesHeld, ReadsEmpty, WritesEmpty
    <3>8. QED
      BY <1>3, <3>2, <3>6, <3>7 DEF Flight
  <2>5. QED
    BY <2>3, <2>4
<1>13. QED
  BY <1>7, <1>8, <1>10, <1>11, <1>12 DEF Next

(* The inductive invariant: the stages of a release keep old requests and  *)
(* new ones apart, and so each request in flight is known.                 *)
THEOREM ChainInvariant == Spec => []ChainInv
<1>1. Init => ChainInv
  BY InitInv
<1>2. ChainInv /\ [Next]_vars => ChainInv'
  BY StepTypes, ChainStep, FlightStep DEF ChainInv, Flight
<1>3. QED
  BY <1>1, <1>2, PTL DEF Spec

LEMMA OnePlace ==
  ASSUME NEW t
  PROVE  /\ <<t>> \o <<>> \o <<>> \o <<>> = <<t>>
         /\ <<>> \o <<t>> \o <<>> \o <<>> = <<t>>
         /\ <<>> \o <<>> \o <<t>> \o <<>> = <<t>>
         /\ <<>> \o <<>> \o <<>> \o <<t>> = <<t>>
         /\ <<t>> \o <<>> \o <<>> = <<t>> /\ <<>> \o <<t>> \o <<>> = <<t>>
         /\ <<>> \o <<>> \o <<t>> = <<t>>
         /\ <<t>> \o <<>> = <<t>> /\ <<>> \o <<t>> = <<t>>
OBVIOUS

LEMMA NoPlace == <<>> \o <<>> \o <<>> \o <<>> = <<>> /\ <<>> \o <<>> \o <<>> = <<>>
                 /\ <<>> \o <<>> = <<>>
OBVIOUS

(* axi_subsystem.sv:34-46, axi_cdc.sv:60-73, checkpoint9_top.sv:45-51: an  *)
(* answer is to the request that waits for it, after any losses of memory. *)
THEOREM AnswersAreOwn == Spec => []AnsweredOnce
<1>1. ChainInv => OneRead
  <2> SUFFICES ASSUME ChainInv PROVE OneRead
    OBVIOUS
  <2>1. CASE ar = <<>> /\ r = <<>> /\ mig_ar = None /\ mmio = None
    BY <2>1, HeldNone, NoPlace, Zenon DEF OneRead
  <2>2. CASE /\ rstate = "R_DATA" /\ reader[r_owner].st = "wait"
             /\ Reading(Token(reader, r_owner))
    <3>1. ar \o Held(mig_ar) \o r \o Held(mmio) = <<Token(reader, r_owner)>>
      BY <2>2, OnePlace, Zenon DEF Reading, At
    <3>2. QED
      BY <2>2, <3>1, Zenon DEF OneRead
  <2>3. QED
    BY <2>1, <2>2 DEF ChainInv, Reads
<1>2. ChainInv => OneWrite
  <2> SUFFICES ASSUME ChainInv PROVE OneWrite
    OBVIOUS
  <2>1. \/ aw \o Held(mig_aw) \o b = <<>>
        \/ wstate # "W_IDLE" /\ aw \o Held(mig_aw) \o b = <<Token(writer, w_owner)>>
    <3>1. CASE aw = <<>> /\ b = <<>> /\ mig_aw = None
      BY <3>1, HeldNone, NoPlace, Zenon
    <3>2. CASE wstate # "W_IDLE" /\ Commanding(Token(writer, w_owner))
      BY <3>2, OnePlace, Zenon DEF Commanding, At
    <3>3. QED
      BY <3>1, <3>2 DEF ChainInv, WritesInFlight
  <2>2. \/ w \o Held(mig_w) = <<>>
        \/ wstate = "W_RESP" /\ w \o Held(mig_w) = <<Token(writer, w_owner)>>
    <3>1. CASE w = <<>> /\ mig_w = None
      BY <3>1, HeldNone, NoPlace, Zenon
    <3>2. CASE wstate = "W_RESP" /\ Sending(Token(writer, w_owner))
      BY <3>2, OnePlace, Zenon DEF Sending, At
    <3>3. QED
      BY <3>1, <3>2 DEF ChainInv, WritesInFlight
  <2>3. QED
    BY <2>1, <2>2, Zenon DEF OneWrite
<1>3. ChainInv => AnsweredOnce
  BY <1>1, <1>2 DEF ChainInv, AnsweredOnce
<1>4. QED
  BY <1>3, ChainInvariant, PTL

(* checkpoint9_top.sv:45-51: no master waits for what the fabric forgot.   *)
THEOREM NobodyForgotten == Spec => []NoOrphans
<1>1. ChainInv => NoOrphans
  BY DEF ChainInv, Reads, WritesInFlight, NoOrphans
<1>2. QED
  BY <1>1, ChainInvariant, PTL
===============================================================================
