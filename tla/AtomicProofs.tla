----------------------------- MODULE AtomicProofs -----------------------------
(***************************************************************************)
(* Atomics are undisturbed for every memory, every set of words the core   *)
(* uses, either or both of the other writers and every burst length.       *)
(***************************************************************************)
EXTENDS Atomic, TLAPS

(* One burst is in flight, its owner's; the snoop register follows it,     *)
(* also when it is refused; the beats still in flight are earlier ones.    *)
BusInv ==
  /\ \A m \in Masters : port[m].beat + port[m].left <= NBeats - 1
  /\ \A m \in Masters : port[m].st = "accepted" <=> active /\ m = w_owner
  /\ ~active => inflight = {}
  /\ wstate = "W_DATA" => ~w_error
  /\ wstate = "W_ERROR" => w_error
  /\ wstate \in {"W_DATA", "W_ERROR"} /\ w_owner \in Ext =>
       /\ external_write_addr[w_owner] = port[w_owner].beat
       /\ \A x \in inflight : x[1][1] < port[w_owner].beat

(* Where the instruction is and what the data port does for it.            *)
CoreInv ==
  /\ stage = "none" => op.kind = "none" /\ dstate = "D_IDLE"
  /\ stage = "mem" => op.kind \in {"LR", "SC", "AMO"} /\ dstate # "D_WRITE" /\ ~written
  /\ stage = "wb" => op.kind # "none" /\ dstate # "D_READ"
  /\ store => stage = "wb" /\ op.kind \in {"SC", "AMO", "SW"}
  /\ dstate = "D_READ" => op.kind \in {"LR", "AMO"}
  /\ dstate = "D_WRITE" => store
  /\ d_rsp # "none" => dstate # "D_IDLE"
  /\ port[Cpu].st # "idle" =>
       /\ dstate = "D_WRITE" /\ d_rsp = "none"
       /\ port[Cpu].beat = op.word[1] /\ port[Cpu].left = 0
  /\ active /\ w_owner = Cpu => \A x \in inflight : x = <<op.word, op.value>>

(* Once an atomic has passed the drain, the only write that can be active  *)
(* is its own, and none while it reads.                                    *)
Drained ==
  /\ stage = "wb" /\ op.kind \in {"LR", "SC", "AMO"} => ~active \/ w_owner = Cpu
  /\ ReadOnce

(* The link is on its way to another word, or the core's own store has     *)
(* broken it and is about to retire.                                       *)
Moving == \/ op.kind = "LR" /\ stage = "mem" /\ d_rsp # "none"
          \/ op.kind \in {"LR", "trap"} /\ stage = "wb"
          \/ store /\ written /\ op.word = reservation_addr
LinkInv ==
  /\ reservation_valid =>
       /\ link = reservation_addr \/ Moving
       /\ w_owner \in Ext => \A x \in inflight : x[1] # reservation_addr
  /\ op.kind = "LR" /\ (stage = "wb" \/ d_rsp # "none") => link = op.word

IInv == TypeOK /\ BusInv /\ CoreInv /\ Drained /\ LinkInv /\ AmoUndisturbed
        /\ ScUndisturbed

LEMMA CpuMaster == Cpu \in Masters /\ Cpu \notin Ext /\ Masters = {Cpu} \cup Ext
BY AtomicAssumption DEF Cpu, Masters, Loader, Dma

LEMMA WordPair ==
  ASSUME NEW w \in CpuWords
  PROVE  /\ w = <<w[1], w[2]>> /\ w \in Words
         /\ w[1] \in 0 .. NBeats - 1 /\ w[2] \in Lanes
BY AtomicAssumption DEF Words

LEMMA Chosen == /\ Some(CpuWords) \in CpuWords /\ Some(Values) \in Values
                /\ Bubble \in [kind : Kinds, word : CpuWords, value : Values]
                /\ Bubble.kind = "none"
<1>1. Some(CpuWords) \in CpuWords /\ Some(Values) \in Values
  BY AtomicAssumption DEF Some
<1>2. QED
  BY <1>1 DEF Bubble, Kinds

LEMMA IssueAtomicInv == ASSUME IInv, IssueAtomic PROVE IInv'
<1>1. TypeOK'
  <2>1. op' \in [kind : Kinds, word : CpuWords, value : Values]
    BY Chosen DEF IInv, TypeOK, Kinds, IssueAtomic
  <2> QED
    BY <2>1 DEF IInv, TypeOK, dataVars, resVars, busVars, IssueAtomic
<1>2. BusInv'
  BY DEF IInv, active, busVars, BusInv, IssueAtomic
<1>3. CoreInv'
  BY DEF IInv, dataVars, busVars, TypeOK, BusInv, CoreInv, IssueAtomic
<1>4. Drained'
  BY DEF IInv, dataVars, CoreInv, Drained, ReadOnce, IssueAtomic
<1>5. LinkInv'
  BY DEF IInv, dataVars, resVars, busVars, CoreInv, LinkInv, Moving,
     IssueAtomic
<1>6. AmoUndisturbed'
  BY DEF IInv, dataVars, CoreInv, AmoUndisturbed, IssueAtomic
<1>7. ScUndisturbed'
  BY DEF ScUndisturbed, IssueAtomic
<1> QED
  BY <1>1, <1>2, <1>3, <1>4, <1>5, <1>6, <1>7 DEF IInv

LEMMA IssueStoreInv == ASSUME IInv, IssueStore PROVE IInv'
<1>1. TypeOK'
  BY DEF IInv, TypeOK, Kinds, dataVars, resVars, busVars, IssueStore
<1>2. BusInv'
  BY DEF IInv, active, busVars, BusInv, IssueStore
<1>3. CoreInv'
  BY DEF IInv, dataVars, busVars, TypeOK, BusInv, CoreInv, IssueStore
<1>4. Drained'
  BY DEF IInv, dataVars, CoreInv, Drained, ReadOnce, IssueStore
<1>5. LinkInv'
  BY DEF IInv, resVars, busVars, CoreInv, LinkInv, Moving, IssueStore
<1>6. AmoUndisturbed'
  BY DEF AmoUndisturbed, IssueStore
<1>7. ScUndisturbed'
  BY DEF ScUndisturbed, IssueStore
<1> QED
  BY <1>1, <1>2, <1>3, <1>4, <1>5, <1>6, <1>7 DEF IInv

LEMMA TrapInv == ASSUME IInv, Trap PROVE IInv'
<1>1. TypeOK'
  BY DEF IInv, TypeOK, coreVars, dataVars, busVars, memVars, Trap
<1>2. BusInv'
  BY DEF IInv, active, busVars, memVars, BusInv, Trap
<1>3. CoreInv'
  BY DEF IInv, active, coreVars, dataVars, busVars, memVars, CoreInv, Trap
<1>4. Drained'
  BY DEF IInv, coreVars, dataVars, CoreInv, Drained, ReadOnce, Trap
<1>5. LinkInv'
  BY DEF IInv, coreVars, CoreInv, LinkInv, Trap
<1>6. AmoUndisturbed'
  BY DEF coreVars, AmoUndisturbed, Trap
<1>7. ScUndisturbed'
  BY DEF coreVars, ScUndisturbed, Trap
<1> QED
  BY <1>1, <1>2, <1>3, <1>4, <1>5, <1>6, <1>7 DEF IInv

LEMMA ReadRequestInv == ASSUME IInv, ReadRequest PROVE IInv'
<1>1. TypeOK'
  BY DEF IInv, coreVars, resVars, busVars, memVars, TypeOK, ReadRequest
<1>2. BusInv'
  BY DEF IInv, active, busVars, memVars, BusInv, ReadRequest
<1>3. CoreInv'
  BY DEF IInv, active, coreVars, busVars, memVars, CoreInv, ReadRequest
<1>4. Drained'
  BY DEF active, atomic_lock, busVars, Drained, ReadOnce, ReadRequest,
     MayRead, allow_atomic_read
<1>5. LinkInv'
  BY DEF IInv, coreVars, resVars, busVars, memVars, LinkInv, Moving,
     ReadRequest
<1>6. AmoUndisturbed'
  BY DEF IInv, coreVars, CoreInv, AmoUndisturbed, ReadRequest
<1>7. ScUndisturbed'
  BY DEF coreVars, ScUndisturbed, ReadRequest
<1> QED
  BY <1>1, <1>2, <1>3, <1>4, <1>5, <1>6, <1>7 DEF IInv

LEMMA ReadAnswerInv == ASSUME IInv, ReadAnswer PROVE IInv'
<1>1. TypeOK'
  BY WordPair DEF IInv, coreVars, resVars, busVars, TypeOK, ReadAnswer
<1>2. BusInv'
  BY DEF IInv, active, busVars, BusInv, ReadAnswer
<1>3. CoreInv'
  BY DEF IInv, active, coreVars, busVars, CoreInv, ReadAnswer
<1>4. Drained'
  BY DEF IInv, active, busVars, Drained, ReadOnce, ReadAnswer
<1>5. LinkInv'
  BY DEF IInv, coreVars, resVars, TypeOK, BusInv, CoreInv, Drained, ReadOnce,
     LinkInv, Moving, ReadAnswer
<1>6. AmoUndisturbed'
  BY DEF IInv, coreVars, AmoUndisturbed, ReadAnswer
<1>7. ScUndisturbed'
  BY DEF IInv, coreVars, ScUndisturbed, ReadAnswer
<1> QED
  BY <1>1, <1>2, <1>3, <1>4, <1>5, <1>6, <1>7 DEF IInv

LEMMA ReadTakenInv == ASSUME IInv, ReadTaken PROVE IInv'
<1>1. TypeOK'
  <2>1. op' \in [kind : Kinds, word : CpuWords, value : Values] /\ store' \in BOOLEAN
        /\ stage' \in {"none", "mem", "wb"}
    <3>1. CASE active /\ UNCHANGED coreVars
      BY <3>1 DEF IInv, TypeOK, coreVars
    <3>2. CASE ~active /\ d_rsp = "error"
      BY <3>2 DEF IInv, TypeOK, Kinds, ReadTaken
    <3>3. CASE ~active /\ d_rsp = "okay"
      <4>1. Amo[d_data] \in Values
        BY AtomicAssumption DEF IInv, TypeOK
      <4> QED
        BY <3>3, <4>1 DEF IInv, TypeOK, ReadTaken
    <3> QED
      BY <3>1, <3>2, <3>3 DEF ReadTaken
  <2>2. d_data' \in Values
    BY Chosen DEF ReadTaken
  <2> QED
    BY <2>1, <2>2 DEF IInv, TypeOK, resVars, busVars, memVars, ReadTaken
<1>2. BusInv'
  BY DEF IInv, active, busVars, memVars, BusInv, ReadTaken
<1>3. CoreInv'
  BY DEF IInv, coreVars, busVars, memVars, TypeOK, BusInv, CoreInv, ReadTaken
<1>4. Drained'
  BY DEF IInv, active, busVars, Drained, ReadOnce, ReadTaken
<1>5. LinkInv'
  BY DEF IInv, resVars, memVars, TypeOK, BusInv, CoreInv, Drained, ReadOnce,
     LinkInv, Moving, ReadTaken
<1>6. AmoUndisturbed'
  BY DEF IInv, memVars, TypeOK, CoreInv, Drained, ReadOnce, AmoUndisturbed,
     ReadTaken
<1>7. ScUndisturbed'
  <2>1. op.kind \in {"LR", "AMO"} /\ op'.kind # "SC"
    BY DEF IInv, TypeOK, CoreInv, coreVars, ReadTaken
  <2> QED
    BY <2>1 DEF ScUndisturbed
<1> QED
  BY <1>1, <1>2, <1>3, <1>4, <1>5, <1>6, <1>7 DEF IInv

LEMMA StoreConditionalInv == ASSUME IInv, StoreConditional PROVE IInv'
<1>1. TypeOK'
  BY DEF IInv, dataVars, resVars, busVars, memVars, TypeOK, StoreConditional
<1>2. BusInv'
  BY DEF IInv, active, busVars, memVars, BusInv, StoreConditional
<1>3. CoreInv'
  BY DEF IInv, active, dataVars, busVars, memVars, CoreInv, StoreConditional
<1>4. Drained'
  BY DEF active, busVars, Drained, ReadOnce, StoreConditional,
     allow_atomic_read
<1>5. LinkInv'
  BY DEF IInv, resVars, busVars, memVars, CoreInv, LinkInv, Moving,
     StoreConditional
<1>6. AmoUndisturbed'
  BY DEF AmoUndisturbed, StoreConditional
<1>7. ScUndisturbed'
  BY DEF IInv, memVars, TypeOK, LinkInv, Moving, ScUndisturbed,
     StoreConditional
<1> QED
  BY <1>1, <1>2, <1>3, <1>4, <1>5, <1>6, <1>7 DEF IInv

LEMMA WriteRequestInv == ASSUME IInv, WriteRequest PROVE IInv'
<1>1. TypeOK'
  BY CpuMaster, AtomicAssumption, WordPair DEF IInv, coreVars, resVars,
     memVars, TypeOK, WriteRequest
<1>2. BusInv'
  BY WordPair DEF IInv, active, memVars, TypeOK, BusInv, CoreInv, WriteRequest
<1>3. CoreInv'
  BY DEF IInv, active, coreVars, TypeOK, BusInv, CoreInv, WriteRequest
<1>4. Drained'
  BY DEF IInv, active, coreVars, Drained, ReadOnce, WriteRequest
<1>5. LinkInv'
  BY DEF IInv, coreVars, resVars, memVars, LinkInv, Moving, WriteRequest
<1>6. AmoUndisturbed'
  BY DEF IInv, coreVars, memVars, AmoUndisturbed, WriteRequest
<1>7. ScUndisturbed'
  BY DEF IInv, coreVars, memVars, ScUndisturbed, WriteRequest
<1> QED
  BY <1>1, <1>2, <1>3, <1>4, <1>5, <1>6, <1>7 DEF IInv

LEMMA CommitInv == ASSUME IInv, Commit PROVE IInv'
<1>1. TypeOK'
  <2>1. op' \in [kind : Kinds, word : CpuWords, value : Values]
    BY Chosen DEF Commit
  <2>2. reservation_valid' \in BOOLEAN /\ reservation_addr' \in CpuWords
    BY DEF IInv, TypeOK, Commit
  <2> QED
    BY <2>1, <2>2 DEF IInv, TypeOK, busVars, memVars, Commit
<1>2. BusInv'
  BY DEF IInv, active, busVars, memVars, BusInv, Commit
<1>3. CoreInv'
  BY DEF IInv, busVars, memVars, TypeOK, BusInv, CoreInv, Bubble, Commit
<1>4. Drained'
  BY DEF Drained, ReadOnce, Commit
<1>5. LinkInv'
  <2>1. /\ stage = "wb" /\ link' = link /\ inflight' = inflight /\ w_owner' = w_owner
        /\ op'.kind = "none" /\ d_rsp' = "none"
    BY Chosen DEF Commit, busVars, memVars
  <2>2. CASE reservation_valid' = TRUE /\ reservation_addr' = op.word /\ op.kind = "LR"
    <3>1. w_owner \in Ext => inflight = {}
      BY <2>1, <2>2, CpuMaster DEF IInv, Drained, BusInv
    <3>2. link = op.word
      BY <2>1, <2>2 DEF IInv, LinkInv
    <3> QED
      BY <2>1, <2>2, <3>1, <3>2 DEF LinkInv
  <2>3. CASE /\ reservation_addr' = reservation_addr
             /\ reservation_valid' =>
                  /\ reservation_valid /\ op.kind \notin {"LR", "trap"}
                  /\ ~(store /\ op.word = reservation_addr)
    BY <2>1, <2>3 DEF IInv, LinkInv, Moving
  <2> QED
    BY <2>2, <2>3 DEF IInv, TypeOK, Commit
<1>6. AmoUndisturbed'
  BY DEF AmoUndisturbed, Commit
<1>7. ScUndisturbed'
  BY DEF ScUndisturbed, Commit
<1> QED
  BY <1>1, <1>2, <1>3, <1>4, <1>5, <1>6, <1>7 DEF IInv

LEMMA AskWriteInv == ASSUME NEW m \in Ext, IInv, AskWrite(m) PROVE IInv'
<1>1. TypeOK'
  BY CpuMaster, AtomicAssumption DEF IInv, coreVars, dataVars, resVars,
     memVars, TypeOK, AskWrite
<1>2. BusInv'
  BY DEF IInv, active, memVars, TypeOK, BusInv, AskWrite
<1>3. CoreInv'
  BY CpuMaster DEF IInv, active, coreVars, dataVars, memVars, CoreInv, AskWrite
<1>4. Drained'
  BY DEF IInv, active, coreVars, dataVars, Drained, ReadOnce, AskWrite
<1>5. LinkInv'
  BY DEF IInv, coreVars, dataVars, resVars, memVars, LinkInv, Moving, AskWrite
<1>6. AmoUndisturbed'
  BY DEF IInv, coreVars, dataVars, memVars, AmoUndisturbed, AskWrite
<1>7. ScUndisturbed'
  BY DEF IInv, coreVars, memVars, ScUndisturbed, AskWrite
<1> QED
  BY <1>1, <1>2, <1>3, <1>4, <1>5, <1>6, <1>7 DEF IInv

LEMMA GrantWriteInv == ASSUME NEW m \in Masters, IInv, GrantWrite(m) PROVE IInv'
<1>1. TypeOK'
  <2>1. /\ port[m].beat \in 0 .. NBeats
        /\ port' \in [Masters -> [st : {"idle", "asking", "accepted"},
                                  beat : 0 .. NBeats - 1, left : 0 .. NBeats - 1]]
    BY AtomicAssumption DEF IInv, TypeOK, GrantWrite
  <2>2. external_write_addr' \in [Ext -> 0 .. NBeats]
    BY <2>1 DEF IInv, TypeOK, GrantWrite, Latched
  <2> QED
    BY <2>1, <2>2
    DEF IInv, TypeOK, coreVars, dataVars, resVars, memVars, GrantWrite
<1>2. BusInv'
  BY DEF IInv, active, memVars, TypeOK, BusInv, GrantWrite, Latched
<1>3. CoreInv'
  BY DEF IInv, active, coreVars, dataVars, memVars, BusInv, CoreInv, GrantWrite
<1>4. Drained'
  BY CpuMaster DEF IInv, atomic_lock, coreVars, dataVars, CoreInv, Drained,
     ReadOnce, GrantWrite, Masked
<1>5. LinkInv'
  BY DEF IInv, active, coreVars, dataVars, resVars, memVars, BusInv, LinkInv,
     Moving, GrantWrite
<1>6. AmoUndisturbed'
  BY DEF IInv, coreVars, dataVars, memVars, AmoUndisturbed, GrantWrite
<1>7. ScUndisturbed'
  BY DEF IInv, coreVars, memVars, ScUndisturbed, GrantWrite
<1> QED
  BY <1>1, <1>2, <1>3, <1>4, <1>5, <1>6, <1>7 DEF IInv

LEMMA WriteBeatInv == ASSUME IInv, WriteBeat PROVE IInv'
<1>1. TypeOK'
  <2>1. inflight' \in SUBSET (CpuWords \X Values)
    <3>1. PICK lanes \in SUBSET Lanes, v \in Values :
            inflight' \subseteq inflight \cup Strobed(w_owner, lanes, v)
      BY DEF WriteBeat
    <3>2. Strobed(w_owner, lanes, v) \subseteq CpuWords \X Values
      BY DEF Strobed
    <3> QED
      BY <3>1, <3>2 DEF IInv, TypeOK
  <2> QED
    BY <2>1, AtomicAssumption DEF IInv, coreVars, dataVars, TypeOK, BusInv,
       WriteBeat, NextAddr
<1>2. BusInv'
  <2>1. /\ w_owner \in Masters /\ w_owner' = w_owner /\ active /\ active'
        /\ port[w_owner].st = "accepted"
        /\ port[w_owner].beat \in Nat /\ port[w_owner].left \in Nat
    BY AtomicAssumption DEF IInv, TypeOK, BusInv, active, WriteBeat
  <2>2. CASE port[w_owner].left = 0
    <3>1. port' = port /\ wstate' = "W_RESP"
      BY <2>2 DEF WriteBeat
    <3> QED
      BY <2>1, <3>1 DEF IInv, BusInv
  <2>3. CASE port[w_owner].left # 0
    <3>1. /\ port' = [port EXCEPT ![w_owner] =
                       [st |-> "accepted", beat |-> @.beat + 1, left |-> @.left - 1]]
          /\ wstate \in {"W_DATA", "W_ERROR"} /\ wstate' = wstate /\ w_error' = w_error
      BY <2>3 DEF WriteBeat
    <3>2. /\ port'[w_owner].st = "accepted"
          /\ port'[w_owner].beat = port[w_owner].beat + 1
          /\ port'[w_owner].left = port[w_owner].left - 1
          /\ \A m \in Masters \ {w_owner} : port'[m] = port[m]
      BY <2>1, <3>1 DEF IInv, TypeOK
    <3>3. \A m \in Masters : port'[m].beat + port'[m].left <= NBeats - 1
      BY <2>1, <3>2, AtomicAssumption DEF IInv, BusInv
    <3>4. \A m \in Masters : port'[m].st = "accepted" <=> active' /\ m = w_owner'
      BY <2>1, <3>2 DEF IInv, BusInv
    <3>5. ASSUME w_owner \in Ext
          PROVE  /\ external_write_addr'[w_owner] = port'[w_owner].beat
                 /\ \A x \in inflight' : x[1][1] < port'[w_owner].beat
      <4>1. external_write_addr'[w_owner] = external_write_addr[w_owner] + 1
        BY <3>5 DEF WriteBeat, NextAddr
      <4>2. PICK lanes \in SUBSET Lanes, v \in Values :
              inflight' \subseteq inflight \cup Strobed(w_owner, lanes, v)
        BY DEF WriteBeat
      <4>3. \A x \in Strobed(w_owner, lanes, v) : x[1][1] = port[w_owner].beat
        BY DEF Strobed
      <4>4. \A x \in inflight : x[1][1] < port[w_owner].beat
        BY <3>1, <3>5 DEF IInv, BusInv
      <4>5. \A x \in inflight : x[1][1] \in Nat
        <5>1. \A x \in inflight : x[1] \in CpuWords
          BY DEF IInv, TypeOK
        <5> QED
          BY <5>1, WordPair, AtomicAssumption
      <4> QED
        BY <2>1, <3>1, <3>2, <3>5, <4>1, <4>2, <4>3, <4>4, <4>5 DEF IInv, BusInv
    <3>6. /\ wstate' = "W_DATA" => ~w_error'
          /\ wstate' = "W_ERROR" => w_error'
      BY <3>1 DEF IInv, BusInv
    <3> QED
      BY <2>1, <3>3, <3>4, <3>5, <3>6 DEF BusInv
  <2> QED
    BY <2>2, <2>3
<1>3. CoreInv'
  <2>1. w_owner = Cpu =>
          /\ port[Cpu].beat = op.word[1] /\ port[Cpu].left = 0 /\ port[Cpu].st = "accepted"
    BY CpuMaster DEF IInv, BusInv, CoreInv, active, WriteBeat
  <2>2. port'[Cpu] = port[Cpu]
    BY <2>1, CpuMaster DEF IInv, TypeOK, WriteBeat
  <2>3. ASSUME w_owner = Cpu, NEW x \in inflight' PROVE x = <<op.word, op.value>>
    <3>1. op.word = <<op.word[1], op.word[2]>>
      BY WordPair DEF IInv, TypeOK
    <3>2. inflight' \subseteq inflight \cup
              {<<w, op.value>> : w \in ({op.word[1]} \X {op.word[2]}) \cap CpuWords}
      BY <2>1, <2>3 DEF WriteBeat, Strobed
    <3>3. \A y \in inflight : y = <<op.word, op.value>>
      BY <2>3 DEF IInv, CoreInv, active, WriteBeat
    <3> QED
      BY <2>3, <3>1, <3>2, <3>3
  <2>4. w_owner' = w_owner
    BY DEF WriteBeat
  <2> QED
    BY <2>2, <2>3, <2>4 DEF IInv, CoreInv, active, coreVars, dataVars, WriteBeat
<1>4. Drained'
  BY DEF IInv, active, coreVars, dataVars, Drained, ReadOnce, WriteBeat
<1>5. LinkInv'
  <2>1. PICK lanes \in SUBSET Lanes, v \in Values :
          /\ inflight' \subseteq inflight \cup Strobed(w_owner, lanes, v)
          /\ reservation_valid' = (reservation_valid /\ ~external_store(lanes))
    BY DEF WriteBeat
  <2>2. /\ reservation_valid' => link' = reservation_addr' \/ Moving'
        /\ op'.kind = "LR" /\ (stage' = "wb" \/ d_rsp' # "none") => link' = op'.word
    BY <2>1 DEF IInv, LinkInv, Moving, coreVars, dataVars, WriteBeat
  <2>3. ASSUME reservation_valid', w_owner' \in Ext, NEW x \in inflight'
        PROVE  x[1] # reservation_addr'
    <3>1. /\ reservation_valid /\ ~external_store(lanes)
          /\ w_owner \in Ext /\ wstate \in {"W_DATA", "W_ERROR"}
          /\ reservation_addr' = reservation_addr
      BY <2>1, <2>3 DEF WriteBeat
    <3>2. CASE x \in inflight
      BY <3>1, <3>2 DEF IInv, LinkInv
    <3>3. CASE x \in Strobed(w_owner, lanes, v)
      <4>1. PICK l \in lanes : x = <<<<port[w_owner].beat, l>>, v>>
        BY <3>3 DEF Strobed
      <4>2. external_write_addr[w_owner] = port[w_owner].beat
        BY <3>1 DEF IInv, BusInv
      <4>3. x[1] = reservation_addr =>
              reservation_addr[1] = port[w_owner].beat /\ reservation_addr[2] \in lanes
        BY <4>1
      <4> QED
        BY <3>1, <4>2, <4>3 DEF external_store
    <3> QED
      BY <2>1, <2>3, <3>2, <3>3
  <2> QED
    BY <2>2, <2>3 DEF LinkInv
<1>6. AmoUndisturbed'
  BY DEF IInv, coreVars, dataVars, AmoUndisturbed, WriteBeat
<1>7. ScUndisturbed'
  BY DEF IInv, coreVars, ScUndisturbed, WriteBeat
<1> QED
  BY <1>1, <1>2, <1>3, <1>4, <1>5, <1>6, <1>7 DEF IInv

LEMMA LandInv == ASSUME IInv, Land PROVE IInv'
<1>1. TypeOK'
  BY DEF IInv, coreVars, dataVars, resVars, busVars, TypeOK, Land
<1>2. BusInv'
  BY DEF IInv, active, busVars, BusInv, Land
<1>3. CoreInv'
  BY DEF IInv, coreVars, dataVars, busVars, TypeOK, BusInv, CoreInv, Land
<1>4. Drained'
  BY DEF IInv, active, coreVars, dataVars, busVars, Drained, ReadOnce, Land
<1>5. LinkInv'
  BY CpuMaster DEF IInv, coreVars, dataVars, resVars, TypeOK, BusInv, CoreInv,
     Drained, ReadOnce, LinkInv, Moving, Land
<1>6. AmoUndisturbed'
  BY DEF IInv, coreVars, dataVars, TypeOK, BusInv, CoreInv, Drained, ReadOnce,
     AmoUndisturbed, Land
<1>7. ScUndisturbed'
  <2>1. op.kind = "SC" /\ stage = "wb" => w_owner = Cpu
    BY DEF IInv, BusInv, Drained, Land
  <2> QED
    BY <2>1 DEF IInv, ScUndisturbed, coreVars, Land
<1> QED
  BY <1>1, <1>2, <1>3, <1>4, <1>5, <1>6, <1>7 DEF IInv

LEMMA WriteResponseInv == ASSUME IInv, WriteResponse PROVE IInv'
<1>1. TypeOK'
  <2>1. /\ port' \in [Masters -> [st : {"idle", "asking", "accepted"},
                                  beat : 0 .. NBeats - 1, left : 0 .. NBeats - 1]]
        /\ d_rsp' \in {"none", "okay", "error"}
    BY AtomicAssumption DEF IInv, TypeOK, Idle, WriteResponse
  <2> QED
    BY <2>1 DEF IInv, coreVars, resVars, TypeOK, WriteResponse
<1>2. BusInv'
  BY AtomicAssumption DEF IInv, active, TypeOK, BusInv, Idle, WriteResponse
<1>3. CoreInv'
  BY DEF IInv, active, coreVars, TypeOK, BusInv, CoreInv, Idle, WriteResponse
<1>4. Drained'
  BY DEF active, Drained, ReadOnce, WriteResponse
<1>5. LinkInv'
  BY DEF IInv, active, coreVars, resVars, TypeOK, BusInv, CoreInv, LinkInv,
     Moving, WriteResponse
<1>6. AmoUndisturbed'
  BY DEF IInv, active, coreVars, TypeOK, BusInv, CoreInv, AmoUndisturbed,
     WriteResponse
<1>7. ScUndisturbed'
  BY DEF IInv, coreVars, ScUndisturbed, WriteResponse
<1> QED
  BY <1>1, <1>2, <1>3, <1>4, <1>5, <1>6, <1>7 DEF IInv

LEMMA ResetInv == ASSUME IInv, Reset PROVE IInv'
<1>1. TypeOK'
  <2>1. op' \in [kind : Kinds, word : CpuWords, value : Values]
    BY Chosen DEF Reset
  <2>2. d_data' \in Values /\ reservation_addr' \in CpuWords
    BY Chosen DEF Reset
  <2>3. /\ port' \in [Masters -> [st : {"idle", "asking", "accepted"},
                                  beat : 0 .. NBeats - 1, left : 0 .. NBeats - 1]]
        /\ external_write_addr' \in [Ext -> 0 .. NBeats]
    BY AtomicAssumption DEF Reset, Idle
  <2> QED
    BY <2>1, <2>2, <2>3, CpuMaster DEF TypeOK, Reset
<1>2. BusInv'
  BY AtomicAssumption DEF active, BusInv, Idle, Reset
<1>3. CoreInv'
  BY CpuMaster DEF CoreInv, Idle, Bubble, Reset
<1>4. Drained'
  BY DEF Drained, ReadOnce, Reset
<1>5. LinkInv'
  BY DEF LinkInv, Reset
<1>6. AmoUndisturbed'
  BY DEF AmoUndisturbed, Reset
<1>7. ScUndisturbed'
  BY DEF ScUndisturbed, Reset
<1> QED
  BY <1>1, <1>2, <1>3, <1>4, <1>5, <1>6, <1>7 DEF IInv

-----------------------------------------------------------------------------
LEMMA InitInv == ASSUME Init PROVE IInv
<1>1. TypeOK
  <2>1. op \in [kind : Kinds, word : CpuWords, value : Values]
    BY Chosen DEF Init
  <2>2. d_data \in Values /\ reservation_addr \in CpuWords
    BY Chosen DEF Init
  <2>3. /\ port \in [Masters -> [st : {"idle", "asking", "accepted"},
                                 beat : 0 .. NBeats - 1, left : 0 .. NBeats - 1]]
        /\ external_write_addr \in [Ext -> 0 .. NBeats]
    BY AtomicAssumption DEF Init, Idle
  <2> QED
    BY <2>1, <2>2, <2>3, CpuMaster DEF TypeOK, Init
<1>2. BusInv
  BY AtomicAssumption DEF Init, BusInv, active, Idle
<1>3. CoreInv
  BY CpuMaster, Chosen DEF Init, CoreInv, active, Idle
<1>4. Drained /\ AmoUndisturbed /\ ScUndisturbed
  BY Chosen DEF Init, Drained, ReadOnce, AmoUndisturbed, ScUndisturbed
<1>5. LinkInv
  BY Chosen DEF Init, LinkInv
<1> QED
  BY <1>1, <1>2, <1>3, <1>4, <1>5 DEF IInv

LEMMA StutterInv == ASSUME IInv, UNCHANGED vars PROVE IInv'
<1> USE DEF vars, coreVars, dataVars, resVars, busVars, memVars
<1>1. TypeOK'
  BY DEF IInv, TypeOK
<1>2. BusInv'
  BY DEF IInv, BusInv, active
<1>3. CoreInv'
  BY DEF IInv, CoreInv, active
<1>4. Drained' /\ AmoUndisturbed' /\ ScUndisturbed'
  BY DEF IInv, Drained, ReadOnce, active, AmoUndisturbed, ScUndisturbed
<1>5. LinkInv'
  BY DEF IInv, LinkInv, Moving
<1> QED
  BY <1>1, <1>2, <1>3, <1>4, <1>5 DEF IInv

LEMMA NextInv == ASSUME IInv, [Next]_vars PROVE IInv'
<1>1. CASE IssueAtomic \/ IssueStore \/ Trap \/ Reset
  BY <1>1, IssueAtomicInv, IssueStoreInv, TrapInv, ResetInv
<1>2. CASE Core
  BY <1>2, ReadRequestInv, ReadTakenInv, StoreConditionalInv, WriteRequestInv, CommitInv
  DEF Core
<1>3. CASE Bus
  BY <1>3, ReadAnswerInv, WriteBeatInv, LandInv, WriteResponseInv, GrantWriteInv, CpuMaster
  DEF Bus
<1>4. CASE \E m \in Ext : AskWrite(m) \/ GrantWrite(m)
  BY <1>4, AskWriteInv, GrantWriteInv, CpuMaster
<1>5. CASE UNCHANGED vars
  BY <1>5, StutterInv
<1> QED
  BY <1>1, <1>2, <1>3, <1>4, <1>5 DEF Next

(* The strengthened invariant holds in every state.                        *)
THEOREM AtomicInductive == Spec => []IInv
<1>1. Init => IInv
  BY InitInv
<1>2. IInv /\ [Next]_vars => IInv'
  BY NextInv
<1> QED
  BY <1>1, <1>2, PTL DEF Spec

(* Every register keeps its range: a burst's address never leaves it.      *)
THEOREM AtomicTypes == Spec => []TypeOK
<1>1. IInv => TypeOK
  BY DEF IInv
<1> QED
  BY AtomicInductive, <1>1, PTL

(* Between the read of an AMO and the landing of its write nobody else     *)
(* writes the word.                                                        *)
THEOREM AmosUndisturbed == Spec => []AmoUndisturbed
<1>1. IInv => AmoUndisturbed
  BY DEF IInv
<1> QED
  BY AtomicInductive, <1>1, PTL

(* A store conditional succeeds only on a word that nobody has written     *)
(* since the load reserved read it.                                        *)
THEOREM ScsUndisturbed == Spec => []ScUndisturbed
<1>1. IInv => ScUndisturbed
  BY DEF IInv
<1> QED
  BY AtomicInductive, <1>1, PTL

(* No write is active while an atomic reads, so that it reads once.        *)
THEOREM AtomicsReadOnce == Spec => []ReadOnce
<1>1. IInv => ReadOnce
  BY DEF IInv, Drained
<1> QED
  BY AtomicInductive, <1>1, PTL
-----------------------------------------------------------------------------
(* Only a beat of the owner's burst looks like one: the other actions      *)
(* leave the burst alone, need another state of the machine or reset it.   *)
LEMMA OnlyWriteBeat == ASSUME IInv, [Next]_vars, Beat PROVE WriteBeat
<1> USE DEF Beat
<1>1. w_owner # Cpu /\ w_owner \in Masters
  BY CpuMaster
<1>2. CASE IssueAtomic \/ IssueStore \/ Trap \/ UNCHANGED vars
  BY <1>2 DEF IssueAtomic, IssueStore, Trap, vars, busVars
<1>3. CASE Reset
  BY <1>3 DEF Reset
<1>4. CASE ReadRequest \/ ReadTaken \/ StoreConditional \/ Commit
  BY <1>4 DEF ReadRequest, ReadTaken, StoreConditional, Commit, busVars
<1>5. CASE WriteRequest
  BY <1>1, <1>5 DEF WriteRequest, IInv, TypeOK
<1>6. CASE ReadAnswer \/ Land \/ WriteResponse
  BY <1>6 DEF ReadAnswer, Land, WriteResponse, busVars
<1>7. ASSUME NEW m \in Masters, GrantWrite(m) PROVE WriteBeat
  BY <1>7 DEF GrantWrite
<1>8. ASSUME NEW m \in Ext, AskWrite(m) PROVE WriteBeat
  <2>1. port[w_owner].st = "accepted"
    BY <1>1 DEF IInv, BusInv, active
  <2>2. m # w_owner
    BY <1>8, <2>1 DEF AskWrite
  <2>3. port'[w_owner] = port[w_owner] /\ wstate' = wstate
    BY <1>1, <1>8, <2>2 DEF AskWrite, IInv, TypeOK
  <2> QED
    BY <2>3
<1> QED
  BY <1>2, <1>3, <1>4, <1>5, <1>6, <1>7, <1>8, CpuMaster DEF Next, Core, Bus

(* In an accepted burst the words of the beat are new, since the burst has *)
(* passed those still in flight, and the snoop register names the beat; in *)
(* a refused one there are none.                                           *)
LEMMA BeatIsSnooped ==
  ASSUME IInv, WriteBeat, w_owner \in Ext
  PROVE  /\ Stored(reservation_addr) => ~reservation_valid'
         /\ ~Stored(reservation_addr) /\ ~w_error =>
              reservation_valid' = reservation_valid
<1>1. PICK lanes \in SUBSET Lanes, v \in Values :
        /\ inflight' = IF wstate = "W_DATA"
                       THEN inflight \cup Strobed(w_owner, lanes, v) ELSE inflight
        /\ reservation_valid' = (reservation_valid /\ ~external_store(lanes))
  BY DEF WriteBeat
<1>2. /\ external_write_addr[w_owner] = port[w_owner].beat
      /\ \A x \in inflight : x[1][1] < port[w_owner].beat
      /\ port[w_owner].beat \in Int
  BY CpuMaster, AtomicAssumption DEF IInv, BusInv, TypeOK, WriteBeat
<1>3. /\ reservation_addr \in CpuWords /\ reservation_valid \in BOOLEAN
      /\ reservation_addr = <<reservation_addr[1], reservation_addr[2]>>
      /\ wstate # "W_DATA" => w_error
  BY WordPair DEF IInv, TypeOK, BusInv, WriteBeat
<1>4. CASE wstate # "W_DATA"
  <2>1. ~Stored(reservation_addr)
    BY <1>1, <1>4 DEF Stored
  <2> QED
    BY <1>3, <1>4, <2>1
<1>5. CASE wstate = "W_DATA" /\ external_store(lanes)
  <2>1. reservation_addr[1] = port[w_owner].beat /\ reservation_addr[2] \in lanes
    BY <1>2, <1>5 DEF external_store
  <2>2. reservation_addr \in ({port[w_owner].beat} \X lanes) \cap CpuWords
    BY <1>3, <2>1
  <2>3. <<reservation_addr, v>> \in Strobed(w_owner, lanes, v)
    BY <2>2 DEF Strobed
  <2>4. <<reservation_addr, v>>[1][1] = port[w_owner].beat
    BY <2>1
  <2>5. <<reservation_addr, v>> \notin inflight
    BY <1>2, <2>4
  <2>6. Stored(reservation_addr)
    BY <1>1, <1>5, <2>3, <2>5 DEF Stored
  <2> QED
    BY <1>1, <1>5, <2>6
<1>6. CASE wstate = "W_DATA" /\ ~external_store(lanes)
  <2>1. ASSUME NEW u \in Values, <<reservation_addr, u>> \in inflight' \ inflight
        PROVE  FALSE
    <3>1. PICK w \in ({port[w_owner].beat} \X lanes) \cap CpuWords :
            <<reservation_addr, u>> = <<w, v>>
      BY <1>1, <1>6, <2>1 DEF Strobed
    <3>2. reservation_addr = w
      BY <3>1
    <3>3. reservation_addr[1] = port[w_owner].beat /\ reservation_addr[2] \in lanes
      BY <3>1, <3>2
    <3> QED
      BY <1>2, <1>6, <3>3 DEF external_store
  <2>2. ~Stored(reservation_addr)
    BY <2>1 DEF Stored
  <2> QED
    BY <1>1, <1>3, <1>6, <2>2
<1> QED
  BY <1>4, <1>5, <1>6

(* A beat that stores into the reserved word takes the reservation away,   *)
(* at every position of a burst of any length and for every choice of      *)
(* lanes, and a beat that stores elsewhere preserves it; a burst that the  *)
(* fabric refuses stores nothing and may still take it                     *)
(* (checkpoint9_top.sv:67-83, axi_fabric.sv:127, 201-204).                 *)
THEOREM SnoopsExactly == Spec => SnoopExact
<1>1. IInv /\ [Next]_vars =>
        [Beat => /\ Stored(reservation_addr) => ~reservation_valid'
                 /\ ~Stored(reservation_addr) /\ ~w_error =>
                      reservation_valid' = reservation_valid]_vars
  BY OnlyWriteBeat, BeatIsSnooped DEF Beat
<1> QED
  BY AtomicInductive, <1>1, PTL DEF Spec, SnoopExact
=============================================================================
