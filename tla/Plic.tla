--------------------------------- MODULE Plic ---------------------------------
(***************************************************************************)
(* The interrupt controller of rtl/peripherals/plic.sv: level-triggered    *)
(* gateways, and two contexts that claim and complete over a bus port with *)
(* one response outstanding.  A step is a clock edge, or a change of the   *)
(* interrupt wires between edges.  Of a bus request the model keeps which  *)
(* register it hits; the two ways it can be malformed are one.             *)
(***************************************************************************)
EXTENDS Naturals

CONSTANTS NumSources, NumContexts, MaxPriority

ASSUME PlicAssumption ==
  NumSources \in Nat /\ NumContexts \in Nat \ {0} /\ MaxPriority \in Nat

Sources == 1 .. NumSources
Contexts == 0 .. NumContexts - 1
Priorities == 0 .. MaxPriority
NoSource == 0

VARIABLES
  level,                             \* the interrupt wires
  source_priority, threshold, enable,
  pending, in_service, owner,
  response,                          \* response_pending, bus_rsp_error
  claimed    \* history: what each context has been given and not completed

config == <<source_priority, threshold, enable>>
vars == <<level, config, pending, in_service, owner, response, claimed>>

Init == /\ level = {}
        /\ source_priority = [id \in Sources |-> 0]
        /\ threshold = [c \in Contexts |-> 0]
        /\ enable = [c \in Contexts |-> {}]
        /\ pending = {} /\ in_service = {}
        /\ owner = [id \in Sources |-> 0]
        /\ response = "none"
        /\ claimed = [c \in Contexts |-> {}]

(* The scan of the candidates in ascending order keeps the first of the    *)
(* highest priority; it does not look at the threshold.                    *)
Candidates(c) == {id \in pending \cap enable[c] : source_priority[id] > 0}
Best(c) ==
  IF Candidates(c) = {} THEN NoSource
  ELSE CHOOSE id \in Candidates(c) :
         \A o \in Candidates(c) :
           \/ source_priority[o] < source_priority[id]
           \/ source_priority[o] = source_priority[id] /\ id <= o
irq(c) == Best(c) # NoSource /\ source_priority[Best(c)] > threshold[c]

LatchedInService == level \ pending
Latched == level \ (pending \cup in_service)
RaisedWhileHigh(cleared) == ((pending \cup Latched) \cap level) \ cleared
(* Every edge latches the wires, whatever the bus does.                    *)
Raised(cleared) == (pending \cup Latched) \ cleared

Wires == level' \in SUBSET Sources /\ level' # level
         /\ UNCHANGED <<config, pending, in_service, owner, response, claimed>>

NoRequest == /\ pending' = Raised({})
             /\ UNCHANGED <<level, config, in_service, owner, response, claimed>>

TakeResponse == /\ response # "none" /\ response' = "none"
                /\ pending' = Raised({})
                /\ UNCHANGED <<level, config, in_service, owner, claimed>>

Accept(resp) == response = "none" /\ response' = resp /\ UNCHANGED level

BadRequest == /\ Accept("error")
              /\ pending' = Raised({})
              /\ UNCHANGED <<config, in_service, owner, claimed>>

(* A read of any register but a claim, which changes nothing.              *)
ReadRegister == /\ Accept("data")
                /\ pending' = Raised({})
                /\ UNCHANGED <<config, in_service, owner, claimed>>

(* Three bits of the word written, as many as a priority has.              *)
FieldWide(word) == word
Field(word) == word % (MaxPriority + 1)
Words == 0 .. MaxPriority + 1

WriteRegister ==
  /\ Accept("data")
  /\ pending' = Raised({})
  /\ \/ /\ \E id \in Sources, word \in Words :
             source_priority' = [source_priority EXCEPT ![id] = Field(word)]
        /\ UNCHANGED <<threshold, enable>>
     \/ /\ \E c \in Contexts, word \in Words :
             threshold' = [threshold EXCEPT ![c] = Field(word)]
        /\ UNCHANGED <<source_priority, enable>>
     \/ /\ \E c \in Contexts, ids \in SUBSET Sources :
             enable' = [enable EXCEPT ![c] = ids]
        /\ UNCHANGED <<source_priority, threshold>>
  /\ UNCHANGED <<in_service, owner, claimed>>

(* A read of the claim register of c: its answer names the source that is  *)
(* now c's, or none.                                                       *)
Claim(c) ==
  /\ Accept("data")
  /\ IF Best(c) = NoSource
     THEN pending' = Raised({}) /\ UNCHANGED <<in_service, owner, claimed>>
     ELSE /\ pending' = Raised({Best(c)})
          /\ in_service' = in_service \cup {Best(c)}
          /\ owner' = [owner EXCEPT ![Best(c)] = c]
          /\ claimed' = [claimed EXCEPT ![c] = @ \cup {Best(c)}]
  /\ UNCHANGED config

CompletedAnyOwner(c, id) == in_service \ {id}
Completed(c, id) == IF owner[id] = c THEN in_service \ {id} ELSE in_service
(* A write to it, by software that may name a source it does not hold.     *)
Complete(c) ==
  /\ Accept("data")
  /\ pending' = Raised({})
  /\ \/ \E id \in Sources : /\ in_service' = Completed(c, id)
                            /\ claimed' = [claimed EXCEPT ![c] = @ \ {id}]
     \/ UNCHANGED <<in_service, claimed>>
  /\ UNCHANGED <<config, owner>>

Reset == /\ source_priority' = [id \in Sources |-> 0]
         /\ threshold' = [c \in Contexts |-> 0]
         /\ enable' = [c \in Contexts |-> {}]
         /\ pending' = {} /\ in_service' = {}
         /\ owner' = [id \in Sources |-> 0]
         /\ response' = "none"
         /\ claimed' = [c \in Contexts |-> {}]
         /\ UNCHANGED level

Next == \/ Wires \/ NoRequest \/ TakeResponse \/ BadRequest
        \/ ReadRegister \/ WriteRegister \/ Reset
        \/ \E c \in Contexts : Claim(c) \/ Complete(c)

Spec == Init /\ [][Next]_vars

-----------------------------------------------------------------------------
TypeOK == /\ level \subseteq Sources
          /\ source_priority \in [Sources -> Priorities]
          /\ threshold \in [Contexts -> Priorities]
          /\ enable \in [Contexts -> SUBSET Sources]
          /\ pending \subseteq Sources /\ in_service \subseteq Sources
          /\ owner \in [Sources -> Contexts]
          /\ response \in {"none", "error", "data"}
          /\ claimed \in [Contexts -> SUBSET Sources]

(* A wire that is still high while its interrupt is handled does not raise *)
(* it a second time before completion (plic.sv:104-106).                   *)
NotRaisedInService == pending \cap in_service = {}

(* What the controller believes in service is what the contexts hold: a    *)
(* source is never given to two of them, and neither a stray completion    *)
(* nor the other context's takes it away (plic.sv:122-145).                *)
ClaimsHeld ==
  \A c \in Contexts : claimed[c] = {id \in in_service : owner[id] = c}

(* Both: a source is served by one context at a time, once for each time   *)
(* that its wire was found high.                                           *)
ServedOnce == NotRaisedInService /\ ClaimsHeld

(* A context once signalled stays signalled until somebody claims a source *)
(* or reprograms the controller: not when the wire falls, nor when another *)
(* source is raised (plic.sv:47-48, 104-106).                              *)
IrqHolds ==
  [][\A c \in Contexts :
       irq(c) /\ UNCHANGED <<config, in_service>> => irq(c)']_vars
=============================================================================
