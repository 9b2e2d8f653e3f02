----------------------------- MODULE PeripheralBus -----------------------------
(***************************************************************************)
(* The way of an uncached access to a device: the bypass bridge of a cache *)
(* (rtl/bus/axi_width_bridge.sv), the fabric between, which lets one read  *)
(* and one write through, the adapter (rtl/bus/axi_peripheral_adapter.sv), *)
(* the multiplexer (rtl/peripherals/checkpoint10_mmio.sv) and the response *)
(* register that each device has.  The instruction cache only reads; the   *)
(* other masters, with no bridge, may send a burst, which is refused.      *)
(* Every handshake is a step of its own, since no two of them change the   *)
(* same register.  What nobody reads any more is cleared.                  *)
(***************************************************************************)
EXTENDS Naturals, Sequences

CONSTANTS Devices, Unmapped   \* the latter none of the former

Masters == {"icache", "dcache", "other"}
Bridges == Masters \ {"other"}
Dests == Devices \cup {Unmapped}
(* `fits`: an address and a size that the bridge accepts, or one beat; a   *)
(* device refuses a `bad` register, size or strobe.                        *)
Access == {a \in [write : BOOLEAN, dest : Dests, fits : BOOLEAN, bad : BOOLEAN] :
             (~a.fits => a.dest = Unmapped) /\ (a.dest = Unmapped => ~a.bad)}
None == "none"

VARIABLES
  bridge,              \* state of each master
  held,                \* the access it is about
  result,              \* what came back: the code, and whose data
  r_owner, w_owner,    \* the fabric: who reads, who writes
  state, current,      \* the adapter: its state and the access it captured
  remaining,           \* its write_remaining
  response,            \* the adapter's response and rdata
  owner, unmapped_pending,
  pending,             \* of each device: nothing, or the answer it offers
  operated             \* history: the operations done for it

bridgeVars == <<bridge, held, result>>
adapterVars == <<state, current, remaining, response>>
muxVars == <<owner, unmapped_pending, pending>>
vars == <<bridgeVars, r_owner, w_owner, adapterVars, muxVars, operated>>

Idle == [write |-> FALSE, dest |-> Unmapped, fits |-> TRUE, bad |-> FALSE]
NoAnswer == [code |-> None, for |-> <<>>]

Init == /\ bridge = [m \in Masters |-> "IDLE"] /\ held = [m \in Masters |-> Idle]
        /\ result = [m \in Masters |-> NoAnswer]
        /\ r_owner = None /\ w_owner = None
        /\ state = "IDLE" /\ current = None /\ remaining = 0 /\ response = NoAnswer
        /\ owner = Unmapped /\ unmapped_pending = FALSE
        /\ pending = [d \in Devices |-> NoAnswer]
        /\ operated = [m \in Masters |-> <<>>]

-----------------------------------------------------------------------------
(* The masters' side.                                                      *)
Answer(code) == [code |-> code, for |-> <<>>]

Ask(m, a) ==
  /\ bridge[m] = "IDLE" /\ (m = "icache" => ~a.write)
  /\ held' = [held EXCEPT ![m] = a]
  /\ operated' = [operated EXCEPT ![m] = <<>>]
  /\ IF ~a.fits /\ m \in Bridges
     THEN /\ bridge' = [bridge EXCEPT ![m] = "RESPONSE"]
          /\ result' = [result EXCEPT ![m] = Answer("SLVERR")]
     ELSE /\ bridge' = [bridge EXCEPT ![m] = IF a.write THEN "SEND_WRITE" ELSE "SEND_READ"]
          /\ result' = [result EXCEPT ![m] = NoAnswer]
  /\ UNCHANGED <<r_owner, w_owner, adapterVars, muxVars>>

Take(m) ==
  /\ bridge[m] = "RESPONSE" /\ bridge' = [bridge EXCEPT ![m] = "IDLE"]
  /\ held' = [held EXCEPT ![m] = Idle] /\ result' = [result EXCEPT ![m] = NoAnswer]
  /\ operated' = [operated EXCEPT ![m] = <<>>]
  /\ UNCHANGED <<r_owner, w_owner, adapterVars, muxVars>>

-----------------------------------------------------------------------------
(* The channels between a bridge and the adapter.  A bridge offers AW and W*)
(* together, and the fabric takes W after AW: `aw_done` is w_owner = m, and*)
(* `w_done` is WAIT_WRITE.                                                 *)
MayRead(m) == bridge[m] = "SEND_READ" /\ r_owner = None
arvalid == \E m \in Masters : MayRead(m)
Captured(m) == [by |-> m, access |-> held[m]]

SendAr(m) ==
  /\ MayRead(m) /\ state = "IDLE"
  /\ bridge' = [bridge EXCEPT ![m] = "WAIT_READ"] /\ r_owner' = m
  /\ current' = Captured(m)
  /\ IF held[m].fits
     THEN state' = "R_REQUEST" /\ response' = NoAnswer
     ELSE state' = "R_RESPONSE" /\ response' = Answer("SLVERR")
  /\ UNCHANGED <<held, result, w_owner, remaining, muxVars, operated>>

(* A read is taken before a write that comes in the same cycle.            *)
SendAw(m) ==
  /\ bridge[m] = "SEND_WRITE" /\ w_owner = None
  /\ state = "IDLE" /\ ~arvalid
  /\ w_owner' = m
  /\ current' = Captured(m) /\ remaining' = IF held[m].fits THEN 0 ELSE 1
  /\ state' = "W_CAPTURE" /\ response' = NoAnswer
  /\ UNCHANGED <<bridge, held, result, r_owner, muxVars, operated>>

SendW(m) ==
  /\ w_owner = m /\ state = "W_CAPTURE" /\ bridge[m] = "SEND_WRITE"
  /\ IF remaining # 0
     THEN remaining' = remaining - 1 /\ UNCHANGED <<bridge, state, response>>
     ELSE /\ bridge' = [bridge EXCEPT ![m] = "WAIT_WRITE"]
          /\ UNCHANGED remaining
          /\ IF held[m].fits
             THEN state' = "W_REQUEST" /\ UNCHANGED response
             ELSE state' = "W_RESPONSE" /\ response' = Answer("SLVERR")
  /\ UNCHANGED <<held, result, r_owner, w_owner, current, muxVars, operated>>

GiveR(m) ==
  /\ r_owner = m /\ state = "R_RESPONSE"
  /\ bridge' = [bridge EXCEPT ![m] = "RESPONSE"]
  /\ result' = [result EXCEPT ![m] = response]
  /\ r_owner' = None /\ state' = "IDLE" /\ current' = None /\ response' = NoAnswer
  /\ UNCHANGED <<held, w_owner, remaining, muxVars, operated>>

GiveB(m) ==
  /\ w_owner = m /\ state = "W_RESPONSE" /\ bridge[m] = "WAIT_WRITE"
  /\ bridge' = [bridge EXCEPT ![m] = "RESPONSE"]
  /\ result' = [result EXCEPT ![m] = response]
  /\ w_owner' = None /\ state' = "IDLE" /\ current' = None /\ response' = NoAnswer
  /\ UNCHANGED <<held, r_owner, remaining, muxVars, operated>>
-----------------------------------------------------------------------------
(* The adapter's one request to a device, through the multiplexer.         *)
dest == current.access.dest
Selected == IF dest \in Devices THEN pending[dest] = NoAnswer ELSE ~unmapped_pending
Operation == [by |-> current.by, on |-> dest, write |-> state = "W_REQUEST"]
(* The device answers with what it did, or refuses and does nothing.       *)
Offered == [code |-> IF current.access.bad THEN "SLVERR" ELSE "OKAY",
            for |-> <<Operation>>]
Waiting == IF state = "W_REQUEST" THEN "W_WAIT" ELSE "R_WAIT"

Request ==
  /\ state \in {"W_REQUEST", "R_REQUEST"} /\ Selected
  /\ state' = Waiting /\ owner' = dest
  /\ IF dest = Unmapped
     THEN unmapped_pending' = TRUE /\ UNCHANGED <<pending, operated>>
     ELSE /\ pending' = [pending EXCEPT ![dest] = Offered]
          /\ operated' = IF current.access.bad THEN operated
                         ELSE [operated EXCEPT ![current.by] = Append(@, Operation)]
          /\ UNCHANGED unmapped_pending
  /\ UNCHANGED <<bridgeVars, r_owner, w_owner, current, remaining, response>>

rsp_valid == IF owner = Unmapped THEN unmapped_pending ELSE pending[owner] # NoAnswer
Responding == IF state = "W_WAIT" THEN "W_RESPONSE" ELSE "R_RESPONSE"
RespondKeeping ==
  /\ state \in {"W_WAIT", "R_WAIT"} /\ rsp_valid
  /\ state' = Responding
  /\ response' = IF unmapped_pending THEN Answer("DECERR") ELSE pending[owner]
  /\ pending' = IF owner = Unmapped THEN pending ELSE [pending EXCEPT ![owner] = NoAnswer]
  /\ UNCHANGED <<unmapped_pending, bridgeVars, r_owner, w_owner, current, remaining, owner, operated>>
Respond ==
  /\ state \in {"W_WAIT", "R_WAIT"} /\ rsp_valid
  /\ state' = Responding
  /\ response' = IF unmapped_pending THEN Answer("DECERR") ELSE pending[owner]
  /\ unmapped_pending' = FALSE
  /\ pending' = IF owner = Unmapped THEN pending ELSE [pending EXCEPT ![owner] = NoAnswer]
  /\ UNCHANGED <<bridgeVars, r_owner, w_owner, current, remaining, owner, operated>>

Reset == /\ bridge' = [m \in Masters |-> "IDLE"] /\ held' = [m \in Masters |-> Idle]
         /\ result' = [m \in Masters |-> NoAnswer]
         /\ r_owner' = None /\ w_owner' = None
         /\ state' = "IDLE" /\ current' = None /\ remaining' = 0 /\ response' = NoAnswer
         /\ owner' = Unmapped /\ unmapped_pending' = FALSE
         /\ pending' = [d \in Devices |-> NoAnswer]
         /\ operated' = [m \in Masters |-> <<>>]

Next == \/ \E m \in Masters :
             \/ \E a \in Access : Ask(m, a)
             \/ Take(m) \/ SendAr(m) \/ SendAw(m) \/ SendW(m) \/ GiveR(m) \/ GiveB(m)
        \/ Request \/ Respond \/ Reset

Spec == Init /\ [][Next]_vars

-----------------------------------------------------------------------------
(* An access is answered with what its own operation on the device that it *)
(* addressed returned, and that device was operated once for it: reading a *)
(* register that reading changes does not happen twice, and nothing is done*)
(* for an access that is refused (axi_width_bridge.sv:75-110,              *)
(* axi_peripheral_adapter.sv:73-118, checkpoint10_mmio.sv:27-52).          *)
AccessOnce ==
  \A m \in Masters :
    LET a == held[m]
        op == [by |-> m, on |-> a.dest, write |-> a.write]
        known == a.fits /\ a.dest # Unmapped
    IN /\ Len(operated[m]) <= 1
       /\ bridge[m] = "RESPONSE" =>
            /\ operated[m] = IF known /\ ~a.bad THEN <<op>> ELSE <<>>
            /\ result[m].for = IF known THEN <<op>> ELSE <<>>
            /\ result[m].code = IF a.fits /\ a.dest = Unmapped THEN "DECERR"
                               ELSE IF known /\ ~a.bad THEN "OKAY" ELSE "SLVERR"
=============================================================================
