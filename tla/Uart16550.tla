------------------------------- MODULE Uart16550 -------------------------------
(***************************************************************************)
(* The serial port of rtl/peripherals/uart16550.sv: two rings of bytes with*)
(* their counters, the interrupt causes, and software that writes only when*)
(* it has been told that there is room.  A step is a clock edge: what the  *)
(* bus does in it, what the transmitter does and what arrives.  Characters *)
(* take any number of edges.  Break, loopback, modem signals and divisor   *)
(* are left out, there is one trigger level, and the three error bits of a *)
(* character are one.                                                      *)
(***************************************************************************)
EXTENDS Naturals, Sequences

CONSTANTS Depth, Trigger,   \* of the rings, and at most the depth
          Bytes

Slots == 0 .. Depth - 1
Empty == [mem |-> [s \in Slots |-> "-"], head |-> 0, tail |-> 0, count |-> 0]

VARIABLES
  side,                  \* which ring a behaviour is about
  fifo_on, dlab, ier,    \* fcr[0], lcr[7], the causes enabled
  tx, tx_busy,           \* a ring; the character on the line, or "-"
  thre_pending,
  rx, overrun, timeout_irq,
  bus_rsp_valid,
  owed,                  \* history: characters accepted and not yet sent
  room, told,            \* history: what software may still write unasked;
                         \* whether it was told that the ring is empty
  heard                  \* history: characters accepted and not yet read
txVars == <<tx, tx_busy, thre_pending, owed, room, told>>
rxVars == <<rx, overrun, timeout_irq, heard>>
config == <<fifo_on, dlab, ier>>
vars == <<side, config, txVars, rxVars, bus_rsp_valid>>

depth == IF fifo_on THEN Depth ELSE 1
trigger_level == IF fifo_on THEN Trigger ELSE 1
Content(r) == [i \in 1 .. r.count |-> r.mem[(r.head + i - 1) % Depth]]
Top(r) == r.mem[r.head]
Pushed(r, x) == [r EXCEPT !.mem[r.tail] = x, !.tail = (@ + 1) % Depth, !.count = @ + 1]
Popped(r) == [r EXCEPT !.mem[r.head] = "-", !.head = (@ + 1) % Depth, !.count = @ - 1]

Init == /\ side \in {"tx", "rx"} /\ fifo_on = FALSE /\ dlab = FALSE /\ ier = {}
        /\ tx = Empty /\ tx_busy = "-" /\ thre_pending = TRUE
        /\ rx = Empty /\ overrun = FALSE /\ timeout_irq = FALSE
        /\ bus_rsp_valid = FALSE
        /\ owed = <<>> /\ room = 0 /\ told = FALSE /\ heard = <<>>

-----------------------------------------------------------------------------
(* The causes of an interrupt in their order; reading iir reports the first*)
(* one, and only that.                                                     *)
LineStatus == overrun \/ (rx.count # 0 /\ Top(rx).error)
Order == <<"line", "data", "timeout", "thre">>
Holds == [line |-> "line" \in ier /\ LineStatus,
          data |-> "data" \in ier /\ rx.count >= trigger_level,
          timeout |-> "data" \in ier /\ fifo_on /\ rx.count # 0 /\ timeout_irq,
          thre |-> "thre" \in ier /\ thre_pending]
irq == \E i \in DOMAIN Order : Holds[Order[i]]
iir == IF ~irq THEN "none"
       ELSE Order[CHOOSE i \in DOMAIN Order :
                    Holds[Order[i]] /\ \A j \in 1 .. i - 1 : ~Holds[Order[j]]]

(* What the bus does in an edge.  `word` is what matters of the data.      *)
Reads == {"rbr", "iir", "lsr", "other"}
Op == {<<"none">>, <<"take">>, <<"bad">>}
      \cup {<<"read", r>> : r \in Reads}
      \cup {<<"write", "thr", b>> : b \in Bytes}
      \cup {<<"write", "ier", e>> : e \in SUBSET {"line", "data", "thre"}}
      \cup {<<"write", "fcr", [on |-> o, rx |-> r, tx |-> t]>> : o, r, t \in BOOLEAN}
      \cup {<<"write", "lcr", d>> : d \in BOOLEAN}
accept(op) == op \notin {<<"none">>, <<"take">>}
rd(op, reg) == op = <<"read", reg>>
wr(op, reg) == op[1] = "write" /\ op[2] = reg

clear_rx(op) == wr(op, "fcr") /\ (op[3].rx \/ op[3].on # fifo_on)
clear_tx(op) == wr(op, "fcr") /\ (op[3].tx \/ op[3].on # fifo_on)
tx_pop(op) == tx_busy = "-" /\ tx.count # 0 /\ ~clear_tx(op)
tx_push(op) == wr(op, "thr") /\ ~dlab /\ (tx.count < depth \/ tx_pop(op))
rx_pop(op) == rd(op, "rbr") /\ ~dlab /\ rx.count # 0
clear_lsr(op) == rd(op, "lsr")
clear_threAny(op) == rd(op, "iir")
clear_thre(op) == rd(op, "iir") /\ iir = "thre"

Configure(op) ==
  /\ accept(op) => ~bus_rsp_valid
  /\ bus_rsp_valid' = (accept(op) \/ (bus_rsp_valid /\ op # <<"take">>))
  /\ fifo_on' = IF wr(op, "fcr") THEN op[3].on ELSE fifo_on
  /\ dlab' = IF wr(op, "lcr") THEN op[3] ELSE dlab
  /\ ier' = IF wr(op, "ier") /\ ~dlab THEN op[3] ELSE ier

(* The transmitter takes the next character when it has sent the last one; *)
(* `ends`: the last stop bit of the one on the line is over.               *)
Transmit(op, ends) ==
  /\ ends => tx_busy # "-"
  /\ tx_busy' = IF tx_pop(op) THEN Top(tx) ELSE IF ends THEN "-" ELSE tx_busy
  /\ LET left == IF tx_pop(op) THEN Popped(tx) ELSE tx IN
     tx' = IF clear_tx(op) THEN Empty
           ELSE IF tx_push(op) THEN Pushed(left, op[3]) ELSE left
  /\ thre_pending' =
       \/ clear_tx(op)
       \/ tx_pop(op) /\ tx.count = 1 /\ ~tx_push(op)
       \/ /\ ~clear_thre(op) /\ ~tx_push(op)
          /\ \/ thre_pending
             \/ wr(op, "ier") /\ ~dlab /\ "thre" \in op[3] \ ier /\ tx.count = 0

(* What software knows of the ring, and what it is owed.                   *)
ReadsThre(op) == rd(op, "iir") /\ iir = "thre"
Keep(op, ends) ==
  /\ LET line == SubSeq(owed, 1, IF tx_busy = "-" THEN 0 ELSE 1)
         rest == IF clear_tx(op) THEN line ELSE owed
         left == IF ends THEN Tail(rest) ELSE rest
     IN owed' = IF tx_push(op) THEN Append(left, op[3]) ELSE left
  /\ room' = CASE wr(op, "fcr") /\ op[3].on # fifo_on -> 0
              [] (rd(op, "lsr") /\ tx.count = 0) \/ ReadsThre(op) -> depth
              [] wr(op, "thr") /\ ~dlab /\ room > 0 -> room - 1
              [] OTHER -> room
  /\ told' = \/ ReadsThre(op)
             \/ told /\ ~tx_push(op) /\ ~clear_tx(op)

(* `got`: the character whose stop bit is sampled in this edge, if any.  A *)
(* full ring drops it and says so, unless its first one is being read.     *)
Silence == [byte |-> "-", error |-> FALSE]
rx_push(op, got) == got # Silence /\ (rx.count < depth \/ rx_pop(op))
Receive(op, got) ==
  LET seen == IF clear_lsr(op) /\ rx.count # 0
              THEN [rx EXCEPT !.mem[rx.head].error = FALSE] ELSE rx
      left == IF rx_pop(op) THEN Popped(seen) ELSE seen
      line == IF clear_lsr(op) /\ heard # <<>> THEN [heard EXCEPT ![1].error = FALSE] ELSE heard
      rest == IF rx_pop(op) THEN Tail(line) ELSE line
  IN /\ rx' = IF clear_rx(op) THEN Empty
              ELSE IF rx_push(op, got) THEN Pushed(left, got) ELSE left
     /\ heard' = IF clear_rx(op) THEN <<>>
                 ELSE IF rx_push(op, got) THEN Append(rest, got) ELSE rest
     /\ overrun' = (/\ ~clear_rx(op)
                    /\ \/ overrun /\ ~clear_lsr(op)
                       \/ got # Silence /\ ~rx_push(op, got))
     /\ timeout_irq' \in IF got # Silence \/ rx_pop(op) \/ clear_rx(op) \/ rx.count = 0
                         THEN {FALSE} ELSE {timeout_irq, TRUE}

(* A behaviour about the transmitter receives only good characters of one  *)
(* kind, one about the receiver sends nothing.                             *)
Arrivals == {Silence} \cup {c \in [byte : Bytes, error : BOOLEAN] :
                         side = "tx" => c = [byte |-> CHOOSE b \in Bytes : TRUE, error |-> FALSE]}
Edge == \E op \in Op, ends \in BOOLEAN, got \in Arrivals :
          /\ side = "rx" => ~wr(op, "thr")
          /\ Configure(op) /\ Transmit(op, ends) /\ Keep(op, ends) /\ Receive(op, got)
          /\ UNCHANGED side

Reset == /\ fifo_on' = FALSE /\ dlab' = FALSE /\ ier' = {}
         /\ tx' = Empty /\ tx_busy' = "-" /\ thre_pending' = TRUE
         /\ rx' = Empty /\ overrun' = FALSE /\ timeout_irq' = FALSE
         /\ bus_rsp_valid' = FALSE
         /\ owed' = <<>> /\ room' = 0 /\ told' = FALSE /\ heard' = <<>>
         /\ UNCHANGED side

Next == Edge \/ Reset

Spec == Init /\ [][Next]_vars

-----------------------------------------------------------------------------
(* The characters on the line and in the transmitter's ring are those that *)
(* were accepted and not yet sent, in order, and likewise the receiver's,  *)
(* whatever is read, cleared, sent and received in one edge                *)
(* (uart16550.sv:104-107, 160-171, 191-213).                               *)
InOrder == /\ owed = (IF tx_busy = "-" THEN <<>> ELSE <<tx_busy>>) \o Content(tx)
           /\ heard = Content(rx)
(* Software that writes as many characters as it was told there is room for*)
(* loses none (uart16550.sv:72, 104).                                      *)
NoneDropped == room + tx.count <= depth
(* Software that waits for the interrupt of an empty ring gets it: it does *)
(* not get lost behind another cause (uart16550.sv:75-79, 109, 149-161).   *)
ThreTold == "thre" \in ier /\ tx.count = 0 /\ ~told => irq
UartExact == InOrder /\ NoneDropped /\ ThreTold
=============================================================================
