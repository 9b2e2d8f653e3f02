----------------------------- MODULE BootConsole -----------------------------
(***************************************************************************)
(* scripts/capture_checkpoint10.py: reading the serial console of a board  *)
(* that boots, answering its challenge with one byte, and deciding from    *)
(* what was read whether the boot passed.                                  *)
(*                                                                         *)
(* The board prints each milestone of MARKERS in two halves, so that a     *)
(* read may end inside one.  It can be reset at any moment.                *)
(***************************************************************************)
EXTENDS Integers, Sequences

CONSTANTS MaxResets     \* times the operator presses reset: a bound of the model

VARIABLES
  trace,        \* --trace: raw capture, no challenge
  phase, sent, data, result,    \* the script; data is all it has read
  boot, printed,    \* the board: number of this boot, halves printed
  challenge,        \* the byte K: where it is
  unread            \* halves in the host's terminal buffer

vars == <<trace, phase, sent, data, result, boot, printed, challenge, unread>>

MARKERS == <<"OpenSBI", "SBI_TIMER_PMP_PASS", "UART_RX_READY", "UART_RX_PLIC_PASS">>
READY == MARKERS[3]
Half(n) == [boot |-> boot, marker |-> MARKERS[(n + 1) \div 2], half |-> 2 - (n % 2)]
BeforeReady == 6            \* halves printed before the payload waits for K
AllHalves == 2 * Len(MARKERS)

Init ==
  /\ trace \in BOOLEAN /\ phase = "open" /\ sent = FALSE /\ data = <<>> /\ result = "none"
  /\ boot = 1 /\ printed = 0 /\ challenge = "host" /\ unread = <<>>

-----------------------------------------------------------------------------
(* bytes.find of a marker from cursor on: where the halves begin, or 0.    *)
find(seq, marker, cursor) ==
  LET at == {i \in cursor .. Len(seq) - 1 :
               /\ seq[i].marker = marker /\ seq[i].half = 1
               /\ seq[i + 1].marker = marker /\ seq[i + 1].half = 2}
  IN  IF at = {} THEN 0 ELSE CHOOSE i \in at : \A j \in at : i <= j

verifyUnordered(seq) ==   \* mutant: each milestone is looked for from the start
  \A i \in DOMAIN MARKERS : find(seq, MARKERS[i], 1) # 0
verify(seq) ==
  LET Cursor[i \in 0 .. Len(MARKERS)] ==      \* 0 when a milestone is missing
        IF i = 0 THEN 1
        ELSE IF Cursor[i - 1] = 0 \/ find(seq, MARKERS[i], Cursor[i - 1]) = 0 THEN 0
        ELSE find(seq, MARKERS[i], Cursor[i - 1]) + 2
  IN  Cursor[Len(MARKERS)] # 0

(* The terminal is set raw and what came before is flushed.                *)
Open ==
  /\ phase = "open" /\ phase' = "reading" /\ unread' = <<>>
  /\ UNCHANGED <<trace, sent, data, result, boot, printed, challenge>>

Exits(r) == phase' = "exited" /\ result' = r
GoesOn == UNCHANGED <<phase, result>>

(* One os.read, of as much as has come: the challenge is answered once,    *)
(* when READY is there in full, and the capture ends when all is there.    *)
Challenged(seq) == ~trace /\ ~sent /\ find(seq, READY, 1) # 0
Read(n) ==
  LET seq == data \o SubSeq(unread, 1, n) IN
  /\ phase = "reading" /\ data' = seq /\ unread' = SubSeq(unread, n + 1, Len(unread))
  /\ IF Challenged(seq)
     THEN \/ /\ sent' = TRUE /\ challenge' = "line"
             /\ IF verify(seq) THEN Exits("pass") ELSE GoesOn
          \/ UNCHANGED <<sent, challenge>> /\ Exits("io_error")
     ELSE /\ UNCHANGED <<sent, challenge>>
          /\ IF ~trace /\ verify(seq) THEN Exits("pass") ELSE GoesOn
  /\ UNCHANGED <<trace, boot, printed>>

Deadline ==
  /\ phase = "reading"
  /\ Exits(IF trace THEN "captured" ELSE IF verify(data) THEN "pass" ELSE "fail")
  /\ UNCHANGED <<trace, sent, data, boot, printed, challenge, unread>>

(* --verify: the saved capture, whichever way it was taken.                *)
Recheck ==
  /\ phase = "exited" /\ result \in {"pass", "fail", "captured"}
  /\ phase' = "rechecked" /\ result' = IF verify(data) THEN "pass" ELSE "fail"
  /\ UNCHANGED <<trace, sent, data, boot, printed, challenge, unread>>

-----------------------------------------------------------------------------
(* The payload goes on after READY only when it has received the byte,     *)
(* which waits in the receiver until the payload looks.                    *)
Payload ==
  /\ printed < AllHalves
  /\ printed = BeforeReady => challenge = "board"
  /\ printed' = printed + 1 /\ unread' = Append(unread, Half(printed + 1))
  /\ challenge' = IF printed = BeforeReady THEN "taken" ELSE challenge
  /\ UNCHANGED <<trace, phase, sent, data, result, boot>>

Arrives ==
  /\ challenge = "line" /\ challenge' \in {"board", "lost"}
  /\ UNCHANGED <<trace, phase, sent, data, result, boot, printed, unread>>

ResetBoard ==
  /\ boot <= MaxResets /\ boot' = boot + 1 /\ printed' = 0
  /\ challenge' = IF challenge = "board" THEN "lost" ELSE challenge
  /\ UNCHANGED <<trace, phase, sent, data, result, unread>>

Running == phase \in {"open", "reading"}
Stopped == (phase = "rechecked" \/ result = "io_error") /\ UNCHANGED vars
Next ==
  \/ Open \/ (\E n \in DOMAIN unread : Read(n)) \/ Deadline \/ Recheck
  \/ (Running /\ (Payload \/ Arrives \/ ResetBoard)) \/ Stopped
Spec == Init /\ [][Next]_vars

-----------------------------------------------------------------------------
(* One boot, whole, in what was read.                                      *)
Whole(b) ==
  \A k \in 1 .. AllHalves : \E i \in DOMAIN data :
    /\ data[i].boot = b /\ data[i].marker = MARKERS[(k + 1) \div 2]
    /\ data[i].half = 2 - (k % 2)

(* However the reads cut the stream, whenever the capture began and was    *)
(* stopped and however often the board was reset: it passes exactly when   *)
(* some boot printed all its milestones into it (and not when several boots*)
(* did between them), after a challenge that was sent exactly when some    *)
(* READY had come in full.                                                 *)
CaptureExact ==
  /\ (phase = "rechecked" \/ result \in {"pass", "fail"}) =>
       (result = "pass" <=> \E b \in 1 .. boot : Whole(b))
  /\ phase = "exited" /\ result \in {"pass", "fail"} =>
       (sent <=> \E i \in 1 .. Len(data) - 1 :
                   data[i].marker = READY /\ data[i].half = 1 /\ data[i + 1].half = 2
                   /\ data[i + 1].marker = READY)
=============================================================================
