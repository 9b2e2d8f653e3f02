----------------------------- MODULE BoardReport -----------------------------
(***************************************************************************)
(* rtl/top/checkpoint9_uart_report.sv, scripts/capture_checkpoint9.py and  *)
(* scripts/decode_checkpoint9.py: a status packet, snapshot and repeated   *)
(* for ever over a serial line; a capture of some stretch of it; and the   *)
(* decoder, which takes the last packet that is complete.                  *)
(*                                                                         *)
(* The magic is a token and so is each status word.  The status words of   *)
(* one moment all carry the number of that moment, modulo Moments.         *)
(***************************************************************************)
EXTENDS Integers, Sequences

CONSTANTS
  Words,        \* status words in a packet (14 in the code)
  Moments,      \* moments told apart
  Passing,      \* the moments at which every status word says the test passed
  MaxCapture    \* tokens in one capture: a bound of the model

VARIABLES
  now,          \* the moment; the live status words
  sending, byte_index, pause, snapshot,     \* registers of the reporter
  transmitting, \* the token in the transmitter
  phase, data, status,      \* the capture, and then the decoder
  taken,        \* history: the moment whose words are being sent
  heard, latest,    \* history: its tokens heard so far; the last heard in full
  torn          \* history: a reset cut a packet that was being heard

vars == <<now, sending, byte_index, pause, snapshot, transmitting, phase, data, status,
          taken, heard, latest, torn>>

Magic == -1
Silence == -2
Nothing == -3
PacketTokens == Words + 1
Token(index) == IF index = 0 THEN Magic ELSE snapshot[index]

Init ==
  /\ now = 0 /\ sending = FALSE /\ byte_index = 0 /\ pause = FALSE
  /\ snapshot = [i \in 1 .. Words |-> 0] /\ transmitting = Silence
  /\ phase = "closed" /\ data = <<>> /\ status = "none"
  /\ taken = Nothing /\ heard = 0 /\ latest = Nothing /\ torn = FALSE

capturing == <<phase, data, status>>
history == <<taken, heard, latest, torn>>

(* The status goes on while a packet is being sent.                        *)
Tick ==
  /\ now' = (now + 1) % Moments
  /\ UNCHANGED <<sending, byte_index, pause, snapshot, transmitting, capturing, history>>

(* The pause is longer than a token takes on the line (REPEAT_CYCLES).     *)
PauseEnds ==
  /\ ~sending /\ pause /\ transmitting = Silence /\ pause' = FALSE
  /\ UNCHANGED <<now, sending, byte_index, snapshot, transmitting, capturing, history>>
Snapshot ==
  /\ ~sending /\ ~pause
  /\ snapshot' = [i \in 1 .. Words |-> now] /\ taken' = now
  /\ byte_index' = 0 /\ sending' = TRUE
  /\ UNCHANGED <<now, pause, transmitting, capturing, heard, latest, torn>>

SendLive ==         \* mutant: the words are read when they are sent
  /\ sending /\ transmitting = Silence
  /\ transmitting' = IF byte_index = 0 THEN Magic ELSE now
  /\ IF byte_index + 1 = PacketTokens
     THEN sending' = FALSE /\ pause' = TRUE /\ UNCHANGED byte_index
     ELSE byte_index' = byte_index + 1 /\ UNCHANGED <<sending, pause>>
  /\ UNCHANGED <<now, snapshot, capturing, history>>
Send ==
  /\ sending /\ transmitting = Silence
  /\ transmitting' = Token(byte_index)
  /\ IF byte_index + 1 = PacketTokens
     THEN sending' = FALSE /\ pause' = TRUE /\ UNCHANGED byte_index
     ELSE byte_index' = byte_index + 1 /\ UNCHANGED <<sending, pause>>
  /\ UNCHANGED <<now, snapshot, capturing, history>>

(* A token has gone over the line, to the host if it listens.              *)
Listening == phase = "reading"
Delivered ==
  /\ transmitting # Silence /\ transmitting' = Silence
  /\ Listening => Len(data) < MaxCapture
  /\ data' = IF Listening THEN Append(data, transmitting) ELSE data
  /\ heard' = IF ~Listening THEN 0
              ELSE IF transmitting = Magic THEN 1
              ELSE IF heard > 0 THEN (heard + 1) % PacketTokens ELSE 0
  /\ latest' = IF Listening /\ heard = Words /\ transmitting # Magic THEN taken ELSE latest
  /\ UNCHANGED <<now, sending, byte_index, pause, snapshot, phase, status, taken, torn>>

Reset ==
  /\ sending' = FALSE /\ byte_index' = 0 /\ pause' = FALSE
  /\ snapshot' = [i \in 1 .. Words |-> 0] /\ transmitting' = Silence
  /\ torn' = (torn \/ (Listening /\ heard > 0)) /\ heard' = 0
  /\ UNCHANGED <<now, capturing, taken, latest>>

(* The port is opened and flushed in the middle of whatever is being sent, *)
(* and closed at the deadline.                                             *)
Open ==
  /\ phase = "closed" /\ phase' = "reading"
  /\ UNCHANGED <<now, sending, byte_index, pause, snapshot, transmitting, data, status, history>>
Deadline ==
  /\ phase = "reading" /\ phase' = "captured"
  /\ UNCHANGED <<now, sending, byte_index, pause, snapshot, transmitting, data, status, history>>

-----------------------------------------------------------------------------
(* The last magic with a whole packet behind it.                           *)
Complete(seq) == {i \in DOMAIN seq : seq[i] = Magic /\ i + Words <= Len(seq)}
Decoded(seq) ==
  LET i == CHOOSE n \in Complete(seq) : \A m \in Complete(seq) : m <= n
  IN  SubSeq(seq, i + 1, i + Words)
Decode ==
  /\ phase = "captured" /\ phase' = "decoded"
  /\ status' = IF Complete(data) = {} THEN "no_packet"
               ELSE IF \A i \in 1 .. Words : Decoded(data)[i] \in Passing THEN "pass"
               ELSE "fail"
  /\ UNCHANGED <<now, sending, byte_index, pause, snapshot, transmitting, data, history>>

Stopped == phase = "decoded" /\ UNCHANGED vars
Reporting == phase \in {"closed", "reading"}
Next ==
  \/ (Reporting /\ (Tick \/ PauseEnds \/ Snapshot \/ Send \/ Delivered \/ Reset))
  \/ Open \/ Deadline \/ Decode \/ Stopped
Spec == Init /\ [][Next]_vars

-----------------------------------------------------------------------------
(* Wherever the capture begins and ends, unless a reset cut a packet in it:*)
(* what is decoded are the words of one moment, the latest whose packet was*)
(* heard in full, and the test passes only if all held at that moment.     *)
ReportWhole ==
  phase = "decoded" /\ ~torn =>
    IF latest = Nothing THEN status = "no_packet"
    ELSE /\ Decoded(data) = [i \in 1 .. Words |-> latest]
         /\ status = IF latest \in Passing THEN "pass" ELSE "fail"
=============================================================================
