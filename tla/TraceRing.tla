------------------------------- MODULE TraceRing -------------------------------
(***************************************************************************)
(* rtl/debug/trace_ring_uart.sv and scripts/decode_trace.py: the ring of   *)
(* the last retirements, its dump over the serial line, and the decoder of *)
(* what was captured there.                                                *)
(*                                                                         *)
(* A step is an edge of the clock, and the line is modelled byte by byte.  *)
(* What a record says of a retirement is a number, modulo Numbers: a byte  *)
(* of a record is its place there and that number, and never passes for a  *)
(* letter of the magic.                                                    *)
(***************************************************************************)
EXTENDS Integers, Sequences

CONSTANTS
  Ring,         \* entries of the ring (256 in the code), at least one
  Numbers,      \* retirements are told apart modulo this number, more than Ring + 1
  MaxDumps,     \* dumps between two resets: a bound of the model
  MaxResets,    \* resets after the first: a bound of the model
  KeepsCapture  \* whether the host goes on with its capture over a reset

VARIABLES
  state, entries, read_word,
  write_q, read_q,      \* ram_write_*_q, ram_read_*_q: the registered RAM ports
  count, write_ptr, read_ptr, snapshot_count, sent_records,
  byte_index,   \* header_index in HEADER, byte_index in RECORD
  retire,       \* the core's retirement port: a number or NoRetire
  sending,      \* the byte in the transmitter, or Silence
  capture,      \* the bytes that reached the host
  next, last,   \* history: numbering of the retirements, the last of them
  dumps, cut,   \* history: since the last reset, dumps begun; bytes before it
  resets

vars == <<state, entries, read_word, write_q, read_q, count, write_ptr, read_ptr,
          snapshot_count, sent_records, byte_index, retire, sending, capture,
          next, last, dumps, cut, resets>>

NoRetire == -1
NoWrite == [en |-> FALSE, addr |-> 0, data |-> 0]
NoRead == [en |-> FALSE, addr |-> 0]
Token(kind, index, value) == [kind |-> kind, index |-> index, value |-> value]
Silence == Token("silence", 0, 0)
Magic == [i \in 1 .. 4 |-> Token("magic", i, 0)]     \* TRCE
HeaderBytes == 6
RecordBytes == 17
HeaderOf(n) == Magic \o <<Token("count", 1, n % 256), Token("count", 2, n \div 256)>>

Init ==
  /\ state = "IDLE" /\ entries = [a \in 0 .. Ring - 1 |-> 0] /\ read_word = 0
  /\ write_q = NoWrite /\ read_q = NoRead
  /\ count = 0 /\ write_ptr = 0 /\ read_ptr = 0 /\ snapshot_count = 0
  /\ sent_records = 0 /\ byte_index = 0
  /\ retire = NoRetire /\ sending = Silence /\ capture = <<>>
  /\ next = 0 /\ last = <<>> /\ dumps = <<>> /\ cut = 0 /\ resets = 0

-----------------------------------------------------------------------------
freeze_core == state # "IDLE"
tx_ready == sending = Silence

LastOf(seq) == IF Len(seq) > Ring THEN Tail(seq) ELSE seq

(* The core's side: debug_halt is freeze_core, so what retires at this     *)
(* edge is still seen at the next one, when the ring may be frozen already.*)
CoreRetires ==
  \/ retire' = NoRetire /\ UNCHANGED <<next, last>>
  \/ /\ ~freeze_core
     /\ retire' = next /\ next' = (next + 1) % Numbers
     /\ last' = LastOf(Append(last, next))

RamPorts ==
  /\ write_q' = [en |-> retire # NoRetire, addr |-> write_ptr,
                 data |-> IF retire # NoRetire THEN retire ELSE 0]
  /\ read_q' = [en |-> state = "FETCH", addr |-> read_ptr]
RamAccess ==
  /\ entries' = IF write_q.en THEN [entries EXCEPT ![write_q.addr] = write_q.data] ELSE entries
  /\ read_word' = IF read_q.en THEN entries[read_q.addr] ELSE read_word

Push ==
  IF retire # NoRetire
  THEN /\ write_ptr' = (write_ptr + 1) % Ring
       /\ count' = IF count # Ring THEN count + 1 ELSE count
  ELSE UNCHANGED <<write_ptr, count>>

(* uart_tx_byte: a byte takes any time on the line.                        *)
Sent ==
  /\ sending # Silence /\ capture' = Append(capture, sending) /\ sending' = Silence
Transmits(byte) == tx_ready /\ sending' = byte /\ UNCHANGED capture
Line == UNCHANGED <<sending, capture>> \/ Sent

-----------------------------------------------------------------------------
(* The dump machine.                                                       *)
registers == <<snapshot_count, read_ptr, sent_records, byte_index>>

Idle(button_rise) ==
  /\ state = "IDLE" /\ Line
  /\ state' = IF button_rise THEN "QUIESCE_ONE" ELSE "IDLE"
  /\ UNCHANGED <<registers, dumps>>
SnapshotEarly ==      \* mutant: the snapshot one clock early
  /\ state = "QUIESCE_ONE" /\ state' = "HEADER" /\ Line
  /\ snapshot_count' = count /\ read_ptr' = (write_ptr - count) % Ring
  /\ sent_records' = 0 /\ byte_index' = 0
  /\ dumps' = Append(dumps, last)
QuiesceOne ==
  /\ state = "QUIESCE_ONE" /\ state' = "QUIESCE_TWO" /\ Line
  /\ UNCHANGED <<registers, dumps>>
Snapshot ==
  /\ state = "QUIESCE_TWO" /\ state' = "HEADER" /\ Line
  /\ snapshot_count' = count /\ read_ptr' = (write_ptr - count) % Ring
  /\ sent_records' = 0 /\ byte_index' = 0
  /\ dumps' = Append(dumps, last)
Header ==
  /\ state = "HEADER"
  /\ \/ Line /\ UNCHANGED <<state, registers>>
     \/ /\ Transmits(HeaderOf(snapshot_count)[byte_index + 1])
        /\ IF byte_index + 1 = HeaderBytes
           THEN /\ state' = IF snapshot_count = 0 THEN "IDLE" ELSE "FETCH"
                /\ UNCHANGED byte_index
           ELSE byte_index' = byte_index + 1 /\ UNCHANGED state
        /\ UNCHANGED <<snapshot_count, read_ptr, sent_records>>
  /\ UNCHANGED dumps
Fetch ==
  /\ state = "FETCH" /\ state' = "FETCH_WAIT" /\ byte_index' = 0 /\ Line
  /\ UNCHANGED <<snapshot_count, read_ptr, sent_records, dumps>>
FetchWait ==
  /\ state = "FETCH_WAIT" /\ state' = "RECORD" /\ Line
  /\ UNCHANGED <<registers, dumps>>
SendRecord ==
  /\ state = "RECORD"
  /\ \/ Line /\ UNCHANGED <<state, registers>>
     \/ /\ Transmits(Token("record", byte_index + 1, read_word))
        /\ IF byte_index + 1 = RecordBytes
           THEN /\ sent_records' = sent_records + 1 /\ read_ptr' = (read_ptr + 1) % Ring
                /\ state' = IF sent_records + 1 = snapshot_count THEN "IDLE" ELSE "FETCH"
                /\ UNCHANGED byte_index
           ELSE byte_index' = byte_index + 1 /\ UNCHANGED <<state, read_ptr, sent_records>>
        /\ UNCHANGED snapshot_count
  /\ UNCHANGED dumps

Edge ==
  /\ CoreRetires /\ RamPorts /\ RamAccess /\ Push
  /\ \/ \E button_rise \in {b \in BOOLEAN : b => Len(dumps) < MaxDumps} : Idle(button_rise)
     \/ QuiesceOne \/ Snapshot \/ Header \/ Fetch \/ FetchWait \/ SendRecord
  /\ UNCHANGED <<cut, resets>>

(* Reset, of the core too: a write admitted before drains into the RAM, a  *)
(* byte in the transmitter is lost.                                        *)
Reset ==
  /\ resets < MaxResets /\ resets' = resets + 1
  /\ state' = "IDLE" /\ count' = 0 /\ write_ptr' = 0 /\ read_ptr' = 0
  /\ snapshot_count' = 0 /\ sent_records' = 0 /\ byte_index' = 0
  /\ write_q' = NoWrite /\ read_q' = NoRead /\ RamAccess
  /\ retire' = NoRetire /\ last' = <<>>
  /\ sending' = Silence
  /\ capture' = IF KeepsCapture THEN capture ELSE <<>>
  /\ dumps' = <<>> /\ cut' = Len(capture')
  /\ UNCHANGED next

Next == Edge \/ Reset
Spec == Init /\ [][Next]_vars
-----------------------------------------------------------------------------
(* decode: from each magic on, the count says how much to take; the search *)
(* goes on behind it, and what holds no whole magic any more is not looked *)
(* at.  A failure anywhere fails the whole capture.  A letter read as part *)
(* of the count makes it more than 256, the entries of the ring.           *)
Count(data, start) == data[start + 4].value + 256 * data[start + 5].value
After(data, start) == start + HeaderBytes + RecordBytes * Count(data, start)
Packet(data, start) == SubSeq(data, start + HeaderBytes, After(data, start) - 1)
Refused(data, start) ==
  \/ start + HeaderBytes > Len(data) + 1
  \/ \E i \in {4, 5} : data[start + i].kind # "count"
  \/ Count(data, start) > Ring
  \/ After(data, start) > Len(data) + 1
Starts(data, cursor) ==
  {i \in cursor .. Len(data) - 3 : \A j \in 1 .. 4 : data[i + j - 1] = Magic[j]}
Earliest(starts) == CHOOSE i \in starts : \A j \in starts : i <= j
Fails == [ok |-> FALSE, packets |-> <<>>]
Decoded(data) ==
  LET from[cursor \in 1 .. Len(data) + 1] ==
        LET starts == Starts(data, cursor)
            start == Earliest(starts)
            rest == from[After(data, start)]
        IN  IF starts = {} THEN [ok |-> TRUE, packets |-> <<>>]
            ELSE IF Refused(data, start) THEN Fails
            ELSE [ok |-> rest.ok, packets |-> <<Packet(data, start)>> \o rest.packets]
  IN  from
decode(data) ==
  LET all == Decoded(data)[1] IN IF all.ok /\ all.packets # <<>> THEN all ELSE Fails

(* What a dump of these retirements looks like, byte by byte.              *)
Dump(records) ==
  HeaderOf(Len(records))
  \o [i \in 1 .. RecordBytes * Len(records) |->
        Token("record", ((i - 1) % RecordBytes) + 1, records[((i - 1) \div RecordBytes) + 1])]
Records(records) == SubSeq(Dump(records), HeaderBytes + 1, Len(Dump(records)))

(* The first k of some dumps, one after the other, for each k.             *)
Whole(some) ==
  LET whole[k \in 0 .. Len(some)] ==
        IF k = 0 THEN <<>> ELSE whole[k - 1] \o Dump(some[k])
  IN  whole

(* Whenever a capture that began after a reset stops: what was sent is the *)
(* last retirements before each freeze, oldest first, none missing and none*)
(* twice, none of before the reset.  It decodes to the dumps that are whole*)
(* when it stops behind the last of them or inside the four letters that   *)
(* begin the next, where the decoder finds no magic and ends its search    *)
(* (decode_trace.py:14-16); it is refused when it stops anywhere else, and *)
(* when no dump is whole (trace_ring_uart.sv:103-148).                     *)
TraceDecoded ==
  LET data == SubSeq(capture, cut + 1, Len(capture))
      whole == {k \in DOMAIN dumps : Len(data) - Len(Whole(dumps)[k]) \in 0 .. 3}
  IN  /\ data = SubSeq(Whole(dumps)[Len(dumps)], 1, Len(data))
      /\ IF whole = {} THEN decode(data) = Fails
         ELSE LET k == CHOOSE n \in whole : TRUE IN
              decode(data) = [ok |-> TRUE, packets |-> [i \in 1 .. k |-> Records(dumps[i])]]

(* docs/debug.md:9 wants truncated packets rejected.  Over a reset, too:   *)
(* what is accepted holds nothing but records, the bytes of each in their  *)
(* places (decode_trace.py:22-33).                                         *)
SplicedRejected ==
  decode(capture).ok =>
    \A i \in DOMAIN decode(capture).packets :
      LET packet == decode(capture).packets[i] IN
      \A k \in DOMAIN packet :
        packet[k].kind = "record" /\ packet[k].index = ((k - 1) % RecordBytes) + 1
=============================================================================
