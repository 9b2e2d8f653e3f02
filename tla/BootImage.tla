------------------------------ MODULE BootImage ------------------------------
(***************************************************************************)
(* scripts/pack_checkpoint10_image.py and                                  *)
(* rtl/top/checkpoint10_image_loader.sv: firmware and payload packed into  *)
(* a ROM that leaves out the gap between them, copied to memory, gap       *)
(* included, and read back word by word before the CPU is released.        *)
(*                                                                         *)
(* A step is a clock edge.  The memory behind the AXI port may be slow,    *)
(* lose a write, answer with an error or never.                            *)
(***************************************************************************)
EXTENDS Integers, Sequences

CONSTANTS
  WordBytes,    \* bytes of a word (16 in the code)
  Reserved,     \* bytes reserved for the firmware, whole words (16#40000 in the code)
  PayloadLimit, \* the payload is shorter than this (16#10000 in the code)
  Files,        \* pairs of a firmware and a payload, as sequences of bytes
  Timeout,      \* TIMEOUT_CYCLES
  MaxResets     \* resets after the first: a bound of the model

VARIABLES
  firmware, payload,
  packed,       \* what the packer wrote: the ROM and its defines, or nothing
  state, index, aw_pending, w_pending, watchdog, progress,  \* the loader
  rom_word, gap_word,   \* its registered ROM output
  ddr,          \* memory: a word for each index
  port,         \* the burst in the memory port: address, data, answer
  resets

vars == <<firmware, payload, packed, state, index, aw_pending, w_pending, watchdog, progress,
          rom_word, gap_word, ddr, port, resets>>

Zeros(n) == [i \in 1 .. n |-> 0]
Pad(bytes) == bytes \o Zeros((WordBytes - (Len(bytes) % WordBytes)) % WordBytes)
Words(bytes) ==
  [w \in 0 .. (Len(bytes) \div WordBytes) - 1 |->
     SubSeq(bytes, w * WordBytes + 1, (w + 1) * WordBytes)]

Refused == ~(Len(firmware) \in 1 .. Reserved - 1) \/ ~(Len(payload) \in 1 .. PayloadLimit - 1)
image == Pad(firmware \o Zeros(Reserved - Len(firmware)) \o payload)
rom_data == Pad(firmware) \o Pad(payload)
Packed ==
  [rom |-> Words(rom_data),
   IMAGE_WORDS |-> Len(image) \div WordBytes,
   FIRMWARE_WORDS |-> Len(Pad(firmware)) \div WordBytes,
   PAYLOAD_WORD |-> Reserved \div WordBytes]
Nothing == [IMAGE_WORDS |-> 0]

-----------------------------------------------------------------------------
Junk == [i \in 1 .. WordBytes |-> -1]
NoBurst == [kind |-> "none"]

Init ==
  /\ \E files \in Files : firmware = files[1] /\ payload = files[2]
  /\ packed = Nothing
  /\ state = "OFF" /\ index = 0 /\ aw_pending = TRUE /\ w_pending = TRUE
  /\ watchdog = 0 /\ progress = 0 /\ rom_word = Junk /\ gap_word = FALSE
  /\ ddr = <<>> /\ port = NoBurst /\ resets = 0

Pack ==
  /\ state = "OFF" /\ ~Refused
  /\ packed' = Packed
  /\ state' = "FETCH" /\ ddr' = [w \in 0 .. Packed.IMAGE_WORDS - 1 |-> Junk]
  /\ UNCHANGED <<firmware, payload, index, aw_pending, w_pending, watchdog, progress,
                 rom_word, gap_word, port, resets>>
PackRefuses == state = "OFF" /\ Refused /\ UNCHANGED vars

rom_index ==
  IF index < packed.FIRMWARE_WORDS THEN index
  ELSE IF index >= packed.PAYLOAD_WORD THEN index - packed.PAYLOAD_WORD + packed.FIRMWARE_WORDS
  ELSE 0
RomRead ==
  /\ rom_word' = packed.rom[rom_index]
  /\ gap_word' = (index >= packed.FIRMWARE_WORDS /\ index < packed.PAYLOAD_WORD)
image_word == IF gap_word THEN Zeros(WordBytes) ELSE rom_word

(* The memory's side of an edge: which of the offered channels it takes,   *)
(* and what it answers.  It takes data before, with or after its address.  *)
Writing == [kind |-> "write", at |-> index, aw |-> FALSE, w |-> Junk]
Reading == [kind |-> "read", at |-> index]

Ended == state \in {"FINISHED", "FAILED"}
Expired == ~Ended /\ watchdog = Timeout - 1
Goto(s) == state' = IF Expired THEN "FAILED" ELSE s
Counts == watchdog' = IF Ended THEN 0 ELSE watchdog + 1
memory == <<ddr, port>>
progressed == <<index, progress>>

Fetch ==
  /\ state = "FETCH" /\ Goto("WRITE") /\ Counts
  /\ aw_pending' = TRUE /\ w_pending' = TRUE
  /\ UNCHANGED <<progressed, memory>>

Write(awready, wready) ==
  LET burst == IF port.kind = "write" THEN port ELSE Writing
      aw == burst.aw \/ (aw_pending /\ awready)
      w == IF w_pending /\ wready THEN image_word ELSE burst.w
  IN
  /\ state = "WRITE" /\ Counts
  /\ aw_pending' = (aw_pending /\ ~awready) /\ w_pending' = (w_pending /\ ~wready)
  /\ port' = [burst EXCEPT !.aw = aw, !.w = w]
  /\ IF ~aw_pending' /\ ~w_pending' THEN Goto("RESPONSE") ELSE Goto("WRITE")
  /\ UNCHANGED <<progressed, ddr>>

(* B: an error, or OKAY whether the word was stored or lost.               *)
Response ==
  /\ state = "RESPONSE"
  /\ \/ Goto("RESPONSE") /\ Counts /\ UNCHANGED memory
     \/ /\ watchdog' = 0 /\ port' = NoBurst
        /\ ddr' \in {ddr, [ddr EXCEPT ![port.at] = port.w]}
        /\ Goto("READ") \/ Goto("FAILED")
  /\ UNCHANGED <<progressed, aw_pending, w_pending>>

Read ==
  /\ state = "READ" /\ Counts
  /\ \/ Goto("READ") /\ UNCHANGED port
     \/ Goto("VERIFY") /\ port' = Reading
  /\ UNCHANGED <<progressed, aw_pending, w_pending, ddr>>

Last == index = packed.IMAGE_WORDS - 1
VerifyFirst ==      \* mutant: only the first word is compared
  /\ state = "VERIFY"
  /\ \/ Goto("VERIFY") /\ Counts /\ UNCHANGED <<progressed, port>>
     \/ /\ watchdog' = 0 /\ port' = NoBurst
        /\ IF index = 0 /\ ddr[port.at] # image_word
           THEN Goto("FAILED") /\ UNCHANGED progressed
           ELSE /\ progress' = progress + 1
                /\ IF Last THEN Goto("FINISHED") /\ UNCHANGED index
                           ELSE Goto("FETCH") /\ index' = index + 1
  /\ UNCHANGED <<aw_pending, w_pending, ddr>>
VerifyNoWatchdog ==     \* mutant: the watchdog wraps while a read is waited for
  /\ state = "VERIFY"
  /\ \/ /\ watchdog' = (watchdog + 1) % Timeout /\ UNCHANGED <<state, progressed, port>>
     \/ /\ watchdog' = 0 /\ port' = NoBurst
        /\ \/ Goto("FAILED") /\ UNCHANGED progressed
           \/ /\ ddr[port.at] = image_word /\ progress' = progress + 1
              /\ IF Last THEN Goto("FINISHED") /\ UNCHANGED index
                         ELSE Goto("FETCH") /\ index' = index + 1
  /\ UNCHANGED <<aw_pending, w_pending, ddr>>
(* R: an error, or what memory holds.                                      *)
Verify ==
  /\ state = "VERIFY"
  /\ \/ Goto("VERIFY") /\ Counts /\ UNCHANGED <<progressed, port>>
     \/ /\ watchdog' = 0 /\ port' = NoBurst
        /\ \/ Goto("FAILED") /\ UNCHANGED progressed
           \/ /\ ddr[port.at] = image_word /\ progress' = progress + 1
              /\ IF Last THEN Goto("FINISHED") /\ UNCHANGED index
                         ELSE Goto("FETCH") /\ index' = index + 1
  /\ UNCHANGED <<aw_pending, w_pending, ddr>>

Ends == Ended /\ Counts /\ UNCHANGED <<state, progressed, aw_pending, w_pending, memory>>

Edge ==
  /\ state # "OFF" /\ RomRead
  /\ \/ Fetch \/ (\E awready, wready \in BOOLEAN : Write(awready, wready)) \/ Response
     \/ Read \/ Verify \/ Ends
  /\ UNCHANGED <<firmware, payload, packed, resets>>

(* masters_ready falls: the fabric and the memory forget the burst too, or *)
(* store it yet.                                                           *)
Reset ==
  /\ state # "OFF" /\ resets < MaxResets /\ resets' = resets + 1
  /\ state' = "FETCH" /\ index' = 0 /\ progress' = 0
  /\ aw_pending' = TRUE /\ w_pending' = TRUE /\ watchdog' = 0 /\ RomRead
  /\ port' = NoBurst
  /\ ddr' \in IF port.kind = "write" /\ port.aw /\ port.w # Junk
              THEN {ddr, [ddr EXCEPT ![port.at] = port.w]} ELSE {ddr}
  /\ UNCHANGED <<firmware, payload, packed>>

Next == Pack \/ PackRefuses \/ Edge \/ Reset
Spec == Init /\ [][Next]_vars
(* The clock runs; of memory nothing is assumed.                           *)
FairSpec == Spec /\ WF_vars(Pack) /\ WF_vars(Edge)

-----------------------------------------------------------------------------
(* What the CPU must find: every byte of the firmware and of the payload   *)
(* at its address, zeros everywhere else.                                  *)
ByteAt(a) == IF a < Len(firmware) THEN firmware[a + 1]
             ELSE IF a - Reserved \in 0 .. Len(payload) - 1 THEN payload[a - Reserved + 1]
             ELSE 0

(* The CPU is released only over the whole image, whatever memory lost and *)
(* whenever the copy was started again, for every pair of lengths.         *)
ImageLoaded ==
  state = "FINISHED" =>
    /\ progress * WordBytes >= Reserved + Len(payload)
    /\ \A w \in DOMAIN ddr : ddr[w] = [i \in 1 .. WordBytes |-> ByteAt(w * WordBytes + i - 1)]

(* The copy ends, even when memory never answers.                          *)
LoaderEnds == ~Refused => <>[](state \in {"FINISHED", "FAILED"})
=============================================================================
