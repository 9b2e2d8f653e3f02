# Formal models of the pipelined core, its memory system and its tools

This directory holds TLA+ models of the SystemVerilog under `src/rtl` and of the
Python tools under `src/scripts` that compare, measure and load it, the TLC
configurations that check them on small instances and the TLAPS proofs that
settle the most important properties for every value of the parameters.

The system is an RV32IMA processor for an FPGA board: a five-stage core with two
L1 caches, a four-master AXI fabric, a clock-domain crossing to the DDR
controller, memory-mapped devices, a trace dump and a boot image loader. What is
hard in it is not arithmetic but the order of events: two clocks, asynchronous
resets, five independent AXI channels, registered RAM ports, two interrupt
contexts, and requests that are abandoned half way. The tools have the same
trouble from the other side: they talk to simulators, boards and serial lines that
may be slow, wrong, cut off or dead, and their verdict is what the project's
evidence rests on.

## Inventory

| Component (under `src/`, hardware under `src/rtl/`) | State it keeps | Operations | What must hold | Here |
|---|---|---|---|---|
| Asynchronous FIFO `bus/async_fifo.sv` | storage, binary and Gray pointers of each side, two synchroniser stages each way, release counters | an edge of either clock or of both, reset | it is a queue of at most `DEPTH` items under any clock interleaving; offers are stable; neither side waits for ever | modelled and proved |
| AXI fabric `bus/axi_fabric.sv`, `bus/axi128_pkg.sv` | read machine, write machine, owner, round-robin pointer, slave, ID, beat counter | grant, beat, response, refusal, reset | each burst answered once, to its owner, by the right slave; bounded waiting; refused bursts reach nobody | modelled and proved |
| L1 cache `cache/l1_cache.sv` | valid, dirty, LRU, data and tag RAM with registered ports, miss and scan registers | lookup, eviction, refill, bypass, clean, invalidate, reset | the requester sees a memory; a dirty line is never lost, whatever fails; cleaning leaves nothing dirty | modelled and proved |
| PLIC `peripherals/plic.sv` | priorities, enables, thresholds, pending, in service, owner, one bus response | latching, register access, claim, completion, reset | a source is served by one context at a time, is not raised meanwhile, and its line does not fall unexplained | modelled and proved |
| Crossing and reset chain `bus/axi_cdc.sv`, `bus/axi_subsystem.sv` | five FIFOs, release shift registers, `link_rst_n` | calibration, its loss, release | no beat of an old life answers a new request; after a loss the system comes back | modelled and proved |
| Cached core `top/rv32_cached_core.sv` | outstanding fetch, data state, FENCE.I state | fetch, redirect, load, store, FENCE.I | FENCE.I order, late fetches dropped, FENCE.I ends | modelled (not the debug halt) and proved |
| Atomic lock and snoop `top/checkpoint9_top.sv`, with the reservation of `core/rv32_slice.sv` | external write addresses, reservation, atomic in MEM or WB | lock, drain, AW mask, snoop, LR, SC, AMO | atomics not interleaved with another master's write, an SC only on an untouched word, no deadlock | modelled and proved |
| Lockstep comparison `scripts/lockstep.py` | two processes, pipes, a terminal, a reader thread, counters | align, step, compare, inject, report, clean up | neither side runs ahead; only equal steps count; the exit status is true; it ends and leaves nothing behind | modelled and proved |
| Coverage closure `scripts/report_cpu_coverage.py`, `scripts/close_cpu_cross_coverage.py` | directory of counter files, ledger, manifest | merge, search, fail, freeze, replay, gate | a bin is credited once, to a run that hit it; closed means hit; the frozen seeds close it again | modelled and proved |
| Directed sessions `scripts/verify_cached_core.py`, `scripts/check_cpu_coverage.py` | one DUT over pipes | step, quit, wait, kill | a run that returns saw its end; no process is left | `run()` of both, modelled and proved |
| Trace dump `debug/trace_ring_uart.sv`, `debug/checkpoint10_uart_owner.sv`, `scripts/decode_trace.py` | ring, RAM ports, pointers, dump machine | retire, freeze, snapshot, send, decode | the dump holds the last retirements, in order, and decodes to them; the pin is taken from a console that has nothing left to send | modelled and proved |
| Image `scripts/pack_checkpoint10_image.py`, `top/checkpoint10_image_loader.sv` | ROM, index, machine, watchdog | pack, write, read back, restart | the CPU is released only over the whole image; the copy ends | modelled and proved |
| Boot capture `scripts/capture_checkpoint10.py` | bytes read, challenge sent | read, challenge, verify | passes exactly when one boot went through | modelled and proved |
| Board report `top/checkpoint9_uart_report.sv`, `scripts/capture_checkpoint9.py`, `scripts/decode_checkpoint9.py` | snapshot, byte index, capture | snapshot, send, capture, decode | the words decoded are of one moment | modelled and proved |
| Flash layout `scripts/check_flash_layout.py` | end of the regions so far | check region, spare, artifact | no byte belongs to two regions | modelled and proved |
| Pipeline `core/rv32_slice.sv` | five stages, register file, CSRs, PMP, divider | fetch to write-back, stall, redirect, trap, interrupt | precise traps and interrupts, hazards | not modelled, but for the parts in the rows above |
| Peripheral bus `bus/axi_peripheral_adapter.sv`, `bus/axi_width_bridge.sv`, `peripherals/checkpoint10_mmio.sv` | adapter machine, width-bridge machine, response owner | narrow and wide accesses, refusals | exactly one device request for each access; answers go to the access | modelled and proved |
| CLINT `peripherals/clint.sv` | `mtime`, `mtimecmp`, `msip`, tick divider | tick, 32-bit writes of 64-bit registers | the documented write sequence raises no spurious interrupt | modelled and proved |
| UART `peripherals/uart16550.sv` | two FIFOs, shifters, interrupt causes | push, pop, clear, serial bits | no byte lost while a count says there is room; THRE, overrun | modelled but for the waveform, proved |
| Board tops and traffic generators `top/*` | self-test sequences | | clients of the fabric | wiring; the fabric model's masters are free |
| Vendor reports and build scripts `scripts/*.sh`, `scripts/*.tcl`, `scripts/summarize_checkpoint9_reports.py` | none | sequences of tool calls, text extraction | | not modelled |

How they interact: the core asks its caches one request at a time over
ready/valid ports. The caches, the loader and the DMA are the fabric's four
masters. The fabric's slave 0 is the crossing (five asynchronous FIFOs) to the
DDR controller, its slave 1 the peripheral adapter, behind which the CLINT, the
PLIC and the UART hang. The PLIC's two outputs and the CLINT's are inputs of the
core. Loss of calibration resets link and fabric; `core_release` holds the
masters until both sides are up again. The retirement port of the core feeds the
trace ring, and, in simulation, the events that `lockstep.py` compares with Spike;
each of those runs leaves a counter file for the coverage scripts, which start
`lockstep.py` for every seed. The loader is one of the fabric's masters and copies
what the packing script wrote.

`PROJECT.json` lists the hazards at their lines.

## Modules

| Module | Models | Role |
|---|---|---|
| `BoundedFifo` | what `async_fifo` promises | abstract queue with `Put`, `Get`, both, `Flush` |
| `AsyncFifo` | `async_fifo`, pointers as numbers | the protocol between the clocks |
| `GrayFifo` | `async_fifo`, pointers as bits | shown to implement `AsyncFifo` |
| `AxiFabric` | `axi_fabric` with its masters and slaves | arbitration and routing |
| `MCAxiFabric` | | request sets for the fabric's runs |
| `BusProofs` | | the proofs of `AsyncFifo`, `GrayFifo` and `AxiFabric` |
| `CachedMemory` | what a cache promises | one memory, one request at a time |
| `L1Cache` | `l1_cache` with the memory behind it | shown to implement `CachedMemory` |
| `MCL1Cache` | | request sets for the cache's runs |
| `L1CacheProofs` | | the proofs of `L1Cache` |
| `Atomic` | lock, drain, mask, snoop, reservation, the fabric's write machine | atomics against other masters |
| `MCAtomic` | | words and values for its runs |
| `AtomicProofs` | | its proofs |
| `CachedCore` | `rv32_cached_core` over two abstract caches | fetch tracking and FENCE.I |
| `CachedCoreProofs` | | its proofs |
| `ResetChain` | `axi_subsystem`, `axi_cdc`, the core's reset, bursts in flight | loss of the memory and recovery |
| `ResetChainProofs` | | its proofs |
| `Plic` | `plic` with its wires | claim and completion |
| `PeripheralBus` | `axi_width_bridge`, `axi_peripheral_adapter`, `checkpoint10_mmio` | the way of an uncached access |
| `Clint` | `clint` beside software that sets deadlines | the timer |
| `Uart16550` | `uart16550` beside software that counts its room | rings and interrupt causes |
| `UartOwner` | `checkpoint10_uart_owner` and a store on its way | handover of the serial pin |
| `MCDevices` | `Plic` and the four above side by side | the run about the devices |
| `DeviceProofs` | | the proofs of all five |
| `MCLink` | `AsyncFifo`, `GrayFifo` and `ResetChain` side by side | the run about the link to memory |
| `MCCacheProgress` | `L1Cache` and `CachedCore` side by side | the run about what the caches must finish |
| `LockstepCompare` | the parsing and comparing functions of `lockstep.py` | pure, with reference definitions |
| `Lockstep` | the controller of `lockstep.py`, a DUT and Spike | the protocol of the comparison |
| `MCLockstep` | | a program, right and wrong events and answers |
| `LockstepProofs` | | the proofs of `Lockstep` |
| `CoverageClosure` | `report_cpu_coverage.py`, `close_cpu_cross_coverage.py` | search, ledger, replay |
| `MCCoverageClosure` | | two cross groups and a plain one |
| `DutSession` | `run()` of `verify_cached_core.py` and `check_cpu_coverage.py` | a session with a DUT |
| `TraceRing` | `trace_ring_uart`, `decode_trace.py` | ring, dump and decoder |
| `BootImage` | `pack_checkpoint10_image.py`, `checkpoint10_image_loader` | packing and copying |
| `BootConsole` | `capture_checkpoint10.py` and the board | milestones and the challenge |
| `BoardReport` | `checkpoint9_uart_report`, its capture and decoder | packets and stretches of them |
| `FlashLayout` | `check_flash_layout.py` | regions and artifacts |
| `MCTools` | the six modules above, `DutSession` to `FlashLayout` | one run about them |
| `ToolProofs` | | the proofs of `CoverageClosure` and of the tools in `MCTools` |

### AsyncFifo, GrayFifo and BoundedFifo

A step is a rising edge of the write clock (`WrTick`), of the read clock
(`RdTick`), of both too close to order (`BothTick`), or a change of the
asynchronous reset. An edge performs the whole process of its clock: release
counter, pointer, storage, both synchroniser stages. In `BothTick` each side may
capture the other's pointer before or after its move. `GrayFifo` is where that is
justified: there each *bit* that changes may be captured old or new, and
`ImplementsPointers` says that the result is always one of the two pointers. The
payload is left out of `GrayFifo` since payloads never cross as synchronised
words, and the Gray registers carry their own initial values and updates. A word is
a function from the bit positions `0 .. PTR` to bits; `Bit` and `Number` go from a
number to its bits and back, by the powers of two (`Power`), and `Parities` is the
loop of `gray_to_bin`, from the highest bit down.

Every word in the FIFO is a member of `Data`. `contents`, the refinement mapping
to `BoundedFifo`, is the storage from the slot of `rd_bin` to that of `wr_bin`.

### AxiFabric

The read machine and the write machine share no register, so an edge of the
first and an edge of the second are separate actions. A master asks (`AskRead`,
`AskWrite`) and waits; `GrantRead` and `GrantWrite` are the cycle in which the
picked master's address is accepted, either by a slave (the step is the slave's
ready) or by the fabric itself when `Decode` refuses it. Beats and responses
follow one action each. A request keeps what the fabric distinguishes: the
destination its address, length and size decode to, whether its address lies in
the DMA window, its length, its ID. Addresses and data are not modelled; the
`decode` function is summarised by the field `dst`, and the rule for master 3 is
`Decode`. The masters and slaves of the model obey the protocol the RTL's own
obey: a master has one read and one write outstanding and moves `len + 1` beats,
a slave returns the beats it was asked for.

Two things are not in this module: `checkpoint9_top` masks the AW of two masters
while an atomic holds the lock, so that a request may be withdrawn before it is
accepted (`Atomic` has that); and masters that leave reset at another moment than
the fabric (`ResetChain` has that).

`r_passed` and `w_passed` are history: how often others were granted while a
master waited, counted to `N`. They appear in no guard.

### L1Cache and CachedMemory

One action for each state of the machine (two where a beat may be good or bad).
The RAM ports are registered: an action *asks* the RAM for a read or a write, and
`RamPorts`, a conjunct of every edge, performs at the next edge what was asked
before. An edge at which the machine waits is therefore a step too (`Stall`):
it completes a RAM access. Dirty, valid and LRU bits are reset, RAMs are not, and
a write registered before reset drains into the RAM in the cycle after.

A line is its two bus beats, each one tracked word. The four bytes of a word, the
two error codes and the performance counters are abstracted. The memory behind
the cache is inside the model (`mem`) and answers any beat with or without an
error; a write-back that fails may have stored any part of the line. The cache is
the only writer of its cacheable lines: the fabric refuses the DMA master
(`SlavesServeOwner`) and loader writes happen before the core is released.

`Current`, the refinement mapping, is the line a way holds (with the RAM write
that is about to land) or else what memory holds. `ImplementsMemory` then says
that a load returns the word last stored and that nothing else changes a word;
the abstract `Reset` may lose words since dirty lines are dropped.

### Atomic

The atomic interval crosses three files, and the module has the part of each that
takes part in it: the instruction in MEM or WB and the reservation
(`rv32_slice`), the data port (`rv32_cached_core`), the lock, mask and snoop
(`checkpoint9_top`), and the fabric's write machine. ID holds an atomic back until
EX, MEM and WB are empty, and holds what follows back behind it, so that one
`stage` and one `op` are enough. All words are uncached, as atomics and DMA
memory are in the system; a word is a beat and a lane of it, memory is the words that the
core uses, and the snoop compares the beat with its address register and the lane
with the strobes.

What the code does in one edge across the files is one action: `WriteBeat` is the
beat accepted, the fabric's counter, the snoop's address increment and the
reservation. An accepted beat is `inflight` until `Land`, at any moment before
the response, so that a grant, the acceptance of a beat and its effect in memory
are three different moments; memory is written in any order. The fabric may refuse any
burst (`w_error`: the decode of its address and the DMA rule, which `AxiFabric` has, are a free
choice here): it then drains the beats with `wready` high in `W_ERROR`, stores none and
answers with an error. The snoop sees these beats as it sees the others, so that a refused
burst clears the reservation though memory is untouched; `SnoopExact` says so, and that a
beat that stores elsewhere leaves the reservation alone. The slave's own response may be an error with
any part of the burst stored. `link` and `written` are history: the
word unwritten since LR read it, and whether the core's own write has landed.

`Trap` stands for everything that drops the reservation without touching memory:
another instruction that traps, an interrupt, a return.

### CachedCore

`fetch_pc`, the IF and ID stages, whether EX holds FENCE.I, and the access in MEM
or WB are the pipeline; `i_busy`, `i_addr`, `dstate` and `fstate` are the
registers of `rv32_cached_core`. The caches are reduced to what they hold:
`icopy`, the copies that a fetch may hit, and `dcopy`, the dirty words.
`FetchAnswer` may hit, refill in the place of any line, or fail; `WriteBack` may
happen at any time in an access or a scan, and may fail after memory has changed;
`CleanEnd` succeeds only with nothing dirty, which is `CleanIsComplete` of
`L1Cache`. Clean copies in the data cache are left out, being what memory
holds (`Coherent`).

`Advance` is one clock of the front end that moves, with every case of the code:
the answer taken, none, or a PMP refusal that also drops an answer. `Redirect` is
everything that empties IF and ID and sets `fetch_pc` anywhere; a fetch
outstanding then is left to `Drop`, and if `fetch_pc` comes back to its address
before that it is taken, as in the code. An instruction that was *delivered with an
error* may by chance carry the bits of FENCE.I: the core then runs the whole fence
before it traps. This is harmless and is in the model (`Advance` lets such a word
enter EX as a fence, and `FenceLeave` may then not halt).

`since`, history, is the set of addresses stored to since the last FENCE.I that
did not fail; a fetch of one of them may be old, as the architecture allows.

### ResetChain

The composition of what `link_rst_n` resets. `mig_release`, `link_rst_n`,
`core_release` and `cpu_reset_n` are the registers of that name; `core_side` and
`mig_side` are the `wr_release` and `rd_release` of the five FIFOs, by the clock
they belong to. `LinkDown` is everything that falls with `link_rst_n` without
a clock. The masters are reset at an edge of their clock only (`Clocked`): those in
`Cpu` when `cpu_reset_n` is low, an edge after `masters_ready`
(`REGISTER_CPU_RESET`, which the Linux board sets), those in `Loader` when
`masters_ready` itself is. `cpu_run` is not there: in the boards it is constant or
the loader's `FINISHED`, which only falls with `masters_ready`.

`link_rst_n` rises on the other clock. At the next edge of the core's clock, each
of the registers it releases may or may not see it (`Late`): every one on its own.
The same on the memory's side is not needed, as `link_rst_n` is a register of that
clock. While the fabric is held in reset its combinational paths still work: it
passes an address on and forgets it (`GrantRead`, `GrantWrite`).

A FIFO is `BoundedFifo`'s queue, with both sides held back by their release
registers; an item may stay unseen as long as it likes. A burst is one beat, the
owner's choice is free (`AxiFabric` has both), writes go to memory only, and a
request is the pair of its master and the life of the link in which it was made.
`life` and the requests' `life` are history, modulo `Lives`; they appear in no
guard. The controller is external: it works only while calibrated, forgets
everything when calibration is lost, and needs longer to calibrate again than
`link_rst_n` to fall.

### Plic

A step is a clock edge, with what the bus does in it, or a change of the
interrupt wires between edges. `Raised` is the gateway: pending bits are latched
in every edge, before the bus action removes what it claims. `Best` is the scan
of the candidates in ascending source order. Register writes carry one bit more
than a priority has; `Field` drops it. `claimed` is history: what each context was
given and has not completed. Of a request the model keeps the register it hits;
address and strobe errors are one (`BadRequest`).

### PeripheralBus, Clint, Uart16550 and UartOwner

`PeripheralBus`: each handshake is a step. The fabric is what its model shows it to
be, one read and one write at a time (`r_owner`, `w_owner`), and both may be under
way while the adapter, which has one state, serves them in turn. A device that
accepts a request does its operation then and keeps the answer in its response register;
`operated` is history, the operations done for the access of each master.
`AccessOnce` compares it with the access, and the code that comes back with what
the access deserved: no other device's answer, nor an earlier one.

`Clint`: an edge divides the clock and takes at most one request. `Postpone`,
`SetLow` and `SetHigh` are the three writes that `docs/architecture-contract.md`
asks of software; any other access, the time being set included, may come between
them. `TimerExact` says that the contract's order is enough: between the writes the
interrupt is not raised before its time, and before and after them it is exact.

`Uart16550`: `Op` is what the bus does in an edge, `ends` the end of a character
on the line, `got` one received in that edge, in any combination. `owed` and `heard`
are history, the sequences that the rings should hold; `room` is what software may
still write since it last read that the ring is empty, from LSR or as the THRE
cause. A behaviour is about the transmitter or about the receiver (`side`), as the two
share only registers and the interrupt. A ring of two stands for sixteen.

`UartOwner`: `console` counts the characters that the console has to send,
`flight` the edges since a store was accepted that has not arrived. The quiet window
is needed for that store alone; that it is long enough (`Latency <=
QUIET_CYCLES`) is an assumption of the instance, met with equality: the
code waits 64 edges, and a bypassed store passes the bridge, the fabric and the adapter,
behind at most one access of the instruction cache.

### Lockstep and LockstepCompare

`phase` is where the controller stands: each value is a place where `run()` or a
function it calls waits for, or looks at, the other side. A step of the
controller is what it does between two such places. The DUT and Spike are external:
each reads a command and answers with anything its interface allows, right or
wrong, stays silent, or ends. What crosses the pipes stays in them: `inbox` are
the commands the DUT has not read, `stdout` what it printed, `lines` what the
reader thread has put into the queue (`Pump`), `pty` what Spike's terminal holds:
nothing, text without a prompt, or an answer with one. A deadline may pass in any
wait (`SpikeSilent`, `DutSilent`), at any time, as nothing is known of the speed of
either side. `AlignQuery`, `AlignPc` and `AlignRun` are `align_spike`;
`Report` and `Reported` the registers read out after a difference. `Quit` to
`SpikeReaped` are the `finally` block and `SpikePTY.close`.

The DUT may print any member of `Events[n]` as its n-th retirement and Spike any member
of `Answers[n]` to its n-th step: both are constants, so that the checked instance
has a small program with chosen mistakes and the proofs have any. `Bytes` and
`Registers` are the places that events and answers may name.

An instruction is its opcode class and `funct3`; Spike's answer is the lines that the
regular expressions pick out of it. `Parses` is every way in which
`parse_spike_step` raises; `differences` and `dut_effects` are the functions of
that name with memory as bytes. `Agrees` is the reference: the same step, said
byte by byte and register by register of the event and of Spike's raw lines,
without the code's parsing. `OnlyAgreementCounts` holds the one against the
other at every retirement that is counted.

`NoRunAhead` states what the class comment of `SpikePTY` promises ("without allowing
a run-ahead step") of both sides: the number of retirements that the DUT has printed
and the number that Spike has executed never differ from what was compared by
more than the one under way.

### CoverageClosure

A directory is a set of counter files, a file the set of its records. `Start`
summarises the directory, `NextTarget` to `Finish` are the search, `NextFrozen` the
replay. What a program hits is chosen when it first runs and kept in `known`, as
generator and core are deterministic. `RunFails` and `Interrupted` may leave a
counter file, whole or in part, or none. The operator may search again in the same
directory or freeze the cases that contributed; between freeze and replay the
generator or the coverage model may change (`drift`). `Frozen` is the list of the cases that
contributed, case by case. `ClosedMeans` has two parts:
what a session that ends well says of the bins (`ClosedMeansHit`), and that a
replay of the contributing seeds over the same baseline closes the coverage again
(`ReplayCloses`), though the runs between them are left out. It does for a search
over a clean directory (`clean`): a search that follows a failed one in the same
directory finds the failed run's counters in its baseline, which a replay over a
fresh baseline does not have.

### The board tools

`TraceRing`: a step is a clock edge. The core retires until it sees the freeze,
an edge later the ring sees the retirement, another later the RAM. `last` is
history: the retirements of this life. `TraceDecoded` says that any capture that
began after a reset is a prefix of the dumps of those, and what the decoder makes of
it, also when it stops inside the four letters that begin the next dump, where the decoder finds no
magic and accepts what came before. The line is modelled byte by byte: six bytes of header and
seventeen for each record, so that a capture may stop anywhere. A byte is what it stands for: a
letter of the magic, a byte of the count, or its place in a record and the number of that
retirement. A byte of a record never passes for a letter: without a cut the decoder
skips each payload whole, and every search starts where a packet ended; in a capture over a
cut the bytes of a record could spell the magic, which is left out. With `KeepsCapture` the
host's capture goes on over a reset. `Decoded` is the loop of `decode` for every cursor at
once: `Starts` are the places that `find` could return, `Refused` the checks that raise,
`After` the next cursor.

`BootImage`: firmware and payload of every pair of lengths; `Packed` is what the
script writes, `Edge` a clock edge of the loader. The memory takes address and data
in either order, loses a write, answers with an error, late or never; a reset may
catch a burst that still lands.

`BootConsole`: the board prints each milestone in two halves; a read takes any
number of them. `BoardReport`: the words of one moment carry its number; `latest`
is history, the moment of the last packet heard in full, and `torn` says that a
reset cut a packet in the capture. `FlashLayout`: the checks in their order, over
layouts of up to two regions. `DutSession`: both scripts, which differ in when a
program is over, in what they accept and in how they clean up.

## Runs

| Run | Instance | Shows |
|---|---|---|
| `link` | FIFO of `Depth` 4 with two payloads; 3-bit pointers (`PTR` 2) as bits; the reset chain with one master; fairness | queue refinement, stability of offers, progress of both sides; the bits implement the pointers; the chain recovers |
| `fabric` | 4 masters reading, 3 writing, DDR burst, MMIO access, DMA rule, fairness | answers, isolation of slaves, bounded bypass and service |
| `l1_cache` | one set, three tags, two values; two lines written | refinement of the memory, agreement of clean copies |
| `cache_progress` | the cache with two sets, two tags; the cached core with two addresses, one value; fairness | the scan over sets and ways leaves nothing dirty; requests, maintenance and FENCE.I end |
| `atomic` | loader and DMA, two beats of two lanes, two core words, two values, fairness | AMO and SC undisturbed, one read for an atomic, the reservation taken by each store into its word and by nothing else but a refused burst, an atomic ends |
| `cached_core` | two addresses, two values | nothing older than the last FENCE.I in the front end |
| `reset_chain` | a cache and the loader, DDR and a device, reads and writes, 3 lives | no answer of an earlier life, no orphaned request |
| `devices` | PLIC with 2 sources, 2 contexts, priorities 0..2; accesses of two caches and another master to two devices and a hole; a timer of two ternary halves, a tick each second edge; rings of 2; a quiet window of 4 edges | single service, ownership of completion, no unexplained fall of a line; exact deadlines; one operation for an access; no character lost, nor at the handover |
| `lockstep` | programs of up to 3 retirements, right and wrong events and answers of every kind, five command lines, fairness | no run-ahead, agreement, exit status, termination |
| `coverage_closure` | 3 cross bins, 2 plain ones, 2 baselines, two sessions | the ledger, what closed means, replay |
| `tools` | a trace ring of 3 with 2 dumps and a reset, byte by byte; 3 boots; packets of 2 words; 25 pairs of files; 2 regions in a flash of 4 bytes; 3 steps; fairness | dump and decoder, capture, report, image, layout, session, and that copy and session end |
| `trace_spliced` | ring of 1, one dump before and one after a reset, one capture over both | expected to fail: a dump one byte short is completed by the first letter of the next |

`MCLink`, `MCCacheProgress`, `MCDevices` and `MCTools` check several specifications in one state
graph: a variable chosen at the start says which one a behaviour is about, the
variables of the others stay at one initial state. Each property is that of its own
module.

Why the bounds are enough. A FIFO of depth 4 wraps its slots and its wrap bit, and
its pointers can differ by more than a synchroniser's delay; smaller depths are
not legal in the RTL. Four masters are what the RTL has, so that `Succ` wraps, and
bursts of two beats have a first, a last and a counter that is not zero. Behaviours
are about reads or about writes because the two machines share nothing, and three
writers are enough where the fourth would only lengthen the queue. Both requests come
from outside the DMA window, so that the DMA is refused with one beat and with
two while the others are served. With three tags for two ways the
cache evicts clean and dirty lines from both ways; two sets make the scan pass
from one way to the other and from one set to the next. Two
beats of two lanes give a DMA burst that meets the reserved word in its first
beat, in its second, or in a strobe it leaves out; both writers together are
needed to confuse their snoop addresses. Two addresses
give `CachedCore` a redirect away and back, a copy of each age, and a write-back
of another word. In `ResetChain` three lives tell the present from the last and the
one before, one master of each kind of reset has all the orders of their release,
and, since the fabric keeps one burst of each kind, no FIFO ever holds more than one
item. Two sources and two contexts are the sizes of the RTL (its other sources are
tied to zero); three priorities have "zero means never", a tie and an order.
Two devices and a hole let an answer be another's; halves of three values have a
smallest, a middle and the sentinel, with carries between them; a ring of two is
full, empty and neither, and wraps in either mode.

The lockstep instance has an event that is wrong in each field that is compared,
answers that do not parse in each of the ways the code knows, a trap with and
without its instruction, an AMO, a half-word store in the upper lanes; a retirement
limit that is reached before, at and after the trap; a boot ROM shorter than and as
long as the alignment limit. Bytes are bits (`Radix` 2): lanes and sizes keep
their widths, values do not matter. Two sessions are the least that let a failed
run's counters enter a later baseline; three cross bins let a run hit its
target, another, both or neither. A trace ring of three is partly full, full and overwritten, and
retirements modulo five tell its entries from those before. Word and reservation
sizes of two and four bytes have files that end at, before and behind a word, fill
the reservation but for a byte, or are refused; a timeout of five edges is longer
than the shortest copy of a word, so that a slow memory and a dead one differ.

The counters of the models are bounded by
the code, except the history `r_passed` and `w_passed`, which `OneMore` stops at
`N`, one above the bound that `BypassBounded` states; without the stop a mutant
that starves a master would never finish its state graph. Resets and dumps, which
nothing in the code limits, are counted up to a constant of their module (`MaxResets`,
`MaxDumps`).

Deadlock is checked in every run. Every property has a mutant in `PROJECT.json`:
a plausible mistake in a mapped definition, with which the run fails.

## Fairness

* `AsyncFifo!FairSpec`: both clocks run for ever and reset is not held for ever. As
  many edges change nothing, this is said of the edges that have something to
  shift: while the release counter or the synchroniser of a clock is unsettled, an
  edge of that clock comes (alone or with one of the other). The writer and the
  reader may refuse to act; nothing is assumed of them.
* `AxiFabric!FabricFairSpec`: each machine takes a step whenever it can. That covers the
  clock, slaves that answer, and masters that send the beats they announced and
  take their answers, which every master of the RTL does. Which master is granted
  is left to the code: progress of a *given* master follows from round robin
  alone.
* `L1Cache!FairSpec`: weak fairness of `Advance`: the bus accepts and answers and
  the requester takes its response.

* `Atomic!FairSpec`: the core is clocked and not halted; memory answers; the other
  masters send the beats they announced (their requests themselves are free); and
  the core's own AW is granted in its turn, which is `AllServed` of the fabric.
* `CachedCore!FairSpec`: the two caches and the two machines move at each clock, and
  memory answers. Nothing is assumed of redirects or of the instruction stream.

* `ResetChain!FairSpec`: both clocks run; the controller takes and answers each
  command it is offered; the fabric grants and its owner goes on. `Recovers`
  assumes calibration that stays, as nothing obliges memory to.

* `Lockstep!FairSpec`: the controller is scheduled, its deadlines pass, its reader thread
  runs, and the system delivers a kill. Nothing is assumed of the DUT or of Spike.
* `MCTools!MCSpec`: the loader's clock runs, nothing is assumed of the memory behind it; a
  session's script is scheduled, and the DUT answers a step (the scripts read a line
  without a timeout) but need not end when it is asked to.

## Proofs

Proved from the named assumptions on the constants only, for every value of them:
`DepthAssumption`, `PtrAssumption`, `FabricAssumption`, `CacheAssumption`, `AtomicAssumption`,
`CoreAssumption`, `ChainAssumption`, `PlicAssumption` with those of `MCDevices`
(`TimerAssumption`, `BusAssumption`, `SerialAssumption`, `PinAssumption`), of `Lockstep`
`LockstepAssumption` and `PrintedAssumption`, `ClosureAssumption`, and those of `MCTools`
(`ReportAssumption`, `TraceAssumption`, `ImageAssumption`, `LayoutAssumption`,
`SessionAssumption`). Four of them
say more than that a number is a number. `PinAssumption` has `Latency <= QUIET_CYCLES`, discussed above.
`PrintedAssumption` says that an event and an answer are made of what the two programs can
print: an instruction has an opcode and a `funct3`, a lane mask is a set of lanes, an
address is one of `Bytes`, a register one of `Registers`. An answer may still be
missing, doubled, cut or about another instruction. `ClosureAssumption` has three
coverpoints in each cross, as the coverage model has, and no name that is both a plain group
and a cross: a covergroup is one or the other. `ImageAssumption` has the bytes reserved for
the firmware in whole words (in the code `0x40000` bytes, of 16 bytes a word).

* `BusProofs`, the FIFO. `TypeOK` and `LevelsBracket` are not inductive: nothing in
  them says that the stale copies of a pointer lie behind it. The invariant `IInv`
  adds `Ordered`: going round the ring of `2 * Depth` pointers from the write
  side's oldest view of the reader, one meets `rd_w2`, `rd_w1`, `rd_bin`, `wr_r2`,
  `wr_r1`, `wr_bin` in that order within `Depth` slots; and `HeldAtZero`: a side
  that has not been released has zeros. An edge moves one value up to the next in
  the chain, so that order is kept; `full` and `empty` keep the ends apart.
  `LevelsCorrect` (that each level is on the safe side of the true one), `OffersHeld` and the refinement `QueueImplemented` follow: the
  slot that a write touches is outside the window from `rd_bin` to `wr_bin`.
* `BusProofs`, the bits. `BitsImplementPointers` shows that `GrayFifo` implements the
  pointer protocol of `AsyncFifo` for every width of the pointers, `BitsGiveFlags` that
  flags and levels computed on bits are those of the pointers. `GrayInv` says that each
  register holds the Gray word of a pointer. Four facts about the coding carry it.
  `DecodesBack`: `gray_to_bin` inverts the coding, as the parity of the Gray bits from
  the top down to a position is the bit of the binary number (`ParitiesIs`).
  `OneBit`: a pointer that moves changes at most one bit of its word, so that a
  synchroniser that catches it in the move, each changing bit old or new, has the old word or
  the new one (`SampledIs`). `OppositeIs`: inverting the two highest bits is being `Depth`
  slots away, which is the test for full. `WordsApart`: different pointers have
  different words, which is the test for empty.
* `BusProofs`, the fabric. `ReadInv` and `WriteInv` couple the machine's state with the
  owner's outstanding request and the slave's burst, for each state of the machine
  (in `R_DATA`, the beats had and the beats left add up; elsewhere no slave is
  busy). `FabricAnswers` and `FabricIsolates` follow. For `FabricFair` the
  invariant strengthens the bound `N - 1` to: the number of grants that passed a
  waiting master, plus its distance from the round-robin pointer, is at most
  `N - 1`. `PickNearest` shows that the scan finds the nearest candidate, from the well-foundedness
  of `<` on the naturals.
* `L1CacheProofs`. `CopiesAgree` and `CleanIsComplete` say nothing of the registers between two
  states, and are not inductive. `CacheInv` has, beside the types, `Ports` (a write waits in
  a RAM port only in the state that follows it, and what a lookup or the scan has read is what
  the RAMs hold), `Modes` (which request is served in which state), `Victims` (a line that
  is written back is still dirty, and the copy on the bus is the one in the cache),
  `Refilling` (what is fetched is in neither way, and the way it goes to is not
  dirty), `Swept` (nothing dirty lies behind the scan) and `Clean` and `Alone`, which are
  `CopiesAgree` way by way. `CacheCoherent` and `CleanIsWhole` are read off it. For
  `CacheImplements` each action is a step of `CachedMemory` or leaves `Current` alone: a
  refill does so because what replaces memory's copy is memory's copy, a write-back because
  memory receives what the cache holds, in whatever part of the line it fails.
* `DeviceProofs`, over the specification of `MCDevices`, whose steps are each of one device
  (`OneDevice`).
  * `Plic`: the type invariant with `NotRaisedInService` and `ClaimsHeld`, which are
    inductive together. `PlicSignals` shows `IrqHolds`: pending bits only leave by a
    claim, and a maximum over a larger set is no lower (`FirstOfHighest`).
  * `Clint`: `TimerExact` does not say what the writes made so far have left in the
    compare register. `Postponed` does: after the first its high half is the sentinel, so
    that it is no earlier than the old deadline, after the second it also has the low half
    of the new one. `Split`, `Joined` and `Later` are the arithmetic of halves of any size.
  * `PeripheralBus`: `AccessOnce` looks at an access when it is answered. The invariant
    follows it there: for each state of bridge, adapter and multiplexer, which master's
    access is there, how many halves it has left, and whether its device has been operated.
  * `Uart16550`: what is in a ring, in order, is what is owed (`InOrder`), for a ring of any
    depth, by the arithmetic of its indices (a push appends to the window that the ring
    shows, a pop takes its head). `ThreTold` needs `PendingWhileEmpty`: the cause waits only
    while the ring is empty, and software that was not told of an empty ring has it waiting.
  * `UartOwner`: `HandOver` speaks of the moment after the change only. While a store of the
    halted core is on its way the quiet count is no larger than the edges the store has
    travelled; the count can then not be full before the store arrives, and its arrival
    starts it again.

* `AtomicProofs`. The invariant `IInv` has four parts. `BusInv`: an owner is
  accepted, everybody else is not, the words in flight are the owner's, and the
  snoop address of another owner is its next beat. `CoreInv`: which states of
  stage and data port go together. `Drained`: from the read of an atomic to its
  retirement the write machine is idle or works for the core; the mask keeps it so
  once it holds. `LinkInv`: while the reservation is valid, the word it names is
  the link, unless the link is on its way to another word (an LR between its read
  and its retirement) or broken by the core's own store, and no word that another
  master has in flight is it. `AmoUndisturbed` follows from `Drained`,
  `ScUndisturbed` from it with `LinkInv`: neither is inductive, as neither speaks
  of the words accepted and not yet in memory. `SnoopsExactly` is about a single beat and
  needs `BusInv` for the address it is compared with (`BeatIsSnooped`); a beat of a refused burst is
  compared with the same register, so that the proof has a case for each state that takes beats.
* `CachedCoreProofs`. `Phases` ties the FENCE.I machine to the states of the
  caches; `Progress` says how far cleaning and invalidating have come (after the
  clean nothing is dirty until EX leaves); `Agreed` that for a word not stored to
  since the fence, memory, both caches and the answer on offer agree; `FrontAgreed`
  the same of IF and ID. `FetchesFresh` is
  `FrontAgreed`.

* `LockstepProofs`. `NoRunAhead` compares counters and is not inductive: whether the
  DUT may retire again depends on whether a `step` is still in its inbox, or its
  answer still on the way. `Pipes` says that of a `step` in the inbox, a line in the
  DUT's output, a line in the queue and a phase in which one is awaited there is at
  most one under way. `DutInv` fixes, from that, how `dut_retires` stands to
  `retired` in each phase, and `SpikeInv` how `spike_steps` stands to `skipped` and
  `retired`, with a `run` that Spike may still be working on counted as one. Both
  are claimed only while the verdict is open; afterwards nothing is sent and the
  bound is frozen. It holds for every program, every pair of answers, every limit
  and either side dying anywhere.

  `SameStep` is about the comparison alone: `differences` of an event and a parsed answer is
  empty exactly if `Agrees`. The two are written differently. The code compares the
  domains and values of dictionaries that it builds from masks and from lists of items;
  `Agrees` asks of every byte whether the event writes it and what, whether Spike does
  and what it wrote last, and how often it reads it. `ExitIsMeant` and `AgreementCounts`
  need in addition `VerdictInv`: in each phase, what the verdict is (`Judged`), that
  Spike's count is level when nothing is asked of it (`Quiet`, `Stepped`), how traps and
  the limit stand to what was retired (`Counted`), that event and answer still differ after a
  difference was found (`Different`), and which program is gone (`Reaped`).
* `ResetChainProofs`. `AnsweredOnce` and `NoOrphans` are about the life in which the masters run; what
  makes them true is what happens before. `Chain` says that nothing behind the link is
  released while it is down, `Stages` that nothing is in flight before the masters are
  released and that, of the core clock's edges after the link came up, the first puts the
  loaders to rest and the second, before any FIFO takes a request, the core. `Reads` and
  `WritesInFlight` are then an account of the one burst of each kind: it is in one of the
  channels, the controller or the device, its master waits for it, and no other does.
* `ToolProofs`, over the specifications of `CoverageClosure` and of `MCTools`, whose steps are
  each of one tool (`OneTool`).
  * `CoverageClosure`: `LedgerExplains` and `ClosedMeans` speak of the ledger and of the end.
    `ClosureInv` adds what holds between two runs: the report is that of the directory until
    a run fails (`InSync`), a program hits again what it hit once (`Remembered`), a first
    search and the replay of what it froze start from the baseline (`FromBaseline`), and the
    seeds still to be replayed promise the bins not yet hit (`Promise`). The last is what makes
    it sound to freeze only the cases that contributed: `Frozen` is shown to list all of
    them and no other, however many there are.
  * `DutSession`: what has been asked and answered in each phase, with the DUT's own state.
  * `FlashLayout`: the regions behind the cursor follow one another without a gap
    (`RegionsFollow`), so that two of them are disjoint however far apart they are.
  * `BoardReport`: a magic in the capture has its whole packet behind it or is the one being
    heard (`MagicHeard`); what completes with one more token is the packet that began a
    packet's length before.
  * `BootImage`: the words below the progress are in memory as they should be
    (`CheckedBelow`), the ROM register and the burst under way belong to the index
    (`WordInHand`, `BurstAtIndex`). `RomHolds` is the packing: the word that the loader finds
    at each index is the image's, over the padded end of either file and the gap between.
  * `BootConsole`: what was read and what waits in the host are one stream, in which a half is
    followed by the next of its boot or by the first of a later boot, and of one
    boot nothing is between two halves but what is between them (`StreamInv`). `verify`
    looks for one milestone behind the other and does not know of boots: `PassesIfWhole`
    and `WholeIfPasses` show from the stream that it finds them exactly if one boot is
    there from its first half to its last.

  * `TraceRing`: `TraceDecoded` compares a capture with what the decoder makes of it and
    says nothing of the ring. `TraceInv` does, in three parts. `RingHolds`: counted backwards
    from the write pointer, the ring holds the last retirements, once the write in the RAM
    port has drained and but for the retirement that the ring has not yet seen; so it does
    when it wraps, and when it drops the oldest. `FreezeHolds`: from the snapshot on nothing is
    on its way, the two quiesce states are what it takes (one for the retirement, one for
    the write), and the read pointer is that of the next record. `StreamHolds`: what arrived
    at the host is a prefix of the dumps since the reset, up to the byte in the
    transmitter, and ends where the machine stands (`Position`). `TraceInvariant` is its
    theorem. From there `TraceIsDecoded` is about the decoder alone: on a prefix of
    dumps, its search finds the magic of each dump at its start once the four letters have arrived
    (`AtDump`) and nothing before that (`Onward`), refuses it exactly if its end has not arrived,
    and otherwise goes on behind it (`DecodedFrom`, downwards from the last dump that arrived).
    At most one number of dumps is whole with fewer than four bytes behind it, as a dump has
    at least six.

Least numbers (the first candidate of a scan, the first index at which a list differs) come
from the well-foundedness of `<` on the naturals. An induction over an operator is beyond
the provers, which cannot instantiate one; where a proof needs induction over an interval,
`Upwards` and `Downwards` state it of a set of numbers, shown from the least number not in
the set. `Recursion` shows with them that a function defined by recursion on an interval
exists, which is what gives `Power`, `Parities`, `Whole` and `Decoded` their meaning.
`BusProofs` and `ToolProofs` each prove these for themselves.

Model-checked only: the liveness properties (`NeitherStarves`, `Recovers`, `AllServed`,
`AllEnds`, `FenceEnds`, `AtomicEnds`, `Terminates`, `ToolsEnd`), as fairness and `ENABLED` are
out of the provers' reach. Every invariant and every action property that a passing run checks
is a theorem.

## What the checks found

`docs/debug.md:9` wants truncated packets rejected, and `docs/debug.md:11` says that the decoder checks
packet length. Two kinds of capture are accepted though a packet in them is truncated:

* Run `trace_spliced`: the length is compared with the end of the capture only (`decode_trace.py:22`).
  When a reset cuts a dump and the button is pressed again in the same capture, the decoder takes
  the missing bytes from the second dump and exits 0. The trace is a dump of one record of which 22 of
  23 bytes arrived, and the `T` of the next, printed as the last byte of the record. A dump
  that lacks more takes more: up to the next header and records.
* The search for the next packet ends where `data.find` finds no whole magic
  (`decode_trace.py:14-16`). A capture of a whole dump and one to three letters of the next prints the
  first and exits 0; with the fourth letter it is refused. This needs no reset, and
  `TraceDecoded` has it as what the code does: the packets before it are right.

`TraceDecoded` states what does hold, for a capture that began after the last reset.
`decode_checkpoint9.py` has the same blind spot; its packets have no
count, and no document promises more, so that `ReportWhole` is stated of captures
without such a cut.

## Not modelled, and why

* The pipeline of `rv32_slice.sv` as a whole. Its stalls, forwarding and traps act on
  instructions and register values; what is told apart by order alone is in `Atomic`
  and `CachedCore`. The interrupt drain and the debug halt are the parts that a model
  would add.
* The UART's framing, parity, break, loopback, modem signals and divisor, and the
  accesses it accepts only in byte size (a `bad` access stands for the rest).
* Instruction decoding, the ALU, the divider's arithmetic and UART waveforms are
  data that none of the properties tells apart.
* The DDR controller, the clock generator and the board are outside `src/rtl` or
  vendor primitives.
* `main()` of `verify_cached_core.py` and of `check_cpu_coverage.py`: lists of test
  cases with the numbers the simulated core must print. `decode_checkpoint8.py`: the
  search of `decode_checkpoint9.py` over a report that no longer changes.
  `summarize_checkpoint9_reports.py` and the shell and Tcl scripts: text extraction and
  sequences of tool calls.

## What would come next

1. `Pipeline`: stalls, redirects, traps, the interrupt drain, store completion and the
   debug halt, with one instruction at a time as its abstract specification.
2. The devices composed with the interrupt path into the pipeline.
