# A verification of the RV64 core

This directory holds TLA+ specifications of the RV64 processor core in
`src/npc/vsrc/core` and of its simulator (`src/npc/csrc`: snapshots, debugger,
comparison with NEMU), the TLC configurations that model-check them on small
instances, and proofs, checked by TLAPS, of what matters most for every
instance. Everything is translated from the Verilog and the C++; line numbers in
`PROJECT.json` ("map") say from which.

Contents: 1 the system, 2 the plan, 3 the translation subsystem (modules, how
they correspond to the code, runs, fairness, findings), 3b the data cache, 3c the fetch
path, 3d the simulator's snapshots, 3e its debugger and 3f the pipeline with traps (the same for each),
4 what is proved, 5 what is not modelled.

## 1. The system: inventory

The repository is a RISC-V workbench: the RV64GC-like core in Verilog, a C++
simulator around its Verilated model (`src/npc/csrc`), the NEMU reference
emulator, a bare-metal runtime, a teaching kernel and vendored applications. The
program's own hard logic is the core: a five-stage in-order pipeline
(IF, ID, EX, LS, WB), split instruction and data caches, Sv39 translation with
two levels of TLB, and one AXI port.

| Component | State it keeps | Operations | Correct when |
|---|---|---|---|
| `immu.v`, `dmmu.v` first-level translation | TLB rows and valid bits, a four-state miss machine, the latched answer (`pte_reg`, `pte_error_reg`), the paddr register | take an address, hit, miss, wait, hand over, flush | an address handed on is one the page tables could give; a failed walk is a fault |
| `l2tlb.v` second-level TLB and walker | set-associative 4K rows, two superpage arrays, six-state machine, the walk | accept a miss, search, three walk levels, answer, flush | the unit that waits is the one served; nothing survives SFENCE.VMA |
| `dcache.v` | tag and data SRAM, valid and dirty vectors, a two-entry pipeline (LSU, walker), a 16-state machine, the scan of fence.i, an AXI burst | load, store, LR/SC/AMO on the bus, device access, refill, write-back, fence.i, flush | the latest store is always in exactly one place; answers reach who asked |
| `icache.v` | tag and data SRAM, valid vector, refill machine, a discarded burst | fetch, refill, flush, fence.i | no instruction of a flushed or stale fetch is delivered |
| `ifu.v`, `ifu_fifo.v` | three counters, a fifo, a two-entry half-word buffer | fetch, realign, branch, flush | instructions leave in order, each once, none from before a jump |
| `idu.v`, `exu.v`, `lsu.v`, `wbu.v` | stage registers with valid bits, jump counter, LSU machines for read, write, atomic, trap | issue, forward, jump, access, retire, flush | no instruction is lost, doubled or retired after a flush |
| `csr.v` | the privileged registers, `next_pc`, interrupt and exception priority | csr access, trap, interrupt, xRET | a trap saves the pc of the first instruction not retired |
| `utils/axi2to1_with_lock.v` (instantiated nowhere) | fifos of requests, LR/SC reservation, lock machine, beat splitting | arbitrate, forward, split, answer | every answer reaches its cache in order; SC succeeds only under its reservation |
| `utils/async_fifo_my.v`, `utils/cdc_handle.v` | Gray pointers, a four-phase handshake | cross a clock domain | no word lost or doubled (debug path only) |
| `csrc/lightssss`, `csrc/main.cpp` snapshots of the simulator | a deque of child processes, a shared segment with two flags and a pid, every process its own copy of the run | fork, make room, poll, wake the oldest, replay, clear | a failed run is replayed from the oldest snapshot to its end; no process is left behind |
| `csrc/sdb`, `csrc/main.cpp`, `csrc/difftest/dut.c` debugger, loop and comparison with NEMU | npc_state, the count of cpu_exec, is_skip_ref, the watchpoint pool, two machines and NEMU's shadow of the csrs it lacks | c, si, w, d, q, execute one instruction, compare or skip it, watch, stop, exit, ^C | an alarm means an error or an instruction NEMU does not follow, an error that reaches a register is an alarm, the exit status is true, a stop stops |

How they interact: ifu sends virtual addresses to icache, which holds the immu;
lsu sends them to dcache, which holds the dmmu. Both translation units miss to
l2tlb, which reads page table entries through a second port of dcache. icache
and dcache have a bus each. Write-back raises the
flushes: a jump flushes the fetch side, a trap, CSR write, fence or SFENCE.VMA
flushes everything up to LS, SFENCE.VMA also clears the TLBs, fence.i clears the
icache and cleans the dcache.

What is hard: three translation machines clocked together with a shared walker,
each reset by a different set of flushes while its reads are under way; flags
that name the owner of a shared register (`dcache_mmu_flag`, `immu_miss_flag`);
a stage that captures SRAM outputs which are only valid for one cycle; a flush
in the middle of an AXI burst that must be finished anyway; counters that stand in
for the full flags of four fifos while requests, answers and flushes fall into the
same cycle; and, in the simulator, processes that only talk through two flags in a
shared segment, and a signal handler that writes the two variables every step of the
loop reads.

The rest of the simulation side (NPC's devices, NEMU's interpreter, abstract-machine, nanos-lite, vendored
code) is listed in `PROJECT.json` with the reason it is left aside.

## 2. The plan

1. **Translation** (done): `Sv39` (data), `Immu`, `Dmmu`, `L2Tlb` (one module per
   unit), `Mmu` (their composition with flushes, software and memory), `MCMmu`;
   proofs in `MmuProofs` and `DataProofs`.
2. **Data cache** (done, section 3b): `Dcache`, with the LSU's access and the
   walker as its two clients, implements the abstract `MemoryPorts`; proofs
   in `DcacheProofs` and `MemoryProofs`. Left: the state of memory during a flushed
   write-back.
3. **Fetch path** (done, section 3c): `Ifu` and `Icache`, composed in `FetchPath`,
   implement `InstructionStream`, the instructions of the program from the last jump
   on; proofs in `FetchProofs`.
   **Simulator** (done, sections 3d and 3e): `LightSSS`, with proofs in `LightProofs`;
   `WatchPool` and `Simulator`, with proofs in `SimulatorProofs`.
4. **Pipeline and traps** (done, section 3f): `Divider`, `Lsu`, `Traps`, composed in
   `Pipeline`, implement `Isa`, the core one instruction after the other, which is what
   difftest compares it with; proofs in `PipelineProofs`.
5. **Clock crossing**: `AsyncFifo`, proved to implement a queue.
6. **Proofs** (done: every invariant of the passing runs and the refinements of the data
   cache and of the fetch path, section 4). Left: the refinement of the pipeline.

## 3. The translation subsystem

### 3.1 Modules and their correspondence to the code

One step of `Mmu` is either one rising clock edge of all three units together
(`Cycle`, as the RTL is synchronous) or a change of an input between two edges.
Registers are variables; wires are operators.

| Module | Code | Variables |
|---|---|---|
| `Sv39` | address and entry layout, `satp`, privilege | `satp`, `i_priv`, `d_priv` |
| `Immu` | `immu.v` | `i_vaddr` (head of the fetch fifo), `i_status` (stage_status), `i_pte` (pte_reg, pte_error_reg), `i_tlb`, `i_paddr` (paddr, paddr_error, paddr_valid) |
| `Dmmu` | `dmmu.v` | the same with `d_`; `d_tlb4K` is direct mapped |
| `L2Tlb` | `l2tlb.v` | `l2_status`, the walked address, who asked, `l2_arvalid`, `l2_pte`, `l2_error`, the rows, the superpage rows and, apart from them, `l2_spValid` |
| `Mmu` | instances and flush wires in `core_top_with_i_dcache.v`, the flushes of `wbu.v`, the walker port of `dcache.v` | `table` (page tables), `pteRead` (read in the dcache), `late` (the error of a flushed read), `ahead` (fetches in front of a waiting data access), `live` (history) |

Actions. `Tick` = `Cycle` for some flush kind (`none`, `branch`, `pipeline`, `sfence`,
`satp`), some readiness of icache and dcache and some answer on the walker's
port. `IFlush` and `DFlush` say which flush reaches which unit: `jump_flag` reaches
the instruction side only, all others reach both, which is what makes a walk
outlive the fetch that asked for it. `Fetch` and `Access` put the next virtual
address in; `StorePte` is a store of the software to a page table, which reaches
reads still pending in the dcache; `WriteSatpBare` is `csrw satp` with MODE = 0,
the one write that flushes nothing (wbu.v:169).

Abstractions. A frame with its attribute bits is a *leaf* that only differs from
other leaves. What the walker rejects is one value. A pseudo-LRU choice is any
way. OR-ing rows that hit together gives the row when they agree and "garbage"
when not (`OrLeaf`). `live[a][s]` collects every value slot `s` of space `a` held
since the last SFENCE.VMA: `LiveFrames(a, p)` are then the frames that a walk with
any mixture of old and new entries could give, which is what the privileged
architecture lets hardware use before SFENCE.VMA. The global bit is left out
(the code's G handling only widens the ASID compare).

A flush makes the dcache forget the walker's read, with one exception: a burst whose
first beat was an error goes to WAIT_ERROR and is answered though its walk is gone
(dcache.v:1187, 1507). `late` follows this error: `"burst"` until SEND_DATA pushes it, `"pushed"`
while `out_fifo` shows it to the walker, `"astray"` once a walk with a read of its own has
taken it. From there on the walker and the dcache disagree until the next flush, and which
answer belongs to which read is no longer followed: the walker gets any of `StrayAnswers`.
The empty set says that no flush meets a failed burst of the walker; what else it may
be is in 3.4.

### 3.2 Runs

| Run | Instance | Shows |
|---|---|---|
| `mmu_data` | two 4K pages, software rewrites one entry, all flushes, non-canonical data addresses | `TypeOK`, `DataFrameLive`: nothing handed to the dcache is older than the last SFENCE.VMA |
| `mmu_fetch` | fetch side alone, the same rewriting and flushes, two address spaces that map one page differently, satp written with no SFENCE.VMA, late errors of flushed reads with `StrayAnswers` all but leaves | `FetchFrameLive`: nothing handed to the icache is older than the last SFENCE.VMA or of the other space; `ReadBelongsToWalk`: only a late error parts the walker from the dcache |
| `mmu_shared` | a 4K page and a 2M page asked for by both sides, non-canonical fetches, satp switched to bare and back | `WaiterIsServed`, `DataServed`, `FetchServed` |
| `mmu_latch` | both sides, one unmapped page | `FetchFaultReported` is violated (finding 1) |

Bounds. Two pages suffice for every confusion of one address with another; one
way per set forces replacement and a second page with the same index forces
conflict; two values of one entry tell old from new; two address spaces tell
whose row it is (for the data side `DataFramesLive`, section 4, says the same for any
number of spaces). `MaxAhead` stands for `pc_all_cnt <= 4` of the fetch unit: how
many fetches may still be translated in front of a data access; 1 or 2 is
enough for the fetch side to win, to win again, and to have to stop.

### 3.3 Fairness

`FairSpec` = `Spec` with weak fairness of `Tick` (the clock runs), `DcacheServes`
(the dcache takes and answers a read and ends a late burst: the bus answers every burst),
`DcacheTakes` and `IcacheTakes` (each cache takes a translated address in the end,
since its machine returns to IDLE). No fairness is put on `Fetch`, `Access`, the
software or on any choice inside a cycle. `DataServed` then rests on the fetch
unit's bound, not on an assumed fair arbiter: l2tlb always lets the immu go
first.

### 3.4 Finding, and disagreements without a run

1. `mmu_latch`. `pte_ready_i` is constantly 1, so both units latch every answer of
   the walker (immu.v:271), also the other unit's. immu holds its answer in
   SEND_ADDR while the icache takes no address; in those cycles an answer for
   the dmmu overwrites `pte_reg` and `pte_error_reg`. The TLB row of the fetch is
   ORed with it, and the error of a failed fetch walk is forgotten: the fetch of
   an unmapped page goes to the icache as an address. dmmu leaves SEND_ADDR
   only with its address taken too, but the instruction side cannot be answered
   meanwhile with a changed page under it, which `mmu_data` confirms.
A superpage row's valid bit is written at the row's own index
(vaddr[35:30] or [26:21]) and tested at vaddr[17:12] (l2tlb.v:184, 207). A row
that SFENCE.VMA invalidated answers again once any later superpage fill sets
the bit that is tested. With `Vpn1 <- MCVpn1Two`, `InitTable <- MCTableSp`,
`Patch <- MCPatchSp`, `DRequest <- MCRequestSp`, no fetches and three leaves in `MCMmu4K.cfg` TLC finds
`DataFrameLive` violated. The instances `mmu_data` and `mmu_fetch` and the theorem below
therefore keep to 4K leaves (`SmallPages`).

The immu writes a row for an answer that is an error as well (immu.v:273), with whatever
the entry of the walker's last successful answer was, since l2tlb keeps `out_pte` then. Such a
row may stand beside another row of the same page: harmless while the two are equal,
but if the page table entry was changed between the two walks they differ, both hit,
and `tlb_sel` ORs two frames. It takes a data side that walks in between, so `mmu_fetch`
does not reach it; `FetchUndisturbed` names this case and that of finding 1, and
`UndisturbedFetchLive` (section 4) shows that there is no third.

The error of a burst whose walk was flushed is answered to the next walk. That walk
ends with a fault it has no reason for, in the same cycle in which its own read is waiting
for the dcache or under way in it (l2tlb.v:285 tests the answer without the state of its
request), and from then on an answer may be that of an earlier walk. `ReadBelongsToWalk`
holds up to there, and says that nothing else does this. What follows is not made up for
by any check in l2tlb: with a leaf in `StrayAnswers`, which an earlier walk's read can be, TLC
finds `FetchFrameLive` violated in `MCMmuFetch.cfg` and `DataFrameLive` in `MCMmu4K.cfg`. Without a leaf
(`NoStrayLeaf`) both hold, with `StrayAnswers = {"error"}` in `MCMmu4K.cfg` too. The runs of the data side and
of liveness have no late errors, for their size; `MCMmuShared.cfg` with `BareSwitch = FALSE`,
`Satp <- MCSatp` and `StrayAnswers = {"error", "pointer"}` passes with its liveness. It all takes
a bus that answers a page table read with an error.

Likewise a row for a superpage and one for a 4K page of it may hit together when an entry
changes between the two walks, and immu.v:160 ORs them. The architecture leaves it open
which of the two entries is used before SFENCE.VMA, but not that it is neither; as the instances
keep to 4K leaves, no run has this case.

`DataFrameLive` also fails when two address spaces meet `BareSwitch`: a fetch walk
begun under one ASID ends under another, since l2tlb.v:330 reads `satp` when the
leaf arrives and a write of MODE = 0 does not stop the walk. It is a hazard in
`PROJECT.json`, and the reason why the theorem below assumes `~BareSwitch`.

## 3b. The data cache

### 3b.1 Modules and their correspondence to the code

`MemoryPorts` is the promise: a memory with a port for the LSU and one for the
walker, each with one request outstanding that takes effect once, in one step,
between the request and its answer. `Dcache` is `dcache.v`, and `ImplementsMemory` the
refinement: the abstract memory is `View` (the cached copy if there is one, else
memory), a request's result appears when its answer is fixed.

| Variables | Registers |
|---|---|
| `l_state`, `l_op`, `l_paddr`, `l_rand`, `l_cap` | lsu fifo and first stage: the request, dmmu's paddr register, `rand_way_reg`, what `way_flag` latched |
| `w_state`, `w_addr`; `m_valid`, `m_addr`, `m_rand`, `m_cap` | the walker's port in l2tlb; `first_stage_mmu_valid`, `dcache_line_waddr_mmu`, `rand_way_mmu_reg`, what `way_flag_mmu` latched |
| `c`, `c_q` | tag and data SRAMs with the valid and dirty flip-flops; which index the SRAM outputs show, noise otherwise |
| `f_state`, `f_for`, `f_flush`, `f_ok`, `x`, `b` | `dcache_fsm`, `dcache_mmu_flag`, `flush_flag_reg`, `dcache_resp_reg`, the bus registers, the beats transferred |
| `s_way`, `s_index`, `s_row`, `fence` | the scan of fence.i and its handshake with LS |
| `out`, `mem` | `out_fifo`, memory behind the bus |

`Tick` is one clock edge: some flush, some handshake or answer of the bus, and then
the machine, the scan, the arrays, both stages and the out fifo together
(`Cycle`), each reading the old values of the others. `FsmStep` has one operator per
state; the four FLUSH_WAIT states are their twins with `f_for = "scan"`.
`LsuRequest`, `WalkRequest` and `FenceRequest` raise a client's request between two
edges.

What the environment is allowed, and why:

- The LSU has one request outstanding and is not flushed while it has one: the
  flushes of the data side come from write-back (csr.v 1966-1968), where nothing
  valid stands while the LSU's machine runs. fence.i is in LS itself, so the LSU
  is idle.
- While fence.i is in LS the fetch side is held in flush (exu.v:395, idu.v:777,
  core_top_with_i_dcache.v:794), so the walker begins no new read; one begun
  before may still be under way in the first cycle.
- The out fifo holds one entry at most, as lsu and l2tlb are always ready.
- The translation of a request is any of address, fault, in any cycle (`dmmu` is
  checked in section 3). Line, word and index of a request are the physical ones;
  index bits lie in the page offset.
- A misaligned access traps in the LSU (lsu.v:571-588) and never reaches the cache.
- The slave returns as many beats as it was asked for. `BusErrors` says for whom it
  may return errors.

Folded: a line is two words that say where they belong, so a wrong line or a
wrong half is always visible; a store replaces its word (byte strobes);
`DCACHE_GROUP = 1`.

### 3b.2 Runs

| Run | Instance | Shows |
|---|---|---|
| `dcache_ports` | two ways, two sets, three lines of one set stored, loaded and walked, a device line, fence.i, flushes, errors for LSU and scan | `CachedOnce`, `AnswerAwaited`, `ImplementsMemory`, `FenceCleans` |
| `dcache_live` | one way, so that walker and LSU evict each other's line; a locked store that hits a dirty line | `ImplementsMemory`, `LsuServed`, `WalkServed`, `FenceEnds` |
| `dcache_fence` | a walk in the second set | `FlushKeepsMemory` is violated (finding 2) |

Bounds. Two sets and two ways are the least in which the scan wraps, a way is
selected and a set is full; a third line in the set forces every kind of
eviction. Stored values need only be distinct per word, since a word carries its
line and half. The passing runs keep walks to the first set and free of errors;
`dcache_fence` lifts the first condition, and 3b.4 says what happens without the
second.

### 3b.3 Fairness

`FairSpec` has weak fairness of `Tick`, of a bus that answers (`BusServes`) and of
dmmu (`PaddrArrives`, which section 3 shows as `DataServed`), and strong fairness of
`BusAccepts`: a transfer that is repeated after each error is accepted in the end.
Only the scan repeats a transfer, so only `FenceEnds` needs it. The priority of the
walker over the LSU needs no fairness: `LsuServed` holds because the walker has
one read outstanding and a request that entered its stage keeps it.

### 3b.4 Finding, and two disagreements without a run

2. `dcache_fence`. While fence.i is in LS, the arrays are addressed by the scan
   (dcache.v:476, 479). If a walk's refill is in WRITE_CACHE in the first of these
   cycles, its row is written at index 0 instead of its own, over a line that may
   be dirty.

WAIT_ERROR goes to SEND_DATA also when the transfer was flushed (dcache.v:1188), so
the error is answered after the walker forgot the read, and its next walk takes it.
With `"walk"` in `BusErrors` of `MCDcachePorts.cfg` TLC finds `AnswerAwaited` violated; the
passing runs of this section leave errors to the LSU and the scan. `Mmu` models
what the walker does with such an answer (`late`, 3.1, 3.4).

A flush in the middle of a walk's dirty
write-back clears `way_flag_mmu`, and the second beat is taken from SRAM outputs that
no longer show the victim. The line stays dirty in the cache, so `View` is right
and memory is repaired by the next write-back, but the comment at dcache.v:1446,
which says that memory then equals the line, is not.

## 3c. The fetch path

### 3c.1 Modules and their correspondence to the code

`InstructionStream` is the promise: decode takes the program's instructions one
after the other from the target of the last jump on, each once and whole; a
half-word is any content its line had since the last fence.i; an instruction faults
exactly when one of its half-words cannot be fetched, and names the first that
cannot. `CodeMemory` is the instruction memory both levels speak of. `Ifu` and
`Icache` are one unit each, `FetchPath` clocks them together with the bus and with
the orders of the pipeline.

| Module | Code | Variables |
|---|---|---|
| `Ifu` | `ifu.v`, `ifu_fifo.v` | `pc`, `arvalid` (the request), `pcCnt`, `pcAllCnt`, `instCnt`, `invalidCnt` (pc_cnt, pc_all_cnt, inst_cnt, invalid_cnt), `fifo`, `low` (inst_rdata_reg), `myPC` (my_reg_PC), `buf` and `sel` (the two IF_ID registers) |
| `Icache` | `icache.v` | `rch`, `mmu` (the two address fifos), `stage` (first_stage_valid, icache_line_waddr), `paddr` (immu's register), `cap` (what way_flag latched), `fsm`, `resp`, `wdata` (icache_fsm and its registers), `drop` (icache_send_not_recv_flag), `rows`, `shown` (arrays and what the SRAM outputs show), `out` |
| `FetchPath` | icache instance and flush wires of `core_top_with_i_dcache.v`; `core_top.v` with ifu on the bus | `hasIcache` (the top), `bus` (requests accepted), `stall`, `depth` (the pipeline behind decode), `mem`, and the histories `event` and `live` |

One step is one clock edge (`Tick`: an order of the pipeline, whether immu, the bus
and decode take or give something in this cycle) or `PatchCode`, a store of the
program that reaches memory between two edges. The macro USE_ICACHE (`useIcache`)
and the top (`hasIcache`) are variables that never change, so one run covers both
builds. `NextPC` is the refinement mapping: what decode waits for is in the register
shown to it, else in the other, else at `my_reg_PC`; nothing while a flush waits for its
jump. `event`, `mem` and `live` are the same at both levels.

The orders of the pipeline. A flush without a jump (`Halt`) comes from a trap, an
xRET or a fault on its way from ID to WB (idu.v:777, exu.v:395), and lasts until WB
jumps; an instruction that faults always causes one. A jump may come in any cycle to
any target, whatever was predicted before it: a branch in EX, or a CSR write or
SFENCE.VMA in WB. fence.i is in LS when it acts, so one instruction at least was
taken since the last jump and has moved two stages (`depth`); in the cached top it
jumps behind itself and holds the flush until the data cache is scanned.

Abstractions. A half-word is its address and a version of its line, so any wrong,
missing, doubled or stale half-word is visible. Which addresses begin a 32-bit
instruction is fixed (`Wide`), so that a patch keeps lengths; the expansion of
16-bit instructions is left out. The answer of a failed access is noise of either
length, as `inst_rdata` is then not defined. `PatchCode` writes greater versions only,
which loses nothing as versions are only compared with those live. Ways are chosen
freely, which covers `rand_way`.

### 3c.2 Runs

| Run | Instance | Shows |
|---|---|---|
| `fetch_path` | both tops; four lines of which one faults in translation and one on the bus, two compete for one way; instructions of both lengths at every half-word, across double words and into the lines that fault; jumps to the first and to the last half-word of a double word; code rewritten, fence.i, flushes in any cycle | `TypeOK`, `CountersAgree`, `BurstOwned`, `ImplementsStream`, `FetchProceeds` |

Bounds. The fifos and counters have the sizes of the code. One way of one set makes
every refill replace what another line needs, and two lines that compete are the
least for it; a second way would only make hits likelier (and the theorems of section 4
have any number of sets and ways). Two versions tell old
from new; the program may patch in any cycle. 38,339 states suffice as everything
under way is emptied by a flush. `fetch_path` leaves fence.i of core_top out (`FenceBuilds`),
see 3c.4.

### 3c.3 Fairness

`FairSpec` has weak fairness of the clock while no flush is ordered (`ClockRuns`), of an
immu that answers (`FetchServed` of section 3), of a bus that accepts and answers, of
decode that takes what it is shown, and of a flush that ends (its instruction
reaches WB; the scan of fence.i ends, `FenceEnds` of section 3b). All are weak: an
offer that a flush withdraws is owed nothing. No fairness is put on jumps, so
`FetchProceeds` says that a program that is not redirected gets its next
instruction, and one that is redirected for ever has jumps for events.

### 3c.4 A disagreement without a run

In core_top fence.i raises the flush (exu.v:395) but not `jump_flag`
(core_top.v:685): the instructions behind it, already fetched and counted off
`my_reg_PC`, are thrown away and not fetched again. The cached top jumps to
`EX_LS_reg_next_PC` at that point (core_top_with_i_dcache.v:961-964). With
`FenceBuilds = {FALSE}` in `MCFetch.cfg` TLC finds `ImplementsStream` violated in a few
steps. No run says so, as no line of the repository promises anything of fence.i in
that top.

## 3d. Snapshots of the simulator

### 3d.1 Module and its correspondence to the code

`LightSSS` is `lightsss.cpp` and what calls it in `main.cpp`. A process is a record of
what fork copies: where it is in the code (`at`), the instructions it has simulated
(`inst`), how npc_state stands (`npc`), and waitProcess (`child`). `pidSlot`, whose
length is slotCnt, is used in Main only; `flag`, `notgood` and `oldest` are the shared segment;
`wave` is the file a replay writes, closed when `to` is set.

Actions. `ExecOnce`, `Difftest`, `SimExit`: one instruction and the ends of a run, in Main or
in a replay. `ForkMakesRoom`, `Fork`, `ForkError`: do_fork, cut where another process may run.
`SeesFlag`, `SeesNotgood`, `ChecksOldest`: shwait and the test of `oldest`. `WakeOldest` to `WaitEnds`:
wakeup_child, store by store. `ClearStep`: one turn of do_clear. `Interrupt`: ^C reaches every
process of the group; my_handler ends each, good or bad by its own a0.

A program is the instruction at which it ends and how: ebreak good or bad, 16384
cycles without a commit (`stuck`, straight to sim_exit), or a register difftest finds
wrong (`mismatch`, found after the fork of the same instruction). kill and waitpid are
one step, as the caller waits. What is read from flag and notgood is read in two
steps. The build has CONFIG_VCD_GET, the mode is the Makefile's `-b`.

### 3d.2 Run, bounds and fairness

`lightsss`: two slots, a snapshot every two instructions, ends before, at and after
the third snapshot, so that a snapshot makes room for another, the run fails in the
instruction that forks, and before any did; fork may fail each time, ^C comes once, in
any step. Four pids suffice, since a pid that was killed is free again.
`TypeOK`, `SlotsAreSnapshots` (no leak while the run goes on), `ReplayIsOldest` (who replays is
alone, the oldest, and starts in the window the constants promise), `FailureReplayed`
(the wave file reaches the last instruction) and `AllEnd`.

Fairness: weak, for each process: the host schedules all of them. Nothing is
assumed of fork or of the user.

The model says that a replay sees what the run saw; the host's clock
(main.cpp:347) may break this in reality, which is listed as a hazard.

## 3e. Debugger, loop and comparison with NEMU

### 3e.1 Modules and their correspondence to the code

`Simulator` is the single thread of the simulator, cut at every place where the handler of
^C finds `npc_state` or `is_skip_ref` in another state. `WatchPool` holds the operators of
`sdb/watchpoint.c` on the pool of NR_WP nodes.

| Variable | Code |
|---|---|
| `at`, `left` | the place in sdb_mainloop, cpu_exec, execute and exec_once; `n` of execute, counted down to 0 (cpu_exec(-1) never gets there) |
| `npc` | npc_state: `state`, and `ret` for halt_ret |
| `is_skip_ref`, `inst` | the flag of difftest_skip_ref; the instruction that retired until difftest is done with it |
| `dut` | the simulated core: `reg`, a register of those NEMU has too (gpr, pc, mtvec, mstatus, mcause, mepc); `csr`, one of those it lacks (mie, mscratch, satp, mideleg and others of regs.c:225-296); `mode`, the privilege; `mem`, a word of memory |
| `ref`, `ref_shadow` | NEMU: `reg` and `mem`; ref_shadow of ref.c, the copy NEMU answers with for `csr` |
| `pool` | wp_pool, head and free_ |
| `batch`, `interrupts` | the -b option; how often ^C was pressed |
| `seen` | history: `apart`, the core erred or the program went beyond NEMU since the last copy; difftest raised the alarm; a stop covered it; ebreak retired |

| Actions | Code |
|---|---|
| `CmdBatch`, `CmdExec`, `CmdW`, `CmdWFails`, `CmdD`, `CmdQ`, `EndOfInput` | the commands of sdb.c that change state |
| `Enter`, `Tests`, `Leaves`, `Settles` | cpu_exec and the loop of execute; `Enter` writes RUNNING after the switch has read the state, `Settles` STOP after the last switch has |
| `Retires`, `TakesInterrupt`, `Halts`, `Hangs` | exec_once up to a commit: an instruction, the first of an interrupt handler, ebreak, 16384 cycles without one |
| `Skips`, `Checks`, `Compares` | difftest_step: copy to NEMU the registers it has, the others to ref_shadow, and return; or step NEMU and compare its registers, ref_shadow and M with the core's |
| `Watches`, `Stops` | cpu_check_watchpoint and its assignment of STOP |
| `Exits` | sim_exit and is_exit_status_bad |
| `Interrupt` | my_handler with set_npc_state |

Instructions are of three kinds. NEMU executes `set`, `load` and `store` like the core. `device` and
`disk` it does not execute: the device marks them as skipped, and the disk, which writes
memory behind the core's back, writes NEMU's memory as well (sbi_disk.c). The rest, `Beyond`, it
executes otherwise: csrrw and csrrs of a csr it lacks do nothing (inst.c:387-422), mret
only jumps (inst.c:372), ecall writes a constant to mstatus (intr.c:22), and
whatever the mode, NEMU answers M (ref.c:87). The core may get any instruction but a skipped
one wrong, in any of its four parts.

Abstractions. One register stands for all those NEMU has, and one for all it lacks:
within each kind ref.c copies and regs.c compares them alike. What regs.c does not
compare (sstatus, mip, the counters) is left out. Exceptions other than ecall, ecall delegated to S, sret and the instructions
NEMU cannot decode are left out too: it stops at the last of them. Any watchpoint that head
reaches may find its expression changed. set_npc_state and the handler are one step each:
the handler is not interrupted by itself. The first instruction of an interrupt handler is
no store, as in trap.S of abstract-machine. difftest_skip_dut has no caller and is left
out. An ebreak that is marked skipped is not compared, so its `inst` has no effect.

### 3e.2 Run, bounds and fairness

`simulator`: two watchpoints, two values, si with 0 and 2, two ^C in any step, with and
without -b. Two nodes give lists of none, one and two, and a node put before `head`; what
three and more do is proved (`WatchesWellFormedHolds`, any NR_WP). Counts of 0 and 2 enter the loop not at all and repeatedly; the
second ^C meets what the first left behind.

- `WatchesWellFormed`: after any commands the links undo each other, no node is free and
  in use, the list in use is sorted, and only a node put before `head` can be in neither.
- `AlarmExplained`: an alarm has a reason since the last copy of the registers, unless ^C
  came: the core erred or the program went beyond NEMU. The next skipped instruction
  takes the reason away unless memory differs or the core is not in M mode; devices, the
  disk and interrupts to M mode, whatever csrs they write, are no reason.
- `RunningAgrees`: the core begins no instruction with registers other than NEMU's and
  ref_shadow's, unless a stop covered the alarm.
- `SuccessEarned`: exit status 0 without q and ^C means an ebreak with a0 = 0 and no alarm
  that was not covered.
- `HaltIsFinal`: after ebreak no command makes the core go on.
- `InterruptStops`: a ^C that was not overwritten ends the loop.

Fairness: weak, of the thread. Nobody has to type a command or ^C.

What the properties leave open is in the code, and listed as hazards. difftest does report
a core that is right: ref.c copies six kinds of registers to NEMU, answers the others from
the last copy and says that the mode is M, but regs.c compares them all. After csrw to mie,
mscratch or satp, after leaving M mode and after an ecall whose mstatus is not the constant, the next comparison
fails. That is why `AlarmExplained` names these reasons and does not promise that there is
no false alarm; without `i.kind \in Beyond` in `Executes` TLC finds it violated. `new_wp` does not move
`head` when it inserts a node before the first: after w, w, d 0, w the new watchpoint 0 is
never evaluated (watchpoint.c:84). `cpu_check_watchpoint` tests for END only, so its STOP covers
an ABORT of difftest in the same instruction, and c goes on (main.cpp:395). A ^C between
the switch of cpu_exec and its assignment is lost, while the skip flag it set lets one
instruction go unchecked.

## 3f. The pipeline, traps and debug mode

### 3f.1 Modules and their correspondence to the code

`Isa` is the promise, and the terms in which difftest compares the core with NEMU: the
instruction at `pc` reads the registers as they are, does its transfers with memory once,
writes its register and names the next pc; or it traps and does nothing else; an
interrupt comes between two of them; after dret with dcsr.step exactly one runs. `Machine`
holds what both levels speak of: instructions in decoded form, with the results of the
alu, of address adders and of branch conditions as constant operators.

| Module | Code | Variables |
|---|---|---|
| `Divider` | `divu.v` | `d_state`, `d_key` (dividend_reg, divisor_reg: it answers the same question at once), `d_work` (what the loop was loaded with), `d_res` |
| `Lsu` | the machines of `lsu.v` | `ls_state`, `ls_error`, `ls_data`; `bus`, the history of what memory did for the instruction in LS |
| `Traps` | `trap_control`, `interrupt_control` and the registers they write in `csr.v` | `priv`, `csr` (scratch, the enables MIE and SIE, dcsr.step, satp.MODE), `pie`, `pp`, `epc` (mepc, sepc, dpc), `dprv`, `debug`, `stepFlag` (debug_step_flag), `nextPC` (next_pc) |
| `Pipeline` | `idu.v`, `exu.v`, the rest of `lsu.v`, `wbu.v`, `gpr.v`, flush and jump wires of `core_top_with_i_dcache.v` 946-971 | `want` (what decode waits for; None while a jump must come), the stage registers `idex`, `exls`, `lswb`, `src1` and `src2` (operands captured from WB while waiting), `jumpCnt`, `csrWait`, `flushI`, `gpr`; `event`, the history of what the cycle was to the program |

One step of `Pipeline` is one clock edge of all of it. Its inputs are what the fetch path
shows (any instruction of `Insts`, at most one a cycle, at the address `want`, as section
3c shows), what memory does for the LSU's request, the last cycle of a division, the end
of the scan of fence.i, the level of the pending interrupt with the highest priority,
and halt_req. `Behind` is everything after decode, `Decode` what takes the offer; each
register has an operator `...Step` with the chain of conditions of its always block.

The refinement mapping: the registers are `gpr`, the pc is `nextPC`, the privileged state is
that of csr.v. A step of `Isa` is the cycle in which write-back retires, traps or takes an
interrupt; `StepOf` says how far a single step is.

Abstractions. Division is unsigned; the multiplier in use (define.v) answers in the
same cycle, so `mul` is an `alu`. Operands 1 and 3, and operand 2 and the data of a store,
share one cascade of forwarding, as they do in exu.v with equal conditions. The
machines for loads, stores and atomics are one, as they take the same path and the
instruction in LS has one of the three valid bits. MIE and SIE are written as one csr each;
writing 1 to satp is MODE = 8, the write that flushes. A csr instruction always writes, and
a write of dcsr leaves prv. medeleg and dcsr.ebreak* are constants, MPRV is left out, and so
are cause and tval. mip, mie and mideleg are the choice of `irq` among enabled levels.
Behind the jump of fence.i nothing is fetched until the flush ends (`flushI`), so `want`
stays there.

### 3f.2 Runs

| Run | Instance | Shows |
|---|---|---|
| `pipeline_data` | alu, div, branch, jalr, sc, amo and a csr, each from two registers into one; two addresses, one bit of data | `TypeOK`, `CsrAlone`, `ImplementsIsa`, `Progress` |
| `pipeline_trap` | store, mret, dret, fence.i, csr writes of satp and dcsr.step, ebreak under a jal; faults of accesses, interrupts of both levels, halt requests | `AccessCommits`, `RestFlushed`, `ImplementsIsa` |

The program is not fixed: whatever decode waits for, any instruction of the set may be
there, so a run is over all programs, self-modifying ones included.

Bounds. Two registers besides x0 tell the sources of an instruction apart; one bit of data
tells an old value from a new one, and `ImplementsIsa` compares every value that leaves
(transfers, registers, csrs, addresses). Two addresses tell a right jump from a wrong one.
Every instruction class that differs in when its result is there (EX at once, EX late,
LS late, WB) and in what it does to the others is in one of the runs: three stages behind
decode are the most that can be in each other's way. In `pipeline_trap` the only
register is x0, as data and traps meet in nothing but the flush; ebreak enters debug mode
from M; the write of satp stands for every csr write that changes the state of a trap and
for the flush of sfence.vma, which is raised by the same wire; exceptions go to M, interrupts
to both levels.

### 3f.3 Fairness

`FairSpec` has weak fairness of the clock and of `Served`: where the fetch path, memory,
the divider or the scan can bring something, it comes in the end (`FetchProceeds`,
`LsuServed`, `FenceEnds` of the sections above; the divider counts to 64). Nothing is assumed
of which instruction comes. `Progress` says that the conflicts, csr_wait, the divider and
the LSU's machine all end.

### 3f.4 Disagreements without a run

1. LOAD is the only state of divu that does not look at `div_flush` (divu.v:118-123). With
   `Reg = {0, 1, 2}`, `Insts <- MCDivInsts`, `PC <- MCDivPC`, `Succ <- MCDivSucc`, `Vec <- MCDivVec`,
   `Misaligned = {1}` in `MCPipeData.cfg` TLC finds `ImplementsIsa` violated: a misaligned load
   in LS traps in the cycle in which the divide behind it is in LOAD; the flush resets the
   remembered operands, the loop runs on with the old ones, and the first divide of the
   handler finds the divider busy and takes the old quotient. dut.c:105-107 logs that the
   result of every instruction is compared with the reference, which would then differ. The
   two runs never have a divide and a flush from behind it in one program.
2. The write enables of csr.v 609-653 look at a trap to M or S only, and the branches of
   mret and sret in `csr_mstatus` (1072-1084) at none. A csr instruction or xret that trapped
   in decode and meets halt_req in WB, or traps in debug mode, changes the csr all the
   same. `pipeline_trap` has programs without them (`IllegalCsr = FALSE`), `pipeline_data` has
   them (without debug mode).
3. A halt request taken between dret with dcsr.step and the first instruction leaves
   `debug_step_flag` at 1 (csr.v 1844-1857, only 2 is cleared): the next dret without
   dcsr.step enters debug mode after one instruction. `pipeline_trap` keeps the request away from
   that moment (`HaltReq = "not_in_step"`).

## 4. What is proved

`MmuProofs` (for every set of pages, leaves, ways, every page table and software):

- `MmuInvHolds`: `Spec => []MmuInv`. `WaiterIsServed` alone is not inductive: it
  needs that a miss being served is still a miss of the address held
  (`MissStands`), that no read pends outside a walk (`ReadBelongsToWalk`), and that
  only canonical pages are walked (`SearchOfPage`). The conjunction with `TypeOK` is
  inductive, one lemma per unit and flush kind. Late errors are included, for any
`StrayAnswers`.
- `TypeCorrect`, `WaiterServed`, `ReadOfThisWalk`: its corollaries, properties of
  `mmu_data`, `mmu_shared` and `mmu_fetch`.

`DataProofs`: `DataFramesLive`, `Spec => []DataFrameLive` assuming `SmallPages` (all
leaves are 4K pages), `~BareSwitch` and `NoStrayLeaf` (a walker led astray by a late error
takes no leaf before the next flush). Section 3.4 gives a counterexample for
each, so all three are needed. `DataInv` strengthens it:
every row, latched answer and register of the data side is live (`EntriesLive`,
`LatchOfAccess`), the walk in progress only followed live pointers (`WalkLive`), a
page has one row at the second level (`OneRowPerPage`), and an answer is of the
page asked for (`AnswerOfPage`). The sets of live values only grow between two
SFENCE.VMA, so the argument is monotonicity for every step but the `sfence` one,
which empties everything it has to.

The fetch side: `UndisturbedFetchLive`, `Spec /\ []FetchUndisturbed => []FetchFrameLive`
under the same three assumptions. `FetchSideInv` adds to `DataInv` that every row of the immu is
live, that rows of one page do not differ, since the rows that hit are ORed (`FetchRows`),
and that a latched answer is of the page held (`LatchOfFetch`). The condition
`FetchUndisturbed` says of the data side what section 3.4 shows it can do: no answer
reaches a latch that is in use, no error leaves a row that differs from another.
`FetchFramesLive` discharges it for `DRequest = {}`, the instance of `mmu_fetch` for every program,
page table, number of address spaces and TLB size, by a second invariant (`FetchAlone`).

`DcacheProofs`: `AnswersAwaited`, `Spec => []AnswerAwaited` assuming `NoWalkErrors`
(section 3b.4 says what happens otherwise), for any tags, sets, ways, program and
flushes. An answer is pushed cycles after the flush that should have stopped it,
so `AnswerAwaited` needs an invariant about every state of the machine: a transfer
for the walker either still serves the request in the walker's stage, or
`flush_flag_reg` is set and the machine is in one of the six states that look at
it (`TransferAwaited`); a request in the stage is the one the walker waits for
(`StageAwaited`). The interesting case is the walker asking again while the
flushed burst of its former read is still on the bus.

`MemoryProofs` (for every number of tags, sets and ways, every program, flush and error of
the bus): `CacheTypes`, `LineCachedOnce`, `FenceLeavesClean`, `FlushHidden` and `CacheIsMemory`.
They are stated for the behaviours without the race of finding 2, `Spec /\ []RefillUnfenced`:
no refill for the walker, of a set other than the first, is in WRITE_CACHE in the first cycle
of a fence.i. `FlushHidden` says that
this is the only flaw of its kind: without it `FlushKeepsMemory`, which `dcache_fence`
violates, holds. `RaceFreeCache` and `RaceFreeMemory` need no condition on the behaviour: they
assume that no program executes fence.i, or that the walker reads lines of set 0 only, as in
`dcache_ports` and `dcache_live`.

`CacheInv` (checked by TLC before it was proved) has a conjunct for each way two actors meet:
`SetsApart`, the sets of the two stages and of the burst are never the same where that
would matter; `RowsLatched`, what `way_flag` latched is still what the arrays hold;
`ArraySound`, a line is in one way at most, at its own index, and a clean copy equals memory;
and for each kind of transfer what the registers mean in each state of the machine
(`WriteBack`, `Refill`, `SingleBeat`, `LsuTransfer`, `WalkTransfer`, `ScanTransfer`). `CachedOnce` counts
with a cardinality, the proof shows that the set counted is a singleton.

`CacheIsMemory` (assuming `NoWalkErrors`) is the refinement, `Spec /\ []RefillUnfenced =>
ImplementsMemory`. The proof shows that every step of `Dcache` maps to one step of `MemoryPorts` or to
none: `View`, the cached copy or else memory, changes only when a store takes effect, which is
when its row is written or the bus takes its word; a load's result is fixed at the
hit or the last beat, an answer leaves once. Write-backs, refills and the scan move a line
between memory and a row and are stutters: that needs `ArraySound` and `WriteBack`, as the victim's old
copy must be gone exactly when memory has it. `FenceLeavesClean` adds `ScanDone`: the rows the scan
has passed are empty, and none comes back behind it.

`FetchProofs` (for every memory, program, set of targets, sets and ways, every bus and
every order of flushes): `FetchInvariant`, `Spec => []FetchInv`, and its corollaries
`FetchTypeCorrect`, `CountersAgreeAlways` and `BurstAlwaysOwned`, the three invariants of
`fetch_path`. They assume `MacroFits`: USE_ICACHE is defined exactly when the top has the
icache, since ifu otherwise waits for answers the icache dropped. `TypeOK` is not
inductive: that the address fifos and the answer fifo have room follows only from
the counters, so `FetchInv` adds where every request is (`Counting`: what is under way,
what of it is to be thrown away, and that a request is raised only if there is
room), which state of the machine goes with which beat of the burst (`BurstPlace`),
and that a refill stands for a miss whose rows are latched (`Refill`). The steps are
split by top, by what is accepted and answered in the cycle, and by flush; sums over
the fifos are lemmas about numbers and lengths.

`FetchIsStream` is the refinement, `Spec => ImplementsStream`, assuming `MacroFits` and
`FenceFits` (no fence.i in core_top, where the promise is broken: 3c.4). `StreamInv` (checked by
TLC before it was proved) says of every place what it holds. `Ahead(d, k)` is the double word
k behind d around the end of memory: the fifo answers `HeadDword` and those behind it
(`FifoAnswers`), the requests under way are the next ones, after as many as
`invalidCnt` counts, and `pc` follows the last of them (`Asked`); the two registers hold
consecutive instructions and `my_reg_PC` what follows them (`Buffered`). In icache the address
and its translation leave their fifos together (`Lockstep`), a valid row is a whole line
that can be fetched, with contents live since the last fence.i, and the only one of its line
(`RowsGood`, `RowsOnce`), the stage compares the rows of its own set (`StageRows`), and the
beats of a burst are those of the line in the stage, with `resp` set exactly when one of
them failed (`Refilled`). So what icache or the bus answers is right for the request it is
for (`OutAnswers`, `AnswerOfBus`), what ifu cuts from right answers is the instruction at
`my_reg_PC` with its fault (`CutRight`), and what was right stays it until fence.i, which
meets an empty ifu (`Restarted`).

`LightProofs` (for every set of processes, period, set of programs and number of slots
but one): `LightInvariant`, `Spec => []LightInv`, and its corollaries
`SnapshotTypeCorrect`, `SlotsCorrect` and `ReplayCorrect`, the three invariants of
`lightsss`. They assume `TwoSlots`, SLOT_SIZE >= 2: with one slot the oldest snapshot is
the newest, which may be as young as the failure. `ReplayIsOldest` speaks of a snapshot
that was woken long after the numbers that matter were fixed, so `LightInv` says what the
deque is at every instruction: the snapshots are a period apart, the run is ahead of
the newest by less than a period, or by exactly one in the instruction that forks
(`Spaced`); who may be alive in each step of wakeup_child (`Known`), and what the shared
words say there (`Shared`). `Chosen` then carries the distance across the wake-up.

`SimulatorProofs` (for every set of values, counts, number of watchpoints and of ^C):
`IInvHolds`, `Spec => []IInv`, and its corollaries `AlarmExplainedHolds`, `RunningAgreesHolds`,
`SuccessEarnedHolds`, `HaltIsFinalHolds`, the properties of `simulator` of those names.
`AlarmExplained` and `HaltIsFinal` are action properties. That an alarm has a reason needs
that the machines agree wherever they are not expected to differ. `InSync` says where:
between a skipped instruction and its copy the registers may differ, in a retired and
not yet compared one the simulated core is where NEMU will be after its step
(`NemuFollows`: the instruction is not `Beyond`), otherwise memory agrees too; each until the core
errs, the program goes beyond NEMU or ^C interferes. `AlarmHolds`: an alarm that no stop covered is still
in npc_state, whatever wrote it since. `HaltHolds` and `EndHolds`: a program that ended
keeps the loop from another instruction, and what npc_state then says of a0 is so.

The watchpoints: `WatchesWellFormedHolds` and `SimulatorTypeCorrect`, for a pool of any size.
`WatchesWellFormed` is not inductive: a node that new_wp has lost must also be smaller than every
free one (`PoolInv`), or the next new_wp could put one in use that is smaller. The lists are
defined by a recursive function, and an induction over it is out of the provers'
reach; the proofs argue by the least counterexample instead (`LeastNumber`): first that the
function exists and closes after NR_WP steps (`WalkCloses`, with a pigeonhole argument on
cardinalities), so that a chain is the least set which holds its first node and follows next
(`ChainClosed`, `ChainLeast`); then what taking a node out of a chain, inserting one and putting one
in front do to it (`ChainWithout`, `ChainInserted`, `ChainFronted`). new_wp and free_wp are then
cases over where the node stands.

`PipelineProofs` (for every machine, set of instructions, number of registers, program,
memory and every moment of an interrupt or halt request): `PipelineInvariant`,
`Spec => []IInv`, and its corollaries `PipelineTyped`, `AccessIsNotFlushed`, `FlushIsFollowed`
and `CsrIsAlone`, the four invariants of the two runs. None is inductive. That no
instruction does more than two transfers (`TypeOK`) needs how many it has done in each
state of the LSU's machine (`BusOfState`), and that the machine begins only where
nothing in front can flush it and moves on from there alone (`AccessCommits`,
`TransferAligned`). `RestFlushed` needs that a fence.i which has jumped stands alone
(`FenceAlone`), since its flush takes no new address away. `CsrAlone` needs that csr_wait
is up for as long as a csr instruction that will do its work is anywhere behind decode
(`CsrWaits`). The steps go by flush or none, then by the stage that moves.

Only model-checked: the refinement `ImplementsIsa`; all liveness, which the provers cannot
do (`DataServed`, `FetchServed`, `LsuServed`, `WalkServed`, `FenceEnds`, `FetchProceeds`,
`FailureReplayed`, `AllEnd`, `InterruptStops`, `Progress`); and everything about superpages
or translation switched off. Every invariant of a passing run is stated by a theorem.

## 5. Not modelled

The reasons are in `PROJECT.json`, component by component. In short: datapaths
(ALU, multiplier, the table of the decoder) are combinational over values too wide to
enumerate; NEMU and the software above are sequential; the remaining
parts of the core are the plan of section 2. Of the parts that are modelled, the
following is left out:

- fetch path: the combination of the cached top with USE_ICACHE undefined (nothing
  promises that it works), address translation inside it (section 3), more than one
  outstanding burst (the icache never has one);
- pipeline and traps: cause, tval and the delegation registers; writes of mepc, sepc, MPP, SPP
  and dcsr.prv by the program; MPRV; in the instance of `pipeline_trap` sret, sfence.vma,
  exceptions delegated to S, and illegal csr instructions and xRET together with debug
  mode (the module and the proofs have them); divides together with flushes from behind
  them (3f.4); the core without caches, whose wires between the stages differ in fence.i
  only (3c.4);
- snapshots: a simulator that is killed or aborts before sim_exit (its snapshots then
  poll for ever: the code takes no measure), a replay that differs from the run;
- debugger: expressions (any may change its value at any time), x, info and p, which
  change nothing; the registers of the devices, traces and the terminal; the build without
  CONFIG_WATCHPOINT, where the loop of section 3e lacks `Watches`;
- `axi2to1_with_lock.v`, the bus arbiter with LR/SC reservations: nothing in the repository
  instantiates it, so there is no program that runs it.
