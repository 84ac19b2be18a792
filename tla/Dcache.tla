------------------------------- MODULE Dcache -------------------------------
(***************************************************************************)
(* dcache.v with its two clients, the LSU (lsu.v) and the page table       *)
(* walker of l2tlb, and the bus.  One step is one clock edge (Cycle), or   *)
(* a client that raises a request between two edges.  A line holds two     *)
(* words of which each says where it belongs; rows of an invalid way, and  *)
(* registers no state reads again, are None.                               *)
(***************************************************************************)
EXTENDS Integers, FiniteSets, Sequences

CONSTANTS
    Tag, Index,     \* a line is <<tag, index>>
    Way,            \* ways, numbered from 0
    Device,         \* lines outside PMEM_START .. PMEM_END: never cached
    Op,             \* requests of the LSU: [kind, line, half, val]
    WalkAddr,       \* page table entries the walker reads: <<line, half>>
    Fences,         \* may the program execute fence.i?
    Flushes,        \* may the pipeline flush the data side?
    BusErrors,      \* the transfers (f_for) the bus may answer with an error
    None

Line == Tag \X Index
Half == {1, 2}
LastIndex == Cardinality(Index) - 1
LastWay == Cardinality(Way) - 1
OpRecord == [kind : {"load", "store", "lr", "sc"}, line : Line, half : Half, val : Nat]

ASSUME DcacheAssumption ==
    /\ LastIndex \in Nat /\ Index = 0 .. LastIndex
    /\ LastWay \in Nat /\ Way = 0 .. LastWay
    /\ Device \subseteq Line
    /\ Op \subseteq OpRecord
    /\ WalkAddr \subseteq (Line \ Device) \X Half
    /\ Fences \in BOOLEAN /\ Flushes \in BOOLEAN
    /\ BusErrors \subseteq {"lsu", "walk", "scan"}

VARIABLES
    l_state,    \* the LSU's request: idle, fifo, stage, answer
    l_op,       \* the request
    l_paddr,    \* dmmu's paddr register: none, ok, or fault (paddr_error)
    l_rand,     \* rand_way_reg
    l_cap,      \* the rows way_flag latched
    w_state,    \* the walker's port: idle, send (mmu_arvalid), wait
    w_addr,     \* mmu_araddr
    m_valid,    \* first_stage_mmu_valid
    m_addr,     \* dcache_line_waddr_mmu
    m_rand,     \* rand_way_mmu_reg
    m_cap,      \* the rows way_flag_mmu latched
    c,          \* way, index -> None or [line, data, dirty]: SRAMs and flag bits
    c_q,        \* the index the SRAM outputs show, None when they show nothing
    f_state,    \* dcache_fsm; the FLUSH_WAIT states are those with f_for = "scan"
    f_for,      \* whom the transfer serves: dcache_mmu_flag, or the fence.i scan
    f_flush,    \* flush_flag_reg
    f_ok,       \* dcache_resp_reg
    x,          \* the bus registers: [line, half, lock, single, wdata, last]
    b,          \* the beats this burst has transferred; axi_rdata for a read
    s_way, s_index, s_row,  \* the fence.i scan
    out,        \* out_fifo, emptied at every edge: None or [who, ok, word, of]
    mem,        \* memory
    fence       \* fence.i in LS: no, first (its first cycle), on

lsuVars == <<l_state, l_op, l_paddr, l_rand, l_cap>>
walkVars == <<w_state, w_addr, m_valid, m_addr, m_rand, m_cap>>
arrayVars == <<c, c_q>>
fsmVars == <<f_state, f_for, f_flush, f_ok, x, b, mem>>
scanVars == <<s_way, s_index, s_row, fence>>
vars == <<lsuVars, walkVars, arrayVars, fsmVars, scanVars, out>>

-----------------------------------------------------------------------------
Word == Line \X Half \X Nat \cup {None}
WordAt(l, h, v) == <<l, h, v>>
Memory0 == [l \in Line |-> <<WordAt(l, 1, 0), WordAt(l, 2, 0)>>]
Row == [line : Line \cup {None}, data : Word \X Word, dirty : BOOLEAN]
Rows == [Way -> Row \cup {None}]
Burst == [line : Line, half : Half, lock : BOOLEAN, single : BOOLEAN,
          wdata : Word, last : BOOLEAN]
OutRecord == [who : {"lsu", "walk"}, ok : {"ok", "error", "fault"}, word : Word,
              of : WalkAddr \cup {None}]
Outcome == [ok : {"ok", "error", "fault"}, word : Word]

\* An empty register holds no value it could hold otherwise.
ASSUME NoneAssumption ==
    /\ None \notin Op /\ None \notin WalkAddr /\ None \notin Line /\ None \notin Index
    /\ None \notin Row /\ None \notin Rows /\ None \notin Burst /\ None \notin OutRecord
    /\ None \notin Outcome
    /\ None \notin [op : Op, res : Outcome \cup {None}]
    /\ None \notin [addr : WalkAddr, res : Outcome \cup {None}]

TypeOK ==
    /\ l_state \in {"idle", "fifo", "stage", "answer"}
    /\ l_op \in Op \cup {None}
    /\ l_paddr \in {"none", "ok", "fault"}
    /\ l_rand \in Way /\ m_rand \in Way
    /\ l_cap \in Rows \cup {None} /\ m_cap \in Rows \cup {None}
    /\ w_state \in {"idle", "send", "wait"}
    /\ w_addr \in WalkAddr \cup {None} /\ m_addr \in WalkAddr \cup {None}
    /\ m_valid \in BOOLEAN
    /\ c \in [Way -> [Index -> Row \cup {None}]]
    /\ c_q \in Index \cup {None}
    /\ f_state \in {"IDLE", "FLUSH", "WAIT_AW_W", "WAIT_AW", "WAIT_W", "WAIT_B", "WAIT_AR",
                    "WAIT_R", "WAIT_ERROR", "SEND_DATA", "WRITE_CACHE", "FLUSH_READ"}
    /\ f_for \in {"lsu", "walk", "scan"}
    /\ f_flush \in BOOLEAN /\ f_ok \in BOOLEAN
    /\ x \in Burst \cup {None}
    /\ b \in Seq(Word) /\ Len(b) <= 2
    /\ s_way \in Way /\ s_index \in Index /\ s_row \in Row \cup {None}
    /\ out \in OutRecord \cup {None}
    /\ mem \in [Line -> Word \X Word]
    /\ fence \in {"no", "first", "on"}

Init ==
    /\ l_state = "idle" /\ l_op = None /\ l_paddr = "none" /\ l_rand = 0 /\ l_cap = None
    /\ w_state = "idle" /\ w_addr = None
    /\ m_valid = FALSE /\ m_addr = None /\ m_rand = 0 /\ m_cap = None
    /\ c = [w \in Way |-> [i \in Index |-> None]] /\ c_q = None
    /\ f_state = "IDLE" /\ f_for = "lsu" /\ f_flush = FALSE /\ f_ok = TRUE
    /\ x = None /\ b = <<>>
    /\ s_way = 0 /\ s_index = 0 /\ s_row = None
    /\ out = None
    /\ mem = Memory0
    /\ fence = "no"

-----------------------------------------------------------------------------
\* Requests.
IsRead(op) == op.kind \in {"load", "lr"}
Locked(op) == op.kind \in {"lr", "sc"}
Single(op) == Locked(op) \/ op.line \in Device
OpWord(op) == WordAt(op.line, op.half, op.val)

\* The rows the two stages compare: latched, or what the SRAMs show.
\* The outputs of the data and tag SRAMs are noise but for the cycle after a
\* read; the valid and dirty bits are flip-flops.
Noise == [line |-> None, data |-> <<None, None>>, dirty |-> FALSE]
Q(w) == IF c_q = None \/ c[w][c_q] = None THEN Noise ELSE c[w][c_q]
Shown(i) == [w \in Way |-> IF c[w][i] = None THEN None
                           ELSE [Q(w) EXCEPT !.dirty = c[w][i].dirty]]
LWays == IF l_cap # None THEN l_cap ELSE Shown(l_op.line[2])
MWays == IF m_cap # None THEN m_cap ELSE Shown(m_addr[1][2])

\* Only the tag is compared, and only of valid ways.
HitWays(rows, tag) ==
    {w \in Way : rows[w] # None /\ rows[w].line # None /\ rows[w].line[1] = tag}
LHits == HitWays(LWays, l_op.line[1])
MHits == HitWays(MWays, m_addr[1][1])
Free(rows) == {w \in Way : rows[w] = None}
Highest(ways) == CHOOSE w \in ways : \A v \in ways : v <= w
Lowest(ways) == CHOOSE w \in ways : \A v \in ways : w <= v

\* way_sel and way_sel_mmu.
Victim(rows, rand) == IF Free(rows) = {} THEN rand ELSE Lowest(Free(rows))
LWay == IF LHits # {} THEN Highest(LHits) ELSE Victim(LWays, l_rand)
MWay == Victim(MWays, m_rand)
IsDirty(row) == row # None /\ row.dirty

InStage == l_state = "stage" /\ l_paddr # "none"
LineWen == f_state \in {"WRITE_CACHE", "FLUSH"}

-----------------------------------------------------------------------------
\* The answers of this cycle (out_fifo_wen and its conditions).
WalkHit == f_state = "IDLE" /\ m_valid /\ MHits # {}
WalkSend == f_state = "SEND_DATA" /\ f_for = "walk"
LsuFault == f_state = "IDLE" /\ InStage /\ ~m_valid /\ l_paddr = "fault"
LsuLoadHit ==
    /\ f_state = "IDLE" /\ InStage /\ ~m_valid /\ l_paddr = "ok"
    /\ l_op.kind = "load" /\ LHits # {}
LsuStoreHit ==
    /\ f_state = "WRITE_CACHE" /\ f_for = "lsu"
    /\ ~IsRead(l_op) /\ LHits # {}
LsuSend == f_state = "SEND_DATA" /\ f_for = "lsu"

WalkPush == WalkHit \/ WalkSend
LsuPush == LsuFault \/ LsuLoadHit \/ LsuStoreHit \/ LsuSend

Answer(who, ok, word, of) == [who |-> who, ok |-> ok, word |-> word, of |-> of]

\* Mutant: the first beat answers whatever word was asked for.
BeatFirst(h) == IF ~f_ok THEN None ELSE b[1]

\* The word of a transfer that is being answered.
Beat(h) == IF ~f_ok THEN None ELSE IF Len(b) = 2 THEN b[h] ELSE b[1]
Resp == IF f_ok THEN "ok" ELSE "error"
Pushed ==
    IF WalkHit THEN Answer("walk", "ok", MWays[Highest(MHits)].data[m_addr[2]], m_addr)
    ELSE IF WalkSend THEN Answer("walk", Resp, Beat(m_addr[2]), m_addr)
    ELSE IF LsuFault THEN Answer("lsu", "fault", None, None)
    ELSE IF LsuLoadHit THEN Answer("lsu", "ok", LWays[LWay].data[l_op.half], None)
    ELSE IF LsuStoreHit THEN Answer("lsu", "ok", None, None)
    ELSE Answer("lsu", Resp, IF IsRead(l_op) THEN Beat(l_op.half) ELSE None, None)

\* Mutant: the out fifo is not flushed.
OutStepKept(flush) ==
    out' = IF WalkPush \/ LsuPush THEN Pushed ELSE None

OutStep(flush) ==
    out' = IF ~flush /\ (WalkPush \/ LsuPush) THEN Pushed ELSE None
-----------------------------------------------------------------------------
\* The bus.  What may happen on it at this edge: the handshakes of the channels
\* that are up, or an answer.
Answers == {"ok"} \cup (IF f_for \in BusErrors THEN {"error"} ELSE {})
BusIn ==
    IF f_state = "WAIT_AW_W" THEN SUBSET {"aw", "w"}
    ELSE IF f_state = "WAIT_AW" THEN SUBSET {"aw"}
    ELSE IF f_state = "WAIT_W" THEN SUBSET {"w"}
    ELSE IF f_state = "WAIT_AR" THEN SUBSET {"ar"}
    ELSE IF f_state \in {"WAIT_B", "WAIT_R", "WAIT_ERROR"}
    THEN {{}} \cup {{a} : a \in Answers}
    ELSE {{}}

\* Starting a burst: the two words of a line, or one word of a request.
StartLine(state, for, line, wdata) ==
    /\ f_state' = state /\ f_for' = for /\ b' = <<>>
    /\ x' = [line |-> line, half |-> 1, lock |-> FALSE, single |-> FALSE,
             wdata |-> wdata, last |-> FALSE]
StartWriteBack(for, row) == StartLine("WAIT_AW_W", for, row.line, row.data[1])
StartRefill(for, line) == StartLine("WAIT_AR", for, line, None)
StartSingle ==
    /\ f_state' = IF IsRead(l_op) THEN "WAIT_AR" ELSE "WAIT_AW_W"
    /\ f_for' = "lsu" /\ b' = <<>>
    /\ x' = [line |-> l_op.line, half |-> l_op.half, lock |-> Locked(l_op), single |-> TRUE,
             wdata |-> IF IsRead(l_op) THEN None ELSE OpWord(l_op), last |-> TRUE]

\* The machine at rest, and a step to a state that keeps the transfer.
Rest ==
    /\ f_state' = "IDLE" /\ f_for' = "lsu"
    /\ x' = None /\ b' = <<>>
Go(state) == f_state' = state /\ UNCHANGED <<f_for, x, b>>

-----------------------------------------------------------------------------
\* dcache_fsm, one operator per state.  IDLE: a flush, then fence.i, then the
\* walker, then the LSU.
IdleWalk ==
    \/ /\ MHits # {}
       /\ Rest
    \/ /\ MHits = {} /\ IsDirty(MWays[MWay])
       /\ StartWriteBack("walk", MWays[MWay])
    \/ /\ MHits = {} /\ ~IsDirty(MWays[MWay])
       /\ StartRefill("walk", m_addr[1])

IdleLsu ==
    \/ /\ l_op.kind = "store" /\ LHits # {}
       /\ Go("WRITE_CACHE")
    \/ /\ l_op.kind = "load" /\ LHits # {}
       /\ Rest
    \/ /\ Locked(l_op) /\ LHits # {}
       /\ IF IsDirty(LWays[LWay]) THEN StartWriteBack("lsu", LWays[LWay]) ELSE Go("FLUSH")
    \/ /\ Single(l_op) /\ LHits = {}
       /\ StartSingle
    \/ /\ ~Single(l_op) /\ LHits = {}
       /\ IF IsDirty(LWays[LWay]) THEN StartWriteBack("lsu", LWays[LWay])
          ELSE StartRefill("lsu", l_op.line)

Idle(flush) ==
    /\ f_state = "IDLE"
    /\ IF flush THEN Rest
       ELSE IF fence # "no" THEN f_state' = "FLUSH_READ" /\ f_for' = "scan" /\ UNCHANGED <<x, b>>
       ELSE IF m_valid THEN IdleWalk
       ELSE IF InStage /\ l_paddr = "ok" THEN IdleLsu
       ELSE Rest
    /\ f_ok' = TRUE
    /\ UNCHANGED <<f_flush, s_row, mem>>

\* FLUSH: the line a locked request hit is dropped, then the request goes out.
DropForLock ==
    /\ f_state = "FLUSH"
    /\ StartSingle
    /\ UNCHANGED <<f_flush, f_ok, s_row, mem>>

\* Mutant: the first word of a line goes out twice.
SecondBeatKept == x.wdata

\* WAIT_AW_W, WAIT_AW, WAIT_W and their FLUSH_ twins: AW and W are taken in any
\* order; the second word of a line is loaded when the first is taken.
SecondBeat ==
    IF f_for = "scan" THEN s_row.data[2]
    ELSE IF f_for = "walk" THEN (IF MWays[MWay] = None THEN None ELSE MWays[MWay].data[2])
    ELSE LWays[LWay].data[2]

SendWrite(flush, bus) ==
    /\ f_state \in {"WAIT_AW_W", "WAIT_AW", "WAIT_W"}
    /\ LET awUp == f_state # "WAIT_W" /\ "aw" \notin bus
           wUp == f_state # "WAIT_AW" /\ ~("w" \in bus /\ x.last)
       IN  f_state' = IF awUp THEN (IF wUp THEN "WAIT_AW_W" ELSE "WAIT_AW")
                      ELSE (IF wUp THEN "WAIT_W" ELSE "WAIT_B")
    /\ IF "w" \in bus
       THEN /\ b' = Append(b, x.wdata)
            /\ x' = IF x.last THEN x ELSE [x EXCEPT !.wdata = SecondBeat, !.last = TRUE]
       ELSE UNCHANGED <<b, x>>
    /\ f_flush' = (f_flush \/ flush)
    /\ UNCHANGED <<f_for, f_ok, s_row, mem>>

\* Memory takes the write when the slave answers OKAY (EXOKAY for a locked one).
Commit ==
    mem' = IF x.single THEN [mem EXCEPT ![x.line][x.half] = b[1]]
           ELSE [mem EXCEPT ![x.line] = <<b[1], b[2]>>]

\* Mutant: the scan ends with the first way.
ScanLastOneWay == s_index = LastIndex

\* FLUSH_WAIT_B: a failed write-back is tried again.
ScanLast == s_way = LastWay /\ s_index = LastIndex
ScanNext == IF ScanLast THEN Rest
            ELSE f_state' = "FLUSH_READ" /\ f_for' = "scan" /\ x' = None /\ b' = <<>>
AfterScanWrite(ok) == IF ok THEN ScanNext ELSE StartWriteBack("scan", s_row)

WaitB(flush, bus) ==
    /\ f_state = "WAIT_B"
    /\ IF bus = {}
       THEN Go("WAIT_B") /\ f_flush' = (f_flush \/ flush) /\ UNCHANGED <<f_ok, mem>>
       ELSE /\ IF "ok" \in bus THEN Commit ELSE UNCHANGED mem
            /\ f_flush' = FALSE
            /\ f_ok' = ("ok" \in bus \/ f_for = "scan")
            /\ IF flush \/ f_flush THEN Rest
               ELSE IF f_for = "scan" THEN AfterScanWrite("ok" \in bus)
               ELSE IF x.single \/ bus = {"error"} THEN Go("SEND_DATA")
               ELSE IF f_for = "walk" THEN StartRefill("walk", m_addr[1])
               ELSE IF LHits # {} THEN Go("FLUSH")
               ELSE StartRefill("lsu", l_op.line)
    /\ UNCHANGED s_row

WaitAr(flush, bus) ==
    /\ f_state = "WAIT_AR"
    /\ Go(IF "ar" \in bus THEN "WAIT_R" ELSE "WAIT_AR")
    /\ f_flush' = (f_flush \/ flush)
    /\ UNCHANGED <<f_ok, s_row, mem>>

\* The next beat of the burst, and whether it is the last (rlast).
ReadWord == IF x.single THEN mem[x.line][x.half] ELSE mem[x.line][Len(b) + 1]
LastBeat == x.single \/ Len(b) = 1

WaitR(flush, bus) ==
    /\ f_state = "WAIT_R"
    /\ IF bus = {} \/ ((flush \/ f_flush) /\ ~LastBeat)
       THEN /\ UNCHANGED <<f_state, f_for, f_ok, x>>
            /\ b' = IF bus = {} THEN b ELSE Append(b, ReadWord)
            /\ f_flush' = (f_flush \/ flush)
       ELSE IF flush \/ f_flush
       THEN Rest /\ f_flush' = FALSE /\ UNCHANGED f_ok
       ELSE /\ b' = Append(b, ReadWord)
            /\ f_ok' = ("ok" \in bus)
            /\ f_state' = IF "error" \in bus THEN (IF LastBeat THEN "SEND_DATA" ELSE "WAIT_ERROR")
                          ELSE IF ~LastBeat THEN "WAIT_R"
                          ELSE IF x.single THEN "SEND_DATA" ELSE "WRITE_CACHE"
            /\ UNCHANGED <<f_for, f_flush, x>>
    /\ UNCHANGED <<s_row, mem>>

\* The rest of a burst that failed.  A flush changes nothing here: both branches
\* go to SEND_DATA.
WaitError(flush, bus) ==
    /\ f_state = "WAIT_ERROR"
    /\ IF bus = {}
       THEN Go("WAIT_ERROR") /\ f_flush' = (f_flush \/ flush)
       ELSE /\ f_state' = "SEND_DATA" /\ f_flush' = FALSE
            /\ b' = Append(b, ReadWord)
            /\ UNCHANGED <<f_for, x>>
    /\ UNCHANGED <<f_ok, s_row, mem>>

SendData ==
    /\ f_state = "SEND_DATA"
    /\ Rest
    /\ UNCHANGED <<f_flush, f_ok, s_row, mem>>

WriteCache(flush) ==
    /\ f_state = "WRITE_CACHE"
    /\ IF flush \/ (f_for = "lsu" /\ LHits # {}) THEN Rest ELSE Go("SEND_DATA")
    /\ UNCHANGED <<f_flush, f_ok, s_row, mem>>

\* FLUSH_READ: the row under the scan is written back when it is dirty.
ScanDirty == IsDirty(c[s_way][s_index])
FlushRead ==
    /\ f_state = "FLUSH_READ"
    /\ IF ScanDirty THEN StartWriteBack("scan", Q(s_way)) ELSE ScanNext
    /\ s_row' = Q(s_way)
    /\ UNCHANGED <<f_flush, f_ok, mem>>

FsmStep(flush, bus) ==
    \/ Idle(flush)
    \/ DropForLock
    \/ SendWrite(flush, bus)
    \/ WaitB(flush, bus)
    \/ WaitAr(flush, bus)
    \/ WaitR(flush, bus)
    \/ WaitError(flush, bus)
    \/ SendData
    \/ WriteCache(flush)
    \/ FlushRead

-----------------------------------------------------------------------------
\* Mutant: a write-back does not move the scan on.
ScanClearsClean(bus) == f_state = "FLUSH_READ" /\ ~ScanDirty

\* fence.i: the scan visits every index of every way and clears its flags.
ScanClears(bus) ==
    \/ f_state = "FLUSH_READ" /\ ~ScanDirty
    \/ f_state = "WAIT_B" /\ f_for = "scan" /\ "ok" \in bus

\* Mutant: the index is not wrapped at the end of a way.
ScanStepNoWrap(bus) ==
    /\ IF ScanClears(bus) THEN s_index' = s_index + 1 ELSE UNCHANGED s_index
    /\ fence' = IF fence = "first" \/ (fence = "on" /\ ~(ScanClears(bus) /\ ScanLast))
                THEN "on" ELSE "no"
    /\ UNCHANGED s_way

ScanStep(bus) ==
    /\ IF ScanClears(bus)
       THEN /\ s_index' = IF s_index = LastIndex THEN 0 ELSE s_index + 1
            /\ s_way' = IF s_index # LastIndex THEN s_way
                        ELSE IF s_way = LastWay THEN 0 ELSE s_way + 1
       ELSE UNCHANGED <<s_way, s_index>>
    /\ fence' = IF fence = "first" \/ (fence = "on" /\ ~(ScanClears(bus) /\ ScanLast))
                THEN "on" ELSE "no"

\* dcache_flush_addr_index_read runs one index ahead of the scan.
ScanReadIndex == IF f_for = "scan" THEN (s_index + 1) % Cardinality(Index) ELSE 0

-----------------------------------------------------------------------------
\* The clients' handshakes.
SameIndex(l1, l2) == l1[2] = l2[2]

\* Mutant: the walker waits for the LSU to be idle.
WalkTakeLast ==
    /\ w_state = "send" /\ ~LineWen
    /\ ~m_valid \/ WalkPush
    /\ l_state = "idle"

\* mmu_arready: the walker's request enters its stage.
WalkTake ==
    /\ w_state = "send" /\ ~LineWen
    /\ ~m_valid \/ WalkPush
    /\ ~(l_state = "stage" /\ SameIndex(w_addr[1], l_op.line))

\* Mutant: the LSU waits while a walk is under way.
LsuTakeAfterWalk ==
    /\ l_state = "fifo" /\ ~LineWen /\ ~WalkTake
    /\ l_paddr # "none"
    /\ w_state = "idle" /\ ~m_valid

\* lsu_fifo_ren: the LSU's request enters its stage.
LsuTake ==
    /\ l_state = "fifo" /\ ~LineWen /\ ~WalkTake
    /\ l_paddr # "none"
    /\ ~(m_valid /\ SameIndex(m_addr[1], l_op.line))

\* The SRAM rows and flag bits.  A refill writes both words, a store hit one;
\* while fence.i is in LS the addresses are those of the scan.
Stored(data) == [data EXCEPT ![l_op.half] = OpWord(l_op)]

\* Mutant: a store that missed leaves its line clean.
NewRowClean ==
    IF f_for = "walk" THEN [line |-> m_addr[1], data |-> <<b[1], b[2]>>, dirty |-> FALSE]
    ELSE IF IsRead(l_op) THEN [line |-> l_op.line, data |-> <<b[1], b[2]>>, dirty |-> FALSE]
    ELSE [line |-> l_op.line, dirty |-> LHits # {},
          data |-> Stored(IF LHits # {} THEN LWays[LWay].data ELSE <<b[1], b[2]>>)]

\* What WRITE_CACHE writes.
NewRow ==
    IF f_for = "walk" THEN [line |-> m_addr[1], data |-> <<b[1], b[2]>>, dirty |-> FALSE]
    ELSE IF IsRead(l_op) THEN [line |-> l_op.line, data |-> <<b[1], b[2]>>, dirty |-> FALSE]
    ELSE [line |-> l_op.line, dirty |-> TRUE,
          data |-> Stored(IF LHits # {} THEN LWays[LWay].data ELSE <<b[1], b[2]>>)]

WrittenWay == IF f_for = "walk" THEN MWay ELSE LWay
WrittenIndex == IF fence # "no" THEN s_index
                ELSE IF f_for = "walk" THEN m_addr[1][2] ELSE l_op.line[2]

ArrayStep(bus) ==
    /\ c' = IF f_state = "WRITE_CACHE" THEN [c EXCEPT ![WrittenWay][WrittenIndex] = NewRow]
            ELSE IF f_state = "FLUSH" THEN [c EXCEPT ![LWay][l_op.line[2]] = None]
            ELSE IF ScanClears(bus) THEN [c EXCEPT ![s_way][s_index] = None]
            ELSE c
    /\ c_q' = IF LineWen THEN None
              ELSE IF fence # "no" THEN ScanReadIndex
              ELSE IF WalkTake THEN w_addr[1][2]
              ELSE IF l_state = "fifo" THEN l_op.line[2]
              ELSE None

\* The stage of the LSU: the address translation arrives, the request enters,
\* its rows are latched, the answer leaves and is taken at the next edge.
LsuStep(flush) ==
    /\ l_state' = IF l_state = "fifo" /\ LsuTake THEN "stage"
                  ELSE IF l_state = "stage" /\ LsuPush THEN "answer"
                  ELSE IF l_state = "answer" THEN "idle" ELSE l_state
    /\ l_op' = IF l_state = "answer" THEN None ELSE l_op
    /\ IF l_state = "fifo" /\ l_paddr = "none"
       THEN l_paddr' \in {"none", "ok", "fault"}
       ELSE l_paddr' = IF l_state = "stage" /\ LsuPush THEN "none" ELSE l_paddr
    /\ IF l_state = "fifo" /\ LsuTake THEN l_rand' \in Way
       ELSE l_rand' = IF l_state = "stage" /\ ~LsuPush THEN l_rand ELSE 0
    /\ l_cap' = IF l_state = "stage" /\ ~LsuPush THEN LWays ELSE None

\* The stage of the walker, which a flush empties while the transfer it began
\* goes on.
WalkStep(flush) ==
    /\ w_state' = IF flush THEN "idle"
                  ELSE IF WalkTake THEN "wait"
                  ELSE IF w_state = "wait" /\ out # None /\ out.who = "walk" THEN "idle"
                  ELSE w_state
    /\ w_addr' = IF w_state' = "idle" THEN None ELSE w_addr
    /\ m_valid' = (~flush /\ (WalkTake \/ (m_valid /\ ~WalkPush)))
    /\ m_addr' = IF ~m_valid' /\ f_for' # "walk" THEN None
                 ELSE IF WalkTake THEN w_addr ELSE m_addr
    /\ IF m_addr' # None /\ (WalkTake \/ ~m_valid) THEN m_rand' \in Way
       ELSE m_rand' = IF m_addr' # None THEN m_rand ELSE 0
    /\ m_cap' = IF m_valid /\ ~WalkPush /\ ~flush THEN MWays ELSE None

-----------------------------------------------------------------------------
\* The data side is flushed in the first cycle of fence.i, and by traps, CSR
\* writes and SFENCE.VMA, which reach write-back while no request of the LSU is
\* under way.
FlushIn ==
    IF fence = "first" THEN {TRUE}
    ELSE IF Flushes /\ fence = "no" /\ l_state = "idle" THEN BOOLEAN ELSE {FALSE}

Cycle(flush, bus) ==
    /\ FsmStep(flush, bus)
    /\ ScanStep(bus)
    /\ ArrayStep(bus)
    /\ LsuStep(flush)
    /\ WalkStep(flush)
    /\ OutStep(flush)

Tick == \E flush \in FlushIn, bus \in BusIn : Cycle(flush, bus)

\* The LSU raises arvalid or awvalid and wvalid, and the fifo takes it.
LsuRequest ==
    /\ l_state = "idle" /\ fence = "no"
    /\ \E op \in Op : l_op' = op
    /\ l_state' = "fifo"
    /\ UNCHANGED <<l_paddr, l_rand, l_cap, walkVars, arrayVars, fsmVars, scanVars, out>>

\* l2tlb raises mmu_arvalid.  While fence.i is in LS the fetch side is held in
\* flush and the data side has no access, so no walk begins.
WalkRequest ==
    /\ w_state = "idle" /\ fence = "no"
    /\ \E a \in WalkAddr : w_addr' = a
    /\ w_state' = "send"
    /\ UNCHANGED <<lsuVars, m_valid, m_addr, m_rand, m_cap, arrayVars, fsmVars, scanVars, out>>

\* fence.i enters LS.
FenceRequest ==
    /\ Fences /\ fence = "no" /\ l_state = "idle"
    /\ fence' = "first"
    /\ UNCHANGED <<lsuVars, walkVars, arrayVars, fsmVars, s_way, s_index, s_row, out>>

Next == Tick \/ LsuRequest \/ WalkRequest \/ FenceRequest

Spec == Init /\ [][Next]_vars

\* The bus serves what is asked of it and does not fail for ever; a translation
\* arrives.
BusServes == \E flush \in FlushIn, bus \in BusIn \ {{}} : Cycle(flush, bus)
BusAccepts == \E flush \in FlushIn, bus \in BusIn : "ok" \in bus /\ Cycle(flush, bus)
PaddrArrives ==
    /\ l_state = "fifo" /\ l_paddr = "none"
    /\ \E flush \in FlushIn, bus \in BusIn : Cycle(flush, bus)
    /\ l_paddr' # "none"

FairSpec ==
    /\ Spec
    /\ WF_vars(Tick) /\ WF_vars(BusServes) /\ WF_vars(PaddrArrives)
    /\ SF_vars(BusAccepts)

-----------------------------------------------------------------------------
\* What the two clients see as memory: the copy a way answers with, else the
\* word in memory.
FoundIn(l) == {w \in Way : c[w][l[2]] # None /\ c[w][l[2]].line[1] = l[1]}
View == [l \in Line |-> IF FoundIn(l) = {} THEN mem[l] ELSE c[Highest(FoundIn(l))][l[2]].data]

\* A line is in one way at most, in the set its address names, and a copy that
\* is not dirty is what memory holds: a victim dropped without a write-back, or
\* a line filled twice, would lose a store.
CachedOnce ==
    /\ \A l \in Line : Cardinality(FoundIn(l)) <= 1
    /\ \A w \in Way, i \in Index :
          c[w][i] # None => /\ c[w][i].line[2] = i
                            /\ c[w][i].dirty \/ c[w][i].data = mem[c[w][i].line]

\* An answer that goes to the walker is the answer of the read it waits for; the
\* comment at flush_flag_reg says a transfer a flush overtakes has no effect.
AnswerAwaited ==
    out # None /\ out.who = "walk" => w_state = "wait" /\ ~m_valid /\ out.of = w_addr

\* The cache implements a memory with one port for the LSU and one for the
\* walker: a request takes effect once, between its start and its answer, and
\* only the LSU's stores change what the clients see.
Done(ok, word) == [ok |-> ok, word |-> word]
LsuResult ==
    IF l_state = "answer" THEN Done(out.ok, out.word)
    ELSE IF f_state = "SEND_DATA" /\ f_for = "lsu"
    THEN Done(Resp, IF IsRead(l_op) THEN Beat(l_op.half) ELSE None)
    ELSE None
WalkResult ==
    IF out # None /\ out.who = "walk" THEN Done(out.ok, out.word)
    ELSE IF f_state = "SEND_DATA" /\ f_for = "walk" THEN Done(Resp, Beat(m_addr[2]))
    ELSE None

Ports == INSTANCE MemoryPorts WITH
    m <- View,
    lsu <- IF l_state = "idle" THEN None ELSE [op |-> l_op, res |-> LsuResult],
    walk <- IF w_state = "idle" THEN None ELSE [addr |-> w_addr, res |-> WalkResult]
ImplementsMemory == Ports!Spec

\* When fence.i ends, memory holds what the clients saw and no line is left in
\* the cache, so the icache fetches what was stored.
FenceCleans ==
    [][fence = "on" /\ fence' = "no" =>
          mem' = View /\ \A w \in Way, i \in Index : c'[w][i] = None]_vars

\* The edge at which fence.i flushes the data side changes nothing the clients
\* see, whatever transfer is under way.
FlushKeepsMemory == [][fence = "first" => View' = View]_vars

\* Every request of the LSU is answered, though the walker goes first and both
\* wait for each other's set; every read of the walker is answered or flushed;
\* fence.i ends.
LsuServed == l_state = "fifo" ~> l_state = "idle"
WalkServed == w_state = "send" ~> w_state = "idle"
FenceEnds == fence = "first" ~> fence = "no"
=============================================================================
