------------------------------- MODULE Icache -------------------------------
(***************************************************************************)
(* icache.v: two fifos of requested addresses (one for the arrays, one for *)
(* immu), one stage that compares the rows read with the translated        *)
(* address, a machine that refills a line in a burst of two beats, the     *)
(* flag that remembers a burst whose request was flushed, and the out      *)
(* fifo.  immu is a register that receives the head of its fifo in some    *)
(* cycle; virtual and physical lines have the same number.                 *)
(* A way without valid bit is None.  resp and wdata are cleared where no   *)
(* state reads them again.                                                 *)
(***************************************************************************)
EXTENDS Ifu

CONSTANTS
    Index, Way,     \* sets and ways; a line is in the set line % |Index|
    Uncached        \* lines outside PMEM_START .. PMEM_END

ASSUME IcacheAssumption ==
    /\ IsFiniteSet(Index) /\ Index # {}
    /\ Index = 0 .. Cardinality(Index) - 1
    /\ Way # {}
    /\ Uncached \subseteq Line

VARIABLES
    rch, mmu,   \* rch_fifo, mmu_fifo: double words requested
    stage,      \* icache_line_waddr; None: first_stage_valid is 0
    paddr,      \* the paddr register of immu: the double word it is of, or None
    cap,        \* the rows way_flag latched, None when it is 0
    fsm,        \* icache_fsm
    resp,       \* icache_ifu_resp_reg is not 0
    wdata,      \* sram_data_wdata: two beats, each an Answer
    drop,       \* icache_send_not_recv_flag
    rows,       \* index, way -> None or [line, data]: SRAMs and valid bits
    shown,      \* the index whose row the SRAM outputs show, None: noise
    out         \* out_fifo, emptied at every edge as ifu is always ready

icacheVars == <<rch, mmu, stage, paddr, cap, fsm, resp, wdata, drop, rows, shown, out>>

IndexOf(l) == l % Cardinality(Index)
Row == [line : Line, data : [{1, 2} -> Answer]]
RowSet == [Way -> Row \cup {None}]
Noise == Good(0, Unwritten)

ASSUME NoneAssumption == None \notin Answer /\ None \notin RowSet /\ None \notin Instruction

IcacheTypeOK ==
    /\ rch \in Seq(Dword) /\ mmu \in Seq(Dword)
    /\ Len(rch) <= 7 /\ Len(mmu) <= 7
    /\ stage \in Dword \cup {None} /\ paddr \in Dword \cup {None}
    /\ cap \in RowSet \cup {None}
    /\ fsm \in {"IDLE", "WAIT_ARREADY", "WAIT_RVALID0", "DATA0_ERROR", "WAIT_RVALID1",
                "WRITE_CACHE", "SEND_DATA"}
    /\ resp \in BOOLEAN /\ drop \in BOOLEAN
    /\ wdata \in [{1, 2} -> Answer]
    /\ rows \in [Index -> RowSet]
    /\ shown \in Index \cup {None}
    /\ out \in Answer \cup {None}

IcacheInit ==
    /\ rch = <<>> /\ mmu = <<>> /\ stage = None /\ paddr = None /\ cap = None
    /\ fsm = "IDLE" /\ resp = FALSE /\ drop = FALSE
    /\ wdata = [h \in {1, 2} |-> Noise]
    /\ rows = [i \in Index |-> [w \in Way |-> None]]
    /\ shown = None /\ out = None

-----------------------------------------------------------------------------
\* The stage: rows read one cycle ago, latched when the request has to wait.

Half == (stage % 2) + 1
RowsNow == IF shown = None THEN [w \in Way |-> None] ELSE rows[shown]

RowsUsed == IF cap # None THEN cap ELSE RowsNow

HitWays == {w \in Way : RowsUsed[w] # None /\ RowsUsed[w].line = LineOf(paddr)}

\* Two ways that hit together are ORed.
HitData ==
    LET data == {RowsUsed[w].data[Half] : w \in HitWays}
    IN IF Cardinality(data) = 1 THEN CHOOSE a \in data : TRUE ELSE Noise

Translated == stage # None /\ paddr # None
PaddrError == LineOf(paddr) \in Unmapped
Miss == Translated /\ HitWays = {} /\ ~PaddrError

OutWen == (Translated /\ ~Miss) \/ fsm = "SEND_DATA"

\* out_fifo_wdata, for a failed answer one of its two disguises.
OutData ==
    IF fsm = "SEND_DATA"
    THEN (IF resp THEN Failed ELSE {wdata[Half]})
    ELSE IF PaddrError THEN Failed
    ELSE {HitData}

RchRen == rch # <<>> /\ (OutWen \/ stage = None)
MmuRen == mmu # <<>> /\ (OutWen \/ paddr = None)    \* if immu has the address

-----------------------------------------------------------------------------
\* The refill machine.  beat is None, or [ok, data, last]: a transfer on the
\* read channel, which icache always accepts.

ArValid == fsm = "WAIT_ARREADY"

FsmMove(arready, beat) ==
    \/ /\ fsm = "IDLE"
       /\ fsm' = IF Miss /\ ~drop THEN "WAIT_ARREADY" ELSE fsm
    \/ /\ fsm = "WAIT_ARREADY"
       /\ fsm' = IF arready THEN "WAIT_RVALID0" ELSE fsm
    \/ /\ fsm = "WAIT_RVALID0"
       /\ fsm' = IF beat = None THEN fsm
                 ELSE IF ~beat.ok THEN "DATA0_ERROR"
                 ELSE IF beat.last THEN "SEND_DATA" ELSE "WAIT_RVALID1"
    \/ /\ fsm = "DATA0_ERROR"
       /\ fsm' = IF beat # None /\ beat.last THEN "SEND_DATA" ELSE fsm
    \/ /\ fsm = "WAIT_RVALID1"
       /\ fsm' = IF beat = None THEN fsm
                 ELSE IF ~beat.ok THEN "SEND_DATA"
                 ELSE IF ~beat.last THEN "DATA0_ERROR"
                 ELSE IF LineOf(paddr) \in Uncached THEN "SEND_DATA" ELSE "WRITE_CACHE"
    \/ /\ fsm = "WRITE_CACHE"
       /\ fsm' = "SEND_DATA"
    \/ /\ fsm = "SEND_DATA"
       /\ fsm' = "IDLE"

RespNext(beat) ==
    IF fsm = "SEND_DATA" THEN FALSE
    ELSE IF beat = None THEN resp
    ELSE IF fsm = "WAIT_RVALID0" THEN resp \/ ~beat.ok \/ beat.last
    ELSE IF fsm = "WAIT_RVALID1" THEN ~beat.ok \/ ~beat.last
    ELSE resp

FsmStep(flush, arready, beat) ==
    /\ IF flush THEN fsm' = "IDLE" ELSE FsmMove(arready, beat)
    /\ resp' = IF flush THEN FALSE ELSE RespNext(beat)
    /\ wdata' = [h \in {1, 2} |->
                  IF flush \/ fsm = "SEND_DATA" THEN Noise
                  ELSE IF /\ beat # None /\ beat.ok
                          /\ IF h = 1 THEN fsm = "WAIT_RVALID0" /\ ~beat.last
                                      ELSE fsm = "WAIT_RVALID1" /\ beat.last
                  THEN beat.data ELSE wdata[h]]

\* Mutant of DropStep: a flush while the request is being accepted is missed.
DropStepLate(flush, arready, beat) ==
    drop' = IF drop THEN ~(beat # None /\ beat.last)
            ELSE /\ flush
                 /\ fsm \in {"WAIT_RVALID0", "DATA0_ERROR", "WAIT_RVALID1"}
                 /\ ~(beat # None /\ beat.last)

\* Mutant of DropStep: the flag is also set when the last beat just arrives.
DropStepEager(flush, arready, beat) ==
    drop' = IF drop THEN ~(beat # None /\ beat.last)
            ELSE /\ flush
                 /\ \/ fsm = "WAIT_ARREADY" /\ arready
                    \/ fsm \in {"WAIT_RVALID0", "DATA0_ERROR", "WAIT_RVALID1"}

DropStep(flush, arready, beat) ==
    drop' = IF drop THEN ~(beat # None /\ beat.last)
            ELSE /\ flush
                 /\ \/ fsm = "WAIT_ARREADY" /\ arready
                    \/ /\ fsm \in {"WAIT_RVALID0", "DATA0_ERROR", "WAIT_RVALID1"}
                       /\ ~(beat # None /\ beat.last)

-----------------------------------------------------------------------------
\* The arrays, the stage and the fifos at a clock edge.

\* Mutant of ArrayStep: fence.i leaves the valid bits.
ArrayStepKeeps(clear) ==
    /\ IF fsm = "WRITE_CACHE"
       THEN \E w \in Way :
              rows' = [rows EXCEPT ![IndexOf(LineOf(stage))][w] =
                          [line |-> LineOf(paddr), data |-> wdata]]
       ELSE rows' = rows
    /\ shown' = IF fsm = "WRITE_CACHE" \/ rch = <<>> THEN None
                ELSE IndexOf(LineOf(Head(rch)))

\* flush_i_valid clears every valid bit, also against a write; a write takes the
\* address port from the reads, and any way.
ArrayStep(clear) ==
    /\ IF clear THEN rows' = [i \in Index |-> [w \in Way |-> None]]
       ELSE IF fsm = "WRITE_CACHE"
       THEN \E w \in Way :
              rows' = [rows EXCEPT ![IndexOf(LineOf(stage))][w] =
                          [line |-> LineOf(paddr), data |-> wdata]]
       ELSE rows' = rows
    /\ shown' = IF fsm = "WRITE_CACHE" \/ rch = <<>> THEN None
                ELSE IndexOf(LineOf(Head(rch)))

StageStep(flush, immuHas) ==
    /\ stage' = IF flush THEN None
                ELSE IF stage = None \/ OutWen
                THEN (IF RchRen THEN Head(rch) ELSE None)
                ELSE stage
    /\ cap' = IF flush \/ OutWen \/ stage = None THEN None
              ELSE IF cap = None THEN RowsNow ELSE cap
    /\ paddr' = IF flush THEN None
                ELSE IF paddr = None \/ OutWen
                THEN (IF MmuRen /\ immuHas THEN Head(mmu) ELSE None)
                ELSE paddr

Pushed(q, ren, new) == (IF ren THEN Tail(q) ELSE q) \o new

QueueStep(flush, new, immuHas) ==
    /\ rch' = IF flush THEN <<>> ELSE Pushed(rch, RchRen, new)
    /\ mmu' = IF flush THEN <<>> ELSE Pushed(mmu, MmuRen /\ immuHas, new)
    /\ IF flush \/ ~OutWen THEN out' = None ELSE out' \in OutData

IfuArReady == Len(rch) # 7 /\ Len(mmu) # 7

IcacheStep(flush, clear, new, immuHas, arready, beat) ==
    /\ FsmStep(flush, arready, beat)
    /\ DropStep(flush, arready, beat)
    /\ ArrayStep(clear)
    /\ StageStep(flush, immuHas)
    /\ QueueStep(flush, new, immuHas)
=============================================================================
