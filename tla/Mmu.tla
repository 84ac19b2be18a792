--------------------------------- MODULE Mmu --------------------------------
(***************************************************************************)
(* The translation subsystem of core_top_with_i_dcache.v: immu, dmmu and   *)
(* l2tlb clocked together, the flushes the pipeline sends them, the page   *)
(* tables in memory and the dcache that reads them for the walker.         *)
(*                                                                         *)
(* One Cycle is one clock edge; every unit reads the registers of before   *)
(* the edge.  What the software and the rest of the pipeline do between    *)
(* two edges (a store to a page table, a new address in a fifo, a CSR      *)
(* write) are actions of their own.                                        *)
(***************************************************************************)
EXTENDS Immu, Dmmu, L2Tlb

CONSTANTS
    InitTable,      \* [Asid -> [PteSlot -> PteValue]] at reset
    Patch,          \* <<asid, slot, value>> the software may store
    IRequest,       \* addresses the fetch unit may ask for
    DRequest,       \* addresses the LSU may ask for
    Satp,           \* values software writes to satp
    Priv,           \* privilege modes a trap or return may enter
    BareSwitch,     \* whether software writes satp.MODE = 0 with no sfence
    StrayAnswers,   \* what a walker led astray by a late error may be answered;
                    \* {} where no flush meets a failed burst of the walker
    MaxAhead        \* fetches and branches while a data access waits

ASSUME MmuAssumption ==
    /\ InitTable \in [Asid -> [PteSlot -> PteValue]]
    /\ Patch \subseteq Asid \X PteSlot \X PteValue
    /\ IRequest \subseteq Page \cup {NonCanonical}
    /\ DRequest \subseteq Page \cup {NonCanonical}
    /\ Satp \subseteq [on : BOOLEAN, asid : Asid]
    /\ \E s \in Satp : TRUE
    /\ Priv \subseteq {"M", "S"}
    /\ BareSwitch \in BOOLEAN
    /\ StrayAnswers \subseteq PteValue \cup {"error"}
    /\ MaxAhead \in Nat

LateErrors == StrayAnswers # {}

VARIABLES
    table,      \* asid -> slot -> value: the page tables in memory
    live,       \* asid -> slot -> values held since the last SFENCE.VMA
    pteRead,    \* values the walker's read may return; {} when none pends
    late,       \* the error of a burst whose walk was flushed: "burst" while
                \* the dcache is in WAIT_ERROR or SEND_DATA, "pushed" in out_fifo,
                \* "astray" once a walk with a read of its own has taken it
    ahead       \* fetches and branches since the pending data access began

envVars == <<table, live, pteRead, late, ahead>>
vars == <<csrVars, immuVars, dmmuVars, l2Vars, envVars>>

TypeOK ==
    /\ CsrTypeOK
    /\ ImmuTypeOK
    /\ DmmuTypeOK
    /\ L2TypeOK
    /\ table \in [Asid -> [PteSlot -> PteValue]]
    /\ live \in [Asid -> [PteSlot -> SUBSET PteValue]]
    /\ pteRead \in SUBSET (PteValue \cup {"error"})
    /\ late \in {"none"} \cup (IF LateErrors THEN {"burst", "pushed", "astray"} ELSE {})
    /\ ahead \in 0 .. MaxAhead

Init ==
    /\ satp \in Satp
    /\ i_priv \in Priv /\ d_priv \in Priv
    /\ ImmuInit /\ DmmuInit /\ L2Init
    /\ table = InitTable
    /\ live = [a \in Asid |-> [s \in PteSlot |-> {InitTable[a][s]}]]
    /\ pteRead = {}
    /\ late = "none"
    /\ ahead = 0

-----------------------------------------------------------------------------
\* The slot the walker asks the dcache for.
WalkLevel == CHOOSE l \in Level : l2_status = Walk[l]
WalkSlot == Slot(WalkLevel, l2_vaddr)
Walking == \E l \in Level : l2_status = Walk[l]

\* d_mmu_flush_valid comes with ID_IF_flush_flag, so a flush of the data side
\* flushes the instruction side too; a taken branch flushes that side alone.
FlushKind == {"none", "branch", "pipeline", "sfence", "satp"}
IFlush(kind) == kind # "none"
DFlush(kind) == kind \in {"pipeline", "sfence", "satp"}

\* The head of an empty fifo is whatever its memory holds.
IHead == IF i_vaddr = NoAddr /\ ImmuMissValid THEN IRequest ELSE {i_vaddr}

\* CSRs a flush comes with: traps and returns change the privilege, a write
\* of satp.MODE = 8 changes the address space.
CsrUpdate(kind) ==
    /\ satp' \in IF kind = "satp" THEN {s \in Satp : s.on} ELSE {satp}
    /\ i_priv' \in IF kind = "pipeline" THEN Priv ELSE {i_priv}
    /\ d_priv' \in IF kind = "pipeline" THEN Priv ELSE {d_priv}

\* Inputs of a cycle: whether icache and dcache take the address shown to them,
\* and what the dcache shows the walker: nothing, arready, or rvalid with a
\* page table entry or with a response that is not OKAY.  The bus is busy with
\* a late burst until its error is in out_fifo, which shows it the next cycle;
\* what is answered after it went astray is one of StrayAnswers.
IReady == IF i_paddr = NoAddr THEN {FALSE} ELSE BOOLEAN
DReady == IF d_paddr = NoAddr THEN {FALSE} ELSE BOOLEAN
PteBus ==
    (IF late # "pushed" THEN {"idle"} ELSE {"error"})
    \cup (IF l2_arvalid /\ pteRead = {} THEN {"arready"} ELSE {})
    \cup (IF late = "none" /\ pteRead # {} THEN pteRead \cup {"error"} ELSE {})
    \cup (IF late = "astray" THEN StrayAnswers ELSE {})
RValid(bus) == bus \notin {"idle", "arready"}

\* dcache, as the walker sees it: it takes a read when its stage is free and
\* answers later with what memory held meanwhile.
TakeOrAnswer(bus) ==
    pteRead' = IF RValid(bus) THEN {}
               ELSE IF bus = "arready" THEN {table[l2_root][WalkSlot]}
               ELSE pteRead

\* SEND_DATA pushes the error of a flushed burst, dcache_mmu_flag being still
\* set, and the push empties the stage of the read that entered it meanwhile.
PushLateError(bus) ==
    /\ late = "burst" /\ late' = "pushed"
    /\ pteRead' = IF bus = "arready" THEN {table[l2_root][WalkSlot]} ELSE {}

\* A walk that takes the late error while its own read waits to be sent or
\* answered ends and leaves that read behind.  An address taken in the same
\* cycle hides the error from the walker.
LateErrorShown(bus) ==
    /\ late = "pushed"
    /\ late' = IF bus = "error" /\ Walking /\ (l2_arvalid \/ pteRead # {})
               THEN "astray" ELSE "none"

PteReadUnflushed(bus) ==
    \/ late \in {"none", "burst"} /\ TakeOrAnswer(bus) /\ UNCHANGED late
    \/ PushLateError(bus)
    \/ LateErrorShown(bus) /\ TakeOrAnswer(bus)
    \/ late = "astray" /\ UNCHANGED <<pteRead, late>>

\* Mutant of PteReadStep: a flush does not cancel the read in the dcache.
PteReadStepKept(kind, bus) == PteReadUnflushed(bus)

\* A flush empties the stage and out_fifo, and a burst on the bus ends without
\* an answer; one whose first beat was an error is answered all the same.
PteReadStep(kind, bus) ==
    IF DFlush(kind)
    THEN /\ pteRead' = {}
         /\ late' \in {"none"} \cup
              (IF LateErrors /\ late # "pushed" /\ (pteRead # {} \/ late # "none")
               THEN {"burst"} ELSE {})
    ELSE PteReadUnflushed(bus)

CountAhead(kind) ==
    ahead' = IF DFlush(kind) \/ d_vaddr' = NoAddr THEN 0
             ELSE IF kind = "branch" THEN ahead + 1 ELSE ahead

Cycle(kind, iReady, dReady, bus, vaddr_i) ==
    /\ kind = "branch" => d_vaddr = NoAddr \/ ahead < MaxAhead
    /\ CsrUpdate(kind)
    /\ ImmuClock(IFlush(kind), kind = "sfence", ImmuMissReady, PteOut,
                 l2_pte, l2_error, iReady)
    /\ DmmuClock(DFlush(kind), kind = "sfence", DmmuMissReady(ImmuMissValid), PteOut,
                 l2_pte, l2_error, dReady)
    /\ L2Clock(DFlush(kind), kind = "sfence", ImmuMissValid, vaddr_i,
               DmmuMissValid, d_vaddr, bus = "arready", RValid(bus), bus)
    /\ PteReadStep(kind, bus)
    /\ CountAhead(kind)
    /\ live' = IF kind = "sfence"
               THEN [a \in Asid |-> [s \in PteSlot |-> {table[a][s]}]]
               ELSE live
    /\ UNCHANGED table

Tick ==
    \E kind \in FlushKind, iReady \in IReady, dReady \in DReady, bus \in PteBus,
       vaddr_i \in IHead :
        Cycle(kind, iReady, dReady, bus, vaddr_i)

-----------------------------------------------------------------------------
\* Mutant of Fetch: pc_all_cnt does not stop the fetch unit.
FetchUnbounded ==
    /\ \E p \in IRequest : FetchAddr(p)
    /\ ahead' = IF d_vaddr = NoAddr THEN ahead ELSE ahead + 1
    /\ UNCHANGED <<csrVars, dmmuVars, l2Vars, table, live, pteRead, late>>

\* The fetch unit sends the next address; pc_all_cnt bounds how many may be
\* under way, so how many are translated before a data access.
Fetch ==
    /\ d_vaddr = NoAddr \/ ahead < MaxAhead
    /\ \E p \in IRequest : FetchAddr(p)
    /\ ahead' = IF d_vaddr = NoAddr THEN ahead ELSE ahead + 1
    /\ UNCHANGED <<csrVars, dmmuVars, l2Vars, table, live, pteRead, late>>

\* The LSU sends the address of its next load, store or atomic.
Access ==
    /\ \E p \in DRequest : DataAddr(p)
    /\ UNCHANGED <<csrVars, immuVars, l2Vars, envVars>>

\* The software changes a page table entry; the dcache shows the store to
\* walker reads that are still pending.
StorePte ==
    \E u \in Patch :
        /\ table[u[1]][u[2]] # u[3]
        /\ table' = [table EXCEPT ![u[1]][u[2]] = u[3]]
        /\ live' = [live EXCEPT ![u[1]][u[2]] = @ \cup {u[3]}]
        /\ pteRead' = IF pteRead # {} /\ u[1] = l2_root /\ u[2] = WalkSlot
                      THEN pteRead \cup {u[3]} ELSE pteRead
        /\ UNCHANGED <<csrVars, immuVars, dmmuVars, l2Vars, late, ahead>>

\* csrw satp with MODE = 0: WB_IF_satp_change is for MODE = 8 only, so nothing
\* is flushed.  The data side is idle while a CSR write is in write-back.
WriteSatpBare ==
    /\ BareSwitch
    /\ d_vaddr = NoAddr /\ d_paddr = NoAddr /\ d_status = "IDLE"
    /\ satp' \in {s \in Satp : ~s.on}
    /\ satp' # satp
    /\ UNCHANGED <<i_priv, d_priv, immuVars, dmmuVars, l2Vars, envVars>>

Next == Tick \/ Fetch \/ Access \/ StorePte \/ WriteSatpBare

Spec == Init /\ [][Next]_vars

\* Cycles in which the dcache takes or answers the walker's read or ends a late
\* burst, in which it takes a data address, and in which the icache takes a
\* fetch address.
DcacheServes ==
    \E bus \in PteBus :
        /\ bus # "idle" \/ late = "burst"
        /\ \E kind \in FlushKind, iReady \in IReady, dReady \in DReady, vaddr_i \in IHead :
               Cycle(kind, iReady, dReady, bus, vaddr_i)
        /\ bus # "idle" \/ late' # "burst"
DcacheTakes ==
    /\ d_paddr # NoAddr
    /\ \E kind \in FlushKind, iReady \in IReady, bus \in PteBus, vaddr_i \in IHead :
           Cycle(kind, iReady, TRUE, bus, vaddr_i)
IcacheTakes ==
    /\ i_paddr # NoAddr
    /\ \E kind \in FlushKind, dReady \in DReady, bus \in PteBus, vaddr_i \in IHead :
           Cycle(kind, TRUE, dReady, bus, vaddr_i)

FairSpec ==
    /\ Spec
    /\ WF_vars(Tick)
    /\ WF_vars(DcacheServes) /\ WF_vars(DcacheTakes) /\ WF_vars(IcacheTakes)

-----------------------------------------------------------------------------
\* Frames page p of address space a may translate to when each step of the walk
\* uses a value its slot holds in "slots".  LiveFrames are those of a walk whose
\* steps use values held since the last SFENCE.VMA: what the architecture lets
\* hardware use.
FramesIn(slots, a, p) ==
    LET held(l) == slots[a][Slot(l, p)]
    IN  (held(2) \cap Leaf)
        \cup (IF "pointer" \in held(2) THEN held(1) \cap Leaf ELSE {})
        \cup (IF "pointer" \in held(2) /\ "pointer" \in held(1)
              THEN held(0) \cap Leaf ELSE {})
LiveFrames(a, p) == FramesIn(live, a, p)

\* What a paddr register holds is empty, no frame, or a live frame of its page.
FrameLive(out) ==
    \/ out = NoAddr
    \/ out.frame \in {"fault", "untranslated"}
    \/ out.page \in Page /\ out.frame \in LiveFrames(satp.asid, out.page)

\* A physical address the dmmu hands to the dcache is one a page table walk
\* since the last SFENCE.VMA could have produced: no TLB row, walk in flight or
\* latched answer survives the flush or is used for another page.
DataFrameLive == FrameLive(d_paddr)

\* The same of the address the immu hands to the icache.
FetchFrameLive == FrameLive(i_paddr)

\* The second level serves one miss at a time and the unit that waits is the
\* one it serves: a unit in WAIT_RESP takes the answer for its own address,
\* though the request of a flushed fetch keeps walking.
WaiterIsServed ==
    /\ i_status = "WAIT_RESP" => l2_status # "IDLE" /\ d_status # "WAIT_RESP"
    /\ i_status = "WAIT_RESP" /\ ~ImmuBypass => l2_vaddr = i_vaddr
    /\ d_status = "WAIT_RESP" => l2_status # "IDLE" /\ l2_vaddr = d_vaddr

\* The walker and the dcache agree on the read in flight: a read that pends
\* belongs to the walk in progress, which has not asked again, so no entry read
\* for a flushed walk is taken for the entry of a later one.  The error of a
\* flushed burst may be, and when it ends a walk whose own read is under way the
\* two disagree until the next flush: late = "astray" is the only way to it.
ReadBelongsToWalk ==
    late # "astray" =>
        /\ l2_arvalid \/ pteRead # {} => Walking /\ l2_vaddr \in Page
        /\ ~(l2_arvalid /\ pteRead # {})

\* A miss that is being sent or served is still a miss of the address held.
MissStands ==
    /\ (i_status \in {"SUBMIT_REQ", "WAIT_RESP"} /\ ~ImmuBypass)
          => i_vaddr \in Page /\ ImmuHits = {}
    /\ d_status \in {"SUBMIT_REQ", "WAIT_RESP"}
          => ~DmmuBypass /\ d_vaddr \in Page /\ DmmuHits = {}

SearchOfPage == l2_status \notin {"IDLE", "OUT"} => l2_vaddr \in Page

\* The inductive invariant behind the three safety properties above.
MmuInv == TypeOK /\ ReadBelongsToWalk /\ SearchOfPage /\ MissStands /\ WaiterIsServed

\* The invariant behind DataFrameLive, for page tables whose leaves are all 4K
\* pages: whatever the data side can still use is live.
SmallPages ==
    /\ \A a \in Asid, p \in Page, l \in 1 .. 2 : InitTable[a][Slot(l, p)] \notin Leaf
    /\ \A u \in Patch, p \in Page, l \in 1 .. 2 :
          u[2] = Slot(l, p) => u[3] \notin Leaf

\* A walker that a late error led astray takes no leaf before the next flush.
NoStrayLeaf == StrayAnswers \cap Leaf = {}

EntryIn(slots, e) ==
    /\ e.size = 0
    /\ \/ e.leaf = "zero"
       \/ /\ e.asid \in Asid /\ e.page \in Page
          /\ e.leaf \in FramesIn(slots, e.asid, e.page)

NoSuperpage ==
    /\ \A a \in Asid, p \in Page, l \in 1 .. 2 : live[a][Slot(l, p)] \cap Leaf = {}
    /\ l2_wen \in {0, NoLevel}
    /\ \A l \in 1 .. 2, r \in Row : ~l2_spValid[l][r]
    /\ \A w \in DWaySp : d_tlbSp[w] = NoPte

EntriesLive ==
    /\ EntryIn(live, l2_pte)
    /\ \A r \in Row, w \in L2Way : l2_4K[r][w] # NoPte => EntryIn(live, l2_4K[r][w])
    /\ \A r \in Row : d_tlb4K[r] # NoPte => EntryIn(live, d_tlb4K[r])

WalkLive ==
    /\ \A a \in Asid, s \in PteSlot : table[a][s] \in live[a][s]
    /\ NoStrayLeaf
    /\ \A l \in Level : late # "astray" /\ l2_status = Walk[l] =>
          /\ l2_root = satp.asid
          /\ \A k \in Level : k > l => "pointer" \in live[satp.asid][Slot(k, l2_vaddr)]
          /\ pteRead \subseteq live[satp.asid][Slot(l, l2_vaddr)]

\* One row per page at the second level: a walk starts after a search that
\* found none, and only its own answer is written.
OneRowPerPage ==
    /\ Walking \/ l2_wen = 0 => L2Hits = {}
    /\ \A r \in Row, v \in L2Way, w \in L2Way :
          (v # w /\ l2_4K[r][v] # NoPte /\ l2_4K[r][w] # NoPte)
             => <<l2_4K[r][v].asid, l2_4K[r][v].page>> # <<l2_4K[r][w].asid, l2_4K[r][w].page>>

AnswerOfPage ==
    /\ l2_status = "OUT" /\ ~l2_error => l2_pte.asid = satp.asid /\ l2_pte.page = l2_vaddr
    /\ l2_wen = 0 => l2_status = "OUT" /\ ~l2_error /\ l2_vaddr \in Page

LatchOfAccess ==
    /\ d_vaddr = NoAddr \/ d_paddr = NoAddr
    /\ d_status = "SEND_ADDR" /\ d_vaddr # NoAddr =>
          /\ d_vaddr \in Page
          /\ d_tlb4K[DmmuRow(d_vaddr)] = d_pte.entry
          /\ ~d_pte.error => d_pte.entry.asid = satp.asid /\ d_pte.entry.page = d_vaddr

DataInv ==
    /\ MmuInv /\ DataFrameLive
    /\ NoSuperpage /\ EntriesLive /\ WalkLive /\ OneRowPerPage /\ AnswerOfPage /\ LatchOfAccess

\* The invariant behind FetchFrameLive.  An answer that is an error enters the
\* TLB with the entry of the answer before it, so a page may have several rows;
\* they must not differ, since the rows that hit are OR-ed.
IRow == {i_tlb[w] : w \in IWay4K \cup IWaySp} \ {NoPte}
RowsAgree(e, f) ==
    (e.asid = f.asid /\ e.page = f.page) => (e.leaf = f.leaf \/ "zero" \in {e.leaf, f.leaf})

FetchRows ==
    /\ \A e \in IRow : EntryIn(live, e)
    /\ \A e, f \in IRow : RowsAgree(e, f)

LatchOfFetch ==
    /\ i_status # "IDLE" => ~ImmuBypass /\ i_vaddr \in Page
    /\ i_status = "SEND_ADDR" =>
          /\ i_pte.entry \in IRow
          /\ ~i_pte.error => i_pte.entry.asid = satp.asid /\ i_pte.entry.page = i_vaddr

FetchSideInv == DataInv /\ FetchFrameLive /\ FetchRows /\ LatchOfFetch

\* What the accesses of the data side can disturb: the answer the immu has
\* latched and not used (run mmu_latch), and the entry an error leaves.
FetchUndisturbed ==
    /\ i_status = "SEND_ADDR" => l2_status # "OUT"
    /\ (i_status = "WAIT_RESP" /\ l2_status = "OUT" /\ l2_error) =>
          \A e \in IRow : RowsAgree(e, l2_pte)

\* Without accesses of the data side neither happens.
FetchAlone ==
    /\ d_vaddr = NoAddr /\ d_status = "IDLE"
    /\ i_status = "SEND_ADDR" => l2_status = "IDLE"
    /\ \A e \in IRow : RowsAgree(e, l2_pte)
    /\ l2_status \notin {"IDLE", "OUT"} =>
          \A e \in IRow : e.asid # satp.asid \/ e.page # l2_vaddr

\* A page that no walk can map is handed to the icache as an error, never as
\* an address: the comment at paddr_error_out lists "l2tlb report error".
FetchFaultReported ==
    (i_paddr # NoAddr /\ i_paddr.page \in Page /\ i_paddr.frame # "untranslated")
        => (LiveFrames(satp.asid, i_paddr.page) = {} => i_paddr.frame = "fault")

\* A data address is translated or flushed: the instruction side, which goes
\* first at the second level, cannot keep it waiting for ever.
DataServed == d_vaddr # NoAddr ~> d_vaddr = NoAddr

\* A fetch address is translated or flushed.
FetchServed == i_vaddr # NoAddr ~> i_vaddr = NoAddr

=============================================================================
