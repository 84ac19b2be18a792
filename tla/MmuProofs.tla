------------------------------ MODULE MmuProofs -----------------------------
(***************************************************************************)
(* Proofs about the translation subsystem, for every table, request set,   *)
(* TLB size and number of address spaces.                                  *)
(***************************************************************************)
EXTENDS Mmu, TLAPS

-----------------------------------------------------------------------------
(* Lemmas about the data.                                                  *)

\* OR-ing rows gives a leaf, a zero row or garbage, so the attribute check
\* that follows always has something to decide on.
LEMMA OrLeafType ==
    ASSUME NEW E, E \subseteq Entry
    PROVE  FrameOf(OrLeaf(E)) \in Frame
<1> DEFINE leaves == {e.leaf : e \in E} \ {"zero"}
<1>1. leaves \subseteq Leaf \cup {"garbage"}
  BY DEF Entry
<1>2. CASE leaves = {}
  BY <1>2 DEF OrLeaf, FrameOf, Frame
<1>3. CASE leaves # {}
  <2>1. (CHOOSE l \in leaves : TRUE) \in leaves
    BY <1>3
  <2>2. OrLeaf(E) \in Leaf \cup {"garbage"}
    BY <1>1, <1>3, <2>1 DEF OrLeaf
  <2> QED
    BY <2>2 DEF FrameOf, Frame, ConstantsAssumption
<1> QED
  BY <1>2, <1>3

\* The index of a TLB row is within the array.
LEMMA IndexInRange ==
    ASSUME NEW n \in Nat
    PROVE  Index(n) \in 0 .. IndexSize - 1
BY ConstantsAssumption DEF Index, ConstantsAssumption
-----------------------------------------------------------------------------
(* Each unit keeps its own types, whatever the others show it.             *)

LEMMA ImmuKeepsType ==
    ASSUME ImmuTypeOK, CsrTypeOK, l2_pte \in Entry, l2_error \in BOOLEAN,
           NEW flush \in BOOLEAN, NEW sflush \in BOOLEAN,
           NEW missReady \in BOOLEAN, NEW pteValid \in BOOLEAN,
           NEW paddrReady \in BOOLEAN,
           ImmuClock(flush, sflush, missReady, pteValid, l2_pte, l2_error, paddrReady)
    PROVE  ImmuTypeOK'
<1>1. i_status' \in {"IDLE", "SUBMIT_REQ", "WAIT_RESP", "SEND_ADDR"}
  BY DEF ImmuClock, ImmuFsm, ImmuTypeOK
<1>2. i_pte' \in [entry : Entry, error : BOOLEAN]
  BY DEF ImmuClock, ImmuFill, ImmuTypeOK
<1>3. i_tlb' \in [IWay4K \cup IWaySp -> Entry \cup {NoPte}]
  BY DEF ImmuClock, ImmuFill, ImmuTypeOK
<1>4. ImmuFrame \in Frame
  <2>1. ImmuHits \subseteq Entry
    BY DEF ImmuHits, Hits, ImmuTypeOK
  <2>2. i_pte.entry \in Entry
    BY DEF ImmuTypeOK
  <2> DEFINE E == ImmuHits \cup (IF i_status = "SEND_ADDR" THEN {i_pte.entry} ELSE {})
  <2>3. E \subseteq Entry
    BY <2>1, <2>2
  <2>4. FrameOf(OrLeaf(E)) \in Frame
    BY <2>3, OrLeafType
  <2> QED
    BY <2>4 DEF ImmuFrame, Frame
<1>5. i_vaddr' \in Page \cup {NoAddr, NonCanonical}
  BY DEF ImmuClock, ImmuOutput, ImmuTypeOK
<1>6. i_paddr' \in [page : Page \cup {NonCanonical}, frame : Frame] \cup {NoAddr}
  <2>1. CASE flush
    BY <2>1 DEF ImmuClock, ImmuOutput
  <2>2. CASE ~flush /\ ImmuFifoReady(paddrReady)
    <3>1. i_vaddr \in Page \cup {NonCanonical}
      BY <2>2 DEF ImmuFifoReady, ImmuTypeOK
    <3> QED
      BY <2>2, <3>1, <1>4 DEF ImmuClock, ImmuOutput
  <2>3. CASE ~flush /\ ~ImmuFifoReady(paddrReady)
    BY <2>3 DEF ImmuClock, ImmuOutput, ImmuTypeOK
  <2> QED
    BY <2>1, <2>2, <2>3
<1> QED
  BY <1>1, <1>2, <1>3, <1>5, <1>6 DEF ImmuTypeOK

LEMMA DmmuKeepsType ==
    ASSUME DmmuTypeOK, CsrTypeOK, l2_pte \in Entry, l2_error \in BOOLEAN,
           d_status = "WAIT_RESP" => d_vaddr \in Page,
           NEW flush \in BOOLEAN, NEW sflush \in BOOLEAN,
           NEW missReady \in BOOLEAN, NEW pteValid \in BOOLEAN,
           NEW paddrReady \in BOOLEAN,
           DmmuClock(flush, sflush, missReady, pteValid, l2_pte, l2_error, paddrReady)
    PROVE  DmmuTypeOK'
<1>1. d_status' \in {"IDLE", "SUBMIT_REQ", "WAIT_RESP", "SEND_ADDR"}
  BY DEF DmmuClock, DmmuFsm, DmmuTypeOK
<1>2. d_pte' \in [entry : Entry, error : BOOLEAN]
  BY DEF DmmuClock, DmmuFill, DmmuTypeOK
<1>3. d_tlb4K' \in [0 .. IndexSize - 1 -> Entry \cup {NoPte}]
  BY DEF DmmuClock, DmmuFill, DmmuTypeOK
<1>4. d_tlbSp' \in [DWaySp -> Entry \cup {NoPte}]
  BY DEF DmmuClock, DmmuFill, DmmuTypeOK
<1>5. DmmuFrame \in Frame
  <2>1. DmmuHits \subseteq Entry
    <3>1. ASSUME d_vaddr \in Page PROVE d_tlb4K[DmmuRow(d_vaddr)] \in Entry \cup {NoPte}
      <4>1. d_vaddr[3] \in Nat
        BY <3>1, ConstantsAssumption DEF Page, ConstantsAssumption
      <4> QED
        BY <4>1, IndexInRange DEF DmmuRow, DmmuTypeOK
    <3> QED
      BY <3>1 DEF DmmuHits, Hits, DmmuTypeOK
  <2>2. d_pte.entry \in Entry
    BY DEF DmmuTypeOK
  <2> DEFINE E == DmmuHits \cup (IF d_status = "SEND_ADDR" THEN {d_pte.entry} ELSE {})
  <2>3. E \subseteq Entry
    BY <2>1, <2>2
  <2>4. FrameOf(OrLeaf(E)) \in Frame
    BY <2>3, OrLeafType
  <2> QED
    BY <2>4 DEF DmmuFrame, Frame
<1>6. d_vaddr' \in Page \cup {NoAddr, NonCanonical}
  BY DEF DmmuClock, DmmuOutput, DmmuTypeOK
<1>7. d_paddr' \in [page : Page \cup {NonCanonical}, frame : Frame] \cup {NoAddr}
  <2>1. CASE flush
    BY <2>1 DEF DmmuClock, DmmuOutput
  <2>2. CASE ~flush /\ DmmuFifoReady(paddrReady)
    <3>1. d_vaddr \in Page \cup {NonCanonical}
      BY <2>2 DEF DmmuFifoReady, DmmuTypeOK
    <3> QED
      BY <2>2, <3>1, <1>5 DEF DmmuClock, DmmuOutput
  <2>3. CASE ~flush /\ ~DmmuFifoReady(paddrReady)
    BY <2>3 DEF DmmuClock, DmmuOutput, DmmuTypeOK
  <2> QED
    BY <2>1, <2>2, <2>3
<1> QED
  BY <1>1, <1>2, <1>3, <1>4, <1>6, <1>7 DEF DmmuTypeOK

\* Slots, pages and rows the second level computes are slots, pages and rows.
LEMMA SlotType ==
    ASSUME NEW p \in Page, NEW l \in Level
    PROVE  Slot(l, p) \in PteSlot
BY DEF PteSlot

LEMMA L2RowsType ==
    ASSUME NEW p \in Page \cup {ZeroPage}, NEW l \in 1 .. 2
    PROVE  L2Row(p) \in Row /\ SpRow(l, p) \in Row /\ SpValidRow(l, p) \in Row
<1>1. p[1] \in Nat /\ p[2] \in Nat /\ p[3] \in Nat
  <2>1. CASE p \in Page
    BY <2>1, ConstantsAssumption DEF ConstantsAssumption, Page
  <2>2. CASE p = ZeroPage
    BY <2>2 DEF ZeroPage
  <2> QED
    BY <2>1, <2>2
<1>2. Index(p[1]) \in Row /\ Index(p[2]) \in Row /\ Index(p[3]) \in Row
  BY <1>1, IndexInRange DEF Row
<1> QED
  BY <1>2 DEF L2Row, SpRow, SpValidRow

LEMMA L2HitsType ==
    ASSUME L2TypeOK
    PROVE  L2Hits \subseteq Entry
<1>1. ASSUME NEW w \in L2Way PROVE l2_4K[L2Row(l2_vaddr)][w] \in Entry \cup {NoPte}
  BY L2RowsType, 1 \in 1 .. 2 DEF L2TypeOK
<1>2. ASSUME NEW l \in 1 .. 2 PROVE l2_sp[l][SpRow(l, l2_vaddr)] \in Entry \cup {NoPte}
  BY L2RowsType DEF L2TypeOK
<1> QED
  BY <1>1, <1>2 DEF L2Hits, Hits

LEMMA L2KeepsType ==
    ASSUME L2TypeOK, CsrTypeOK,
           NEW flush \in BOOLEAN, NEW sflush \in BOOLEAN,
           NEW vaddr_i, ImmuMissValid => vaddr_i \in Page \cup {NonCanonical},
           DmmuMissValid => d_vaddr \in Page \cup {NonCanonical},
           NEW arReady \in BOOLEAN, NEW rValid \in BOOLEAN, NEW rData,
           L2Clock(flush, sflush, ImmuMissValid, vaddr_i, DmmuMissValid, d_vaddr,
                   arReady, rValid, rData)
    PROVE  L2TypeOK'
<1>1. L2Write(sflush)
  BY DEF L2Clock
<1> DEFINE Registers ==
      /\ l2_status \in {"IDLE", "SEARCH_TLB", "OUT"} \cup {Walk[l] : l \in Level}
      /\ l2_vaddr \in Page \cup {ZeroPage}
      /\ l2_error \in BOOLEAN
      /\ l2_pte \in Entry
      /\ l2_arvalid \in BOOLEAN
      /\ l2_root \in Asid
      /\ l2_wen \in Level \cup {NoLevel}
<1>2. ASSUME L2Reset PROVE Registers'
  <2>1. ZeroEntry \in Entry
    BY DEF ZeroEntry, Entry, Level
  <2> QED
    BY <1>2, <2>1 DEF L2Reset, L2TypeOK
<1>3. ASSUME L2Accept(ImmuMissValid, vaddr_i, DmmuMissValid, d_vaddr) PROVE Registers'
  BY <1>3 DEF L2Accept, L2TypeOK
<1>4. ASSUME L2Search PROVE Registers'
  <2>1. CASE L2Hits # {}
    <3> DEFINE one == CHOOSE e \in L2Hits : TRUE
    <3>1. one \in Entry
      BY <2>1, L2HitsType
    <3>2. [one EXCEPT !.leaf = "garbage"] \in Entry
      BY <3>1 DEF Entry
    <3>3. l2_pte' \in Entry
      BY <1>4, <2>1, <3>1, <3>2 DEF L2Search
    <3> QED
      BY <1>4, <2>1, <3>3 DEF L2Search, L2TypeOK
  <2>2. CASE L2Hits = {}
    BY <1>4, <2>2 DEF L2Search, L2TypeOK, CsrTypeOK, Level
  <2> QED
    BY <2>1, <2>2
<1>5. ASSUME NEW level \in Level, L2Walk(level, arReady, rValid, rData)
      PROVE  Registers'
  <2>1. level > 0 => level - 1 \in Level
    BY DEF Level
  <2>2. rData \in Leaf => [asid |-> satp.asid, page |-> l2_vaddr, size |-> level, leaf |-> rData] \in Entry
    BY DEF L2TypeOK, CsrTypeOK, Entry
  <2> QED
    BY <1>5, <2>1, <2>2 DEF L2Walk, L2TypeOK
<1>6. ASSUME L2Answer PROVE Registers'
  BY <1>6 DEF L2Answer, L2TypeOK
<1>7. Registers'
  BY <1>2, <1>3, <1>4, <1>5, <1>6 DEF L2Clock, L2TypeOK
<1>8. l2_4K' \in [Row -> [L2Way -> Entry \cup {NoPte}]]
  <2>1. L2Row(l2_vaddr) \in Row
    BY L2RowsType, 1 \in 1 .. 2 DEF L2TypeOK
  <2>2. ASSUME NEW w \in L2Way
        PROVE  [l2_4K EXCEPT ![L2Row(l2_vaddr)][w] = l2_pte]
                  \in [Row -> [L2Way -> Entry \cup {NoPte}]]
    BY <2>1 DEF L2TypeOK
  <2> QED
    BY <1>1, <2>2 DEF L2Write, L2TypeOK
<1>9. /\ l2_sp' \in [1 .. 2 -> [Row -> Entry \cup {NoPte}]]
      /\ l2_spValid' \in [1 .. 2 -> [Row -> BOOLEAN]]
  <2>1. l2_wen \in 1 .. 2 => SpRow(l2_wen, l2_vaddr) \in Row
    BY L2RowsType DEF L2TypeOK
  <2> QED
    BY <1>1, <2>1 DEF L2Write, L2TypeOK
<1> QED
  BY <1>7, <1>8, <1>9 DEF L2TypeOK
-----------------------------------------------------------------------------
(* The inductive invariant MmuInv: one lemma for each conjunct a clock     *)
(* edge can disturb, then one for each action between two edges.           *)

LEMMA InitMmuInv == Init => MmuInv
<1> SUFFICES ASSUME Init PROVE MmuInv
  OBVIOUS
<1> USE DEF Init, ImmuInit, DmmuInit, L2Init
<1>1. ZeroEntry \in Entry
  BY DEF ZeroEntry, Entry, Level
<1>2. CsrTypeOK
  BY MmuAssumption DEF MmuAssumption, CsrTypeOK
<1>3. ImmuTypeOK
  BY <1>1 DEF ImmuTypeOK
<1>4. DmmuTypeOK
  BY <1>1 DEF DmmuTypeOK
<1>5. L2TypeOK
  BY <1>1, <1>2 DEF L2TypeOK, CsrTypeOK
<1>6. TypeOK
  BY <1>2, <1>3, <1>4, <1>5, MmuAssumption DEF TypeOK, MmuAssumption
<1>7. ReadBelongsToWalk /\ SearchOfPage /\ MissStands /\ WaiterIsServed
  BY DEF ReadBelongsToWalk, SearchOfPage, MissStands, WaiterIsServed
<1> QED
  BY <1>6, <1>7 DEF MmuInv

\* The read the walker asks for is of a slot of some page table.
LEMMA WalkSlotType ==
    ASSUME MmuInv, Walking, l2_vaddr \in Page
    PROVE  WalkSlot \in PteSlot
<1>1. WalkLevel \in Level
  BY DEF Walking, WalkLevel
<1> QED
  BY <1>1, SlotType DEF WalkSlot

\* What the bus may show: an address is taken when one is sent and no read
\* pends, an entry comes from the read that pends, and only an error is late.
LEMMA BusOfRead ==
    ASSUME MmuInv, NEW bus \in PteBus
    PROVE  /\ bus = "arready" => l2_arvalid /\ pteRead = {}
           /\ late = "none" /\ RValid(bus) => pteRead # {}
           /\ late = "burst" => ~RValid(bus)
           /\ late = "pushed" => bus \in {"arready", "error"}
<1>1. "arready" \notin PteValue \cup {"error"}
  BY ConstantsAssumption DEF PteValue, ConstantsAssumption
<1>2. StrayAnswers \subseteq PteValue \cup {"error"}
  BY MmuAssumption DEF MmuAssumption
<1>3. pteRead \subseteq PteValue \cup {"error"}
  BY DEF MmuInv, TypeOK
<1> QED
  BY <1>1, <1>2, <1>3 DEF PteBus, RValid

LEMMA CycleType ==
    ASSUME MmuInv, NEW kind \in FlushKind, NEW iReady \in IReady, NEW dReady \in DReady,
           NEW bus \in PteBus, NEW vaddr_i \in IHead,
           Cycle(kind, iReady, dReady, bus, vaddr_i)
    PROVE  TypeOK'
<1> DEFINE sflush == kind = "sfence"
           arReady == bus = "arready"
<1>0. /\ CsrUpdate(kind)
      /\ ImmuClock(IFlush(kind), sflush, ImmuMissReady, PteOut, l2_pte, l2_error, iReady)
      /\ DmmuClock(DFlush(kind), sflush, DmmuMissReady(ImmuMissValid), PteOut,
                   l2_pte, l2_error, dReady)
      /\ L2Clock(DFlush(kind), sflush, ImmuMissValid, vaddr_i, DmmuMissValid, d_vaddr,
                 arReady, RValid(bus), bus)
      /\ PteReadStep(kind, bus) /\ CountAhead(kind)
  BY DEF Cycle
<1>1. /\ IFlush(kind) \in BOOLEAN /\ DFlush(kind) \in BOOLEAN
      /\ sflush \in BOOLEAN /\ arReady \in BOOLEAN /\ RValid(bus) \in BOOLEAN
      /\ ImmuMissReady \in BOOLEAN /\ ImmuMissValid \in BOOLEAN
      /\ DmmuMissReady(ImmuMissValid) \in BOOLEAN /\ DmmuMissValid \in BOOLEAN
      /\ PteOut \in BOOLEAN
  BY DEF IFlush, DFlush, ImmuMissReady, ImmuMissValid, DmmuMissReady,
         DmmuMissValid, PteOut, RValid
<1>1a. iReady \in BOOLEAN /\ dReady \in BOOLEAN
  BY DEF IReady, DReady
<1> HIDE DEF sflush, arReady
<1>2. CsrTypeOK /\ ImmuTypeOK /\ DmmuTypeOK /\ L2TypeOK
  BY DEF MmuInv, TypeOK
<1>3. l2_pte \in Entry /\ l2_error \in BOOLEAN
  BY <1>2 DEF L2TypeOK
<1>4. CsrTypeOK'
  BY <1>0, <1>2, MmuAssumption DEF CsrUpdate, CsrTypeOK, MmuAssumption
<1>5. ImmuTypeOK'
  BY <1>0, <1>1, <1>1a, <1>2, <1>3, ImmuKeepsType
<1>6. DmmuTypeOK'
  <2>1. d_status = "WAIT_RESP" => d_vaddr \in Page
    BY DEF MmuInv, MissStands
  <2> QED
    BY <1>0, <1>1, <1>1a, <1>2, <1>3, <2>1, DmmuKeepsType
<1>7. L2TypeOK'
  <2>1. ImmuMissValid => vaddr_i \in Page \cup {NonCanonical}
    BY <1>2, MmuAssumption DEF IHead, ImmuTypeOK, MmuAssumption
  <2>2. DmmuMissValid => d_vaddr \in Page \cup {NonCanonical}
    BY DEF MmuInv, MissStands, DmmuMissValid
  <2>3. ASSUME NEW f \in BOOLEAN, NEW s \in BOOLEAN, NEW a \in BOOLEAN, NEW r \in BOOLEAN,
               L2Clock(f, s, ImmuMissValid, vaddr_i, DmmuMissValid, d_vaddr, a, r, bus)
        PROVE  L2TypeOK'
    BY <1>2, <2>1, <2>2, <2>3, L2KeepsType
  <2> QED
    BY <1>0, <1>1, <2>3
<1>8. table' \in [Asid -> [PteSlot -> PteValue]]
  BY DEF Cycle, MmuInv, TypeOK
<1>9. live' \in [Asid -> [PteSlot -> SUBSET PteValue]]
  BY DEF Cycle, MmuInv, TypeOK
<1>10. /\ pteRead' \in SUBSET (PteValue \cup {"error"})
       /\ late' \in {"none"} \cup (IF LateErrors THEN {"burst", "pushed", "astray"} ELSE {})
  <2>1. /\ pteRead \in SUBSET (PteValue \cup {"error"})
        /\ late \in {"none"} \cup (IF LateErrors THEN {"burst", "pushed", "astray"} ELSE {})
    BY DEF MmuInv, TypeOK
  <2>2. ASSUME late # "astray", bus = "arready"
        PROVE  table[l2_root][WalkSlot] \in PteValue
    BY <2>2, BusOfRead, WalkSlotType, <1>2 DEF MmuInv, TypeOK, ReadBelongsToWalk, L2TypeOK
  <2>3. CASE DFlush(kind)
    BY <1>0, <2>1, <2>3 DEF PteReadStep
  <2>4. CASE ~DFlush(kind)
    BY <1>0, <2>1, <2>2, <2>4
    DEF PteReadStep, PteReadUnflushed, TakeOrAnswer, PushLateError, LateErrorShown
  <2> QED
    BY <2>3, <2>4
<1>11. ahead' \in 0 .. MaxAhead
  <2>1. ahead \in 0 .. MaxAhead /\ MaxAhead \in Nat
    BY MmuAssumption DEF MmuAssumption, MmuInv, TypeOK
  <2>2. d_vaddr = NoAddr => d_vaddr' = NoAddr
    BY <1>0 DEF DmmuClock, DmmuOutput
  <2> QED
    BY <1>0, <2>1, <2>2 DEF Cycle, CountAhead
<1> QED
  BY <1>4, <1>5, <1>6, <1>7, <1>8, <1>9, <1>10, <1>11 DEF TypeOK
-----------------------------------------------------------------------------
\* What a clock edge without a flush of the data side does to the second level.
LEMMA L2Steps ==
    ASSUME NEW sflush \in BOOLEAN, NEW vaddr_i, NEW arReady \in BOOLEAN,
           NEW rValid \in BOOLEAN, NEW rData,
           L2Clock(FALSE, sflush, ImmuMissValid, vaddr_i, DmmuMissValid, d_vaddr,
                   arReady, rValid, rData)
    PROVE  /\ l2_status = "IDLE" => L2Accept(ImmuMissValid, vaddr_i, DmmuMissValid, d_vaddr)
           /\ l2_status # "IDLE" /\ l2_status' # l2_status =>
                \/ l2_status \in {"SEARCH_TLB"} \cup {Walk[l] : l \in Level}
                \/ l2_status = "OUT" /\ l2_status' = "IDLE"
           /\ l2_status # "IDLE" => l2_vaddr' = l2_vaddr
           /\ l2_status \notin {"IDLE", "OUT"} => l2_status' # "IDLE"
BY DEF L2Clock, L2Accept, L2Search, L2Walk, L2Answer, Walk, Level

\* What the walker's read becomes at an edge without a flush, as long as no
\* late error has led the walker astray.
LEMMA ReadSteps ==
    ASSUME MmuInv, NEW kind, NEW bus \in PteBus,
           PteReadStep(kind, bus), ~DFlush(kind), late' # "astray"
    PROVE  /\ late # "astray"
           /\ bus = "arready" => l2_arvalid /\ pteRead = {}
           /\ bus # "arready" => pteRead' \subseteq pteRead
           /\ RValid(bus) =>
                 /\ pteRead' = {}
                 /\ Walking => ~l2_arvalid
<1>1. /\ late # "astray" => ~(l2_arvalid /\ pteRead # {})
      /\ late \in {"none", "burst", "pushed", "astray"}
  BY DEF MmuInv, ReadBelongsToWalk, TypeOK
<1>2. /\ late # "astray"
      /\ bus # "arready" => pteRead' \subseteq pteRead
  BY DEF PteReadStep, PteReadUnflushed, TakeOrAnswer, PushLateError, LateErrorShown
<1>3. ASSUME RValid(bus)
      PROVE  pteRead' = {} /\ (Walking => ~l2_arvalid)
  <2>1. CASE late = "none"
    BY <1>1, <1>3, <2>1, BusOfRead
    DEF PteReadStep, PteReadUnflushed, TakeOrAnswer, PushLateError, LateErrorShown
  <2>2. CASE late = "pushed"
    <3>1. bus = "error"
      BY <1>3, <2>2, BusOfRead DEF RValid
    <3> QED
      BY <1>3, <2>2, <3>1
      DEF PteReadStep, PteReadUnflushed, TakeOrAnswer, PushLateError, LateErrorShown
  <2> QED
    BY <1>1, <1>2, <1>3, <2>1, <2>2, BusOfRead
<1> QED
  BY <1>2, <1>3, BusOfRead

\* A read that pends belongs to the walk, and only a walk of a page is in
\* flight, after every edge.
LEMMA CycleRead ==
    ASSUME MmuInv, NEW kind \in FlushKind, NEW iReady \in IReady, NEW dReady \in DReady,
           NEW bus \in PteBus, NEW vaddr_i \in IHead,
           Cycle(kind, iReady, dReady, bus, vaddr_i)
    PROVE  ReadBelongsToWalk' /\ SearchOfPage'
<1>1. /\ ReadBelongsToWalk /\ SearchOfPage
      /\ PteReadStep(kind, bus)
      /\ L2Clock(DFlush(kind), kind = "sfence", ImmuMissValid, vaddr_i, DmmuMissValid,
                 d_vaddr, bus = "arready", RValid(bus), bus)
  BY DEF Cycle, MmuInv
<1>2. ImmuMissValid => vaddr_i \in Page \cup {NonCanonical}
  BY MmuAssumption DEF IHead, MmuInv, TypeOK, ImmuTypeOK, MmuAssumption
<1>3. DmmuMissValid => d_vaddr \in Page \cup {NonCanonical}
  BY DEF MmuInv, MissStands, DmmuMissValid
<1>4. SearchOfPage'
  <2>1. CASE L2Reset
    BY <2>1 DEF L2Reset, SearchOfPage
  <2>2. CASE L2Accept(ImmuMissValid, vaddr_i, DmmuMissValid, d_vaddr)
    BY <1>2, <1>3, <2>2 DEF L2Accept, SearchOfPage
  <2>3. CASE L2Search
    BY <1>1, <2>3 DEF L2Search, SearchOfPage
  <2>4. ASSUME NEW level \in Level, L2Walk(level, bus = "arready", RValid(bus), bus)
        PROVE  SearchOfPage'
    BY <1>1, <2>4 DEF L2Walk, SearchOfPage, Walk, Level
  <2>5. CASE L2Answer
    BY <2>5 DEF L2Answer, SearchOfPage
  <2> QED
    BY <1>1, <2>1, <2>2, <2>3, <2>4, <2>5 DEF L2Clock
<1>5. CASE DFlush(kind)
  BY <1>4, <1>1, <1>5 DEF L2Clock, L2Reset, L2Accept, PteReadStep, ReadBelongsToWalk
<1>6. CASE late' = "astray"
  BY <1>4, <1>6 DEF ReadBelongsToWalk
<1>7. CASE ~DFlush(kind) /\ late' # "astray"
  <2>1. /\ late # "astray"
        /\ bus = "arready" => l2_arvalid /\ pteRead = {}
        /\ bus # "arready" => pteRead' \subseteq pteRead
        /\ RValid(bus) => pteRead' = {} /\ (Walking => ~l2_arvalid)
    BY <1>1, <1>7, ReadSteps
  <2>2. /\ l2_arvalid \/ pteRead # {} => Walking /\ l2_vaddr \in Page
        /\ ~(l2_arvalid /\ pteRead # {})
    BY <1>1, <2>1 DEF ReadBelongsToWalk
  <2>3. ~Walking => ~l2_arvalid /\ pteRead' = {}
    BY <2>1, <2>2
  <2>4. CASE L2Accept(ImmuMissValid, vaddr_i, DmmuMissValid, d_vaddr)
    <3>1. ~l2_arvalid' /\ pteRead' = {}
      BY <2>3, <2>4 DEF L2Accept, Walking, Walk, Level
    <3> QED
      BY <1>4, <3>1 DEF ReadBelongsToWalk
  <2>5. CASE L2Search
    <3>1. pteRead' = {} /\ (l2_arvalid' => l2_status' = Walk[2])
      BY <2>3, <2>5 DEF L2Search, Walking, Walk, Level
    <3>2. l2_vaddr' \in Page
      BY <1>1, <2>5 DEF L2Search, SearchOfPage
    <3> QED
      BY <1>4, <3>1, <3>2 DEF ReadBelongsToWalk, Walking, Level
  <2>6. CASE L2Answer
    <3>1. ~l2_arvalid' /\ pteRead' = {}
      BY <2>3, <2>6 DEF L2Answer, Walking, Walk, Level
    <3> QED
      BY <1>4, <3>1 DEF ReadBelongsToWalk
  <2>7. ASSUME NEW level \in Level, L2Walk(level, bus = "arready", RValid(bus), bus)
        PROVE  ReadBelongsToWalk'
    <3>1. Walking /\ l2_vaddr' = l2_vaddr /\ l2_vaddr \in Page
      BY <1>1, <2>7 DEF L2Walk, Walking, SearchOfPage, Walk, Level
    <3>2. CASE bus = "arready"
      <4>1. l2_status' = l2_status /\ ~l2_arvalid'
        BY <2>1, <2>7, <3>2 DEF L2Walk
      <4> QED
        BY <3>1, <4>1 DEF ReadBelongsToWalk, Walking
    <3>3. CASE bus = "idle"
      <4>1. l2_arvalid' = l2_arvalid /\ l2_status' = l2_status
        BY <2>7, <3>3 DEF L2Walk, RValid
      <4>2. pteRead' \subseteq pteRead
        BY <2>1, <3>3
      <4> QED
        BY <2>2, <3>1, <4>1, <4>2 DEF ReadBelongsToWalk, Walking
    <3>4. CASE RValid(bus)
      <4>1. pteRead' = {} /\ ~l2_arvalid /\ bus # "arready"
        BY <2>1, <3>1, <3>4 DEF RValid
      <4>2. l2_arvalid' => level > 0 /\ l2_status' = Walk[level - 1]
        BY <2>7, <3>4, <4>1 DEF L2Walk
      <4>3. level > 0 => level - 1 \in Level
        BY DEF Level
      <4>4. l2_arvalid' => Walking'
        BY <4>2, <4>3 DEF Walking
      <4> QED
        BY <3>1, <4>1, <4>4 DEF ReadBelongsToWalk
    <3> QED
      BY <3>2, <3>3, <3>4 DEF RValid
  <2> QED
    BY <1>4, <1>1, <1>7, <2>4, <2>5, <2>6, <2>7 DEF L2Clock
<1> QED
  BY <1>4, <1>5, <1>6, <1>7
-----------------------------------------------------------------------------
\* A request or a wait of the instruction side after an edge stands for a miss
\* of the address that is still at the head of the fifo.
LEMMA CycleImmuMiss ==
    ASSUME MmuInv, NEW kind \in FlushKind, NEW iReady \in IReady, NEW dReady \in DReady,
           NEW bus \in PteBus, NEW vaddr_i \in IHead,
           Cycle(kind, iReady, dReady, bus, vaddr_i),
           i_status' \in {"SUBMIT_REQ", "WAIT_RESP"}
    PROVE  /\ kind = "none"
           /\ \/ i_status = "IDLE" /\ i_status' = "SUBMIT_REQ"
              \/ i_status = "SUBMIT_REQ"
              \/ i_status = "WAIT_RESP" /\ i_status' = "WAIT_RESP" /\ l2_status # "OUT"
           /\ i_status = "SUBMIT_REQ" /\ i_status' = "WAIT_RESP" => l2_status = "IDLE"
           /\ ImmuBypass' = ImmuBypass
           /\ ~ImmuBypass => i_vaddr \in Page /\ ImmuHits = {}
           /\ ~ImmuBypass => i_vaddr' = i_vaddr /\ ImmuHits' = {}
<1>1. /\ CsrUpdate(kind)
      /\ ImmuFsm(IFlush(kind), ImmuMissReady, PteOut, iReady)
      /\ ImmuFill(kind = "sfence", PteOut, l2_pte, l2_error)
      /\ ImmuOutput(IFlush(kind), iReady)
  BY DEF Cycle, ImmuClock
<1>2. ~IFlush(kind) /\ kind = "none"
  BY <1>1 DEF ImmuFsm, IFlush
<1>3. /\ \/ i_status = "IDLE" /\ i_status' = "SUBMIT_REQ"
         \/ i_status = "SUBMIT_REQ"
         \/ i_status = "WAIT_RESP" /\ i_status' = "WAIT_RESP" /\ l2_status # "OUT"
      /\ i_status = "SUBMIT_REQ" /\ i_status' = "WAIT_RESP" => l2_status = "IDLE"
      /\ i_status = "IDLE" => ~ImmuBypass /\ i_vaddr \in Page /\ ImmuHits = {}
  BY <1>1, <1>2 DEF ImmuFsm, PteOut, ImmuMissReady
<1>4. satp' = satp /\ i_priv' = i_priv
  BY <1>1, <1>2 DEF CsrUpdate
<1>5. ImmuBypass' = ImmuBypass
  BY <1>4 DEF ImmuBypass
<1>6. ~ImmuBypass => i_vaddr \in Page /\ ImmuHits = {}
  BY <1>3 DEF MmuInv, MissStands
<1>7. i_tlb' = i_tlb
  BY <1>1, <1>2, <1>3 DEF ImmuFill, PteOut
<1>8. ~ImmuBypass => i_vaddr' = i_vaddr
  <2>1. ~ImmuBypass => ~ImmuFifoReady(iReady)
    BY <1>3, <1>6, ConstantsAssumption DEF ImmuFifoReady, ConstantsAssumption
  <2> QED
    BY <1>1, <1>2, <2>1 DEF ImmuOutput
<1>9. ~ImmuBypass => ImmuHits' = ImmuHits
  BY <1>4, <1>7, <1>8 DEF ImmuHits, Hits
<1> QED
  BY <1>2, <1>3, <1>5, <1>6, <1>8, <1>9

\* The same of the data side, which no branch disturbs.
LEMMA CycleDmmuMiss ==
    ASSUME MmuInv, NEW kind \in FlushKind, NEW iReady \in IReady, NEW dReady \in DReady,
           NEW bus \in PteBus, NEW vaddr_i \in IHead,
           Cycle(kind, iReady, dReady, bus, vaddr_i),
           d_status' \in {"SUBMIT_REQ", "WAIT_RESP"}
    PROVE  /\ ~DFlush(kind) /\ kind # "sfence"
           /\ \/ d_status = "IDLE" /\ d_status' = "SUBMIT_REQ"
              \/ d_status = "SUBMIT_REQ"
              \/ d_status = "WAIT_RESP" /\ d_status' = "WAIT_RESP" /\ l2_status # "OUT"
           /\ d_status = "SUBMIT_REQ" /\ d_status' = "WAIT_RESP" =>
                 l2_status = "IDLE" /\ ~ImmuMissValid
           /\ ~DmmuBypass' /\ d_vaddr' \in Page /\ DmmuHits' = {}
           /\ d_vaddr' = d_vaddr
<1>1. /\ CsrUpdate(kind)
      /\ DmmuFsm(DFlush(kind), DmmuMissReady(ImmuMissValid), PteOut, dReady)
      /\ DmmuFill(kind = "sfence", PteOut, l2_pte, l2_error)
      /\ DmmuOutput(DFlush(kind), dReady)
  BY DEF Cycle, DmmuClock
<1>2. ~DFlush(kind) /\ kind \in {"none", "branch"}
  BY <1>1 DEF DmmuFsm, DFlush, FlushKind
<1>3. /\ \/ d_status = "IDLE" /\ d_status' = "SUBMIT_REQ"
         \/ d_status = "SUBMIT_REQ"
         \/ d_status = "WAIT_RESP" /\ d_status' = "WAIT_RESP" /\ l2_status # "OUT"
      /\ d_status = "SUBMIT_REQ" /\ d_status' = "WAIT_RESP" =>
            l2_status = "IDLE" /\ ~ImmuMissValid
      /\ d_status = "IDLE" => ~DmmuBypass /\ d_vaddr \in Page /\ DmmuHits = {}
  BY <1>1, <1>2 DEF DmmuFsm, PteOut, DmmuMissReady
<1>4. satp' = satp /\ d_priv' = d_priv
  BY <1>1, <1>2 DEF CsrUpdate
<1>5. DmmuBypass' = DmmuBypass
  BY <1>4 DEF DmmuBypass
<1>6. ~DmmuBypass /\ d_vaddr \in Page /\ DmmuHits = {}
  BY <1>3 DEF MmuInv, MissStands
<1>7. d_tlb4K' = d_tlb4K /\ d_tlbSp' = d_tlbSp
  BY <1>1, <1>2, <1>3 DEF DmmuFill, PteOut
<1>8. d_vaddr' = d_vaddr
  <2>1. ~DmmuFifoReady(dReady)
    BY <1>3, <1>6, ConstantsAssumption DEF DmmuFifoReady, ConstantsAssumption
  <2> QED
    BY <1>1, <1>2, <2>1 DEF DmmuOutput
<1>9. DmmuHits' = DmmuHits
  BY <1>4, <1>7, <1>8 DEF DmmuHits, Hits
<1> QED
  BY <1>2, <1>3, <1>5, <1>6, <1>8, <1>9
-----------------------------------------------------------------------------
\* After every edge the unit that waits is the one the second level serves.
LEMMA CycleWaiter ==
    ASSUME MmuInv, NEW kind \in FlushKind, NEW iReady \in IReady, NEW dReady \in DReady,
           NEW bus \in PteBus, NEW vaddr_i \in IHead,
           Cycle(kind, iReady, dReady, bus, vaddr_i)
    PROVE  MissStands' /\ WaiterIsServed'
<1>1. MissStands'
  BY CycleImmuMiss, CycleDmmuMiss DEF MissStands
<1>2. WaiterIsServed
  BY DEF MmuInv
<1>3. ASSUME ~DFlush(kind)
      PROVE  /\ l2_status = "IDLE" =>
                   L2Accept(ImmuMissValid, vaddr_i, DmmuMissValid, d_vaddr)
             /\ l2_status # "IDLE" => l2_vaddr' = l2_vaddr
             /\ l2_status \notin {"IDLE", "OUT"} => l2_status' # "IDLE"
  <2>1. ASSUME NEW s \in BOOLEAN, NEW a \in BOOLEAN, NEW r \in BOOLEAN,
               L2Clock(FALSE, s, ImmuMissValid, vaddr_i, DmmuMissValid, d_vaddr, a, r, bus)
        PROVE  /\ l2_status = "IDLE" =>
                     L2Accept(ImmuMissValid, vaddr_i, DmmuMissValid, d_vaddr)
               /\ l2_status # "IDLE" => l2_vaddr' = l2_vaddr
               /\ l2_status \notin {"IDLE", "OUT"} => l2_status' # "IDLE"
    BY <2>1, L2Steps
  <2>2. \E s \in BOOLEAN, a \in BOOLEAN, r \in BOOLEAN :
          L2Clock(FALSE, s, ImmuMissValid, vaddr_i, DmmuMissValid, d_vaddr, a, r, bus)
    <3>1. L2Clock(DFlush(kind), kind = "sfence", ImmuMissValid, vaddr_i, DmmuMissValid,
                  d_vaddr, bus = "arready", RValid(bus), bus)
      BY DEF Cycle
    <3>2. /\ DFlush(kind) = FALSE /\ (kind = "sfence") \in BOOLEAN
          /\ (bus = "arready") \in BOOLEAN /\ RValid(bus) \in BOOLEAN
      BY <1>3 DEF DFlush, RValid
    <3> QED
      BY <3>1, <3>2
  <2> QED
    BY <2>1, <2>2
<1>4. ASSUME i_status' = "WAIT_RESP"
      PROVE  /\ l2_status' # "IDLE" /\ d_status' # "WAIT_RESP"
             /\ ~ImmuBypass' => l2_vaddr' = i_vaddr'
  <2>1. /\ kind = "none"
        /\ ImmuBypass' = ImmuBypass
        /\ ~ImmuBypass => i_vaddr \in Page /\ i_vaddr' = i_vaddr
    BY <1>4, CycleImmuMiss
  <2>2. ~DFlush(kind)
    BY <2>1 DEF DFlush
  <2>3. CASE i_status = "SUBMIT_REQ"
    <3>1. l2_status = "IDLE" /\ ImmuMissValid
      BY <1>4, <2>3, CycleImmuMiss DEF ImmuMissValid
    <3>2. L2Accept(TRUE, vaddr_i, DmmuMissValid, d_vaddr)
      BY <1>3, <2>2, <3>1 DEF L2Accept
    <3>3. l2_status' # "IDLE"
      BY <3>2 DEF L2Accept
    <3>4. d_status' # "WAIT_RESP"
      <4>1. d_status # "WAIT_RESP"
        BY <1>2, <3>1 DEF WaiterIsServed
      <4> QED
        BY <3>1, <4>1, CycleDmmuMiss
    <3>5. ~ImmuBypass => vaddr_i = i_vaddr
      BY <2>1, ConstantsAssumption DEF IHead, ConstantsAssumption
    <3>6. ~ImmuBypass => l2_vaddr' = i_vaddr
      BY <2>1, <3>2, <3>5, ConstantsAssumption DEF L2Accept, ConstantsAssumption
    <3> QED
      BY <2>1, <3>3, <3>4, <3>6
  <2>4. CASE i_status = "WAIT_RESP"
    <3>1. l2_status \notin {"IDLE", "OUT"} /\ d_status # "WAIT_RESP"
      BY <1>2, <1>4, <2>4, CycleImmuMiss DEF WaiterIsServed
    <3>2. l2_status' # "IDLE" /\ l2_vaddr' = l2_vaddr
      BY <1>3, <2>2, <3>1
    <3>3. d_status' # "WAIT_RESP"
      BY <3>1, CycleDmmuMiss
    <3>4. ~ImmuBypass => l2_vaddr = i_vaddr
      BY <1>2, <2>4 DEF WaiterIsServed
    <3> QED
      BY <2>1, <3>2, <3>3, <3>4
  <2> QED
    BY <1>4, <2>3, <2>4, CycleImmuMiss
<1>5. ASSUME d_status' = "WAIT_RESP"
      PROVE  l2_status' # "IDLE" /\ l2_vaddr' = d_vaddr'
  <2>1. ~DFlush(kind) /\ d_vaddr' = d_vaddr /\ d_vaddr' \in Page
    BY <1>5, CycleDmmuMiss
  <2>2. CASE d_status = "SUBMIT_REQ"
    <3>1. l2_status = "IDLE" /\ ~ImmuMissValid /\ DmmuMissValid
      BY <1>5, <2>2, CycleDmmuMiss DEF DmmuMissValid
    <3>2. L2Accept(FALSE, vaddr_i, TRUE, d_vaddr)
      BY <1>3, <2>1, <3>1 DEF L2Accept
    <3> QED
      BY <2>1, <3>2, ConstantsAssumption DEF L2Accept, ConstantsAssumption
  <2>3. CASE d_status = "WAIT_RESP"
    <3>1. l2_status \notin {"IDLE", "OUT"} /\ l2_vaddr = d_vaddr
      BY <1>2, <1>5, <2>3, CycleDmmuMiss DEF WaiterIsServed
    <3> QED
      BY <1>3, <2>1, <3>1
  <2> QED
    BY <1>5, <2>2, <2>3, CycleDmmuMiss
<1> QED
  BY <1>1, <1>4, <1>5 DEF WaiterIsServed

LEMMA TickInv == MmuInv /\ Tick => MmuInv'
<1> SUFFICES ASSUME MmuInv, Tick PROVE MmuInv'
  OBVIOUS
<1>1. PICK kind \in FlushKind, iReady \in IReady, dReady \in DReady, bus \in PteBus,
           vaddr_i \in IHead : Cycle(kind, iReady, dReady, bus, vaddr_i)
  BY DEF Tick
<1>2. TypeOK'
  BY <1>1, CycleType
<1>3. ReadBelongsToWalk' /\ SearchOfPage'
  BY <1>1, CycleRead
<1>4. MissStands' /\ WaiterIsServed'
  BY <1>1, CycleWaiter
<1> QED
  BY <1>2, <1>3, <1>4 DEF MmuInv

\* The actions between two edges.
LEMMA FetchInv == MmuInv /\ Fetch => MmuInv'
<1> SUFFICES ASSUME MmuInv, Fetch PROVE MmuInv'
  OBVIOUS
<1> USE DEF Fetch, FetchAddr, csrVars, dmmuVars, l2Vars
<1>1. TypeOK'
  <2>1. i_vaddr' \in Page \cup {NoAddr, NonCanonical}
    BY MmuAssumption DEF MmuAssumption
  <2>2. ahead' \in 0 .. MaxAhead
    BY MmuAssumption DEF MmuAssumption, MmuInv, TypeOK
  <2> QED
    BY <2>1, <2>2 DEF MmuInv, TypeOK, CsrTypeOK, ImmuTypeOK, DmmuTypeOK, L2TypeOK
<1>2. /\ i_status \in {"SUBMIT_REQ", "WAIT_RESP"} => ImmuBypass /\ ImmuBypass'
      /\ DmmuHits' = DmmuHits /\ DmmuBypass' = DmmuBypass
  BY ConstantsAssumption DEF MmuInv, MissStands, ImmuBypass, DmmuBypass, DmmuHits, Hits,
     ConstantsAssumption
<1>3. MissStands' /\ WaiterIsServed'
  BY <1>2 DEF MmuInv, MissStands, WaiterIsServed
<1>4. ReadBelongsToWalk' /\ SearchOfPage'
  BY DEF MmuInv, ReadBelongsToWalk, SearchOfPage, Walking
<1> QED
  BY <1>1, <1>3, <1>4 DEF MmuInv

LEMMA AccessInv == MmuInv /\ Access => MmuInv'
<1> SUFFICES ASSUME MmuInv, Access PROVE MmuInv'
  OBVIOUS
<1> USE DEF Access, DataAddr, csrVars, immuVars, l2Vars, envVars
<1>1. TypeOK'
  <2>1. d_vaddr' \in Page \cup {NoAddr, NonCanonical}
    BY MmuAssumption DEF MmuAssumption
  <2> QED
    BY <2>1 DEF MmuInv, TypeOK, CsrTypeOK, ImmuTypeOK, DmmuTypeOK, L2TypeOK
<1>2. ImmuHits' = ImmuHits /\ ImmuBypass' = ImmuBypass
  BY DEF ImmuHits, Hits, ImmuBypass
<1>3. MissStands' /\ WaiterIsServed'
  BY <1>2 DEF MmuInv, MissStands, WaiterIsServed
<1>4. ReadBelongsToWalk' /\ SearchOfPage'
  BY DEF MmuInv, ReadBelongsToWalk, SearchOfPage, Walking
<1> QED
  BY <1>1, <1>3, <1>4 DEF MmuInv

LEMMA StorePteInv == MmuInv /\ StorePte => MmuInv'
<1> SUFFICES ASSUME MmuInv, StorePte PROVE MmuInv'
  OBVIOUS
<1>1. PICK u \in Patch :
        /\ table' = [table EXCEPT ![u[1]][u[2]] = u[3]]
        /\ live' = [live EXCEPT ![u[1]][u[2]] = @ \cup {u[3]}]
        /\ pteRead' = IF pteRead # {} /\ u[1] = l2_root /\ u[2] = WalkSlot
                      THEN pteRead \cup {u[3]} ELSE pteRead
        /\ UNCHANGED <<csrVars, immuVars, dmmuVars, l2Vars, late, ahead>>
  BY DEF StorePte
<1>2. u[1] \in Asid /\ u[2] \in PteSlot /\ u[3] \in PteValue
  BY MmuAssumption DEF MmuAssumption
<1> USE <1>1 DEF csrVars, immuVars, dmmuVars, l2Vars
<1>3. TypeOK'
  <2>1. table' \in [Asid -> [PteSlot -> PteValue]]
    BY <1>2 DEF MmuInv, TypeOK
  <2>2. live' \in [Asid -> [PteSlot -> SUBSET PteValue]]
    <3>1. live[u[1]] \in [PteSlot -> SUBSET PteValue]
      BY <1>2 DEF MmuInv, TypeOK
    <3>2. live[u[1]][u[2]] \cup {u[3]} \in SUBSET PteValue
      BY <1>2, <3>1
    <3> QED
      BY <1>2, <3>1, <3>2 DEF MmuInv, TypeOK
  <2>3. pteRead' \in SUBSET (PteValue \cup {"error"})
    BY <1>2 DEF MmuInv, TypeOK
  <2> QED
    BY <2>1, <2>2, <2>3 DEF MmuInv, TypeOK, CsrTypeOK, ImmuTypeOK, DmmuTypeOK, L2TypeOK
<1>4. /\ ImmuHits' = ImmuHits /\ ImmuBypass' = ImmuBypass
      /\ DmmuHits' = DmmuHits /\ DmmuBypass' = DmmuBypass
  BY DEF ImmuHits, DmmuHits, Hits, ImmuBypass, DmmuBypass
<1>5. MissStands' /\ WaiterIsServed'
  BY <1>4 DEF MmuInv, MissStands, WaiterIsServed
<1>6. ReadBelongsToWalk' /\ SearchOfPage'
  BY DEF MmuInv, ReadBelongsToWalk, SearchOfPage, Walking
<1> QED
  BY <1>3, <1>5, <1>6 DEF MmuInv

LEMMA WriteSatpBareInv == MmuInv /\ WriteSatpBare => MmuInv'
<1> SUFFICES ASSUME MmuInv, WriteSatpBare PROVE MmuInv'
  OBVIOUS
<1> USE DEF WriteSatpBare, immuVars, dmmuVars, l2Vars, envVars
<1>1. satp' \in [on : BOOLEAN, asid : Asid] /\ ~satp'.on
  BY MmuAssumption DEF MmuAssumption
<1>2. TypeOK'
  BY <1>1 DEF MmuInv, TypeOK, CsrTypeOK, ImmuTypeOK, DmmuTypeOK, L2TypeOK
<1>3. ImmuBypass'
  BY <1>1 DEF ImmuBypass
<1>4. MissStands' /\ WaiterIsServed'
  BY <1>3 DEF MmuInv, MissStands, WaiterIsServed
<1>5. ReadBelongsToWalk' /\ SearchOfPage'
  BY DEF MmuInv, ReadBelongsToWalk, SearchOfPage, Walking
<1> QED
  BY <1>2, <1>4, <1>5 DEF MmuInv

LEMMA MmuInvStutters == MmuInv /\ UNCHANGED vars => MmuInv'
<1> SUFFICES ASSUME MmuInv, UNCHANGED vars PROVE MmuInv'
  OBVIOUS
<1> USE DEF vars, csrVars, immuVars, dmmuVars, l2Vars, envVars
<1>1. TypeOK'
  BY DEF MmuInv, TypeOK, CsrTypeOK, ImmuTypeOK, DmmuTypeOK, L2TypeOK
<1>2. /\ ImmuHits' = ImmuHits /\ ImmuBypass' = ImmuBypass
      /\ DmmuHits' = DmmuHits /\ DmmuBypass' = DmmuBypass
  BY DEF ImmuHits, DmmuHits, Hits, ImmuBypass, DmmuBypass
<1>3. MissStands' /\ WaiterIsServed'
  BY <1>2 DEF MmuInv, MissStands, WaiterIsServed
<1>4. ReadBelongsToWalk' /\ SearchOfPage'
  BY DEF MmuInv, ReadBelongsToWalk, SearchOfPage, Walking
<1> QED
  BY <1>1, <1>3, <1>4 DEF MmuInv
-----------------------------------------------------------------------------
(* The theorems.                                                           *)

\* MmuInv holds in every reachable state.
THEOREM MmuInvHolds == Spec => []MmuInv
<1>1. Init => MmuInv
  BY InitMmuInv
<1>2. MmuInv /\ [Next]_vars => MmuInv'
  <2> SUFFICES ASSUME MmuInv, [Next]_vars PROVE MmuInv'
    OBVIOUS
  <2>1. CASE Next
    BY <2>1, TickInv, FetchInv, AccessInv, StorePteInv, WriteSatpBareInv DEF Next
  <2>2. CASE UNCHANGED vars
    BY <2>2, MmuInvStutters
  <2> QED
    BY <2>1, <2>2
<1> QED
  BY <1>1, <1>2, PTL DEF Spec

\* Every register and array of the three units keeps its type, for every
\* number of ways, rows, pages and address spaces.
THEOREM TypeCorrect == Spec => []TypeOK
<1>1. MmuInv => TypeOK
  BY DEF MmuInv
<1> QED
  BY <1>1, MmuInvHolds, PTL

\* An answer of the second level is always taken by the unit that asked for
\* that page, whatever flushes come while the walk is in flight.
THEOREM WaiterServed == Spec => []WaiterIsServed
<1>1. MmuInv => WaiterIsServed
  BY DEF MmuInv
<1> QED
  BY <1>1, MmuInvHolds, PTL

\* A page table read that pends in the dcache is the one the walk in progress
\* sent, unless the error of a flushed burst has ended the walk that sent it;
\* without such errors it always is.
THEOREM ReadOfThisWalk == Spec => []ReadBelongsToWalk
<1>1. MmuInv => ReadBelongsToWalk
  BY DEF MmuInv
<1> QED
  BY <1>1, MmuInvHolds, PTL
=============================================================================
