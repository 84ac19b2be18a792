------------------------------ MODULE DataProofs -----------------------------
(***************************************************************************)
(* Proofs of DataFrameLive and FetchFrameLive for page tables with 4K      *)
(* leaves: no address the dmmu hands to the dcache, or the immu to the     *)
(* icache, comes from a translation older than the last SFENCE.VMA,        *)
(* whatever the sizes of the TLBs and however the walks, the flushes and   *)
(* the stores to the tables interleave.                                    *)
(***************************************************************************)
EXTENDS MmuProofs, FiniteSetTheorems

-----------------------------------------------------------------------------
(* Lemmas about the data.                                                  *)

\* The type of live.
Slots == [Asid -> [PteSlot -> SUBSET PteValue]]

\* A translation that was allowed stays allowed when slots are given more
\* values.
LEMMA EntryInGrows ==
    ASSUME NEW h1 \in Slots, NEW h2 \in Slots,
           \A a \in Asid, s \in PteSlot : h1[a][s] \subseteq h2[a][s],
           NEW e, EntryIn(h1, e)
    PROVE  EntryIn(h2, e)
<1>1. CASE e.leaf = "zero"
  BY <1>1 DEF EntryIn
<1>2. CASE e.leaf # "zero"
  <2>1. e.asid \in Asid /\ e.page \in Page /\ e.leaf \in FramesIn(h1, e.asid, e.page)
    BY <1>2 DEF EntryIn
  <2>2. ASSUME NEW l \in Level
        PROVE  h1[e.asid][Slot(l, e.page)] \subseteq h2[e.asid][Slot(l, e.page)]
    BY <2>1, SlotType
  <2>3. 0 \in Level /\ 1 \in Level /\ 2 \in Level
    BY DEF Level
  <2>4. e.leaf \in FramesIn(h2, e.asid, e.page)
    BY <2>1, <2>2, <2>3 DEF FramesIn
  <2> QED
    BY <1>2, <2>1, <2>4 DEF EntryIn
<1> QED
  BY <1>1, <1>2

LEMMA ZeroEntryIn == ASSUME NEW h PROVE EntryIn(h, ZeroEntry)
BY DEF EntryIn, ZeroEntry

\* A 4K row that answers for a page holds that page.
LEMMA HitPage ==
    ASSUME NEW e \in Entry, NEW p \in Page, e.size = 0, Hits(e, p)
    PROVE  e.page = p /\ e.asid = satp.asid
<1>1. e.page[1] = p[1] /\ e.page[2] = p[2] /\ e.page[3] = p[3]
  BY DEF Hits, Covers
<1>2. CASE e.page \in Page
  BY <1>1, <1>2 DEF Hits, Page
<1>3. CASE e.page = ZeroPage
  BY <1>1, <1>3 DEF Hits, Page, ZeroPage
<1> QED
  BY <1>2, <1>3 DEF Entry

\* One live entry of the page, OR-ed with nothing else, gives a fault or a
\* frame that is live.
LEMMA OneEntryFrame ==
    ASSUME NEW p \in Page, NEW e \in Entry, EntryIn(live, e),
           e.leaf # "zero" => e.asid = satp.asid /\ e.page = p
    PROVE  FrameOf(OrLeaf({e})) \in {"fault"} \cup LiveFrames(satp.asid, p)
<1> DEFINE leaves == {x.leaf : x \in {e}} \ {"zero"}
<1>1. CASE e.leaf = "zero"
  <2>1. leaves = {}
    BY <1>1
  <2> QED
    BY <2>1 DEF OrLeaf, FrameOf
<1>2. CASE e.leaf # "zero"
  <2>1. leaves = {e.leaf}
    BY <1>2
  <2>2. Cardinality(leaves) = 1
    BY <2>1, FS_Singleton
  <2>3. (CHOOSE l \in leaves : TRUE) = e.leaf
    BY <2>1
  <2>4. OrLeaf({e}) = e.leaf
    BY <2>1, <2>2, <2>3 DEF OrLeaf
  <2>5. e.leaf \in LiveFrames(satp.asid, p)
    BY <1>2 DEF EntryIn, LiveFrames
  <2> QED
    BY <1>2, <2>4, <2>5 DEF FrameOf
<1> QED
  BY <1>1, <1>2
-----------------------------------------------------------------------------
(* One clock edge.                                                         *)

Edge(kind, iReady, dReady, bus, vaddr_i) ==
    /\ kind \in FlushKind /\ iReady \in IReady /\ dReady \in DReady
    /\ bus \in PteBus /\ vaddr_i \in IHead
    /\ Cycle(kind, iReady, dReady, bus, vaddr_i)

\* A flush of the data side leaves nothing in flight.
LEMMA EdgeFlush ==
    ASSUME NEW kind, NEW iReady, NEW dReady, NEW bus, NEW vaddr_i,
           Edge(kind, iReady, dReady, bus, vaddr_i), DFlush(kind)
    PROVE  /\ L2Reset
           /\ d_status' = "IDLE" /\ d_vaddr' = NoAddr /\ d_paddr' = NoAddr
           /\ pteRead' = {}
BY DEF Edge, Cycle, L2Clock, DmmuClock, DmmuFsm, DmmuOutput, PteReadStep

\* What an edge without one does.
LEMMA EdgeStep ==
    ASSUME NEW kind, NEW iReady, NEW dReady, NEW bus, NEW vaddr_i,
           Edge(kind, iReady, dReady, bus, vaddr_i), ~DFlush(kind)
    PROVE  /\ kind # "sfence"
           /\ satp' = satp /\ d_priv' = d_priv /\ live' = live /\ table' = table
           /\ \/ L2Accept(ImmuMissValid, vaddr_i, DmmuMissValid, d_vaddr)
              \/ L2Search
              \/ \E level \in Level : L2Walk(level, bus = "arready", RValid(bus), bus)
              \/ L2Answer
<1>1. kind \in {"none", "branch"}
  BY DEF Edge, DFlush, FlushKind
<1> QED
  BY <1>1 DEF Edge, Cycle, CsrUpdate, L2Clock

\* The arrays of both levels are cleared by SFENCE.VMA, or keep their rows but
\* for the one written with the register of the second level.
LEMMA EdgeArrays ==
    ASSUME DataInv, NEW kind, NEW iReady, NEW dReady, NEW bus, NEW vaddr_i,
           Edge(kind, iReady, dReady, bus, vaddr_i)
    PROVE  /\ \/ kind = "sfence" /\ l2_4K' = [r \in Row |-> [w \in L2Way |-> NoPte]]
              \/ kind # "sfence" /\ l2_wen = 0 /\ \E w \in L2Way :
                    l2_4K' = [l2_4K EXCEPT ![L2Row(l2_vaddr)][w] = l2_pte]
              \/ kind # "sfence" /\ l2_wen # 0 /\ l2_4K' = l2_4K
           /\ \/ kind = "sfence" /\ d_tlb4K' = [r \in Row |-> NoPte]
              \/ /\ kind # "sfence" /\ d_status = "WAIT_RESP" /\ l2_status = "OUT"
                 /\ d_tlb4K' = [d_tlb4K EXCEPT ![DmmuRow(d_vaddr)] = l2_pte]
              \/ /\ kind # "sfence" /\ ~(d_status = "WAIT_RESP" /\ l2_status = "OUT")
                 /\ d_tlb4K' = d_tlb4K
           /\ \A w \in DWaySp : d_tlbSp'[w] = NoPte
           /\ \A l \in 1 .. 2, r \in Row : ~l2_spValid'[l][r]
<1>1. L2Write(kind = "sfence") /\ DmmuFill(kind = "sfence", PteOut, l2_pte, l2_error)
  BY DEF Edge, Cycle, L2Clock, DmmuClock
<1>2. l2_pte.size = 0 /\ l2_wen \notin {1, 2}
  BY DEF DataInv, EntriesLive, EntryIn, NoSuperpage, NoLevel
<1>3. \/ kind = "sfence" /\ l2_4K' = [r \in Row |-> [w \in L2Way |-> NoPte]]
      \/ kind # "sfence" /\ l2_wen = 0 /\ \E w \in L2Way :
            l2_4K' = [l2_4K EXCEPT ![L2Row(l2_vaddr)][w] = l2_pte]
      \/ kind # "sfence" /\ l2_wen # 0 /\ l2_4K' = l2_4K
  BY <1>1 DEF L2Write
<1>4. /\ \/ kind = "sfence" /\ d_tlb4K' = [r \in Row |-> NoPte]
         \/ /\ kind # "sfence" /\ d_status = "WAIT_RESP" /\ l2_status = "OUT"
            /\ d_tlb4K' = [d_tlb4K EXCEPT ![DmmuRow(d_vaddr)] = l2_pte]
         \/ /\ kind # "sfence" /\ ~(d_status = "WAIT_RESP" /\ l2_status = "OUT")
            /\ d_tlb4K' = d_tlb4K
  <2>1. DOMAIN d_tlb4K = Row
    BY DEF DataInv, MmuInv, TypeOK, DmmuTypeOK, Row
  <2> QED
    BY <1>1, <1>2, <2>1 DEF DmmuFill, PteOut
<1>5. \A w \in DWaySp : d_tlbSp'[w] = NoPte
  <2>1. d_tlbSp' = [w \in DWaySp |-> NoPte] \/ d_tlbSp' = d_tlbSp
    BY <1>1, <1>2 DEF DmmuFill
  <2> QED
    BY <2>1 DEF DataInv, NoSuperpage
<1>6. \A l \in 1 .. 2, r \in Row : ~l2_spValid'[l][r]
  <2>1. \/ l2_spValid' = [l \in 1 .. 2 |-> [r \in Row |-> FALSE]]
        \/ l2_spValid' = l2_spValid
    BY <1>1, <1>2 DEF L2Write
  <2> QED
    BY <2>1 DEF DataInv, NoSuperpage
<1> QED
  BY <1>3, <1>4, <1>5, <1>6

\* The rows of the second level that answer for the page searched: at most
\* one, live and of that page.
LEMMA L2HitsLive ==
    ASSUME DataInv, l2_vaddr \in Page
    PROVE  /\ \A e \in L2Hits : e.page = l2_vaddr /\ e.asid = satp.asid /\ EntryIn(live, e)
           /\ \A e \in L2Hits, f \in L2Hits : e = f
<1>1. L2Row(l2_vaddr) \in Row
  BY L2RowsType, 1 \in 1 .. 2
<1>2. L2Hits = {e \in {l2_4K[L2Row(l2_vaddr)][w] : w \in L2Way} : Hits(e, l2_vaddr)}
  <2>1. \A l \in 1 .. 2 : ~l2_spValid[l][SpValidRow(l, l2_vaddr)]
    BY L2RowsType DEF DataInv, NoSuperpage
  <2> QED
    BY <2>1 DEF L2Hits
<1>3. ASSUME NEW e \in L2Hits
      PROVE  e.page = l2_vaddr /\ e.asid = satp.asid /\ EntryIn(live, e)
  <2>1. e \in Entry
    BY L2HitsType DEF DataInv, MmuInv, TypeOK
  <2>2. EntryIn(live, e) /\ Hits(e, l2_vaddr)
    BY <1>1, <1>2 DEF DataInv, EntriesLive, Hits
  <2> QED
    BY <2>1, <2>2, HitPage DEF EntryIn
<1>4. ASSUME NEW e \in L2Hits, NEW f \in L2Hits PROVE e = f
  <2>1. PICK v \in L2Way : e = l2_4K[L2Row(l2_vaddr)][v] /\ e # NoPte
    BY <1>2 DEF Hits
  <2>2. PICK w \in L2Way : f = l2_4K[L2Row(l2_vaddr)][w] /\ f # NoPte
    BY <1>2 DEF Hits
  <2>3. <<e.asid, e.page>> = <<f.asid, f.page>>
    BY <1>3
  <2> QED
    BY <1>1, <2>1, <2>2, <2>3 DEF DataInv, OneRowPerPage
<1> QED
  BY <1>3, <1>4
-----------------------------------------------------------------------------
(* A leaf the walk ends on is a 4K leaf, live for the page walked.         *)
LEMMA LeafLive ==
    ASSUME DataInv, NEW level \in Level, NEW bus \in PteBus, NEW arReady \in BOOLEAN,
           L2Walk(level, arReady, RValid(bus), bus), bus \in Leaf
    PROVE  /\ level = 0
           /\ bus \in FramesIn(live, satp.asid, l2_vaddr)
           /\ satp.asid \in Asid /\ l2_vaddr \in Page
<1>1. satp.asid \in Asid
  BY DEF DataInv, MmuInv, TypeOK, CsrTypeOK
<1>2. l2_status = Walk[level]
  BY DEF L2Walk
<1>3. l2_vaddr \in Page
  BY <1>2 DEF DataInv, MmuInv, SearchOfPage, Walk, Level
<1>4. late = "none" /\ bus \in pteRead
  <2>1. bus \notin {"idle", "arready", "error"}
    BY ConstantsAssumption DEF ConstantsAssumption
  <2>2. bus \notin StrayAnswers
    BY DEF DataInv, WalkLive, NoStrayLeaf
  <2> QED
    BY <2>1, <2>2 DEF PteBus
<1>5. /\ bus \in live[satp.asid][Slot(level, l2_vaddr)]
      /\ \A k \in Level : k > level => "pointer" \in live[satp.asid][Slot(k, l2_vaddr)]
  BY <1>2, <1>4 DEF DataInv, WalkLive
<1>6. level = 0
  <2>1. \A l \in 1 .. 2 : bus \notin live[satp.asid][Slot(l, l2_vaddr)]
    BY <1>1, <1>3 DEF DataInv, NoSuperpage
  <2> QED
    BY <1>5, <2>1 DEF Level
<1>7. "pointer" \in live[satp.asid][Slot(1, l2_vaddr)]
      /\ "pointer" \in live[satp.asid][Slot(2, l2_vaddr)]
  BY <1>5, <1>6 DEF Level
<1> QED
  BY <1>1, <1>3, <1>5, <1>6, <1>7 DEF FramesIn

\* The register of the second level after an edge.
LEMMA EdgePte ==
    ASSUME DataInv, NEW kind, NEW iReady, NEW dReady, NEW bus, NEW vaddr_i,
           Edge(kind, iReady, dReady, bus, vaddr_i)
    PROVE  EntryIn(live', l2_pte')
<1>1. EntryIn(live, l2_pte)
  BY DEF DataInv, EntriesLive
<1>2. CASE DFlush(kind)
  BY <1>2, EdgeFlush, ZeroEntryIn DEF L2Reset
<1>3. CASE ~DFlush(kind)
  <2>1. live' = live
    BY <1>3, EdgeStep
  <2>2. CASE L2Accept(ImmuMissValid, vaddr_i, DmmuMissValid, d_vaddr)
    BY <1>1, <2>1, <2>2 DEF L2Accept
  <2>3. CASE L2Search
    <3>1. l2_vaddr \in Page
      BY <2>3 DEF L2Search, DataInv, MmuInv, SearchOfPage
    <3>2. CASE L2Hits # {}
      <4> DEFINE one == CHOOSE e \in L2Hits : TRUE
      <4>1. one \in L2Hits
        BY <3>2
      <4> HIDE DEF one
      <4>2. ~ \E e \in L2Hits : e # one
        BY <3>1, <4>1, L2HitsLive
      <4>3. l2_pte' = one
        BY <2>3, <3>2, <4>2 DEF L2Search, one
      <4> QED
        BY <2>1, <3>1, <4>1, <4>3, L2HitsLive
    <3>3. CASE L2Hits = {}
      BY <1>1, <2>1, <2>3, <3>3 DEF L2Search
    <3> QED
      BY <3>2, <3>3
  <2>4. ASSUME NEW level \in Level, L2Walk(level, bus = "arready", RValid(bus), bus)
        PROVE  EntryIn(live', l2_pte')
    <3>1. CASE l2_pte' = l2_pte
      BY <1>1, <2>1, <3>1
    <3>2. CASE l2_pte' # l2_pte
      <4>1. /\ bus \in Leaf
            /\ l2_pte' = [asid |-> satp.asid, page |-> l2_vaddr, size |-> level, leaf |-> bus]
        BY <2>4, <3>2 DEF L2Walk
      <4>2. bus \in PteBus /\ (bus = "arready") \in BOOLEAN
        BY DEF Edge
      <4>3. /\ level = 0 /\ bus \in FramesIn(live, satp.asid, l2_vaddr)
            /\ satp.asid \in Asid /\ l2_vaddr \in Page
        BY <2>4, <4>1, <4>2, LeafLive
      <4> QED
        BY <2>1, <4>1, <4>3 DEF EntryIn
    <3> QED
      BY <3>1, <3>2
  <2>5. CASE L2Answer
    BY <1>1, <2>1, <2>5 DEF L2Answer
  <2> QED
    BY <1>3, <2>2, <2>3, <2>4, <2>5, EdgeStep
<1> QED
  BY <1>2, <1>3

\* What every TLB row of the data side holds after an edge is live.
LEMMA EdgeEntries ==
    ASSUME DataInv, NEW kind, NEW iReady, NEW dReady, NEW bus, NEW vaddr_i,
           Edge(kind, iReady, dReady, bus, vaddr_i)
    PROVE  EntriesLive'
<1>1. EntryIn(live, l2_pte)
  BY DEF DataInv, EntriesLive
<1>2. kind # "sfence" => live' = live
  BY DEF Edge, Cycle
<1>3. L2Row(l2_vaddr) \in Row
  BY L2RowsType, 1 \in 1 .. 2 DEF DataInv, MmuInv, TypeOK, L2TypeOK
<1>4. ASSUME NEW r \in Row, NEW w \in L2Way, l2_4K'[r][w] # NoPte
      PROVE  EntryIn(live', l2_4K'[r][w])
  <2>1. kind # "sfence"
    BY <1>4, EdgeArrays
  <2>2. l2_4K'[r][w] = l2_pte \/ l2_4K'[r][w] = l2_4K[r][w]
    <3>1. l2_4K \in [Row -> [L2Way -> Entry \cup {NoPte}]]
      BY DEF DataInv, MmuInv, TypeOK, L2TypeOK
    <3>2. CASE l2_4K' = l2_4K
      BY <3>2
    <3>3. ASSUME NEW v \in L2Way, l2_4K' = [l2_4K EXCEPT ![L2Row(l2_vaddr)][v] = l2_pte]
          PROVE  l2_4K'[r][w] = l2_pte \/ l2_4K'[r][w] = l2_4K[r][w]
      BY <1>3, <3>1, <3>3
    <3> QED
      BY <2>1, <3>2, <3>3, EdgeArrays
  <2> QED
    BY <1>1, <1>2, <1>4, <2>1, <2>2 DEF DataInv, EntriesLive
<1>5. ASSUME NEW r \in Row, d_tlb4K'[r] # NoPte
      PROVE  EntryIn(live', d_tlb4K'[r])
  <2>1. kind # "sfence"
    BY <1>5, EdgeArrays
  <2>2. d_tlb4K'[r] = l2_pte \/ d_tlb4K'[r] = d_tlb4K[r]
    BY <2>1, EdgeArrays DEF DataInv, MmuInv, TypeOK, DmmuTypeOK, Row
  <2> QED
    BY <1>1, <1>2, <1>5, <2>1, <2>2 DEF DataInv, EntriesLive
<1> QED
  BY <1>4, <1>5, EdgePte DEF EntriesLive

LEMMA EdgeNoSuperpage ==
    ASSUME DataInv, NEW kind, NEW iReady, NEW dReady, NEW bus, NEW vaddr_i,
           Edge(kind, iReady, dReady, bus, vaddr_i)
    PROVE  NoSuperpage'
<1>1. ASSUME NEW a \in Asid, NEW p \in Page, NEW l \in 1 .. 2
      PROVE  live'[a][Slot(l, p)] \cap Leaf = {}
  <2>1. Slot(l, p) \in PteSlot
    BY SlotType DEF Level
  <2>2. live'[a][Slot(l, p)] \subseteq live[a][Slot(l, p)]
    BY <2>1 DEF Edge, Cycle, DataInv, WalkLive
  <2> QED
    BY <2>2 DEF DataInv, NoSuperpage
<1>2. l2_wen' \in {0, NoLevel}
  <2>1. CASE DFlush(kind)
    BY <2>1, EdgeFlush DEF L2Reset
  <2>2. CASE ~DFlush(kind)
    <3>1. ASSUME NEW level \in Level, L2Walk(level, bus = "arready", RValid(bus), bus)
          PROVE  l2_wen' \in {0, NoLevel}
      <4>1. l2_wen' = l2_wen \/ (bus \in Leaf /\ l2_wen' = level)
        BY <3>1 DEF L2Walk
      <4>2. bus \in PteBus /\ (bus = "arready") \in BOOLEAN
        BY DEF Edge
      <4>3. bus \in Leaf => level = 0
        BY <3>1, <4>2, LeafLive
      <4> QED
        BY <4>1, <4>3 DEF DataInv, NoSuperpage
    <3> QED
      BY <2>2, <3>1, EdgeStep DEF L2Accept, L2Search, L2Answer, DataInv, NoSuperpage
  <2> QED
    BY <2>1, <2>2
<1> QED
  BY <1>1, <1>2, EdgeArrays DEF NoSuperpage
-----------------------------------------------------------------------------
\* The walk after an edge has used only live pointers.
LEMMA EdgeWalk ==
    ASSUME DataInv, NEW kind, NEW iReady, NEW dReady, NEW bus, NEW vaddr_i,
           Edge(kind, iReady, dReady, bus, vaddr_i)
    PROVE  WalkLive'
<1>1. /\ \A a \in Asid, s \in PteSlot : table'[a][s] \in live'[a][s]
      /\ NoStrayLeaf'
  BY DEF Edge, Cycle, DataInv, WalkLive, NoStrayLeaf
<1>2. ASSUME NEW l \in Level, late' # "astray", l2_status' = Walk[l]
      PROVE  /\ l2_root' = satp'.asid
             /\ \A k \in Level : k > l =>
                   "pointer" \in live'[satp'.asid][Slot(k, l2_vaddr')]
             /\ pteRead' \subseteq live'[satp'.asid][Slot(l, l2_vaddr')]
  <2>1. ~DFlush(kind)
    BY <1>2, EdgeFlush DEF L2Reset, Walk, Level
  <2>2. satp' = satp /\ live' = live /\ PteReadStep(kind, bus) /\ bus \in PteBus
    BY <2>1, EdgeStep DEF Edge, Cycle
  <2>2a. /\ late # "astray"
         /\ bus = "arready" => l2_arvalid /\ pteRead = {}
         /\ bus # "arready" => pteRead' \subseteq pteRead
         /\ RValid(bus) => pteRead' = {}
    BY <1>2, <2>1, <2>2, ReadSteps DEF DataInv
  <2>3. CASE L2Accept(ImmuMissValid, vaddr_i, DmmuMissValid, d_vaddr)
    BY <1>2, <2>3 DEF L2Accept, Walk, Level
  <2>4. CASE L2Answer
    BY <1>2, <2>4 DEF L2Answer, Walk, Level
  <2>5. CASE L2Search
    <3>1. /\ l2_status' = Walk[2] /\ l2_root' = satp.asid /\ l2_vaddr' = l2_vaddr
      BY <1>2, <2>5 DEF L2Search, Walk, Level
    <3>2. l = 2
      BY <1>2, <3>1 DEF Walk, Level
    <3>3. pteRead = {} /\ ~l2_arvalid
      BY <2>2a, <2>5 DEF L2Search, DataInv, MmuInv, ReadBelongsToWalk, Walking, Walk, Level
    <3>4. pteRead' = {}
      BY <2>2a, <3>3
    <3> QED
      BY <2>2, <3>1, <3>2, <3>4 DEF Level
  <2>6. ASSUME NEW level \in Level, L2Walk(level, bus = "arready", RValid(bus), bus)
        PROVE  /\ l2_root' = satp'.asid
               /\ \A k \in Level : k > l =>
                     "pointer" \in live'[satp'.asid][Slot(k, l2_vaddr')]
               /\ pteRead' \subseteq live'[satp'.asid][Slot(l, l2_vaddr')]
    <3>1. /\ l2_status = Walk[level] /\ l2_vaddr' = l2_vaddr /\ l2_root' = l2_root
      BY <2>6 DEF L2Walk
    <3>2. /\ l2_root = satp.asid
          /\ \A k \in Level : k > level =>
                "pointer" \in live[satp.asid][Slot(k, l2_vaddr)]
          /\ pteRead \subseteq live[satp.asid][Slot(level, l2_vaddr)]
      BY <2>2a, <3>1 DEF DataInv, WalkLive
    <3>3. CASE bus = "arready"
      <4>1. l2_arvalid
        BY <2>2a, <3>3
      <4>2. l2_status' = l2_status
        BY <2>6, <3>3, <4>1 DEF L2Walk
      <4>3. l = level
        BY <1>2, <3>1, <4>2 DEF Walk, Level
      <4>4. WalkLevel = level
        BY <3>1 DEF WalkLevel, Walk, Level
      <4>5. pteRead' = {table[satp.asid][Slot(level, l2_vaddr)]}
        BY <2>1, <2>2, <2>2a, <3>2, <3>3, <4>4
        DEF PteReadStep, PteReadUnflushed, TakeOrAnswer, PushLateError, LateErrorShown,
            RValid, WalkSlot
      <4>6. table[satp.asid][Slot(level, l2_vaddr)] \in live[satp.asid][Slot(level, l2_vaddr)]
        <5>1. satp.asid \in Asid /\ l2_vaddr \in Page
          BY <3>1 DEF DataInv, MmuInv, TypeOK, CsrTypeOK, SearchOfPage, Walk, Level
        <5> QED
          BY <5>1, SlotType DEF DataInv, WalkLive
      <4> QED
        BY <2>2, <3>1, <3>2, <4>3, <4>5, <4>6
    <3>4. CASE bus = "idle"
      <4>1. l2_status' = l2_status /\ pteRead' \subseteq pteRead
        BY <2>2a, <2>6, <3>4 DEF L2Walk, RValid
      <4>2. l = level
        BY <1>2, <3>1, <4>1 DEF Walk, Level
      <4> QED
        BY <2>2, <3>1, <3>2, <4>1, <4>2
    <3>5. CASE RValid(bus)
      <4>1. bus # "arready" /\ l2_status' # "OUT"
        BY <1>2, <3>5 DEF RValid, Walk, Level
      <4>2. bus = "pointer" /\ level > 0 /\ l2_status' = Walk[level - 1]
        BY <2>6, <3>5, <4>1 DEF L2Walk
      <4>3. l = level - 1
        BY <1>2, <4>2 DEF Walk, Level
      <4>4. bus \in pteRead
        <5>1. "pointer" # "error"
          OBVIOUS
        <5> QED
          BY <2>2, <2>2a, <4>2, <5>1 DEF PteBus
      <4>5. pteRead' = {}
        BY <2>2a, <3>5
      <4>6. \A k \in Level : k > l => k = level \/ k > level
        BY <4>3 DEF Level
      <4> QED
        BY <2>2, <3>1, <3>2, <4>2, <4>4, <4>5, <4>6
    <3> QED
      BY <3>3, <3>4, <3>5 DEF RValid
  <2> QED
    BY <2>1, <2>3, <2>4, <2>5, <2>6, EdgeStep
<1> QED
  BY <1>1, <1>2 DEF WalkLive

\* The answer after an edge is of the page searched; only a leaf just walked
\* to is written.
LEMMA EdgeAnswer ==
    ASSUME DataInv, NEW kind, NEW iReady, NEW dReady, NEW bus, NEW vaddr_i,
           Edge(kind, iReady, dReady, bus, vaddr_i)
    PROVE  AnswerOfPage'
<1>1. CASE DFlush(kind)
  <2>1. l2_status' = "IDLE" /\ l2_wen' = NoLevel
    BY <1>1, EdgeFlush DEF L2Reset
  <2> QED
    BY <2>1 DEF AnswerOfPage, NoLevel
<1>2. CASE ~DFlush(kind)
  <2>1. satp' = satp
    BY <1>2, EdgeStep
  <2>2. l2_wen = 0 => l2_status = "OUT"
    BY DEF DataInv, AnswerOfPage
  <2>3. CASE L2Accept(ImmuMissValid, vaddr_i, DmmuMissValid, d_vaddr)
    BY <2>2, <2>3 DEF L2Accept, AnswerOfPage
  <2>4. CASE L2Search
    <3>1. l2_vaddr \in Page /\ l2_wen' # 0 /\ l2_vaddr' = l2_vaddr
      BY <2>2, <2>4 DEF L2Search, DataInv, MmuInv, SearchOfPage
    <3>2. ASSUME L2Hits # {} PROVE l2_pte'.asid = satp.asid /\ l2_pte'.page = l2_vaddr
      <4> DEFINE one == CHOOSE e \in L2Hits : TRUE
      <4>1. one \in L2Hits
        BY <3>2
      <4> HIDE DEF one
      <4>2. ~ \E e \in L2Hits : e # one
        BY <3>1, <4>1, L2HitsLive
      <4>3. l2_pte' = one
        BY <2>4, <3>2, <4>2 DEF L2Search, one
      <4> QED
        BY <3>1, <4>1, <4>3, L2HitsLive
    <3>3. L2Hits = {} => l2_status' # "OUT"
      BY <2>4 DEF L2Search, Walk, Level
    <3> QED
      BY <2>1, <3>1, <3>2, <3>3 DEF AnswerOfPage
  <2>5. ASSUME NEW level \in Level, L2Walk(level, bus = "arready", RValid(bus), bus)
        PROVE  AnswerOfPage'
    <3>1. l2_vaddr \in Page /\ l2_wen # 0 /\ l2_vaddr' = l2_vaddr
          /\ l2_status # "OUT"
      BY <2>2, <2>5 DEF L2Walk, DataInv, MmuInv, SearchOfPage, Walk, Level
    <3>2. \/ /\ l2_status' = "OUT" /\ l2_error' = FALSE
             /\ l2_pte' = [asid |-> satp.asid, page |-> l2_vaddr, size |-> level, leaf |-> bus]
          \/ l2_status' = "OUT" /\ l2_error' = TRUE /\ l2_wen' = l2_wen
          \/ l2_status' # "OUT" /\ l2_wen' = l2_wen
      BY <2>5, <3>1 DEF L2Walk, Walk, Level
    <3> QED
      BY <2>1, <3>1, <3>2 DEF AnswerOfPage
  <2>6. CASE L2Answer
    BY <2>6 DEF L2Answer, AnswerOfPage, NoLevel
  <2> QED
    BY <1>2, <2>3, <2>4, <2>5, <2>6, EdgeStep
<1> QED
  BY <1>1, <1>2

\* After an edge no page has two rows at the second level.
LEMMA EdgeRows ==
    ASSUME DataInv, NEW kind, NEW iReady, NEW dReady, NEW bus, NEW vaddr_i,
           Edge(kind, iReady, dReady, bus, vaddr_i)
    PROVE  OneRowPerPage'
<1>1. ASSUME Walking' \/ l2_wen' = 0 PROVE L2Hits' = {}
  <2>1. ~DFlush(kind)
    <3>1. DFlush(kind) => l2_status' = "IDLE" /\ l2_wen' = NoLevel
      BY EdgeFlush DEF L2Reset
    <3> QED
      BY <1>1, <3>1 DEF Walking, Walk, Level, NoLevel
  <2>2. kind # "sfence" /\ satp' = satp
    BY <2>1, EdgeStep
  <2>3. l2_wen = 0 => l2_status = "OUT"
    BY DEF DataInv, AnswerOfPage
  <2>4. /\ L2Hits = {} /\ l2_vaddr \in Page /\ l2_vaddr' = l2_vaddr /\ l2_wen # 0
    <3>1. CASE L2Search
      <4>1. l2_vaddr \in Page
        BY <3>1 DEF L2Search, DataInv, MmuInv, SearchOfPage
      <4> QED
        BY <1>1, <2>3, <3>1, <4>1 DEF L2Search, Walking, Walk, Level
    <3>2. ASSUME NEW level \in Level, L2Walk(level, bus = "arready", RValid(bus), bus)
          PROVE  L2Hits = {} /\ l2_vaddr \in Page /\ l2_vaddr' = l2_vaddr /\ l2_wen # 0
      <4>1. Walking /\ l2_vaddr' = l2_vaddr /\ l2_status \notin {"IDLE", "OUT"}
        BY <3>2 DEF L2Walk, Walking, Walk, Level
      <4> QED
        BY <2>3, <4>1 DEF DataInv, OneRowPerPage, MmuInv, SearchOfPage
    <3>3. CASE L2Accept(ImmuMissValid, vaddr_i, DmmuMissValid, d_vaddr)
      BY <1>1, <2>3, <3>3 DEF L2Accept, Walking, Walk, Level
    <3>4. CASE L2Answer
      BY <1>1, <3>4 DEF L2Answer, Walking, Walk, Level, NoLevel
    <3> QED
      BY <2>1, <3>1, <3>2, <3>3, <3>4, EdgeStep
  <2>5. l2_4K' = l2_4K
    BY <2>2, <2>4, EdgeArrays
  <2>6. \A l \in 1 .. 2 : ~l2_spValid'[l][SpValidRow(l, l2_vaddr)]
    BY <2>4, L2RowsType, EdgeArrays
  <2>7. \A w \in L2Way : ~Hits(l2_4K[L2Row(l2_vaddr)][w], l2_vaddr)
    BY <2>4 DEF L2Hits
  <2> QED
    BY <2>2, <2>4, <2>5, <2>6, <2>7 DEF L2Hits, Hits
<1>2. ASSUME NEW r \in Row, NEW v \in L2Way, NEW w \in L2Way,
             v # w, l2_4K'[r][v] # NoPte, l2_4K'[r][w] # NoPte
      PROVE  <<l2_4K'[r][v].asid, l2_4K'[r][v].page>> # <<l2_4K'[r][w].asid, l2_4K'[r][w].page>>
  <2>1. kind # "sfence"
    BY <1>2, EdgeArrays
  <2>2. l2_4K \in [Row -> [L2Way -> Entry \cup {NoPte}]]
    BY DEF DataInv, MmuInv, TypeOK, L2TypeOK
  <2>3. CASE l2_4K' = l2_4K
    BY <1>2, <2>3 DEF DataInv, OneRowPerPage
  <2>4. ASSUME l2_wen = 0, NEW x \in L2Way,
               l2_4K' = [l2_4K EXCEPT ![L2Row(l2_vaddr)][x] = l2_pte]
        PROVE  <<l2_4K'[r][v].asid, l2_4K'[r][v].page>>
                  # <<l2_4K'[r][w].asid, l2_4K'[r][w].page>>
    <3>1. /\ L2Hits = {} /\ l2_vaddr \in Page
          /\ l2_pte.asid = satp.asid /\ l2_pte.page = l2_vaddr
      BY <2>4 DEF DataInv, OneRowPerPage, AnswerOfPage
    <3>2. L2Row(l2_vaddr) \in Row
      BY <3>1, L2RowsType, 1 \in 1 .. 2
    <3>3. ASSUME NEW y \in L2Way, l2_4K[L2Row(l2_vaddr)][y] # NoPte
          PROVE  <<l2_4K[L2Row(l2_vaddr)][y].asid, l2_4K[L2Row(l2_vaddr)][y].page>>
                    # <<l2_pte.asid, l2_pte.page>>
      BY <3>1, <3>3 DEF L2Hits, Hits, Covers
    <3>4. \A y \in L2Way : l2_4K'[r][y] = IF r = L2Row(l2_vaddr) /\ y = x
                                          THEN l2_pte ELSE l2_4K[r][y]
      BY <2>2, <2>4, <3>2
    <3>5. CASE r = L2Row(l2_vaddr) /\ v = x
      BY <1>2, <3>3, <3>4, <3>5
    <3>6. CASE r = L2Row(l2_vaddr) /\ w = x
      BY <1>2, <3>3, <3>4, <3>6
    <3>7. CASE ~(r = L2Row(l2_vaddr) /\ (v = x \/ w = x))
      BY <1>2, <3>4, <3>7 DEF DataInv, OneRowPerPage
    <3> QED
      BY <3>5, <3>6, <3>7
  <2> QED
    BY <2>1, <2>3, <2>4, EdgeArrays
<1> QED
  BY <1>1, <1>2 DEF OneRowPerPage
-----------------------------------------------------------------------------
\* What the dmmu puts on its output for a page is live.
LEMMA DmmuFrameLive ==
    ASSUME DataInv, d_vaddr \in Page, DmmuHits # {} \/ d_status = "SEND_ADDR"
    PROVE  DmmuFrame \in {"untranslated", "fault"} \cup LiveFrames(satp.asid, d_vaddr)
<1> SUFFICES ASSUME ~DmmuBypass, ~(d_status = "SEND_ADDR" /\ d_pte.error)
             PROVE  DmmuFrame \in {"fault"} \cup LiveFrames(satp.asid, d_vaddr)
  BY DEF DmmuFrame
<1> DEFINE row == d_tlb4K[DmmuRow(d_vaddr)]
           E == DmmuHits \cup (IF d_status = "SEND_ADDR" THEN {d_pte.entry} ELSE {})
<1>1. DmmuRow(d_vaddr) \in Row
  <2>1. d_vaddr[3] \in Nat
    BY ConstantsAssumption DEF Page, ConstantsAssumption
  <2> QED
    BY <2>1, IndexInRange DEF DmmuRow, Row
<1>2. row \in Entry \cup {NoPte}
  BY <1>1 DEF DataInv, MmuInv, TypeOK, DmmuTypeOK, Row
<1>3. DmmuHits \subseteq {row} /\ \A e \in DmmuHits : Hits(row, d_vaddr)
  BY DEF DmmuHits, Hits, DataInv, NoSuperpage
<1>4. d_status = "SEND_ADDR" =>
        /\ row = d_pte.entry /\ row \in Entry
        /\ row.asid = satp.asid /\ row.page = d_vaddr
  <2>1. d_pte.entry \in Entry
    BY DEF DataInv, MmuInv, TypeOK, DmmuTypeOK
  <2>2. d_vaddr # NoAddr
    BY ConstantsAssumption DEF ConstantsAssumption
  <2> QED
    BY <2>1, <2>2 DEF DataInv, LatchOfAccess
<1>5. E = {row}
  BY <1>3, <1>4
<1>6. row # NoPte /\ row \in Entry
  BY <1>2, <1>3, <1>4, ConstantsAssumption DEF Hits, ConstantsAssumption
<1>7. EntryIn(live, row)
  BY <1>1, <1>6 DEF DataInv, EntriesLive
<1>8. row.asid = satp.asid /\ row.page = d_vaddr
  BY <1>3, <1>4, <1>6, <1>7, HitPage DEF EntryIn
<1>9. FrameOf(OrLeaf({row})) \in {"fault"} \cup LiveFrames(satp.asid, d_vaddr)
  BY <1>6, <1>7, <1>8, OneEntryFrame
<1>10. d_vaddr # NonCanonical
  BY ConstantsAssumption DEF ConstantsAssumption
<1> QED
  BY <1>5, <1>9, <1>10 DEF DmmuFrame

\* After an edge: the latched answer is that of the access, and the physical
\* address shown to the dcache is live.
LEMMA EdgeLatch ==
    ASSUME DataInv, NEW kind, NEW iReady, NEW dReady, NEW bus, NEW vaddr_i,
           Edge(kind, iReady, dReady, bus, vaddr_i)
    PROVE  LatchOfAccess' /\ DataFrameLive'
<1>1. CASE DFlush(kind)
  <2>1. d_status' = "IDLE" /\ d_vaddr' = NoAddr /\ d_paddr' = NoAddr
    BY <1>1, EdgeFlush
  <2> QED
    BY <2>1 DEF LatchOfAccess, DataFrameLive, FrameLive
<1>2. CASE ~DFlush(kind)
  <2>1. /\ kind # "sfence" /\ satp' = satp /\ live' = live
    BY <1>2, EdgeStep
  <2>2. /\ DmmuFsm(FALSE, DmmuMissReady(ImmuMissValid), PteOut, dReady)
        /\ DmmuFill(kind = "sfence", PteOut, l2_pte, l2_error)
        /\ DmmuOutput(FALSE, dReady)
    BY <1>2 DEF Edge, Cycle, DmmuClock, DmmuFsm, DmmuOutput
  <2>3. d_vaddr = NoAddr \/ d_paddr = NoAddr
    BY DEF DataInv, LatchOfAccess
  <2>4. d_vaddr' = NoAddr \/ d_paddr' = NoAddr
    BY <2>2, <2>3 DEF DmmuOutput
  <2>5. ASSUME d_status' = "SEND_ADDR", d_vaddr' # NoAddr
        PROVE  /\ d_vaddr' \in Page
               /\ d_tlb4K'[DmmuRow(d_vaddr')] = d_pte'.entry
               /\ ~d_pte'.error => d_pte'.entry.asid = satp'.asid /\ d_pte'.entry.page = d_vaddr'
    <3>1. d_vaddr' = d_vaddr /\ ~DmmuFifoReady(dReady)
      BY <2>2, <2>5 DEF DmmuOutput
    <3>2. d_status # "SEND_ADDR"
      BY <2>3, <2>5, <3>1 DEF DmmuFifoReady
    <3>3. d_status = "WAIT_RESP" /\ l2_status = "OUT"
      BY <2>2, <2>5, <3>2 DEF DmmuFsm, PteOut
    <3>4. d_vaddr \in Page /\ l2_vaddr = d_vaddr
      BY <3>3 DEF DataInv, MmuInv, MissStands, WaiterIsServed
    <3>5. d_pte' = [entry |-> l2_pte, error |-> l2_error]
      BY <2>2, <3>3 DEF DmmuFill, PteOut
    <3>6. d_tlb4K'[DmmuRow(d_vaddr)] = l2_pte
      <4>1. DmmuRow(d_vaddr) \in Row
        <5>1. d_vaddr[3] \in Nat
          BY <3>4, ConstantsAssumption DEF Page, ConstantsAssumption
        <5> QED
          BY <5>1, IndexInRange DEF DmmuRow, Row
      <4>2. d_tlb4K' = [d_tlb4K EXCEPT ![DmmuRow(d_vaddr)] = l2_pte]
        BY <2>1, <3>3, EdgeArrays
      <4> QED
        BY <4>1, <4>2 DEF DataInv, MmuInv, TypeOK, DmmuTypeOK, Row
    <3>7. ~l2_error => l2_pte.asid = satp.asid /\ l2_pte.page = l2_vaddr
      BY <3>3 DEF DataInv, AnswerOfPage
    <3> QED
      BY <2>1, <3>1, <3>4, <3>5, <3>6, <3>7
  <2>6. LatchOfAccess'
    BY <2>4, <2>5 DEF LatchOfAccess, DmmuRow
  <2>7. ASSUME DmmuFifoReady(dReady) PROVE DataFrameLive'
    <3>1. d_paddr' = [page |-> d_vaddr, frame |-> DmmuFrame]
      BY <2>2, <2>7 DEF DmmuOutput
    <3>0. d_paddr'.page = d_vaddr /\ d_paddr'.frame = DmmuFrame
      BY <3>1
    <3>2. CASE DmmuBypass \/ d_vaddr \notin Page
      <4>1. d_vaddr = NonCanonical \/ DmmuBypass
        BY <2>7, <3>2 DEF DmmuFifoReady, DataInv, MmuInv, TypeOK, DmmuTypeOK
      <4>2. DmmuFrame \in {"untranslated", "fault"}
        BY <4>1 DEF DmmuFrame
      <4> QED
        BY <3>0, <4>2 DEF DataFrameLive, FrameLive
    <3>3. CASE ~DmmuBypass /\ d_vaddr \in Page
      <4>1. DmmuHits # {} \/ d_status = "SEND_ADDR"
        BY <2>7, <3>3, ConstantsAssumption DEF DmmuFifoReady, ConstantsAssumption
      <4>2. DmmuFrame \in {"untranslated", "fault"} \cup LiveFrames(satp.asid, d_vaddr)
        BY <3>3, <4>1, DmmuFrameLive
      <4> QED
        BY <2>1, <3>0, <3>3, <4>2 DEF DataFrameLive, FrameLive, LiveFrames
    <3> QED
      BY <3>2, <3>3
  <2>8. ASSUME ~DmmuFifoReady(dReady) PROVE DataFrameLive'
    <3>1. d_paddr' = NoAddr \/ d_paddr' = d_paddr
      BY <2>2, <2>8 DEF DmmuOutput
    <3>2. DataFrameLive
      BY DEF DataInv
    <3> QED
      BY <2>1, <3>1, <3>2 DEF DataFrameLive, FrameLive, LiveFrames
  <2> QED
    BY <2>6, <2>7, <2>8
<1> QED
  BY <1>1, <1>2

LEMMA TickData == DataInv /\ Tick => DataInv'
<1> SUFFICES ASSUME DataInv, Tick PROVE DataInv'
  OBVIOUS
<1>1. PICK kind, iReady, dReady, bus, vaddr_i : Edge(kind, iReady, dReady, bus, vaddr_i)
  BY DEF Tick, Edge
<1>2. MmuInv'
  BY TickInv DEF DataInv
<1>3. EntriesLive'
  BY <1>1, EdgeEntries
<1>4. NoSuperpage'
  BY <1>1, EdgeNoSuperpage
<1>5. WalkLive'
  BY <1>1, EdgeWalk
<1>6. AnswerOfPage'
  BY <1>1, EdgeAnswer
<1>7. OneRowPerPage'
  BY <1>1, EdgeRows
<1>8. LatchOfAccess' /\ DataFrameLive'
  BY <1>1, EdgeLatch
<1> QED
  BY <1>2, <1>3, <1>4, <1>5, <1>6, <1>7, <1>8 DEF DataInv
-----------------------------------------------------------------------------
(* The actions between two edges.                                          *)

LEMMA InitData == ASSUME SmallPages, NoStrayLeaf PROVE Init => DataInv
<1> SUFFICES ASSUME Init PROVE DataInv
  OBVIOUS
<1> USE DEF Init, ImmuInit, DmmuInit, L2Init
<1>1. MmuInv
  BY InitMmuInv
<1>2. NoSuperpage
  <2>1. ASSUME NEW a \in Asid, NEW p \in Page, NEW l \in 1 .. 2
        PROVE  live[a][Slot(l, p)] \cap Leaf = {}
    <3>1. Slot(l, p) \in PteSlot
      BY SlotType DEF Level
    <3>2. live[a][Slot(l, p)] = {InitTable[a][Slot(l, p)]}
      BY <3>1
    <3> QED
      BY <3>2 DEF SmallPages
  <2> QED
    BY <2>1 DEF NoSuperpage
<1>3. EntriesLive
  <2>1. EntryIn(live, ZeroEntry)
    BY ZeroEntryIn
  <2>2. /\ l2_pte = ZeroEntry
        /\ \A r \in Row, w \in L2Way : l2_4K[r][w] = NoPte
        /\ \A r \in Row : d_tlb4K[r] = NoPte
    BY DEF Row
  <2> QED
    BY <2>1, <2>2 DEF EntriesLive
<1>4. WalkLive
  BY DEF WalkLive, Walk, Level
<1>5. OneRowPerPage
  BY DEF OneRowPerPage, Walking, Walk, Level, NoLevel
<1>6. AnswerOfPage /\ LatchOfAccess /\ DataFrameLive
  BY DEF AnswerOfPage, LatchOfAccess, DataFrameLive, FrameLive, NoLevel
<1> QED
  BY <1>1, <1>2, <1>3, <1>4, <1>5, <1>6 DEF DataInv

\* An action that leaves the data side, the second level, the tables and satp
\* alone keeps all of DataInv but its MmuInv.
LEMMA Untouched ==
    ASSUME DataInv, MmuInv', UNCHANGED <<satp, dmmuVars, l2Vars, table, live, pteRead, late>>
    PROVE  DataInv'
<1> USE DEF dmmuVars, l2Vars
<1>1. L2Hits' = L2Hits
  BY DEF L2Hits, Hits
<1>2. NoSuperpage' /\ EntriesLive' /\ WalkLive'
  BY DEF DataInv, NoSuperpage, EntriesLive, WalkLive
<1>3. OneRowPerPage'
  BY <1>1 DEF DataInv, OneRowPerPage, Walking
<1>4. AnswerOfPage' /\ LatchOfAccess'
  BY DEF DataInv, AnswerOfPage, LatchOfAccess, DmmuRow
<1>5. DataFrameLive'
  BY DEF DataInv, DataFrameLive, FrameLive, LiveFrames
<1> QED
  BY <1>2, <1>3, <1>4, <1>5 DEF DataInv

LEMMA AccessData == DataInv /\ Access => DataInv'
<1> SUFFICES ASSUME DataInv, Access PROVE DataInv'
  OBVIOUS
<1> USE DEF Access, DataAddr, csrVars, immuVars, l2Vars, envVars
<1>0. MmuInv'
  BY AccessInv DEF DataInv
<1>1. L2Hits' = L2Hits
  BY DEF L2Hits, Hits
<1>2. NoSuperpage' /\ EntriesLive' /\ WalkLive'
  BY DEF DataInv, NoSuperpage, EntriesLive, WalkLive
<1>3. OneRowPerPage'
  BY <1>1 DEF DataInv, OneRowPerPage, Walking
<1>4. AnswerOfPage' /\ LatchOfAccess'
  BY DEF DataInv, AnswerOfPage, LatchOfAccess
<1>5. DataFrameLive'
  BY DEF DataInv, DataFrameLive, FrameLive, LiveFrames
<1> QED
  BY <1>0, <1>2, <1>3, <1>4, <1>5 DEF DataInv

\* A store to a page table only adds to what is live.
LEMMA StorePteData == ASSUME SmallPages PROVE DataInv /\ StorePte => DataInv'
<1> SUFFICES ASSUME DataInv, StorePte PROVE DataInv'
  OBVIOUS
<1>0. MmuInv'
  BY StorePteInv DEF DataInv
<1>1. PICK u \in Patch :
        /\ table' = [table EXCEPT ![u[1]][u[2]] = u[3]]
        /\ live' = [live EXCEPT ![u[1]][u[2]] = @ \cup {u[3]}]
        /\ pteRead' = IF pteRead # {} /\ u[1] = l2_root /\ u[2] = WalkSlot
                      THEN pteRead \cup {u[3]} ELSE pteRead
        /\ UNCHANGED <<csrVars, immuVars, dmmuVars, l2Vars, late, ahead>>
  BY DEF StorePte
<1>2. u[1] \in Asid /\ u[2] \in PteSlot /\ u[3] \in PteValue
  BY MmuAssumption DEF MmuAssumption
<1>3. live \in Slots /\ live' \in Slots
  BY <1>0 DEF DataInv, MmuInv, TypeOK, Slots
<1>4. ASSUME NEW a \in Asid, NEW s \in PteSlot
      PROVE  /\ live'[a][s] = IF a = u[1] /\ s = u[2] THEN live[a][s] \cup {u[3]}
                              ELSE live[a][s]
             /\ table'[a][s] = IF a = u[1] /\ s = u[2] THEN u[3] ELSE table[a][s]
  <2>1. table \in [Asid -> [PteSlot -> PteValue]]
    BY DEF DataInv, MmuInv, TypeOK
  <2> QED
    BY <1>1, <1>2, <1>3, <2>1 DEF Slots
<1>5. \A a \in Asid, s \in PteSlot : live[a][s] \subseteq live'[a][s]
  BY <1>4
<1> USE DEF csrVars, dmmuVars, l2Vars
<1>6. NoSuperpage'
  <2>1. ASSUME NEW a \in Asid, NEW p \in Page, NEW l \in 1 .. 2
        PROVE  live'[a][Slot(l, p)] \cap Leaf = {}
    <3>1. Slot(l, p) \in PteSlot
      BY SlotType DEF Level
    <3>2. live[a][Slot(l, p)] \cap Leaf = {}
      BY DEF DataInv, NoSuperpage
    <3>3. Slot(l, p) = u[2] => u[3] \notin Leaf
      BY DEF SmallPages
    <3>4. \/ live'[a][Slot(l, p)] = live[a][Slot(l, p)]
          \/ Slot(l, p) = u[2] /\ live'[a][Slot(l, p)] = live[a][Slot(l, p)] \cup {u[3]}
      BY <1>4, <3>1
    <3> QED
      BY <3>2, <3>3, <3>4
  <2> QED
    BY <1>1, <2>1 DEF DataInv, NoSuperpage
<1>7. EntriesLive'
  <2>1. \A e : EntryIn(live, e) => EntryIn(live', e)
    BY <1>3, <1>5, EntryInGrows
  <2> QED
    BY <1>1, <2>1 DEF DataInv, EntriesLive
<1>8. WalkLive'
  <2>1. ASSUME NEW a \in Asid, NEW s \in PteSlot PROVE table'[a][s] \in live'[a][s]
    <3>1. table[a][s] \in live[a][s]
      BY DEF DataInv, WalkLive
    <3> QED
      BY <1>4, <3>1
  <2>2. ASSUME NEW l \in Level, late' # "astray", l2_status' = Walk[l]
        PROVE  /\ l2_root' = satp'.asid
               /\ \A k \in Level : k > l =>
                     "pointer" \in live'[satp'.asid][Slot(k, l2_vaddr')]
               /\ pteRead' \subseteq live'[satp'.asid][Slot(l, l2_vaddr')]
    <3>1. /\ late # "astray" /\ l2_status = Walk[l]
          /\ l2_vaddr' = l2_vaddr /\ satp' = satp /\ l2_root' = l2_root
      BY <1>1, <2>2
    <3>2. satp.asid \in Asid /\ l2_vaddr \in Page
      BY <3>1 DEF DataInv, MmuInv, TypeOK, CsrTypeOK, SearchOfPage, Walk, Level
    <3>3. /\ l2_root = satp.asid
          /\ \A k \in Level : k > l => "pointer" \in live[satp.asid][Slot(k, l2_vaddr)]
          /\ pteRead \subseteq live[satp.asid][Slot(l, l2_vaddr)]
      BY <3>1 DEF DataInv, WalkLive
    <3>4. WalkSlot = Slot(l, l2_vaddr)
      BY <3>1 DEF WalkSlot, WalkLevel, Walk, Level
    <3>5. \A k \in Level : Slot(k, l2_vaddr) \in PteSlot
      BY <3>2, SlotType
    <3>6. \A k \in Level : k > l => "pointer" \in live'[satp.asid][Slot(k, l2_vaddr)]
      BY <1>5, <3>2, <3>3, <3>5
    <3>7. pteRead' \subseteq live'[satp.asid][Slot(l, l2_vaddr)]
      BY <1>1, <1>4, <3>2, <3>3, <3>4, <3>5
    <3> QED
      BY <3>1, <3>3, <3>6, <3>7
  <2>3. NoStrayLeaf'
    BY DEF DataInv, WalkLive, NoStrayLeaf
  <2> QED
    BY <2>1, <2>2, <2>3 DEF WalkLive
<1>9. L2Hits' = L2Hits
  BY <1>1 DEF L2Hits, Hits
<1>10. OneRowPerPage'
  BY <1>1, <1>9 DEF DataInv, OneRowPerPage, Walking
<1>11. AnswerOfPage' /\ LatchOfAccess'
  BY <1>1 DEF DataInv, AnswerOfPage, LatchOfAccess, DmmuRow
<1>12. DataFrameLive'
  <2>1. CASE d_paddr = NoAddr \/ d_paddr.frame \in {"fault", "untranslated"}
    BY <1>1, <2>1 DEF DataFrameLive, FrameLive
  <2>2. CASE d_paddr.page \in Page /\ d_paddr.frame \in FramesIn(live, satp.asid, d_paddr.page)
    <3>1. satp.asid \in Asid
      BY DEF DataInv, MmuInv, TypeOK, CsrTypeOK
    <3> DEFINE e == [asid |-> satp.asid, page |-> d_paddr.page, size |-> 0,
                     leaf |-> d_paddr.frame]
    <3>2. EntryIn(live, e)
      BY <2>2, <3>1 DEF EntryIn
    <3>3. EntryIn(live', e)
      BY <1>3, <1>5, <3>2, EntryInGrows
    <3>4. e.leaf # "zero"
      BY <2>2, ConstantsAssumption DEF FramesIn, ConstantsAssumption
    <3>5. d_paddr.frame \in FramesIn(live', satp.asid, d_paddr.page)
      BY <3>3, <3>4 DEF EntryIn
    <3> QED
      BY <1>1, <2>2, <3>5 DEF DataFrameLive, FrameLive, LiveFrames
  <2> QED
    BY <2>1, <2>2 DEF DataInv, DataFrameLive, FrameLive, LiveFrames
<1> QED
  BY <1>0, <1>6, <1>7, <1>8, <1>10, <1>11, <1>12 DEF DataInv
-----------------------------------------------------------------------------
(* The theorem.                                                            *)

\* With 4K pages, no unflushed write of satp.MODE = 0 and no leaf read by a
\* walker that a late error led astray, every physical address the dmmu hands to
\* the dcache is one a page table walk since the last SFENCE.VMA could have
\* produced.
THEOREM DataFramesLive ==
    ASSUME SmallPages, ~BareSwitch, NoStrayLeaf
    PROVE  Spec => []DataFrameLive
<1>1. Init => DataInv
  BY InitData
<1>2. DataInv /\ [Next]_vars => DataInv'
  <2> SUFFICES ASSUME DataInv, [Next]_vars PROVE DataInv'
    OBVIOUS
  <2>1. CASE Tick
    BY <2>1, TickData
  <2>2. CASE Fetch
    <3>1. MmuInv'
      BY <2>2, FetchInv DEF DataInv
    <3> QED
      BY <2>2, <3>1, Untouched DEF Fetch, csrVars
  <2>3. CASE Access
    BY <2>3, AccessData
  <2>4. CASE StorePte
    BY <2>4, StorePteData
  <2>5. CASE WriteSatpBare
    BY <2>5 DEF WriteSatpBare
  <2>6. CASE UNCHANGED vars
    <3>1. MmuInv'
      BY <2>6, MmuInvStutters DEF DataInv
    <3> QED
      BY <2>6, <3>1, Untouched DEF vars, csrVars, envVars
  <2> QED
    BY <2>1, <2>2, <2>3, <2>4, <2>5, <2>6 DEF Next
<1>3. DataInv => DataFrameLive
  BY DEF DataInv
<1> QED
  BY <1>1, <1>2, <1>3, PTL DEF Spec
-----------------------------------------------------------------------------
(* The fetch side.                                                         *)

\* Rows of one page that agree, OR-ed, give a fault or a frame that is live.
LEMMA AgreeingFrame ==
    ASSUME NEW p \in Page, NEW E,
           \A e \in E : EntryIn(live, e) /\ (e.leaf # "zero" => e.asid = satp.asid /\ e.page = p),
           \A e, f \in E : e.leaf = f.leaf \/ "zero" \in {e.leaf, f.leaf}
    PROVE  FrameOf(OrLeaf(E)) \in {"fault"} \cup LiveFrames(satp.asid, p)
<1> DEFINE leaves == {x.leaf : x \in E} \ {"zero"}
<1>1. CASE leaves = {}
  BY <1>1 DEF OrLeaf, FrameOf
<1>2. CASE leaves # {}
  <2>1. PICK e \in E : e.leaf # "zero"
    BY <1>2
  <2>2. leaves = {e.leaf}
    BY <2>1
  <2>3. Cardinality(leaves) = 1 /\ (CHOOSE l \in leaves : TRUE) = e.leaf
    BY <2>2, FS_Singleton
  <2>4. OrLeaf(E) = e.leaf
    BY <1>2, <2>3 DEF OrLeaf
  <2>5. e.leaf \in LiveFrames(satp.asid, p)
    BY <2>1 DEF EntryIn, LiveFrames
  <2> QED
    BY <2>1, <2>4, <2>5 DEF FrameOf
<1> QED
  BY <1>1, <1>2

\* A valid row answers for the page it holds and for no other.
LEMMA RowHits ==
    ASSUME FetchSideInv, i_vaddr \in Page
    PROVE  /\ ImmuHits \subseteq IRow
           /\ \A e \in ImmuHits : e.asid = satp.asid /\ e.page = i_vaddr
           /\ \A e \in IRow : e.asid = satp.asid /\ e.page = i_vaddr => e \in ImmuHits
<1>1. i_tlb \in [IWay4K \cup IWaySp -> Entry \cup {NoPte}]
  BY DEF FetchSideInv, DataInv, MmuInv, TypeOK, ImmuTypeOK
<1>2. ImmuHits = {e \in IRow : Hits(e, i_vaddr)}
  BY <1>1 DEF ImmuHits, IRow, Hits
<1>3. IRow \subseteq Entry
  BY <1>1 DEF IRow
<1>4. ASSUME NEW e \in ImmuHits PROVE e.asid = satp.asid /\ e.page = i_vaddr
  <2>1. e \in Entry /\ EntryIn(live, e) /\ Hits(e, i_vaddr)
    BY <1>2, <1>3 DEF FetchSideInv, FetchRows
  <2> QED
    BY <2>1, HitPage DEF EntryIn
<1>5. ASSUME NEW e \in IRow, e.asid = satp.asid, e.page = i_vaddr PROVE e \in ImmuHits
  BY <1>2, <1>5 DEF IRow, Hits, Covers
<1> QED
  BY <1>2, <1>4, <1>5

\* What an edge does to the instruction side when it flushes it,
LEMMA FetchFlushed ==
    ASSUME NEW kind, NEW iReady, NEW dReady, NEW bus, NEW vaddr_i,
           Edge(kind, iReady, dReady, bus, vaddr_i), IFlush(kind)
    PROVE  i_status' = "IDLE" /\ i_vaddr' = NoAddr /\ i_paddr' = NoAddr
BY DEF Edge, Cycle, ImmuClock, ImmuFsm, ImmuOutput

\* and when it does not.
LEMMA FetchMoves ==
    ASSUME NEW kind, NEW iReady, NEW dReady, NEW bus, NEW vaddr_i,
           Edge(kind, iReady, dReady, bus, vaddr_i), ~IFlush(kind)
    PROVE  /\ kind = "none" /\ ~DFlush(kind) /\ iReady \in BOOLEAN
           /\ satp' = satp /\ i_priv' = i_priv /\ live' = live
           /\ ImmuFsm(FALSE, ImmuMissReady, PteOut, iReady)
           /\ ImmuFill(FALSE, PteOut, l2_pte, l2_error)
           /\ ImmuOutput(FALSE, iReady)
<1>1. kind = "none"
  BY DEF IFlush
<1>2. ~IFlush(kind) /\ ~DFlush(kind) /\ ~(kind = "sfence")
  BY <1>1 DEF IFlush, DFlush
<1>3. ImmuClock(IFlush(kind), kind = "sfence", ImmuMissReady, PteOut, l2_pte, l2_error, iReady)
  BY DEF Edge, Cycle
<1>4. satp' = satp /\ i_priv' = i_priv /\ live' = live
  BY <1>1 DEF Edge, Cycle, CsrUpdate
<1>5. ImmuFsm(FALSE, ImmuMissReady, PteOut, iReady)
  BY <1>2, <1>3 DEF ImmuClock, ImmuFsm
<1>6. ImmuFill(FALSE, PteOut, l2_pte, l2_error)
  BY <1>2, <1>3 DEF ImmuClock, ImmuFill
<1>7. ImmuOutput(FALSE, iReady)
  BY <1>2, <1>3 DEF ImmuClock, ImmuOutput
<1>8. iReady \in BOOLEAN
  BY DEF Edge, IReady
<1> QED
  BY <1>1, <1>2, <1>4, <1>5, <1>6, <1>7, <1>8

\* The rows after an edge: none after SFENCE.VMA, else those there were and,
\* when the unit takes an answer, the entry of that answer.
LEMMA RowsAfter ==
    ASSUME FetchSideInv, NEW kind, NEW iReady, NEW dReady, NEW bus, NEW vaddr_i,
           Edge(kind, iReady, dReady, bus, vaddr_i)
    PROVE  /\ kind = "sfence" => IRow' = {}
           /\ IRow' \subseteq IRow \cup {l2_pte}
           /\ ~(i_status = "WAIT_RESP" /\ l2_status = "OUT") => IRow' \subseteq IRow
           /\ kind # "sfence" /\ i_status = "WAIT_RESP" /\ l2_status = "OUT" => l2_pte \in IRow'
           /\ kind # "sfence" /\ ~(i_status = "WAIT_RESP" /\ l2_status = "OUT") => IRow' = IRow
<1>1. i_tlb \in [IWay4K \cup IWaySp -> Entry \cup {NoPte}] /\ l2_pte \in Entry
  BY DEF FetchSideInv, DataInv, MmuInv, TypeOK, ImmuTypeOK, L2TypeOK
<1>2. ImmuFill(kind = "sfence", PteOut, l2_pte, l2_error)
  BY DEF Edge, Cycle, ImmuClock
<1>3. l2_pte # NoPte
  BY <1>1, ConstantsAssumption DEF ConstantsAssumption
<1>4. CASE kind = "sfence"
  <2>1. i_tlb' = [w \in IWay4K \cup IWaySp |-> NoPte]
    BY <1>1, <1>2, <1>4 DEF ImmuFill
  <2>2. IRow' = {}
    BY <2>1 DEF IRow
  <2> QED
    BY <1>4, <2>2
<1>5. CASE kind # "sfence" /\ i_status = "WAIT_RESP" /\ l2_status = "OUT"
  <2>1. PICK w \in IWay4K \cup IWaySp : i_tlb' = [i_tlb EXCEPT ![w] = l2_pte]
    BY <1>2, <1>5 DEF ImmuFill, PteOut
  <2>2. i_tlb'[w] = l2_pte
    BY <1>1, <2>1
  <2>3. \A v \in IWay4K \cup IWaySp : i_tlb'[v] = l2_pte \/ i_tlb'[v] = i_tlb[v]
    BY <1>1, <2>1
  <2> QED
    BY <1>3, <1>5, <2>2, <2>3 DEF IRow
<1>6. CASE kind # "sfence" /\ ~(i_status = "WAIT_RESP" /\ l2_status = "OUT")
  <2>1. i_tlb' = i_tlb
    BY <1>2, <1>6 DEF ImmuFill, PteOut
  <2> QED
    BY <1>6, <2>1 DEF IRow
<1> QED
  BY <1>4, <1>5, <1>6

\* The answer the unit takes differs from no row: for its page there is none,
\* and an error is undisturbed.
LEMMA TakenAgrees ==
    ASSUME FetchSideInv, FetchUndisturbed, i_status = "WAIT_RESP", l2_status = "OUT"
    PROVE  \A e \in IRow : RowsAgree(e, l2_pte)
<1>1. CASE l2_error
  BY <1>1 DEF FetchUndisturbed
<1>2. CASE ~l2_error
  <2>1. i_vaddr \in Page /\ ImmuHits = {} /\ l2_vaddr = i_vaddr
    BY DEF FetchSideInv, LatchOfFetch, DataInv, MmuInv, MissStands, WaiterIsServed
  <2>2. l2_pte.asid = satp.asid /\ l2_pte.page = i_vaddr
    BY <1>2, <2>1 DEF FetchSideInv, DataInv, AnswerOfPage
  <2>3. \A e \in IRow : ~(e.asid = l2_pte.asid /\ e.page = l2_pte.page)
    BY <2>1, <2>2, RowHits
  <2> QED
    BY <2>3 DEF RowsAgree
<1> QED
  BY <1>1, <1>2

LEMMA EdgeFetchRows ==
    ASSUME FetchSideInv, FetchUndisturbed,
           NEW kind, NEW iReady, NEW dReady, NEW bus, NEW vaddr_i,
           Edge(kind, iReady, dReady, bus, vaddr_i)
    PROVE  FetchRows'
<1>1. CASE kind = "sfence"
  <2>1. IRow' = {}
    BY <1>1, RowsAfter
  <2> QED
    BY <2>1 DEF FetchRows
<1>2. CASE kind # "sfence"
  <2>1. live' = live
    BY <1>2 DEF Edge, Cycle
  <2>2. ASSUME NEW e \in IRow' PROVE EntryIn(live', e)
    <3>1. EntryIn(live, l2_pte)
      BY DEF FetchSideInv, DataInv, EntriesLive
    <3> QED
      BY <2>1, <2>2, <3>1, RowsAfter DEF FetchSideInv, FetchRows
  <2>3. ASSUME NEW e \in IRow', NEW f \in IRow' PROVE RowsAgree(e, f)
    <3>1. CASE e \in IRow /\ f \in IRow
      BY <3>1 DEF FetchSideInv, FetchRows
    <3>2. CASE ~(e \in IRow /\ f \in IRow)
      <4>1. i_status = "WAIT_RESP" /\ l2_status = "OUT"
        BY <2>3, <3>2, RowsAfter
      <4>2. e \in IRow \cup {l2_pte} /\ f \in IRow \cup {l2_pte}
        BY <2>3, RowsAfter
      <4>3. \A g \in IRow : RowsAgree(g, l2_pte)
        BY <4>1, TakenAgrees
      <4>4. (e = l2_pte /\ f = l2_pte) \/ (e = l2_pte /\ f \in IRow) \/ (f = l2_pte /\ e \in IRow)
        BY <3>2, <4>2
      <4> QED
        BY <4>3, <4>4 DEF RowsAgree
    <3> QED
      BY <3>1, <3>2
  <2> QED
    BY <2>2, <2>3 DEF FetchRows, RowsAgree
<1> QED
  BY <1>1, <1>2

\* After an edge the unit that works holds a page it translates, and a latched
\* answer is that of the page and has its row.
LEMMA EdgeFetchLatch ==
    ASSUME FetchSideInv, FetchUndisturbed,
           NEW kind, NEW iReady, NEW dReady, NEW bus, NEW vaddr_i,
           Edge(kind, iReady, dReady, bus, vaddr_i)
    PROVE  LatchOfFetch'
<1>1. CASE IFlush(kind)
  <2>1. i_status' = "IDLE"
    BY <1>1, FetchFlushed
  <2> QED
    BY <2>1 DEF LatchOfFetch
<1>2. CASE ~IFlush(kind)
  <2>1. /\ kind = "none" /\ satp' = satp /\ i_priv' = i_priv
        /\ ImmuFsm(FALSE, ImmuMissReady, PteOut, iReady)
        /\ ImmuFill(FALSE, PteOut, l2_pte, l2_error)
        /\ ImmuOutput(FALSE, iReady)
    BY <1>2, FetchMoves
  <2>2. ImmuBypass' = ImmuBypass
    BY <2>1 DEF ImmuBypass
  <2>3. ASSUME i_status' # "IDLE"
        PROVE  ~ImmuBypass /\ i_vaddr \in Page /\ ~ImmuFifoReady(iReady)
    <3>1. CASE i_status = "IDLE"
      <4>1. ~ImmuBypass /\ i_vaddr \in Page /\ ImmuHits = {}
        BY <2>1, <2>3, <3>1 DEF ImmuFsm
      <4> QED
        BY <3>1, <4>1, ConstantsAssumption DEF ImmuFifoReady, ConstantsAssumption
    <3>2. CASE i_status \in {"SUBMIT_REQ", "WAIT_RESP"}
      <4>1. ~ImmuBypass /\ i_vaddr \in Page /\ ImmuHits = {}
        BY <3>2 DEF FetchSideInv, LatchOfFetch, DataInv, MmuInv, MissStands
      <4> QED
        BY <3>2, <4>1, ConstantsAssumption DEF ImmuFifoReady, ConstantsAssumption
    <3>3. CASE i_status = "SEND_ADDR"
      BY <2>1, <2>3, <3>3 DEF ImmuFsm, ImmuFifoReady, FetchSideInv, LatchOfFetch
    <3> QED
      BY <3>1, <3>2, <3>3 DEF FetchSideInv, DataInv, MmuInv, TypeOK, ImmuTypeOK
  <2>4. i_status' # "IDLE" => i_vaddr' = i_vaddr
    BY <2>1, <2>3 DEF ImmuOutput
  <2>5. ASSUME i_status' = "SEND_ADDR"
        PROVE  /\ i_pte'.entry \in IRow'
               /\ ~i_pte'.error => i_pte'.entry.asid = satp.asid /\ i_pte'.entry.page = i_vaddr
    <3>1. CASE i_status = "SEND_ADDR"
      <4>1. i_pte' = i_pte /\ IRow' = IRow
        BY <2>1, <3>1, RowsAfter DEF FetchUndisturbed, PteOut, ImmuFill
      <4> QED
        BY <3>1, <4>1 DEF FetchSideInv, LatchOfFetch
    <3>2. CASE i_status # "SEND_ADDR"
      <4>1. i_status = "WAIT_RESP" /\ l2_status = "OUT"
        BY <2>1, <2>5, <3>2 DEF ImmuFsm, PteOut
      <4>2. i_pte' = [entry |-> l2_pte, error |-> l2_error]
        BY <2>1, <4>1 DEF ImmuFill, PteOut
      <4>3. l2_vaddr = i_vaddr
        BY <4>1 DEF FetchSideInv, LatchOfFetch, DataInv, MmuInv, WaiterIsServed
      <4>4. ~l2_error => l2_pte.asid = satp.asid /\ l2_pte.page = l2_vaddr
        BY <4>1 DEF FetchSideInv, DataInv, AnswerOfPage
      <4>5. l2_pte \in IRow'
        BY <2>1, <4>1, RowsAfter
      <4> QED
        BY <4>2, <4>3, <4>4, <4>5
    <3> QED
      BY <3>1, <3>2
  <2> QED
    BY <2>1, <2>2, <2>3, <2>4, <2>5 DEF LatchOfFetch
<1> QED
  BY <1>1, <1>2

\* What the immu puts on its output for a page is live.
LEMMA ImmuFrameLive ==
    ASSUME FetchSideInv, i_vaddr \in Page
    PROVE  ImmuFrame \in {"untranslated", "fault"} \cup LiveFrames(satp.asid, i_vaddr)
<1> SUFFICES ASSUME ~ImmuBypass, ~(i_status = "SEND_ADDR" /\ i_pte.error)
             PROVE  ImmuFrame \in {"fault"} \cup LiveFrames(satp.asid, i_vaddr)
  BY DEF ImmuFrame
<1> DEFINE E == ImmuHits \cup (IF i_status = "SEND_ADDR" THEN {i_pte.entry} ELSE {})
<1>1. E \subseteq IRow /\ \A e \in E : e.asid = satp.asid /\ e.page = i_vaddr
  BY RowHits DEF FetchSideInv, LatchOfFetch
<1>2. \A e \in E : EntryIn(live, e)
  BY <1>1 DEF FetchSideInv, FetchRows
<1>3. \A e, f \in E : e.leaf = f.leaf \/ "zero" \in {e.leaf, f.leaf}
  BY <1>1 DEF FetchSideInv, FetchRows, RowsAgree
<1>4. FrameOf(OrLeaf(E)) \in {"fault"} \cup LiveFrames(satp.asid, i_vaddr)
  <2> HIDE DEF E
  <2> QED
    BY <1>1, <1>2, <1>3, AgreeingFrame
<1>5. i_vaddr # NonCanonical
  BY ConstantsAssumption DEF ConstantsAssumption
<1> QED
  BY <1>4, <1>5 DEF ImmuFrame

LEMMA EdgeFetchFrame ==
    ASSUME FetchSideInv, NEW kind, NEW iReady, NEW dReady, NEW bus, NEW vaddr_i,
           Edge(kind, iReady, dReady, bus, vaddr_i)
    PROVE  FetchFrameLive'
<1>1. CASE IFlush(kind)
  BY <1>1, FetchFlushed DEF FetchFrameLive, FrameLive
<1>2. CASE ~IFlush(kind)
  <2>1. satp' = satp /\ live' = live /\ ImmuOutput(FALSE, iReady)
    BY <1>2, FetchMoves
  <2>2. CASE ImmuFifoReady(iReady)
    <3>1. i_paddr'.page = i_vaddr /\ i_paddr'.frame = ImmuFrame
      BY <2>1, <2>2 DEF ImmuOutput
    <3>2. CASE i_vaddr \in Page
      <4>1. ImmuFrame \in {"untranslated", "fault"} \cup LiveFrames(satp.asid, i_vaddr)
        BY <3>2, ImmuFrameLive
      <4> QED
        BY <2>1, <3>1, <3>2, <4>1 DEF FetchFrameLive, FrameLive, LiveFrames
    <3>3. CASE i_vaddr \notin Page
      <4>1. i_vaddr = NonCanonical
        BY <2>2, <3>3 DEF ImmuFifoReady, FetchSideInv, DataInv, MmuInv, TypeOK, ImmuTypeOK
      <4>2. ImmuFrame \in {"untranslated", "fault"}
        BY <4>1 DEF ImmuFrame
      <4> QED
        BY <3>1, <4>2 DEF FetchFrameLive, FrameLive
    <3> QED
      BY <3>2, <3>3
  <2>3. CASE ~ImmuFifoReady(iReady)
    <3>1. i_paddr' = NoAddr \/ i_paddr' = i_paddr
      BY <2>1, <2>3 DEF ImmuOutput
    <3>2. FetchFrameLive
      BY DEF FetchSideInv
    <3> QED
      BY <2>1, <3>1, <3>2 DEF FetchFrameLive, FrameLive, LiveFrames
  <2> QED
    BY <2>2, <2>3
<1> QED
  BY <1>1, <1>2

\* A fetch address, an access of the data side and a store to the tables.
LEMMA FetchFetchSide == FetchSideInv /\ Fetch => FetchSideInv'
<1> SUFFICES ASSUME FetchSideInv, Fetch PROVE FetchSideInv'
  OBVIOUS
<1> USE DEF Fetch, FetchAddr, csrVars
<1>1. DataInv'
  <2>1. MmuInv'
    BY FetchInv DEF FetchSideInv, DataInv
  <2> QED
    BY <2>1, Untouched DEF FetchSideInv
<1>2. i_status = "IDLE"
  BY ConstantsAssumption DEF FetchSideInv, LatchOfFetch, ConstantsAssumption
<1>3. LatchOfFetch'
  BY <1>2 DEF LatchOfFetch
<1>4. FetchRows' /\ FetchFrameLive'
  BY DEF FetchSideInv, FetchRows, IRow, FetchFrameLive, FrameLive, LiveFrames
<1> QED
  BY <1>1, <1>3, <1>4 DEF FetchSideInv

LEMMA AccessFetchSide == FetchSideInv /\ Access => FetchSideInv'
<1> SUFFICES ASSUME FetchSideInv, Access PROVE FetchSideInv'
  OBVIOUS
<1>1. DataInv'
  BY AccessData DEF FetchSideInv
<1>2. UNCHANGED <<satp, i_priv, immuVars, live>>
  BY DEF Access, csrVars, envVars
<1>3. LatchOfFetch' /\ FetchRows' /\ FetchFrameLive'
  BY <1>2 DEF immuVars, FetchSideInv, LatchOfFetch, FetchRows, IRow, ImmuBypass, FetchFrameLive,
     FrameLive, LiveFrames
<1> QED
  BY <1>1, <1>3 DEF FetchSideInv

\* Frames that were live stay live when slots are given more values.
LEMMA FramesGrow ==
    ASSUME NEW h1 \in Slots, NEW h2 \in Slots,
           \A a \in Asid, s \in PteSlot : h1[a][s] \subseteq h2[a][s],
           NEW a \in Asid, NEW p \in Page, NEW f \in FramesIn(h1, a, p)
    PROVE  f \in FramesIn(h2, a, p)
<1> DEFINE e == [asid |-> a, page |-> p, size |-> 0, leaf |-> f]
<1>1. EntryIn(h1, e)
  BY DEF EntryIn
<1>2. EntryIn(h2, e)
  BY <1>1, EntryInGrows
<1>3. e.leaf # "zero"
  BY ConstantsAssumption DEF FramesIn, ConstantsAssumption
<1> QED
  BY <1>2, <1>3 DEF EntryIn

LEMMA StorePteFetchSide ==
    ASSUME SmallPages, FetchSideInv, StorePte PROVE FetchSideInv'
<1>1. DataInv'
  BY StorePteData DEF FetchSideInv
<1>2. PICK u \in Patch :
        /\ live' = [live EXCEPT ![u[1]][u[2]] = @ \cup {u[3]}]
        /\ UNCHANGED <<csrVars, immuVars>>
  BY DEF StorePte
<1>3. live \in Slots /\ live' \in Slots
  BY <1>1 DEF FetchSideInv, DataInv, MmuInv, TypeOK, Slots
<1>4. \A a \in Asid, s \in PteSlot : live[a][s] \subseteq live'[a][s]
  BY <1>2, <1>3 DEF Slots
<1> USE <1>2 DEF csrVars, immuVars
<1>5. LatchOfFetch'
  BY DEF FetchSideInv, LatchOfFetch, IRow, ImmuBypass
<1>6. FetchRows'
  <2>1. IRow' = IRow
    BY DEF IRow
  <2>2. \A e : EntryIn(live, e) => EntryIn(live', e)
    BY <1>3, <1>4, EntryInGrows
  <2>3. \A e \in IRow' : EntryIn(live', e)
    BY <2>1, <2>2 DEF FetchSideInv, FetchRows
  <2>4. \A e, f \in IRow' : RowsAgree(e, f)
    BY <2>1 DEF FetchSideInv, FetchRows
  <2> QED
    BY <2>3, <2>4 DEF FetchRows, RowsAgree
<1>7. FetchFrameLive'
  <2>1. satp.asid \in Asid
    BY DEF FetchSideInv, DataInv, MmuInv, TypeOK, CsrTypeOK
  <2>2. FetchFrameLive
    BY DEF FetchSideInv
  <2>3. ASSUME i_paddr.page \in Page, i_paddr.frame \in FramesIn(live, satp.asid, i_paddr.page)
        PROVE  i_paddr.frame \in FramesIn(live', satp.asid, i_paddr.page)
    <3> DEFINE h1 == live
               h2 == live'
               d == satp.asid
               p == i_paddr.page
               f == i_paddr.frame
    <3>1. /\ h1 \in Slots /\ h2 \in Slots /\ d \in Asid /\ p \in Page
          /\ f \in FramesIn(h1, d, p)
          /\ \A a \in Asid, s \in PteSlot : h1[a][s] \subseteq h2[a][s]
      BY <1>3, <1>4, <2>1, <2>3
    <3> HIDE <1>2 DEF h1, h2, d, p, f
    <3>2. f \in FramesIn(h2, d, p)
      BY <3>1, FramesGrow
    <3> QED
      BY <3>2 DEF h2, d, p, f
  <2> QED
    BY <2>2, <2>3 DEF FetchFrameLive, FrameLive, LiveFrames
<1> QED
  BY <1>1, <1>5, <1>6, <1>7 DEF FetchSideInv

LEMMA InitFetchSide == ASSUME SmallPages, NoStrayLeaf PROVE Init => FetchSideInv
<1> SUFFICES ASSUME Init PROVE FetchSideInv
  OBVIOUS
<1>1. DataInv
  BY InitData
<1>2. IRow = {} /\ i_paddr = NoAddr /\ i_status = "IDLE"
  BY DEF Init, ImmuInit, IRow
<1> QED
  BY <1>1, <1>2 DEF FetchSideInv, FetchRows, LatchOfFetch, FetchFrameLive, FrameLive

LEMMA FetchSideStep ==
    ASSUME SmallPages, ~BareSwitch, FetchSideInv, FetchUndisturbed, [Next]_vars
    PROVE  FetchSideInv'
<1>1. CASE Tick
  <2>1. PICK kind, iReady, dReady, bus, vaddr_i : Edge(kind, iReady, dReady, bus, vaddr_i)
    BY <1>1 DEF Tick, Edge
  <2>2. DataInv'
    BY <1>1, TickData DEF FetchSideInv
  <2> QED
    BY <2>1, <2>2, EdgeFetchRows, EdgeFetchLatch, EdgeFetchFrame DEF FetchSideInv
<1>2. CASE UNCHANGED vars
  <2>1. MmuInv'
    BY <1>2, MmuInvStutters DEF FetchSideInv, DataInv
  <2>2. DataInv'
    BY <1>2, <2>1, Untouched DEF FetchSideInv, vars, csrVars, envVars
  <2>3. UNCHANGED <<satp, i_priv, immuVars, live>>
    BY <1>2 DEF vars, csrVars, envVars
  <2>4. LatchOfFetch' /\ FetchRows' /\ FetchFrameLive'
    BY <2>3 DEF immuVars, FetchSideInv, LatchOfFetch, FetchRows, IRow, ImmuBypass,
       FetchFrameLive, FrameLive, LiveFrames
  <2> QED
    BY <2>2, <2>4 DEF FetchSideInv
<1>3. ~WriteSatpBare
  BY DEF WriteSatpBare
<1> QED
  BY <1>1, <1>2, <1>3, FetchFetchSide, AccessFetchSide, StorePteFetchSide DEF Next

\* Every physical address the immu hands to the icache is one a page table walk
\* since the last SFENCE.VMA could have produced (under the same conditions),
\* with accesses of the data side too, unless an answer to them replaces the one the immu has latched or
\* an error adds a row that differs.
THEOREM UndisturbedFetchLive ==
    ASSUME SmallPages, ~BareSwitch, NoStrayLeaf
    PROVE  Spec /\ []FetchUndisturbed => []FetchFrameLive
<1>1. Init => FetchSideInv
  BY InitFetchSide
<1>2. FetchSideInv /\ FetchUndisturbed /\ [Next]_vars => FetchSideInv'
  BY FetchSideStep
<1>3. FetchSideInv => FetchFrameLive
  BY DEF FetchSideInv
<1> QED
  BY <1>1, <1>2, <1>3, PTL DEF Spec
-----------------------------------------------------------------------------
(* The fetch side alone.                                                   *)

LEMMA AloneUndisturbed == FetchAlone => FetchUndisturbed
BY DEF FetchAlone, FetchUndisturbed

\* Without accesses of the data side a clock edge leaves the rows in agreement
\* with the entry the next error would add.
LEMMA EdgeAlone ==
    ASSUME FetchSideInv, FetchAlone,
           NEW kind, NEW iReady, NEW dReady, NEW bus, NEW vaddr_i,
           Edge(kind, iReady, dReady, bus, vaddr_i)
    PROVE  FetchAlone'
<1>1. d_vaddr' = NoAddr /\ d_status' = "IDLE" /\ ~DmmuMissValid
  BY ConstantsAssumption DEF Edge, Cycle, DmmuClock, DmmuFsm, DmmuOutput, DmmuFifoReady, FetchAlone,
     DmmuMissValid, ConstantsAssumption
<1>2. CASE DFlush(kind)
  <2>1. i_status' = "IDLE" /\ l2_status' = "IDLE" /\ l2_pte' = ZeroEntry
    BY <1>2, EdgeFlush, FetchFlushed DEF L2Reset, DFlush, IFlush
  <2>2. \A e : RowsAgree(e, ZeroEntry)
    BY DEF RowsAgree, ZeroEntry
  <2> QED
    BY <1>1, <2>1, <2>2 DEF FetchAlone, RowsAgree
<1>3. CASE ~DFlush(kind)
  <2>1. kind # "sfence" /\ satp' = satp
    BY <1>3, EdgeStep
  <2>2. IRow' \subseteq IRow \cup {l2_pte} /\ (l2_status # "OUT" => IRow' \subseteq IRow)
    BY RowsAfter
  <2>3. \A e \in IRow' : RowsAgree(e, l2_pte)
    BY <2>2 DEF FetchAlone, RowsAgree
  <2>4. i_status' = "SEND_ADDR" =>
          \/ i_status = "SEND_ADDR" /\ l2_status = "IDLE" /\ ~ImmuMissValid
          \/ l2_status = "OUT"
    <3>1. CASE IFlush(kind)
      BY <3>1, FetchFlushed
    <3>2. CASE ~IFlush(kind)
      BY <3>2, FetchMoves DEF ImmuFsm, PteOut, FetchAlone, ImmuMissValid
    <3> QED
      BY <3>1, <3>2
  <2>5. CASE L2Accept(ImmuMissValid, vaddr_i, DmmuMissValid, d_vaddr)
    <3>1. l2_pte' = l2_pte /\ l2_status = "IDLE"
      BY <2>5 DEF L2Accept
    <3>2. i_status' = "SEND_ADDR" => l2_status' = "IDLE"
      BY <1>1, <2>4, <2>5 DEF L2Accept
    <3>3. ASSUME l2_status' \notin {"IDLE", "OUT"}, NEW e \in IRow'
          PROVE  e.asid # satp'.asid \/ e.page # l2_vaddr'
      <4>1. ImmuMissValid /\ l2_vaddr' = vaddr_i
        BY <1>1, <2>5, <3>3 DEF L2Accept
      <4>2. i_status = "SUBMIT_REQ" /\ i_vaddr \in Page /\ ImmuHits = {}
        BY <4>1 DEF ImmuMissValid, FetchSideInv, LatchOfFetch, DataInv, MmuInv, MissStands
      <4>3. vaddr_i = i_vaddr
        BY <4>2, ConstantsAssumption DEF Edge, IHead, ConstantsAssumption
      <4> QED
        BY <2>1, <2>2, <3>1, <3>3, <4>1, <4>2, <4>3, RowHits
    <3> QED
      BY <1>1, <2>3, <3>1, <3>2, <3>3 DEF FetchAlone, RowsAgree
  <2>6. CASE L2Search \/ \E level \in Level : L2Walk(level, bus = "arready", RValid(bus), bus)
    <3>1. /\ l2_status \notin {"IDLE", "OUT"} /\ l2_vaddr' = l2_vaddr
          /\ l2_vaddr \in Page
      BY <2>6 DEF L2Search, L2Walk, Walk, Level, FetchSideInv, DataInv, MmuInv, SearchOfPage
    <3>2. \A e \in IRow' : e.asid # satp.asid \/ e.page # l2_vaddr
      BY <2>2, <3>1 DEF FetchAlone
    <3>3. l2_pte' = l2_pte \/ (l2_pte'.asid = satp.asid /\ l2_pte'.page = l2_vaddr)
      <4>1. CASE L2Search
        <5>1. CASE L2Hits = {}
          BY <4>1, <5>1 DEF L2Search
        <5>2. CASE L2Hits # {}
          <6> DEFINE one == CHOOSE e \in L2Hits : TRUE
          <6>1. one \in L2Hits
            BY <5>2
          <6> HIDE DEF one
          <6>2. ~ \E e \in L2Hits : e # one
            BY <3>1, <6>1, L2HitsLive DEF FetchSideInv
          <6>3. l2_pte' = one
            BY <4>1, <5>2, <6>2 DEF L2Search, one
          <6> QED
            BY <3>1, <6>1, <6>3, L2HitsLive DEF FetchSideInv
        <5> QED
          BY <5>1, <5>2
      <4>2. ASSUME NEW level \in Level, L2Walk(level, bus = "arready", RValid(bus), bus)
            PROVE  l2_pte' = l2_pte \/ (l2_pte'.asid = satp.asid /\ l2_pte'.page = l2_vaddr)
        BY <4>2 DEF L2Walk
      <4> QED
        BY <2>6, <4>1, <4>2
    <3>4. \A e \in IRow' : RowsAgree(e, l2_pte')
      BY <2>3, <3>2, <3>3 DEF RowsAgree
    <3>5. i_status' # "SEND_ADDR"
      BY <2>4, <3>1
    <3> QED
      BY <1>1, <2>1, <3>1, <3>2, <3>4, <3>5 DEF FetchAlone, RowsAgree
  <2>7. CASE L2Answer
    <3>1. l2_status' = "IDLE" /\ l2_pte' = l2_pte
      BY <2>7 DEF L2Answer
    <3> QED
      BY <1>1, <2>3, <3>1 DEF FetchAlone, RowsAgree
  <2> QED
    BY <1>3, <2>5, <2>6, <2>7, EdgeStep
<1> QED
  BY <1>2, <1>3

\* An action that leaves both units but the fetch address alone keeps FetchAlone.
LEMMA AloneKept ==
    ASSUME FetchAlone, UNCHANGED <<satp, i_status, i_tlb, d_vaddr, d_status, l2Vars>>
    PROVE  FetchAlone'
BY DEF FetchAlone, IRow, l2Vars, RowsAgree

LEMMA AloneStep ==
    ASSUME FetchSideInv, FetchAlone, DRequest = {}, ~BareSwitch, [Next]_vars
    PROVE  FetchAlone'
<1>1. CASE Tick
  BY <1>1, EdgeAlone DEF Tick, Edge
<1>2. CASE Fetch
  BY <1>2, AloneKept DEF Fetch, FetchAddr, csrVars, dmmuVars
<1>3. CASE StorePte
  BY <1>3, AloneKept DEF StorePte, csrVars, immuVars, dmmuVars
<1>4. CASE UNCHANGED vars
  BY <1>4, AloneKept DEF vars, csrVars, immuVars, dmmuVars
<1>5. ~Access /\ ~WriteSatpBare
  BY DEF Access, WriteSatpBare
<1> QED
  BY <1>1, <1>2, <1>3, <1>4, <1>5 DEF Next

\* Every physical address the immu hands to the icache is one a page table walk
\* since the last SFENCE.VMA could have produced, whatever branches, flushes,
\* walks, stores to the tables and late errors interleave, as long as a walker led
\* astray reads no leaf.
THEOREM FetchFramesLive ==
    ASSUME SmallPages, ~BareSwitch, NoStrayLeaf, DRequest = {}
    PROVE  Spec => []FetchFrameLive
<1>1. Init => FetchSideInv /\ FetchAlone
  <2>1. Init => IRow = {}
    BY DEF Init, ImmuInit, IRow
  <2> QED
    BY <2>1, InitFetchSide DEF Init, ImmuInit, DmmuInit, L2Init, FetchAlone
<1>2. (FetchSideInv /\ FetchAlone) /\ [Next]_vars => (FetchSideInv /\ FetchAlone)'
  BY FetchSideStep, AloneStep, AloneUndisturbed
<1>3. FetchSideInv => FetchFrameLive
  BY DEF FetchSideInv
<1> QED
  BY <1>1, <1>2, <1>3, PTL DEF Spec
=============================================================================
