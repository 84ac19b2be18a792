-------------------------------- MODULE L2Tlb -------------------------------
(***************************************************************************)
(* l2tlb.v: the second-level TLB and page table walker both first-level    *)
(* units share.  4K rows keep their valid bit beside the data; a superpage *)
(* array keeps a valid bit vector of its own, written at one index and     *)
(* tested at another, so the data and the bits are separate variables.     *)
(***************************************************************************)
EXTENDS Sv39

CONSTANTS
    L2Way               \* ways of the 4K array (MMU_WAY)

VARIABLES
    l2_status,  \* stage_status
    l2_vaddr,   \* stage_vaddr
    l2_error,   \* out_error
    l2_pte,     \* out_pte
    l2_arvalid, \* mmu_arvalid_reg
    l2_root,    \* whose tables the walk reads (mmu_araddr_ppn)
    l2_wen,     \* which write enable register is set: a level, or NoLevel
    l2_4K,      \* row -> way -> Entry, or NoPte where the valid bit is clear
    l2_sp,      \* level -> row -> Entry, or NoPte before the first write
    l2_spValid  \* level -> row -> valid bit

l2Vars == <<l2_status, l2_vaddr, l2_error, l2_pte, l2_arvalid, l2_root, l2_wen,
            l2_4K, l2_sp, l2_spValid>>

Row == 0 .. IndexSize - 1
NoLevel == 3

\* The state that walks a level.
Walk == [l \in Level |->
            IF l = 2 THEN "PAGE_WALK_1G" ELSE IF l = 1 THEN "PAGE_WALK_2M" ELSE "PAGE_WALK_4K"]

L2TypeOK ==
    /\ l2_status \in {"IDLE", "SEARCH_TLB", "OUT"} \cup {Walk[l] : l \in Level}
    /\ l2_vaddr \in Page \cup {ZeroPage}
    /\ l2_error \in BOOLEAN
    /\ l2_pte \in Entry
    /\ l2_arvalid \in BOOLEAN
    /\ l2_root \in Asid
    /\ l2_wen \in Level \cup {NoLevel}
    /\ l2_4K \in [Row -> [L2Way -> Entry \cup {NoPte}]]
    /\ l2_sp \in [1 .. 2 -> [Row -> Entry \cup {NoPte}]]
    /\ l2_spValid \in [1 .. 2 -> [Row -> BOOLEAN]]

L2Init ==
    /\ l2_status = "IDLE"
    /\ l2_vaddr = ZeroPage
    /\ l2_error = FALSE
    /\ l2_pte = ZeroEntry
    /\ l2_arvalid = FALSE
    /\ l2_root = satp.asid
    /\ l2_wen = NoLevel
    /\ l2_4K = [r \in Row |-> [w \in L2Way |-> NoPte]]
    /\ l2_sp = [l \in 1 .. 2 |-> [r \in Row |-> NoPte]]
    /\ l2_spValid = [l \in 1 .. 2 |-> [r \in Row |-> FALSE]]

-----------------------------------------------------------------------------
\* Mutant of DmmuMissReady: both units are told their miss is taken.
DmmuMissReadyToo(immuMiss) == l2_status = "IDLE"

ImmuMissReady == l2_status = "IDLE"
DmmuMissReady(immuMiss) == l2_status = "IDLE" /\ ~immuMiss
PteOut == l2_status = "OUT"

\* sram_addr, sram_1G_addr and sram_2M_addr
L2Row(p) == Index(p[3])
SpRow(level, p) == IF level = 2 THEN Index(p[1]) ELSE Index(p[2])

\* The bit tlb_hit_1G and tlb_hit_2M test: stage_vaddr[17:12] for both.
SpValidRow(level, p) == Index(p[3])

L2Hits ==
    {e \in {l2_4K[L2Row(l2_vaddr)][w] : w \in L2Way} : Hits(e, l2_vaddr)}
    \cup
    {l2_sp[l][SpRow(l, l2_vaddr)] :
        l \in {k \in 1 .. 2 : /\ l2_spValid[k][SpValidRow(k, l2_vaddr)]
                              /\ Hits(l2_sp[k][SpRow(k, l2_vaddr)], l2_vaddr)}}

L2Reset ==
    /\ l2_status' = "IDLE"
    /\ l2_vaddr' = ZeroPage
    /\ l2_error' = FALSE
    /\ l2_pte' = ZeroEntry
    /\ l2_arvalid' = FALSE
    /\ l2_wen' = NoLevel
    /\ UNCHANGED l2_root

\* IDLE: take a miss, the instruction side first.
L2Accept(immuMiss, vaddr_i, dmmuMiss, vaddr_d) ==
    LET vaddr == IF immuMiss THEN vaddr_i ELSE vaddr_d
    IN  /\ l2_status = "IDLE"
        /\ IF ~immuMiss /\ ~dmmuMiss
           THEN UNCHANGED <<l2_status, l2_vaddr, l2_error>>
           ELSE IF vaddr = NonCanonical
           THEN l2_status' = "OUT" /\ l2_error' = TRUE /\ UNCHANGED l2_vaddr
           ELSE l2_status' = "SEARCH_TLB" /\ l2_vaddr' = vaddr /\ UNCHANGED l2_error
        /\ UNCHANGED <<l2_pte, l2_arvalid, l2_root, l2_wen>>

\* SEARCH_TLB: the rows read at the accepting edge hit, or the walk starts.
L2Search ==
    /\ l2_status = "SEARCH_TLB"
    /\ IF L2Hits # {}
       THEN /\ l2_status' = "OUT"
            /\ l2_error' = FALSE
            /\ LET one == CHOOSE e \in L2Hits : TRUE
               IN  l2_pte' = IF \E e \in L2Hits : e # one
                             THEN [one EXCEPT !.leaf = "garbage"] ELSE one
            /\ UNCHANGED <<l2_arvalid, l2_root>>
       ELSE /\ l2_status' = Walk[2]
            /\ l2_arvalid' = TRUE
            /\ l2_root' = satp.asid
            /\ UNCHANGED <<l2_error, l2_pte>>
    /\ UNCHANGED <<l2_vaddr, l2_wen>>

\* PAGE_WALK_x: send the read, then judge the entry that comes back.  rData is
\* a page table entry, or "error" when rresp is not OKAY.
L2Walk(level, arReady, rValid, rData) ==
    /\ l2_status = Walk[level]
    /\ UNCHANGED <<l2_vaddr, l2_root>>
    /\ \/ /\ l2_arvalid /\ arReady
          /\ l2_arvalid' = FALSE
          /\ UNCHANGED <<l2_status, l2_error, l2_pte, l2_wen>>
       \/ /\ ~(l2_arvalid /\ arReady) /\ rValid
          /\ rData \in {"error", "rejected"} \/ (rData = "pointer" /\ level = 0)
          /\ l2_status' = "OUT" /\ l2_error' = TRUE
          /\ UNCHANGED <<l2_pte, l2_arvalid, l2_wen>>
       \/ /\ ~(l2_arvalid /\ arReady) /\ rValid
          /\ rData = "pointer" /\ level > 0
          /\ l2_status' = Walk[level - 1] /\ l2_arvalid' = TRUE
          /\ UNCHANGED <<l2_error, l2_pte, l2_wen>>
       \/ /\ ~(l2_arvalid /\ arReady) /\ rValid
          /\ rData \in Leaf
          /\ l2_status' = "OUT" /\ l2_error' = FALSE
          /\ l2_pte' = [asid |-> satp.asid, page |-> l2_vaddr, size |-> level, leaf |-> rData]
          /\ l2_wen' = level
          /\ UNCHANGED l2_arvalid
       \/ /\ ~(l2_arvalid /\ arReady) /\ ~rValid
          /\ UNCHANGED <<l2_status, l2_error, l2_pte, l2_arvalid, l2_wen>>

\* OUT: pte_ready is the constant 1, so the answer shows for one cycle.
L2Answer ==
    /\ l2_status = "OUT"
    /\ l2_status' = "IDLE"
    /\ l2_wen' = NoLevel
    /\ UNCHANGED <<l2_vaddr, l2_error, l2_pte, l2_arvalid, l2_root>>

\* The write enables act on the arrays at the edge that ends OUT, whether or
\* not that edge also flushes the machine; sflush_vma clears the valid bits.
L2Write(sflush) ==
    /\ IF sflush
       THEN l2_4K' = [r \in Row |-> [w \in L2Way |-> NoPte]]
       ELSE IF l2_wen = 0
       THEN \E w \in L2Way : l2_4K' = [l2_4K EXCEPT ![L2Row(l2_vaddr)][w] = l2_pte]
       ELSE UNCHANGED l2_4K
    /\ l2_sp' = IF l2_wen \in {1, 2}
                THEN [l2_sp EXCEPT ![l2_wen][SpRow(l2_wen, l2_vaddr)] = l2_pte]
                ELSE l2_sp
    /\ l2_spValid' = IF sflush
                     THEN [l \in 1 .. 2 |-> [r \in Row |-> FALSE]]
                     ELSE IF l2_wen \in {1, 2}
                     THEN [l2_spValid EXCEPT ![l2_wen][SpRow(l2_wen, l2_vaddr)] = TRUE]
                     ELSE l2_spValid

\* One clock edge of the unit.
L2Clock(flush, sflush, immuMiss, vaddr_i, dmmuMiss, vaddr_d, arReady, rValid, rData) ==
    /\ \/ flush /\ L2Reset
       \/ /\ ~flush
          /\ \/ L2Accept(immuMiss, vaddr_i, dmmuMiss, vaddr_d)
             \/ L2Search
             \/ \E level \in Level : L2Walk(level, arReady, rValid, rData)
             \/ L2Answer
    /\ L2Write(sflush)
=============================================================================
