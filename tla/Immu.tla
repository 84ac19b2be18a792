-------------------------------- MODULE Immu --------------------------------
(***************************************************************************)
(* immu.v: translation of instruction addresses.  A fully associative      *)
(* first-level TLB (ways for 4K pages, ways for superpages), a four-state  *)
(* machine that sends a miss to the second-level TLB, and the register     *)
(* that hands the physical address to the icache.                          *)
(***************************************************************************)
EXTENDS Sv39

CONSTANTS
    IWay4K, IWaySp      \* ways of the first-level TLB (32 and 8 in the code)

VARIABLES
    i_vaddr,    \* head of the fetch address fifo, NoAddr when it is empty
    i_status,   \* stage_status
    i_pte,      \* [entry, error]: pte_reg and pte_error_reg
    i_tlb,      \* way -> Entry, or NoPte where the valid bit is clear
    i_paddr     \* the paddr register: [page, frame], NoAddr when not valid

immuVars == <<i_vaddr, i_status, i_pte, i_tlb, i_paddr>>

ImmuTypeOK ==
    /\ i_vaddr \in Page \cup {NoAddr, NonCanonical}
    /\ i_status \in {"IDLE", "SUBMIT_REQ", "WAIT_RESP", "SEND_ADDR"}
    /\ i_pte \in [entry : Entry, error : BOOLEAN]
    /\ i_tlb \in [IWay4K \cup IWaySp -> Entry \cup {NoPte}]
    /\ i_paddr \in [page : Page \cup {NonCanonical}, frame : Frame] \cup {NoAddr}

ImmuInit ==
    /\ i_vaddr = NoAddr
    /\ i_status = "IDLE"
    /\ i_pte = [entry |-> ZeroEntry, error |-> FALSE]
    /\ i_tlb = [w \in IWay4K \cup IWaySp |-> NoPte]
    /\ i_paddr = NoAddr

-----------------------------------------------------------------------------
\* stage_jump_mmu
ImmuBypass == i_priv = "M" \/ ~satp.on

ImmuHits ==
    IF i_vaddr \in Page
    THEN {i_tlb[w] : w \in {v \in DOMAIN i_tlb : Hits(i_tlb[v], i_vaddr)}}
    ELSE {}

ImmuMissValid == i_status = "SUBMIT_REQ"

\* Mutant of ImmuFifoReady: the answer is used through the TLB only.
ImmuFifoReadyByHit(paddrReady) ==
    /\ i_vaddr # NoAddr
    /\ ImmuBypass \/ ImmuHits # {} \/ i_vaddr = NonCanonical
    /\ paddrReady \/ i_paddr = NoAddr

\* mmu_fifo_ready: the head of the fifo leaves with its translation.
ImmuFifoReady(paddrReady) ==
    /\ i_vaddr # NoAddr
    /\ ImmuBypass \/ ImmuHits # {} \/ i_status = "SEND_ADDR" \/ i_vaddr = NonCanonical
    /\ paddrReady \/ i_paddr = NoAddr

\* paddr_out and paddr_error_out.
ImmuFrame ==
    IF ImmuBypass THEN "untranslated"
    ELSE IF i_vaddr = NonCanonical \/ (i_status = "SEND_ADDR" /\ i_pte.error)
    THEN "fault"
    ELSE FrameOf(OrLeaf(ImmuHits \cup
                        (IF i_status = "SEND_ADDR" THEN {i_pte.entry} ELSE {})))

\* Mutant of ImmuFsm: the request stays up when it is accepted.
ImmuFsmRepeats(flush, missReady, pteValid, paddrReady) ==
    i_status' = IF flush THEN "IDLE"
                ELSE IF ~ImmuBypass /\ i_vaddr \in Page /\ ImmuHits = {} THEN "SUBMIT_REQ"
                ELSE i_status

ImmuFsm(flush, missReady, pteValid, paddrReady) ==
    \/ /\ flush
       /\ i_status' = "IDLE"
    \/ /\ ~flush /\ i_status = "IDLE"
       /\ i_status' = IF ~ImmuBypass /\ i_vaddr \in Page /\ ImmuHits = {}
                      THEN "SUBMIT_REQ" ELSE "IDLE"
    \/ /\ ~flush /\ i_status = "SUBMIT_REQ"
       /\ i_status' = IF missReady THEN "WAIT_RESP" ELSE "SUBMIT_REQ"
    \/ /\ ~flush /\ i_status = "WAIT_RESP"
       /\ i_status' = IF pteValid THEN "SEND_ADDR" ELSE "WAIT_RESP"
    \/ /\ ~flush /\ i_status = "SEND_ADDR"
       /\ i_status' = IF paddrReady \/ i_paddr = NoAddr THEN "IDLE" ELSE "SEND_ADDR"

\* Mutant of ImmuFill: sflush_vma leaves the valid bits alone.
ImmuFillKept(sflush, pteValid, pte, pteError) ==
    /\ i_pte' = IF pteValid THEN [entry |-> pte, error |-> pteError] ELSE i_pte
    /\ IF i_status = "WAIT_RESP" /\ pteValid
       THEN \E w \in (IF pte.size = 0 THEN IWay4K ELSE IWaySp) :
              i_tlb' = [i_tlb EXCEPT ![w] = pte]
       ELSE i_tlb' = i_tlb

\* The answer is latched whenever the second level shows one; it enters the
\* TLB, error or not, only when this unit waits for it.  The pseudo-LRU tree
\* may choose any way.  sflush_vma clears every valid bit and wins.
ImmuFill(sflush, pteValid, pte, pteError) ==
    /\ i_pte' = IF pteValid THEN [entry |-> pte, error |-> pteError] ELSE i_pte
    /\ IF sflush
       THEN i_tlb' = [w \in DOMAIN i_tlb |-> NoPte]
       ELSE IF i_status = "WAIT_RESP" /\ pteValid
       THEN \E w \in (IF pte.size = 0 THEN IWay4K ELSE IWaySp) :
              i_tlb' = [i_tlb EXCEPT ![w] = pte]
       ELSE i_tlb' = i_tlb

ImmuOutput(flush, paddrReady) ==
    /\ i_vaddr' = IF flush \/ ImmuFifoReady(paddrReady) THEN NoAddr ELSE i_vaddr
    /\ i_paddr' =
         IF flush THEN NoAddr
         ELSE IF ImmuFifoReady(paddrReady) THEN [page |-> i_vaddr, frame |-> ImmuFrame]
         ELSE IF paddrReady THEN NoAddr ELSE i_paddr

\* One clock edge of the unit.
ImmuClock(flush, sflush, missReady, pteValid, pte, pteError, paddrReady) ==
    /\ ImmuFsm(flush, missReady, pteValid, paddrReady)
    /\ ImmuFill(sflush, pteValid, pte, pteError)
    /\ ImmuOutput(flush, paddrReady)

\* The fetch unit puts the next address at the head of the fifo.
FetchAddr(p) ==
    /\ i_vaddr = NoAddr
    /\ i_vaddr' = p
    /\ UNCHANGED <<i_status, i_pte, i_tlb, i_paddr>>
=============================================================================
