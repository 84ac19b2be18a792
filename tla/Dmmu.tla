-------------------------------- MODULE Dmmu --------------------------------
(***************************************************************************)
(* dmmu.v: translation of load and store addresses.  It differs from the   *)
(* immu in its TLB (4K rows are direct mapped by vaddr[17:12]), in leaving *)
(* SEND_ADDR only when the dcache takes the address, and in the privilege  *)
(* it uses.                                                                *)
(***************************************************************************)
EXTENDS Sv39

CONSTANTS
    DWaySp              \* superpage ways (16 in the code)

VARIABLES
    d_vaddr,    \* the address the LSU waits for, NoAddr when there is none
    d_status,   \* stage_status
    d_pte,      \* [entry, error]: pte_reg and pte_error_reg
    d_tlb4K,    \* row -> Entry, or NoPte where the valid bit is clear
    d_tlbSp,    \* way -> Entry, or NoPte
    d_paddr     \* the paddr register: [page, frame], NoAddr when not valid

dmmuVars == <<d_vaddr, d_status, d_pte, d_tlb4K, d_tlbSp, d_paddr>>

DmmuTypeOK ==
    /\ d_vaddr \in Page \cup {NoAddr, NonCanonical}
    /\ d_status \in {"IDLE", "SUBMIT_REQ", "WAIT_RESP", "SEND_ADDR"}
    /\ d_pte \in [entry : Entry, error : BOOLEAN]
    /\ d_tlb4K \in [0 .. IndexSize - 1 -> Entry \cup {NoPte}]
    /\ d_tlbSp \in [DWaySp -> Entry \cup {NoPte}]
    /\ d_paddr \in [page : Page \cup {NonCanonical}, frame : Frame] \cup {NoAddr}

DmmuInit ==
    /\ d_vaddr = NoAddr
    /\ d_status = "IDLE"
    /\ d_pte = [entry |-> ZeroEntry, error |-> FALSE]
    /\ d_tlb4K = [r \in 0 .. IndexSize - 1 |-> NoPte]
    /\ d_tlbSp = [w \in DWaySp |-> NoPte]
    /\ d_paddr = NoAddr

-----------------------------------------------------------------------------
DmmuBypass == d_priv = "M" \/ ~satp.on

DmmuRow(p) == Index(p[3])

DmmuHits ==
    IF d_vaddr \in Page
    THEN {e \in {d_tlb4K[DmmuRow(d_vaddr)]} \cup {d_tlbSp[w] : w \in DWaySp} :
            Hits(e, d_vaddr)}
    ELSE {}

DmmuMissValid == d_status = "SUBMIT_REQ"

\* mmu_fifo_ready
DmmuFifoReady(paddrReady) ==
    /\ d_vaddr # NoAddr
    /\ DmmuBypass \/ DmmuHits # {} \/ d_status = "SEND_ADDR" \/ d_vaddr = NonCanonical
    /\ paddrReady \/ d_paddr = NoAddr

\* paddr_out and paddr_error_out.
DmmuFrame ==
    IF DmmuBypass THEN "untranslated"
    ELSE IF d_vaddr = NonCanonical \/ (d_status = "SEND_ADDR" /\ d_pte.error)
    THEN "fault"
    ELSE FrameOf(OrLeaf(DmmuHits \cup
                        (IF d_status = "SEND_ADDR" THEN {d_pte.entry} ELSE {})))

DmmuFsm(flush, missReady, pteValid, paddrReady) ==
    \/ /\ flush
       /\ d_status' = "IDLE"
    \/ /\ ~flush /\ d_status = "IDLE"
       /\ d_status' = IF ~DmmuBypass /\ d_vaddr \in Page /\ DmmuHits = {}
                      THEN "SUBMIT_REQ" ELSE "IDLE"
    \/ /\ ~flush /\ d_status = "SUBMIT_REQ"
       /\ d_status' = IF missReady THEN "WAIT_RESP" ELSE "SUBMIT_REQ"
    \/ /\ ~flush /\ d_status = "WAIT_RESP"
       /\ d_status' = IF pteValid THEN "SEND_ADDR" ELSE "WAIT_RESP"
    \/ /\ ~flush /\ d_status = "SEND_ADDR"
       /\ d_status' = IF paddrReady /\ d_paddr # NoAddr THEN "IDLE" ELSE "SEND_ADDR"

\* Mutant of DmmuFill: an answer that arrives with sflush_vma is still written.
DmmuFillWins(sflush, pteValid, pte, pteError) ==
    LET kept(row) == IF sflush THEN NoPte ELSE row
        fills == d_status = "WAIT_RESP" /\ pteValid
    IN  /\ d_pte' = IF pteValid THEN [entry |-> pte, error |-> pteError] ELSE d_pte
        /\ d_tlb4K' = [r \in DOMAIN d_tlb4K |->
                          IF fills /\ pte.size = 0 /\ r = DmmuRow(d_vaddr)
                          THEN pte ELSE kept(d_tlb4K[r])]
        /\ \E v \in DWaySp :
              d_tlbSp' = [w \in DWaySp |->
                            IF fills /\ pte.size # 0 /\ w = v THEN pte ELSE kept(d_tlbSp[w])]

\* A 4K answer goes to the row of the address the unit is holding.
DmmuFill(sflush, pteValid, pte, pteError) ==
    /\ d_pte' = IF pteValid THEN [entry |-> pte, error |-> pteError] ELSE d_pte
    /\ IF sflush
       THEN /\ d_tlb4K' = [r \in DOMAIN d_tlb4K |-> NoPte]
            /\ d_tlbSp' = [w \in DWaySp |-> NoPte]
       ELSE IF d_status = "WAIT_RESP" /\ pteValid
       THEN IF pte.size = 0
            THEN /\ d_tlb4K' = [d_tlb4K EXCEPT ![DmmuRow(d_vaddr)] = pte]
                 /\ d_tlbSp' = d_tlbSp
            ELSE /\ d_tlb4K' = d_tlb4K
                 /\ \E w \in DWaySp : d_tlbSp' = [d_tlbSp EXCEPT ![w] = pte]
       ELSE UNCHANGED <<d_tlb4K, d_tlbSp>>

DmmuOutput(flush, paddrReady) ==
    /\ d_vaddr' = IF flush \/ DmmuFifoReady(paddrReady) THEN NoAddr ELSE d_vaddr
    /\ d_paddr' =
         IF flush THEN NoAddr
         ELSE IF DmmuFifoReady(paddrReady) THEN [page |-> d_vaddr, frame |-> DmmuFrame]
         ELSE IF paddrReady THEN NoAddr ELSE d_paddr

\* One clock edge of the unit.
DmmuClock(flush, sflush, missReady, pteValid, pte, pteError, paddrReady) ==
    /\ DmmuFsm(flush, missReady, pteValid, paddrReady)
    /\ DmmuFill(sflush, pteValid, pte, pteError)
    /\ DmmuOutput(flush, paddrReady)

\* The LSU has one access outstanding: it sends an address only when the
\* dcache has taken the one before.
DataAddr(p) ==
    /\ d_vaddr = NoAddr /\ d_paddr = NoAddr /\ d_status = "IDLE"
    /\ d_vaddr' = p
    /\ UNCHANGED <<d_status, d_pte, d_tlb4K, d_tlbSp, d_paddr>>
=============================================================================
