-------------------------------- MODULE Sv39 --------------------------------
(***************************************************************************)
(* The data the three translation units share: virtual page numbers, page  *)
(* table entries and TLB entries of the Sv39 scheme, and the CSR fields    *)
(* (satp, the effective privilege) that decide whether an address is       *)
(* translated at all.  Physical frames and attribute bits are abstracted   *)
(* to a leaf name; what distinguishes two leaves is only that they differ. *)
(***************************************************************************)
EXTENDS Integers, FiniteSets

CONSTANTS
    Asid,           \* address space identifiers that satp may hold
    Vpn2, Vpn1, Vpn0, \* the three 9-bit fields of a virtual page number
    Leaf,           \* leaf page table entries the software may install
    IndexSize,      \* rows of a set-indexed TLB (64 in the code)
    NoAddr,         \* an empty address register
    NonCanonical,   \* an address whose bits 63:39 do not repeat bit 38
    NoPte           \* an invalid TLB row

Page == Vpn2 \X Vpn1 \X Vpn0
Level == 0 .. 2     \* size field of an entry: 0 = 4K, 1 = 2M, 2 = 1G

\* What a page table slot may hold: a pointer to the next table, a leaf, or
\* anything the walker rejects (V = 0, W without R, A = 0, reserved bits,
\* a misaligned superpage).
PteValue == Leaf \cup {"pointer", "rejected"}

\* Slot(level, p) names the slot the walk of page p reads at that level.
Slot(level, p) ==
    IF level = 2 THEN <<p[1]>> ELSE IF level = 1 THEN <<p[1], p[2]>> ELSE p

PteSlot == {Slot(l, p) : l \in Level, p \in Page}

\* {satp_asid, ppn and attributes, vaddr[38:12], size}.  "zero" stands for the
\* attribute bits of a register that was reset, "garbage" for the bitwise OR
\* of two entries that differ.
ZeroPage == <<0, 0, 0>>
Entry == [asid : Asid \cup {0}, page : Page \cup {ZeroPage}, size : Level,
          leaf : Leaf \cup {"zero", "garbage"}]
ZeroEntry == [asid |-> 0, page |-> ZeroPage, size |-> 0, leaf |-> "zero"]

\* What a unit puts on its paddr output.
Frame == Leaf \cup {"fault", "garbage", "untranslated"}

ASSUME ConstantsAssumption ==
    /\ Asid \subseteq Nat
    /\ Vpn2 \subseteq Nat /\ Vpn1 \subseteq Nat /\ Vpn0 \subseteq Nat
    /\ IndexSize \in Nat \ {0}
    /\ {"pointer", "rejected", "zero", "garbage", "fault", "untranslated",
        "idle", "arready", "error"} \cap Leaf = {}
    /\ NoAddr \notin Page /\ NonCanonical \notin Page
    /\ NoAddr # NonCanonical
    /\ NoPte \notin Entry

VARIABLES
    satp,       \* [on, asid]: satp.MODE = 8, satp.ASID
    i_priv,     \* current_priv_status: "M" or "S" (S stands for S and U)
    d_priv      \* use_priv of loads and stores: MPP when MPRV is set

csrVars == <<satp, i_priv, d_priv>>

CsrTypeOK ==
    /\ satp \in [on : BOOLEAN, asid : Asid]
    /\ i_priv \in {"M", "S"}
    /\ d_priv \in {"M", "S"}

-----------------------------------------------------------------------------
Index(vpn) == vpn % IndexSize

Covers(e, p) ==
    /\ e.page[1] = p[1]
    /\ e.size <= 1 => e.page[2] = p[2]
    /\ e.size = 0 => e.page[3] = p[3]

\* Mutant of Hits: the rows of every address space answer.
HitsAnyAsid(e, p) == e # NoPte /\ Covers(e, p)

\* A row answers for p when it is valid, its tag matches and its ASID is the
\* one in satp.
Hits(e, p) == e # NoPte /\ e.asid = satp.asid /\ Covers(e, p)

\* The units OR the rows that hit together: rows that agree give that row,
\* a zero row adds nothing, rows that differ give garbage.
OrLeaf(entries) ==
    LET leaves == {e.leaf : e \in entries} \ {"zero"}
    IN  IF leaves = {} THEN "zero"
        ELSE IF Cardinality(leaves) = 1 THEN CHOOSE l \in leaves : TRUE
        ELSE "garbage"

\* No right is set in a zero entry, so every use of it is a page fault.
FrameOf(leaf) == IF leaf = "zero" THEN "fault" ELSE leaf
=============================================================================
