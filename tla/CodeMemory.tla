----------------------------- MODULE CodeMemory -----------------------------
(***************************************************************************)
(* Instruction memory as the fetch path sees it: double words of four      *)
(* half-words, two double words to a cache line.  A half-word is its       *)
(* address and the version of its line; which of them start a 32-bit       *)
(* instruction (bits 1:0 = 11) is fixed, so that a patch keeps the length  *)
(* of what it replaces.  Addresses wrap around.                            *)
(***************************************************************************)
EXTENDS Integers, Sequences, FiniteSets

CONSTANTS
    Lines,      \* number of 16-byte lines
    Wide,       \* half-word addresses that start a 32-bit instruction
    Target,     \* half-word addresses the program jumps to
    Unmapped,   \* lines without translation
    BusBad,     \* lines the bus answers with an error
    Version,    \* contents a line may have
    Patched,    \* lines the program rewrites
    None

Line == 0 .. Lines - 1
Dword == 0 .. 2 * Lines - 1
HalfWord == 0 .. 8 * Lines - 1

ASSUME CodeAssumption ==
    /\ Lines \in Nat \ {0}
    /\ Wide \subseteq HalfWord /\ Target \subseteq HalfWord
    /\ Unmapped \subseteq Line /\ BusBad \subseteq Line /\ Patched \subseteq Line
    /\ 0 \in Version
    /\ None \notin Int

LineOf(d) == d \div 2
DwordOf(h) == h \div 4
After(h, n) == (h + n) % (8 * Lines)
NextDword(d) == IF d = 2 * Lines - 1 THEN 0 ELSE d + 1
Size(h) == IF h \in Wide THEN 2 ELSE 1

\* What decode takes: its address, its half-words, and where it faults
\* (tval), None if it does not.  Version -1 is the content of a register that
\* nothing was written to.
Unwritten == -1
Instruction ==
    [pc : HalfWord, halves : Seq(HalfWord \X (Version \cup {Unwritten})),
     fault : HalfWord \cup {None}]

\* What a step of the fetch side may be to the pipeline: nothing, an instruction
\* taken by decode, a jump, or a flush whose jump is still to come.
Quiet == [what |-> "none"]
Take(i) == [what |-> "take", inst |-> i]
Jump(h) == [what |-> "jump", to |-> h]
Hold == [what |-> "hold"]
=============================================================================
