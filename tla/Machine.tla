------------------------------- MODULE Machine ------------------------------
(***************************************************************************)
(* The instructions of the core as its pipeline tells them apart: what     *)
(* each reads, writes and asks of memory.  Data are abstract: the results  *)
(* of the alu and of the address adders are constants.                     *)
(***************************************************************************)
EXTENDS Naturals, Sequences

CONSTANTS
    None,
    Reg,            \* registers; 0 is x0
    Value,          \* contents of registers, of memory and of csrs, addresses
    PC, Reset,      \* addresses of instructions; RST_PC
    Insts,          \* the instructions a program may hold at any address
    Misaligned,     \* the addresses at which an access is misaligned
    Delegated,      \* causes handed to S: of "exc", "ebreak", "fault"
    EbreakHalts,    \* modes in which ebreak enters debug mode (dcsr)
    Result(_, _, _),    \* instruction, rs1, rs2 (or the csr): alu
    Quotient(_, _),     \* div
    Atomic(_, _),       \* lsu_alu: memory, rs2
    Taken(_, _, _),     \* does a branch jump
    Target(_, _, _),    \* instruction, its address, rs1
    Succ(_), Link(_),   \* the next address; what jal and jalr store
    Vec(_)              \* trap vectors: "M", "S", "debug", "debug_exc"

Access == {"load", "store", "lr", "sc", "amo"}
Return == {"mret", "sret", "dret"}
Op == Access \cup Return
      \cup {"alu", "div", "branch", "jal", "jalr", "csr", "sfence", "fencei"}

\* satp holds 1 for Sv39 and 0 for bare; step is a bit of dcsr.
Csr == {"scratch", "mie", "sie", "step", "satp"}

\* trap: what is wrong with the instruction in every mode (ecall, an illegal
\* word, a fault of its fetch).
Instruction ==
    [op : Op, rd : Reg, rs1 : Reg, rs2 : Reg, csr : Csr \cup {"none"}, imm : Value,
     trap : {"no", "exc", "ebreak"}]

Level == {"M", "S"}
Priv == Level \cup {"U"}

ASSUME MachineAssumption ==
    /\ {0, 1} \subseteq Value /\ 0 \in Reg /\ Reset \in PC
    /\ None \notin Value /\ None \notin PC /\ None \notin Insts
    /\ None \notin Level \cup {"debug", "stay"}
    /\ Insts \subseteq Instruction
    /\ Misaligned \subseteq Value /\ EbreakHalts \subseteq Priv
    /\ Delegated \subseteq {"exc", "ebreak", "fault"}
    /\ \A i \in Insts, a, b \in Value :
          Result(i, a, b) \in Value /\ Taken(i, a, b) \in BOOLEAN
    /\ \A a, b \in Value : Quotient(a, b) \in Value /\ Atomic(a, b) \in Value
    /\ \A i \in Insts, p \in PC, a \in Value : Target(i, p, a) \in PC
    /\ \A p \in PC : Succ(p) \in PC /\ Link(p) \in Value
    /\ \A v \in Level \cup {"debug", "debug_exc"} : Vec(v) \in PC
    /\ \A i \in Insts : i.op = "csr" => i.csr \in Csr

\* The interrupt enable of a level, and what is illegal in a mode.
Ie(l) == IF l = "M" THEN "mie" ELSE "sie"
Illegal(i, priv, debug) ==
    \/ i.op \in {"sret", "sfence", "csr"} /\ priv = "U"
    \/ (i.op = "mret" \/ i.csr = "mie") /\ priv # "M"
    \/ (i.op = "dret" \/ i.csr = "step") /\ ~debug
DecodeTrap(i, priv, debug) ==
    IF i.trap = "no" /\ Illegal(i, priv, debug) THEN "exc" ELSE i.trap

\* A transfer memory has done: read or written, where and what.
Got(a, v) == [dir |-> "read", addr |-> a, data |-> v]
Put(a, v) == [dir |-> "write", addr |-> a, data |-> v]
Transfer == [dir : {"read", "write"}, addr : Value, data : Value]

Jumps(i, a, b) == i.op \in {"jal", "jalr"} \/ (i.op = "branch" /\ Taken(i, a, b))
NextOf(i, p, a, b) == IF Jumps(i, a, b) THEN Target(i, p, a) ELSE Succ(p)

\* What a step of the machine was.
Quiet == [what |-> "none"]
Retired(i, p, bus) == [what |-> "retire", inst |-> i, pc |-> p, bus |-> bus]
Trapped(i, p, kind, bus) == [what |-> "trap", inst |-> i, pc |-> p, kind |-> kind, bus |-> bus]
Interrupted(to, bus) == [what |-> "interrupt", to |-> to, bus |-> bus]
Event ==
    {Quiet}
    \cup [what : {"retire"}, inst : Insts, pc : PC, bus : Seq(Transfer)]
    \cup [what : {"trap"}, inst : Insts, pc : PC, kind : {"exc", "ebreak", "fault"}, bus : Seq(Transfer)]
    \cup [what : {"interrupt"}, to : Level \cup {"halt", "step"}, bus : Seq(Transfer)]
=============================================================================
