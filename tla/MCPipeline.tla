----------------------------- MODULE MCPipeline -----------------------------
EXTENDS Pipeline

Inst(op, rd, rs1, rs2, imm) ==
    [op |-> op, rd |-> rd, rs1 |-> rs1, rs2 |-> rs2, csr |-> "none", imm |-> imm, trap |-> "no"]
Bare(op) == Inst(op, 0, 0, 0, 0)
CsrInst(c, rd, rs1, imm) == [Inst("csr", rd, rs1, 0, imm) EXCEPT !.csr = c]
Bad(op, trap) == [Bare(op) EXCEPT !.trap = trap]

\* One bit of data, two addresses.
MCValue == {0, 1}
MCPC == {0, 1}
MCResult(i, a, b) == IF i.op = "csr" THEN (a + i.imm) % 2 ELSE (a + b + i.imm) % 2
MCQuotient(a, b) == IF b = 0 THEN 1 ELSE a
MCAtomic(v, b) == (v + b) % 2
MCTaken(i, a, b) == a = b
MCTarget(i, p, a) == IF i.op = "jalr" THEN a ELSE p
MCSucc(p) == 1 - p
MCLink(p) == p % 2
MCVec(v) == IF v \in {"M", "debug_exc"} THEN 1 ELSE 0

\* What computes, accesses and jumps, from two registers into each other.
MCDataInsts ==
    {Inst("alu", 1, 1, 2, 1), Inst("div", 2, 1, 2, 0), Inst("branch", 0, 1, 2, 0),
     Inst("jalr", 0, 1, 0, 0), Inst("sc", 1, 2, 1, 0), Inst("amo", 2, 1, 2, 0),
     CsrInst("scratch", 2, 1, 0)}

\* What traps, returns, flushes and can be interrupted.
MCTrapInsts ==
    {Bare("store"), Bare("mret"), Bare("dret"), Bare("fencei"), CsrInst("satp", 0, 0, 1),
     CsrInst("step", 0, 0, 1), Bad("jal", "ebreak")}

\* Five addresses in a row, of which 1 is misaligned as that of a load: the
\* program of the disagreement about the divider (README 3f.4).
MCDivPC == 0 .. 4
MCDivSucc(p) == (p + 1) % 5
MCDivVec(v) == 3
MCDivInsts ==
    {Inst("alu", 1, 0, 0, 1), Inst("load", 0, 0, 0, 1), Inst("div", 2, 1, 1, 0),
     Inst("div", 2, 0, 1, 0)}
=============================================================================
