------------------------------ MODULE Pipeline ------------------------------
(***************************************************************************)
(* idu.v, exu.v, lsu.v and wbu.v clocked together behind the fetch path,   *)
(* which shows decode the instruction at the address it waits for          *)
(* (InstructionStream), and in front of memory, which does the transfers.  *)
(* One step is one clock edge.  A stage register is None when its valid    *)
(* bit is clear.                                                           *)
(***************************************************************************)
EXTENDS Divider, Lsu, Traps

CONSTANT
    IllegalCsr  \* may a program hold a csr instruction or xret that is illegal where it runs

ASSUME IllegalCsrAssumption == IllegalCsr \in BOOLEAN

VARIABLES
    want,       \* address of the instruction decode waits for; None: a jump must come first
    idex,       \* ID_EX: [inst, pc, trap, a, b], the operands as decode read them
    src1, src2, \* operands taken from LS_WB while the instruction waits in EX
    jumpCnt,    \* jump_cnt: the instruction in EX has sent its jump
    csrWait,    \* csr_wait
    exls,       \* EX_LS: [inst, pc, trap, npc, operand, data]
    flushI,     \* flush_i_flag: the fence.i in EX_LS has sent its jump
    lswb,       \* LS_WB: [inst, pc, trap, npc, data]
    gpr,        \* riscv_reg, with x0
    event       \* history: what the last cycle was to the program

stageVars == <<want, idex, src1, src2, jumpCnt, csrWait, exls, flushI, lswb, gpr>>
vars == <<dividerVars, lsuVars, trapVars, stageVars, event>>

TrapKind == {"no", "exc", "ebreak", "fault"}
IdEx == [inst : Insts, pc : PC, trap : TrapKind, a : Value, b : Value]
ExLs == [inst : Insts, pc : PC, trap : TrapKind, npc : PC, operand : Value, data : Value]
LsWb == [inst : Insts, pc : PC, trap : TrapKind, npc : PC, data : Value]

ASSUME NoneAssumption == None \notin IdEx \cup ExLs \cup LsWb

TypeOK ==
    /\ DividerTypeOK /\ LsuTypeOK /\ TrapsTypeOK
    /\ want \in PC \cup {None}
    /\ idex \in IdEx \cup {None} /\ exls \in ExLs \cup {None} /\ lswb \in LsWb \cup {None}
    /\ src1 \in Value \cup {None} /\ src2 \in Value \cup {None}
    /\ jumpCnt \in BOOLEAN /\ csrWait \in BOOLEAN /\ flushI \in BOOLEAN
    /\ gpr \in [Reg -> Value]
    /\ event \in Event

Init ==
    /\ DividerInit /\ LsuInit /\ TrapsInit
    /\ want = Reset
    /\ idex = None /\ src1 = None /\ src2 = None /\ jumpCnt = FALSE /\ csrWait = FALSE
    /\ exls = None /\ flushI = FALSE /\ lswb = None
    /\ gpr = [r \in Reg |-> 0] /\ event = Quiet

-----------------------------------------------------------------------------
\* Inputs of a cycle: offer, the instruction the fetch path shows or None, and in:
\*   m       what the memory side does for the LSU
\*   scanned flush_i_ready: the data cache has been cleaned
\*   last    the division has come to its last cycle
\*   irq, halt

InLS == exls # None
To(in) == TrapTo(lswb, InLS, in.irq, in.halt)
Halted(in) == InterruptFlag(InLS, in.irq, in.halt)

-----------------------------------------------------------------------------
\* Write-back (wbu.v): what it writes, and what it flushes.

WbOp(op) == lswb # None /\ lswb.inst.op = op
WriteBack == IF WbOp("csr") THEN csr[lswb.inst.csr] ELSE lswb.data
GprStep ==
    gpr' = IF lswb # None /\ lswb.trap = "no" /\ lswb.inst.rd # 0
           THEN [gpr EXCEPT ![lswb.inst.rd] = WriteBack] ELSE gpr

SatpChange == WbOp("csr") /\ lswb.inst.csr = "satp" /\ lswb.data = 1
Refetch == SatpChange \/ WbOp("sfence")

WbFlush(in) == TrapJump(lswb, To(in)) \/ Refetch
LsExFlush(in) == WbFlush(in) \/ (lswb # None /\ (lswb.trap # "no" \/ lswb.inst.op \in Return))

-----------------------------------------------------------------------------
\* Load/store (lsu.v).

LsTrap ==
    IF exls.trap # "no" THEN exls.trap
    ELSE IF ls_error \/ (exls.inst.op \in Access /\ exls.operand \in Misaligned) THEN "fault"
    ELSE "no"

ExecuteReady(in) ==
    /\ exls # None
    /\ \/ LsTrap # "no" \/ exls.inst.op \in Return
       \/ /\ exls.inst.op \in Access => Finish
          /\ exls.inst.op = "fencei" => in.scanned

FlushIValid(in) == InLS /\ exls.inst.op = "fencei" /\ exls.trap = "no" /\ ~WbFlush(in)

\* Mutant of LsStarts: the flush in front of the access is not looked at.
LsStartsFlushed(in) == exls # None /\ LsTrap = "no" /\ exls.inst.op \in Access
LsStarts(in) ==
    exls # None /\ LsTrap = "no" /\ ~LsExFlush(in) /\ exls.inst.op \in Access

GprData == IF exls.inst.op \in {"load", "lr", "sc", "amo"} THEN ls_data ELSE exls.operand
LoadStored ==
    [inst |-> exls.inst, pc |-> exls.pc, trap |-> LsTrap, npc |-> exls.npc, data |-> GprData]
LswbStep(in) ==
    lswb' = IF ~WbFlush(in) /\ ExecuteReady(in) /\ ~LsExFlush(in) THEN LoadStored ELSE None

-----------------------------------------------------------------------------
\* Execution (exu.v): forwarding, hazards, jumps.

Writes(stage, r) == stage # None /\ r # 0 /\ stage.inst.rd = r

\* The operand of register r: read in decode as v, or captured since.
Forward(r, captured, v) ==
    IF Writes(exls, r) THEN exls.operand
    ELSE IF Writes(lswb, r) THEN lswb.data
    ELSE IF captured # None THEN captured
    ELSE v

A == Forward(idex.inst.rs1, src1, idex.a)
B == Forward(idex.inst.rs2, src2, idex.b)

\* Mutant of DataConflict: the second operand is forgotten.
DataConflictFirst == InLS /\ exls.inst.op \in Access /\ Writes(exls, idex.inst.rs1)
DataConflict ==
    /\ InLS /\ exls.inst.op \in Access
    /\ Writes(exls, idex.inst.rs1) \/ Writes(exls, idex.inst.rs2)

Divides == idex # None /\ idex.inst.op = "div" /\ idex.trap = "no" /\ ~DataConflict

DecodeReady(in) ==
    /\ idex # None
    /\ exls = None \/ ExecuteReady(in)
    /\ ~Halted(in)
    /\ idex.trap = "no" => ~DataConflict /\ (idex.inst.op = "div" => DivOValid)

Stops(stage) == stage # None /\ (stage.trap # "no" \/ stage.inst.op \in Return)

ExIdFlush(in) == LsExFlush(in) \/ Stops(exls) \/ (InLS /\ exls.inst.op = "fencei")

ExJumps == idex # None /\ ~DataConflict /\ Jumps(idex.inst, A, B)
ExIfJump == ExJumps /\ ~jumpCnt

JumpCntStep(in) ==
    jumpCnt' = IF ExIdFlush(in) \/ DecodeReady(in) THEN FALSE
               ELSE jumpCnt \/ ExJumps

\* Src: the value captured for register r, given what was captured so far.
Capture(in, r, src) ==
    IF ExIdFlush(in) \/ DecodeReady(in) THEN None
    ELSE IF Writes(lswb, r) THEN lswb.data
    ELSE src
CaptureStep(in) ==
    IF idex # None
    THEN src1' = Capture(in, idex.inst.rs1, src1) /\ src2' = Capture(in, idex.inst.rs2, src2)
    ELSE src1' = Capture(in, 0, src1) /\ src2' = Capture(in, 0, src2)

ExResult ==
    CASE idex.inst.op = "div" -> d_res
      [] idex.inst.op \in {"jal", "jalr"} -> Link(idex.pc)
      [] OTHER -> Result(idex.inst, A, B)
Executed ==
    [inst |-> idex.inst, pc |-> idex.pc, trap |-> idex.trap,
     npc |-> NextOf(idex.inst, idex.pc, A, B), operand |-> ExResult, data |-> B]
ExlsStep(in) ==
    exls' = IF LsExFlush(in) THEN None
            ELSE IF exls # None /\ ~ExecuteReady(in) THEN exls
            ELSE IF DecodeReady(in) /\ ~ExIdFlush(in) THEN Executed
            ELSE None

-----------------------------------------------------------------------------
\* Decode (idu.v): operands, the wait behind a csr instruction, the flush.

IdIfFlush(in) == ExIdFlush(in) \/ Stops(idex)

DecodedTrap(offer) == DecodeTrap(offer, priv, debug)
\* Mutant of InstReady: nothing waits for a csr instruction.
InstReadyBehind(in, offer) ==
    offer # None /\ (DecodeReady(in) \/ idex = None) /\ ~ExIfJump
InstReady(in, offer) ==
    /\ offer # None
    /\ DecodeReady(in) \/ idex = None
    /\ ~ExIfJump
    /\ ~csrWait \/ DecodedTrap(offer) # "no" \/ offer.op \in Return

ReadReg(r) == IF Writes(lswb, r) THEN lswb.data ELSE gpr[r]
Decoded(offer) ==
    [inst |-> offer, pc |-> want, trap |-> DecodedTrap(offer),
     a |-> ReadReg(offer.rs1),
     b |-> IF offer.op = "csr" THEN csr[offer.csr] ELSE ReadReg(offer.rs2)]
IdexStep(in, offer) ==
    idex' = IF ExIdFlush(in) THEN None
            ELSE IF idex # None /\ ~DecodeReady(in) THEN idex
            ELSE IF InstReady(in, offer) /\ ~IdIfFlush(in) THEN Decoded(offer)
            ELSE None

\* Mutant of CsrWaitStep: a csr instruction that retires does not end the wait.
CsrWaitForEver(in, offer) ==
    csrWait' = IF ExIdFlush(in) THEN FALSE ELSE csrWait \/ (InstReady(in, offer) /\ offer.op = "csr")
CsrWaitStep(in, offer) ==
    csrWait' = IF ExIdFlush(in) THEN FALSE
               ELSE IF InstReady(in, offer) /\ offer.op = "csr" THEN TRUE
               ELSE csrWait /\ ~WbOp("csr")

-----------------------------------------------------------------------------
\* What the fetch path is told (core_top_with_i_dcache.v): jump_flag, jump_addr.

FlushIStep(in) ==
    flushI' = IF ~FlushIValid(in) THEN flushI ELSE ~flushI \/ ~in.scanned

\* Mutant of JumpAddr: fence.i flushes and does not jump back.
JumpAddrNoFence(in) ==
    IF TrapJump(lswb, To(in)) THEN TrapAddr(lswb, To(in))
    ELSE IF Refetch THEN lswb.npc
    ELSE IF ExIfJump THEN Target(idex.inst, idex.pc, A)
    ELSE None
JumpAddr(in) ==
    IF TrapJump(lswb, To(in)) THEN TrapAddr(lswb, To(in))
    ELSE IF FlushIValid(in) /\ ~flushI THEN exls.npc
    ELSE IF Refetch THEN lswb.npc
    ELSE IF ExIfJump THEN Target(idex.inst, idex.pc, A)
    ELSE None

\* A flush drops what was fetched: without a jump only a jump can follow, except
\* behind the jump of fence.i, where nothing has been fetched since.
WantStep(in, offer) ==
    want' = IF JumpAddr(in) # None THEN JumpAddr(in)
            ELSE IF IdIfFlush(in) /\ ~flushI THEN None
            ELSE IF InstReady(in, offer) /\ ~IdIfFlush(in) THEN Succ(want)
            ELSE want

-----------------------------------------------------------------------------
EventOf(in) ==
    IF TakesDebug(lswb, InLS, in.halt)
    THEN Interrupted(IF in.halt THEN "halt" ELSE "step", bus)
    ELSE IF TakesLevel(lswb, InLS, in.irq, in.halt) THEN Interrupted(in.irq, bus)
    ELSE IF lswb = None THEN Quiet
    ELSE IF lswb.trap # "no" THEN Trapped(lswb.inst, lswb.pc, lswb.trap, bus)
    ELSE Retired(lswb.inst, lswb.pc, bus)

HistoryStep(in) ==
    /\ event' = EventOf(in)
    /\ bus' = (IF event'.what = "none" THEN bus ELSE <<>>) \o Transferred(exls, in.m)

\* What the program may hold at the address decode waits for.
MayHold ==
    {i \in Insts : i.op \in Return \cup {"csr"} =>
                     IllegalCsr \/ DecodeTrap(i, priv, debug) = "no"}

\* An instruction shown to a decode without room is as good as none.
Room(in) == want # None /\ (idex = None \/ DecodeReady(in)) /\ ~ExIfJump

Inputs ==
    [m : IF exls = None THEN {Nothing} ELSE MayDo(exls),
     scanned : IF flushI THEN BOOLEAN ELSE {FALSE},
     last : IF d_state = "DIV" THEN BOOLEAN ELSE {FALSE},
     irq : MayInterrupt, halt : MayHalt]

Shown(in) == {None} \cup (IF Room(in) THEN MayHold ELSE {})

\* One clock edge: everything behind decode, and decode with what it is shown.
Behind(in) ==
    /\ DividerStep(ExIdFlush(in), Divides, <<A, B>>, DecodeReady(in), in.last)
    /\ LsuStep(LsStarts(in), exls, in.m, ExecuteReady(in))
    /\ TrapsStep(lswb, InLS, in.irq, in.halt)
    /\ GprStep
    /\ LswbStep(in) /\ ExlsStep(in)
    /\ JumpCntStep(in) /\ CaptureStep(in) /\ FlushIStep(in)
    /\ HistoryStep(in)
Decode(in, offer) == IdexStep(in, offer) /\ CsrWaitStep(in, offer) /\ WantStep(in, offer)

Next == \E in \in Inputs : Behind(in) /\ \E offer \in Shown(in) : Decode(in, offer)

Spec == Init /\ [][Next]_vars

\* The clock runs, and where something can come it comes: an instruction from the
\* fetch path, an answer of memory, the last cycle of a division, the end of a scan.
Brings(in, offer) == offer # None \/ in.m # Nothing \/ in.last \/ in.scanned
Served ==
    \E in \in Inputs :
        /\ Behind(in)
        /\ \E offer \in Shown(in) : Brings(in, offer) /\ Decode(in, offer)
FairSpec == Spec /\ WF_vars(Next) /\ WF_vars(Served)

-----------------------------------------------------------------------------
\* The instructions in the pipeline, as the program sees them.

StepOf ==
    IF stepFlag = 0 THEN "off"
    ELSE IF stepFlag = 2 /\ exls = None /\ lswb = None THEN "spent"
    ELSE "one"

Program == INSTANCE Isa WITH
    regs <- gpr, pc <- nextPC, step <- StepOf,
    cs <- [priv |-> priv, csr |-> csr, pie |-> pie, pp |-> pp, epc |-> epc,
           dprv |-> dprv, debug |-> debug]

\* Five stages that forward, flush and interrupt are one instruction after
\* the other (idu.v, exu.v, lsu.v, wbu.v, csr.v).
ImplementsIsa == Program!Spec

\* A transfer memory was asked for is not taken back: while the LSU waits for
\* an answer its instruction stays in EX_LS, nothing that could still flush it
\* is in front of it, and it leaves with the answer (lsu.v:260, 645).
AccessCommits ==
    ls_state # "IDLE" =>
        /\ exls # None /\ exls.inst.op \in Access /\ exls.trap = "no"
        /\ lswb = None

\* Nothing that reads a csr, or forwards from one, is decoded before a csr
\* instruction has retired: LS_WB_reg_data is what it writes, not what it
\* read (idu.v:682, wbu.v:161).
CsrAlone ==
    /\ exls # None /\ exls.inst.op = "csr" /\ exls.trap = "no" => idex = None \/ Stops(idex)
    /\ WbOp("csr") /\ lswb.trap = "no" =>
          /\ exls = None \/ Stops(exls)
          /\ idex = None \/ Stops(idex)

\* While the fetch path waits for a jump, the instruction that owes it is on
\* its way to write-back (idu.v:777, the flush the fetch path is promised).
RestFlushed == want = None => Stops(idex) \/ Stops(exls) \/ Stops(lswb)

\* The pipeline never waits for itself: conflicts, csr_wait, the divider and the
\* LSU's machine all end, and another instruction retires or traps (idu.v:682,
\* exu.v:217, lsu.v:641).
Progress == []<>(event.what # "none")
=============================================================================
