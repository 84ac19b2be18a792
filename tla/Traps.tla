-------------------------------- MODULE Traps -------------------------------
(***************************************************************************)
(* csr.v: the privileged state, next_pc, and the decision, in the cycle in *)
(* which LS_WB is valid or the pipeline behind it empty, between going on, *)
(* an exception, an interrupt and debug mode.                              *)
(***************************************************************************)
EXTENDS Machine

CONSTANT
    HaltReq     \* halt_req comes "never", "not_in_step" (not while a step has still
                \* to begin) or at "any" time

ASSUME HaltAssumption == HaltReq \in {"never", "not_in_step", "any"}

VARIABLES
    priv,       \* current_priv_status_reg
    csr,        \* mscratch, the enables MIE and SIE, dcsr.step, satp
    pie, pp,    \* MPIE and SPIE, MPP and SPP
    epc,        \* mepc, sepc and dpc
    dprv,       \* dcsr.prv
    debug,      \* debug_mode_reg
    stepFlag,   \* debug_step_flag
    nextPC      \* next_pc

trapVars == <<priv, csr, pie, pp, epc, dprv, debug, stepFlag, nextPC>>

TrapsTypeOK ==
    /\ priv \in Priv /\ dprv \in Priv /\ debug \in BOOLEAN
    /\ csr \in [Csr -> Value]
    /\ pie \in [Level -> Value]
    /\ pp \in [Level -> Priv]
    /\ epc \in [Level \cup {"debug"} -> PC]
    /\ stepFlag \in 0 .. 2
    /\ nextPC \in PC

TrapsInit ==
    /\ priv = "M" /\ csr = [c \in Csr |-> 0]
    /\ pie = [l \in Level |-> 0]
    /\ pp = [l \in Level |-> IF l = "M" THEN "M" ELSE "U"]
    /\ epc = [l \in Level \cup {"debug"} |-> Reset]
    /\ dprv = "M" /\ debug = FALSE
    /\ stepFlag = 0 /\ nextPC = Reset

-----------------------------------------------------------------------------
\* Wires.  w: LS_WB; inLS: EX_LS is valid; irq: the level of the pending
\* interrupt of the highest priority, or None; halt: halt_req.

Enabled(l) ==
    IF l = "M" THEN csr["mie"] # 0 \/ priv # "M"
    ELSE (csr["sie"] # 0 \/ priv = "U") /\ priv # "M"

StepDue(inLS) == (stepFlag = 1 /\ inLS) \/ stepFlag = 2
InterruptDebug(inLS, halt) == (halt \/ StepDue(inLS)) /\ ~debug
InterruptLevel(inLS, irq, halt) == irq # None /\ ~InterruptDebug(inLS, halt) /\ ~debug

\* WB_EX_interrupt_flag.
InterruptFlag(inLS, irq, halt) ==
    InterruptDebug(inLS, halt) \/ InterruptLevel(inLS, irq, halt)

Faulty(w) == w # None /\ w.trap # "no"
Empty(w, inLS) == w = None /\ ~inLS

\* trap_m_interrupt or trap_s_interrupt, and trap_debug_interrupt.
TakesLevel(w, inLS, irq, halt) ==
    InterruptLevel(inLS, irq, halt) /\ (Empty(w, inLS) \/ Faulty(w))
\* Mutant of TakesDebug: the end of a step overtakes the exception of its instruction.
TakesDebugEarly(w, inLS, halt) == InterruptDebug(inLS, halt) /\ (Empty(w, inLS) \/ Faulty(w))
TakesDebug(w, inLS, halt) ==
    InterruptDebug(inLS, halt) /\ (Empty(w, inLS) \/ (Faulty(w) /\ halt))
TakesAny(w, inLS, irq, halt) == TakesLevel(w, inLS, irq, halt) \/ TakesDebug(w, inLS, halt)

Exception(w, inLS, irq, halt) == Faulty(w) /\ ~TakesAny(w, inLS, irq, halt)
BreakIntoDebug(w) == w.trap = "ebreak" /\ priv \in EbreakHalts /\ ~debug

\* Where the trap goes: a level, "debug", "stay" (an exception in debug mode), None.
TrapTo(w, inLS, irq, halt) ==
    IF TakesDebug(w, inLS, halt) THEN "debug"
    ELSE IF TakesLevel(w, inLS, irq, halt) THEN irq
    ELSE IF ~Exception(w, inLS, irq, halt) THEN None
    ELSE IF debug THEN "stay"
    ELSE IF BreakIntoDebug(w) THEN "debug"
    ELSE IF w.trap \in Delegated /\ priv # "M" THEN "S"
    ELSE "M"

IsReturn(w) == w # None /\ w.inst.op \in Return

\* WB_IF_jump_flag and WB_IF_jump_addr.
TrapJump(w, to) == to # None \/ IsReturn(w)
TrapAddr(w, to) ==
    CASE to = "stay"  -> Vec(IF w.trap = "ebreak" THEN "debug" ELSE "debug_exc")
      [] to \in Level \cup {"debug"} -> Vec(to)
      [] OTHER -> epc[CASE w.inst.op = "mret" -> "M" [] w.inst.op = "sret" -> "S"
                        [] OTHER -> "debug"]

\* epc: next_pc for an interrupt, the instruction's own pc for an exception.
SavedPC(w, inLS, irq, halt) == IF TakesAny(w, inLS, irq, halt) THEN nextPC ELSE w.pc

-----------------------------------------------------------------------------
\* The registers at a clock edge, each with its own chain of conditions: a csr
\* instruction comes first unless the trap goes to M or S, then the trap, then xret.

CsrWen(w, to) == w # None /\ w.inst.op = "csr" /\ to \notin Level
IsOp(w, op) == w # None /\ w.inst.op = op
Written(w) == w.data

StatusStep(w, to) ==
    IF CsrWen(w, to)
    THEN csr' = [csr EXCEPT ![w.inst.csr] = Written(w)] /\ UNCHANGED <<pie, pp>>
    ELSE IF to \in Level
    THEN /\ pp' = [pp EXCEPT ![to] = priv]
         /\ pie' = [pie EXCEPT ![to] = csr[Ie(to)]]
         /\ csr' = [csr EXCEPT ![Ie(to)] = 0]
    ELSE IF IsOp(w, "mret") \/ IsOp(w, "sret")
    THEN LET l == IF IsOp(w, "mret") THEN "M" ELSE "S"
         IN /\ pp' = [pp EXCEPT ![l] = "U"]
            /\ pie' = [pie EXCEPT ![l] = 1]
            /\ csr' = [csr EXCEPT ![Ie(l)] = pie[l]]
    ELSE UNCHANGED <<csr, pie, pp>>

PrivStep(w, to) ==
    /\ priv' = IF to = "debug" THEN "M"
               ELSE IF to \in Level THEN to
               ELSE IF IsOp(w, "mret") THEN pp["M"]
               ELSE IF IsOp(w, "sret") THEN pp["S"]
               ELSE IF IsOp(w, "dret") THEN dprv
               ELSE priv
    /\ dprv' = IF to = "debug" /\ ~(CsrWen(w, to) /\ w.inst.csr = "step") THEN priv ELSE dprv
    /\ debug' = (to = "debug" \/ (debug /\ ~(IsOp(w, "dret") /\ ~Faulty(w))))

EpcStep(to, saved) == epc' = IF to \in Level \cup {"debug"} THEN [epc EXCEPT ![to] = saved] ELSE epc

StepFlagStep(w, inLS, to) ==
    stepFlag' = IF IsOp(w, "dret") /\ ~Faulty(w) /\ csr["step"] # 0 THEN 1
                ELSE IF stepFlag = 1 /\ inLS THEN 2
                ELSE IF stepFlag = 2 /\ to = "debug" THEN 0
                ELSE stepFlag

NextPcStep(w, to) ==
    nextPC' = IF TrapJump(w, to) THEN TrapAddr(w, to)
              ELSE IF w # None THEN w.npc
              ELSE nextPC

TrapsStep(w, inLS, irq, halt) ==
    LET to == TrapTo(w, inLS, irq, halt)
    IN /\ StatusStep(w, to)
       /\ PrivStep(w, to)
       /\ EpcStep(to, SavedPC(w, inLS, irq, halt))
       /\ StepFlagStep(w, inLS, to)
       /\ NextPcStep(w, to)

\* What interrupts the environment may raise now.
MayInterrupt == {None} \cup {l \in Level : Enabled(l)}
MayHalt ==
    IF HaltReq = "never" \/ (HaltReq = "not_in_step" /\ stepFlag = 1) THEN {FALSE} ELSE BOOLEAN
=============================================================================
