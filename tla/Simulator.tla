----------------------------- MODULE Simulator ------------------------------
(***************************************************************************)
(* The NPC simulator: its debugger (sdb.c, watchpoint.c), its loop         *)
(* (main.cpp) and the comparison of every instruction with NEMU (dut.c),   *)
(* interrupted in any step by ^C, whose handler writes what they write.    *)
(* dut is the simulated core, ref is NEMU, which knows less: reg stands    *)
(* for what both have (gpr, pc, mtvec, mstatus, mcause, mepc), csr for one *)
(* that NEMU lacks (mie, mscratch, satp, ...) and mode for the privilege,  *)
(* which NEMU lacks as well.  For csr NEMU answers with its last copy of   *)
(* the core's, for mode with M; regs.c compares all three.  The core may   *)
(* err.  Built with CONFIG_DIFFTEST and CONFIG_WATCHPOINT; LightSSS        *)
(* models the snapshots of the other build.                                *)
(***************************************************************************)
EXTENDS WatchPool

CONSTANTS
    Value,          \* of a register and of a word, 0 among them
    Batch,          \* may the simulator be started with -b, or without
    Steps,          \* counts of si
    MaxInterrupts   \* how often the user presses ^C

ASSUME SimulatorAssumption ==
    /\ 0 \in Value
    /\ Batch \subseteq BOOLEAN /\ Steps \subseteq Nat /\ MaxInterrupts \in Nat

VARIABLES
    at,             \* the place in the C code
    batch,          \* Batch_mode
    npc,            \* npc_state: [state, ret]
    left,           \* n of execute; Forever is cpu_exec(-1)
    is_skip_ref,
    inst,           \* what retired and NEMU is to execute, until difftest is done
    dut,            \* the core: [reg, csr, mode, mem]
    ref,            \* NEMU: [reg, mem]
    ref_shadow,     \* the csr of the core when difftest copied it last
    pool,           \* the watchpoints
    interrupts,
    seen            \* what has happened: [apart, alarm, covered, halted], apart if the
                    \* core erred or the program went beyond NEMU since the last copy

vars == <<at, batch, npc, left, is_skip_ref, inst, dut, ref, ref_shadow, pool,
          interrupts, seen>>
machines == <<inst, dut, ref, ref_shadow>>

Forever == -1
Counts == Steps \cup (UNION {0 .. n : n \in Steps}) \cup {Forever}
Core == [reg : Value, csr : Value, mode : {"M", "S"}, mem : Value]
Nemu == [reg : Value, mem : Value]
Beyond == {"csrw", "csrr", "mret", "ecall"}    \* what NEMU does otherwise, or not at all
External == {"device", "disk"}             \* io_skip
NoInst == [kind |-> "halt", val |-> 0]     \* also ebreak, which is not compared
Inst == [kind : {"set", "csrw", "ecall", "mret"} \cup External, val : Value]
        \cup [kind : {"load", "store", "csrr"}, val : {0}]
History == {"apart", "alarm", "covered", "halted"}

InLoop == {"exec", "check", "compare", "watch", "stop", "test"}
Places == {"batch", "prompt", "enter"} \cup InLoop \cup {"leave", "settle", "exit", "good", "bad"}
Ended == at \in {"good", "bad"}            \* by their exit status

TypeOK ==
    /\ at \in Places /\ batch \in BOOLEAN
    /\ npc \in [state : {"RUNNING", "STOP", "END", "ABORT", "QUIT"}, ret : Value \cup {1}]
    /\ left \in Counts /\ is_skip_ref \in BOOLEAN
    /\ inst \in Inst \cup {NoInst}
    /\ dut \in Core /\ ref \in Nemu /\ ref_shadow \in Value
    /\ pool \in Pools
    /\ interrupts \in 0 .. MaxInterrupts
    /\ seen \in [History -> BOOLEAN]

\* init_monitor: both machines were reset and hold the same image, and
\* init_difftest has copied the registers.
Init ==
    /\ batch \in Batch
    /\ at = IF batch THEN "batch" ELSE "prompt"
    /\ left = Forever
    /\ npc = [state |-> "STOP", ret |-> 0]
    /\ is_skip_ref = FALSE
    /\ inst = NoInst
    /\ dut \in Core /\ dut.mode = "M"
    /\ ref = [reg |-> dut.reg, mem |-> dut.mem] /\ ref_shadow = dut.csr
    /\ pool = init_wp_pool
    /\ interrupts = 0
    /\ seen = [h \in History |-> FALSE]

-----------------------------------------------------------------------------
\* Commands of the debugger, sdb_mainloop.

\* Batch mode has one command, c, and ends with it.
CmdBatch ==
    /\ at = "batch"
    /\ at' = IF npc.state = "END" THEN "exit" ELSE "enter"
    /\ UNCHANGED <<batch, npc, left, is_skip_ref, machines, pool, interrupts, seen>>

\* c and si: cpu_exec refuses to go on after the program's end.
CmdExec ==
    /\ at = "prompt"
    /\ npc.state \notin {"END", "ABORT"}
    /\ \E n \in Steps \cup {Forever} : left' = n
    /\ at' = "enter"
    /\ UNCHANGED <<batch, npc, is_skip_ref, machines, pool, interrupts, seen>>

CmdW ==
    /\ at = "prompt"
    /\ pool.free # NULL
    /\ pool' = new_wp(pool)
    /\ UNCHANGED <<at, batch, npc, left, is_skip_ref, machines, interrupts, seen>>

\* assert(0): no node is free, or w's expression has no value.
CmdWFails ==
    /\ at = "prompt"
    /\ at' = "bad"
    /\ UNCHANGED <<batch, npc, left, is_skip_ref, machines, pool, interrupts, seen>>

CmdD ==
    /\ at = "prompt"
    /\ \E w \in InUse(pool) : pool' = free_wp(pool, w)
    /\ UNCHANGED <<at, batch, npc, left, is_skip_ref, machines, interrupts, seen>>

CmdQ ==
    /\ at = "prompt"
    /\ at' = "exit"
    /\ npc' = [state |-> "QUIT", ret |-> 0]
    /\ is_skip_ref' = TRUE
    /\ UNCHANGED <<batch, left, machines, pool, interrupts, seen>>

EndOfInput ==
    /\ at = "prompt"
    /\ at' = "exit"
    /\ UNCHANGED <<batch, npc, left, is_skip_ref, machines, pool, interrupts, seen>>

-----------------------------------------------------------------------------
\* cpu_exec and execute.

\* The state was read before: a ^C in between is overwritten.
Enter ==
    /\ at = "enter"
    /\ npc' = [npc EXCEPT !.state = "RUNNING"]
    /\ at' = IF left = 0 THEN "leave" ELSE "exec"
    /\ UNCHANGED <<batch, left, is_skip_ref, machines, pool, interrupts, seen>>

\* What an instruction does to memory, in both machines.
Memory(m, i) ==
    CASE i.kind = "store" -> m.reg
      [] i.kind = "disk" -> i.val
      [] OTHER -> m.mem

\* What an instruction does to the core: ecall and mret, taken to M and to S, write
\* mstatus.
After(m, i) ==
    [reg |-> CASE i.kind \in {"set", "device", "ecall", "mret"} -> i.val
               [] i.kind = "load" -> m.mem
               [] i.kind = "csrr" -> m.csr
               [] OTHER -> m.reg,
     csr |-> IF i.kind = "csrw" THEN i.val ELSE m.csr,
     mode |-> CASE i.kind = "mret" -> "S"
                [] i.kind = "ecall" -> "M"
                [] OTHER -> m.mode,
     mem |-> Memory(m, i)]

\* What NEMU makes of it: a csr it lacks is neither written nor read, mret only
\* jumps, and ecall writes a constant to mstatus.
NemuAfter(m, i) ==
    [reg |-> CASE i.kind \in {"set", "device"} -> i.val
               [] i.kind = "load" -> m.mem
               [] i.kind = "ecall" -> 0
               [] OTHER -> m.reg,
     mem |-> Memory(m, i)]

\* The instruction that retires, which the core may get wrong.
Executes(i) ==
    /\ inst' = IF i.kind \in External THEN NoInst ELSE i
    /\ is_skip_ref' = (is_skip_ref \/ i.kind \in External)
    /\ dut' \in IF i.kind \in External THEN {After(dut, i)} ELSE Core
    /\ seen' = [seen EXCEPT !.apart = @ \/ dut' # After(dut, i) \/ i.kind \in Beyond]
    /\ UNCHANGED <<batch, npc, left, ref_shadow, pool, interrupts>>

\* Mutant of Retires: the disk writes the simulated core's memory alone.
RetiresDiskAlone ==
    /\ at = "exec" /\ at' = "check"
    /\ \E i \in Inst : Executes(i)
    /\ UNCHANGED ref

\* exec_once up to an instruction that retires.  sbi_disk writes NEMU's memory
\* too.
Retires ==
    /\ at = "exec" /\ at' = "check"
    /\ \E i \in Inst :
          /\ Executes(i)
          /\ ref' = IF i.kind = "disk" THEN [ref EXCEPT !.mem = i.val] ELSE ref

\* exec_once with an interrupt: TrapEvent hands NEMU the cause, and the first
\* instruction of the handler, in abstract-machine no store, is skipped.  The
\* interrupt writes csrs NEMU has and others, of the mode it is taken to.
TakesInterrupt ==
    /\ at = "exec" /\ at' = "check"
    /\ \E v \in Value, c \in Value, p \in {"M", "S"} :
          /\ dut' = [dut EXCEPT !.reg = v, !.csr = c, !.mode = p]
          /\ seen' = [seen EXCEPT !.apart = @ \/ p # "M"]
    /\ \E taken \in Value : ref' = [ref EXCEPT !.reg = taken]
    /\ inst' = NoInst
    /\ is_skip_ref' = TRUE
    /\ UNCHANGED <<batch, npc, left, ref_shadow, pool, interrupts>>

\* ebreak, with a0.
Halts ==
    /\ at = "exec"
    /\ npc' = [state |-> "END", ret |-> dut.reg]
    /\ is_skip_ref' = TRUE
    /\ seen' = [seen EXCEPT !.halted = TRUE]
    /\ at' = "check"
    /\ UNCHANGED <<batch, left, machines, pool, interrupts>>

\* 16384 cycles without a commit: sim_exit.
Hangs ==
    /\ at = "exec"
    /\ npc' = [state |-> "ABORT", ret |-> 1]
    /\ is_skip_ref' = TRUE
    /\ at' = "exit"
    /\ UNCHANGED <<batch, left, machines, pool, interrupts, seen>>

\* Mutant of Skips: what NEMU lacks is not copied.
SkipsKnown ==
    /\ at = "check"
    /\ is_skip_ref
    /\ ref' = [ref EXCEPT !.reg = dut.reg]
    /\ is_skip_ref' = FALSE
    /\ inst' = NoInst
    /\ at' = "watch"
    /\ UNCHANGED <<batch, npc, left, dut, ref_shadow, pool, interrupts, seen>>

\* difftest_step with is_skip_ref: NEMU gets the registers it has, and keeps the
\* others aside to answer with.  What parted them is over, but for memory and mode.
Skips ==
    /\ at = "check"
    /\ is_skip_ref
    /\ ref' = [ref EXCEPT !.reg = dut.reg]
    /\ ref_shadow' = dut.csr
    /\ seen' = [seen EXCEPT !.apart = (@ /\ dut.mem # ref.mem) \/ dut.mode # "M"]
    /\ is_skip_ref' = FALSE
    /\ inst' = NoInst
    /\ at' = "watch"
    /\ UNCHANGED <<batch, npc, left, dut, pool, interrupts>>

Checks ==
    /\ at = "check"
    /\ ~is_skip_ref
    /\ at' = "compare"
    /\ UNCHANGED <<batch, npc, left, is_skip_ref, machines, pool, interrupts, seen>>

\* difftest_step: NEMU executes the instruction, and what it answers is compared
\* with the core.
Compares ==
    /\ at = "compare"
    /\ ref' = NemuAfter(ref, inst)
    /\ IF ref'.reg = dut.reg /\ ref_shadow = dut.csr /\ dut.mode = "M"
       THEN UNCHANGED <<npc, seen>>
       ELSE /\ npc' = [npc EXCEPT !.state = "ABORT"]
            /\ seen' = [seen EXCEPT !.alarm = TRUE]
    /\ inst' = NoInst
    /\ at' = "watch"
    /\ UNCHANGED <<batch, left, is_skip_ref, dut, ref_shadow, pool, interrupts>>

\* Mutant of Watches: the program's end does not matter.
WatchesAfterEnd ==
    /\ at = "watch"
    /\ \E changed \in SUBSET InUse(pool) :
          at' = IF changed # {} THEN "stop" ELSE "test"
    /\ UNCHANGED <<batch, npc, left, is_skip_ref, machines, pool, interrupts, seen>>

\* cpu_check_watchpoint, with its assignment in Stops.  An expression may name
\* any register, the pc or memory: any watchpoint it reaches may have changed.
Watches ==
    /\ at = "watch"
    /\ \E changed \in SUBSET InUse(pool) :
          at' = IF changed # {} /\ npc.state # "END" THEN "stop" ELSE "test"
    /\ UNCHANGED <<batch, npc, left, is_skip_ref, machines, pool, interrupts, seen>>

\* The state is not RUNNING if difftest raised the alarm or ^C came in between.
Stops ==
    /\ at = "stop"
    /\ npc' = [npc EXCEPT !.state = "STOP"]
    /\ seen' = [seen EXCEPT !.covered = @ \/ seen.alarm]
    /\ at' = "test"
    /\ UNCHANGED <<batch, left, is_skip_ref, machines, pool, interrupts>>

\* Mutant of Tests: cpu_exec(-1) counts down as well.
TestsCountDown ==
    /\ at = "test"
    /\ IF npc.state # "RUNNING"
       THEN at' = "leave" /\ UNCHANGED left
       ELSE /\ left' = left - 1
            /\ at' = IF left' = 0 THEN "leave" ELSE "exec"
    /\ UNCHANGED <<batch, npc, is_skip_ref, machines, pool, interrupts, seen>>

\* Mutant of Tests: the state ^C writes is forgotten.
TestsMissEnd ==
    /\ at = "test"
    /\ IF npc.state \in {"ABORT", "STOP"}
       THEN at' = "leave" /\ UNCHANGED left
       ELSE /\ left' = IF left = Forever THEN left ELSE left - 1
            /\ at' = IF left' = 0 THEN "leave" ELSE "exec"
    /\ UNCHANGED <<batch, npc, is_skip_ref, machines, pool, interrupts, seen>>

Tests ==
    /\ at = "test"
    /\ IF npc.state # "RUNNING"
       THEN at' = "leave" /\ UNCHANGED left
       ELSE /\ left' = IF left = Forever THEN left ELSE left - 1
            /\ at' = IF left' = 0 THEN "leave" ELSE "exec"
    /\ UNCHANGED <<batch, npc, is_skip_ref, machines, pool, interrupts, seen>>

\* The end of cpu_exec, with it of execute's n; in batch mode main goes on to sim_exit.
Returned == IF batch THEN "exit" ELSE "prompt"

Leaves ==
    /\ at = "leave"
    /\ at' = IF npc.state = "RUNNING" THEN "settle" ELSE Returned
    /\ left' = Forever
    /\ UNCHANGED <<batch, npc, is_skip_ref, machines, pool, interrupts, seen>>

Settles ==
    /\ at = "settle"
    /\ npc' = [npc EXCEPT !.state = "STOP"]
    /\ at' = Returned
    /\ UNCHANGED <<batch, left, is_skip_ref, machines, pool, interrupts, seen>>

\* Mutant of Exits: only halt_ret is looked at.
ExitsByRet ==
    /\ at = "exit"
    /\ at' = IF npc.ret = 0 THEN "good" ELSE "bad"
    /\ UNCHANGED <<batch, npc, left, is_skip_ref, machines, pool, interrupts, seen>>

\* sim_exit, is_exit_status_bad.
Exits ==
    /\ at = "exit"
    /\ at' = IF npc.state = "QUIT" \/ (npc.state = "END" /\ npc.ret = 0) THEN "good" ELSE "bad"
    /\ UNCHANGED <<batch, npc, left, is_skip_ref, machines, pool, interrupts, seen>>

\* ^C: my_handler, with set_npc_state.
Interrupt ==
    /\ ~Ended
    /\ interrupts < MaxInterrupts
    /\ npc' = [state |-> "END", ret |-> dut.reg]
    /\ is_skip_ref' = TRUE
    /\ interrupts' = interrupts + 1
    /\ UNCHANGED <<at, batch, left, machines, pool, seen>>

Command == CmdExec \/ CmdW \/ CmdWFails \/ CmdD \/ CmdQ \/ EndOfInput
Difftest == Skips \/ Checks \/ Compares
Runs ==
    \/ CmdBatch \/ Enter \/ Retires \/ TakesInterrupt \/ Halts \/ Hangs
    \/ Difftest \/ Watches \/ Stops \/ Tests \/ Leaves \/ Settles \/ Exits

Next == Command \/ Runs \/ Interrupt

\* The process is scheduled; nobody has to type.
Spec == Init /\ [][Next]_vars
FairSpec == Spec /\ WF_vars(Runs)

-----------------------------------------------------------------------------
WatchesWellFormed == PoolWellFormed(pool)

\* What an alarm of difftest is worth: without ^C, the core got something wrong or
\* the program went beyond NEMU, to a csr it lacks, out of M mode or through an
\* ecall, and that since the last copy if memory and mode are what they were.  A
\* core that is right raises one in the second case.  Devices, the disk and
\* interrupts to M mode, whatever csrs they change, raise none.
AlarmExplained ==
    [][Compares /\ npc' # npc => seen.apart \/ interrupts > 0]_vars

\* The core begins no instruction with registers other than NEMU's, or than
\* NEMU's copy of the csrs it lacks, unless a watchpoint's stop covered the alarm.
RunningAgrees ==
    at = "exec" => (dut.reg = ref.reg /\ dut.csr = ref_shadow) \/ seen.covered

\* A simulator that nobody stopped reports success only if the program ended with
\* 0 and difftest never raised an uncovered alarm.
SuccessEarned ==
    at = "good" /\ npc.state # "QUIT" /\ interrupts = 0 =>
        seen.halted /\ dut.reg = 0 /\ (seen.alarm => seen.covered)

\* Once the program has ended no command makes the core run again.
HaltIsFinal == [][seen.halted => dut' = dut]_vars

\* A ^C that was not overwritten stops the loop, or hanging does.
InterruptStops == npc.state = "END" /\ at \in InLoop ~> at = "prompt" \/ Ended
=============================================================================
