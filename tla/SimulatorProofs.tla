-------------------------- MODULE SimulatorProofs ---------------------------
(***************************************************************************)
(* What the comparison with NEMU promises, and what the debugger's two     *)
(* lists of watchpoints keep, for every width of a word, size of the pool, *)
(* count of si and number of ^C.                                           *)
(***************************************************************************)
EXTENDS Simulator, FiniteSetTheorems, WellFoundedInduction, TLAPS

\* The types the first argument needs: all but the pool's and the counts'.
CoreOK ==
    /\ at \in Places
    /\ npc \in [state : {"RUNNING", "STOP", "END", "ABORT", "QUIT"}, ret : Value \cup {1}]
    /\ is_skip_ref \in BOOLEAN
    /\ inst \in Inst \cup {NoInst}
    /\ dut \in Core /\ ref \in Nemu /\ ref_shadow \in Value
    /\ interrupts \in Nat
    /\ seen \in [History -> BOOLEAN]

\* As long as nothing parted them, and without ^C, both machines are the same
\* before and after an instruction; in between NEMU is one instruction behind, or
\* has the same memory.
InSync ==
    ~seen.apart /\ interrupts = 0 =>
        /\ dut.mode = "M"
        /\ at \notin {"check", "compare"} =>
              dut.reg = ref.reg /\ dut.mem = ref.mem /\ dut.csr = ref_shadow
        /\ at \notin {"check", "exit", "good", "bad"} => ~is_skip_ref
        /\ at = "check" /\ is_skip_ref => dut.mem = ref.mem
        /\ at = "compare" \/ (at = "check" /\ ~is_skip_ref) =>
              /\ dut.reg = NemuAfter(ref, inst).reg
              /\ dut.mem = NemuAfter(ref, inst).mem
              /\ dut.csr = ref_shadow

\* Registers differ behind the comparison only after an alarm, and an alarm that
\* no watchpoint covered keeps the loop from going on.
AlarmHolds ==
    /\ ~seen.alarm /\ at \notin {"check", "compare"} =>
          dut.reg = ref.reg /\ dut.csr = ref_shadow
    /\ seen.alarm /\ ~seen.covered =>
          /\ npc.state \in {"ABORT", "END", "QUIT"}
          /\ at \in {"watch", "stop", "test", "leave", "prompt", "exit", "good", "bad"}

\* After ebreak the state stays END until q.
HaltHolds ==
    /\ npc.state = "QUIT" => at \in {"exit", "good", "bad"}
    /\ seen.halted =>
          /\ npc.state \in {"END", "QUIT"}
          /\ at \in {"check", "watch", "test", "leave", "prompt", "exit", "good", "bad"}
          /\ at = "check" => is_skip_ref
          /\ seen.alarm => seen.covered

\* Who reports success has the program's own END, or was stopped.
EndHolds ==
    /\ interrupts = 0 /\ npc.state = "END" => seen.halted /\ npc.ret = dut.reg
    /\ at = "good" => npc.state = "QUIT" \/ (npc.state = "END" /\ npc.ret = 0)

IInv == CoreOK /\ InSync /\ AlarmHolds /\ HaltHolds /\ EndHolds

-----------------------------------------------------------------------------
LEMMA AfterCore ==
    ASSUME NEW m \in Core, NEW i \in Inst
    PROVE  After(m, i) \in Core
  BY SimulatorAssumption DEF After, Memory, Core, Inst, External

LEMMA NemuTyped ==
    ASSUME NEW m \in Nemu, NEW i \in Inst \cup {NoInst}
    PROVE  NemuAfter(m, i) \in Nemu
  <1>1. CASE i \in Inst
    BY <1>1, SimulatorAssumption DEF NemuAfter, Memory, Nemu, Inst, External
  <1>2. CASE i = NoInst
    BY <1>2 DEF NemuAfter, Memory, Nemu, NoInst
  <1> QED BY <1>1, <1>2

\* Where the program stays with what NEMU has, both do the same.
LEMMA NemuFollows ==
    ASSUME NEW m \in Core, NEW n \in Nemu, NEW i \in Inst, i.kind \notin Beyond,
           m.reg = n.reg, m.mem = n.mem
    PROVE  /\ After(m, i).reg = NemuAfter(n, i).reg
           /\ After(m, i).mem = NemuAfter(n, i).mem
           /\ After(m, i).csr = m.csr /\ After(m, i).mode = m.mode
  BY DEF After, NemuAfter, Memory, Inst, External, Beyond

LEMMA InitIInv == Init => IInv
  <1> SUFFICES ASSUME Init PROVE IInv
    OBVIOUS
  <1>1. /\ at \in {"batch", "prompt"} /\ npc = [state |-> "STOP", ret |-> 0]
        /\ is_skip_ref = FALSE /\ inst = NoInst
        /\ dut \in Core /\ dut.mode = "M" /\ ref = [reg |-> dut.reg, mem |-> dut.mem]
        /\ ref_shadow = dut.csr /\ interrupts = 0
        /\ ~seen.alarm /\ ~seen.covered /\ ~seen.halted
        /\ seen \in [History -> BOOLEAN]
    BY DEF Init, History
  <1>2. CoreOK
    BY <1>1, SimulatorAssumption DEF CoreOK, Places, Core, Nemu
  <1>3. InSync
    BY <1>1 DEF InSync
  <1>4. AlarmHolds
    BY <1>1 DEF AlarmHolds
  <1>5. HaltHolds
    BY <1>1 DEF HaltHolds
  <1>6. EndHolds
    BY <1>1 DEF EndHolds
  <1> QED BY <1>2, <1>3, <1>4, <1>5, <1>6 DEF IInv

LEMMA NextIInv == IInv /\ [Next]_vars => IInv'
  <1> SUFFICES ASSUME IInv, [Next]_vars PROVE IInv'
    OBVIOUS
  <1> USE DEF IInv, Places, InLoop, History
  <1>1. CASE CmdExec
    <2>1. CoreOK'
      BY <1>1 DEF CoreOK, CmdExec, machines
    <2>2. InSync'
      BY <1>1 DEF InSync, CmdExec, machines
    <2>3. AlarmHolds'
      BY <1>1 DEF AlarmHolds, HaltHolds, CmdExec, machines
    <2>4. HaltHolds'
      BY <1>1 DEF HaltHolds, CmdExec, machines
    <2>5. EndHolds'
      BY <1>1 DEF EndHolds, CmdExec, machines
    <2> QED BY <2>1, <2>2, <2>3, <2>4, <2>5
  <1>2. CASE CmdW
    <2>1. CoreOK'
      BY <1>2 DEF CoreOK, CmdW, machines
    <2>2. InSync'
      BY <1>2 DEF InSync, CmdW, machines
    <2>3. AlarmHolds'
      BY <1>2 DEF AlarmHolds, CmdW, machines
    <2>4. HaltHolds'
      BY <1>2 DEF HaltHolds, CmdW, machines
    <2>5. EndHolds'
      BY <1>2 DEF EndHolds, CmdW, machines
    <2> QED BY <2>1, <2>2, <2>3, <2>4, <2>5
  <1>3. CASE CmdWFails
    <2>1. CoreOK'
      BY <1>3 DEF CoreOK, CmdWFails, machines
    <2>2. InSync'
      BY <1>3 DEF InSync, CmdWFails, machines
    <2>3. AlarmHolds'
      BY <1>3 DEF AlarmHolds, CmdWFails, machines
    <2>4. HaltHolds'
      BY <1>3 DEF HaltHolds, CmdWFails, machines
    <2>5. EndHolds'
      BY <1>3 DEF EndHolds, CmdWFails, machines
    <2> QED BY <2>1, <2>2, <2>3, <2>4, <2>5
  <1>4. CASE CmdD
    <2>1. CoreOK'
      BY <1>4 DEF CoreOK, CmdD, machines
    <2>2. InSync'
      BY <1>4 DEF InSync, CmdD, machines
    <2>3. AlarmHolds'
      BY <1>4 DEF AlarmHolds, CmdD, machines
    <2>4. HaltHolds'
      BY <1>4 DEF HaltHolds, CmdD, machines
    <2>5. EndHolds'
      BY <1>4 DEF EndHolds, CmdD, machines
    <2> QED BY <2>1, <2>2, <2>3, <2>4, <2>5
  <1>5. CASE CmdQ
    <2>1. CoreOK'
      BY <1>5, SimulatorAssumption DEF CoreOK, CmdQ, machines
    <2>2. InSync'
      BY <1>5 DEF InSync, CmdQ, machines
    <2>3. AlarmHolds'
      BY <1>5 DEF AlarmHolds, CmdQ, machines
    <2>4. HaltHolds'
      BY <1>5 DEF HaltHolds, CmdQ, machines
    <2>5. EndHolds'
      BY <1>5 DEF EndHolds, CmdQ, machines
    <2> QED BY <2>1, <2>2, <2>3, <2>4, <2>5
  <1>6. CASE EndOfInput
    <2>1. CoreOK'
      BY <1>6 DEF CoreOK, EndOfInput, machines
    <2>2. InSync'
      BY <1>6 DEF InSync, EndOfInput, machines
    <2>3. AlarmHolds'
      BY <1>6 DEF AlarmHolds, EndOfInput, machines
    <2>4. HaltHolds'
      BY <1>6 DEF HaltHolds, EndOfInput, machines
    <2>5. EndHolds'
      BY <1>6 DEF EndHolds, EndOfInput, machines
    <2> QED BY <2>1, <2>2, <2>3, <2>4, <2>5
  <1>7. CASE CmdBatch
    <2>1. CoreOK'
      BY <1>7 DEF CoreOK, CmdBatch, machines
    <2>2. InSync'
      BY <1>7 DEF InSync, CmdBatch, machines
    <2>3. AlarmHolds'
      BY <1>7 DEF AlarmHolds, CmdBatch, machines
    <2>4. HaltHolds'
      BY <1>7 DEF HaltHolds, CmdBatch, machines
    <2>5. EndHolds'
      BY <1>7 DEF EndHolds, CmdBatch, machines
    <2> QED BY <2>1, <2>2, <2>3, <2>4, <2>5
  <1>8. CASE Enter
    <2>1. CoreOK'
      BY <1>8 DEF CoreOK, Enter, machines
    <2>2. InSync'
      BY <1>8 DEF InSync, Enter, machines
    <2>3. AlarmHolds'
      BY <1>8 DEF AlarmHolds, Enter, machines
    <2>4. HaltHolds'
      BY <1>8 DEF HaltHolds, Enter, machines
    <2>5. EndHolds'
      BY <1>8 DEF EndHolds, Enter, machines
    <2> QED BY <2>1, <2>2, <2>3, <2>4, <2>5
  <1>9. CASE Retires
    <2>a. PICK i \in Inst :
            /\ inst' = IF i.kind \in External THEN NoInst ELSE i
            /\ is_skip_ref' = (is_skip_ref \/ i.kind \in External)
            /\ dut' \in IF i.kind \in External THEN {After(dut, i)} ELSE Core
            /\ ref' = IF i.kind = "disk" THEN [ref EXCEPT !.mem = i.val] ELSE ref
            /\ seen' = [seen EXCEPT !.apart = @ \/ dut' # After(dut, i) \/ i.kind \in Beyond]
      BY <1>9 DEF Retires, Executes
    <2>b. /\ at = "exec" /\ at' = "check" /\ npc' = npc /\ interrupts' = interrupts
          /\ ref_shadow' = ref_shadow
      BY <1>9 DEF Retires, Executes
    <2>c. seen' \in [History -> BOOLEAN]
      <3>1. (dut' # After(dut, i)) \in BOOLEAN /\ (i.kind \in Beyond) \in BOOLEAN
        OBVIOUS
      <3> QED BY <2>a, <3>1, Zenon DEF CoreOK
    <2>d. /\ seen'.alarm = seen.alarm /\ seen'.covered = seen.covered
          /\ seen'.halted = seen.halted
      BY <2>a DEF CoreOK
    <2>e. ~seen'.apart => ~seen.apart /\ dut' = After(dut, i) /\ i.kind \notin Beyond
      BY <2>a DEF CoreOK
    <2>1. CoreOK'
      <3>1. dut' \in Core
        BY <2>a, AfterCore DEF CoreOK
      <3>2. ref' \in Nemu
        BY <2>a DEF CoreOK, Nemu, Inst, External
      <3> QED BY <2>a, <2>b, <2>c, <3>1, <3>2 DEF CoreOK
    <2>2. InSync'
      <3> SUFFICES ASSUME ~seen'.apart, interrupts' = 0
                   PROVE  /\ dut'.mode = "M"
                          /\ is_skip_ref' => dut'.mem = ref'.mem
                          /\ ~is_skip_ref' =>
                                /\ dut'.reg = NemuAfter(ref', inst').reg
                                /\ dut'.mem = NemuAfter(ref', inst').mem
                                /\ dut'.csr = ref_shadow'
        BY <2>b DEF InSync
      <3>1. /\ ~is_skip_ref /\ dut.mode = "M" /\ dut.csr = ref_shadow
            /\ dut.reg = ref.reg /\ dut.mem = ref.mem
        BY <2>b, <2>e DEF InSync
      <3>2. /\ dut'.reg = NemuAfter(ref, i).reg /\ dut'.mem = NemuAfter(ref, i).mem
            /\ dut'.csr = ref_shadow /\ dut'.mode = "M"
        <4>1. dut \in Core /\ ref \in Nemu
          BY DEF CoreOK
        <4> QED BY <2>e, <3>1, <4>1, NemuFollows
      <3>3. is_skip_ref' => dut'.mem = ref'.mem
        <4>1. CASE i.kind = "disk"
          BY <2>a, <3>2, <4>1 DEF NemuAfter, Memory, CoreOK, Nemu
        <4>2. CASE i.kind = "device"
          BY <2>a, <3>1, <3>2, <4>2 DEF NemuAfter, Memory
        <4> QED BY <2>a, <3>1, <4>1, <4>2 DEF External
      <3>4. ~is_skip_ref' => ref' = ref /\ inst' = i
        BY <2>a, <3>1 DEF External
      <3> QED BY <2>b, <3>2, <3>3, <3>4
    <2>3. AlarmHolds'
      BY <2>b, <2>d DEF AlarmHolds
    <2>4. HaltHolds'
      BY <2>b, <2>d DEF HaltHolds
    <2>5. EndHolds'
      BY <2>b, <2>d DEF EndHolds, HaltHolds
    <2> QED BY <2>1, <2>2, <2>3, <2>4, <2>5
  <1>10. CASE TakesInterrupt
    <2>t. PICK taken \in Value : ref' = [ref EXCEPT !.reg = taken]
      BY <1>10, Zenon DEF TakesInterrupt
    <2>a. PICK v \in Value, c \in Value, p \in {"M", "S"} :
            /\ dut' = [dut EXCEPT !.reg = v, !.csr = c, !.mode = p]
            /\ seen' = [seen EXCEPT !.apart = @ \/ p # "M"]
      BY <1>10, Zenon DEF TakesInterrupt
    <2>b. /\ at = "exec" /\ at' = "check" /\ npc' = npc /\ interrupts' = interrupts
          /\ ref_shadow' = ref_shadow /\ inst' = NoInst /\ is_skip_ref' = TRUE
      BY <1>10 DEF TakesInterrupt
    <2>c. /\ seen' \in [History -> BOOLEAN]
          /\ seen'.alarm = seen.alarm /\ seen'.covered = seen.covered
          /\ seen'.halted = seen.halted
          /\ ~seen'.apart => ~seen.apart /\ p = "M"
      BY <2>a DEF CoreOK
    <2>d. /\ dut' \in Core /\ dut'.mode = p /\ dut'.mem = dut.mem
          /\ ref' \in Nemu /\ ref'.mem = ref.mem
      BY <2>a, <2>t DEF CoreOK, Core, Nemu
    <2>1. CoreOK'
      BY <2>b, <2>c, <2>d DEF CoreOK
    <2>2. InSync'
      BY <2>b, <2>c, <2>d DEF InSync
    <2>3. AlarmHolds'
      BY <2>b, <2>c DEF AlarmHolds
    <2>4. HaltHolds'
      BY <2>b, <2>c DEF HaltHolds
    <2>5. EndHolds'
      BY <2>b, <2>c DEF EndHolds, HaltHolds
    <2> QED BY <2>1, <2>2, <2>3, <2>4, <2>5
  <1>11. CASE Halts
    <2>a. /\ seen' \in [History -> BOOLEAN]
          /\ seen'.halted /\ seen'.alarm = seen.alarm /\ seen'.covered = seen.covered
      BY <1>11 DEF Halts, CoreOK
    <2>b. dut.reg \in Value
      BY DEF CoreOK, Core
    <2>1. CoreOK'
      BY <1>11, <2>a, <2>b DEF CoreOK, Halts, machines
    <2>2. InSync'
      BY <1>11 DEF InSync, Halts, machines
    <2>3. AlarmHolds'
      BY <1>11 DEF AlarmHolds, Halts, machines
    <2>4. HaltHolds'
      BY <1>11, <2>a DEF HaltHolds, AlarmHolds, Halts, machines
    <2>5. EndHolds'
      BY <1>11 DEF EndHolds, Halts, machines
    <2> QED BY <2>1, <2>2, <2>3, <2>4, <2>5
  <1>12. CASE Hangs
    <2>1. CoreOK'
      BY <1>12 DEF CoreOK, Hangs, machines
    <2>2. InSync'
      BY <1>12 DEF InSync, Hangs, machines
    <2>3. AlarmHolds'
      BY <1>12 DEF AlarmHolds, Hangs, machines
    <2>4. HaltHolds'
      BY <1>12 DEF HaltHolds, Hangs, machines
    <2>5. EndHolds'
      BY <1>12 DEF EndHolds, Hangs, machines
    <2> QED BY <2>1, <2>2, <2>3, <2>4, <2>5
  <1>13. CASE Skips
    <2>a. /\ at = "check" /\ at' = "watch" /\ is_skip_ref' = FALSE /\ inst' = NoInst
          /\ npc' = npc /\ dut' = dut /\ interrupts' = interrupts
          /\ ref' = [ref EXCEPT !.reg = dut.reg] /\ ref_shadow' = dut.csr
          /\ is_skip_ref
      BY <1>13 DEF Skips
    <2>b. ref' \in Nemu /\ ref'.reg = dut.reg /\ ref'.mem = ref.mem /\ dut.csr \in Value
      BY <2>a DEF CoreOK, Core, Nemu
    <2>c. /\ seen' \in [History -> BOOLEAN]
          /\ seen'.alarm = seen.alarm /\ seen'.covered = seen.covered
          /\ seen'.halted = seen.halted
          /\ ~seen'.apart => dut.mode = "M" /\ (seen.apart => dut.mem = ref.mem)
      <3>1. (dut.mem # ref.mem) \in BOOLEAN /\ (dut.mode # "M") \in BOOLEAN
        OBVIOUS
      <3>2. seen' = [seen EXCEPT !.apart = (@ /\ dut.mem # ref.mem) \/ dut.mode # "M"]
        BY <1>13 DEF Skips
      <3>3. seen' \in [History -> BOOLEAN]
        BY <3>1, <3>2, Zenon DEF CoreOK
      <3> QED BY <3>2, <3>3 DEF CoreOK
    <2>1. CoreOK'
      BY <2>a, <2>b, <2>c DEF CoreOK
    <2>2. InSync'
      <3>1. ~seen.apart /\ interrupts = 0 => dut.mem = ref.mem
        BY <2>a DEF InSync
      <3> QED BY <2>a, <2>b, <2>c, <3>1 DEF InSync
    <2>3. AlarmHolds'
      BY <2>a, <2>b, <2>c DEF AlarmHolds
    <2>4. HaltHolds'
      BY <2>a, <2>c DEF HaltHolds
    <2>5. EndHolds'
      BY <2>a, <2>c DEF EndHolds
    <2> QED BY <2>1, <2>2, <2>3, <2>4, <2>5
  <1>14. CASE Checks
    <2>1. CoreOK'
      BY <1>14 DEF CoreOK, Checks, machines
    <2>2. InSync'
      BY <1>14 DEF InSync, Checks, machines
    <2>3. AlarmHolds'
      BY <1>14 DEF AlarmHolds, Checks, machines
    <2>4. HaltHolds'
      BY <1>14 DEF HaltHolds, Checks, machines
    <2>5. EndHolds'
      BY <1>14 DEF EndHolds, Checks, machines
    <2> QED BY <2>1, <2>2, <2>3, <2>4, <2>5
  <1>15. CASE Compares
    <2>a. /\ ref' = NemuAfter(ref, inst) /\ dut' = dut /\ inst' = NoInst
          /\ at = "compare" /\ at' = "watch" /\ ref_shadow' = ref_shadow
          /\ is_skip_ref' = is_skip_ref /\ interrupts' = interrupts
      BY <1>15 DEF Compares
    <2>b. /\ seen' \in [History -> BOOLEAN]
          /\ seen'.apart = seen.apart /\ seen'.covered = seen.covered
          /\ seen'.halted = seen.halted
          /\ IF ref'.reg = dut.reg /\ ref_shadow = dut.csr /\ dut.mode = "M"
             THEN seen'.alarm = seen.alarm /\ npc' = npc
             ELSE seen'.alarm /\ npc' = [npc EXCEPT !.state = "ABORT"]
      BY <1>15 DEF Compares, CoreOK
    <2>c. ~seen.halted
      BY <2>a DEF HaltHolds
    <2>d. npc \in [state : {"RUNNING", "STOP", "END", "ABORT", "QUIT"}, ret : Value \cup {1}]
      BY DEF CoreOK
    <2>1. CoreOK'
      <3>1. ref' \in Nemu
        BY <2>a, NemuTyped DEF CoreOK
      <3> QED BY <2>a, <2>b, <3>1 DEF CoreOK
    <2>2. InSync'
      BY <2>a, <2>b DEF InSync
    <2>3. AlarmHolds'
      <3>1. seen.alarm => seen.covered
        BY <2>a DEF AlarmHolds
      <3> QED BY <2>a, <2>b, <2>d, <3>1 DEF AlarmHolds
    <2>4. HaltHolds'
      BY <2>a, <2>b, <2>c DEF HaltHolds, CoreOK
    <2>5. EndHolds'
      BY <2>a, <2>b, <2>c DEF EndHolds, CoreOK
    <2> QED BY <2>1, <2>2, <2>3, <2>4, <2>5
  <1>16. CASE Watches
    <2>1. CoreOK'
      BY <1>16 DEF CoreOK, Watches, machines
    <2>2. InSync'
      BY <1>16 DEF InSync, Watches, machines
    <2>3. AlarmHolds'
      BY <1>16 DEF AlarmHolds, Watches, machines
    <2>4. HaltHolds'
      BY <1>16 DEF HaltHolds, Watches, machines
    <2>5. EndHolds'
      BY <1>16 DEF EndHolds, Watches, machines
    <2> QED BY <2>1, <2>2, <2>3, <2>4, <2>5
  <1>17. CASE Stops
    <2>1. CoreOK'
      BY <1>17 DEF CoreOK, Stops, machines
    <2>2. InSync'
      BY <1>17 DEF InSync, Stops, machines
    <2>3. AlarmHolds'
      <3>1. seen'.alarm = seen.alarm /\ (seen.alarm => seen'.covered)
        BY <1>17 DEF Stops, CoreOK
      <3> QED BY <1>17, <3>1 DEF AlarmHolds, Stops, machines
    <2>4. HaltHolds'
      BY <1>17 DEF HaltHolds, Stops, machines
    <2>5. EndHolds'
      BY <1>17 DEF EndHolds, Stops, machines
    <2> QED BY <2>1, <2>2, <2>3, <2>4, <2>5
  <1>18. CASE Tests
    <2>1. CoreOK'
      BY <1>18 DEF CoreOK, Tests, machines
    <2>2. InSync'
      BY <1>18 DEF InSync, Tests, machines
    <2>3. AlarmHolds'
      BY <1>18 DEF AlarmHolds, Tests, machines
    <2>4. HaltHolds'
      BY <1>18 DEF HaltHolds, Tests, machines
    <2>5. EndHolds'
      BY <1>18 DEF EndHolds, Tests, machines
    <2> QED BY <2>1, <2>2, <2>3, <2>4, <2>5
  <1>19. CASE Leaves
    <2>1. CoreOK'
      BY <1>19 DEF CoreOK, Leaves, Returned, machines
    <2>2. InSync'
      BY <1>19 DEF InSync, Leaves, Returned, machines
    <2>3. AlarmHolds'
      BY <1>19 DEF AlarmHolds, Leaves, Returned, machines
    <2>4. HaltHolds'
      BY <1>19 DEF HaltHolds, Leaves, Returned, machines
    <2>5. EndHolds'
      BY <1>19 DEF EndHolds, Leaves, Returned, machines
    <2> QED BY <2>1, <2>2, <2>3, <2>4, <2>5
  <1>20. CASE Settles
    <2>1. CoreOK'
      BY <1>20 DEF CoreOK, Settles, Returned, machines
    <2>2. InSync'
      BY <1>20 DEF InSync, Settles, Returned, machines
    <2>3. AlarmHolds'
      BY <1>20 DEF AlarmHolds, Settles, Returned, machines
    <2>4. HaltHolds'
      BY <1>20 DEF HaltHolds, Settles, Returned, machines
    <2>5. EndHolds'
      BY <1>20 DEF EndHolds, Settles, Returned, machines
    <2> QED BY <2>1, <2>2, <2>3, <2>4, <2>5
  <1>21. CASE Exits
    <2>1. CoreOK'
      BY <1>21 DEF CoreOK, Exits, machines
    <2>2. InSync'
      BY <1>21 DEF InSync, Exits, machines
    <2>3. AlarmHolds'
      BY <1>21 DEF AlarmHolds, Exits, machines
    <2>4. HaltHolds'
      BY <1>21 DEF HaltHolds, Exits, machines
    <2>5. EndHolds'
      BY <1>21 DEF EndHolds, Exits, machines
    <2> QED BY <2>1, <2>2, <2>3, <2>4, <2>5
  <1>22. CASE Interrupt
    <2>1. CoreOK'
      <3>1. dut.reg \in Value
        BY DEF CoreOK, Core
      <3> QED BY <1>22, <3>1 DEF CoreOK, Interrupt, machines
    <2>2. InSync'
      BY <1>22 DEF CoreOK, InSync, Interrupt, machines
    <2>3. AlarmHolds'
      BY <1>22 DEF AlarmHolds, Interrupt, machines
    <2>4. HaltHolds'
      BY <1>22 DEF HaltHolds, Interrupt, machines
    <2>5. EndHolds'
      BY <1>22 DEF CoreOK, EndHolds, Interrupt, Ended, machines
    <2> QED BY <2>1, <2>2, <2>3, <2>4, <2>5
  <1>23. CASE UNCHANGED vars
    <2>1. CoreOK'
      BY <1>23 DEF CoreOK, vars, machines
    <2>2. InSync'
      BY <1>23 DEF InSync, vars, machines
    <2>3. AlarmHolds'
      BY <1>23 DEF AlarmHolds, vars, machines
    <2>4. HaltHolds'
      BY <1>23 DEF HaltHolds, vars, machines
    <2>5. EndHolds'
      BY <1>23 DEF EndHolds, vars, machines
    <2> QED BY <2>1, <2>2, <2>3, <2>4, <2>5
  <1> QED BY <1>1, <1>2, <1>3, <1>4, <1>5, <1>6, <1>7, <1>8, <1>9, <1>10, <1>11, <1>12, <1>13, <1>14, <1>15, <1>16, <1>17, <1>18, <1>19, <1>20, <1>21, <1>22, <1>23 DEF Next, Command, Runs, Difftest

-----------------------------------------------------------------------------
THEOREM IInvHolds == Spec => []IInv
  BY InitIInv, NextIInv, PTL DEF Spec

\* Without ^C difftest reports only what the core did wrong, or did beyond NEMU,
\* since the machines were last made the same, whatever it skips.
THEOREM AlarmExplainedHolds == Spec => AlarmExplained
  <1>1. IInv => [Compares /\ npc' # npc => seen.apart \/ interrupts > 0]_vars
    <2> SUFFICES ASSUME CoreOK, InSync, Compares, npc' # npc,
                        ~seen.apart, ~(interrupts > 0)
                 PROVE  FALSE
      BY DEF IInv
    <2>1. interrupts = 0
      BY DEF CoreOK
    <2>2. ref'.reg = dut.reg /\ ref_shadow = dut.csr /\ dut.mode = "M"
      BY <2>1 DEF InSync, Compares
    <2>3. npc' = npc
      BY <2>2 DEF Compares
    <2> QED BY <2>3
  <1> QED BY <1>1, IInvHolds, PTL DEF AlarmExplained

\* The core begins no instruction with registers other than NEMU's, or than its
\* copy of the csrs it lacks.
THEOREM RunningAgreesHolds == Spec => []RunningAgrees
  <1>1. IInv => RunningAgrees
    BY DEF IInv, CoreOK, AlarmHolds, RunningAgrees
  <1> QED BY <1>1, IInvHolds, PTL

\* A good exit status of a run nobody stopped means what it says.
THEOREM SuccessEarnedHolds == Spec => []SuccessEarned
  <1>1. IInv => SuccessEarned
    BY DEF IInv, HaltHolds, EndHolds, SuccessEarned
  <1> QED BY <1>1, IInvHolds, PTL

\* After ebreak no command makes the core run again.
THEOREM HaltIsFinalHolds == Spec => HaltIsFinal
  <1>1. IInv /\ [Next]_vars => [seen.halted => dut' = dut]_vars
    <2> SUFFICES ASSUME HaltHolds, Next, seen.halted PROVE dut' = dut
      BY DEF IInv
    <2>1. at # "exec"
      BY DEF HaltHolds
    <2> QED BY <2>1 DEF Next, Command, Runs, Difftest, CmdExec, CmdW, CmdWFails, CmdD, CmdQ,
               EndOfInput, CmdBatch, Enter, Retires, TakesInterrupt, Halts, Hangs, Skips,
               Checks, Compares, Watches, Stops, Tests, Leaves, Settles, Exits, Interrupt,
               Executes, machines
  <1> QED BY <1>1, IInvHolds, PTL DEF Spec, HaltIsFinal
-----------------------------------------------------------------------------
(* The lists of watchpoints: what ChainFrom returns.                       *)

LEMMA LeastNumber ==
    ASSUME NEW S \in SUBSET Nat, S # {}
    PROVE  \E m \in S : \A n \in S : m <= n
  <1> DEFINE R == {ss \in Nat \X Nat : ss[1] < ss[2]}
  <1>1. IsWellFoundedOn(R, Nat)
    BY NatLessThanWellFounded DEF OpToRel
  <1> HIDE DEF R
  <1>2. PICK m \in S : \A n \in S : <<n, m>> \notin R
    BY <1>1, WFMin
  <1>3. \A n \in S : ~(n < m)
    BY <1>2 DEF R
  <1> QED BY <1>3

\* The nodes within k steps, for k up to n.
Walked(q, from, n) ==
    {w \in [0 .. n -> SUBSET Wp] :
        \A k \in 0 .. n :
            w[k] = IF k = 0 THEN {from} \ {NULL}
                   ELSE w[k - 1] \cup ({q.next[v] : v \in w[k - 1]} \ {NULL})}

LEMMA WalkedLonger ==
    ASSUME NEW q \in Pools, NEW from \in Link, NEW n \in Nat, NEW w \in Walked(q, from, n)
    PROVE  Walked(q, from, n + 1) # {}
  <1> DEFINE last == w[n] \cup ({q.next[v] : v \in w[n]} \ {NULL})
             f == [k \in 0 .. n + 1 |-> IF k = n + 1 THEN last ELSE w[k]]
  <1>1. w \in [0 .. n -> SUBSET Wp]
    BY DEF Walked
  <1>2. last \in SUBSET Wp
    BY <1>1 DEF Pools, Link
  <1> HIDE DEF last
  <1>3. f \in [0 .. n + 1 -> SUBSET Wp]
    BY <1>1, <1>2
  <1>4. ASSUME NEW k \in 0 .. n + 1
        PROVE  f[k] = IF k = 0 THEN {from} \ {NULL}
                      ELSE f[k - 1] \cup ({q.next[v] : v \in f[k - 1]} \ {NULL})
    <2>1. CASE k = n + 1
      <3>1. f[k] = last /\ f[k - 1] = w[n]
        BY <2>1
      <3> QED BY <2>1, <3>1 DEF last
    <2>2. CASE k # n + 1
      <3>1. k \in 0 .. n
        BY <2>2
      <3>2. f[k] = w[k] /\ (k # 0 => f[k - 1] = w[k - 1])
        BY <3>1
      <3> HIDE DEF f
      <3> QED BY <3>1, <3>2 DEF Walked
    <2> QED BY <2>1, <2>2
  <1> HIDE DEF f
  <1>5. f \in Walked(q, from, n + 1)
    BY <1>3, <1>4 DEF Walked
  <1> QED BY <1>5

LEMMA WalkedExists ==
    ASSUME NEW q \in Pools, NEW from \in Link, NEW n \in Nat
    PROVE  Walked(q, from, n) # {}
  <1> DEFINE S == {m \in Nat : Walked(q, from, m) = {}}
  <1> SUFFICES ASSUME S # {} PROVE FALSE
    OBVIOUS
  <1>1. PICK m \in S : \A k \in S : m <= k
    BY LeastNumber
  <1>2. CASE m = 0
    <2> DEFINE w == [k \in 0 .. 0 |-> {from} \ {NULL}]
    <2>1. w \in [0 .. 0 -> SUBSET Wp]
      BY DEF Link
    <2>2. w \in Walked(q, from, 0)
      BY <2>1 DEF Walked
    <2> QED BY <1>2, <2>2
  <1>3. CASE m # 0
    <2>1. m - 1 \in Nat /\ m - 1 \notin S
      BY <1>1, <1>3
    <2>2. PICK w : w \in Walked(q, from, m - 1)
      BY <2>1
    <2>3. Walked(q, from, (m - 1) + 1) # {}
      BY <2>1, <2>2, WalkedLonger
    <2>4. (m - 1) + 1 = m
      OBVIOUS
    <2> QED BY <2>3, <2>4
  <1> QED BY <1>2, <1>3

\* The loop's function, as ChainFrom defines it.
Within(q, from) ==
    CHOOSE w : w = [k \in 0 .. NR_WP |->
        IF k = 0 THEN {from} \ {NULL}
        ELSE w[k - 1] \cup ({q.next[v] : v \in w[k - 1]} \ {NULL})]

LEMMA ChainIsWithin ==
    ASSUME NEW q, NEW from
    PROVE  ChainFrom(q, from) = Within(q, from)[NR_WP]
  BY DEF ChainFrom, Within

LEMMA WithinWalked ==
    ASSUME NEW q \in Pools, NEW from \in Link
    PROVE  Within(q, from) \in Walked(q, from, NR_WP)
  <1>0. NR_WP \in Nat
    BY WatchPoolAssumption
  <1>1. PICK u : u \in Walked(q, from, NR_WP)
    BY <1>0, WalkedExists
  <1>2. u = [k \in 0 .. NR_WP |->
          IF k = 0 THEN {from} \ {NULL}
          ELSE u[k - 1] \cup ({q.next[v] : v \in u[k - 1]} \ {NULL})]
    BY <1>1 DEF Walked
  <1> DEFINE W == Within(q, from)
  <1>3. W = [k \in 0 .. NR_WP |->
          IF k = 0 THEN {from} \ {NULL}
          ELSE W[k - 1] \cup ({q.next[v] : v \in W[k - 1]} \ {NULL})]
    BY <1>2 DEF Within
  <1> HIDE DEF W
  <1>4. \A k \in 0 .. NR_WP :
          W[k] = IF k = 0 THEN {from} \ {NULL}
                 ELSE W[k - 1] \cup ({q.next[v] : v \in W[k - 1]} \ {NULL})
    BY <1>3
  <1>5. ASSUME NEW k \in 0 .. NR_WP PROVE W[k] \subseteq Wp
    <2> DEFINE S == {m \in 0 .. NR_WP : ~(W[m] \subseteq Wp)}
    <2> SUFFICES ASSUME S # {} PROVE FALSE
      OBVIOUS
    <2>1. S \in SUBSET Nat
      BY <1>0
    <2>2. PICK m \in S : \A n \in S : m <= n
      BY <2>1, LeastNumber
    <2>3. CASE m = 0
      <3>1. W[m] = {from} \ {NULL}
        BY <1>4, <2>3
      <3> QED BY <2>2, <3>1 DEF Link
    <2>4. CASE m # 0
      <3>1. m \in 0 .. NR_WP /\ m - 1 \in 0 .. NR_WP /\ ~(m <= m - 1)
        BY <1>0, <2>4
      <3>2. W[m - 1] \subseteq Wp
        BY <2>2, <3>1
      <3>3. W[m] = W[m - 1] \cup ({q.next[v] : v \in W[m - 1]} \ {NULL})
        BY <1>4, <2>4, <3>1
      <3> QED BY <2>2, <3>2, <3>3 DEF Pools, Link
    <2> QED BY <2>3, <2>4
  <1>6. W \in [0 .. NR_WP -> SUBSET Wp]
    <2>1. DOMAIN W = 0 .. NR_WP /\ W = [k \in DOMAIN W |-> W[k]]
      BY <1>3
    <2> QED BY <1>5, <2>1
  <1>7. W \in Walked(q, from, NR_WP)
    BY <1>4, <1>6 DEF Walked
  <1> QED BY <1>7 DEF W

\* A step of the loop that finds nothing new is the last one that could.
LEMMA WalkSettles ==
    ASSUME NEW q \in Pools, NEW from \in Link, NEW W \in Walked(q, from, NR_WP),
           NEW k \in 0 .. NR_WP - 1, W[k + 1] = W[k]
    PROVE  W[NR_WP] = W[k]
  <1>0. NR_WP \in Nat
    BY WatchPoolAssumption
  <1> DEFINE S == {m \in k .. NR_WP : W[m] # W[k]}
  <1> SUFFICES ASSUME S # {} PROVE FALSE
    BY <1>0
  <1>1. S \in SUBSET Nat
    BY <1>0
  <1>2. PICK m \in S : \A n \in S : m <= n
    BY <1>1, LeastNumber
  <1>3. m \in k .. NR_WP /\ W[m] # W[k] /\ m # k /\ m # k + 1
    BY <1>2
  <1>4. m - 1 \in k .. NR_WP /\ m \in 0 .. NR_WP /\ m # 0 /\ ~(m <= m - 1)
    BY <1>0, <1>3
  <1>5. W[m - 1] = W[k]
    BY <1>2, <1>4
  <1>6. W[m] = W[m - 1] \cup ({q.next[v] : v \in W[m - 1]} \ {NULL})
    BY <1>4 DEF Walked
  <1>7. k + 1 \in 0 .. NR_WP /\ k + 1 # 0 /\ (k + 1) - 1 = k
    BY <1>0
  <1>8. W[k + 1] = W[k] \cup ({q.next[v] : v \in W[k]} \ {NULL})
    BY <1>7 DEF Walked
  <1> QED BY <1>3, <1>5, <1>6, <1>8

LEMMA WalkGrows ==
    ASSUME NEW q \in Pools, NEW from \in Link, NEW W \in Walked(q, from, NR_WP),
           NEW k \in 0 .. NR_WP - 1
    PROVE  W[k] \subseteq W[k + 1] /\ W[k + 1] = W[k] \cup ({q.next[v] : v \in W[k]} \ {NULL})
  <1>1. k + 1 \in 0 .. NR_WP /\ k + 1 # 0 /\ (k + 1) - 1 = k
    BY WatchPoolAssumption
  <1> QED BY <1>1 DEF Walked

\* NR_WP steps reach every node the list has: each finds a new one, or none is
\* left to find.
LEMMA WalkCloses ==
    ASSUME NEW q \in Pools, NEW from \in Link, NEW W \in Walked(q, from, NR_WP)
    PROVE  \A v \in W[NR_WP] : q.next[v] \in W[NR_WP] \cup {NULL}
  <1>0. NR_WP \in Nat \ {0} /\ W \in [0 .. NR_WP -> SUBSET Wp]
    BY WatchPoolAssumption DEF Walked
  <1>1. ASSUME NEW k \in 0 .. NR_WP - 1, W[k + 1] = W[k]
        PROVE  \A v \in W[NR_WP] : q.next[v] \in W[NR_WP] \cup {NULL}
    BY <1>1, WalkSettles, WalkGrows
  <1>2. CASE \E k \in 0 .. NR_WP - 1 : W[k + 1] = W[k]
    BY <1>1, <1>2
  <1>3. CASE \A k \in 0 .. NR_WP - 1 : W[k + 1] # W[k]
    <2>1. IsFiniteSet(Wp) /\ Cardinality(Wp) = NR_WP
      <3>1. 0 \in Int /\ NR_WP - 1 \in Int
        BY <1>0
      <3>2. IsFiniteSet(0 .. NR_WP - 1)
            /\ Cardinality(0 .. NR_WP - 1) =
                 IF 0 > NR_WP - 1 THEN 0 ELSE (NR_WP - 1) - 0 + 1
        BY <3>1, FS_Interval
      <3> QED BY <1>0, <3>2 DEF Wp
    <2>2. ASSUME NEW k \in 0 .. NR_WP
          PROVE  IsFiniteSet(W[k]) /\ Cardinality(W[k]) \in Nat /\ Cardinality(W[k]) <= NR_WP
      <3>1. W[k] \in SUBSET Wp
        BY <1>0
      <3>2. IsFiniteSet(W[k]) /\ Cardinality(W[k]) <= Cardinality(Wp)
        BY <2>1, <3>1, FS_Subset
      <3> QED BY <2>1, <3>2, FS_CardinalityType
    <2> DEFINE S == {k \in 0 .. NR_WP : ~(Cardinality(W[k]) >= k)}
    <2>3. CASE S = {}
      <3>1. NR_WP \in 0 .. NR_WP
        BY <1>0
      <3>2. Cardinality(W[NR_WP]) >= NR_WP
        BY <2>3, <3>1
      <3>3. Cardinality(W[NR_WP]) = Cardinality(Wp)
        BY <1>0, <2>1, <2>2, <3>1, <3>2
      <3>4. W[NR_WP] = Wp
        BY <1>0, <2>1, <3>1, <3>3, FS_Subset
      <3> QED BY <3>4 DEF Pools, Link
    <2>4. CASE S # {}
      <3>1. S \in SUBSET Nat
        BY <1>0
      <3>2. PICK k \in S : \A n \in S : k <= n
        BY <2>4, <3>1, LeastNumber
      <3>3. k # 0
        <4>1. 0 \in 0 .. NR_WP
          BY <1>0
        <4> QED BY <2>2, <3>2, <4>1
      <3>4. k \in 0 .. NR_WP /\ k - 1 \in 0 .. NR_WP /\ k - 1 \in 0 .. NR_WP - 1
            /\ (k - 1) + 1 = k /\ ~(k <= k - 1)
        BY <1>0, <3>2, <3>3
      <3>5. Cardinality(W[k - 1]) >= k - 1
        BY <3>2, <3>4
      <3>6. W[k - 1] \subseteq W[k] /\ W[k] # W[k - 1]
        BY <1>3, <3>4, WalkGrows
      <3>7. /\ Cardinality(W[k - 1]) <= Cardinality(W[k])
            /\ Cardinality(W[k]) # Cardinality(W[k - 1])
        BY <2>2, <3>4, <3>6, FS_Subset
      <3>8. Cardinality(W[k]) >= k
        BY <2>2, <3>4, <3>5, <3>7
      <3> QED BY <3>2, <3>8
    <2> QED BY <2>3, <2>4
  <1> QED BY <1>2, <1>3

\* A chain is the least set that holds its first node and follows next.
LEMMA ChainClosed ==
    ASSUME NEW q \in Pools, NEW from \in Link
    PROVE  /\ ChainFrom(q, from) \subseteq Wp
           /\ from \in ChainFrom(q, from) \cup {NULL}
           /\ \A v \in ChainFrom(q, from) : q.next[v] \in ChainFrom(q, from) \cup {NULL}
  <1>0. NR_WP \in Nat
    BY WatchPoolAssumption
  <1>1. PICK W : W \in Walked(q, from, NR_WP) /\ W[NR_WP] = ChainFrom(q, from)
    BY WithinWalked, ChainIsWithin
  <1>2. \A v \in W[NR_WP] : q.next[v] \in W[NR_WP] \cup {NULL}
    BY <1>1, WalkCloses
  <1>3. W \in [0 .. NR_WP -> SUBSET Wp] /\ W[0] = {from} \ {NULL}
    BY <1>0, <1>1 DEF Walked
  <1>4. \A k \in 0 .. NR_WP : W[0] \subseteq W[k]
    <2> DEFINE S == {k \in 0 .. NR_WP : ~(W[0] \subseteq W[k])}
    <2> SUFFICES ASSUME S # {} PROVE FALSE
      OBVIOUS
    <2>1. S \in SUBSET Nat
      BY <1>0
    <2>2. PICK m \in S : \A n \in S : m <= n
      BY <2>1, LeastNumber
    <2>3. m # 0
      BY <2>2
    <2>4. m - 1 \in 0 .. NR_WP - 1 /\ m - 1 \in 0 .. NR_WP /\ (m - 1) + 1 = m /\ ~(m <= m - 1)
      BY <1>0, <2>2, <2>3
    <2>5. W[0] \subseteq W[m - 1]
      BY <2>2, <2>4
    <2>6. W[m - 1] \subseteq W[m]
      BY <1>1, <2>4, WalkGrows
    <2> QED BY <2>2, <2>5, <2>6
  <1>5. W[0] \subseteq W[NR_WP] /\ W[NR_WP] \subseteq Wp
    BY <1>0, <1>3, <1>4
  <1> QED BY <1>1, <1>2, <1>3, <1>5

LEMMA ChainLeast ==
    ASSUME NEW q \in Pools, NEW from \in Link, NEW S, from \in S \cup {NULL},
           \A v \in S \cap Wp : q.next[v] \in S \cup {NULL}
    PROVE  ChainFrom(q, from) \subseteq S
  <1>0. NR_WP \in Nat
    BY WatchPoolAssumption
  <1>1. PICK W : W \in Walked(q, from, NR_WP) /\ W[NR_WP] = ChainFrom(q, from)
    BY WithinWalked, ChainIsWithin
  <1>3. W \in [0 .. NR_WP -> SUBSET Wp] /\ W[0] = {from} \ {NULL}
    BY <1>0, <1>1 DEF Walked
  <1>4. \A k \in 0 .. NR_WP : W[k] \subseteq S
    <2> DEFINE B == {k \in 0 .. NR_WP : ~(W[k] \subseteq S)}
    <2> SUFFICES ASSUME B # {} PROVE FALSE
      OBVIOUS
    <2>1. B \in SUBSET Nat
      BY <1>0
    <2>2. PICK m \in B : \A n \in B : m <= n
      BY <2>1, LeastNumber
    <2>3. m # 0
      BY <1>3, <2>2
    <2>4. m - 1 \in 0 .. NR_WP - 1 /\ m - 1 \in 0 .. NR_WP /\ (m - 1) + 1 = m /\ ~(m <= m - 1)
      BY <1>0, <2>2, <2>3
    <2>5. W[m - 1] \subseteq S /\ W[m - 1] \subseteq Wp
      BY <1>3, <2>2, <2>4
    <2>6. W[m] = W[m - 1] \cup ({q.next[v] : v \in W[m - 1]} \ {NULL})
      BY <1>1, <2>4, WalkGrows
    <2> QED BY <2>2, <2>5, <2>6
  <1> QED BY <1>0, <1>1, <1>4

\* A node of a chain that is not its first has its predecessor in the chain.
LEMMA ChainPred ==
    ASSUME NEW q \in Pools, NEW from \in Link, NEW v \in ChainFrom(q, from), v # from
    PROVE  \E u \in ChainFrom(q, from) : q.next[u] = v
  <1> DEFINE C == ChainFrom(q, from)
             S == {x \in C : x = from \/ \E u \in C : q.next[u] = x}
  <1>1. from \in C \cup {NULL} /\ \A x \in C : q.next[x] \in C \cup {NULL}
    BY ChainClosed
  <1>2. from \in S \cup {NULL}
    BY <1>1
  <1>3. \A x \in S \cap Wp : q.next[x] \in S \cup {NULL}
    BY <1>1
  <1>4. C \subseteq S
    <2> HIDE DEF S
    <2> QED BY <1>2, <1>3, ChainLeast
  <1> QED BY <1>4

\* What a change of the links away from a chain, the removal of a node from it
\* and the insertion of a node into it do to the chain.
LEMMA ChainKept ==
    ASSUME NEW q \in Pools, NEW r \in Pools, NEW from \in Link,
           \A v \in ChainFrom(q, from) : r.next[v] = q.next[v]
    PROVE  ChainFrom(r, from) = ChainFrom(q, from)
  <1> DEFINE C == ChainFrom(q, from)
             D == ChainFrom(r, from)
  <1>1. from \in C \cup {NULL} /\ \A x \in C : q.next[x] \in C \cup {NULL}
    BY ChainClosed
  <1>2. D \subseteq C
    <2>1. \A x \in C \cap Wp : r.next[x] \in C \cup {NULL}
      BY <1>1
    <2> HIDE DEF C
    <2> QED BY <1>1, <2>1, ChainLeast
  <1>3. from \in D \cup {NULL} /\ \A x \in D : r.next[x] \in D \cup {NULL}
    BY ChainClosed
  <1>4. C \subseteq D
    <2>1. \A x \in D \cap Wp : q.next[x] \in D \cup {NULL}
      BY <1>2, <1>3
    <2> HIDE DEF D
    <2> QED BY <1>3, <2>1, ChainLeast
  <1> QED BY <1>2, <1>4

LEMMA ChainWithout ==
    ASSUME NEW q \in Pools, NEW r \in Pools, NEW from \in Link, NEW w \in ChainFrom(q, from),
           q.next[w] # w,
           w = from => \A u \in ChainFrom(q, from) : q.next[u] # w,
           \A v \in ChainFrom(q, from) \ {w} :
              r.next[v] = IF q.next[v] = w THEN q.next[w] ELSE q.next[v]
    PROVE  ChainFrom(r, IF w = from THEN q.next[w] ELSE from) = ChainFrom(q, from) \ {w}
  <1> DEFINE C == ChainFrom(q, from)
             first == IF w = from THEN q.next[w] ELSE from
             D == ChainFrom(r, first)
  <1>1. /\ C \subseteq Wp /\ from \in C \cup {NULL}
        /\ \A x \in C : q.next[x] \in C \cup {NULL}
    BY ChainClosed
  <1>2. first \in (C \ {w}) \cup {NULL} /\ first \in Link
    BY <1>1 DEF Link
  <1>3. D \subseteq C \ {w}
    <2>1. \A x \in (C \ {w}) \cap Wp : r.next[x] \in (C \ {w}) \cup {NULL}
      BY <1>1
    <2> HIDE DEF C, first
    <2> QED BY <1>2, <2>1, ChainLeast
  <1>4. first \in D \cup {NULL} /\ \A x \in D : r.next[x] \in D \cup {NULL}
    <2> HIDE DEF first
    <2> QED BY <1>2, ChainClosed
  <1> DEFINE T == D \cup (IF w = from \/ \E u \in D : q.next[u] = w THEN {w} ELSE {})
  <1>5. C \subseteq T
    <2>1. from \in T \cup {NULL}
      BY <1>4
    <2>2. ASSUME NEW x \in T \cap Wp PROVE q.next[x] \in T \cup {NULL}
      <3>1. CASE x \in D
        <4>1. x \in C \ {w} /\ r.next[x] \in D \cup {NULL}
          BY <1>3, <1>4, <3>1
        <4>2. CASE q.next[x] = w
          BY <3>1, <4>2
        <4>3. CASE q.next[x] # w
          BY <4>1, <4>3
        <4> QED BY <4>2, <4>3
      <3>2. CASE x \notin D
        <4>1. x = w /\ (w = from \/ \E u \in D : q.next[u] = w)
          BY <2>2, <3>2
        <4>2. CASE w = from
          BY <1>4, <4>1, <4>2
        <4>3. ASSUME NEW u \in D, q.next[u] = w PROVE q.next[x] \in T \cup {NULL}
          <5>1. r.next[u] = q.next[w] /\ r.next[u] \in D \cup {NULL}
            BY <1>3, <1>4, <4>3
          <5> QED BY <4>1, <5>1
        <4> QED BY <4>1, <4>2, <4>3
      <3> QED BY <3>1, <3>2
    <2> HIDE DEF T, C
    <2>3. \A x \in T \cap Wp : q.next[x] \in T \cup {NULL}
      BY <2>2
    <2>4. ChainFrom(q, from) \subseteq T
      BY <2>1, <2>3, ChainLeast
    <2> QED BY <2>4 DEF C
  <1>6. C \ {w} \subseteq D
    BY <1>5
  <1> QED BY <1>3, <1>6

LEMMA ChainInserted ==
    ASSUME NEW q \in Pools, NEW r \in Pools, NEW from \in Link, NEW u \in ChainFrom(q, from),
           NEW w \in Wp \ ChainFrom(q, from),
           r.next[u] = w, r.next[w] = q.next[u],
           \A v \in ChainFrom(q, from) \ {u} : r.next[v] = q.next[v]
    PROVE  ChainFrom(r, from) = ChainFrom(q, from) \cup {w}
  <1> DEFINE C == ChainFrom(q, from)
             D == ChainFrom(r, from)
  <1>1. from \in C \cup {NULL} /\ \A x \in C : q.next[x] \in C \cup {NULL}
    BY ChainClosed
  <1>2. D \subseteq C \cup {w}
    <2>1. \A x \in (C \cup {w}) \cap Wp : r.next[x] \in (C \cup {w}) \cup {NULL}
      BY <1>1
    <2>2. from \in (C \cup {w}) \cup {NULL}
      BY <1>1
    <2> HIDE DEF C
    <2> QED BY <2>1, <2>2, ChainLeast
  <1>3. from \in D \cup {NULL} /\ \A x \in D : r.next[x] \in D \cup {NULL}
    BY ChainClosed
  <1>4. C \subseteq D \cap C
    <2>1. from \in (D \cap C) \cup {NULL}
      BY <1>1, <1>3
    <2>2. ASSUME NEW x \in D \cap C PROVE q.next[x] \in (D \cap C) \cup {NULL}
      <3>1. CASE x = u
        <4>1. w # NULL
          BY WatchPoolAssumption DEF Wp
        <4>2. w \in D
          BY <1>3, <3>1, <4>1
        <4> QED BY <1>1, <1>3, <3>1, <4>2
      <3>2. CASE x # u
        BY <1>1, <1>3, <3>2
      <3> QED BY <3>1, <3>2
    <2>3. \A x \in (D \cap C) \cap Wp : q.next[x] \in (D \cap C) \cup {NULL}
      BY <2>2
    <2> HIDE DEF D
    <2>4. ChainFrom(q, from) \subseteq D \cap C
      <3> DEFINE S == D \cap C
      <3>1. from \in S \cup {NULL} /\ \A x \in S \cap Wp : q.next[x] \in S \cup {NULL}
        BY <2>1, <2>3
      <3> HIDE DEF S
      <3>2. ChainFrom(q, from) \subseteq S
        BY <3>1, ChainLeast
      <3> QED BY <3>2 DEF S
    <2> QED BY <2>4
  <1>5. w \in D
    <2>1. w # NULL
      BY WatchPoolAssumption DEF Wp
    <2> QED BY <1>3, <1>4, <2>1
  <1> QED BY <1>2, <1>4, <1>5

LEMMA ChainFronted ==
    ASSUME NEW q \in Pools, NEW r \in Pools, NEW from \in Link,
           NEW w \in Wp \ ChainFrom(q, from), r.next[w] = from,
           \A v \in ChainFrom(q, from) : r.next[v] = q.next[v]
    PROVE  ChainFrom(r, w) = ChainFrom(q, from) \cup {w}
  <1> DEFINE C == ChainFrom(q, from)
             D == ChainFrom(r, w)
  <1>0. w \in Link /\ w # NULL
    BY WatchPoolAssumption DEF Wp, Link
  <1>1. from \in C \cup {NULL} /\ \A x \in C : q.next[x] \in C \cup {NULL}
    BY ChainClosed
  <1>2. D \subseteq C \cup {w}
    <2>1. \A x \in (C \cup {w}) \cap Wp : r.next[x] \in (C \cup {w}) \cup {NULL}
      BY <1>1
    <2>2. w \in (C \cup {w}) \cup {NULL}
      OBVIOUS
    <2> HIDE DEF C
    <2> QED BY <1>0, <2>1, <2>2, ChainLeast
  <1>3. w \in D /\ \A x \in D : r.next[x] \in D \cup {NULL}
    BY <1>0, ChainClosed
  <1>4. C \subseteq D \cap C
    <2> DEFINE S == D \cap C
    <2>1. from \in S \cup {NULL}
      BY <1>1, <1>3
    <2>2. \A x \in S \cap Wp : q.next[x] \in S \cup {NULL}
      BY <1>1, <1>3
    <2> HIDE DEF S
    <2>3. ChainFrom(q, from) \subseteq S
      BY <2>1, <2>2, ChainLeast
    <2> QED BY <2>3 DEF S
  <1> QED BY <1>2, <1>3, <1>4
-----------------------------------------------------------------------------
(* What new_wp and free_wp keep.                                           *)

Linked(q) == \A v, w \in Wp : q.next[v] = w <=> q.prev[w] = v

Sorted(q) == \A v \in InUse(q) : q.next[v] \in Wp => v < q.next[v]

Lost(q) == Wp \ (InUse(q) \cup Free(q))

\* A node in neither list has a smaller number than every free one as well: else
\* new_wp, which takes the free node with the smallest number, could put one in
\* use that is smaller than a lost one.
PoolInv(q) ==
    /\ q \in Pools
    /\ PoolWellFormed(q)
    /\ \A w \in Lost(q) : \A v \in Free(q) : w < v

LEMMA WpNotNull == NULL \notin Wp /\ Wp \subseteq Nat /\ Wp \subseteq Link /\ NULL \in Link
  BY WatchPoolAssumption DEF Wp, Link

LEMMA PoolInvParts ==
    ASSUME NEW q, PoolInv(q)
    PROVE  /\ q \in Pools /\ q.head \in Link /\ q.free \in Link
           /\ q.next \in [Wp -> Link] /\ q.prev \in [Wp -> Link]
           /\ Linked(q) /\ Sorted(q) /\ InUse(q) \cap Free(q) = {}
           /\ q.free = NULL \/ q.prev[q.free] = NULL
           /\ InUse(q) \subseteq Wp /\ Free(q) \subseteq Wp
           /\ \A v \in InUse(q) : q.next[v] \in InUse(q) \cup {NULL}
           /\ \A v \in Free(q) : q.next[v] \in Free(q) \cup {NULL}
           /\ \A w \in Lost(q) : \A v \in InUse(q) \cup Free(q) : w < v
  <1>1. q \in Pools /\ q.head \in Link /\ q.free \in Link
        /\ q.next \in [Wp -> Link] /\ q.prev \in [Wp -> Link]
    BY DEF PoolInv, Pools
  <1>2. /\ InUse(q) \subseteq Wp /\ Free(q) \subseteq Wp
        /\ \A v \in InUse(q) : q.next[v] \in InUse(q) \cup {NULL}
        /\ \A v \in Free(q) : q.next[v] \in Free(q) \cup {NULL}
    BY <1>1, ChainClosed DEF InUse, Free
  <1> QED BY <1>1, <1>2 DEF PoolInv, PoolWellFormed, Linked, Sorted, Lost

\* Along the list in use the numbers grow.
LEMMA ChainAbove ==
    ASSUME NEW q \in Pools, Sorted(q), NEW v \in InUse(q)
    PROVE  \A s \in ChainFrom(q, v) : s \in InUse(q) /\ v <= s
  <1> DEFINE S == {s \in InUse(q) : v <= s}
  <1>1. /\ InUse(q) \subseteq Wp /\ \A x \in InUse(q) : q.next[x] \in InUse(q) \cup {NULL}
        /\ v \in Link /\ v \in Nat
    BY ChainClosed, WpNotNull DEF InUse, Pools
  <1>2. v \in S \cup {NULL}
    BY <1>1
  <1>3. ASSUME NEW x \in S \cap Wp PROVE q.next[x] \in S \cup {NULL}
    <2>1. x \in Nat /\ x \in InUse(q) /\ v <= x /\ q.next[x] \in InUse(q) \cup {NULL}
      BY <1>1, <1>3, WpNotNull
    <2>2. CASE q.next[x] \in InUse(q)
      <3>1. q.next[x] \in Wp /\ q.next[x] \in Nat /\ x < q.next[x]
        BY <1>1, <2>1, <2>2, WpNotNull DEF Sorted
      <3> QED BY <1>1, <2>1, <2>2, <3>1
    <2> QED BY <2>1, <2>2
  <1> HIDE DEF S
  <1>4. ChainFrom(q, v) \subseteq S
    BY <1>1, <1>2, <1>3, ChainLeast
  <1> QED BY <1>4 DEF S

LEMMA HeadLeast ==
    ASSUME NEW q \in Pools, Sorted(q), NEW v \in InUse(q)
    PROVE  q.head \in InUse(q) /\ q.head <= v
  <1>1. q.head \in Link
    BY DEF Pools
  <1>2. q.head # NULL
    <2> SUFFICES ASSUME q.head = NULL PROVE FALSE
      OBVIOUS
    <2> DEFINE S == {}
    <2>1. q.head \in S \cup {NULL} /\ \A x \in S \cap Wp : q.next[x] \in S \cup {NULL}
      OBVIOUS
    <2> HIDE DEF S
    <2>2. ChainFrom(q, q.head) \subseteq S
      BY <1>1, <2>1, ChainLeast
    <2> QED BY <2>2 DEF InUse, S
  <1>3. q.head \in InUse(q)
    BY <1>1, <1>2, ChainClosed DEF InUse
  <1> QED BY <1>3, ChainAbove DEF InUse

LEMMA TailExists ==
    ASSUME NEW q \in Pools, Sorted(q), InUse(q) # {}
    PROVE  \E v \in InUse(q) : q.next[v] = NULL
  <1> DEFINE S == {n \in Nat : \A v \in InUse(q) : v <= n}
  <1>1. InUse(q) \subseteq Wp /\ InUse(q) \subseteq Nat
        /\ \A x \in InUse(q) : q.next[x] \in InUse(q) \cup {NULL}
    BY ChainClosed, WpNotNull DEF InUse, Pools
  <1>2. NR_WP \in S
    BY <1>1, WatchPoolAssumption DEF Wp
  <1>3. PICK m \in S : \A n \in S : m <= n
    BY <1>2, LeastNumber
  <1>4. m \in InUse(q)
    <2> SUFFICES ASSUME m \notin InUse(q) PROVE FALSE
      OBVIOUS
    <2>1. \A v \in InUse(q) : v <= m /\ v # m /\ v \in Nat /\ m \in Nat
      BY <1>1, <1>3
    <2>2. m # 0 /\ \A v \in InUse(q) : v <= m - 1
      BY <2>1
    <2>3. m - 1 \in S /\ ~(m <= m - 1)
      BY <1>3, <2>2
    <2> QED BY <1>3, <2>3
  <1>5. q.next[m] \notin InUse(q)
    <2> SUFFICES ASSUME q.next[m] \in InUse(q) PROVE FALSE
      OBVIOUS
    <2>1. m < q.next[m] /\ q.next[m] <= m /\ m \in Nat /\ q.next[m] \in Nat
      BY <1>1, <1>3, <1>4 DEF Sorted
    <2> QED BY <2>1
  <1> QED BY <1>1, <1>4, <1>5

LEMMA LargerExists ==
    ASSUME NEW q \in Pools, Sorted(q), NEW w \in Wp \ InUse(q), NEW t \in InUse(q), t > w
    PROVE  FirstLarger(q, w) # {}
  <1> DEFINE S == {s \in InUse(q) : s > w}
  <1>1. InUse(q) \subseteq Nat /\ w \in Nat
    BY ChainClosed, WpNotNull DEF InUse, Pools
  <1>2. PICK s \in S : \A n \in S : s <= n
    BY <1>1, LeastNumber
  <1>3. ASSUME NEW v \in InUse(q), v # s, s \in ChainFrom(q, v) PROVE v < w
    <2>1. v <= s /\ v \in Nat /\ s \in Nat
      BY <1>1, <1>3, ChainAbove
    <2>2. v \notin S
      BY <1>2, <1>3, <2>1
    <2> QED BY <1>1, <2>1, <2>2
  <1>4. s \in FirstLarger(q, w)
    BY <1>2, <1>3 DEF FirstLarger
  <1> QED BY <1>4
\* No free node follows itself, and the one without a predecessor is the first.
LEMMA FreeNode ==
    ASSUME NEW q, PoolInv(q), NEW w \in Free(q)
    PROVE  q.next[w] # w /\ q.prev[w] # w /\ (q.prev[w] = NULL <=> w = q.free)
  <1> DEFINE C == Free(q)
  <1>1. /\ q \in Pools /\ q.free \in Link /\ C \subseteq Wp /\ w \in Wp
        /\ Linked(q) /\ q.prev \in [Wp -> Link]
        /\ q.free = NULL \/ q.prev[q.free] = NULL
        /\ \A v \in C : q.next[v] \in C \cup {NULL}
    BY PoolInvParts
  <1>2. w = q.free => q.prev[w] = NULL
    BY <1>1, WpNotNull
  <1>3. ASSUME w # q.free PROVE q.prev[w] \in Wp
    <2>1. PICK u \in C : q.next[u] = w
      BY <1>1, <1>3, ChainPred DEF Free
    <2> QED BY <1>1, <2>1 DEF Linked
  <1>4. q.next[w] # w
    <2> SUFFICES ASSUME q.next[w] = w PROVE FALSE
      OBVIOUS
    <2>1. q.prev[w] = w /\ w # q.free
      BY <1>1, <1>2, WpNotNull DEF Linked
    <2> DEFINE S == C \ {w}
    <2>2. q.free \in S \cup {NULL}
      BY <1>1, <2>1, ChainClosed DEF Free
    <2>3. \A x \in S \cap Wp : q.next[x] \in S \cup {NULL}
      BY <1>1, <2>1 DEF Linked
    <2> HIDE DEF S
    <2>4. C \subseteq S
      BY <1>1, <2>2, <2>3, ChainLeast DEF Free
    <2> QED BY <2>4 DEF S
  <1>5. q.prev[w] # w
    BY <1>1, <1>4 DEF Linked
  <1> QED BY <1>2, <1>3, <1>4, <1>5, WpNotNull

\* Taking a node out of the free list.
LEMMA UnlinkedFacts ==
    ASSUME NEW q, PoolInv(q), NEW w \in Free(q), NEW r, r = Unlinked(q, w)
    PROVE  /\ r \in Pools /\ Linked(r) /\ r.head = q.head
           /\ r.next[w] = NULL /\ r.prev[w] = NULL
           /\ \A v \in InUse(q) : r.next[v] = q.next[v]
           /\ InUse(r) = InUse(q) /\ Free(r) = Free(q) \ {w}
           /\ r.free = NULL \/ r.prev[r.free] = NULL
  <1>1. /\ q \in Pools /\ q.free \in Link /\ q.head \in Link /\ w \in Wp
        /\ q.next \in [Wp -> Link] /\ q.prev \in [Wp -> Link]
        /\ Linked(q) /\ InUse(q) \cap Free(q) = {}
        /\ q.free = NULL \/ q.prev[q.free] = NULL
        /\ InUse(q) \subseteq Wp /\ Free(q) \subseteq Wp
        /\ \A v \in InUse(q) : q.next[v] \in InUse(q) \cup {NULL}
        /\ \A v \in Free(q) : q.next[v] \in Free(q) \cup {NULL}
    BY PoolInvParts
  <1>2. q.next[w] # w /\ q.prev[w] # w /\ (q.prev[w] = NULL <=> w = q.free)
    BY FreeNode
  <1> DEFINE n0 == [q.next EXCEPT ![w] = NULL]
             p0 == [q.prev EXCEPT ![w] = NULL]
  <1>3. /\ r.head = q.head
        /\ r.free = IF w = q.free THEN q.next[w] ELSE q.free
        /\ r.next = Pointed(n0, q.prev[w], q.next[w]) /\ r.prev = Pointed(p0, q.next[w], q.prev[w])
        /\ r = [head |-> r.head, free |-> r.free, next |-> r.next, prev |-> r.prev]
    BY <1>1, <1>2 DEF Unlinked, Pools
  <1>4. n0 \in [Wp -> Link] /\ p0 \in [Wp -> Link] /\ q.next[w] \in Link /\ q.prev[w] \in Link
    BY <1>1, WpNotNull
  <1>5. /\ r.next \in [Wp -> Link]
        /\ \A v \in Wp : r.next[v] = IF v = q.prev[w] THEN q.next[w] ELSE n0[v]
    <2> HIDE DEF n0
    <2>1. n0 \in [Wp -> Link] /\ q.next[w] \in Link /\ q.prev[w] \in Link
      BY <1>4
    <2> DEFINE m == Pointed(n0, q.prev[w], q.next[w])
    <2>2. /\ m \in [Wp -> Link]
          /\ \A v \in Wp : m[v] = IF v = q.prev[w] THEN q.next[w] ELSE n0[v]
      BY <2>1, WpNotNull DEF Pointed
    <2>3. r.next = m
      BY <1>3
    <2> QED BY <2>2, <2>3
  <1>7. /\ r.prev \in [Wp -> Link]
        /\ \A v \in Wp : r.prev[v] = IF v = q.next[w] THEN q.prev[w] ELSE p0[v]
    <2> HIDE DEF p0
    <2>1. p0 \in [Wp -> Link] /\ q.next[w] \in Link /\ q.prev[w] \in Link
      BY <1>4
    <2> DEFINE m == Pointed(p0, q.next[w], q.prev[w])
    <2>2. /\ m \in [Wp -> Link]
          /\ \A v \in Wp : m[v] = IF v = q.next[w] THEN q.prev[w] ELSE p0[v]
      BY <2>1, WpNotNull DEF Pointed
    <2>3. r.prev = m
      BY <1>3
    <2> QED BY <2>2, <2>3
  <1>8. \A v \in Wp : r.next[v] = IF v = w THEN NULL
                                  ELSE IF v = q.prev[w] THEN q.next[w] ELSE q.next[v]
    BY <1>1, <1>2, <1>5
  <1>9. \A v \in Wp : r.prev[v] = IF v = w THEN NULL
                                  ELSE IF v = q.next[w] THEN q.prev[w] ELSE q.prev[v]
    BY <1>1, <1>2, <1>7
  <1>10. r \in Pools
    BY <1>1, <1>3, <1>4, <1>5, <1>7 DEF Pools
  <1>11. ASSUME NEW a \in Wp, NEW b \in Wp PROVE r.next[a] = b <=> r.prev[b] = a
    <2>1. /\ a # NULL /\ b # NULL /\ (q.next[a] = b <=> q.prev[b] = a)
          /\ (q.next[a] = w <=> q.prev[w] = a) /\ (q.next[w] = b <=> q.prev[b] = w)
      BY <1>1, WpNotNull DEF Linked
    <2>2. /\ r.next[a] = IF a = w THEN NULL ELSE IF a = q.prev[w] THEN q.next[w] ELSE q.next[a]
          /\ r.prev[b] = IF b = w THEN NULL ELSE IF b = q.next[w] THEN q.prev[w] ELSE q.prev[b]
      BY <1>8, <1>9
    <2> QED BY <1>2, <2>1, <2>2
  <1>12. ASSUME NEW v \in InUse(q) PROVE r.next[v] = q.next[v]
    <2>1. v \in Wp /\ v # w /\ w \notin InUse(q) \cup {NULL}
      BY <1>1, WpNotNull
    <2>2. v # q.prev[w]
      BY <1>1, <2>1 DEF Linked
    <2> QED BY <1>8, <2>1, <2>2
  <1>13. InUse(r) = InUse(q)
    BY <1>1, <1>3, <1>10, <1>12, ChainKept DEF InUse
  <1>14. Free(r) = Free(q) \ {w}
    <2>1. w = q.free => \A u \in Free(q) : q.next[u] # w
      BY <1>1, <1>2, WpNotNull DEF Linked
    <2>2. \A v \in Free(q) \ {w} : r.next[v] = IF q.next[v] = w THEN q.next[w] ELSE q.next[v]
      BY <1>1, <1>8 DEF Linked
    <2>3. ChainFrom(r, IF w = q.free THEN q.next[w] ELSE q.free) = ChainFrom(q, q.free) \ {w}
      BY <1>1, <1>2, <1>10, <2>1, <2>2, ChainWithout DEF Free
    <2> QED BY <1>3, <2>3 DEF Free
  <1>15. r.free = NULL \/ r.prev[r.free] = NULL
    <2>1. CASE w = q.free
      BY <1>2, <1>3, <1>4, <1>9, <2>1, WpNotNull DEF Link
    <2>2. CASE w # q.free
      <3>1. ASSUME q.free = q.next[w], q.free # NULL PROVE FALSE
        <4>1. q.free \in Wp /\ q.prev[q.free] = w
          BY <1>1, <3>1 DEF Linked, Link
        <4> QED BY <1>1, <3>1, <4>1, WpNotNull
      <3> QED BY <1>1, <1>3, <1>9, <2>2, <3>1 DEF Link
    <2> QED BY <2>1, <2>2
  <1>16. r.next[w] = NULL /\ r.prev[w] = NULL
    BY <1>1, <1>8, <1>9
  <1> QED BY <1>3, <1>10, <1>11, <1>12, <1>13, <1>14, <1>15, <1>16 DEF Linked
\* A node w that has been taken out of the free list and is in no list.
Taken(q, w) ==
    /\ q \in Pools /\ Linked(q) /\ Sorted(q)
    /\ q.free = NULL \/ q.prev[q.free] = NULL
    /\ InUse(q) \cap Free(q) = {}
    /\ w \in Lost(q) /\ q.next[w] = NULL /\ q.prev[w] = NULL
    /\ \A v \in Free(q) : w < v
    /\ \A x \in Lost(q) \ {w} : x < w /\ \A v \in InUse(q) \cup Free(q) : x < v

LEMMA TakenParts ==
    ASSUME NEW q, NEW w, Taken(q, w)
    PROVE  /\ q.head \in Link /\ q.free \in Link
           /\ q.next \in [Wp -> Link] /\ q.prev \in [Wp -> Link]
           /\ q = [head |-> q.head, free |-> q.free, next |-> q.next, prev |-> q.prev]
           /\ InUse(q) \subseteq Wp /\ Free(q) \subseteq Wp
           /\ q.head \in InUse(q) \cup {NULL} /\ q.free \in Free(q) \cup {NULL}
           /\ \A v \in InUse(q) : q.next[v] \in InUse(q) \cup {NULL}
           /\ \A v \in Free(q) : q.next[v] \in Free(q) \cup {NULL}
           /\ w \in Wp /\ w \notin InUse(q) /\ w \notin Free(q)
  <1>1. q.head \in Link /\ q.free \in Link /\ q.next \in [Wp -> Link] /\ q.prev \in [Wp -> Link]
        /\ q = [head |-> q.head, free |-> q.free, next |-> q.next, prev |-> q.prev]
    BY DEF Taken, Pools
  <1> QED BY <1>1, ChainClosed DEF Taken, Lost, InUse, Free

\* What is left to show once the node has been put where it belongs.
LEMMA InsertedInUse ==
    ASSUME NEW q, NEW w, Taken(q, w), NEW r, r \in Pools, Linked(r), Sorted(r),
           InUse(r) = InUse(q) \cup {w} \/ (InUse(r) = InUse(q) /\ \A v \in InUse(q) : w < v),
           r.free = q.free,
           \A v \in Free(q) : r.next[v] = q.next[v] /\ r.prev[v] = q.prev[v]
    PROVE  PoolInv(r)
  <1>1. Free(r) = Free(q)
    BY TakenParts, ChainKept DEF Free, Taken
  <1>2. r.free = NULL \/ r.prev[r.free] = NULL
    BY TakenParts DEF Taken
  <1>3. InUse(r) \cap Free(r) = {}
    BY <1>1, TakenParts DEF Taken
  <1>4. \A x \in Lost(r) : \A v \in InUse(r) \cup Free(r) : x < v
    BY <1>1, TakenParts DEF Taken, Lost
  <1> QED BY <1>2, <1>3, <1>4 DEF PoolInv, PoolWellFormed, Linked, Sorted, Lost

LEMMA InsertedFirst ==
    ASSUME NEW q, NEW w, Taken(q, w), q.head = NULL
    PROVE  PoolInv(Inserted(q, w))
  <1> DEFINE r == Inserted(q, w)
  <1>1. /\ q.next \in [Wp -> Link] /\ q.prev \in [Wp -> Link] /\ q.free \in Link
        /\ w \in Wp /\ w \notin InUse(q)
        /\ q = [head |-> q.head, free |-> q.free, next |-> q.next, prev |-> q.prev]
    BY TakenParts
  <1>2. r = [q EXCEPT !.head = w]
    BY DEF Inserted
  <1>3. r.head = w /\ r.free = q.free /\ r.next = q.next /\ r.prev = q.prev /\ r \in Pools
    BY <1>1, <1>2, WpNotNull DEF Pools
  <1> HIDE DEF r
  <1>4. InUse(q) = {}
    <2> DEFINE S == {}
    <2>1. q.head \in S \cup {NULL} /\ \A x \in S \cap Wp : q.next[x] \in S \cup {NULL}
      OBVIOUS
    <2> HIDE DEF S
    <2>2. q \in Pools /\ q.head \in Link
      BY TakenParts DEF Taken
    <2>3. ChainFrom(q, q.head) \subseteq S
      BY <2>1, <2>2, ChainLeast
    <2> QED BY <2>3 DEF InUse, S
  <1>5. InUse(r) = InUse(q) \cup {w}
    <2>1. r.next[w] = q.head /\ \A v \in ChainFrom(q, q.head) : r.next[v] = q.next[v]
      BY <1>3 DEF Taken
    <2>2. w \in Wp \ ChainFrom(q, q.head) /\ q.head \in Link /\ q \in Pools
      BY <1>1, TakenParts DEF InUse, Taken
    <2>3. ChainFrom(r, w) = ChainFrom(q, q.head) \cup {w}
      BY <1>3, <2>1, <2>2, ChainFronted
    <2> QED BY <1>3, <2>3 DEF InUse
  <1>6. Linked(r) /\ Sorted(r)
    <2>1. r.next[w] = NULL /\ Linked(q)
      BY <1>3 DEF Taken
    <2> QED BY <1>3, <1>4, <1>5, <2>1, WpNotNull DEF Linked, Sorted
  <1>7. PoolInv(r)
    BY <1>3, <1>5, <1>6, InsertedInUse
  <1> QED BY <1>7 DEF r

LEMMA InsertedLast ==
    ASSUME NEW q, NEW w, Taken(q, w), q.head # NULL, FirstLarger(q, w) = {}
    PROVE  PoolInv(Inserted(q, w))
  <1> DEFINE r == Inserted(q, w)
             tail == CHOOSE v \in InUse(q) : q.next[v] = NULL
  <1>1. /\ q \in Pools /\ Linked(q) /\ Sorted(q) /\ q.next[w] = NULL /\ q.prev[w] = NULL
        /\ InUse(q) \cap Free(q) = {}
        /\ q.next \in [Wp -> Link] /\ q.prev \in [Wp -> Link] /\ q.free \in Link /\ q.head \in Link
        /\ w \in Wp /\ w \notin InUse(q) /\ w \notin Free(q)
        /\ InUse(q) \subseteq Wp /\ q.head \in InUse(q)
        /\ q = [head |-> q.head, free |-> q.free, next |-> q.next, prev |-> q.prev]
    BY TakenParts DEF Taken
  <1>2. tail \in InUse(q) /\ q.next[tail] = NULL
    BY <1>1, TailExists
  <1>3. r = [q EXCEPT !.next[tail] = w, !.prev[w] = tail]
    BY DEF Inserted
  <1> HIDE DEF r, tail
  <1>4. /\ r.head = q.head /\ r.free = q.free
        /\ r.next = [q.next EXCEPT ![tail] = w] /\ r.prev = [q.prev EXCEPT ![w] = tail]
        /\ r = [head |-> r.head, free |-> r.free, next |-> r.next, prev |-> r.prev]
    BY <1>1, <1>3
  <1>5. r.next \in [Wp -> Link] /\ r.prev \in [Wp -> Link]
    BY <1>1, <1>2, <1>4, WpNotNull
  <1>6. r \in Pools
    BY <1>1, <1>4, <1>5 DEF Pools
  <1>7. /\ \A v \in Wp : r.next[v] = IF v = tail THEN w ELSE q.next[v]
        /\ \A v \in Wp : r.prev[v] = IF v = w THEN tail ELSE q.prev[v]
    BY <1>1, <1>4
  <1>8. Linked(r)
    BY <1>1, <1>2, <1>7, WpNotNull DEF Linked
  <1>9. tail < w
    <2>1. ~(tail > w)
      BY <1>1, <1>2, LargerExists
    <2> QED BY <1>1, <1>2, <2>1, WpNotNull
  <1>10. InUse(r) = InUse(q) \cup {w}
    <2>1. r.next[tail] = w /\ r.next[w] = q.next[tail]
      BY <1>1, <1>2, <1>7
    <2>2. \A v \in ChainFrom(q, q.head) \ {tail} : r.next[v] = q.next[v]
      BY <1>1, <1>7 DEF InUse
    <2> QED BY <1>1, <1>2, <1>4, <1>6, <2>1, <2>2, ChainInserted DEF InUse
  <1>11. Sorted(r)
    BY <1>1, <1>2, <1>7, <1>9, <1>10, WpNotNull DEF Sorted
  <1>12. \A v \in Free(q) : r.next[v] = q.next[v] /\ r.prev[v] = q.prev[v]
    BY <1>1, <1>2, <1>7, TakenParts
  <1>13. PoolInv(r)
    <2>1. InUse(r) = InUse(q) \cup {w} \/ (InUse(r) = InUse(q) /\ \A v \in InUse(q) : w < v)
      BY <1>10
    <2> QED BY <1>4, <1>6, <1>8, <1>11, <1>12, <2>1, InsertedInUse
  <1> QED BY <1>13 DEF r

LEMMA InsertedBefore ==
    ASSUME NEW q, NEW w, Taken(q, w), q.head # NULL, FirstLarger(q, w) # {}
    PROVE  PoolInv(Inserted(q, w))
  <1> DEFINE r == Inserted(q, w)
             s == CHOOSE v \in FirstLarger(q, w) : TRUE
             p == q.prev[s]
             n0 == [q.next EXCEPT ![w] = s]
  <1>1. /\ q \in Pools /\ Linked(q) /\ Sorted(q) /\ q.next[w] = NULL /\ q.prev[w] = NULL
        /\ InUse(q) \cap Free(q) = {}
        /\ q.next \in [Wp -> Link] /\ q.prev \in [Wp -> Link] /\ q.free \in Link /\ q.head \in Link
        /\ w \in Wp /\ w \notin InUse(q) /\ w \notin Free(q)
        /\ InUse(q) \subseteq Wp /\ q.head \in InUse(q)
        /\ q = [head |-> q.head, free |-> q.free, next |-> q.next, prev |-> q.prev]
    BY TakenParts DEF Taken
  <1>2. /\ s \in InUse(q) /\ s > w
        /\ \A v \in InUse(q) : v # s /\ s \in ChainFrom(q, v) => v < w
    BY DEF FirstLarger
  <1>3. r = [q EXCEPT !.next = Pointed([@ EXCEPT ![w] = s], p, w),
                      !.prev = [@ EXCEPT ![w] = p, ![s] = w]]
    BY DEF Inserted
  <1> HIDE DEF r, s
  <1>4. /\ r.head = q.head /\ r.free = q.free
        /\ r.next = Pointed(n0, p, w) /\ r.prev = [q.prev EXCEPT ![w] = p, ![s] = w]
        /\ r = [head |-> r.head, free |-> r.free, next |-> r.next, prev |-> r.prev]
    BY <1>1, <1>3
  <1>5. s \in Wp /\ p \in Link /\ s # w /\ p # w /\ p # s
    <2>1. s \in Wp /\ p \in Link /\ s # w
      BY <1>1, <1>2
    <2>2. p # w
      BY <1>1, <2>1, WpNotNull DEF Linked
    <2>3. ASSUME p = s PROVE FALSE
      <3>1. q.next[s] = s
        BY <1>1, <2>1, <2>3 DEF Linked
      <3> QED BY <1>1, <1>2, <2>1, <3>1, WpNotNull DEF Sorted
    <2> QED BY <2>1, <2>2, <2>3
  <1>6. /\ r.next \in [Wp -> Link]
        /\ \A v \in Wp : r.next[v] = IF v = w THEN s ELSE IF v = p THEN w ELSE q.next[v]
    <2>1. n0 \in [Wp -> Link] /\ \A v \in Wp : n0[v] = IF v = w THEN s ELSE q.next[v]
      BY <1>1, <1>5, WpNotNull
    <2> HIDE DEF n0, p
    <2> QED BY <1>1, <1>4, <1>5, <2>1, WpNotNull DEF Pointed, Link
  <1>7. /\ r.prev \in [Wp -> Link]
        /\ \A v \in Wp : r.prev[v] = IF v = s THEN w ELSE IF v = w THEN p ELSE q.prev[v]
    <2> HIDE DEF p
    <2> QED BY <1>1, <1>4, <1>5, WpNotNull
  <1>8. r \in Pools
    BY <1>1, <1>4, <1>6, <1>7 DEF Pools
  <1>9. ASSUME NEW a \in Wp, NEW b \in Wp PROVE r.next[a] = b <=> r.prev[b] = a
    <2>1. /\ (q.next[a] = b <=> q.prev[b] = a) /\ (q.next[a] = s <=> p = a)
          /\ q.next[w] # b /\ q.prev[w] # a
      BY <1>1, <1>5, WpNotNull DEF Linked
    <2>2. /\ r.next[a] = IF a = w THEN s ELSE IF a = p THEN w ELSE q.next[a]
          /\ r.prev[b] = IF b = s THEN w ELSE IF b = w THEN p ELSE q.prev[b]
      BY <1>6, <1>7
    <2> HIDE DEF p
    <2> QED BY <1>5, <2>1, <2>2
  <1>10. p \notin Free(q) /\ s \notin Free(q)
    <2>1. s \notin Free(q)
      BY <1>1, <1>2
    <2>2. p \in Wp => q.next[p] = s
      BY <1>1, <1>5 DEF Linked
    <2> QED BY <1>5, <2>1, <2>2, TakenParts, WpNotNull
  <1>11. \A v \in Free(q) : r.next[v] = q.next[v] /\ r.prev[v] = q.prev[v]
    <2> HIDE DEF p
    <2> QED BY <1>1, <1>6, <1>7, <1>10, TakenParts
  <1>12. Linked(r)
    BY <1>9 DEF Linked
  <1>13. CASE s = q.head
    <2>1. p \notin InUse(q)
      <3>1. ASSUME p \in InUse(q) PROVE FALSE
        <4>1. p \in Wp /\ q.next[p] = s
          BY <1>1, <1>5, <3>1 DEF Linked
        <4>2. p < s /\ s <= p /\ p \in Nat /\ s \in Nat
          BY <1>1, <1>5, <1>13, <3>1, <4>1, HeadLeast, WpNotNull DEF Sorted
        <4> QED BY <4>2
      <3> QED BY <3>1
    <2>2. InUse(r) = InUse(q)
      <3>1. \A v \in ChainFrom(q, q.head) : r.next[v] = q.next[v]
        BY <1>1, <1>6, <2>1 DEF InUse
      <3> QED BY <1>1, <1>4, <1>8, <3>1, ChainKept DEF InUse
    <2>3. Sorted(r)
      BY <1>1, <1>6, <2>1, <2>2 DEF Sorted
    <2>4. \A v \in InUse(q) : w < v
      BY <1>1, <1>2, <1>5, <1>13, HeadLeast, WpNotNull
    <2>5. InUse(r) = InUse(q) \cup {w} \/ (InUse(r) = InUse(q) /\ \A v \in InUse(q) : w < v)
      BY <2>2, <2>4
    <2>6. PoolInv(r)
      BY <1>4, <1>8, <1>11, <1>12, <2>3, <2>5, InsertedInUse
    <2> QED BY <2>6 DEF r
  <1>14. CASE s # q.head
    <2>1. p \in InUse(q) /\ q.next[p] = s
      <3>1. PICK u \in InUse(q) : q.next[u] = s
        BY <1>1, <1>2, <1>14, ChainPred DEF InUse
      <3>2. u = p
        BY <1>1, <1>5, <3>1 DEF Linked
      <3> QED BY <3>1, <3>2
    <2>2. p < w
      <3>1. p \in Link /\ p # NULL
        BY <1>1, <2>1, WpNotNull
      <3>2. s \in ChainFrom(q, p)
        BY <1>1, <1>5, <2>1, <3>1, ChainClosed, WpNotNull
      <3> QED BY <1>2, <1>5, <2>1, <3>2
    <2>3. InUse(r) = InUse(q) \cup {w}
      <3>1. p \in Wp /\ r.next[p] = w /\ r.next[w] = q.next[p]
        BY <1>1, <1>5, <1>6, <2>1
      <3>2. \A v \in ChainFrom(q, q.head) \ {p} : r.next[v] = q.next[v]
        BY <1>1, <1>6 DEF InUse
      <3>3. p \in ChainFrom(q, q.head) /\ w \in Wp \ ChainFrom(q, q.head)
        BY <1>1, <2>1 DEF InUse
      <3> HIDE DEF p
      <3>4. ChainFrom(r, q.head) = ChainFrom(q, q.head) \cup {w}
        BY <1>1, <1>8, <3>1, <3>2, <3>3, ChainInserted
      <3> QED BY <1>4, <3>4 DEF InUse
    <2>4. Sorted(r)
      <3>1. ASSUME NEW v \in InUse(r), r.next[v] \in Wp PROVE v < r.next[v]
        <4>1. v \in Wp /\ (v = w \/ v \in InUse(q))
          BY <1>1, <2>3, <3>1
        <4>2. CASE v = w
          BY <1>2, <1>5, <1>6, <4>1, <4>2, WpNotNull
        <4>3. CASE v # w /\ v = p
          BY <1>6, <2>2, <4>1, <4>3
        <4>4. CASE v # w /\ v # p
          BY <1>1, <1>6, <3>1, <4>1, <4>4 DEF Sorted
        <4> QED BY <4>2, <4>3, <4>4
      <3> QED BY <3>1 DEF Sorted
    <2>5. InUse(r) = InUse(q) \cup {w} \/ (InUse(r) = InUse(q) /\ \A v \in InUse(q) : w < v)
      BY <2>3
    <2>6. PoolInv(r)
      BY <1>4, <1>8, <1>11, <1>12, <2>4, <2>5, InsertedInUse
    <2> QED BY <2>6 DEF r
  <1> QED BY <1>13, <1>14

\* new_wp and free_wp keep the pool in order, and every pool they leave is one.
LEMMA NewWpInv ==
    ASSUME NEW q, PoolInv(q), q.free # NULL
    PROVE  PoolInv(new_wp(q))
  <1> DEFINE w == TakenWp(q)
             u == Unlinked(q, w)
  <1>1. /\ q \in Pools /\ q.free \in Link /\ Sorted(q) /\ InUse(q) \cap Free(q) = {}
        /\ InUse(q) \subseteq Wp /\ Free(q) \subseteq Wp
        /\ \A v \in InUse(q) : q.next[v] \in InUse(q) \cup {NULL}
        /\ \A x \in Lost(q) : \A v \in InUse(q) \cup Free(q) : x < v
    BY PoolInvParts
  <1>2. w \in Free(q) /\ \A v \in Free(q) : w <= v
    <2>1. q.free \in Free(q)
      BY <1>1, ChainClosed DEF Free
    <2>2. Free(q) \in SUBSET Nat
      BY <1>1, WpNotNull
    <2>3. \E m \in Free(q) : \A n \in Free(q) : m <= n
      BY <2>1, <2>2, LeastNumber
    <2> QED BY <2>3 DEF TakenWp, Min
  <1> HIDE DEF w
  <1>3. /\ u \in Pools /\ Linked(u) /\ u.head = q.head
        /\ u.next[w] = NULL /\ u.prev[w] = NULL
        /\ \A v \in InUse(q) : u.next[v] = q.next[v]
        /\ InUse(u) = InUse(q) /\ Free(u) = Free(q) \ {w}
        /\ u.free = NULL \/ u.prev[u.free] = NULL
    BY <1>2, UnlinkedFacts
  <1> HIDE DEF u
  <1>4. Taken(u, w)
    <2>1. Sorted(u)
      BY <1>1, <1>3 DEF Sorted
    <2>2. w \in Lost(u) /\ \A x \in Lost(u) \ {w} : x \in Lost(q)
      BY <1>1, <1>2, <1>3 DEF Lost
    <2>3. ASSUME NEW v \in Free(u) PROVE w < v
      <3>1. v \in Free(q) /\ v # w /\ w <= v
        BY <1>2, <1>3
      <3>2. v \in Nat /\ w \in Nat
        BY <1>1, <1>2, <3>1, WpNotNull
      <3> QED BY <3>1, <3>2
    <2> QED BY <1>1, <1>2, <1>3, <2>1, <2>2, <2>3 DEF Taken
  <1>5. PoolInv(Inserted(u, w))
    BY <1>4, InsertedFirst, InsertedLast, InsertedBefore
  <1> QED BY <1>5 DEF new_wp, u, w

LEMMA FreeWpInv ==
    ASSUME NEW q, PoolInv(q), NEW w \in InUse(q)
    PROVE  PoolInv(free_wp(q, w))
  <1> DEFINE r == free_wp(q, w)
             n0 == Pointed(q.next, q.prev[w], q.next[w])
             p0 == Pointed(q.prev, q.next[w], q.prev[w])
             p1 == [p0 EXCEPT ![w] = NULL]
  <1>1. /\ q \in Pools /\ q.free \in Link /\ q.head \in Link /\ w \in Wp
        /\ q.next \in [Wp -> Link] /\ q.prev \in [Wp -> Link]
        /\ Linked(q) /\ Sorted(q) /\ InUse(q) \cap Free(q) = {}
        /\ q.free = NULL \/ q.prev[q.free] = NULL
        /\ InUse(q) \subseteq Wp /\ Free(q) \subseteq Wp
        /\ \A v \in InUse(q) : q.next[v] \in InUse(q) \cup {NULL}
        /\ \A v \in Free(q) : q.next[v] \in Free(q) \cup {NULL}
        /\ \A x \in Lost(q) : \A v \in InUse(q) \cup Free(q) : x < v
    BY PoolInvParts
  <1>2. /\ q.next[w] \in Link /\ q.prev[w] \in Link /\ q.next[w] # w /\ q.prev[w] # w
        /\ q.free \in Free(q) \cup {NULL}
    <2>1. q.next[w] # w
      BY <1>1, WpNotNull DEF Sorted
    <2> QED BY <1>1, <2>1, ChainClosed DEF Linked, Free
  <1>3. /\ r.head = IF q.head = w THEN q.next[w] ELSE q.head
        /\ r.free = w
        /\ r.next = [n0 EXCEPT ![w] = q.free]
        /\ r.prev = Pointed(p1, q.free, w)
        /\ r = [head |-> r.head, free |-> r.free, next |-> r.next, prev |-> r.prev]
    BY DEF free_wp
  <1> HIDE DEF r
  <1>4. /\ n0 \in [Wp -> Link]
        /\ \A v \in Wp : n0[v] = IF v = q.prev[w] THEN q.next[w] ELSE q.next[v]
    BY <1>1, <1>2, WpNotNull DEF Pointed, Link
  <1>5. /\ p0 \in [Wp -> Link]
        /\ \A v \in Wp : p0[v] = IF v = q.next[w] THEN q.prev[w] ELSE q.prev[v]
    BY <1>1, <1>2, WpNotNull DEF Pointed, Link
  <1> HIDE DEF n0, p0
  <1>6. /\ r.next \in [Wp -> Link]
        /\ \A v \in Wp : r.next[v] = IF v = w THEN q.free
                                     ELSE IF v = q.prev[w] THEN q.next[w] ELSE q.next[v]
    BY <1>1, <1>3, <1>4
  <1>7. p1 \in [Wp -> Link] /\ \A v \in Wp : p1[v] = IF v = w THEN NULL ELSE p0[v]
    BY <1>1, <1>5, WpNotNull
  <1> HIDE DEF p1
  <1>8. /\ r.prev \in [Wp -> Link]
        /\ \A v \in Wp : r.prev[v] = IF v = q.free THEN w ELSE IF v = w THEN NULL
                                     ELSE IF v = q.next[w] THEN q.prev[w] ELSE q.prev[v]
    <2>1. \A v \in Wp : r.prev[v] = IF v = q.free THEN w ELSE p1[v]
      BY <1>1, <1>3, <1>7, WpNotNull DEF Pointed, Link
    <2>2. r.prev \in [Wp -> Link]
      BY <1>1, <1>3, <1>7, WpNotNull DEF Pointed, Link
    <2> QED BY <1>5, <1>7, <2>1, <2>2
  <1>9. r \in Pools
    BY <1>1, <1>2, <1>3, <1>6, <1>8, WpNotNull DEF Pools
  <1>10. ASSUME NEW a \in Wp, NEW b \in Wp PROVE r.next[a] = b <=> r.prev[b] = a
    <2>1. /\ (q.next[a] = b <=> q.prev[b] = a) /\ (q.next[a] = w <=> q.prev[w] = a)
          /\ (q.next[w] = b <=> q.prev[b] = w)
          /\ a # NULL /\ b # NULL /\ w # NULL
      BY <1>1, WpNotNull DEF Linked
    <2>2. b = q.free => q.prev[b] = NULL
      BY <1>1, <1>2, WpNotNull
    <2>3. q.free # w
      BY <1>1, <1>2, WpNotNull
    <2>4. /\ r.next[a] = IF a = w THEN q.free
                         ELSE IF a = q.prev[w] THEN q.next[w] ELSE q.next[a]
          /\ r.prev[b] = IF b = q.free THEN w ELSE IF b = w THEN NULL
                         ELSE IF b = q.next[w] THEN q.prev[w] ELSE q.prev[b]
      BY <1>6, <1>8
    <2> QED BY <1>2, <2>1, <2>2, <2>3, <2>4
  <1>11. Free(r) = Free(q) \cup {w}
    <2>1. w \in Wp \ Free(q)
      BY <1>1
    <2>2. ASSUME NEW v \in Free(q) PROVE r.next[v] = q.next[v]
      <3>1. v # w /\ q.next[v] # w
        BY <1>1, <2>1, <2>2, WpNotNull
      <3>2. v # q.prev[w]
        BY <1>1, <2>2, <3>1 DEF Linked
      <3> QED BY <1>1, <1>6, <3>1, <3>2
    <2>3. r.next[w] = q.free
      BY <1>1, <1>6
    <2>4. ChainFrom(r, w) = ChainFrom(q, q.free) \cup {w}
      BY <1>1, <1>9, <2>1, <2>2, <2>3, ChainFronted DEF Free
    <2> QED BY <1>3, <2>4 DEF Free
  <1>12. InUse(r) = InUse(q) \ {w}
    <2>1. ASSUME w = q.head, NEW v \in InUse(q) PROVE q.next[v] # w
      <3>1. w <= v /\ v \in Wp /\ v \in Nat /\ w \in Nat
        BY <1>1, <2>1, HeadLeast, WpNotNull
      <3> QED BY <1>1, <3>1 DEF Sorted
    <2>2. \A v \in InUse(q) \ {w} : r.next[v] = IF q.next[v] = w THEN q.next[w] ELSE q.next[v]
      BY <1>1, <1>6 DEF Linked
    <2>3. ChainFrom(r, IF w = q.head THEN q.next[w] ELSE q.head) = ChainFrom(q, q.head) \ {w}
      BY <1>1, <1>2, <1>9, <2>1, <2>2, ChainWithout DEF InUse
    <2>4. r.head = IF w = q.head THEN q.next[w] ELSE q.head
      BY <1>3
    <2> QED BY <2>3, <2>4 DEF InUse
  <1>13. Sorted(r)
    <2>1. ASSUME NEW v \in InUse(r), r.next[v] \in Wp PROVE v < r.next[v]
      <3>1. v \in InUse(q) /\ v # w /\ v \in Wp
        BY <1>1, <1>12, <2>1
      <3>2. CASE v = q.prev[w]
        <4>1. q.next[v] = w /\ r.next[v] = q.next[w]
          BY <1>1, <1>6, <3>1, <3>2 DEF Linked
        <4>2. v < w /\ w < q.next[w]
          BY <1>1, <2>1, <3>1, <4>1 DEF Sorted
        <4>3. v \in Nat /\ w \in Nat /\ q.next[w] \in Nat
          BY <1>1, <2>1, <3>1, <4>1, WpNotNull
        <4> QED BY <4>1, <4>2, <4>3
      <3>3. CASE v # q.prev[w]
        BY <1>1, <1>6, <2>1, <3>1, <3>3 DEF Sorted
      <3> QED BY <3>2, <3>3
    <2> QED BY <2>1 DEF Sorted
  <1>14. r.prev[r.free] = NULL
    BY <1>1, <1>2, <1>3, <1>8, WpNotNull
  <1>15. InUse(r) \cap Free(r) = {} /\ Lost(r) = Lost(q)
    BY <1>1, <1>11, <1>12 DEF Lost
  <1>16. \A x \in Lost(r) : \A v \in InUse(r) \cup Free(r) : x < v
    BY <1>1, <1>11, <1>12, <1>15
  <1>17. PoolInv(r)
    BY <1>9, <1>10, <1>13, <1>14, <1>15, <1>16 DEF PoolInv, PoolWellFormed, Sorted, Lost
  <1> QED BY <1>17 DEF r

LEMMA InitPoolInv == PoolInv(init_wp_pool)
  <1> DEFINE q == init_wp_pool
  <1>0. NR_WP \in Nat /\ NR_WP # 0 /\ 0 \in Wp
    BY WatchPoolAssumption DEF Wp
  <1>1. /\ q.head = NULL /\ q.free = 0
        /\ q.next = [w \in Wp |-> IF w = NR_WP - 1 THEN NULL ELSE w + 1]
        /\ q.prev = [w \in Wp |-> IF w = 0 THEN NULL ELSE w - 1]
        /\ q = [head |-> q.head, free |-> q.free, next |-> q.next, prev |-> q.prev]
    BY DEF init_wp_pool
  <1> HIDE DEF q
  <1>2. q.next \in [Wp -> Link] /\ q.prev \in [Wp -> Link]
    <2>1. \A w \in Wp : w # NR_WP - 1 => w + 1 \in Wp
      BY <1>0 DEF Wp
    <2>2. \A w \in Wp : w # 0 => w - 1 \in Wp
      BY <1>0 DEF Wp
    <2> QED BY <1>1, <2>1, <2>2, WpNotNull
  <1>3. q \in Pools
    BY <1>0, <1>1, <1>2, WpNotNull DEF Pools
  <1>4. Linked(q)
    <2>1. ASSUME NEW v \in Wp, NEW w \in Wp PROVE q.next[v] = w <=> q.prev[w] = v
      <3>1. v \in 0 .. NR_WP - 1 /\ w \in 0 .. NR_WP - 1 /\ v # NULL /\ w # NULL
        BY WpNotNull DEF Wp
      <3>2. q.next[v] = (IF v = NR_WP - 1 THEN NULL ELSE v + 1)
            /\ q.prev[w] = (IF w = 0 THEN NULL ELSE w - 1)
        BY <1>1
      <3> QED BY <1>0, <3>1, <3>2
    <2> QED BY <2>1 DEF Linked
  <1>5. InUse(q) = {}
    <2> DEFINE S == {}
    <2>1. q.head \in S \cup {NULL} /\ \A x \in S \cap Wp : q.next[x] \in S \cup {NULL}
      BY <1>1
    <2> HIDE DEF S
    <2>2. ChainFrom(q, q.head) \subseteq S
      BY <1>1, <1>3, <2>1, ChainLeast, WpNotNull
    <2> QED BY <2>2 DEF InUse, S
  <1>6. Free(q) = Wp
    <2>1. /\ Free(q) \subseteq Wp /\ 0 \in Free(q)
          /\ \A v \in Free(q) : q.next[v] \in Free(q) \cup {NULL}
      BY <1>0, <1>1, <1>3, ChainClosed, WpNotNull DEF Free
    <2> DEFINE S == Wp \ Free(q)
    <2> SUFFICES ASSUME S # {} PROVE FALSE
      BY <2>1
    <2>2. S \in SUBSET Nat
      BY WpNotNull
    <2>3. PICK m \in S : \A n \in S : m <= n
      BY <2>2, LeastNumber
    <2>4. m \in 0 .. NR_WP - 1 /\ m # 0 /\ m \notin Free(q) /\ m # NULL
      BY <2>1, <2>3, WpNotNull DEF Wp
    <2>5. m - 1 \in 0 .. NR_WP - 1 /\ m - 1 # NR_WP - 1 /\ (m - 1) + 1 = m /\ ~(m <= m - 1)
      BY <1>0, <2>4
    <2>6. m - 1 \in Wp /\ m - 1 \in Free(q)
      BY <2>3, <2>5 DEF Wp
    <2>7. q.next[m - 1] = m
      BY <1>1, <2>5, <2>6
    <2> QED BY <2>1, <2>4, <2>6, <2>7
  <1>7. q.free = NULL \/ q.prev[q.free] = NULL
    BY <1>0, <1>1
  <1>8. PoolInv(q)
    BY <1>3, <1>4, <1>5, <1>6, <1>7 DEF PoolInv, PoolWellFormed, Linked, Lost
  <1> QED BY <1>8 DEF q
-----------------------------------------------------------------------------
(* The commands keep the pool, and the counts of execute stay counts.      *)

\* Tests leaves the loop before the count passes 0.
CountsHold ==
    /\ left \in Counts
    /\ at \in InLoop => left # 0
    /\ interrupts \in 0 .. MaxInterrupts

LEMMA PoolHolds == Spec => []PoolInv(pool)
  <1>1. Init => PoolInv(pool)
    BY InitPoolInv DEF Init
  <1>2. PoolInv(pool) /\ [Next]_vars => PoolInv(pool)'
    <2> SUFFICES ASSUME PoolInv(pool), [Next]_vars PROVE PoolInv(pool')
      OBVIOUS
    <2>1. CASE CmdW
      BY <2>1, NewWpInv DEF CmdW
    <2>2. CASE CmdD
      BY <2>2, FreeWpInv DEF CmdD
    <2>3. ASSUME pool' = pool PROVE PoolInv(pool')
      BY <2>3
    <2>4. CASE CmdExec \/ CmdWFails \/ CmdQ \/ EndOfInput \/ CmdBatch \/ Enter \/ Retires
      BY <2>3, <2>4 DEF CmdExec, CmdWFails, CmdQ, EndOfInput, CmdBatch, Enter, Retires, Executes
    <2>5. CASE TakesInterrupt \/ Halts \/ Hangs \/ Skips \/ Checks \/ Compares \/ Watches \/ Stops
      BY <2>3, <2>5 DEF TakesInterrupt, Halts, Hangs, Skips, Checks, Compares, Watches, Stops
    <2>6. CASE Tests \/ Leaves \/ Settles \/ Exits \/ Interrupt \/ UNCHANGED vars
      BY <2>3, <2>6 DEF Tests, Leaves, Settles, Exits, Interrupt, vars
    <2> QED BY <2>1, <2>2, <2>4, <2>5, <2>6 DEF Next, Command, Runs, Difftest
  <1> QED BY <1>1, <1>2, PTL DEF Spec

LEMMA CountsAre ==
    /\ Forever \in Counts /\ Steps \subseteq Counts
    /\ \A n \in Counts : n = Forever \/ n \in Steps \/ \E m \in Steps : n \in 0 .. m
    /\ \A m \in Steps : 0 .. m \subseteq Counts
  <1> DEFINE U == UNION {0 .. n : n \in Steps}
  <1>1. Counts = Steps \cup U \cup {Forever}
    BY DEF Counts
  <1>2. \A k : k \in U <=> \E m \in Steps : k \in 0 .. m
    BY Zenon
  <1> HIDE DEF U
  <1> QED BY <1>1, <1>2

LEMMA CountDown ==
    ASSUME NEW n \in Counts, n # 0, n # Forever
    PROVE  n - 1 \in Counts
  <1>1. CASE n \in Steps
    <2>1. n \in Nat /\ n - 1 \in 0 .. n
      BY <1>1, SimulatorAssumption
    <2> QED BY <1>1, <2>1, CountsAre
  <1>2. CASE \E m \in Steps : n \in 0 .. m
    <2>1. PICK m \in Steps : n \in 0 .. m
      BY <1>2
    <2>2. m \in Nat /\ n - 1 \in 0 .. m
      BY <2>1, SimulatorAssumption
    <2> QED BY <2>1, <2>2, CountsAre
  <1> QED BY <1>1, <1>2, CountsAre

LEMMA CountsAlways == Spec => []CountsHold
  <1>1. Init => CountsHold
    BY SimulatorAssumption, CountsAre DEF Init, CountsHold, InLoop, Forever
  <1>2. CountsHold /\ [Next]_vars => CountsHold'
    <2> SUFFICES ASSUME CountsHold, [Next]_vars PROVE CountsHold'
      OBVIOUS
    <2>1. left' \in Counts
      <3>1. CASE CmdExec
        BY <3>1, CountsAre DEF CmdExec
      <3>2. CASE Tests
        <4>1. left # 0
          BY <3>2 DEF CountsHold, Tests, InLoop
        <4>2. left' = left \/ (left # Forever /\ left' = left - 1)
          BY <3>2 DEF Tests
        <4> QED BY <4>1, <4>2, CountDown DEF CountsHold
      <3>3. CASE Leaves
        BY <3>3, CountsAre DEF Leaves
      <3>4. CASE ~CmdExec /\ ~Tests /\ ~Leaves
        <4>1. left' = left
          BY <3>4 DEF Next, Command, Runs, Difftest, CmdW, CmdWFails, CmdD, CmdQ, EndOfInput,
             CmdBatch, Enter, Retires, Executes, TakesInterrupt, Halts, Hangs, Skips, Checks,
             Compares, Watches, Stops, Settles, Exits, Interrupt, vars
        <4> QED BY <4>1 DEF CountsHold
      <3> QED BY <3>1, <3>2, <3>3, <3>4
    <2>2. at' \in InLoop => left' # 0
      <3>1. CASE Tests
        BY <3>1 DEF Tests, CountsHold, InLoop
      <3>2. CASE Enter
        BY <3>2 DEF Enter, InLoop
      <3>3. CASE ~Enter /\ ~Tests
        <4>1. at' \in InLoop => at \in InLoop /\ left' = left
          BY <3>3 DEF Next, Command, Runs, Difftest, CmdExec, CmdW, CmdWFails, CmdD, CmdQ,
             EndOfInput, CmdBatch, Retires, Executes, TakesInterrupt, Halts, Hangs, Skips, Checks,
             Compares, Watches, Stops, Leaves, Settles, Exits, Interrupt, vars, InLoop, Returned
        <4> QED BY <4>1 DEF CountsHold
      <3> QED BY <3>1, <3>2, <3>3
    <2>3. interrupts' \in 0 .. MaxInterrupts
      <3>1. CASE Interrupt
        BY <3>1, SimulatorAssumption DEF Interrupt, CountsHold
      <3>2. CASE ~Interrupt
        <4>1. interrupts' = interrupts
          BY <3>2 DEF Next, Command, Runs, Difftest, CmdExec, CmdW, CmdWFails, CmdD, CmdQ,
             EndOfInput, CmdBatch, Enter, Retires, Executes, TakesInterrupt, Halts, Hangs, Skips,
             Checks, Compares, Watches, Stops, Tests, Leaves, Settles, Exits, vars
        <4> QED BY <4>1 DEF CountsHold
      <3> QED BY <3>1, <3>2
    <2> QED BY <2>1, <2>2, <2>3 DEF CountsHold
  <1> QED BY <1>1, <1>2, PTL DEF Spec

\* Whatever watchpoints are set and deleted, in any order and however many nodes
\* the pool has, its two lists stay what the code means them to be: next and prev
\* undo each other, no node is free and in use, the list in use is sorted, and a
\* node check_watchpoint does not reach is smaller than every one it does.
THEOREM WatchesWellFormedHolds == Spec => []WatchesWellFormed
  <1>1. PoolInv(pool) => WatchesWellFormed
    BY DEF PoolInv, WatchesWellFormed
  <1> QED BY <1>1, PoolHolds, PTL

\* Every variable keeps its type: no link leaves the pool, execute's count stays
\* one that si can ask for or less, and the loop is never entered with 0 left.
THEOREM SimulatorTypeCorrect == Spec => []TypeOK
  <1>1. IInv /\ PoolInv(pool) /\ CountsHold /\ batch \in BOOLEAN => TypeOK
    BY DEF IInv, CoreOK, PoolInv, CountsHold, TypeOK
  <1>2. Spec => [](batch \in BOOLEAN)
    <2>1. Init => batch \in BOOLEAN
      BY SimulatorAssumption DEF Init
    <2>2. batch \in BOOLEAN /\ [Next]_vars => (batch \in BOOLEAN)'
      BY DEF Next, Command, Runs, Difftest, CmdExec, CmdW, CmdWFails, CmdD, CmdQ, EndOfInput,
         CmdBatch, Enter, Retires, Executes, TakesInterrupt, Halts, Hangs, Skips, Checks,
             Compares, Watches, Stops, Tests, Leaves, Settles, Exits, Interrupt, vars
    <2> QED BY <2>1, <2>2, PTL DEF Spec
  <1> QED BY <1>1, <1>2, IInvHolds, PoolHolds, CountsAlways, PTL
=============================================================================
