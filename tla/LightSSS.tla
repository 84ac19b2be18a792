------------------------------ MODULE LightSSS ------------------------------
(***************************************************************************)
(* Snapshots of the NPC simulator (lightsss.cpp, lightsss.h, main.cpp).    *)
(* The simulator forks a copy of itself every Period instructions and      *)
(* keeps the last SlotSize copies, which poll a shared segment.  When the  *)
(* run fails, the oldest copy is woken and simulates again, now with a     *)
(* wave file.  A process is a record of what fork copies; shinfo is shared.*)
(* The simulator runs in batch mode (the Makefile's NPC_FLAGS) and was     *)
(* built with CONFIG_VCD_GET; a replay sees what the run saw.              *)
(***************************************************************************)
EXTENDS Integers, SequencesExt

CONSTANTS
    Pid, Main,      \* processes; Main is the one the user started
    None,
    SlotSize,       \* SLOT_SIZE
    Period,         \* instructions between snapshots, 2000 in main.cpp
    Fates,          \* how a program may end: [at, how]
    ForkFails,      \* may fork() fail
    MaxInterrupts   \* how often the user presses ^C

ASSUME LightSSSAssumption ==
    /\ Main \in Pid /\ None \notin Pid /\ None \notin [from : Nat, to : Nat]
    /\ SlotSize \in Nat \ {0} /\ Period \in Nat \ {0}
    /\ Fates \subseteq [at : Nat \ {0}, how : {"good", "bad", "stuck", "mismatch"}]
    /\ ForkFails \in BOOLEAN /\ MaxInterrupts \in Nat

VARIABLES
    procs,          \* pid -> [at, inst, npc, child]
    pidSlot,        \* of Main: front is the newest snapshot, back the oldest
    flag, notgood, oldest,  \* shinfo
    fate,           \* what this program does
    wave,           \* the wave file: instructions [from, to], None: not closed
    interrupts

vars == <<procs, pidSlot, flag, notgood, oldest, fate, wave, interrupts>>

Unborn == [at |-> "none", inst |-> 0, npc |-> "RUNNING", child |-> FALSE]

Places == {"none", "loop", "difftest", "fork", "exit", "wake", "wakeKill", "wakeNotgood",
           "wakeFlag", "wait", "clear", "poll", "woken", "check", "dead"}

TypeOK ==
    /\ procs \in [Pid -> [at : Places, inst : Nat, child : BOOLEAN,
                          npc : {"RUNNING", "END_GOOD", "END_BAD", "ABORT"}]]
    /\ pidSlot \in Seq(Pid \ {Main}) /\ Len(pidSlot) <= SlotSize
    /\ flag \in BOOLEAN /\ notgood \in BOOLEAN /\ oldest \in Pid \cup {None}
    /\ fate \in Fates
    /\ wave \in [from : Nat, to : Nat] \cup {None}
    /\ interrupts \in 0 .. MaxInterrupts

\* sim_init takes the first snapshot before the reset.
Init ==
    /\ procs = [p \in Pid |-> IF p = Main THEN [Unborn EXCEPT !.at = "fork"] ELSE Unborn]
    /\ pidSlot = <<>>
    /\ flag = FALSE /\ notgood = FALSE /\ oldest = None
    /\ fate \in Fates
    /\ wave = None
    /\ interrupts = 0

At(p, place) == procs[p].at = place
Moves(p, place) == procs' = [procs EXCEPT ![p].at = place]
Alive(p) == procs[p].at \notin {"none", "dead"}
Bad(p) == procs[p].npc \in {"END_BAD", "ABORT"}     \* is_exit_status_bad
Killed(victims) == [p \in Pid |-> IF p \in victims THEN Unborn ELSE procs[p]]

-----------------------------------------------------------------------------
\* The simulation loop, of Main or of a woken snapshot.

\* exec_once.  ebreak and the 16384 cycles without a commit end it before the
\* instruction is counted; the second goes to sim_exit itself.
ExecOnce(p) ==
    /\ At(p, "loop")
    /\ IF procs[p].inst + 1 = fate.at /\ fate.how # "mismatch"
       THEN procs' = [procs EXCEPT
                ![p].at = "exit",
                ![p].npc = [good |-> "END_GOOD", bad |-> "END_BAD", stuck |-> "ABORT"][fate.how]]
       ELSE procs' = [procs EXCEPT
                ![p].inst = @ + 1,
                ![p].at = IF (procs[p].inst + 1) % Period = 0 /\ ~procs[p].child
                          THEN "fork" ELSE "difftest"]
    /\ UNCHANGED <<pidSlot, flag, notgood, oldest, fate, wave, interrupts>>

\* difftest_step and the test of the loop: set_npc_state makes difftest skip.
Difftest(p) ==
    /\ At(p, "difftest")
    /\ procs' = [procs EXCEPT
           ![p].npc = IF @ = "RUNNING" /\ procs[p].inst = fate.at THEN "ABORT" ELSE @,
           ![p].at = IF procs[p].npc = "RUNNING" /\ procs[p].inst # fate.at
                     THEN "loop" ELSE "exit"]
    /\ UNCHANGED <<pidSlot, flag, notgood, oldest, fate, wave, interrupts>>

\* sim_exit.
SimExit(p) ==
    /\ At(p, "exit")
    /\ IF procs[p].child
       THEN /\ Moves(p, "dead")
            /\ wave' = [wave EXCEPT !.to = procs[p].inst]
       ELSE /\ Moves(p, IF Bad(p) THEN "wake" ELSE "clear")
            /\ UNCHANGED wave
    /\ UNCHANGED <<pidSlot, flag, notgood, oldest, fate, interrupts>>

-----------------------------------------------------------------------------
\* do_fork, in Main.

\* Mutant of ForkMakesRoom: the snapshot is forgotten and not killed.
ForkForgets ==
    /\ At(Main, "fork")
    /\ Len(pidSlot) = SlotSize
    /\ pidSlot' = Front(pidSlot)
    /\ UNCHANGED <<procs, flag, notgood, oldest, fate, wave, interrupts>>

ForkMakesRoom ==
    /\ At(Main, "fork")
    /\ Len(pidSlot) = SlotSize
    /\ procs' = Killed({Last(pidSlot)})
    /\ pidSlot' = Front(pidSlot)
    /\ UNCHANGED <<flag, notgood, oldest, fate, wave, interrupts>>

\* Mutant of Fork: it does not wait for room.
ForkOverfills ==
    /\ At(Main, "fork")
    /\ \E p \in Pid :
          /\ At(p, "none")
          /\ procs' = [procs EXCEPT
                ![Main].at = "difftest",
                ![p] = [procs[Main] EXCEPT !.at = "poll", !.child = TRUE]]
          /\ pidSlot' = <<p>> \o pidSlot
    /\ UNCHANGED <<flag, notgood, oldest, fate, wave, interrupts>>

Fork ==
    /\ At(Main, "fork")
    /\ Len(pidSlot) # SlotSize
    /\ \E p \in Pid :
          /\ At(p, "none")
          /\ procs' = [procs EXCEPT
                ![Main].at = "difftest",
                ![p] = [procs[Main] EXCEPT !.at = "poll", !.child = TRUE]]
          /\ pidSlot' = <<p>> \o pidSlot
    /\ UNCHANGED <<flag, notgood, oldest, fate, wave, interrupts>>

\* FORK_ERROR: the run is aborted.
ForkError ==
    /\ ForkFails
    /\ At(Main, "fork")
    /\ Len(pidSlot) # SlotSize
    /\ procs' = [procs EXCEPT ![Main].at = "difftest", ![Main].npc = "ABORT"]
    /\ UNCHANGED <<pidSlot, flag, notgood, oldest, fate, wave, interrupts>>

-----------------------------------------------------------------------------
\* shwait and the rest of do_fork, in a snapshot.

\* The flag is seen at some poll after it was set.
SeesFlag(p) ==
    /\ At(p, "poll")
    /\ flag
    /\ Moves(p, "woken")
    /\ UNCHANGED <<pidSlot, flag, notgood, oldest, fate, wave, interrupts>>

SeesNotgood(p) ==
    /\ At(p, "woken")
    /\ Moves(p, IF notgood THEN "check" ELSE "dead")
    /\ UNCHANGED <<pidSlot, flag, notgood, oldest, fate, wave, interrupts>>

\* FORK_CHILD opens the wave file.  A snapshot that is not the oldest has none:
\* it aborts, and dies of the null pointer at the next cycle.
ChecksOldest(p) ==
    /\ At(p, "check")
    /\ IF oldest = p
       THEN /\ Moves(p, "difftest")
            /\ wave' = [from |-> procs[p].inst, to |-> 0]
       ELSE /\ Moves(p, "dead")
            /\ UNCHANGED wave
    /\ UNCHANGED <<pidSlot, flag, notgood, oldest, fate, interrupts>>

-----------------------------------------------------------------------------
\* wakeup_child and do_clear, in Main.

\* Mutant of WakeOldest: the newest snapshot is woken.
WakeNewest ==
    /\ At(Main, "wake")
    /\ IF pidSlot = <<>>
       THEN Moves(Main, "dead") /\ UNCHANGED oldest
       ELSE Moves(Main, "wakeKill") /\ oldest' = Head(pidSlot)
    /\ UNCHANGED <<pidSlot, flag, notgood, fate, wave, interrupts>>

\* back() of an empty deque is undefined: Main ends, nobody is left to replay.
WakeOldest ==
    /\ At(Main, "wake")
    /\ IF pidSlot = <<>>
       THEN Moves(Main, "dead") /\ UNCHANGED oldest
       ELSE Moves(Main, "wakeKill") /\ oldest' = Last(pidSlot)
    /\ UNCHANGED <<pidSlot, flag, notgood, fate, wave, interrupts>>

Others == {p \in ToSet(pidSlot) : p # oldest /\ Alive(p)}

WakeKillsOther ==
    /\ At(Main, "wakeKill")
    /\ \E p \in Others : procs' = Killed({p})
    /\ UNCHANGED <<pidSlot, flag, notgood, oldest, fate, wave, interrupts>>

WakeKilledAll ==
    /\ At(Main, "wakeKill")
    /\ Others = {}
    /\ Moves(Main, "wakeNotgood")
    /\ UNCHANGED <<pidSlot, flag, notgood, oldest, fate, wave, interrupts>>

\* Mutant of WakeNotgood: the flag is set first, and notgood in WakeFlag.
WakeNotgoodLate ==
    /\ At(Main, "wakeNotgood")
    /\ Moves(Main, "wakeFlag")
    /\ flag' = TRUE
    /\ UNCHANGED <<pidSlot, notgood, oldest, fate, wave, interrupts>>

WakeNotgood ==
    /\ At(Main, "wakeNotgood")
    /\ Moves(Main, "wakeFlag")
    /\ notgood' = TRUE
    /\ UNCHANGED <<pidSlot, flag, oldest, fate, wave, interrupts>>

WakeFlag ==
    /\ At(Main, "wakeFlag")
    /\ Moves(Main, "wait")
    /\ flag' = TRUE /\ notgood' = TRUE
    /\ UNCHANGED <<pidSlot, oldest, fate, wave, interrupts>>

\* waitpid of the replay, then exit.
WaitEnds ==
    /\ At(Main, "wait")
    /\ At(Last(pidSlot), "dead")
    /\ Moves(Main, "dead")
    /\ UNCHANGED <<pidSlot, flag, notgood, oldest, fate, wave, interrupts>>

\* Mutant of ClearStep: one snapshot is cleared, not all.
ClearStepOnce ==
    /\ At(Main, "clear")
    /\ IF pidSlot = <<>>
       THEN Moves(Main, "dead") /\ UNCHANGED pidSlot
       ELSE /\ procs' = [Killed({Last(pidSlot)}) EXCEPT ![Main].at = "dead"]
            /\ pidSlot' = Front(pidSlot)
    /\ UNCHANGED <<flag, notgood, oldest, fate, wave, interrupts>>

ClearStep ==
    /\ At(Main, "clear")
    /\ IF pidSlot = <<>>
       THEN Moves(Main, "dead") /\ UNCHANGED pidSlot
       ELSE procs' = Killed({Last(pidSlot)}) /\ pidSlot' = Front(pidSlot)
    /\ UNCHANGED <<flag, notgood, oldest, fate, wave, interrupts>>

-----------------------------------------------------------------------------
\* ^C reaches the whole foreground group; my_handler ends the run of each, with
\* what its a0 happens to be.
Interrupt ==
    /\ interrupts < MaxInterrupts
    /\ Alive(Main)
    /\ \E ends \in [Pid -> {"END_GOOD", "END_BAD"}] :
          procs' = [p \in Pid |-> IF Alive(p) THEN [procs[p] EXCEPT !.npc = ends[p]]
                                  ELSE procs[p]]
    /\ interrupts' = interrupts + 1
    /\ UNCHANGED <<pidSlot, flag, notgood, oldest, fate, wave>>

Simulates(p) == ExecOnce(p) \/ Difftest(p) \/ SimExit(p)
Polls(p) == SeesFlag(p) \/ SeesNotgood(p) \/ ChecksOldest(p)
Manages ==
    \/ ForkMakesRoom \/ Fork \/ ForkError
    \/ WakeOldest \/ WakeKillsOther \/ WakeKilledAll \/ WakeNotgood \/ WakeFlag \/ WaitEnds
    \/ ClearStep

Next == Manages \/ Interrupt \/ \E p \in Pid : Simulates(p) \/ Polls(p)

\* Every process is scheduled.
Spec == Init /\ [][Next]_vars
FairSpec ==
    Spec /\ WF_vars(Manages) /\ \A p \in Pid : WF_vars(Simulates(p)) /\ WF_vars(Polls(p))

-----------------------------------------------------------------------------
Snapshots == {p \in Pid \ {Main} : Alive(p)}

\* While the simulation goes on, pidSlot is exactly the snapshots, all asleep, each
\* older than the one before it: none leaks when one makes room or fork fails.
SlotsAreSnapshots ==
    procs[Main].at \in {"loop", "difftest", "fork", "exit", "wake"} =>
        /\ ToSet(pidSlot) = Snapshots
        /\ \A p \in Snapshots : At(p, "poll")
        /\ \A i, j \in DOMAIN pidSlot :
              i < j => procs[pidSlot[i]].inst > procs[pidSlot[j]].inst

\* Who simulates again is alone, the one that was named before the flag was set,
\* and starts a whole Period before the end of the failed run, or at its start,
\* and less than SlotSize periods before it.
ReplayIsOldest ==
    \A p \in Snapshots :
        procs[p].at \in {"woken", "check"} =>
            /\ Snapshots = {p} /\ p = oldest /\ notgood
            /\ procs[p].inst = 0 \/ procs[Main].inst - procs[p].inst >= Period
            /\ procs[Main].inst - procs[p].inst < SlotSize * Period

\* A failed run that has a snapshot and that nobody interrupts leaves a wave file
\* that reaches its last instruction.
FailureReplayed ==
    At(Main, "wake") /\ pidSlot # <<>> ~>
        \/ interrupts > 0
        \/ At(Main, "dead") /\ wave # None /\ wave.to >= procs[Main].inst

\* The simulator ends, and leaves no process behind.
AllEnd == <>[](Snapshots = {} /\ At(Main, "dead"))
=============================================================================
