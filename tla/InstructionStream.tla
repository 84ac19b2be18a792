-------------------------- MODULE InstructionStream -------------------------
(***************************************************************************)
(* What the fetch path promises the pipeline: decode takes the program's   *)
(* instructions one after the other, from the address of the last jump on, *)
(* each once and whole.  A half-word may be any content its line had since *)
(* the last fence.i, never an older one; an instruction faults exactly     *)
(* when one of its half-words cannot be fetched, and names the first.      *)
(***************************************************************************)
EXTENDS CodeMemory

VARIABLES
    next,   \* the address decode waits for; None while a jump must come first
    event,  \* what the last step was: Quiet, Take(i), Jump(h) or Hold
    mem,    \* line -> its content in memory
    live    \* line -> the contents it had since the last fence.i

stream == <<next, event, mem, live>>

Init ==
    /\ next = 0
    /\ event = Quiet
    /\ mem = [l \in Line |-> 0]
    /\ live = [l \in Line |-> {0}]

Fetchable(h) == LineOf(DwordOf(h)) \notin Unmapped \cup BusBad
Needed(h) == [n \in 1 .. Size(h) |-> After(h, n - 1)]

Correct(i) ==
    /\ i.pc = next
    /\ \/ /\ i.fault = None
          /\ Len(i.halves) = Size(next)
          /\ \A n \in 1 .. Size(next) :
                /\ Fetchable(Needed(next)[n])
                /\ i.halves[n][1] = Needed(next)[n]
                /\ i.halves[n][2] \in live[LineOf(DwordOf(Needed(next)[n]))]
       \/ /\ i.fault = next
          /\ ~Fetchable(next)
       \/ /\ i.fault = After(next, 1)
          /\ next \in Wide
          /\ Fetchable(next) /\ ~Fetchable(After(next, 1))

TakeNext ==
    /\ next # None
    /\ event'.what = "take"
    /\ Correct(event'.inst)
    /\ next' = IF event'.inst.fault = None THEN After(next, Size(next)) ELSE None

Redirect ==
    /\ event'.what = "jump"
    /\ next' = event'.to

Stop == event' = Hold /\ next' = None
Wait == event' = Quiet /\ next' = next

Patch ==
    \E l \in Patched, v \in Version :
        /\ mem' = [mem EXCEPT ![l] = v]
        /\ live' = [live EXCEPT ![l] = @ \cup {v}]

FenceEnd ==
    /\ live' = [l \in Line |-> {mem[l]}]
    /\ mem' = mem

Next ==
    /\ TakeNext \/ Redirect \/ Stop \/ Wait
    /\ Patch \/ FenceEnd \/ UNCHANGED <<mem, live>>

Spec == Init /\ [][Next]_stream
=============================================================================
