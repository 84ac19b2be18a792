----------------------------- MODULE MemoryPorts ----------------------------
(***************************************************************************)
(* What the data cache promises its two clients: a memory that each of     *)
(* them uses through a port of its own, with one request outstanding.  A   *)
(* request takes effect once, in one step, between the request and its     *)
(* answer; only a store of the LSU changes the memory.  A request may be   *)
(* answered by an error and then had no effect.                            *)
(***************************************************************************)
EXTENDS Sequences

CONSTANTS
    Op,         \* requests of the LSU: [kind, line, half, val]
    WalkAddr,   \* page table entries the walker reads: <<line, half>>
    Memory0,    \* the memory at the start: line -> <<low word, high word>>
    None        \* no request, no result

VARIABLES
    m,          \* the memory
    lsu,        \* None, or [op, res]; res is None until the request took effect
    walk        \* None, or [addr, res]

ports == <<m, lsu, walk>>

\* A store writes a word that says where it belongs.
WordOf(op) == <<op.line, op.half, op.val>>
IsRead(op) == op.kind \in {"load", "lr"}
Result(r, word) == [ok |-> r, word |-> word]
Failed == {Result(r, None) : r \in {"error", "fault"}}

Init ==
    /\ m = Memory0
    /\ lsu = None
    /\ walk = None

LsuAsk ==
    /\ lsu = None
    /\ \E op \in Op : lsu' = [op |-> op, res |-> None]
    /\ m' = m

LsuPerform ==
    /\ lsu # None /\ lsu.res = None
    /\ \/ /\ \E f \in Failed : lsu' = [lsu EXCEPT !.res = f]
          /\ m' = m
       \/ /\ IsRead(lsu.op)
          /\ lsu' = [lsu EXCEPT !.res = Result("ok", m[lsu.op.line][lsu.op.half])]
          /\ m' = m
       \/ /\ ~IsRead(lsu.op)
          /\ lsu' = [lsu EXCEPT !.res = Result("ok", None)]
          /\ m' = [m EXCEPT ![lsu.op.line][lsu.op.half] = WordOf(lsu.op)]

LsuAnswer ==
    /\ lsu # None /\ lsu.res # None
    /\ lsu' = None
    /\ m' = m

WalkAsk ==
    /\ walk = None
    /\ \E a \in WalkAddr : walk' = [addr |-> a, res |-> None]

WalkPerform ==
    /\ walk # None /\ walk.res = None
    /\ \/ \E f \in Failed : walk' = [walk EXCEPT !.res = f]
       \/ walk' = [walk EXCEPT !.res = Result("ok", m[walk.addr[1]][walk.addr[2]])]

\* The answer is taken, or a flush makes the walker forget the request.
WalkEnd ==
    /\ walk # None
    /\ walk' = None

\* Both clients live on one clock: their steps may coincide.
Next ==
    /\ LsuAsk \/ LsuPerform \/ LsuAnswer \/ UNCHANGED <<m, lsu>>
    /\ WalkAsk \/ WalkPerform \/ WalkEnd \/ UNCHANGED walk

Spec == Init /\ [][Next]_ports
=============================================================================
