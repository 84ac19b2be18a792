------------------------------ MODULE FetchPath -----------------------------
(***************************************************************************)
(* ifu with what answers it: icache and a burst bus                        *)
(* (core_top_with_i_dcache.v), or an in-order bus (core_top.v under        *)
(* rv64_npc_top.v).  One step is one clock edge of all of them (Tick), or  *)
(* a store of the program that reaches memory between two edges.  The      *)
(* pipeline appears as the orders it gives the fetch side: run, flush with *)
(* the jump still to come, jump, fence.i.                                  *)
(***************************************************************************)
EXTENDS Icache

CONSTANTS
    Builds,     \* [icache, macro]: which top, and is USE_ICACHE defined
    FenceBuilds \* the tops in which the program may execute fence.i

ASSUME FetchAssumption ==
    /\ Builds \subseteq [icache : BOOLEAN, macro : BOOLEAN]
    /\ FenceBuilds \subseteq BOOLEAN

VARIABLES
    hasIcache,  \* the top that was elaborated
    bus,        \* requests the bus accepted: [line, sent, err] or [dword]
    stall,      \* the flush under way: no, wait (for its jump), scan (of fence.i)
    depth,      \* how far the first instruction taken since the last jump has
                \* come: 0 none was taken, 1 it is in EX, 2 in LS or behind it
    event,      \* history: what the last step was to the pipeline
    mem,        \* line -> its content in memory
    live        \* history: line -> the contents it had since the last fence.i

envVars == <<hasIcache, bus, stall, depth, event, mem, live>>
vars == <<ifuVars, icacheVars, envVars>>

TypeOK ==
    /\ IfuTypeOK /\ IcacheTypeOK
    /\ hasIcache \in BOOLEAN
    /\ Len(bus) <= 4
    /\ stall \in {"no", "wait", "scan"} /\ depth \in 0 .. 2
    /\ mem \in [Line -> Version] /\ live \in [Line -> SUBSET Version]

Init ==
    /\ IfuInit /\ IcacheInit
    /\ \E bld \in Builds : hasIcache = bld.icache /\ useIcache = bld.macro
    /\ bus = <<>> /\ stall = "no" /\ depth = 0 /\ event = Quiet
    /\ mem = [l \in Line |-> 0] /\ live = [l \in Line |-> {0}]

-----------------------------------------------------------------------------
\* Orders: [flush, to, clear, stall].  A flush that was begun without a jump
\* lasts until the jump: the instruction that raises it moves from ID to WB.
Order(flush, to, clear, then) == [flush |-> flush, to |-> to, clear |-> clear, stall |-> then]
Run == Order(FALSE, None, FALSE, "no")
Halt == Order(TRUE, None, FALSE, "wait")
JumpTo(h) == Order(TRUE, h, FALSE, "no")

\* fence.i jumps behind itself and keeps the flush while the data cache is
\* scanned; core_top raises the flush of fence.i and does not jump.
FenceOrders ==
    IF hasIcache \notin FenceBuilds \/ depth # 2 THEN {}
    ELSE IF hasIcache THEN {Order(TRUE, h, TRUE, "scan") : h \in Target}
    ELSE IF stall = "no" THEN {Order(TRUE, None, TRUE, "no")} ELSE {}

Orders ==
    IF stall = "scan" THEN {Order(TRUE, None, TRUE, s) : s \in {"scan", "no"}}
    ELSE (IF stall = "no" THEN {Run} ELSE {})
         \cup {Halt} \cup {JumpTo(h) : h \in Target} \cup FenceOrders

\* The cycle in which fence.i leaves LS.
FenceDone(o) == o.clear /\ o.stall = "no"

Fails(l) == l \in BusBad \/ (~hasIcache /\ l \in Unmapped)

\* A burst of two beats, of which at least one is an error in a bad line.
Beats ==
    LET r == Head(bus)
        beat == [ok |-> TRUE, last |-> r.sent = 1,
                 data |-> Good(2 * r.line + r.sent, mem[r.line])]
        error == [beat EXCEPT !.ok = FALSE]
    IN IF bus = <<>> THEN {}
       ELSE IF ~Fails(r.line) THEN {beat}
       ELSE IF r.sent = 1 /\ ~r.err THEN {error}
       ELSE {beat, error}

WordAnswers ==
    IF bus = <<>> THEN {}
    ELSE IF Fails(LineOf(Head(bus))) THEN Failed
    ELSE {Good(Head(bus), mem[LineOf(Head(bus))])}

Sent(beat) ==
    IF beat = None THEN bus
    ELSE IF beat.last THEN Tail(bus)
    ELSE <<[Head(bus) EXCEPT !.sent = 1, !.err = ~beat.ok]>> \o Tail(bus)

EventOf(o, ready) ==
    IF o.to # None THEN Jump(o.to)
    ELSE IF o = Halt THEN Hold
    ELSE IF ~o.flush /\ InstValid /\ ready THEN Take(buf[sel])
    ELSE Quiet

-----------------------------------------------------------------------------
PipelineStep(o, ready) ==
    /\ event' = EventOf(o, ready)
    /\ stall' = IF event'.what = "take" /\ event'.inst.fault # None THEN "wait" ELSE o.stall
    /\ depth' = IF o.to # None \/ o.clear THEN 0
                ELSE IF depth = 1 THEN 2
                ELSE IF depth = 0 /\ event'.what = "take" THEN 1
                ELSE depth
    /\ live' = IF FenceDone(o) THEN [l \in Line |-> {mem[l]}] ELSE live
    /\ UNCHANGED <<hasIcache, mem>>

CycleWithIcache(o, immuHas, arready, beat, ready) ==
    /\ IfuStep(o.flush, o.to, IfuArReady, out, ready)
    /\ IcacheStep(o.flush, o.clear, IF arvalid /\ IfuArReady THEN <<pc>> ELSE <<>>,
                  immuHas, arready, beat)
    /\ bus' = Sent(beat) \o (IF ArValid /\ arready
                             THEN <<[line |-> LineOf(paddr), sent |-> 0, err |-> FALSE]>>
                             ELSE <<>>)

CycleWithBus(o, arready, answer, ready) ==
    /\ IfuStep(o.flush, o.to, arready, answer, ready)
    /\ bus' = (IF answer = None THEN bus ELSE Tail(bus))
              \o (IF arvalid /\ arready THEN <<pc>> ELSE <<>>)
    /\ UNCHANGED icacheVars

\* One clock edge; a transfer that is not offered cannot be chosen.
Tick(o, immuHas, arready, answers, ready) ==
    /\ o \in Orders
    /\ arready => IF hasIcache THEN ArValid ELSE arvalid
    /\ immuHas => hasIcache /\ MmuRen
    /\ ready => InstValid
    /\ PipelineStep(o, ready)
    /\ \/ /\ hasIcache
          /\ \E beat \in (IF answers THEN Beats ELSE {None}) :
                CycleWithIcache(o, immuHas, arready, beat, ready)
       \/ /\ ~hasIcache
          /\ \E answer \in (IF answers THEN WordAnswers ELSE {None}) :
                CycleWithBus(o, arready, answer, ready)

\* A store of the program reaches memory.
PatchCode ==
    \E l \in Patched, v \in Version :
        /\ v > mem[l]
        /\ mem' = [mem EXCEPT ![l] = v]
        /\ live' = [live EXCEPT ![l] = @ \cup {v}]
        /\ event' = Quiet
        /\ UNCHANGED <<ifuVars, icacheVars, hasIcache, bus, stall, depth>>

Clock == \E o \in Orders, immuHas, arready, answers, ready \in BOOLEAN :
            Tick(o, immuHas, arready, answers, ready)
Next == Clock \/ PatchCode

Spec == Init /\ [][Next]_vars

\* Fairness: the clock runs (a flush is never owed); immu, the bus and decode each serve in the end what
\* is offered to them, unless a flush takes it away; a flush that waits for its
\* jump gets it, fence.i finds its end.
ClockRuns == \E immuHas, arready, answers, ready \in BOOLEAN :
                Tick(Run, immuHas, arready, answers, ready)
ImmuAnswers ==
    /\ hasIcache /\ MmuRen
    /\ \E o \in Orders, arready, answers, ready \in BOOLEAN :
          Tick(o, TRUE, arready, answers, ready)
BusAccepts ==
    /\ IF hasIcache THEN ArValid ELSE arvalid
    /\ \E o \in Orders, immuHas, answers, ready \in BOOLEAN :
          Tick(o, immuHas, TRUE, answers, ready)
BusAnswers ==
    /\ bus # <<>>
    /\ \E o \in Orders, immuHas, arready, ready \in BOOLEAN :
          Tick(o, immuHas, arready, TRUE, ready)
DecodeTakes ==
    /\ InstValid
    /\ \E o \in Orders, immuHas, arready, answers \in BOOLEAN :
          Tick(o, immuHas, arready, answers, TRUE)
FlushEnds ==
    /\ stall # "no"
    /\ Clock
    /\ stall' = "no"

FairSpec ==
    /\ Spec
    /\ WF_vars(ClockRuns) /\ WF_vars(ImmuAnswers) /\ WF_vars(BusAccepts)
    /\ WF_vars(BusAnswers) /\ WF_vars(DecodeTakes) /\ WF_vars(FlushEnds)

-----------------------------------------------------------------------------
\* The instruction decode waits for.
NextPC ==
    IF stall = "wait" THEN None
    ELSE IF InstValid THEN buf[sel].pc
    ELSE IF buf[Other(sel)] # None THEN buf[Other(sel)].pc
    ELSE myPC

Stream == INSTANCE InstructionStream WITH next <- NextPC

\* Decode takes exactly the program's instructions, in order, each once, whole,
\* with the right fault, from the target of the last jump on, and never a
\* content older than the last fence.i (ifu.v, icache.v, the flush wires of the top).
ImplementsStream == Stream!Spec

\* The counters of ifu bound what is under way: every request of this stream is
\* in exactly one place, and the fifo, which has no full flag, has room for all.
UnderWay ==
    IF hasIcache
    THEN Len(rch) + (IF stage = None THEN 0 ELSE 1) + (IF out = None THEN 0 ELSE 1)
    ELSE Len(bus)
CountersAgree ==
    /\ pcAllCnt = UnderWay
    /\ pcCnt = UnderWay - invalidCnt + Len(fifo)
    /\ pcCnt <= 4

\* The bus has one burst of icache at most, and while it belongs to a flushed
\* request no other is asked for.
BurstOwned ==
    hasIcache =>
        /\ Len(bus) <= 1
        /\ (bus # <<>>) = (drop \/ fsm \in {"WAIT_RVALID0", "DATA0_ERROR", "WAIT_RVALID1"})

\* Unless it is flushed again, the fetch side always brings another instruction.
FetchProceeds == []<>(event.what # "none")
=============================================================================
