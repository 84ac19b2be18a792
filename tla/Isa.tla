--------------------------------- MODULE Isa --------------------------------
(***************************************************************************)
(* What the pipeline promises, one instruction after the other: the        *)
(* instruction at pc reads the registers as they are, does its transfer    *)
(* with memory once, writes its register and names the next pc; or it      *)
(* traps and does nothing but that; an interrupt comes between two of      *)
(* them; after dret with dcsr.step set exactly one runs.                   *)
(* difftest compares the core with NEMU at these steps and in these terms. *)
(***************************************************************************)
EXTENDS Machine

VARIABLES
    regs,   \* the registers, x0 included
    pc,     \* address of the next instruction
    cs,     \* [priv, csr, pie, pp, epc, dprv, debug]: the privileged state
    step,   \* single step: "off", "one" instruction may run, "spent"
    event   \* what the last step was

isaVars == <<regs, pc, cs, step, event>>

InitialCs ==
    [priv |-> "M", csr |-> [c \in Csr |-> 0],
     pie |-> [l \in Level |-> 0], pp |-> [M |-> "M", S |-> "U"],
     epc |-> [l \in Level \cup {"debug"} |-> Reset],
     dprv |-> "M", debug |-> FALSE]

Init ==
    /\ regs = [r \in Reg |-> 0]
    /\ pc = Reset /\ cs = InitialCs /\ step = "off" /\ event = Quiet

\* The transfers of an instruction that succeeds, and what its register gets.
Outcome(i, a, b) ==
    LET addr == Result(i, a, b)
        Of(bus, v) == [bus |-> bus, rd |-> v]
    IN  CASE i.op \in {"load", "lr"} -> {Of(<<Got(addr, v)>>, v) : v \in Value}
          [] i.op = "store"          -> {Of(<<Put(addr, b)>>, 0)}
          [] i.op = "sc"             -> {Of(<<Put(addr, b)>>, 0), Of(<<>>, 1)}
          [] i.op = "amo"            -> {Of(<<Got(addr, v), Put(addr, Atomic(v, b))>>, v) : v \in Value}
          [] i.op = "div"            -> {Of(<<>>, Quotient(a, b))}
          [] i.op \in {"jal", "jalr"} -> {Of(<<>>, Link(pc))}
          [] i.op = "csr"            -> {Of(<<>>, cs.csr[i.csr])}
          [] OTHER                   -> {Of(<<>>, addr)}

\* xret: back to the mode and address saved, interrupts as they were.
Returned(l) ==
    [cs EXCEPT !.priv = cs.pp[l], !.csr[Ie(l)] = cs.pie[l], !.pie[l] = 1, !.pp[l] = "U"]

PrivilegedEffect(i, a) ==
    /\ cs' = CASE i.op = "csr"  -> [cs EXCEPT !.csr[i.csr] = Result(i, a, cs.csr[i.csr])]
               [] i.op = "mret" -> Returned("M")
               [] i.op = "sret" -> Returned("S")
               [] i.op = "dret" -> [cs EXCEPT !.priv = cs.dprv, !.debug = FALSE]
               [] OTHER         -> cs
    /\ step' = IF i.op = "dret" /\ cs.csr["step"] # 0 THEN "one"
               ELSE IF step = "one" THEN "spent"
               ELSE step

After(i, a, b) ==
    CASE i.op = "mret" -> cs.epc["M"]
      [] i.op = "sret" -> cs.epc["S"]
      [] i.op = "dret" -> cs.epc["debug"]
      [] OTHER         -> NextOf(i, pc, a, b)

Retire ==
    LET i == event'.inst
        a == regs[i.rs1]
        b == regs[i.rs2]
    IN /\ event'.what = "retire"
       /\ event'.pc = pc
       /\ step # "spent"
       /\ DecodeTrap(i, cs.priv, cs.debug) = "no"
       /\ i.op \in Access => Result(i, a, b) \notin Misaligned
       /\ \E o \in Outcome(i, a, b) :
             /\ event'.bus = o.bus
             /\ regs' = IF i.rd = 0 THEN regs ELSE [regs EXCEPT ![i.rd] = o.rd]
       /\ PrivilegedEffect(i, a)
       /\ pc' = After(i, a, b)

\* Into level l, or into debug mode; pc is where the program will go on.
Entered(l) ==
    [cs EXCEPT !.priv = l, !.pp[l] = cs.priv, !.epc[l] = pc,
               !.pie[l] = cs.csr[Ie(l)], !.csr[Ie(l)] = 0]
EnteredDebug == [cs EXCEPT !.priv = "M", !.dprv = cs.priv, !.epc["debug"] = pc, !.debug = TRUE]

Enter(l) == cs' = Entered(l) /\ pc' = Vec(l)
EnterDebug == cs' = EnteredDebug /\ pc' = Vec("debug")

NothingWritten(bus) == \A n \in 1 .. Len(bus) : bus[n].dir # "write"

\* The causes an instruction may trap with: its own, or the fault of its access.
Causes(i) ==
    LET own == DecodeTrap(i, cs.priv, cs.debug)
    IN  IF own # "no" THEN {own} ELSE IF i.op \in Access THEN {"fault"} ELSE {}

Trap ==
    LET kind == event'.kind
    IN /\ event'.what = "trap"
       /\ event'.pc = pc
       /\ step # "spent"
       /\ kind \in Causes(event'.inst)
       /\ NothingWritten(event'.bus)
       /\ IF cs.debug
          THEN cs' = cs /\ pc' = Vec(IF kind = "ebreak" THEN "debug" ELSE "debug_exc")
          ELSE IF kind = "ebreak" /\ cs.priv \in EbreakHalts THEN EnterDebug
          ELSE Enter(IF kind \in Delegated /\ cs.priv # "M" THEN "S" ELSE "M")
       /\ step' = IF cs'.debug /\ ~cs.debug THEN "off"
                  ELSE IF step = "one" THEN "spent"
                  ELSE step
       /\ regs' = regs

Enabled(l) ==
    IF l = "M" THEN cs.priv # "M" \/ cs.csr["mie"] # 0
    ELSE cs.priv = "U" \/ (cs.priv = "S" /\ cs.csr["sie"] # 0)

Interrupt ==
    /\ event'.what = "interrupt"
    /\ ~cs.debug
    /\ NothingWritten(event'.bus)
    /\ \/ /\ event'.to \in Level
          /\ Enabled(event'.to) /\ step # "spent"
          /\ Enter(event'.to)
          /\ step' = step
       \/ /\ event'.to = "halt" \/ (event'.to = "step" /\ step = "spent")
          /\ EnterDebug
          /\ step' = "off"
    /\ regs' = regs

Wait == event' = Quiet /\ UNCHANGED <<regs, pc, cs, step>>

Next == Retire \/ Trap \/ Interrupt \/ Wait

Spec == Init /\ [][Next]_isaVars
=============================================================================
