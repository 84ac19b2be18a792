--------------------------------- MODULE Lsu --------------------------------
(***************************************************************************)
(* lsu.v: the machine that does the transfers of the instruction in        *)
(* EX_LS.  The code has one for loads, one for stores and one for atomics; *)
(* they follow the same path and at most one leaves idle, as the           *)
(* instruction in EX_LS has one of the three valid bits: one machine here. *)
(***************************************************************************)
EXTENDS Machine

CONSTANT Faults     \* may memory or translation refuse an access

ASSUME FaultsAssumption == Faults \in BOOLEAN

VARIABLES
    ls_state,   \* read_state, write_state or atomic_state
    ls_error,   \* one of the page and access error registers is set
    ls_data,    \* read_data_reg or atomic_data_reg
    bus         \* history: transfers memory did for the instruction in LS

lsuVars == <<ls_state, ls_error, ls_data, bus>>

Requesting == {"WAIT_ARREADY", "WAIT_AWREADY_WREADY", "WAIT_AWREADY", "WAIT_WREADY"}
Answering == {"WAIT_RVALID", "WAIT_BVALID"}

LsuTypeOK ==
    /\ ls_state \in {"IDLE", "WAIT_OUT_READY"} \cup Requesting \cup Answering
    /\ ls_error \in BOOLEAN
    /\ ls_data \in Value
    /\ bus \in Seq(Transfer) /\ Len(bus) <= 2

LsuInit == ls_state = "IDLE" /\ ls_error = FALSE /\ ls_data = 0 /\ bus = <<>>

\* read_finish, write_finish, atomic_finish.
Finish == ls_state = "WAIT_OUT_READY"

\* What the memory side may do in a cycle: nothing, accept the address, the
\* data or both, answer with an error, or do the transfer (v: what was read).
Nothing == [do |-> "nothing", v |-> 0]
Accepts == {[do |-> a, v |-> 0] : a \in {"addr", "data", "both"}}
Answers ==
    {[do |-> "done", v |-> v] : v \in Value}
    \cup {[do |-> "error", v |-> 0], [do |-> "lost", v |-> 0]}

\* The request of an instruction: reads first, stores and sc write at once.
FirstState(op) == IF op \in {"store", "sc"} THEN "WAIT_AWREADY_WREADY" ELSE "WAIT_ARREADY"

Accepted(did) ==
    CASE ls_state = "WAIT_ARREADY" /\ did = "addr" -> "WAIT_RVALID"
      [] ls_state = "WAIT_AWREADY_WREADY" /\ did = "both" -> "WAIT_BVALID"
      [] ls_state = "WAIT_AWREADY_WREADY" /\ did = "addr" -> "WAIT_WREADY"
      [] ls_state = "WAIT_AWREADY_WREADY" /\ did = "data" -> "WAIT_AWREADY"
      [] ls_state = "WAIT_AWREADY" /\ did = "addr" -> "WAIT_BVALID"
      [] ls_state = "WAIT_WREADY" /\ did = "data" -> "WAIT_BVALID"
      [] OTHER -> ls_state

\* The registers keep their values unless a case below says otherwise.
Keeps(state) == ls_state' = state /\ UNCHANGED <<ls_error, ls_data>>

\* Mutant of Answered: a finished write begins again.
AnsweredIdle(x, m) ==
    IF ls_state = "WAIT_RVALID" /\ x.inst.op = "amo" /\ m.do = "done" THEN "WAIT_AWREADY_WREADY"
    ELSE IF ls_state = "WAIT_BVALID" THEN "IDLE"
    ELSE "WAIT_OUT_READY"
\* Where an answer leads: an amo writes what it read, all else is ready to leave.
Answered(x, m) ==
    IF ls_state = "WAIT_RVALID" /\ x.inst.op = "amo" /\ m.do = "done" THEN "WAIT_AWREADY_WREADY"
    ELSE "WAIT_OUT_READY"

\* start: the instruction may begin; x: what EX_LS holds; leaves: LS_EX_execute_ready.
\* An sc that lost its reservation is no error.
LsuStep(start, x, m, leaves) ==
    \/ ls_state = "IDLE" /\ Keeps(IF start THEN FirstState(x.inst.op) ELSE "IDLE")
    \/ ls_state \in Requesting /\ Keeps(Accepted(m.do))
    \/ ls_state \in Answering /\ m.do = "nothing" /\ Keeps(ls_state)
    \/ /\ ls_state \in Answering /\ m.do # "nothing"
       /\ ls_state' = Answered(x, m)
       /\ ls_error' = (m.do = "error")
       /\ ls_data' = IF ls_state = "WAIT_BVALID"
                     THEN IF x.inst.op # "sc" THEN ls_data ELSE IF m.do = "lost" THEN 1 ELSE 0
                     ELSE IF m.do = "done" THEN m.v ELSE ls_data
    \/ /\ Finish
       /\ ls_state' = IF leaves THEN "IDLE" ELSE "WAIT_OUT_READY"
       /\ ls_error' = (ls_error /\ ~leaves)
       /\ UNCHANGED ls_data

\* The transfer an answer stands for: lsu_araddr, lsu_awaddr, lsu_wdata.
WriteData(x) == IF x.inst.op = "amo" THEN Atomic(ls_data, x.data) ELSE x.data
Transferred(x, m) ==
    IF m.do # "done" THEN <<>>
    ELSE IF ls_state = "WAIT_RVALID" THEN <<Got(x.operand, m.v)>>
    ELSE <<Put(x.operand, WriteData(x))>>

\* What the memory side may do now: only what was asked for can be accepted,
\* only a read has a value, only sc can lose, nothing fails without Faults.
MayDo(x) ==
    {Nothing}
    \cup {a \in Accepts : ls_state \in Requesting /\ Accepted(a.do) # ls_state}
    \cup {a \in Answers :
            /\ ls_state \in Answering
            /\ ls_state = "WAIT_BVALID" => a.v = 0
            /\ a.do = "lost" => ls_state = "WAIT_BVALID" /\ x.inst.op = "sc"
            /\ a.do = "error" => Faults}
=============================================================================
