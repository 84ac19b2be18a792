--------------------------- MODULE PipelineProofs ---------------------------
(***************************************************************************)
(* Proofs about Pipeline, for every machine, program, memory and order of  *)
(* interrupts and halts: its types, and the three invariants that say who  *)
(* waits for whom.                                                         *)
(***************************************************************************)
EXTENDS Pipeline, SequenceTheorems, TLAPS

\* A transfer in progress is of an aligned access, and only a finished one failed.
TransferAligned ==
    /\ ls_state # "IDLE" => exls.operand \notin Misaligned
    /\ ls_error => Finish

\* What of the instruction in LS memory has done, by the state of its machine.
BusOfState ==
    /\ ls_state = "IDLE" /\ lswb = None => bus = <<>>
    /\ ls_state \in {"WAIT_ARREADY", "WAIT_RVALID"} => bus = <<>>
    /\ ls_state \in {"WAIT_AWREADY_WREADY", "WAIT_AWREADY", "WAIT_WREADY", "WAIT_BVALID"} => Len(bus) <= 1

\* A fence.i that has sent its jump stands alone.
FenceAlone ==
    flushI =>
        /\ exls # None /\ exls.inst.op = "fencei" /\ exls.trap = "no"
        /\ want # None /\ idex = None /\ lswb = None

\* A csr instruction that will do its work holds csr_wait.
CsrRuns(stage) == stage # None /\ stage.inst.op = "csr" /\ stage.trap = "no"
CsrWaits == CsrRuns(idex) \/ CsrRuns(exls) \/ CsrRuns(lswb) => csrWait

IInv ==
    /\ TypeOK /\ AccessCommits /\ TransferAligned /\ BusOfState
    /\ FenceAlone /\ RestFlushed /\ CsrWaits /\ CsrAlone

-----------------------------------------------------------------------------
\* The wires between write-back and the stages in front of it.

\* Behind an instruction in LS nothing traps and nothing is flushed.
LEMMA QuietBehind ==
    ASSUME NEW in \in Inputs, lswb = None, InLS
    PROVE  /\ To(in) = None /\ ~WbFlush(in) /\ ~LsExFlush(in) /\ EventOf(in) = Quiet
BY DEF To, TrapTo, TakesDebug, TakesLevel, Empty, Faulty, Exception, TakesAny, WbFlush, LsExFlush,
       TrapJump, IsReturn, Refetch, SatpChange, WbOp, EventOf, InLS

\* Where write-back goes on.
LEMMA TrapTarget ==
    ASSUME NEW in \in Inputs, TypeOK
    PROVE  /\ To(in) \in Level \cup {None, "debug", "stay"}
           /\ To(in) = "stay" => lswb # None
           /\ To(in) # None => TakesAny(lswb, InLS, in.irq, in.halt) \/ lswb # None
<1>1. in.irq \in {None} \cup Level
  BY DEF Inputs, MayInterrupt
<1>. QED
  BY <1>1, MachineAssumption
     DEF To, TrapTo, TakesDebug, TakesLevel, InterruptLevel, Exception, Faulty, TakesAny, Level

\* A trapped instruction or a return in write-back always jumps.
LEMMA StopJumps ==
    ASSUME NEW in \in Inputs, TypeOK, Stops(lswb)
    PROVE  TrapJump(lswb, To(in)) /\ WbFlush(in) /\ LsExFlush(in)
<1>1. in.irq \in {None} \cup Level
  BY DEF Inputs, MayInterrupt
<1>2. TrapJump(lswb, To(in))
  BY <1>1, MachineAssumption
     DEF To, TrapTo, TakesDebug, TakesLevel, InterruptLevel, Exception, Faulty, TakesAny, Level,
         TrapJump, IsReturn, Stops
<1>. QED
  BY <1>2 DEF WbFlush, LsExFlush, Stops

\* The flush in front of LS is that of write-back.
LEMMA FlushesAgree ==
    ASSUME NEW in \in Inputs, TypeOK
    PROVE  LsExFlush(in) <=> WbFlush(in)
BY StopJumps DEF LsExFlush, Stops

LEMMA TrapAddrInPC ==
    ASSUME NEW in \in Inputs, TypeOK, TrapJump(lswb, To(in))
    PROVE  TrapAddr(lswb, To(in)) \in PC
BY TrapTarget, MachineAssumption
   DEF TrapAddr, TrapJump, IsReturn, TypeOK, TrapsTypeOK, Level, Return

\* Forwarding hands values to a value.
LEMMA ForwardInValue ==
    ASSUME TypeOK, NEW r \in Reg, NEW c \in Value \cup {None}, NEW v \in Value
    PROVE  Forward(r, c, v) \in Value
BY DEF Forward, Writes, TypeOK, ExLs, LsWb

LEMMA OperandsInValue ==
    ASSUME TypeOK, idex # None
    PROVE  A \in Value /\ B \in Value /\ idex.inst \in Insts /\ idex.pc \in PC
<1>1. idex \in IdEx /\ idex.inst \in Instruction
  BY MachineAssumption DEF TypeOK, IdEx
<1>. QED
  BY <1>1, ForwardInValue DEF A, B, TypeOK, IdEx, Instruction

\* What fetches are told to go on at is an address.
LEMMA JumpAddrInPC ==
    ASSUME NEW in \in Inputs, TypeOK, JumpAddr(in) # None
    PROVE  JumpAddr(in) \in PC
<1>1. CASE TrapJump(lswb, To(in))
  BY <1>1, TrapAddrInPC DEF JumpAddr
<1>2. CASE ~TrapJump(lswb, To(in)) /\ FlushIValid(in) /\ ~flushI
  BY <1>2 DEF JumpAddr, FlushIValid, InLS, TypeOK, ExLs
<1>3. CASE ~TrapJump(lswb, To(in)) /\ ~(FlushIValid(in) /\ ~flushI) /\ Refetch
  BY <1>3 DEF JumpAddr, Refetch, SatpChange, WbOp, TypeOK, LsWb
<1>4. CASE ~TrapJump(lswb, To(in)) /\ ~(FlushIValid(in) /\ ~flushI) /\ ~Refetch
  <2>1. ExIfJump /\ JumpAddr(in) = Target(idex.inst, idex.pc, A)
    BY <1>4 DEF JumpAddr
  <2>. QED
    BY <2>1, OperandsInValue, MachineAssumption DEF ExIfJump, ExJumps
<1>. QED
  BY <1>1, <1>2, <1>3, <1>4

\* A flush of write-back jumps.
LEMMA FlushJumps ==
    ASSUME NEW in \in Inputs, TypeOK, WbFlush(in)
    PROVE  JumpAddr(in) # None
<1>1. CASE TrapJump(lswb, To(in))
  BY <1>1, TrapAddrInPC, MachineAssumption DEF JumpAddr
<1>2. CASE ~TrapJump(lswb, To(in)) /\ Refetch
  <2>1. ~FlushIValid(in)
    BY <1>2 DEF FlushIValid, WbFlush
  <2>2. lswb # None /\ JumpAddr(in) = lswb.npc
    BY <1>2, <2>1 DEF JumpAddr, Refetch, SatpChange, WbOp
  <2>. QED
    BY <2>2, MachineAssumption DEF TypeOK, LsWb
<1>. QED
  BY <1>1, <1>2 DEF WbFlush

-----------------------------------------------------------------------------
\* The LSU.

\* An answer is one memory may give.
LEMMA MemoryDoes ==
    ASSUME NEW in \in Inputs, TypeOK
    PROVE  /\ in.m.do \in {"nothing", "addr", "data", "both", "done", "error", "lost"}
           /\ in.m.v \in Value
           /\ in.m.do \in {"done", "error", "lost"} => exls # None /\ ls_state \in Answering
           /\ in.m # Nothing => exls # None
<1>1. CASE exls = None
  BY <1>1, MachineAssumption DEF Inputs, Nothing
<1>2. CASE exls # None
  <2>1. in.m \in MayDo(exls)
    BY <1>2 DEF Inputs
  <2>. QED
    BY <1>2, <2>1, MachineAssumption DEF MayDo, Nothing, Accepts, Answers
<1>. QED
  BY <1>1, <1>2

\* The access begins only where nothing in front of it can flush it.
LEMMA StartAlone ==
    ASSUME NEW in \in Inputs, IInv, LsuStep(LsStarts(in), exls, in.m, ExecuteReady(in)),
           ls_state = "IDLE", ls_state' # "IDLE"
    PROVE  /\ exls # None /\ exls.inst.op \in Access /\ exls.trap = "no"
           /\ exls.operand \notin Misaligned
           /\ ~LsExFlush(in) /\ ~WbFlush(in) /\ ~ExecuteReady(in)
           /\ ls_state' = FirstState(exls.inst.op) /\ ls_error' = FALSE
<1>1. LsStarts(in) /\ ls_state' = FirstState(exls.inst.op) /\ ls_error' = ls_error
  BY DEF LsuStep, Keeps, Requesting, Answering, Finish
<1>2. ls_error = FALSE
  BY DEF IInv, TransferAligned, Finish, TypeOK, LsuTypeOK
<1>3. exls # None /\ LsTrap = "no" /\ ~LsExFlush(in) /\ exls.inst.op \in Access
  BY <1>1 DEF LsStarts
<1>4. exls.trap = "no" /\ exls.operand \notin Misaligned
  BY <1>3 DEF LsTrap
<1>5. ~ExecuteReady(in)
  BY <1>3 DEF ExecuteReady, Finish, Access, Return
<1>. QED
  BY <1>1, <1>2, <1>3, <1>4, <1>5 DEF LsExFlush

\* While it goes on, nothing is flushed and it leaves when it is finished.
LEMMA TransferGoesOn ==
    ASSUME NEW in \in Inputs, IInv, ls_state # "IDLE"
    PROVE  /\ exls # None /\ exls.inst.op \in Access /\ exls.trap = "no"
           /\ exls.operand \notin Misaligned /\ lswb = None
           /\ To(in) = None /\ ~WbFlush(in) /\ ~LsExFlush(in) /\ EventOf(in) = Quiet
           /\ ExecuteReady(in) <=> Finish
<1>1. /\ exls # None /\ exls.inst.op \in Access /\ exls.trap = "no"
      /\ exls.operand \notin Misaligned /\ lswb = None
  BY DEF IInv, AccessCommits, TransferAligned
<1>2. To(in) = None /\ ~WbFlush(in) /\ ~LsExFlush(in) /\ EventOf(in) = Quiet
  BY <1>1, QuietBehind DEF InLS
<1>3. ExecuteReady(in) <=> Finish
  <2>1. LsTrap # "no" => Finish
    BY <1>1 DEF LsTrap, IInv, TransferAligned
  <2>. QED
    BY <1>1, <2>1 DEF ExecuteReady, Access, Return
<1>. QED
  BY <1>1, <1>2, <1>3

\* A clock edge of everything but decode, and of decode.
LEMMA EdgeOfStages ==
    ASSUME NEW in, Behind(in)
    PROVE  /\ DividerStep(ExIdFlush(in), Divides, <<A, B>>, DecodeReady(in), in.last)
           /\ LsuStep(LsStarts(in), exls, in.m, ExecuteReady(in))
           /\ TrapsStep(lswb, InLS, in.irq, in.halt)
           /\ GprStep /\ LswbStep(in) /\ ExlsStep(in)
           /\ JumpCntStep(in) /\ CaptureStep(in) /\ FlushIStep(in) /\ HistoryStep(in)
BY DEF Behind

\* What LS hands over is an instruction of write-back.
LEMMA LoadStoredTyped ==
    ASSUME TypeOK, exls # None
    PROVE  LoadStored \in LsWb /\ LoadStored # None
<1>1. exls \in ExLs /\ ls_data \in Value
  BY DEF TypeOK, LsuTypeOK
<1>2. GprData \in Value /\ LsTrap \in TrapKind
  BY <1>1 DEF GprData, LsTrap, ExLs, TrapKind
<1>3. LoadStored \in LsWb
  BY <1>1, <1>2 DEF LoadStored, LsWb, ExLs
<1>. QED
  BY <1>3, NoneAssumption

LEMMA AccessStays ==
    ASSUME NEW in \in Inputs, IInv, Behind(in)
    PROVE  AccessCommits' /\ TransferAligned'
<1>0. LsuStep(LsStarts(in), exls, in.m, ExecuteReady(in)) /\ LswbStep(in) /\ ExlsStep(in)
  BY EdgeOfStages
<1>1. CASE ls_state = "IDLE" /\ ls_state' = "IDLE"
  <2>1. ls_error' = FALSE
    BY <1>0, <1>1 DEF LsuStep, Keeps, IInv, TransferAligned, Finish, TypeOK, LsuTypeOK, Requesting, Answering
  <2>. QED
    BY <1>1, <2>1 DEF AccessCommits, TransferAligned
<1>2. CASE ls_state = "IDLE" /\ ls_state' # "IDLE"
  <2>1. /\ exls # None /\ exls.inst.op \in Access /\ exls.trap = "no"
        /\ exls.operand \notin Misaligned
        /\ ~LsExFlush(in) /\ ~ExecuteReady(in) /\ ls_error' = FALSE
    BY <1>0, <1>2, StartAlone
  <2>2. exls' = exls /\ lswb' = None
    BY <1>0, <2>1 DEF ExlsStep, LswbStep
  <2>. QED
    BY <2>1, <2>2 DEF AccessCommits, TransferAligned
<1>3. CASE ls_state # "IDLE"
  <2>1. /\ exls # None /\ exls.inst.op \in Access /\ exls.trap = "no"
        /\ exls.operand \notin Misaligned
        /\ ~LsExFlush(in) /\ (ExecuteReady(in) <=> Finish)
    BY <1>3, TransferGoesOn
  <2>2. CASE Finish
    <3>1. ls_state' = "IDLE" /\ ls_error' = FALSE
      BY <1>0, <2>1, <2>2 DEF LsuStep, Finish, Requesting, Answering
    <3>. QED
      BY <3>1 DEF AccessCommits, TransferAligned
  <2>3. CASE ~Finish
    <3>1. exls' = exls /\ lswb' = None
      BY <1>0, <2>1, <2>3 DEF ExlsStep, LswbStep
    <3>2. ls_error' => ls_state' = "WAIT_OUT_READY"
      <4>1. ls_error = FALSE
        BY <2>3 DEF IInv, TransferAligned, TypeOK, LsuTypeOK
      <4>2. CASE ls_state \in Answering /\ in.m.do = "error"
        BY <1>0, <2>3, <4>2 DEF LsuStep, Answered, Answering, Requesting, Finish
      <4>3. CASE ~(ls_state \in Answering /\ in.m.do = "error")
        BY <1>0, <2>3, <4>1, <4>3 DEF LsuStep, Keeps, Finish
      <4>. QED
        BY <4>2, <4>3
    <3>. QED
      BY <2>1, <3>1, <3>2 DEF AccessCommits, TransferAligned, Finish
  <2>. QED
    BY <2>2, <2>3
<1>. QED
  BY <1>1, <1>2, <1>3

LEMMA LsuTyped ==
    ASSUME NEW in \in Inputs, IInv, LsuStep(LsStarts(in), exls, in.m, ExecuteReady(in))
    PROVE  /\ ls_state' \in {"IDLE", "WAIT_OUT_READY"} \cup Requesting \cup Answering
           /\ ls_error' \in BOOLEAN /\ ls_data' \in Value
<1>1. /\ ls_state \in {"IDLE", "WAIT_OUT_READY"} \cup Requesting \cup Answering
      /\ ls_error \in BOOLEAN /\ ls_data \in Value /\ in.m.v \in Value /\ {0, 1} \subseteq Value
  BY MemoryDoes, MachineAssumption DEF IInv, TypeOK, LsuTypeOK
<1>2. ASSUME NEW s, s \in {"IDLE", "WAIT_OUT_READY"} \cup Requesting \cup Answering, Keeps(s)
      PROVE  /\ ls_state' \in {"IDLE", "WAIT_OUT_READY"} \cup Requesting \cup Answering
             /\ ls_error' \in BOOLEAN /\ ls_data' \in Value
  BY <1>1, <1>2 DEF Keeps
<1>3. CASE ls_state = "IDLE" /\ Keeps(IF LsStarts(in) THEN FirstState(exls.inst.op) ELSE "IDLE")
  BY <1>2, <1>3 DEF FirstState, Requesting
<1>4. CASE ls_state \in Requesting /\ Keeps(Accepted(in.m.do))
  <2>1. Accepted(in.m.do) \in Requesting \cup Answering
    BY <1>4 DEF Accepted, Requesting, Answering
  <2>. QED
    BY <1>2, <1>4, <2>1
<1>5. CASE Keeps(ls_state)
  BY <1>1, <1>2, <1>5
<1>6. CASE /\ ls_state \in Answering /\ in.m.do # "nothing"
           /\ ls_state' = Answered(exls, in.m)
           /\ ls_error' = (in.m.do = "error")
           /\ ls_data' = IF ls_state = "WAIT_BVALID"
                     THEN IF exls.inst.op # "sc" THEN ls_data ELSE IF in.m.do = "lost" THEN 1 ELSE 0
                     ELSE IF in.m.do = "done" THEN in.m.v ELSE ls_data
  BY <1>1, <1>6 DEF Answered, Requesting
<1>7. CASE /\ Finish
           /\ ls_state' = IF ExecuteReady(in) THEN "IDLE" ELSE "WAIT_OUT_READY"
           /\ ls_error' = (ls_error /\ ~ExecuteReady(in))
           /\ UNCHANGED ls_data
  BY <1>1, <1>7
<1>. QED
  BY <1>3, <1>4, <1>5, <1>6, <1>7 DEF LsuStep

\* A write-back, an interrupt and nothing else are an event.
LEMMA WriteBackIsEvent ==
    ASSUME NEW in \in Inputs, lswb # None
    PROVE  EventOf(in).what # "none"
BY DEF EventOf, Interrupted, Trapped, Retired

LEMMA TransferTyped ==
    ASSUME NEW in \in Inputs, IInv
    PROVE  /\ Transferred(exls, in.m) \in Seq(Transfer)
           /\ Len(Transferred(exls, in.m)) <= 1
           /\ ls_state \notin Answering => Transferred(exls, in.m) = <<>>
<1>1. CASE in.m.do # "done"
  BY <1>1 DEF Transferred
<1>2. CASE in.m.do = "done"
  <2>1. ls_state \in Answering /\ exls \in ExLs /\ in.m.v \in Value /\ ls_data \in Value
    BY <1>2, MemoryDoes DEF IInv, TypeOK, LsuTypeOK
  <2>2. Got(exls.operand, in.m.v) \in Transfer
    BY <2>1 DEF Got, Transfer, ExLs
  <2>3. Put(exls.operand, WriteData(exls)) \in Transfer
    BY <2>1, MachineAssumption DEF Put, Transfer, ExLs, WriteData
  <2>4. \E t \in Transfer : Transferred(exls, in.m) = <<t>>
    BY <1>2, <2>2, <2>3 DEF Transferred
  <2>. QED
    BY <2>1, <2>4
<1>. QED
  BY <1>1, <1>2

LEMMA BusTyped ==
    ASSUME NEW in \in Inputs, IInv, Behind(in)
    PROVE  BusOfState' /\ bus' \in Seq(Transfer) /\ Len(bus') <= 2
<1>0. /\ LsuStep(LsStarts(in), exls, in.m, ExecuteReady(in)) /\ LswbStep(in)
      /\ event' = EventOf(in)
      /\ bus' = (IF event'.what = "none" THEN bus ELSE <<>>) \o Transferred(exls, in.m)
  BY EdgeOfStages DEF HistoryStep
<1>1. bus \in Seq(Transfer) /\ Len(bus) <= 2 /\ BusOfState
  BY DEF IInv, TypeOK, LsuTypeOK
<1>2. /\ Transferred(exls, in.m) \in Seq(Transfer) /\ Len(Transferred(exls, in.m)) <= 1
      /\ ls_state \notin Answering => Transferred(exls, in.m) = <<>>
  BY TransferTyped
<1>3. ls_state \in {"IDLE", "WAIT_OUT_READY"} \cup Requesting \cup Answering
  BY DEF IInv, TypeOK, LsuTypeOK
<1>4. CASE ls_state = "IDLE"
  <2>1. bus' = <<>>
    <3>1. CASE lswb # None
      BY <1>0, <1>2, <1>4, <3>1, WriteBackIsEvent DEF Answering
    <3>2. CASE lswb = None
      BY <1>0, <1>1, <1>2, <1>4, <3>2 DEF BusOfState, Answering
    <3>. QED
      BY <3>1, <3>2
  <2>. QED
    BY <2>1 DEF BusOfState
<1>5. CASE ls_state # "IDLE"
  <2>1. event'.what = "none" /\ (ExecuteReady(in) <=> Finish) /\ ~LsExFlush(in)
    BY <1>0, <1>5, TransferGoesOn DEF Quiet
  <2>2. bus' = bus \o Transferred(exls, in.m)
    BY <1>0, <2>1
  <2>3. bus' \in Seq(Transfer) /\ Len(bus') = Len(bus) + Len(Transferred(exls, in.m))
    BY <1>1, <1>2, <2>2, ConcatProperties
  <2>8. Transferred(exls, in.m) = <<>> => bus' = bus
    BY <1>1, <2>2, ConcatEmptySeq
  <2>4. CASE ls_state \in Requesting
    <3>1. ls_state' = Accepted(in.m.do)
      BY <1>0, <2>4 DEF LsuStep, Keeps, Requesting, Answering, Finish
    <3>2. bus' = bus
      BY <1>2, <2>4, <2>8 DEF Requesting, Answering
    <3>. QED
      BY <1>1, <2>4, <3>1, <3>2 DEF Accepted, BusOfState, Requesting
  <2>5. CASE ls_state \in Answering /\ in.m.do = "nothing"
    <3>1. ls_state' = ls_state /\ bus' = bus
      BY <1>0, <1>1, <2>2, <2>5 DEF LsuStep, Keeps, Requesting, Answering, Finish, Transferred
    <3>. QED
      BY <1>1, <2>5, <3>1 DEF BusOfState, Answering
  <2>6. CASE ls_state \in Answering /\ in.m.do # "nothing"
    <3>1. ls_state' = Answered(exls, in.m)
      BY <1>0, <2>6 DEF LsuStep, Requesting, Answering, Finish
    <3>2. CASE ls_state = "WAIT_RVALID"
      BY <1>1, <1>2, <2>3, <3>1, <3>2 DEF Answered, BusOfState
    <3>3. CASE ls_state = "WAIT_BVALID"
      BY <1>1, <1>2, <2>3, <3>1, <3>3 DEF Answered, BusOfState
    <3>. QED
      BY <2>6, <3>2, <3>3 DEF Answering
  <2>7. CASE Finish
    <3>1. ls_state' = "IDLE" /\ bus' = bus /\ lswb' = LoadStored /\ lswb' # None
      <4>1. ls_state' = "IDLE" /\ bus' = bus /\ lswb' = LoadStored
        BY <1>0, <1>1, <1>2, <2>1, <2>2, <2>7, FlushesAgree
           DEF LsuStep, Requesting, Answering, Finish, LswbStep, IInv
      <4>2. LoadStored # None
        BY <1>5, TransferGoesOn, LoadStoredTyped DEF IInv
      <4>. QED
        BY <4>1, <4>2
    <3>. QED
      BY <1>1, <3>1 DEF BusOfState
  <2>. QED
    BY <1>3, <1>5, <2>4, <2>5, <2>6, <2>7 DEF Finish
<1>. QED
  BY <1>4, <1>5

-----------------------------------------------------------------------------
\* The stages.

LEMMA ExecutedTyped ==
    ASSUME TypeOK, idex # None
    PROVE  Executed \in ExLs /\ Executed # None
<1>1. A \in Value /\ B \in Value /\ idex \in IdEx /\ d_res \in Value
  BY OperandsInValue DEF TypeOK, DividerTypeOK
<1>2. ExResult \in Value /\ NextOf(idex.inst, idex.pc, A, B) \in PC
  BY <1>1, MachineAssumption DEF ExResult, NextOf, IdEx
<1>3. Executed \in ExLs
  BY <1>1, <1>2 DEF Executed, ExLs, IdEx
<1>. QED
  BY <1>3, NoneAssumption

LEMMA DecodedTyped ==
    ASSUME TypeOK, NEW in \in Inputs, NEW offer \in Shown(in), offer # None
    PROVE  /\ offer \in Insts /\ want \in PC /\ Decoded(offer) \in IdEx /\ Decoded(offer) # None
           /\ CsrRuns(Decoded(offer)) => offer.op = "csr"
           /\ Stops(Decoded(offer)) <=> (DecodedTrap(offer) # "no" \/ offer.op \in Return)
<1>1. offer \in Insts /\ offer \in Instruction /\ want \in PC
  BY MachineAssumption DEF Shown, Room, MayHold, TypeOK
<1>2. DecodedTrap(offer) \in TrapKind
  BY <1>1 DEF DecodedTrap, DecodeTrap, TrapKind, Instruction
<1>3. ASSUME NEW r \in Reg PROVE ReadReg(r) \in Value
  BY DEF ReadReg, Writes, TypeOK, LsWb
<1>4. offer.op = "csr" => csr[offer.csr] \in Value
  BY <1>1, MachineAssumption DEF TypeOK, TrapsTypeOK
<1>5. Decoded(offer) \in IdEx
  BY <1>1, <1>2, <1>3, <1>4 DEF Decoded, IdEx, Instruction
<1>6. Decoded(offer) # None
  BY <1>5, NoneAssumption
<1>. QED
  BY <1>1, <1>5, <1>6 DEF Decoded, CsrRuns, Stops

\* An instruction that stops the pipeline goes on, stage by stage, to write-back.
LEMMA StopMovesOn ==
    ASSUME NEW in \in Inputs, TypeOK, LswbStep(in), ExlsStep(in), ~WbFlush(in)
    PROVE  /\ Stops(exls) => Stops(lswb')
           /\ ~ExIdFlush(in) /\ DecodeReady(in) /\ Stops(idex) => Stops(exls')
<1>0. ~LsExFlush(in)
  BY FlushesAgree
<1>1. ASSUME Stops(exls) PROVE Stops(lswb')
  <2>1. exls # None /\ ExecuteReady(in)
    BY <1>1 DEF Stops, ExecuteReady, LsTrap
  <2>2. lswb' = LoadStored /\ lswb' # None
    BY <1>0, <2>1, LoadStoredTyped DEF LswbStep
  <2>. QED
    BY <1>1, <2>2 DEF Stops, LoadStored, LsTrap
<1>2. ASSUME ~ExIdFlush(in), DecodeReady(in), Stops(idex) PROVE Stops(exls')
  <2>1. exls' = Executed /\ exls' # None
    BY <1>0, <1>2, ExecutedTyped DEF ExlsStep, DecodeReady
  <2>. QED
    BY <1>2, <2>1 DEF Stops, Executed
<1>. QED
  BY <1>1, <1>2

LEMMA FenceStaysAlone ==
    ASSUME NEW in \in Inputs, IInv, Behind(in), NEW offer \in Shown(in), Decode(in, offer)
    PROVE  FenceAlone'
<1>0. /\ FlushIStep(in) /\ LswbStep(in) /\ ExlsStep(in) /\ IdexStep(in, offer) /\ WantStep(in, offer)
      /\ TypeOK
  BY EdgeOfStages DEF Decode, IInv
<1>1. CASE flushI
  <2>1. /\ exls # None /\ exls.inst.op = "fencei" /\ exls.trap = "no"
        /\ want # None /\ idex = None /\ lswb = None
    BY <1>1 DEF IInv, FenceAlone
  <2>2. ~WbFlush(in) /\ ~LsExFlush(in) /\ FlushIValid(in)
    BY <2>1, QuietBehind DEF InLS, FlushIValid
  <2>3. CASE in.scanned
    BY <1>0, <1>1, <2>2, <2>3 DEF FlushIStep, FenceAlone
  <2>4. CASE ~in.scanned
    <3>1. ls_error = FALSE
      BY <2>1 DEF IInv, AccessCommits, TransferAligned, Finish, TypeOK, LsuTypeOK, Access
    <3>2. ~ExecuteReady(in)
      BY <2>1, <2>4, <3>1 DEF ExecuteReady, LsTrap, Access, Return
    <3>3. exls' = exls /\ lswb' = None
      BY <1>0, <2>1, <2>2, <3>2 DEF ExlsStep, LswbStep
    <3>4. idex' = None
      BY <1>0, <2>1 DEF IdexStep, ExIdFlush, InLS
    <3>5. want' # None
      <4>1. JumpAddr(in) # None \/ want' = want
        BY <1>0, <1>1, <2>1 DEF WantStep, IdIfFlush, ExIdFlush, InLS
      <4>2. JumpAddr(in) # None => want' # None
        BY <1>0 DEF WantStep
      <4>. QED
        BY <2>1, <4>1, <4>2
    <3>. QED
      BY <2>1, <3>3, <3>4, <3>5 DEF FenceAlone
  <2>. QED
    BY <2>3, <2>4
<1>2. CASE ~flushI /\ ~FlushIValid(in)
  BY <1>0, <1>2 DEF FlushIStep, FenceAlone
<1>3. CASE ~flushI /\ FlushIValid(in)
  <2>1. /\ exls # None /\ exls.inst.op = "fencei" /\ exls.trap = "no" /\ InLS
        /\ ~WbFlush(in) /\ ~LsExFlush(in) /\ ~in.scanned
    BY <1>0, <1>3, FlushesAgree DEF FlushIValid, InLS, Inputs
  <2>2. ls_error = FALSE
    BY <2>1 DEF IInv, AccessCommits, TransferAligned, Finish, TypeOK, LsuTypeOK, Access
  <2>3. ~ExecuteReady(in)
    BY <2>1, <2>2 DEF ExecuteReady, LsTrap, Access, Return
  <2>4. exls' = exls /\ lswb' = None
    BY <1>0, <2>1, <2>3 DEF ExlsStep, LswbStep
  <2>5. idex' = None
    BY <1>0, <2>1 DEF IdexStep, ExIdFlush
  <2>6. JumpAddr(in) # None
    <3>1. CASE TrapJump(lswb, To(in))
      BY <2>1, <3>1 DEF WbFlush
    <3>2. CASE ~TrapJump(lswb, To(in))
      <4>1. JumpAddr(in) = exls.npc
        BY <1>3, <3>2 DEF JumpAddr
      <4>. QED
        BY <1>0, <2>1, <4>1, MachineAssumption DEF TypeOK, ExLs
    <3>. QED
      BY <3>1, <3>2
  <2>7. want' # None
    BY <1>0, <2>6 DEF WantStep
  <2>. QED
    BY <2>1, <2>4, <2>5, <2>7 DEF FenceAlone
<1>. QED
  BY <1>1, <1>2, <1>3

LEMMA RestStaysFlushed ==
    ASSUME NEW in \in Inputs, IInv, Behind(in), NEW offer \in Shown(in), Decode(in, offer)
    PROVE  RestFlushed'
<1>0. /\ LswbStep(in) /\ ExlsStep(in) /\ IdexStep(in, offer) /\ WantStep(in, offer) /\ TypeOK
  BY EdgeOfStages DEF Decode, IInv
<1>. SUFFICES ASSUME want' = None PROVE Stops(idex') \/ Stops(exls') \/ Stops(lswb')
  BY DEF RestFlushed, Stops
<1>1. JumpAddr(in) = None
  BY <1>0 DEF WantStep
<1>2. ~WbFlush(in) /\ ~LsExFlush(in) /\ ~Stops(lswb)
  BY <1>0, <1>1, FlushJumps, FlushesAgree, StopJumps
<1>3. ASSUME Stops(exls) PROVE Stops(lswb')
  BY <1>0, <1>2, <1>3, StopMovesOn
<1>4. ASSUME ~ExIdFlush(in), Stops(idex) PROVE Stops(idex') \/ Stops(exls')
  <2>1. CASE DecodeReady(in)
    BY <1>0, <1>2, <1>4, <2>1, StopMovesOn
  <2>2. CASE ~DecodeReady(in)
    BY <1>0, <1>4, <2>2 DEF IdexStep, Stops
  <2>. QED
    BY <2>1, <2>2
<1>5. ASSUME ~flushI, InLS, exls.inst.op = "fencei", exls.trap = "no" PROVE FALSE
  <2>1. FlushIValid(in)
    BY <1>2, <1>5 DEF FlushIValid
  <2>2. JumpAddr(in) = exls.npc
    BY <1>2, <1>5, <2>1 DEF JumpAddr, WbFlush
  <2>. QED
    BY <1>0, <1>1, <1>5, <2>2, MachineAssumption DEF InLS, TypeOK, ExLs
<1>6. CASE IdIfFlush(in) /\ ~flushI
  <2>1. Stops(exls) \/ (~ExIdFlush(in) /\ Stops(idex)) \/ (InLS /\ exls.inst.op = "fencei" /\ exls.trap = "no")
    BY <1>2, <1>6 DEF IdIfFlush, ExIdFlush, Stops, InLS
  <2>. QED
    BY <1>3, <1>4, <1>5, <1>6, <2>1
<1>7. CASE ~(IdIfFlush(in) /\ ~flushI)
  <2>1. ~flushI
    BY <1>0, <1>1, <1>7 DEF WantStep, IInv, FenceAlone, IdIfFlush, ExIdFlush, InLS
  <2>2. ~IdIfFlush(in)
    BY <1>7, <2>1
  <2>3. ~InstReady(in, offer)
    <3>1. ASSUME InstReady(in, offer) PROVE FALSE
      <4>1. want \in PC
        BY <1>0, <3>1, DecodedTyped DEF InstReady
      <4>2. want' = Succ(want)
        BY <1>0, <1>1, <2>1, <2>2, <3>1 DEF WantStep
      <4>. QED
        BY <4>1, <4>2, MachineAssumption
    <3>. QED
      BY <3>1
  <2>4. want = None
    BY <1>0, <1>1, <2>2, <2>3 DEF WantStep
  <2>5. Stops(idex) \/ Stops(exls)
    BY <1>2, <2>4 DEF IInv, RestFlushed
  <2>. QED
    BY <1>3, <2>2, <2>5 DEF IdIfFlush, ExIdFlush
<1>. QED
  BY <1>6, <1>7

\* Where an instruction that stands in a stage after the edge was before.
LEMMA StagesFollow ==
    ASSUME NEW in \in Inputs, TypeOK, LswbStep(in), ExlsStep(in), NEW offer \in Shown(in), IdexStep(in, offer)
    PROVE  /\ lswb' # None =>
                 /\ exls # None /\ lswb'.inst = exls.inst /\ (lswb'.trap = "no" => exls.trap = "no")
                 /\ ~LsExFlush(in) /\ ExecuteReady(in)
           /\ exls' # None =>
                 /\ ~LsExFlush(in)
                 /\ \/ exls' = exls /\ ~ExecuteReady(in)
                    \/ /\ idex # None /\ exls'.inst = idex.inst /\ exls'.trap = idex.trap
                       /\ ~ExIdFlush(in) /\ DecodeReady(in) /\ (exls = None \/ ExecuteReady(in))
           /\ idex' # None =>
                 /\ ~ExIdFlush(in)
                 /\ \/ idex' = idex /\ ~DecodeReady(in)
                    \/ /\ idex' = Decoded(offer) /\ offer # None
                       /\ InstReady(in, offer) /\ ~IdIfFlush(in)
<1>1. ASSUME lswb' # None
      PROVE  /\ exls # None /\ lswb'.inst = exls.inst /\ (lswb'.trap = "no" => exls.trap = "no")
             /\ ~LsExFlush(in) /\ ExecuteReady(in)
  <2>1. lswb' = LoadStored /\ ExecuteReady(in) /\ ~LsExFlush(in)
    BY <1>1 DEF LswbStep
  <2>2. exls # None
    BY <2>1 DEF ExecuteReady
  <2>3. lswb'.inst = exls.inst /\ lswb'.trap = LsTrap
    BY <2>1 DEF LoadStored
  <2>. QED
    BY <2>1, <2>2, <2>3 DEF LsTrap
<1>2. ASSUME exls' # None
      PROVE  /\ ~LsExFlush(in)
             /\ \/ exls' = exls /\ ~ExecuteReady(in)
                \/ /\ idex # None /\ exls'.inst = idex.inst /\ exls'.trap = idex.trap
                   /\ ~ExIdFlush(in) /\ DecodeReady(in) /\ (exls = None \/ ExecuteReady(in))
  <2>1. CASE exls # None /\ ~ExecuteReady(in)
    BY <1>2, <2>1 DEF ExlsStep
  <2>2. CASE ~(exls # None /\ ~ExecuteReady(in))
    <3>1. exls' = Executed /\ DecodeReady(in) /\ ~ExIdFlush(in) /\ ~LsExFlush(in)
      BY <1>2, <2>2 DEF ExlsStep
    <3>2. idex # None
      BY <3>1 DEF DecodeReady
    <3>. QED
      BY <2>2, <3>1, <3>2 DEF Executed
  <2>. QED
    BY <2>1, <2>2
<1>3. ASSUME idex' # None
      PROVE  /\ ~ExIdFlush(in)
             /\ \/ idex' = idex /\ ~DecodeReady(in)
                \/ /\ idex' = Decoded(offer) /\ offer # None
                   /\ InstReady(in, offer) /\ ~IdIfFlush(in)
  BY <1>3 DEF IdexStep, InstReady
<1>. QED
  BY <1>1, <1>2, <1>3

LEMMA CsrStaysAlone ==
    ASSUME NEW in \in Inputs, IInv, Behind(in), NEW offer \in Shown(in), Decode(in, offer)
    PROVE  CsrWaits' /\ CsrAlone'
<1>0. /\ LswbStep(in) /\ ExlsStep(in) /\ IdexStep(in, offer) /\ CsrWaitStep(in, offer) /\ TypeOK
      /\ csrWait \in BOOLEAN
  BY EdgeOfStages DEF Decode, IInv, TypeOK
<1>1. /\ lswb' # None =>
            /\ exls # None /\ lswb'.inst = exls.inst /\ (lswb'.trap = "no" => exls.trap = "no")
            /\ ~LsExFlush(in) /\ ExecuteReady(in)
      /\ exls' # None =>
            /\ ~LsExFlush(in)
            /\ \/ exls' = exls /\ ~ExecuteReady(in)
               \/ /\ idex # None /\ exls'.inst = idex.inst /\ exls'.trap = idex.trap
                  /\ ~ExIdFlush(in) /\ DecodeReady(in) /\ (exls = None \/ ExecuteReady(in))
      /\ idex' # None =>
            /\ ~ExIdFlush(in)
            /\ \/ idex' = idex /\ ~DecodeReady(in)
               \/ /\ idex' = Decoded(offer) /\ offer # None
                  /\ InstReady(in, offer) /\ ~IdIfFlush(in)
  BY <1>0, StagesFollow
\* What decode lets in behind a csr instruction stops the pipeline.
<1>2. ASSUME csrWait, offer # None, InstReady(in, offer)
      PROVE  Stops(Decoded(offer))
  BY <1>0, <1>2, DecodedTyped DEF InstReady
\* An instruction that runs is not one that stops.
<1>3. \A stage : ~(CsrRuns(stage) /\ Stops(stage))
  BY DEF CsrRuns, Stops, Return
<1>4. ASSUME ExIdFlush(in), ~LsExFlush(in) PROVE ~CsrRuns(exls)
  BY <1>4 DEF ExIdFlush, Stops, CsrRuns, InLS, Return
<1>5. CsrRuns(idex') \/ CsrRuns(exls') \/ CsrRuns(lswb') => csrWait'
  <2>. SUFFICES ASSUME CsrRuns(idex') \/ CsrRuns(exls') \/ CsrRuns(lswb'), csrWait' # TRUE PROVE FALSE
    OBVIOUS
  <2>1. ~(CsrRuns(exls') /\ exls' = exls) \/ ~ExIdFlush(in)
    BY <1>1, <1>4 DEF CsrRuns
  <2>2. ~ExIdFlush(in)
    BY <1>1, <1>4, <2>1 DEF CsrRuns
  <2>3. ~(InstReady(in, offer) /\ offer.op = "csr") /\ ~(csrWait /\ ~WbOp("csr"))
    BY <1>0, <2>2 DEF CsrWaitStep
  <2>4. ~(idex' # None /\ idex' = Decoded(offer) /\ InstReady(in, offer) /\ offer # None /\ CsrRuns(idex'))
    BY <1>0, <2>3, DecodedTyped
  <2>5. CsrRuns(idex) \/ CsrRuns(exls)
    BY <1>1, <2>4 DEF CsrRuns
  <2>6. csrWait /\ WbOp("csr")
    BY <2>3, <2>5 DEF IInv, CsrWaits
  <2>7. lswb.trap = "no"
    BY <2>2, <2>6 DEF ExIdFlush, LsExFlush, WbOp
  <2>8. (exls = None \/ Stops(exls)) /\ (idex = None \/ Stops(idex))
    BY <2>6, <2>7 DEF IInv, CsrAlone
  <2>. QED
    BY <1>3, <2>5, <2>8 DEF CsrRuns
<1>6. ASSUME CsrRuns(exls') PROVE idex' = None \/ Stops(idex')
  <2>1. CASE exls' = exls /\ ~ExecuteReady(in)
    <3>1. csrWait /\ (idex = None \/ Stops(idex)) /\ ~DecodeReady(in)
      BY <1>6, <2>1 DEF IInv, CsrWaits, CsrAlone, CsrRuns, DecodeReady
    <3>. QED
      BY <1>1, <1>2, <1>6, <2>1, <3>1 DEF CsrRuns, Stops
  <2>2. CASE /\ idex # None /\ exls'.inst = idex.inst /\ exls'.trap = idex.trap
             /\ ~ExIdFlush(in) /\ DecodeReady(in) /\ (exls = None \/ ExecuteReady(in))
    <3>1. csrWait
      BY <1>6, <2>2 DEF IInv, CsrWaits, CsrRuns
    <3>. QED
      BY <1>1, <1>2, <2>2, <3>1
  <2>. QED
    BY <1>1, <1>6, <2>1, <2>2 DEF CsrRuns
<1>7. ASSUME CsrRuns(lswb')
      PROVE  (exls' = None \/ Stops(exls')) /\ (idex' = None \/ Stops(idex'))
  <2>1. CsrRuns(exls) /\ ExecuteReady(in) /\ csrWait /\ (idex = None \/ Stops(idex))
    BY <1>1, <1>7 DEF IInv, CsrWaits, CsrAlone, CsrRuns
  <2>2. exls' = None \/ Stops(exls')
    BY <1>1, <2>1 DEF Stops
  <2>3. idex' = None \/ Stops(idex')
    BY <1>1, <1>2, <2>1 DEF Stops
  <2>. QED
    BY <2>2, <2>3
<1>8. CsrWaits'
  BY <1>5 DEF CsrWaits, CsrRuns
<1>9. CsrAlone'
  BY <1>6, <1>7 DEF CsrAlone, CsrRuns, WbOp, Stops
<1>. QED
  BY <1>8, <1>9

-----------------------------------------------------------------------------
\* Types.

LEMMA DividerTyped ==
    ASSUME TypeOK, NEW in,
           DividerStep(ExIdFlush(in), Divides, <<A, B>>, DecodeReady(in), in.last)
    PROVE  DividerTypeOK'
<1>1. DividerTypeOK /\ Reset0 \in Value \X Value /\ (Divides => <<A, B>> \in Value \X Value)
  BY OperandsInValue, MachineAssumption DEF TypeOK, Reset0, Divides
<1>2. d_key' \in Value \X Value
  BY <1>1 DEF DividerStep, DividerTypeOK
<1>3. \A k \in Value \X Value : Quotient(k[1], k[2]) \in Value
  BY MachineAssumption
<1>4. Quotient(0, 1) \in Value /\ 0 \in Value
  BY MachineAssumption
<1>5. Divides => Quotient(A, 0) \in Value
  BY <1>4, OperandsInValue, MachineAssumption DEF Divides
<1>6. /\ d_state' \in {"IDLE", "LOAD", "DIV", "OUT"}
      /\ d_work' \in Value \X Value /\ d_res' \in Value
  <2>1. CASE d_state = "LOAD"
    BY <1>1, <2>1 DEF DividerStep, DividerTypeOK
  <2>2. CASE d_state # "LOAD" /\ ExIdFlush(in)
    BY <1>1, <1>4, <2>2 DEF DividerStep, DividerTypeOK
  <2>3. CASE d_state = "IDLE" /\ ~ExIdFlush(in)
    <3>1. <<A, B>>[1] = A
      OBVIOUS
    <3>. QED
      BY <1>1, <1>5, <2>3, <3>1 DEF DividerStep, DividerTypeOK
  <2>4. CASE d_state = "DIV" /\ ~ExIdFlush(in)
    BY <1>1, <1>3, <2>4 DEF DividerStep, DividerTypeOK
  <2>5. CASE d_state = "OUT" /\ ~ExIdFlush(in)
    BY <1>1, <2>5 DEF DividerStep, DividerTypeOK
  <2>. QED
    BY <1>1, <2>1, <2>2, <2>3, <2>4, <2>5 DEF DividerTypeOK
<1>. QED
  BY <1>2, <1>6 DEF DividerTypeOK

LEMMA TrapsTyped ==
    ASSUME TypeOK, NEW in \in Inputs, TrapsStep(lswb, InLS, in.irq, in.halt)
    PROVE  TrapsTypeOK'
<1>1. /\ To(in) \in Level \cup {None, "debug", "stay"}
      /\ To(in) = "stay" => lswb # None
      /\ To(in) # None => TakesAny(lswb, InLS, in.irq, in.halt) \/ lswb # None
      /\ To(in) = TrapTo(lswb, InLS, in.irq, in.halt)
  BY TrapTarget DEF To
<1>2. /\ StatusStep(lswb, To(in)) /\ PrivStep(lswb, To(in))
      /\ EpcStep(To(in), SavedPC(lswb, InLS, in.irq, in.halt))
      /\ StepFlagStep(lswb, InLS, To(in)) /\ NextPcStep(lswb, To(in))
  BY <1>1 DEF TrapsStep
<1>3. /\ priv \in Priv /\ dprv \in Priv /\ debug \in BOOLEAN /\ csr \in [Csr -> Value]
      /\ pie \in [Level -> Value] /\ pp \in [Level -> Priv]
      /\ epc \in [Level \cup {"debug"} -> PC] /\ stepFlag \in 0 .. 2 /\ nextPC \in PC
      /\ lswb \in LsWb \cup {None}
  BY DEF TypeOK, TrapsTypeOK
<1>4. csr' \in [Csr -> Value] /\ pie' \in [Level -> Value] /\ pp' \in [Level -> Priv]
  <2>1. CASE CsrWen(lswb, To(in))
    <3>1. Written(lswb) \in Value
      BY <1>3, <2>1 DEF CsrWen, Written, LsWb
    <3>. QED
      BY <1>2, <1>3, <2>1, <3>1 DEF StatusStep
  <2>2. CASE ~CsrWen(lswb, To(in)) /\ To(in) \in Level
    <3>1. Ie(To(in)) \in Csr /\ 0 \in Value
      BY MachineAssumption DEF Ie, Csr
    <3>. QED
      BY <1>2, <1>3, <2>2, <3>1 DEF StatusStep
  <2>3. CASE ~CsrWen(lswb, To(in)) /\ To(in) \notin Level /\ (IsOp(lswb, "mret") \/ IsOp(lswb, "sret"))
    <3>. DEFINE l == IF IsOp(lswb, "mret") THEN "M" ELSE "S"
    <3>1. /\ pp' = [pp EXCEPT ![l] = "U"] /\ pie' = [pie EXCEPT ![l] = 1]
          /\ csr' = [csr EXCEPT ![Ie(l)] = pie[l]]
      BY <1>2, <2>3 DEF StatusStep
    <3>2. l \in Level /\ 1 \in Value /\ "U" \in Priv
      BY MachineAssumption DEF Level, Priv
    <3>. HIDE DEF l
    <3>3. pie[l] \in Value
      BY <1>3, <3>2
    <3>. QED
      BY <1>3, <3>1, <3>2, <3>3
  <2>4. CASE ~CsrWen(lswb, To(in)) /\ To(in) \notin Level /\ ~(IsOp(lswb, "mret") \/ IsOp(lswb, "sret"))
    BY <1>2, <1>3, <2>4 DEF StatusStep
  <2>. QED
    BY <2>1, <2>2, <2>3, <2>4
<1>5. priv' \in Priv /\ dprv' \in Priv /\ debug' \in BOOLEAN
  BY <1>2, <1>3 DEF PrivStep, Priv, Level
<1>6. epc' \in [Level \cup {"debug"} -> PC]
  <2>1. To(in) \in Level \cup {"debug"} => SavedPC(lswb, InLS, in.irq, in.halt) \in PC
    BY <1>1, <1>3, MachineAssumption DEF SavedPC, LsWb
  <2>. QED
    BY <1>2, <1>3, <2>1 DEF EpcStep
<1>7. stepFlag' \in 0 .. 2
  BY <1>2, <1>3 DEF StepFlagStep
<1>8. nextPC' \in PC
  BY <1>2, <1>3, TrapAddrInPC DEF NextPcStep, LsWb
<1>. QED
  BY <1>4, <1>5, <1>6, <1>7, <1>8 DEF TrapsTypeOK

LEMMA StagesTyped ==
    ASSUME TypeOK, NEW in \in Inputs, Behind(in), NEW offer \in Shown(in), Decode(in, offer)
    PROVE  /\ (want' \in PC \cup {None} /\ csrWait' \in BOOLEAN)
           /\ (idex' \in IdEx \cup {None} /\ exls' \in ExLs \cup {None} /\ lswb' \in LsWb \cup {None})
           /\ (src1' \in Value \cup {None} /\ src2' \in Value \cup {None})
           /\ (jumpCnt' \in BOOLEAN /\ flushI' \in BOOLEAN)
           /\ gpr' \in [Reg -> Value]
<1>0. /\ GprStep /\ LswbStep(in) /\ ExlsStep(in) /\ JumpCntStep(in) /\ CaptureStep(in) /\ FlushIStep(in)
      /\ IdexStep(in, offer) /\ CsrWaitStep(in, offer) /\ WantStep(in, offer)
  BY EdgeOfStages DEF Decode
<1>1. want' \in PC \cup {None}
  <2>1. JumpAddr(in) # None => want' \in PC
    BY <1>0, JumpAddrInPC DEF WantStep
  <2>2. InstReady(in, offer) => Succ(want) \in PC
    BY DecodedTyped, MachineAssumption DEF InstReady
  <2>. QED
    BY <1>0, <2>1, <2>2 DEF WantStep, TypeOK
<1>2. csrWait' \in BOOLEAN
  BY <1>0 DEF CsrWaitStep, TypeOK, WbOp
<1>3. idex' \in IdEx \cup {None}
  <2>1. InstReady(in, offer) => Decoded(offer) \in IdEx
    BY DecodedTyped DEF InstReady
  <2>. QED
    BY <1>0, <2>1 DEF IdexStep, TypeOK
<1>4. exls' \in ExLs \cup {None}
  <2>1. DecodeReady(in) => Executed \in ExLs
    BY ExecutedTyped DEF DecodeReady
  <2>. QED
    BY <1>0, <2>1 DEF ExlsStep, TypeOK
<1>5. lswb' \in LsWb \cup {None}
  <2>1. ExecuteReady(in) => LoadStored \in LsWb
    BY LoadStoredTyped DEF ExecuteReady
  <2>. QED
    BY <1>0, <2>1 DEF LswbStep
<1>6. src1' \in Value \cup {None} /\ src2' \in Value \cup {None}
  <2>1. ASSUME NEW r, NEW s \in Value \cup {None}
        PROVE  Capture(in, r, s) \in Value \cup {None}
    BY DEF Capture, Writes, TypeOK, LsWb
  <2>2. src1 \in Value \cup {None} /\ src2 \in Value \cup {None}
    BY DEF TypeOK
  <2>. QED
    BY <1>0, <2>1, <2>2 DEF CaptureStep
<1>7. jumpCnt' \in BOOLEAN
  BY <1>0 DEF JumpCntStep, TypeOK, ExJumps, Jumps
<1>8. flushI' \in BOOLEAN
  BY <1>0 DEF FlushIStep, TypeOK
<1>9. gpr' \in [Reg -> Value]
  <2>1. gpr \in [Reg -> Value]
    BY DEF TypeOK
  <2>2. CASE gpr' = gpr
    BY <2>1, <2>2
  <2>3. CASE lswb # None /\ gpr' = [gpr EXCEPT ![lswb.inst.rd] = WriteBack]
    <3>1. lswb \in LsWb /\ csr \in [Csr -> Value]
      BY <2>3 DEF TypeOK, TrapsTypeOK
    <3>2. WriteBack \in Value
      BY <3>1, MachineAssumption DEF WriteBack, WbOp, LsWb
    <3>. QED
      BY <2>1, <2>3, <3>2
  <2>. QED
    BY <1>0, <2>2, <2>3 DEF GprStep
<1>. QED
  BY <1>1, <1>2, <1>3, <1>4, <1>5, <1>6, <1>7, <1>8, <1>9

LEMMA EventTyped ==
    ASSUME TypeOK, NEW in \in Inputs
    PROVE  EventOf(in) \in Event
<1>1. in.irq \in {None} \cup Level /\ bus \in Seq(Transfer)
  BY DEF Inputs, MayInterrupt, TypeOK, LsuTypeOK
<1>2. \A to \in Level \cup {"halt", "step"} : Interrupted(to, bus) \in Event
  BY <1>1 DEF Interrupted, Event
<1>3. TakesLevel(lswb, InLS, in.irq, in.halt) => in.irq \in Level
  BY <1>1 DEF TakesLevel, InterruptLevel
<1>4. ASSUME lswb # None
      PROVE  /\ Retired(lswb.inst, lswb.pc, bus) \in Event
             /\ lswb.trap # "no" => Trapped(lswb.inst, lswb.pc, lswb.trap, bus) \in Event
  <2>1. lswb.inst \in Insts /\ lswb.pc \in PC /\ lswb.trap \in TrapKind
    BY <1>4 DEF TypeOK, LsWb
  <2>. QED
    BY <1>1, <2>1 DEF Retired, Trapped, Event, TrapKind
<1>5. Quiet \in Event
  BY DEF Event
<1>. QED
  BY <1>2, <1>3, <1>4, <1>5 DEF EventOf

-----------------------------------------------------------------------------
\* The invariant.

LEMMA InitHolds ==
    ASSUME Init
    PROVE  IInv
<1>1. 0 \in Value /\ 1 \in Value /\ Reset \in PC /\ Quotient(0, 1) \in Value
  BY MachineAssumption
<1>2. DividerTypeOK
  BY <1>1 DEF Init, DividerInit, DividerTypeOK, Reset0
<1>3. LsuTypeOK
  <2>1. <<>> \in Seq(Transfer) /\ Len(<<>>) <= 2
    BY EmptySeq
  <2>. QED
    BY <1>1, <2>1 DEF Init, LsuInit, LsuTypeOK
<1>4. TrapsTypeOK
  <2>1. TrapsInit /\ "M" \in Priv /\ "U" \in Priv /\ "S" \in Priv
    BY DEF Init, Priv, Level
  <2>2. csr \in [Csr -> Value] /\ pie \in [Level -> Value] /\ epc \in [Level \cup {"debug"} -> PC]
    BY <1>1, <2>1 DEF TrapsInit
  <2>3. pp \in [Level -> Priv]
    BY <2>1 DEF TrapsInit
  <2>4. priv = "M" /\ dprv = "M" /\ debug = FALSE /\ stepFlag = 0 /\ nextPC = Reset
    BY <2>1 DEF TrapsInit
  <2>5. priv \in Priv /\ dprv \in Priv /\ nextPC \in PC
    BY <1>1, <2>1, <2>4
  <2>6. debug \in BOOLEAN
    BY <2>4, Zenon
  <2>7. stepFlag \in 0 .. 2
    BY <2>4
  <2>. QED
    BY <2>2, <2>3, <2>5, <2>6, <2>7 DEF TrapsTypeOK
<1>5. TypeOK
  <2>1. gpr \in [Reg -> Value] /\ event \in Event
    BY <1>1 DEF Init, Event
  <2>. QED
    BY <1>1, <1>2, <1>3, <1>4, <2>1 DEF Init, TypeOK
<1>6. AccessCommits /\ TransferAligned /\ BusOfState
  BY DEF Init, LsuInit, AccessCommits, TransferAligned, BusOfState
<1>7. FenceAlone /\ RestFlushed
  BY <1>1, MachineAssumption DEF Init, FenceAlone, RestFlushed
<1>8. CsrWaits /\ CsrAlone
  BY DEF Init, CsrWaits, CsrRuns, CsrAlone, WbOp
<1>. QED
  BY <1>5, <1>6, <1>7, <1>8 DEF IInv

LEMMA EdgeHolds ==
    ASSUME IInv, NEW in \in Inputs, Behind(in), NEW offer \in Shown(in), Decode(in, offer)
    PROVE  IInv'
<1>0. TypeOK
  BY DEF IInv
<1>1. DividerTypeOK' /\ TrapsTypeOK'
  BY <1>0, EdgeOfStages, DividerTyped, TrapsTyped
<1>2. BusOfState' /\ bus' \in Seq(Transfer) /\ Len(bus') <= 2
  BY BusTyped
<1>3. LsuTypeOK'
  BY <1>2, EdgeOfStages, LsuTyped DEF LsuTypeOK
<1>4. event' \in Event
  BY <1>0, EdgeOfStages, EventTyped DEF HistoryStep
<1>5. TypeOK'
  BY <1>0, <1>1, <1>3, <1>4, StagesTyped DEF TypeOK
<1>6. AccessCommits' /\ TransferAligned'
  BY AccessStays
<1>7. FenceAlone' /\ RestFlushed'
  BY FenceStaysAlone, RestStaysFlushed
<1>8. CsrWaits' /\ CsrAlone'
  BY CsrStaysAlone
<1>. QED
  BY <1>2, <1>5, <1>6, <1>7, <1>8 DEF IInv

LEMMA StutterHolds ==
    ASSUME IInv, UNCHANGED vars
    PROVE  IInv'
BY DEF vars, dividerVars, lsuVars, trapVars, stageVars, IInv,
       TypeOK, DividerTypeOK, LsuTypeOK, TrapsTypeOK,
       AccessCommits, TransferAligned, Finish, BusOfState, FenceAlone, RestFlushed, Stops,
       CsrWaits, CsrRuns, CsrAlone, WbOp

\* The inductive invariant holds in every behaviour of the pipeline, whatever the
\* program, the answers of memory and the moments at which interrupts come.
THEOREM PipelineInvariant == Spec => []IInv
<1>1. Init => IInv
  BY InitHolds
<1>2. IInv /\ [Next]_vars => IInv'
  <2>. SUFFICES ASSUME IInv, [Next]_vars PROVE IInv'
    OBVIOUS
  <2>1. CASE Next
    <3>1. PICK in \in Inputs : Behind(in) /\ \E offer \in Shown(in) : Decode(in, offer)
      BY <2>1 DEF Next
    <3>2. PICK offer \in Shown(in) : Decode(in, offer)
      BY <3>1
    <3>. QED
      BY <3>1, <3>2, EdgeHolds
  <2>2. CASE UNCHANGED vars
    BY <2>2, StutterHolds
  <2>. QED
    BY <2>1, <2>2
<1>. QED
  BY <1>1, <1>2, PTL DEF Spec

\* The registers of the five stages, of the divider and of csr.v hold what they are
\* declared for, and memory does at most two transfers for one instruction (an amo).
THEOREM PipelineTyped == Spec => []TypeOK
<1>1. IInv => TypeOK
  BY DEF IInv
<1>. QED
  BY <1>1, PipelineInvariant, PTL

\* A request the LSU has made is never withdrawn: no exception, return, interrupt or
\* debug request removes an instruction from EX_LS while memory owes it an answer.
THEOREM AccessIsNotFlushed == Spec => []AccessCommits
<1>1. IInv => AccessCommits
  BY DEF IInv
<1>. QED
  BY <1>1, PipelineInvariant, PTL

\* The fetch path is never flushed for good: if it was told to drop what it had and
\* not yet where to go on, the instruction that will tell it is still in the pipeline.
THEOREM FlushIsFollowed == Spec => []RestFlushed
<1>1. IInv => RestFlushed
  BY DEF IInv
<1>. QED
  BY <1>1, PipelineInvariant, PTL

\* csr_wait keeps everything that reads behind a csr instruction out of the pipeline
\* until it has written, through every stall, flush and trap.
THEOREM CsrIsAlone == Spec => []CsrAlone
<1>1. IInv => CsrAlone
  BY DEF IInv
<1>. QED
  BY <1>1, PipelineInvariant, PTL
=============================================================================
