---------------------------- MODULE DcacheProofs ----------------------------
(***************************************************************************)
(* Proofs about the data cache.  AnswerAwaited holds for every number of   *)
(* tags, sets and ways, every program and every flush, as long as no       *)
(* transfer for the walker fails; one failing transfer is enough to lose   *)
(* it (README 3b.4).                                                       *)
(***************************************************************************)
EXTENDS Dcache, TLAPS

NoWalkErrors == "walk" \notin BusErrors

WalkAnswered == out # None /\ out.who = "walk"

\* The states in which flush_flag_reg remembers a flush.
Transfer == {"WAIT_AW_W", "WAIT_AW", "WAIT_W", "WAIT_B", "WAIT_AR", "WAIT_R"}

\* A request in the walker's stage is the one the walker waits for, and has not
\* been answered.
StageAwaited == m_valid => w_state = "wait" /\ m_addr = w_addr /\ ~WalkAnswered

\* A transfer for the walker serves the request in its stage, unless a flush
\* emptied the stage; then flush_flag_reg is set and the transfer ends at IDLE.
TransferAwaited ==
    f_for = "walk" =>
        \/ f_state \in Transfer /\ (m_valid \/ f_flush)
        \/ f_state \in {"WRITE_CACHE", "SEND_DATA"} /\ m_valid

WalkInv == StageAwaited /\ TransferAwaited /\ AnswerAwaited

-----------------------------------------------------------------------------
\* Only a request in its stage is answered to the walker.
LEMMA PushFromStage ==
    ASSUME TransferAwaited, WalkPush
    PROVE  m_valid
BY DEF TransferAwaited, WalkPush, WalkHit, WalkSend, Transfer

\* A flush empties the walker's stage, and nothing but an answer else does.
LEMMA StageNext ==
    ASSUME NEW flush \in BOOLEAN, WalkStep(flush)
    PROVE  /\ flush => ~m_valid'
           /\ ~flush /\ m_valid /\ ~WalkPush => m_valid'
BY DEF WalkStep

\* The machine keeps TransferAwaited, state by state.
LEMMA MachineKeepsTransfer ==
    ASSUME NoWalkErrors, WalkInv,
           NEW flush \in BOOLEAN, NEW bus \in BusIn,
           FsmStep(flush, bus), WalkStep(flush)
    PROVE  TransferAwaited'
<1>1. (flush => ~m_valid') /\ (~flush /\ m_valid /\ ~WalkPush => m_valid')
  BY StageNext
<1>2. TransferAwaited
  BY DEF WalkInv
<1>3. CASE Idle(flush)
  <2>1. ~WalkSend /\ f_for # "walk"
    BY <1>2, <1>3 DEF Idle, WalkSend, TransferAwaited, Transfer
  <2>2. CASE flush
    BY <2>2, <1>3 DEF Idle, Rest, TransferAwaited
  <2>3. CASE ~flush /\ fence # "no"
    BY <2>3, <1>3 DEF Idle, TransferAwaited
  <2>4. CASE ~flush /\ fence = "no" /\ m_valid
    <3>1. IdleWalk
      BY <2>4, <1>3 DEF Idle
    <3>2. MHits = {} => m_valid'
      BY <1>1, <2>1, <2>4 DEF WalkPush, WalkHit
    <3>3. f_for' # "walk" \/ (MHits = {} /\ f_state' \in Transfer)
      BY <3>1 DEF IdleWalk, Rest, StartWriteBack, StartRefill, StartLine, Transfer
    <3> QED
      BY <3>2, <3>3 DEF TransferAwaited
  <2>5. CASE ~flush /\ fence = "no" /\ ~m_valid
    <3>1. IdleLsu \/ Rest
      BY <2>5, <1>3 DEF Idle
    <3>2. f_for' # "walk"
      BY <3>1, <2>1 DEF IdleLsu, Rest, Go, StartWriteBack, StartRefill, StartLine, StartSingle
    <3> QED
      BY <3>2 DEF TransferAwaited
  <2> QED
    BY <2>2, <2>3, <2>4, <2>5
<1>4. CASE DropForLock
  BY <1>4 DEF DropForLock, StartSingle, TransferAwaited
<1>5. CASE SendWrite(flush, bus)
  <2>1. f_for' = f_for /\ f_state \in Transfer /\ f_state' \in Transfer
    BY <1>5 DEF SendWrite, Transfer
  <2>2. f_flush' = (f_flush \/ flush)
    BY <1>5 DEF SendWrite
  <2>3. ~WalkPush
    BY <2>1 DEF WalkPush, WalkHit, WalkSend, Transfer
  <2> QED
    BY <1>1, <1>2, <2>1, <2>2, <2>3 DEF TransferAwaited, Transfer
<1>6. CASE WaitB(flush, bus)
  <2>1. f_state = "WAIT_B" /\ ~WalkPush
    BY <1>6 DEF WaitB, WalkPush, WalkHit, WalkSend
  <2>2. CASE bus = {}
    BY <1>1, <1>2, <2>1, <2>2, <1>6 DEF WaitB, Go, TransferAwaited, Transfer
  <2>3. CASE bus # {} /\ (flush \/ f_flush)
    BY <2>3, <1>6 DEF WaitB, Rest, TransferAwaited
  <2>4. CASE bus # {} /\ ~(flush \/ f_flush)
    <3>1. CASE f_for = "walk"
      <4>1. m_valid'
        BY <3>1, <1>1, <1>2, <2>1, <2>4 DEF TransferAwaited, Transfer
      <4>2. f_state' \in Transfer \/ f_state' = "SEND_DATA"
        BY <3>1, <2>4, <1>6 DEF WaitB, Go, StartRefill, StartLine, Transfer
      <4> QED
        BY <4>1, <4>2 DEF TransferAwaited
    <3>2. CASE f_for # "walk"
      <4>1. f_for' # "walk"
        BY <3>2, <2>4, <1>6 DEF WaitB, AfterScanWrite, ScanNext, Rest, Go,
           StartWriteBack, StartRefill, StartLine
      <4> QED
        BY <4>1 DEF TransferAwaited
    <3> QED
      BY <3>1, <3>2
  <2> QED
    BY <2>2, <2>3, <2>4
<1>7. CASE WaitAr(flush, bus)
  <2>1. f_state = "WAIT_AR" /\ ~WalkPush /\ f_for' = f_for /\ f_state' \in Transfer
    BY <1>7 DEF WaitAr, Go, Transfer, WalkPush, WalkHit, WalkSend
  <2> QED
    BY <1>1, <1>2, <1>7, <2>1 DEF WaitAr, TransferAwaited, Transfer
<1>8. CASE WaitR(flush, bus)
  <2>1. f_state = "WAIT_R" /\ ~WalkPush
    BY <1>8 DEF WaitR, WalkPush, WalkHit, WalkSend
  <2>2. CASE bus = {} \/ ((flush \/ f_flush) /\ ~LastBeat)
    <3>1. f_for' = f_for /\ f_state' = f_state /\ f_flush' = (f_flush \/ flush)
      BY <2>2, <1>8 DEF WaitR
    <3> QED
      BY <3>1, <1>1, <1>2, <2>1 DEF TransferAwaited, Transfer
  <2>3. CASE ~(bus = {} \/ ((flush \/ f_flush) /\ ~LastBeat)) /\ (flush \/ f_flush)
    BY <2>3, <1>8 DEF WaitR, Rest, TransferAwaited
  <2>4. CASE bus # {} /\ ~(flush \/ f_flush)
    <3>1. /\ f_for' = f_for
          /\ f_state' = IF "error" \in bus THEN (IF LastBeat THEN "SEND_DATA" ELSE "WAIT_ERROR")
                        ELSE IF ~LastBeat THEN "WAIT_R"
                        ELSE IF x.single THEN "SEND_DATA" ELSE "WRITE_CACHE"
      BY <2>4, <1>8 DEF WaitR
    <3>2. "error" \in bus => f_for # "walk"
      BY <2>1 DEF BusIn, Answers, NoWalkErrors
    <3>3. f_for = "walk" => m_valid'
      BY <1>1, <1>2, <2>1, <2>4 DEF TransferAwaited, Transfer
    <3> QED
      BY <3>1, <3>2, <3>3 DEF TransferAwaited, Transfer
  <2> QED
    BY <2>2, <2>3, <2>4
<1>9. CASE WaitError(flush, bus)
  <2>1. f_for # "walk" /\ f_for' = f_for
    BY <1>2, <1>9 DEF WaitError, Go, TransferAwaited, Transfer
  <2> QED
    BY <2>1 DEF TransferAwaited
<1>10. CASE SendData
  BY <1>10 DEF SendData, Rest, TransferAwaited
<1>11. CASE WriteCache(flush)
  <2>1. f_state = "WRITE_CACHE" /\ ~WalkPush
    BY <1>11 DEF WriteCache, WalkPush, WalkHit, WalkSend
  <2>2. CASE flush \/ (f_for = "lsu" /\ LHits # {})
    BY <2>2, <1>11 DEF WriteCache, Rest, TransferAwaited
  <2>3. CASE ~flush /\ ~(f_for = "lsu" /\ LHits # {})
    BY <1>1, <1>2, <2>1, <2>3, <1>11 DEF WriteCache, Go, TransferAwaited, Transfer
  <2> QED
    BY <2>2, <2>3
<1>12. CASE FlushRead
  BY <1>12 DEF FlushRead, StartWriteBack, StartLine, ScanNext, Rest, TransferAwaited
<1> QED
  BY <1>3, <1>4, <1>5, <1>6, <1>7, <1>8, <1>9, <1>10, <1>11, <1>12 DEF FsmStep

\* The stage, the port of the walker and the out fifo, at one edge.
LEMMA EdgeKeepsAnswers ==
    ASSUME WalkInv, NEW flush \in BOOLEAN, WalkStep(flush), OutStep(flush)
    PROVE  StageAwaited' /\ AnswerAwaited'
<1>1. /\ w_state' = IF flush THEN "idle"
                    ELSE IF WalkTake THEN "wait"
                    ELSE IF w_state = "wait" /\ out # None /\ out.who = "walk" THEN "idle"
                    ELSE w_state
      /\ w_addr' = IF w_state' = "idle" THEN None ELSE w_addr
      /\ m_valid' = (~flush /\ (WalkTake \/ (m_valid /\ ~WalkPush)))
      /\ m_addr' = IF ~m_valid' /\ f_for' # "walk" THEN None
                   ELSE IF WalkTake THEN w_addr ELSE m_addr
  BY DEF WalkStep
<1>2. WalkPush => m_valid
  BY PushFromStage DEF WalkInv
<1>3. m_valid => w_state = "wait" /\ m_addr = w_addr /\ ~WalkAnswered
  BY DEF WalkInv, StageAwaited
<1>4. WalkTake => w_state = "send" /\ ~m_valid /\ ~WalkPush
  BY <1>2, <1>3 DEF WalkTake
<1>5. WalkAnswered' => ~flush /\ WalkPush /\ out'.of = m_addr
  BY DEF WalkAnswered, OutStep, Pushed, Answer, WalkPush
<1>6. StageAwaited'
  BY <1>1, <1>3, <1>4, <1>5 DEF StageAwaited, WalkAnswered
<1>7. WalkAnswered' => w_state' = "wait" /\ ~m_valid' /\ out'.of = w_addr'
  BY <1>1, <1>2, <1>3, <1>4, <1>5 DEF WalkAnswered
<1> QED
  BY <1>6, <1>7 DEF AnswerAwaited, WalkAnswered

LEMMA WalkInvStep ==
    ASSUME NoWalkErrors, WalkInv, [Next]_vars
    PROVE  WalkInv'
<1>1. CASE Tick
  <2>1. PICK flush \in FlushIn, bus \in BusIn : Cycle(flush, bus)
    BY <1>1 DEF Tick
  <2>2. flush \in BOOLEAN
    BY DEF FlushIn
  <2>3. FsmStep(flush, bus) /\ WalkStep(flush) /\ OutStep(flush)
    BY <2>1 DEF Cycle
  <2>4. TransferAwaited'
    BY <2>2, <2>3, MachineKeepsTransfer
  <2>5. StageAwaited' /\ AnswerAwaited'
    BY <2>2, <2>3, EdgeKeepsAnswers
  <2> QED
    BY <2>4, <2>5 DEF WalkInv
<1>2. CASE LsuRequest
  BY <1>2 DEF LsuRequest, WalkInv, StageAwaited, TransferAwaited, AnswerAwaited, WalkAnswered,
     walkVars, fsmVars
<1>3. CASE WalkRequest
  BY <1>3 DEF WalkRequest, WalkInv, StageAwaited, TransferAwaited, AnswerAwaited, WalkAnswered,
     fsmVars
<1>4. CASE FenceRequest
  BY <1>4 DEF FenceRequest, WalkInv, StageAwaited, TransferAwaited, AnswerAwaited, WalkAnswered,
     walkVars, fsmVars
<1>5. CASE UNCHANGED vars
  BY <1>5 DEF vars, WalkInv, StageAwaited, TransferAwaited, AnswerAwaited, WalkAnswered,
     walkVars, fsmVars
<1> QED
  BY <1>1, <1>2, <1>3, <1>4, <1>5 DEF Next

\* An answer that leaves the out fifo for the walker is the answer of the read
\* it waits for: no flush, however it meets a transfer (flush_flag_reg,
\* dcache.v:1447-1472), leaves an answer behind, if the bus serves the walker.
THEOREM AnswersAwaited ==
    ASSUME NoWalkErrors
    PROVE  Spec => []AnswerAwaited
<1>1. Init => WalkInv
  BY DEF Init, WalkInv, StageAwaited, TransferAwaited, AnswerAwaited
<1>2. WalkInv /\ [Next]_vars => WalkInv'
  BY WalkInvStep
<1>3. WalkInv => AnswerAwaited
  BY DEF WalkInv
<1> QED
  BY <1>1, <1>2, <1>3, PTL DEF Spec
=============================================================================
