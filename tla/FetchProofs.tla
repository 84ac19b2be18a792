----------------------------- MODULE FetchProofs ----------------------------
(***************************************************************************)
(* Proofs about the fetch path.  The counters of ifu and the burst of      *)
(* icache are proved for every memory, every size of the arrays and every  *)
(* order of the pipeline, with and without icache, as long as USE_ICACHE   *)
(* is defined for exactly the top that has it.  From them, and from what   *)
(* every queue, row and register holds, it is proved that decode takes the *)
(* stream of instructions of InstructionStream.                            *)
(***************************************************************************)
EXTENDS FetchPath, FiniteSetTheorems, SequenceTheorems, TLAPS

MacroFits == \A bld \in Builds : bld.icache = bld.macro

-----------------------------------------------------------------------------
\* Sequences used as queues.

LEMMA HeadTail ==
    ASSUME NEW S, NEW s \in Seq(S), s # <<>>
    PROVE  /\ Head(s) \in S /\ Tail(s) \in Seq(S)
           /\ Len(s) \in Nat /\ Len(s) > 0 /\ Len(Tail(s)) = Len(s) - 1
OBVIOUS

LEMMA Concatenated ==
    ASSUME NEW S, NEW s \in Seq(S), NEW t \in Seq(S)
    PROVE  s \o t \in Seq(S) /\ Len(s \o t) = Len(s) + Len(t)
OBVIOUS

LEMMA Single ==
    ASSUME NEW S, NEW e \in S
    PROVE  /\ <<e>> \in Seq(S) /\ Len(<<e>>) = 1
           /\ <<>> \in Seq(S) /\ Len(<<>>) = 0
OBVIOUS

LEMMA OneElement ==
    ASSUME NEW S, NEW e \in S
    PROVE  /\ <<e>> # <<>> /\ Head(<<e>>) = e
           /\ <<>> \o <<e>> = <<e>> /\ <<e>> \o <<>> = <<e>>
OBVIOUS

\* A queue that loses its head when ren holds and takes the elements of new.
LEMMA PushedQueue ==
    ASSUME NEW S, NEW q \in Seq(S), NEW new \in Seq(S), NEW ren \in BOOLEAN, ren => q # <<>>
    PROVE  /\ Pushed(q, ren, new) \in Seq(S)
           /\ Len(Pushed(q, ren, new)) = Len(q) + Len(new) - (IF ren THEN 1 ELSE 0)
<1>1. CASE ren
  <2>1. Tail(q) \in Seq(S) /\ Len(Tail(q)) = Len(q) - 1 /\ Len(q) \in Nat /\ Len(new) \in Nat
    BY <1>1, HeadTail
  <2>2. Tail(q) \o new \in Seq(S) /\ Len(Tail(q) \o new) = Len(Tail(q)) + Len(new)
    BY <2>1, Concatenated
  <2> QED
    BY <1>1, <2>1, <2>2 DEF Pushed
<1>2. CASE ~ren
  BY <1>2, Concatenated DEF Pushed
<1> QED
  BY <1>1, <1>2

LEMMA RoomForOne ==
    ASSUME NEW a \in Nat, NEW b \in Nat, a <= 7, b = 0 \/ (b = 1 /\ a # 7)
    PROVE  a + b <= 7
OBVIOUS

LEMMA PushedRoom ==
    ASSUME NEW S, NEW q \in Seq(S), NEW new \in Seq(S), NEW ren \in BOOLEAN, ren => q # <<>>,
           Len(q) <= 7, Len(new) = 0 \/ (Len(new) = 1 /\ Len(q) # 7)
    PROVE  Len(Pushed(q, ren, new)) <= 7
<1>1. Len(q) \in Nat /\ Len(new) \in Nat
  OBVIOUS
<1>2. Len(q) + Len(new) <= 7
  BY <1>1, RoomForOne
<1>3. Len(Pushed(q, ren, new)) = Len(q) + Len(new) - (IF ren THEN 1 ELSE 0)
  BY PushedQueue
<1> QED
  BY <1>1, <1>2, <1>3

-----------------------------------------------------------------------------
\* Addresses.

LEMMA Addresses ==
    /\ Lines \in Nat /\ Lines > 0
    /\ 0 \in Dword /\ 0 \in HalfWord /\ 0 \in Line
    /\ \A h \in HalfWord : DwordOf(h) \in Dword
    /\ \A d \in Dword : LineOf(d) \in Line /\ NextDword(d) \in Dword
    /\ \A l \in Line : 2 * l \in Dword /\ 2 * l + 1 \in Dword
    /\ \A d \in Dword, n \in 0 .. 3 : 4 * d + n \in HalfWord
BY CodeAssumption DEF Dword, HalfWord, Line, DwordOf, LineOf, NextDword

LEMMA Modulo ==
    ASSUME NEW a \in Int, NEW b \in Nat, b > 0
    PROVE  a % b \in 0 .. b - 1
OBVIOUS

LEMMA AfterType ==
    ASSUME NEW h \in HalfWord, NEW n \in Int
    PROVE  After(h, n) \in HalfWord
<1>1. Lines \in Nat /\ Lines > 0
  BY Addresses
<1>2. h \in Int
  BY <1>1 DEF HalfWord
<1>3. h + n \in Int /\ 8 * Lines \in Nat /\ 8 * Lines > 0
  BY <1>1, <1>2
<1>4. (h + n) % (8 * Lines) \in 0 .. 8 * Lines - 1
  BY <1>3, Modulo
<1> QED
  BY <1>4 DEF After, HalfWord

LEMMA IndexType ==
    ASSUME NEW l \in Line
    PROVE  IndexOf(l) \in Index
<1>1. Cardinality(Index) \in Nat /\ Cardinality(Index) > 0
  BY IcacheAssumption, FS_CardinalityType, FS_EmptySet
<1>2. l \in Int
  BY Addresses DEF Line
<1>3. l % Cardinality(Index) \in 0 .. Cardinality(Index) - 1
  BY <1>1, <1>2, Modulo
<1> QED
  BY <1>3, IcacheAssumption DEF IndexOf

LEMMA NoneApart ==
    /\ None \notin Int /\ None \notin Dword /\ None \notin HalfWord
    /\ None \notin Answer /\ None \notin RowSet
BY CodeAssumption, NoneAssumption DEF Dword, HalfWord

LEMMA AnswerTypes ==
    /\ \A d \in Dword, v \in Version \cup {Unwritten} : Good(d, v) \in Answer
    /\ Noise \in Answer
    /\ Failed \subseteq Answer
BY Addresses DEF Good, Answer, Noise, Failed

-----------------------------------------------------------------------------
\* What the pipeline orders.

LEMMA OrderTypes ==
    ASSUME NEW o \in Orders
    PROVE  /\ o.flush \in BOOLEAN /\ o.clear \in BOOLEAN
           /\ o.to \in Target \cup {None} /\ o.stall \in {"no", "wait", "scan"}
<1> DEFINE OrderSet == [flush : BOOLEAN, to : Target \cup {None}, clear : BOOLEAN,
                        stall : {"no", "wait", "scan"}]
<1>1. \A s \in {"scan", "no"} : Order(TRUE, None, TRUE, s) \in OrderSet
  BY DEF Order
<1>2. Run \in OrderSet /\ Halt \in OrderSet
  BY DEF Order, Run, Halt
<1>3. \A h \in Target : JumpTo(h) \in OrderSet
  BY DEF Order, JumpTo
<1>4. \A h \in Target : Order(TRUE, h, TRUE, "scan") \in OrderSet
  BY DEF Order
<1>5. FenceOrders \subseteq OrderSet
  <2> HIDE DEF OrderSet
  <2>1. {Order(TRUE, h, TRUE, "scan") : h \in Target} \subseteq OrderSet
    BY <1>4
  <2>2. {Order(TRUE, None, TRUE, "no")} \subseteq OrderSet
    BY <1>1
  <2> QED
    BY <2>1, <2>2 DEF FenceOrders
<1>6. o \in OrderSet
  <2> HIDE DEF OrderSet
  <2>1. CASE stall = "scan"
    <3>1. o \in {Order(TRUE, None, TRUE, s) : s \in {"scan", "no"}}
      BY <2>1 DEF Orders
    <3> QED
      BY <3>1, <1>1
  <2>2. CASE stall # "scan"
    <3>1. o \in {Run, Halt} \/ o \in {JumpTo(h) : h \in Target} \/ o \in FenceOrders
      BY <2>2 DEF Orders
    <3> QED
      BY <3>1, <1>2, <1>3, <1>5
  <2> QED
    BY <2>1, <2>2
<1> QED
  BY <1>6

-----------------------------------------------------------------------------
\* ifu: its registers, the counters aside.

IfuData ==
    /\ pc \in Dword /\ arvalid \in BOOLEAN
    /\ fifo \in Seq(Answer)
    /\ low \in Answer \cup {None}
    /\ myPC \in HalfWord
    /\ buf \in [{1, 2} -> Instruction \cup {None}]
    /\ sel \in {1, 2}

LEMMA FifoRenType == FifoRen \in BOOLEAN /\ (FifoRen => fifo # <<>>)
BY DEF FifoRen, AfterJump, CanChange

\* An instruction is cut only when all of its double words are there.
LEMMA CutType ==
    ASSUME IfuData, CanChange
    PROVE  InstToIdu \in Instruction
<1>1. fifo \in Seq(Answer) /\ fifo # <<>> /\ Head(fifo) \in Answer
  BY HeadTail DEF IfuData, CanChange
<1>2. Status \in 0 .. 3 /\ (Status + 1) % 4 \in 0 .. 3 /\ myPC \in HalfWord
  BY Addresses DEF IfuData, Status, HalfWord
<1>3. FirstWord \in Answer
  BY <1>1 DEF FirstWord, CanChange, IfuData
<1>4. ASSUME NEW a \in Answer, NEW n \in 0 .. 3
      PROVE  HalfOf(a, n) \in HalfWord \X (Version \cup {Unwritten})
  <2>1. a.dword \in Dword /\ a.ver \in Version \cup {Unwritten}
    BY DEF Answer
  <2>2. 4 * a.dword + n \in HalfWord
    BY <2>1, Addresses
  <2> QED
    BY <2>1, <2>2 DEF HalfOf
<1>5. FaultAt \in HalfWord \cup {None}
  BY <1>2, AfterType DEF FaultAt
<1> DEFINE H == HalfWord \X (Version \cup {Unwritten})
           one == HalfOf(FirstWord, Status)
           two == SecondHalf
           halves == IF FaultAt # None THEN <<>>
                     ELSE IF InstLong THEN <<one, two>> ELSE <<one>>
<1>6. one \in H /\ two \in H
  BY <1>1, <1>2, <1>3, <1>4 DEF SecondHalf
<1>7. halves \in Seq(H)
  <2> HIDE DEF H, one, two
  <2>1. <<one, two>> \in Seq(H) /\ <<one>> \in Seq(H) /\ <<>> \in Seq(H)
    BY <1>6
  <2> QED
    BY <2>1
<1>8. InstToIdu = [pc |-> myPC, halves |-> halves, fault |-> FaultAt]
  BY DEF InstToIdu
<1> QED
  BY <1>2, <1>5, <1>7, <1>8 DEF Instruction

LEMMA IfuDataStep ==
    ASSUME IfuData, NEW flush \in BOOLEAN, NEW target \in Target \cup {None},
           NEW arready \in BOOLEAN, NEW rdata \in Answer \cup {None},
           NEW ready \in BOOLEAN, IfuStep(flush, target, arready, rdata, ready)
    PROVE  IfuData'
<1> DEFINE fire == arvalid /\ arready
           rvalid == rdata # None
<1>1. /\ RequestStep(flush, target, fire, rvalid) /\ FifoStep(flush, rdata)
      /\ PcStep(target) /\ BufferStep(flush, ready)
  BY DEF IfuStep
<1>2. target # None => target \in HalfWord
  BY CodeAssumption
<1>3. pc' \in Dword /\ arvalid' \in BOOLEAN
  BY <1>1, <1>2, Addresses DEF RequestStep, IfuData
<1>4. fifo' \in Seq(Answer) /\ low' \in Answer \cup {None}
  <2>1. fifo \in Seq(Answer) /\ low \in Answer \cup {None}
    BY DEF IfuData
  <2>2. FifoRen => Head(fifo) \in Answer
    BY <2>1, FifoRenType, HeadTail
  <2>3. (IF FifoRen THEN Tail(fifo) ELSE fifo) \in Seq(Answer)
    BY <2>1, FifoRenType, HeadTail
  <2>4. (IF rdata # None /\ invalidCnt = 0 THEN <<rdata>> ELSE <<>>) \in Seq(Answer)
    BY Single
  <2>5. <<>> \in Seq(Answer)
    OBVIOUS
  <2>6. fifo' \in Seq(Answer)
    BY <1>1, <2>3, <2>4, <2>5, Concatenated DEF FifoStep
  <2> QED
    BY <1>1, <2>1, <2>2, <2>6 DEF FifoStep
<1>5. myPC' \in HalfWord
  BY <1>1, <1>2, AfterType DEF PcStep, IfuData
<1>6. buf' \in [{1, 2} -> Instruction \cup {None}] /\ sel' \in {1, 2}
  <2>1. \A s \in {1, 2} : FillOf(s) => InstToIdu \in Instruction
    BY CutType DEF FillOf
  <2>2. buf \in [{1, 2} -> Instruction \cup {None}] /\ sel \in {1, 2}
    BY DEF IfuData
  <2> QED
    BY <1>1, <2>1, <2>2 DEF BufferStep, Other
<1> QED
  BY <1>3, <1>4, <1>5, <1>6 DEF IfuData

-----------------------------------------------------------------------------
\* The counters: what is under way is counted exactly, and a request is only
\* offered while there is room for its answer.

Counting ==
    /\ hasIcache \in BOOLEAN /\ useIcache = hasIcache
    /\ invalidCnt \in Nat /\ invalidCnt <= UnderWay
    /\ hasIcache => invalidCnt = 0
    /\ instCnt = IF hasIcache THEN 0 ELSE UnderWay - invalidCnt
    /\ CountersAgree
    /\ pcAllCnt <= 4
    /\ arvalid => pcCnt < 4 /\ pcAllCnt < 4

LEMMA FifoLength ==
    ASSUME IfuData, NEW flush \in BOOLEAN, NEW rdata \in Answer \cup {None},
           FifoStep(flush, rdata)
    PROVE  /\ Len(fifo) \in Nat /\ Len(fifo') \in Nat
           /\ Len(fifo') = IF flush THEN 0
                           ELSE Len(fifo) - (IF FifoRen THEN 1 ELSE 0)
                                + (IF rdata # None /\ invalidCnt = 0 THEN 1 ELSE 0)
<1>1. fifo \in Seq(Answer) /\ Len(fifo) \in Nat
  BY DEF IfuData
<1> DEFINE kept == IF FifoRen THEN Tail(fifo) ELSE fifo
           new == IF rdata # None /\ invalidCnt = 0 THEN <<rdata>> ELSE <<>>
<1>2. kept \in Seq(Answer) /\ Len(kept) = Len(fifo) - (IF FifoRen THEN 1 ELSE 0)
  BY <1>1, FifoRenType, HeadTail
<1>3. new \in Seq(Answer) /\ Len(new) = IF rdata # None /\ invalidCnt = 0 THEN 1 ELSE 0
  BY Single
<1>4. kept \o new \in Seq(Answer) /\ Len(kept \o new) = Len(kept) + Len(new)
  BY <1>2, <1>3, Concatenated
<1>5. fifo' = IF flush THEN <<>> ELSE kept \o new
  BY DEF FifoStep
<1> HIDE DEF kept, new
<1>6. Len(kept \o new) \in Nat /\ Len(<<>>) = 0
  BY <1>4, Single
<1> QED
  BY <1>1, <1>2, <1>3, <1>4, <1>5, <1>6

LEMMA CountingStep ==
    ASSUME IfuData, Counting,
           NEW flush \in BOOLEAN, NEW target \in Target \cup {None},
           NEW arready \in BOOLEAN, NEW rdata \in Answer \cup {None},
           NEW ready \in BOOLEAN, IfuStep(flush, target, arready, rdata, ready),
           hasIcache' = hasIcache, UnderWay \in Nat, UnderWay' \in Nat,
           rdata # None => UnderWay > 0,
           UnderWay' = IF hasIcache /\ flush THEN 0
                       ELSE Counted(UnderWay, arvalid /\ arready, rdata # None)
    PROVE  Counting'
<1> DEFINE fire == arvalid /\ arready
           rvalid == rdata # None
<1>1. /\ RequestStep(flush, target, fire, rvalid) /\ CountStep(flush, fire, rvalid)
      /\ FifoStep(flush, rdata) /\ useIcache' = useIcache
  BY DEF IfuStep
<1>2. /\ Len(fifo) \in Nat /\ Len(fifo') \in Nat
      /\ Len(fifo') = IF flush THEN 0
                      ELSE Len(fifo) - (IF FifoRen THEN 1 ELSE 0)
                           + (IF rvalid /\ invalidCnt = 0 THEN 1 ELSE 0)
  BY <1>1, FifoLength
<1>3. FifoRen \in BOOLEAN /\ arvalid \in BOOLEAN
  BY FifoRenType DEF IfuData
<1>4. fire \in BOOLEAN /\ rvalid \in BOOLEAN /\ (fire => arvalid)
      /\ (rvalid => UnderWay > 0)
      /\ UnderWay' = IF hasIcache /\ flush THEN 0 ELSE Counted(UnderWay, fire, rvalid)
  BY <1>3
<1> DEFINE up == IF fire THEN 1 ELSE 0
           answered == IF rvalid THEN 1 ELSE 0
           read == IF FifoRen THEN 1 ELSE 0
           pushed == IF rvalid /\ invalidCnt = 0 THEN 1 ELSE 0
<1> HIDE DEF fire, rvalid
<1>n. /\ up \in {0, 1} /\ answered \in {0, 1} /\ read \in {0, 1} /\ pushed \in {0, 1}
      /\ (fire <=> up = 1) /\ (rvalid <=> answered = 1) /\ (FifoRen <=> read = 1)
      /\ Counted(pcCnt, fire, FifoRen) = pcCnt + up - read
      /\ Counted(pcAllCnt, fire, rvalid) = pcAllCnt + up - answered
  BY <1>3, <1>4 DEF Counted
<1>5. invalidCnt' \in Nat /\ invalidCnt' <= UnderWay' /\ (hasIcache => invalidCnt' = 0)
  BY <1>1, <1>4 DEF CountStep, Counted, Counting
<1>6. instCnt' = IF hasIcache THEN 0 ELSE UnderWay' - invalidCnt'
  BY <1>1, <1>4 DEF CountStep, Counted, Counting
<1>7. pcAllCnt' = UnderWay'
  BY <1>1, <1>4 DEF CountStep, Counted, Counting, CountersAgree
<1>8. pcCnt' = UnderWay' - invalidCnt' + Len(fifo')
  <2>1. pcCnt' = IF flush THEN 0 ELSE Counted(pcCnt, fire, FifoRen)
    BY <1>1 DEF CountStep
  <2>2. CASE flush
    <3>1. UnderWay' - invalidCnt' = 0
      BY <2>2, <1>1, <1>4 DEF CountStep, Counted, Counting
    <3> QED
      BY <3>1, <2>1, <2>2, <1>2
  <2>3. CASE ~flush
    <3>1. UnderWay' - invalidCnt'
            = UnderWay - invalidCnt + up - pushed
      BY <2>3, <1>1, <1>4 DEF CountStep, Counted, Counting
    <3>2. Len(fifo') = Len(fifo) - read + pushed
      BY <2>3, <1>2
    <3>3. pcCnt = UnderWay - invalidCnt + Len(fifo)
      BY DEF Counting, CountersAgree
    <3>4. pcCnt' = pcCnt + up - read
      BY <2>1, <2>3, <1>n
    <3>5. invalidCnt \in Nat /\ invalidCnt' \in Nat
      BY <1>5 DEF Counting
    <3> HIDE DEF up, read, pushed
    <3> QED
      BY <3>1, <3>2, <3>3, <3>4, <3>5, <1>2, <1>n
  <2> QED
    BY <2>2, <2>3
<1>9. pcCnt' <= 4 /\ pcAllCnt' <= 4
  BY <1>1, <1>3, <1>4 DEF CountStep, Counted, Counting, CountersAgree
<1>10. arvalid' => pcCnt' < 4 /\ pcAllCnt' < 4
  <2>1. CASE flush
    BY <2>1, <1>1 DEF RequestStep
  <2>2. CASE ~flush
    <3>1. pcCnt' = pcCnt + up - read /\ pcAllCnt' = pcAllCnt + up - answered
      BY <2>2, <1>1, <1>n DEF CountStep
    <3>2. /\ pcCnt \in Int /\ pcAllCnt \in Int /\ pcCnt <= 4 /\ pcAllCnt <= 4
          /\ (arvalid => pcCnt < 4 /\ pcAllCnt < 4)
      BY <1>2 DEF Counting, CountersAgree
    <3>3. CASE arvalid
      <4>1. arvalid' /\ up = 1 => (pcCnt = 3 => read = 1) /\ (pcAllCnt = 3 => answered = 1)
        BY <3>3, <2>2, <1>1, <1>3, <1>4 DEF RequestStep
      <4> HIDE DEF up, read, answered
      <4> QED
        BY <4>1, <3>1, <3>2, <3>3, <1>n
    <3>4. CASE ~arvalid
      <4>1. arvalid' => pcCnt # 4 /\ pcAllCnt # 4
        BY <3>4, <2>2, <1>1 DEF RequestStep
      <4>2. up = 0
        BY <3>4, <1>4
      <4> HIDE DEF up, read, answered
      <4> QED
        BY <4>1, <4>2, <3>1, <3>2, <1>n
    <3> QED
      BY <3>3, <3>4
  <2> QED
    BY <2>1, <2>2
<1>11. hasIcache' \in BOOLEAN /\ useIcache' = hasIcache'
  BY <1>1 DEF Counting
<1> QED
  BY <1>5, <1>6, <1>7, <1>8, <1>9, <1>10, <1>11 DEF Counting, CountersAgree

-----------------------------------------------------------------------------
\* icache: the request in the stage stays there as long as it is refilled.

Refill ==
    /\ fsm # "IDLE" => Miss /\ cap # None
    /\ drop => fsm = "IDLE"

Beat == [ok : BOOLEAN, last : BOOLEAN, data : Answer]

LEMMA RowsUsedType ==
    ASSUME IcacheTypeOK
    PROVE  RowsNow \in RowSet /\ RowsUsed \in RowSet
<1>1. RowsNow \in RowSet
  BY DEF IcacheTypeOK, RowsNow, RowSet
<1> QED
  BY <1>1 DEF IcacheTypeOK, RowsUsed

LEMMA HalfType ==
    ASSUME IcacheTypeOK, stage # None
    PROVE  Half \in {1, 2}
<1>1. stage \in Int
  BY Addresses DEF IcacheTypeOK, Dword
<1> QED
  BY <1>1 DEF Half

LEMMA OutWenStaged ==
    ASSUME Refill, OutWen
    PROVE  stage # None /\ paddr # None
BY DEF Refill, OutWen, Miss, Translated

LEMMA OutDataType ==
    ASSUME IcacheTypeOK, Refill, OutWen
    PROVE  OutData \subseteq Answer
<1>1. Half \in {1, 2} /\ wdata[Half] \in Answer
  BY HalfType, OutWenStaged DEF IcacheTypeOK
<1>2. HitData \in Answer
  <2> DEFINE data == {RowsUsed[w].data[Half] : w \in HitWays}
  <2>1. data \subseteq Answer
    <3>1. \A w \in HitWays : RowsUsed[w] \in Row
      BY RowsUsedType DEF HitWays, RowSet
    <3> QED
      BY <3>1, <1>1 DEF Row
  <2>2. CASE Cardinality(data) = 1
    <3>1. data # {}
      BY <2>2, FS_EmptySet
    <3>2. (CHOOSE a \in data : TRUE) \in data
      BY <3>1
    <3> QED
      BY <2>1, <2>2, <3>2 DEF HitData
  <2>3. CASE Cardinality(data) # 1
    BY <2>3, AnswerTypes DEF HitData
  <2> QED
    BY <2>2, <2>3
<1> QED
  BY <1>1, <1>2, AnswerTypes DEF OutData

LEMMA RefillStep ==
    ASSUME IcacheTypeOK, Refill, NEW flush \in BOOLEAN, NEW immuHas \in BOOLEAN,
           NEW arready \in BOOLEAN, NEW beat,
           FsmStep(flush, arready, beat), DropStep(flush, arready, beat),
           StageStep(flush, immuHas)
    PROVE  Refill'
<1>1. CASE flush
  BY <1>1 DEF FsmStep, Refill
<1>2. CASE ~flush
  <2>1. FsmMove(arready, beat)
    BY <1>2 DEF FsmStep
  <2>2. drop' => fsm' = "IDLE"
    <3>1. drop' => drop
      BY <1>2 DEF DropStep
    <3>2. drop => fsm' = "IDLE"
      BY <2>1 DEF Refill, FsmMove
    <3> QED
      BY <3>1, <3>2
  <2>3. ASSUME fsm' # "IDLE"
        PROVE  Miss' /\ cap' # None
    <3>1. Miss /\ fsm # "SEND_DATA"
      BY <2>1, <2>3 DEF FsmMove, Refill
    <3>2. ~OutWen /\ stage # None /\ paddr # None
      BY <3>1 DEF OutWen, Miss, Translated
    <3>3. stage' = stage /\ paddr' = paddr /\ cap' = RowsUsed
      BY <1>2, <3>2 DEF StageStep, RowsUsed
    <3>4. cap' # None /\ RowsUsed' = RowsUsed
      BY <3>3, RowsUsedType, NoneApart DEF RowsUsed
    <3>5. HitWays' = HitWays
      BY <3>3, <3>4 DEF HitWays
    <3> QED
      BY <3>1, <3>3, <3>4, <3>5 DEF Miss, Translated, PaddrError
  <2> QED
    BY <2>2, <2>3 DEF Refill
<1> QED
  BY <1>1, <1>2

LEMMA IcacheTypeStep ==
    ASSUME IcacheTypeOK, Refill, NEW flush \in BOOLEAN, NEW clear \in BOOLEAN,
           NEW new \in Seq(Dword), Len(new) = 0 \/ (Len(new) = 1 /\ IfuArReady),
           NEW immuHas \in BOOLEAN, NEW arready \in BOOLEAN,
           NEW beat \in Beat \cup {None},
           IcacheStep(flush, clear, new, immuHas, arready, beat)
    PROVE  IcacheTypeOK'
<1>1. /\ FsmStep(flush, arready, beat) /\ DropStep(flush, arready, beat)
      /\ ArrayStep(clear) /\ StageStep(flush, immuHas)
      /\ QueueStep(flush, new, immuHas)
  BY DEF IcacheStep
<1>2. beat # None => beat.ok \in BOOLEAN /\ beat.last \in BOOLEAN /\ beat.data \in Answer
  BY DEF Beat
<1>3. /\ rch \in Seq(Dword) /\ mmu \in Seq(Dword) /\ Len(rch) <= 7 /\ Len(mmu) <= 7
      /\ RchRen \in BOOLEAN /\ (RchRen => rch # <<>>)
      /\ MmuRen \in BOOLEAN /\ (MmuRen => mmu # <<>>)
  <2>1. rch \in Seq(Dword) /\ mmu \in Seq(Dword) /\ Len(rch) <= 7 /\ Len(mmu) <= 7
    BY DEF IcacheTypeOK
  <2>2. RchRen \in BOOLEAN /\ (RchRen => rch # <<>>)
    BY DEF RchRen
  <2>3. MmuRen \in BOOLEAN /\ (MmuRen => mmu # <<>>)
    BY DEF MmuRen
  <2> QED
    BY <2>1, <2>2, <2>3
<1>4. rch' \in Seq(Dword) /\ Len(rch') <= 7
  <2>1. Len(new) = 0 \/ (Len(new) = 1 /\ Len(rch) # 7)
    BY DEF IfuArReady
  <2>2. /\ Pushed(rch, RchRen, new) \in Seq(Dword)
        /\ Len(Pushed(rch, RchRen, new)) <= 7
    BY <1>3, <2>1, PushedQueue, PushedRoom
  <2> QED
    BY <1>1, <2>2, Single DEF QueueStep
<1>5. mmu' \in Seq(Dword) /\ Len(mmu') <= 7
  <2> DEFINE ren == MmuRen /\ immuHas
  <2>1. ren \in BOOLEAN /\ (ren => mmu # <<>>)
    BY <1>3
  <2>2. mmu' = IF flush THEN <<>> ELSE Pushed(mmu, ren, new)
    BY <1>1 DEF QueueStep
  <2> HIDE DEF ren
  <2>3. Len(new) = 0 \/ (Len(new) = 1 /\ Len(mmu) # 7)
    BY DEF IfuArReady
  <2>4. /\ Pushed(mmu, ren, new) \in Seq(Dword)
        /\ Len(Pushed(mmu, ren, new)) <= 7
    BY <1>3, <2>1, <2>3, PushedQueue, PushedRoom
  <2> QED
    BY <2>2, <2>4, Single
<1>6. stage' \in Dword \cup {None} /\ paddr' \in Dword \cup {None}
  <2>1. (rch # <<>> => Head(rch) \in Dword) /\ (mmu # <<>> => Head(mmu) \in Dword)
    BY <1>3, HeadTail
  <2> QED
    BY <1>1, <1>3, <2>1 DEF StageStep, IcacheTypeOK
<1>7. cap' \in RowSet \cup {None}
  BY <1>1, RowsUsedType DEF StageStep, IcacheTypeOK
<1>8. /\ fsm' \in {"IDLE", "WAIT_ARREADY", "WAIT_RVALID0", "DATA0_ERROR", "WAIT_RVALID1",
                  "WRITE_CACHE", "SEND_DATA"}
      /\ resp' \in BOOLEAN /\ drop' \in BOOLEAN
  <2>1. fsm' \in {"IDLE", "WAIT_ARREADY", "WAIT_RVALID0", "DATA0_ERROR", "WAIT_RVALID1",
                  "WRITE_CACHE", "SEND_DATA"}
    BY <1>1 DEF FsmStep, FsmMove
  <2>2. resp' \in BOOLEAN
    BY <1>1, <1>2 DEF FsmStep, RespNext, IcacheTypeOK
  <2>3. drop' \in BOOLEAN
    BY <1>1, <1>2 DEF DropStep
  <2> QED
    BY <2>1, <2>2, <2>3
<1>9. wdata' \in [{1, 2} -> Answer]
  BY <1>1, <1>2, AnswerTypes DEF FsmStep, IcacheTypeOK
<1>10. rows' \in [Index -> RowSet]
  <2>1. CASE clear
    BY <2>1, <1>1 DEF ArrayStep, RowSet
  <2>2. CASE ~clear /\ fsm = "WRITE_CACHE"
    <3>1. stage \in Dword /\ paddr \in Dword
      BY <2>2 DEF Refill, Miss, Translated, IcacheTypeOK
    <3> DEFINE i == IndexOf(LineOf(stage))
               r == [line |-> LineOf(paddr), data |-> wdata]
    <3>2. i \in Index /\ r \in Row
      BY <3>1, Addresses, IndexType DEF Row, IcacheTypeOK
    <3>3. PICK w \in Way : rows' = [rows EXCEPT ![i][w] = r]
      BY <2>2, <1>1 DEF ArrayStep
    <3> HIDE DEF i, r
    <3>4. rows \in [Index -> RowSet] /\ [rows[i] EXCEPT ![w] = r] \in RowSet
      BY <3>2 DEF IcacheTypeOK, RowSet
    <3> QED
      BY <3>2, <3>3, <3>4
  <2>3. CASE ~clear /\ fsm # "WRITE_CACHE"
    BY <2>3, <1>1 DEF ArrayStep, IcacheTypeOK
  <2> QED
    BY <2>1, <2>2, <2>3
<1>11. shown' \in Index \cup {None}
  <2>1. rch # <<>> => IndexOf(LineOf(Head(rch))) \in Index
    BY <1>3, HeadTail, Addresses, IndexType
  <2> QED
    BY <1>1, <2>1 DEF ArrayStep, IcacheTypeOK
<1>12. out' \in Answer \cup {None}
  BY <1>1, OutDataType DEF QueueStep
<1> QED
  BY <1>4, <1>5, <1>6, <1>7, <1>8, <1>9, <1>10, <1>11, <1>12 DEF IcacheTypeOK

-----------------------------------------------------------------------------
\* What is under way moves by a request and an answer.

LEMMA LengthType ==
    ASSUME NEW S, NEW s \in Seq(S)
    PROVE  Len(s) \in Nat
OBVIOUS

\* Three places: a queue of length q, and two that hold one or none.
LEMMA PlacesSum ==
    ASSUME NEW q \in Nat, NEW s \in {0, 1}, NEW o \in {0, 1}
    PROVE  q + s + o \in Nat /\ (o = 1 => q + s + o > 0)
OBVIOUS

LEMMA PlacesMove ==
    ASSUME NEW q \in Nat, NEW s \in {0, 1}, NEW o \in {0, 1}, NEW up \in {0, 1},
           NEW moved \in {0, 1}, NEW sent \in {0, 1}
    PROVE  (q + up - moved) + (s + moved - sent) + sent = (q + s + o) + up - o
OBVIOUS

LEMMA QueueMove ==
    ASSUME NEW q \in Nat, NEW up \in {0, 1}, NEW answered \in {0, 1}
    PROVE  (q - answered) + up = q + up - answered
OBVIOUS

\* In icache a request is in rch, in the stage or in out; out is always taken.
LEMMA UnderWayIcache ==
    ASSUME hasIcache, hasIcache', IcacheTypeOK, Refill,
           NEW flush \in BOOLEAN, NEW fire \in BOOLEAN, NEW immuHas \in BOOLEAN,
           NEW new, new = IF fire THEN <<pc>> ELSE <<>>, pc \in Dword,
           StageStep(flush, immuHas), QueueStep(flush, new, immuHas)
    PROVE  /\ UnderWay \in Nat /\ UnderWay' \in Nat
           /\ out # None => UnderWay > 0
           /\ UnderWay' = IF flush THEN 0 ELSE Counted(UnderWay, fire, out # None)
<1> DEFINE S == IF stage = None THEN 0 ELSE 1
           O == IF out = None THEN 0 ELSE 1
           S1 == IF stage' = None THEN 0 ELSE 1
           O1 == IF out' = None THEN 0 ELSE 1
<1>1. UnderWay = Len(rch) + S + O /\ UnderWay' = Len(rch') + S1 + O1
  BY DEF UnderWay
<1>2. rch \in Seq(Dword) /\ Len(rch) \in Nat
  BY DEF IcacheTypeOK
<1>3. RchRen \in BOOLEAN /\ (RchRen => rch # <<>>)
  BY DEF RchRen
<1>4. new \in Seq(Dword) /\ Len(new) = IF fire THEN 1 ELSE 0
  BY Single
<1>5. rch # <<>> => Head(rch) # None
  BY <1>2, HeadTail, NoneApart
<1>6. CASE flush
  <2>1. rch' = <<>> /\ stage' = None /\ out' = None
    BY <1>6 DEF StageStep, QueueStep
  <2>2. Len(rch') = 0 /\ S1 = 0 /\ O1 = 0
    BY <2>1, Single
  <2>3. UnderWay \in Nat /\ (out # None => UnderWay > 0)
    <3>1. S \in {0, 1} /\ O \in {0, 1} /\ (out # None => O = 1)
      OBVIOUS
    <3> HIDE DEF S, O
    <3> QED
      BY <1>1, <1>2, <3>1, PlacesSum
  <2>4. UnderWay' = 0
    <3> HIDE DEF S1, O1
    <3> QED
      BY <1>1, <2>2
  <2> QED
    BY <1>6, <2>3, <2>4
<1>7. CASE ~flush
  <2>1. Len(rch') = Len(rch) + Len(new) - (IF RchRen THEN 1 ELSE 0) /\ Len(rch') \in Nat
    <3>1. rch' = Pushed(rch, RchRen, new)
      BY <1>7 DEF QueueStep
    <3>2. Pushed(rch, RchRen, new) \in Seq(Dword)
      BY <1>2, <1>3, <1>4, PushedQueue
    <3>3. Len(Pushed(rch, RchRen, new)) = Len(rch) + Len(new) - (IF RchRen THEN 1 ELSE 0)
      BY <1>2, <1>3, <1>4, PushedQueue
    <3>4. Len(Pushed(rch, RchRen, new)) \in Nat
      BY <3>2, LengthType
    <3> QED
      BY <3>1, <3>3, <3>4
  <2>2. O1 = IF OutWen THEN 1 ELSE 0
    BY <1>7, OutDataType, NoneApart DEF QueueStep
  <2>3. S1 = S + (IF RchRen THEN 1 ELSE 0) - (IF OutWen THEN 1 ELSE 0)
    <3>1. CASE OutWen
      <4>1. S = 1
        BY <3>1, OutWenStaged
      <4>2. S1 = IF RchRen THEN 1 ELSE 0
        BY <3>1, <1>3, <1>5, <1>7 DEF StageStep
      <4> QED
        BY <3>1, <4>1, <4>2
    <3>2. CASE ~OutWen /\ stage = None
      <4>1. S1 = IF RchRen THEN 1 ELSE 0
        BY <3>2, <1>3, <1>5, <1>7 DEF StageStep
      <4> QED
        BY <3>2, <4>1
    <3>3. CASE ~OutWen /\ stage # None
      <4>1. stage' = stage /\ ~RchRen
        BY <3>3, <1>7 DEF StageStep, RchRen
      <4> QED
        BY <3>3, <4>1
    <3> QED
      BY <3>1, <3>2, <3>3
  <2> DEFINE up == IF fire THEN 1 ELSE 0
             moved == IF RchRen THEN 1 ELSE 0
             sent == IF OutWen THEN 1 ELSE 0
  <2>4. /\ S \in {0, 1} /\ O \in {0, 1} /\ S1 \in {0, 1} /\ O1 \in {0, 1}
        /\ up \in {0, 1} /\ moved \in {0, 1} /\ sent \in {0, 1}
        /\ (out # None => O = 1)
        /\ Counted(UnderWay, fire, out # None) = UnderWay + up - O
    BY DEF Counted
  <2>5. Len(rch') = Len(rch) + up - moved /\ O1 = sent /\ S1 = S + moved - sent
    BY <1>4, <2>1, <2>2, <2>3
  <2> HIDE DEF up, moved, sent, S, O, S1, O1
  <2>6. UnderWay' = UnderWay + up - O
    BY <1>1, <1>2, <2>4, <2>5, PlacesMove
  <2>7. UnderWay \in Nat /\ UnderWay' \in Nat /\ (out # None => UnderWay > 0)
    BY <1>1, <1>2, <2>1, <2>4, PlacesSum
  <2> QED
    BY <1>7, <2>4, <2>6, <2>7
<1> QED
  BY <1>6, <1>7

\* On the bus of core_top it is in the queue of the bus, also across a flush.
LEMMA UnderWayBus ==
    ASSUME ~hasIcache, ~hasIcache', bus \in Seq(Dword), pc \in Dword,
           NEW fire \in BOOLEAN, NEW answer, answer # None => bus # <<>>,
           bus' = (IF answer = None THEN bus ELSE Tail(bus))
                  \o (IF fire THEN <<pc>> ELSE <<>>)
    PROVE  /\ bus' \in Seq(Dword)
           /\ UnderWay \in Nat /\ UnderWay' \in Nat
           /\ answer # None => UnderWay > 0
           /\ UnderWay' = Counted(UnderWay, fire, answer # None)
<1> DEFINE kept == IF answer = None THEN bus ELSE Tail(bus)
           new == IF fire THEN <<pc>> ELSE <<>>
           up == IF fire THEN 1 ELSE 0
           answered == IF answer = None THEN 0 ELSE 1
<1>1. UnderWay = Len(bus) /\ UnderWay' = Len(bus') /\ Len(bus) \in Nat
  BY DEF UnderWay
<1>2. kept \in Seq(Dword) /\ Len(kept) = Len(bus) - answered
      /\ (answer # None => Len(bus) > 0)
  BY HeadTail
<1>3. new \in Seq(Dword) /\ Len(new) = up
  BY Single
<1>4. bus' = kept \o new
  OBVIOUS
<1> HIDE DEF kept, new
<1>5. bus' \in Seq(Dword) /\ Len(bus') = Len(kept) + Len(new) /\ Len(bus') \in Nat
  <2>1. kept \o new \in Seq(Dword) /\ Len(kept \o new) = Len(kept) + Len(new)
    BY <1>2, <1>3, Concatenated
  <2>2. Len(kept \o new) \in Nat
    BY <2>1, LengthType
  <2> QED
    BY <1>4, <2>1, <2>2
<1>6. /\ Counted(UnderWay, fire, answer # None) = UnderWay + up - answered
      /\ up \in {0, 1} /\ answered \in {0, 1}
  BY DEF Counted
<1> HIDE DEF up, answered
<1>7. UnderWay' = UnderWay + up - answered
  <2>1. Len(bus') = (Len(bus) - answered) + up
    BY <1>2, <1>3, <1>5
  <2>2. (Len(bus) - answered) + up = Len(bus) + up - answered
    BY <1>1, <1>6, QueueMove
  <2> QED
    BY <1>1, <2>1, <2>2
<1> QED
  BY <1>1, <1>2, <1>5, <1>6, <1>7

-----------------------------------------------------------------------------
\* The burst on the bus and the state of the machine that asked for it.

Burst == [line : Line, sent : {0, 1}, err : BOOLEAN]
BusType == bus \in Seq(IF hasIcache THEN Burst ELSE Dword)
MemType == mem \in [Line -> Version] /\ live \in [Line -> SUBSET Version]

BurstPlace ==
    hasIcache =>
        /\ fsm = "WAIT_RVALID0" => Head(bus).sent = 0
        /\ fsm \in {"DATA0_ERROR", "WAIT_RVALID1"} => Head(bus).sent = 1

LEMMA BeatTypes ==
    ASSUME hasIcache, BusType, MemType, NEW beat \in Beats
    PROVE  /\ bus # <<>> /\ beat \in Beat
           /\ beat.last = (Head(bus).sent = 1)
<1>1. bus # <<>>
  BY DEF Beats
<1> DEFINE r == Head(bus)
           good == [ok |-> TRUE, last |-> r.sent = 1,
                    data |-> Good(2 * r.line + r.sent, mem[r.line])]
           error == [good EXCEPT !.ok = FALSE]
<1>2. r \in Burst
  BY <1>1, HeadTail DEF BusType
<1>3. r.line \in Line /\ r.sent \in {0, 1}
  BY <1>2 DEF Burst
<1>4. 2 * r.line + r.sent \in Dword
  <2>1. r.line \in Int /\ 2 * r.line \in Dword /\ 2 * r.line + 1 \in Dword
    BY <1>3, Addresses DEF Line
  <2>2. CASE r.sent = 0
    BY <2>1, <2>2
  <2>3. CASE r.sent = 1
    BY <2>1, <2>3
  <2> QED
    BY <1>3, <2>2, <2>3
<1>5. Good(2 * r.line + r.sent, mem[r.line]) \in Answer
  BY <1>3, <1>4, AnswerTypes DEF MemType
<1>6. beat \in {good, error}
  BY <1>1 DEF Beats
<1>7. good \in Beat /\ good.last = (r.sent = 1)
  BY <1>5 DEF Beat
<1> HIDE DEF good
<1>8. error \in Beat /\ error.last = good.last
  BY <1>7 DEF Beat
<1> HIDE DEF error
<1> QED
  BY <1>1, <1>6, <1>7, <1>8

LEMMA SentBurst ==
    ASSUME hasIcache, BusType, Len(bus) <= 1,
           NEW beat, beat # None => bus # <<>> /\ beat \in Beat
    PROVE  /\ Sent(beat) \in Seq(Burst) /\ Len(Sent(beat)) <= 1
           /\ beat = None => Sent(beat) = bus
           /\ beat # None /\ beat.last => Sent(beat) = <<>>
           /\ beat # None /\ ~beat.last => Sent(beat) # <<>> /\ Head(Sent(beat)).sent = 1
<1>1. bus \in Seq(Burst)
  BY DEF BusType
<1>2. CASE beat = None
  BY <1>1, <1>2 DEF Sent
<1>3. CASE beat # None
  <2>1. Head(bus) \in Burst /\ Tail(bus) \in Seq(Burst) /\ Len(Tail(bus)) = Len(bus) - 1
        /\ Len(bus) \in Nat /\ Len(bus) > 0
    BY <1>1, <1>3, HeadTail
  <2>2. Tail(bus) = <<>>
    BY <2>1
  <2> DEFINE b == [Head(bus) EXCEPT !.sent = 1, !.err = ~beat.ok]
  <2>3. b \in Burst /\ b.sent = 1
    BY <1>3, <2>1 DEF Burst, Beat
  <2> HIDE DEF b
  <2>4. <<b>> \o <<>> = <<b>> /\ <<b>> \in Seq(Burst) /\ Len(<<b>>) = 1
        /\ <<b>> # <<>> /\ Head(<<b>>) = b
    BY <2>3
  <2>5. Sent(beat) = IF beat.last THEN <<>> ELSE <<b>>
    BY <1>3, <2>2, <2>4 DEF Sent, b
  <2> QED
    BY <1>3, <2>3, <2>4, <2>5, Single
<1> QED
  BY <1>2, <1>3

LEMMA BurstStep ==
    ASSUME hasIcache, hasIcache', BusType, IcacheTypeOK, Refill, BurstOwned, BurstPlace,
           NEW flush \in BOOLEAN, NEW arready \in BOOLEAN,
           NEW beat, beat # None => bus # <<>> /\ beat \in Beat
                                    /\ beat.last = (Head(bus).sent = 1),
           FsmStep(flush, arready, beat), DropStep(flush, arready, beat),
           bus' = Sent(beat) \o (IF ArValid /\ arready
                                 THEN <<[line |-> LineOf(paddr), sent |-> 0, err |-> FALSE]>>
                                 ELSE <<>>)
    PROVE  BusType' /\ BurstOwned' /\ BurstPlace'
<1> DEFINE Owning == {"WAIT_RVALID0", "DATA0_ERROR", "WAIT_RVALID1"}
<1>1. /\ Len(bus) <= 1
      /\ (bus # <<>>) = (drop \/ fsm \in Owning)
      /\ (drop => fsm = "IDLE")
  BY DEF BurstOwned, Refill
<1>2. /\ Sent(beat) \in Seq(Burst) /\ Len(Sent(beat)) <= 1
      /\ (beat = None => Sent(beat) = bus)
      /\ (beat # None /\ beat.last => Sent(beat) = <<>>)
      /\ (beat # None /\ ~beat.last => Sent(beat) # <<>> /\ Head(Sent(beat)).sent = 1)
  BY <1>1, SentBurst
<1>3. beat # None => beat.ok \in BOOLEAN /\ beat.last \in BOOLEAN
  BY DEF Beat
<1>4. CASE ArValid /\ arready
  <2> DEFINE b == [line |-> LineOf(paddr), sent |-> 0, err |-> FALSE]
  <2>1. fsm = "WAIT_ARREADY" /\ ~drop /\ bus = <<>> /\ beat = None
    BY <1>1, <1>4 DEF ArValid
  <2>2. b \in Burst /\ b.sent = 0
    BY <2>1, Addresses DEF Burst, Refill, Miss, Translated, IcacheTypeOK
  <2> HIDE DEF b
  <2>3. bus' = <<b>>
    <3>1. bus' = <<>> \o <<b>>
      BY <1>2, <1>4, <2>1 DEF b
    <3> QED
      BY <3>1, <2>2, OneElement
  <2>4. bus' \in Seq(Burst) /\ Len(bus') = 1 /\ bus' # <<>> /\ Head(bus') = b
    BY <2>2, <2>3, OneElement, Single
  <2>5. drop' = flush /\ fsm' = IF flush THEN "IDLE" ELSE "WAIT_RVALID0"
    BY <1>4, <2>1 DEF FsmStep, FsmMove, DropStep
  <2> QED
    BY <2>2, <2>4, <2>5 DEF BusType, BurstOwned, BurstPlace
<1>5. CASE ~(ArValid /\ arready)
  <2>1. bus' = Sent(beat)
    <3>1. bus' = Sent(beat) \o <<>>
      BY <1>5
    <3> QED
      BY <3>1, <1>2
  <2>2. bus' \in Seq(Burst) /\ Len(bus') <= 1
    BY <1>2, <2>1
  <2>3. CASE flush
    <3>1. fsm' = "IDLE"
      BY <2>3 DEF FsmStep
    <3>2. drop' = (bus' # <<>>)
      <4>1. CASE beat = None
        <5>1. bus' = bus
          BY <1>2, <2>1, <4>1
        <5>2. drop' = (drop \/ fsm \in Owning)
          BY <1>5, <2>3, <4>1 DEF DropStep, ArValid
        <5> QED
          BY <5>1, <5>2, <1>1
      <4>2. CASE beat # None
        <5>1. bus' # <<>> <=> ~beat.last
          BY <1>2, <2>1, <4>2
        <5>2. drop \/ fsm \in Owning
          BY <1>1, <4>2
        <5>3. drop' = ~beat.last
          BY <1>3, <1>5, <2>3, <4>2, <5>2 DEF DropStep, ArValid
        <5> QED
          BY <5>1, <5>3, <1>3, <4>2
      <4> QED
        BY <4>1, <4>2
    <3> QED
      BY <2>2, <3>1, <3>2 DEF BusType, BurstOwned, BurstPlace
  <2>4. CASE ~flush
    <3>1. FsmMove(arready, beat)
      BY <2>4 DEF FsmStep
    <3>2. drop' = (drop /\ ~(beat # None /\ beat.last))
      BY <2>4 DEF DropStep
    <3>3. CASE drop
      <4>1. fsm' = "IDLE" /\ fsm = "IDLE"
        BY <3>1, <3>3, <1>1 DEF FsmMove
      <4>2. drop' = (bus' # <<>>)
        BY <1>1, <1>2, <2>1, <3>2, <3>3
      <4> QED
        BY <2>2, <4>1, <4>2 DEF BusType, BurstOwned, BurstPlace
    <3>4. CASE ~drop /\ fsm \notin Owning
      <4>1. bus = <<>> /\ beat = None /\ bus' = <<>>
        BY <1>1, <1>2, <2>1, <3>4
      <4>2. fsm' \notin Owning /\ ~drop'
        BY <1>5, <3>1, <3>2, <3>4 DEF FsmMove, ArValid, IcacheTypeOK
      <4> QED
        BY <2>2, <4>1, <4>2 DEF BusType, BurstOwned, BurstPlace
    <3>5. CASE ~drop /\ fsm \in Owning
      <4>1. CASE beat = None
        <5>1. fsm' = fsm /\ bus' = bus /\ ~drop'
          BY <1>2, <2>1, <3>1, <3>2, <3>5, <4>1 DEF FsmMove
        <5> QED
          BY <1>1, <2>2, <3>5, <5>1 DEF BusType, BurstOwned, BurstPlace
      <4>2. CASE beat # None /\ beat.last
        <5>0. Head(bus).sent = 1
          BY <4>2
        <5>1. fsm \in {"DATA0_ERROR", "WAIT_RVALID1"}
          BY <3>5, <5>0 DEF BurstPlace
        <5>2. fsm' \notin Owning /\ ~drop' /\ bus' = <<>>
          BY <1>2, <2>1, <3>1, <3>2, <3>5, <4>2, <5>1 DEF FsmMove
        <5> QED
          BY <2>2, <5>2 DEF BusType, BurstOwned, BurstPlace
      <4>3. CASE beat # None /\ ~beat.last
        <5>1. Head(bus).sent # 1
          BY <4>3
        <5>2. fsm = "WAIT_RVALID0"
          BY <3>5, <5>1 DEF BurstPlace
        <5>3. fsm' \in {"DATA0_ERROR", "WAIT_RVALID1"} /\ ~drop'
              /\ bus' # <<>> /\ Head(bus').sent = 1
          BY <1>2, <1>3, <2>1, <3>1, <3>2, <3>5, <4>3, <5>2 DEF FsmMove
        <5> QED
          BY <2>2, <5>3 DEF BusType, BurstOwned, BurstPlace
      <4> QED
        BY <4>1, <4>2, <4>3
    <3> QED
      BY <3>3, <3>4, <3>5
  <2> QED
    BY <2>3, <2>4
<1> QED
  BY <1>4, <1>5

-----------------------------------------------------------------------------
\* The invariant, its first state and its steps.

PipeType ==
    /\ stall \in {"no", "wait", "scan"} /\ depth \in 0 .. 2
    /\ MemType

FetchInv ==
    /\ IfuData /\ IcacheTypeOK /\ PipeType /\ BusType
    /\ Refill /\ BurstOwned /\ BurstPlace
    /\ Counting

LEMMA FetchInvInit ==
    ASSUME MacroFits, Init
    PROVE  FetchInv
<1>1. hasIcache \in BOOLEAN /\ useIcache = hasIcache
  BY FetchAssumption DEF MacroFits, Init
<1>e. \A S : <<>> \in Seq(S) /\ Len(<<>>) = 0
  OBVIOUS
<1>2. IfuData
  <2>1. fifo \in Seq(Answer)
    BY <1>e DEF Init, IfuInit
  <2>2. buf \in [{1, 2} -> Instruction \cup {None}]
    BY DEF Init, IfuInit
  <2> QED
    BY <2>1, <2>2, Addresses DEF Init, IfuInit, IfuData
<1>3. IcacheTypeOK
  <2>1. rch \in Seq(Dword) /\ mmu \in Seq(Dword) /\ Len(rch) <= 7 /\ Len(mmu) <= 7
    <3>1. rch = <<>> /\ mmu = <<>>
      BY DEF Init, IcacheInit
    <3>2. Len(<<>>) <= 7
      BY <1>e
    <3> QED
      BY <1>e, <3>1, <3>2
  <2>2. wdata \in [{1, 2} -> Answer] /\ rows \in [Index -> RowSet]
    BY AnswerTypes DEF Init, IcacheInit, RowSet
  <2> QED
    BY <2>1, <2>2 DEF Init, IcacheInit, IcacheTypeOK
<1>4. PipeType
  BY CodeAssumption DEF Init, PipeType, MemType
<1>5. BusType /\ bus = <<>> /\ fifo = <<>> /\ Len(bus) = 0 /\ Len(fifo) = 0 /\ Len(rch) = 0
  BY Single DEF Init, IfuInit, IcacheInit, BusType
<1>6. Refill /\ BurstOwned /\ BurstPlace
  BY <1>5 DEF Init, IcacheInit, Refill, BurstOwned, BurstPlace
<1>7. UnderWay = 0
  BY <1>5 DEF Init, IcacheInit, UnderWay
<1>8. Counting
  BY <1>1, <1>5, <1>7 DEF Init, IfuInit, Counting, CountersAgree
<1> QED
  BY <1>2, <1>3, <1>4, <1>5, <1>6, <1>8 DEF FetchInv

LEMMA PipelineTypes ==
    ASSUME PipeType, NEW o \in Orders, NEW ready \in BOOLEAN, PipelineStep(o, ready)
    PROVE  PipeType'
<1>1. stall' \in {"no", "wait", "scan"}
  BY OrderTypes DEF PipelineStep
<1>2. depth' \in 0 .. 2
  BY DEF PipelineStep, PipeType
<1>3. MemType'
  BY DEF PipelineStep, PipeType, MemType
<1> QED
  BY <1>1, <1>2, <1>3 DEF PipeType

LEMMA TickIcache ==
    ASSUME FetchInv, hasIcache, hasIcache' = hasIcache, NEW o \in Orders,
           NEW immuHas \in BOOLEAN, NEW arready \in BOOLEAN, NEW ready \in BOOLEAN,
           NEW beat \in Beats \cup {None}, CycleWithIcache(o, immuHas, arready, beat, ready)
    PROVE  /\ IfuData' /\ IcacheTypeOK' /\ BusType'
           /\ Refill' /\ BurstOwned' /\ BurstPlace' /\ Counting'
<1> DEFINE fire == arvalid /\ IfuArReady
           new == IF fire THEN <<pc>> ELSE <<>>
<1>1. /\ o.flush \in BOOLEAN /\ o.clear \in BOOLEAN /\ o.to \in Target \cup {None}
      /\ IfuArReady \in BOOLEAN /\ fire \in BOOLEAN /\ out \in Answer \cup {None}
      /\ pc \in Dword
  BY OrderTypes DEF FetchInv, IfuData, IcacheTypeOK, IfuArReady
<1>2. /\ IfuStep(o.flush, o.to, IfuArReady, out, ready)
      /\ IcacheStep(o.flush, o.clear, new, immuHas, arready, beat)
  BY DEF CycleWithIcache
<1>3. /\ FsmStep(o.flush, arready, beat) /\ DropStep(o.flush, arready, beat)
      /\ StageStep(o.flush, immuHas) /\ QueueStep(o.flush, new, immuHas)
  BY <1>2 DEF IcacheStep
<1>4. beat # None => /\ bus # <<>> /\ beat \in Beat
                     /\ beat.last = (Head(bus).sent = 1)
  BY BeatTypes DEF FetchInv, PipeType
<1>5. new \in Seq(Dword) /\ (Len(new) = 0 \/ (Len(new) = 1 /\ IfuArReady))
  BY <1>1, Single
<1>6. IfuData'
  BY <1>1, <1>2, IfuDataStep DEF FetchInv
<1>7. IcacheTypeOK'
  <2>1. beat \in Beat \cup {None}
    BY <1>4
  <2> HIDE DEF new, fire
  <2> QED
    BY <1>1, <1>2, <1>5, <2>1, IcacheTypeStep DEF FetchInv
<1>8. Refill'
  BY <1>1, <1>3, RefillStep DEF FetchInv
<1>9. BusType' /\ BurstOwned' /\ BurstPlace'
  <2>1. bus' = Sent(beat) \o (IF ArValid /\ arready
                              THEN <<[line |-> LineOf(paddr), sent |-> 0, err |-> FALSE]>>
                              ELSE <<>>)
    BY DEF CycleWithIcache
  <2> QED
    BY <1>1, <1>3, <1>4, <2>1, BurstStep DEF FetchInv
<1>10. /\ UnderWay \in Nat /\ UnderWay' \in Nat
       /\ out # None => UnderWay > 0
       /\ UnderWay' = IF o.flush THEN 0 ELSE Counted(UnderWay, fire, out # None)
  <2>1. new = IF fire THEN <<pc>> ELSE <<>>
    OBVIOUS
  <2> HIDE DEF new, fire
  <2> QED
    BY <1>1, <1>3, <2>1, UnderWayIcache DEF FetchInv
<1>11. Counting'
  <2>1. /\ UnderWay' = IF hasIcache /\ o.flush THEN 0
                         ELSE Counted(UnderWay, arvalid /\ IfuArReady, out # None)
        /\ IfuData /\ Counting
    BY <1>10 DEF FetchInv
  <2> HIDE DEF new, fire
  <2> QED
    BY <1>1, <1>2, <1>10, <2>1, CountingStep
<1> QED
  BY <1>6, <1>7, <1>8, <1>9, <1>11

LEMMA TickBus ==
    ASSUME FetchInv, ~hasIcache, hasIcache' = hasIcache, NEW o \in Orders,
           NEW arready \in BOOLEAN, NEW ready \in BOOLEAN,
           NEW answer \in WordAnswers \cup {None}, CycleWithBus(o, arready, answer, ready)
    PROVE  /\ IfuData' /\ IcacheTypeOK' /\ BusType'
           /\ Refill' /\ BurstOwned' /\ BurstPlace' /\ Counting'
<1> DEFINE fire == arvalid /\ arready
<1>1. /\ o.flush \in BOOLEAN /\ o.to \in Target \cup {None}
      /\ fire \in BOOLEAN /\ pc \in Dword /\ bus \in Seq(Dword)
  BY OrderTypes DEF FetchInv, IfuData, BusType
<1>2. (answer # None => bus # <<>>) /\ answer \in Answer \cup {None}
  <2>1. CASE answer = None
    BY <2>1
  <2>2. CASE answer \in WordAnswers
    <3>1. bus # <<>> /\ Head(bus) \in Dword
      BY <2>2, <1>1, HeadTail DEF WordAnswers
    <3>2. mem[LineOf(Head(bus))] \in Version
      BY <3>1, Addresses DEF FetchInv, PipeType, MemType
    <3> QED
      BY <2>2, <3>1, <3>2, AnswerTypes DEF WordAnswers
  <2> QED
    BY <2>1, <2>2
<1>3. /\ IfuStep(o.flush, o.to, arready, answer, ready)
      /\ bus' = (IF answer = None THEN bus ELSE Tail(bus)) \o (IF fire THEN <<pc>> ELSE <<>>)
      /\ UNCHANGED icacheVars
  BY DEF CycleWithBus
<1>4. IfuData'
  BY <1>1, <1>2, <1>3, IfuDataStep DEF FetchInv
<1>5. IcacheTypeOK' /\ Refill'
  BY <1>3 DEF FetchInv, icacheVars, IcacheTypeOK, Refill, Miss, Translated, HitWays,
     RowsUsed, RowsNow, PaddrError
<1>6. /\ bus' \in Seq(Dword) /\ UnderWay \in Nat /\ UnderWay' \in Nat
      /\ answer # None => UnderWay > 0
      /\ UnderWay' = Counted(UnderWay, fire, answer # None)
  <2> HIDE DEF fire
  <2> QED
    BY <1>1, <1>2, <1>3, UnderWayBus
<1>7. Counting'
  <2>1. /\ UnderWay' = IF hasIcache /\ o.flush THEN 0
                         ELSE Counted(UnderWay, arvalid /\ arready, answer # None)
        /\ IfuData /\ Counting
    BY <1>6 DEF FetchInv
  <2> HIDE DEF fire
  <2> QED
    BY <1>1, <1>2, <1>3, <1>6, <2>1, CountingStep
<1>8. BusType' /\ BurstOwned' /\ BurstPlace'
  BY <1>6 DEF BusType, BurstOwned, BurstPlace
<1> QED
  BY <1>4, <1>5, <1>7, <1>8

LEMMA FetchInvStep ==
    ASSUME FetchInv, [Next]_vars
    PROVE  FetchInv'
<1>1. ASSUME NEW o \in Orders, NEW immuHas \in BOOLEAN, NEW arready \in BOOLEAN,
             NEW answers \in BOOLEAN, NEW ready \in BOOLEAN,
             Tick(o, immuHas, arready, answers, ready)
      PROVE  FetchInv'
  <2>1. PipelineStep(o, ready) /\ hasIcache' = hasIcache
    BY <1>1 DEF Tick, PipelineStep
  <2>2. PipeType'
    BY <2>1, PipelineTypes DEF FetchInv
  <2>3. CASE hasIcache
    <3>1. PICK beat \in Beats \cup {None} : CycleWithIcache(o, immuHas, arready, beat, ready)
      BY <1>1, <2>3 DEF Tick
    <3> QED
      BY <2>1, <2>2, <2>3, <3>1, TickIcache DEF FetchInv
  <2>4. CASE ~hasIcache
    <3>1. PICK answer \in WordAnswers \cup {None} : CycleWithBus(o, arready, answer, ready)
      BY <1>1, <2>4 DEF Tick
    <3> QED
      BY <2>1, <2>2, <2>4, <3>1, TickBus DEF FetchInv
  <2> QED
    BY <2>3, <2>4
<1>2. CASE Clock
  <2>1. PICK o \in Orders, immuHas, arready, answers, ready \in BOOLEAN :
           Tick(o, immuHas, arready, answers, ready)
    BY <1>2 DEF Clock
  <2> QED
    BY <2>1, <1>1
<1>3. ASSUME UNCHANGED <<ifuVars, icacheVars, hasIcache, bus, stall, depth>>, MemType'
      PROVE  FetchInv'
  <2>1. IfuData' /\ BusType' /\ PipeType'
    BY <1>3 DEF FetchInv, IfuData, BusType, PipeType, ifuVars
  <2>2. IcacheTypeOK' /\ Refill' /\ BurstOwned' /\ BurstPlace'
    BY <1>3 DEF FetchInv, icacheVars, IcacheTypeOK, Refill, Miss, Translated, HitWays,
       RowsUsed, RowsNow, PaddrError, BurstOwned, BurstPlace
  <2>3. UnderWay' = UnderWay
    BY <1>3 DEF UnderWay, icacheVars
  <2>4. Counting'
    BY <1>3, <2>3 DEF FetchInv, Counting, CountersAgree, ifuVars
  <2> QED
    BY <2>1, <2>2, <2>4 DEF FetchInv
<1>4. CASE PatchCode
  <2>1. MemType'
    <3>1. PICK l \in Line, v \in Version :
             /\ mem' = [mem EXCEPT ![l] = v]
             /\ live' = [live EXCEPT ![l] = @ \cup {v}]
      BY <1>4, CodeAssumption DEF PatchCode
    <3> QED
      BY <3>1 DEF FetchInv, PipeType, MemType
  <2> QED
    BY <1>4, <1>3, <2>1 DEF PatchCode
<1>5. CASE UNCHANGED vars
  BY <1>5, <1>3 DEF vars, envVars, FetchInv, PipeType, MemType
<1> QED
  BY <1>2, <1>4, <1>5 DEF Next

-----------------------------------------------------------------------------
\* ifu and icache keep their types: no queue overruns, no counter leaves 0 .. 4
\* (ifu.v:121-281, icache.v:191-241).
LEMMA FetchInvTypeOK ==
    ASSUME FetchInv
    PROVE  TypeOK
<1>1. IcacheTypeOK /\ hasIcache \in BOOLEAN /\ stall \in {"no", "wait", "scan"}
      /\ depth \in 0 .. 2 /\ mem \in [Line -> Version] /\ live \in [Line -> SUBSET Version]
  BY DEF FetchInv, Counting, PipeType, MemType
<1>2. Len(fifo) \in Nat /\ Len(bus) \in Nat /\ Len(rch) \in Nat
  <2>1. fifo \in Seq(Answer) /\ rch \in Seq(Dword)
    BY DEF FetchInv, IfuData, IcacheTypeOK
  <2>2. bus \in Seq(Burst) \/ bus \in Seq(Dword)
    BY DEF FetchInv, BusType
  <2> QED
    BY <2>1, <2>2, LengthType
<1>3. UnderWay \in Nat /\ (~hasIcache => UnderWay = Len(bus))
  <2> DEFINE S == IF stage = None THEN 0 ELSE 1
             O == IF out = None THEN 0 ELSE 1
  <2>1. S \in {0, 1} /\ O \in {0, 1} /\ (hasIcache => UnderWay = Len(rch) + S + O)
        /\ (~hasIcache => UnderWay = Len(bus))
    BY DEF UnderWay
  <2> HIDE DEF S, O
  <2> QED
    BY <1>1, <1>2, <2>1, PlacesSum
<1>4. /\ pcAllCnt = UnderWay /\ pcCnt = UnderWay - invalidCnt + Len(fifo)
      /\ pcCnt <= 4 /\ pcAllCnt <= 4
      /\ invalidCnt \in Nat /\ invalidCnt <= UnderWay
      /\ instCnt = IF hasIcache THEN 0 ELSE UnderWay - invalidCnt
  BY DEF FetchInv, Counting, CountersAgree
<1>5. pcCnt \in 0 .. 4 /\ pcAllCnt \in 0 .. 4 /\ instCnt \in 0 .. 4 /\ invalidCnt \in 0 .. 4
      /\ Len(fifo) <= 4
  BY <1>2, <1>3, <1>4
<1>6. Len(bus) <= 4
  <2>1. CASE hasIcache
    <3>1. Len(bus) <= 1
      BY <2>1 DEF FetchInv, BurstOwned
    <3> QED
      BY <1>2, <3>1
  <2>2. CASE ~hasIcache
    BY <2>2, <1>3, <1>4
  <2> QED
    BY <2>1, <2>2
<1>7. IfuTypeOK
  BY <1>1, <1>5 DEF FetchInv, IfuData, Counting, IfuTypeOK
<1> QED
  BY <1>1, <1>6, <1>7 DEF TypeOK

THEOREM FetchInvariant ==
    ASSUME MacroFits
    PROVE  Spec => []FetchInv
<1>1. Init => FetchInv
  BY FetchInvInit
<1>2. FetchInv /\ [Next]_vars => FetchInv'
  BY FetchInvStep
<1> QED
  BY <1>1, <1>2, PTL DEF Spec

\* ifu and icache keep their types: no queue overruns, no counter leaves 0 .. 4
\* (ifu.v:121-281, icache.v:191-241).
THEOREM FetchTypeCorrect ==
    ASSUME MacroFits
    PROVE  Spec => []TypeOK
<1>1. FetchInv => TypeOK
  BY FetchInvTypeOK
<1> QED
  BY <1>1, FetchInvariant, PTL

\* Every request is counted in exactly one place, so that the fifo of ifu, which
\* has no full flag, always has room (ifu.v:162-281).
THEOREM CountersAgreeAlways ==
    ASSUME MacroFits
    PROVE  Spec => []CountersAgree
<1>1. FetchInv => CountersAgree
  BY DEF FetchInv, Counting
<1> QED
  BY <1>1, FetchInvariant, PTL

\* icache has one burst at most, and asks for no other while it belongs to a
\* flushed request (icache.v:454-475).
THEOREM BurstAlwaysOwned ==
    ASSUME MacroFits
    PROVE  Spec => []BurstOwned
<1>1. FetchInv => BurstOwned
  BY DEF FetchInv
<1> QED
  BY <1>1, FetchInvariant, PTL
-----------------------------------------------------------------------------
\* The stream of double words: the one that is k further on, around the end.

Ahead(d, k) == (d + k) % (2 * Lines)

LEMMA Remainder ==
    ASSUME NEW m \in Nat, m > 0, NEW a \in 0 .. m - 1
    PROVE  a % m = a /\ (a + m) % m = a
OBVIOUS

LEMMA Multiple ==
    ASSUME NEW m \in Nat, m > 0, NEW x \in Int
    PROVE  /\ m * x \in Int
           /\ x >= 1 => m * x >= m
           /\ x <= -1 => m * x <= -m
           /\ m * (x + 1) = m * x + m
<1>1. m * x \in Int /\ m * (x + 1) = m * x + m
  OBVIOUS
<1>2. ASSUME x >= 1 PROVE m * x >= m
  <2>1. x - 1 \in Nat
    BY <1>2
  <2>2. m * (x - 1) \in Nat /\ m * (x - 1) = m * x - m
    BY <2>1
  <2> QED
    BY <1>1, <2>2
<1>3. ASSUME x <= -1 PROVE m * x <= -m
  <2>1. -x - 1 \in Nat
    BY <1>3
  <2>2. m * (-x - 1) \in Nat /\ m * (-x - 1) = -(m * x) - m
    BY <2>1
  <2> QED
    BY <1>1, <2>2
<1> QED
  BY <1>1, <1>2, <1>3

LEMMA Division ==
    ASSUME NEW m \in Nat, m > 0, NEW a \in Int
    PROVE  a \div m \in Int /\ a % m \in 0 .. m - 1 /\ a = m * (a \div m) + (a % m)
<1>1. a \div m \in Int
  OBVIOUS
<1>2. a % m \in 0 .. m - 1
  BY Modulo
<1>3. a = m * (a \div m) + (a % m)
  OBVIOUS
<1> QED
  BY <1>1, <1>2, <1>3

LEMMA SameQuotient ==
    ASSUME NEW m \in Nat, m > 0, NEW q \in Int, NEW p \in Int, NEW r \in 0 .. m - 1,
           NEW s \in 0 .. m - 1, m * q + r = m * p + s
    PROVE  r = s
<1>1. q - p \in Int /\ m * (q - p) = m * q - m * p
  OBVIOUS
<1> DEFINE x == q - p
           y == m * x
<1>2. x \in Int /\ y \in Int /\ (x >= 1 => y >= m) /\ (x <= -1 => y <= -m)
  BY <1>1, Multiple
<1>3. y = s - r
  BY <1>1, Multiple
<1>4. x = 0 => y = 0
  OBVIOUS
<1> HIDE DEF x, y
<1> QED
  BY <1>2, <1>3, <1>4

LEMMA NextRemainder ==
    ASSUME NEW m \in Nat, m > 0, NEW a \in Int
    PROVE  (a + 1) % m = IF a % m = m - 1 THEN 0 ELSE (a % m) + 1
<1> DEFINE q == a \div m
           r == a % m
           p == (a + 1) \div m
           s == (a + 1) % m
<1>1. /\ q \in Int /\ r \in 0 .. m - 1 /\ a = m * q + r
      /\ p \in Int /\ s \in 0 .. m - 1 /\ a + 1 = m * p + s
  BY Division
<1> HIDE DEF q, r, p, s
<1>2. CASE r = m - 1
  <2>1. q + 1 \in Int /\ m * (q + 1) = m * q + m /\ m * q \in Int /\ m * (q + 1) \in Int
    BY <1>1, Multiple
  <2>2. m * (q + 1) + 0 = m * p + s /\ 0 \in 0 .. m - 1
    BY <1>1, <1>2, <2>1
  <2>3. s = 0
    BY <1>1, <2>1, <2>2, SameQuotient
  <2> QED
    BY <1>2, <2>3 DEF r, s
<1>3. CASE r # m - 1
  <2>1. m * q \in Int /\ r + 1 \in 0 .. m - 1
    BY <1>1, <1>3
  <2>2. m * q + (r + 1) = m * p + s
    BY <1>1, <2>1
  <2>3. s = r + 1
    BY <1>1, <2>1, <2>2, SameQuotient
  <2> QED
    BY <1>3, <2>3 DEF r, s
<1> QED
  BY <1>2, <1>3

LEMMA TurnRemainder ==
    ASSUME NEW m \in Nat, m > 0, NEW a \in Int
    PROVE  (a + m) % m = a % m
<1> DEFINE q == a \div m
           r == a % m
           p == (a + m) \div m
           s == (a + m) % m
<1>1. a + m \in Int
  OBVIOUS
<1>2. /\ q \in Int /\ r \in 0 .. m - 1 /\ a = m * q + r
      /\ p \in Int /\ s \in 0 .. m - 1 /\ a + m = m * p + s
  BY <1>1, Division
<1> HIDE DEF q, r, p, s
<1>3. q + 1 \in Int /\ m * (q + 1) = m * q + m /\ m * q \in Int /\ m * (q + 1) \in Int
  BY <1>2, Multiple
<1>4. m * (q + 1) + r = m * p + s
  BY <1>2, <1>3
<1>5. r = s
  BY <1>2, <1>3, <1>4, SameQuotient
<1> QED
  BY <1>5 DEF r, s

LEMMA AheadType ==
    ASSUME NEW d \in Dword, NEW k \in Int
    PROVE  Ahead(d, k) \in Dword
<1>1. 2 * Lines \in Nat /\ 2 * Lines > 0 /\ d + k \in Int
  BY Addresses DEF Dword
<1> QED
  BY <1>1, Modulo DEF Ahead, Dword

LEMMA AheadZero ==
    ASSUME NEW d \in Dword
    PROVE  Ahead(d, 0) = d
<1>1. 2 * Lines \in Nat /\ 2 * Lines > 0 /\ d + 0 = d /\ d \in 0 .. 2 * Lines - 1
  BY Addresses DEF Dword
<1> QED
  BY <1>1, Remainder DEF Ahead

LEMMA AheadNext ==
    ASSUME NEW d \in Dword, NEW k \in Nat
    PROVE  /\ Ahead(d, k + 1) = NextDword(Ahead(d, k))
           /\ Ahead(NextDword(d), k) = Ahead(d, k + 1)
<1> DEFINE m == 2 * Lines
<1>1. m \in Nat /\ m > 0 /\ d \in 0 .. m - 1
  BY Addresses DEF Dword
<1>2. \A e \in Int : (e + 1) % m = IF e % m = m - 1 THEN 0 ELSE (e % m) + 1
  BY <1>1, NextRemainder
<1>3. Ahead(d, k + 1) = NextDword(Ahead(d, k))
  <2>1. d + k \in Int /\ d + (k + 1) = (d + k) + 1
    BY <1>1
  <2> QED
    BY <1>2, <2>1 DEF Ahead, NextDword
<1>4. Ahead(NextDword(d), k) = Ahead(d, k + 1)
  <2>1. CASE d # m - 1
    <3>1. NextDword(d) = d + 1 /\ (d + 1) + k = d + (k + 1)
      BY <1>1, <2>1 DEF NextDword
    <3> QED
      BY <3>1 DEF Ahead
  <2>2. CASE d = m - 1
    <3>1. NextDword(d) = 0 /\ 0 + k = k /\ d + (k + 1) = k + m
      BY <1>1, <2>2 DEF NextDword
    <3>2. (k + m) % m = k % m
      <4>1. k \in Int
        OBVIOUS
      <4> HIDE DEF m
      <4> QED
        BY <1>1, <4>1, TurnRemainder
    <3> QED
      BY <3>1, <3>2 DEF Ahead
  <2> QED
    BY <2>1, <2>2
<1> QED
  BY <1>3, <1>4

\* A half-word in its double word, and the one or two behind it.
LEMMA HalfParts ==
    ASSUME NEW h \in HalfWord
    PROVE  /\ h \in Int /\ DwordOf(h) \in Dword /\ h % 4 \in 0 .. 3
           /\ h = 4 * DwordOf(h) + (h % 4)
<1>1. h \in Int
  BY Addresses DEF HalfWord
<1>2. h % 4 \in 0 .. 3 /\ h = 4 * (h \div 4) + (h % 4)
  BY <1>1, Division
<1> QED
  BY <1>1, <1>2, Addresses DEF DwordOf

LEMMA Parts ==
    ASSUME NEW d \in Int, NEW r \in 0 .. 3
    PROVE  (4 * d + r) \div 4 = d /\ (4 * d + r) % 4 = r
OBVIOUS

LEMMA AfterInside ==
    ASSUME NEW h \in HalfWord, NEW n \in {1, 2}, (h % 4) + n < 4
    PROVE  /\ After(h, n) = h + n /\ DwordOf(After(h, n)) = DwordOf(h)
           /\ After(h, n) % 4 = (h % 4) + n
<1> DEFINE d == DwordOf(h)
           r == h % 4
           m == 8 * Lines
<1>1. d \in 0 .. 2 * Lines - 1 /\ r \in 0 .. 3 /\ h = 4 * d + r /\ Lines \in Nat
  BY HalfParts, Addresses DEF Dword
<1>2. r + n \in 0 .. 3 /\ h + n = 4 * d + (r + n) /\ d \in Int
  BY <1>1
<1> HIDE DEF d, r
<1>3. h + n \in 0 .. m - 1 /\ m \in Nat /\ m > 0
  BY <1>1, <1>2
<1>4. After(h, n) = h + n
  <2> HIDE DEF m
  <2>1. (h + n) % m = h + n
    BY <1>3, Remainder
  <2> QED
    BY <2>1 DEF After, m
<1>5. (h + n) \div 4 = d /\ (h + n) % 4 = r + n
  BY <1>2, Parts
<1> QED
  BY <1>4, <1>5 DEF d, r, DwordOf

LEMMA AfterBeyond ==
    ASSUME NEW h \in HalfWord, NEW n \in {1, 2}, (h % 4) + n >= 4
    PROVE  /\ DwordOf(After(h, n)) = NextDword(DwordOf(h))
           /\ After(h, n) % 4 = (h % 4) + n - 4
           /\ After(h, n) = 4 * NextDword(DwordOf(h)) + ((h % 4) + n - 4)
<1> DEFINE d == DwordOf(h)
           r == h % 4
           e == NextDword(d)
           s == r + n - 4
           m == 8 * Lines
<1>1. d \in 0 .. 2 * Lines - 1 /\ r \in 0 .. 3 /\ h = 4 * d + r
      /\ Lines \in Nat /\ Lines > 0
  BY HalfParts, Addresses DEF Dword
<1>2. r + n >= 4
  OBVIOUS
<1> HIDE DEF d, r
<1>3. s \in 0 .. 1 /\ h + n = 4 * (d + 1) + s /\ m \in Nat /\ m > 0
  BY <1>1, <1>2
<1>4. e \in 0 .. 2 * Lines - 1 /\ (4 * e + s = h + n \/ (4 * e + s) + m = h + n)
  BY <1>1, <1>3 DEF NextDword
<1> HIDE DEF e, s
<1>5. 4 * e + s \in 0 .. m - 1
  BY <1>1, <1>3, <1>4
<1>6. After(h, n) = 4 * e + s
  <2> HIDE DEF m
  <2>1. (h + n) % m = 4 * e + s
    BY <1>3, <1>4, <1>5, Remainder
  <2> QED
    BY <2>1 DEF After, m
<1>7. (4 * e + s) \div 4 = e /\ (4 * e + s) % 4 = s
  BY <1>3, <1>4, Parts
<1> QED
  BY <1>6, <1>7 DEF d, r, e, s, DwordOf

LEMMA AfterZero ==
    ASSUME NEW h \in HalfWord
    PROVE  After(h, 0) = h
<1>1. 8 * Lines \in Nat /\ 8 * Lines > 0 /\ h \in 0 .. 8 * Lines - 1 /\ h + 0 = h
  BY Addresses DEF HalfWord
<1> QED
  BY <1>1, Remainder DEF After

-----------------------------------------------------------------------------
\* What an answer is worth: d is fetched when its line is neither without
\* translation nor an error of the bus; a content is current when its line had it
\* since the last fence.i.

Fetches(d) == LineOf(d) \notin Unmapped \cup BusBad
Current(a, d, now) == a.kind = "ok" /\ a.dword = d /\ a.ver \in now[LineOf(d)]
Answers(a, d, now) ==
    IF a.kind = "ok" THEN Fetches(d) /\ Current(a, d, now) ELSE ~Fetches(d)

\* The double word that the head of the fifo answers; low is the one before it.
HeadDword ==
    IF Status = 3 /\ low # None THEN NextDword(DwordOf(myPC)) ELSE DwordOf(myPC)

LowAnswers == Status = 3 /\ low # None => Answers(low, DwordOf(myPC), live)
Received(q, d, now) == \A k \in 1 .. Len(q) : Answers(q[k], Ahead(d, k - 1), now)
FifoAnswers == Received(fifo, HeadDword, live)

\* An instruction that decode may take when it waits for i.pc.
HalfCurrent(x, h, now) ==
    x[1] = h /\ Fetches(DwordOf(h)) /\ x[2] \in now[LineOf(DwordOf(h))]

Whole(i, now) ==
    /\ i.fault = None
    /\ Len(i.halves) = Size(i.pc)
    /\ \A n \in 1 .. Size(i.pc) : HalfCurrent(i.halves[n], After(i.pc, n - 1), now)
FaultsAtOnce(i) == i.fault = i.pc /\ ~Fetches(DwordOf(i.pc))
FaultsBehind(i) ==
    /\ i.fault = After(i.pc, 1) /\ i.pc \in Wide
    /\ Fetches(DwordOf(i.pc)) /\ ~Fetches(DwordOf(After(i.pc, 1)))
Right(i, now) == Whole(i, now) \/ FaultsAtOnce(i) \/ FaultsBehind(i)

-----------------------------------------------------------------------------
\* Cutting answers into instructions.

LEMMA HeadAnswers ==
    ASSUME IfuData, FifoAnswers, fifo # <<>>
    PROVE  /\ Head(fifo) \in Answer /\ HeadDword \in Dword
           /\ Answers(Head(fifo), HeadDword, live)
<1>1. fifo \in Seq(Answer) /\ Len(fifo) \in Nat /\ Len(fifo) > 0 /\ Head(fifo) \in Answer
  BY HeadTail DEF IfuData
<1>2. HeadDword \in Dword
  BY Addresses DEF IfuData, HeadDword
<1>3. Head(fifo) = fifo[1]
  BY <1>1
<1>4. Answers(fifo[1], Ahead(HeadDword, 1 - 1), live)
  BY <1>1 DEF FifoAnswers, Received
<1>5. Ahead(HeadDword, 1 - 1) = HeadDword
  BY <1>2, AheadZero
<1> QED
  BY <1>1, <1>2, <1>3, <1>4, <1>5

\* The half-word n of the answer to d.
LEMMA HalfOfAnswer ==
    ASSUME NEW a \in Answer, NEW d \in Dword, NEW n \in 0 .. 3, NEW h \in HalfWord,
           a.kind = "ok", Answers(a, d, live), DwordOf(h) = d, h = 4 * d + n
    PROVE  /\ HalfCurrent(HalfOf(a, n), h, live)
           /\ LongAt(a, n) = (h \in Wide)
<1>1. Fetches(d) /\ a.dword = d /\ a.ver \in live[LineOf(d)]
  BY DEF Answers, Current
<1> QED
  BY <1>1 DEF HalfCurrent, HalfOf, LongAt

LEMMA CutRight ==
    ASSUME IfuData, LowAnswers, FifoAnswers, CanChange
    PROVE  /\ InstToIdu.pc = myPC /\ Right(InstToIdu, live)
           /\ InstToIdu.fault = None => Size(myPC) = IF InstLong THEN 2 ELSE 1
<1> DEFINE d == DwordOf(myPC)
           one == HalfOf(FirstWord, Status)
<1>1. /\ myPC \in HalfWord /\ Status \in 0 .. 3 /\ d \in Dword /\ myPC = 4 * d + Status
      /\ (Status + 1) % 4 \in 0 .. 3
  BY HalfParts DEF IfuData, Status
<1>2. /\ Head(fifo) \in Answer /\ HeadDword \in Dword /\ Answers(Head(fifo), HeadDword, live)
      /\ fifo # <<>>
  BY HeadAnswers DEF CanChange
<1>3. FirstWord \in Answer /\ Answers(FirstWord, d, live)
  <2>1. CASE Status = 3
    BY <2>1, <1>2 DEF CanChange, LowAnswers, FirstWord, IfuData
  <2>2. CASE Status # 3
    BY <2>2, <1>2 DEF FirstWord, HeadDword
  <2> QED
    BY <2>1, <2>2
<1>4. FirstWord.kind = "ok" =>
         HalfCurrent(one, myPC, live) /\ InstLong = (myPC \in Wide) /\ Fetches(d)
  <2> HAVE FirstWord.kind = "ok"
  <2>1. HalfCurrent(HalfOf(FirstWord, Status), myPC, live) /\ LongAt(FirstWord, Status) = (myPC \in Wide)
    BY <1>1, <1>3, HalfOfAnswer
  <2> QED
    BY <1>3, <2>1 DEF InstLong, Answers
<1>5. FirstWord.kind # "ok" => ~Fetches(d)
  BY <1>3 DEF Answers
<1>6. After(myPC, 1) \in HalfWord /\ After(myPC, 1) # None /\ myPC # None
  BY <1>1, AfterType, NoneApart
<1> DEFINE b == After(myPC, 1)
           e == DwordOf(b)
           n == (Status + 1) % 4
<1>7. /\ e \in Dword /\ b = 4 * e + n
      /\ e = IF Status = 3 THEN HeadDword ELSE d
  <2>1. CASE Status = 3
    <3>1. e = NextDword(d) /\ b = 4 * NextDword(d) + (Status + 1 - 4)
      BY <1>1, <2>1, AfterBeyond DEF Status
    <3>2. HeadDword = NextDword(d)
      BY <2>1 DEF HeadDword, CanChange
    <3>3. n = 0 /\ Status + 1 - 4 = 0
      BY <2>1
    <3> HIDE DEF b, e, n, d
    <3> QED
      BY <1>2, <2>1, <3>1, <3>2, <3>3
  <2>2. CASE Status # 3
    <3>1. b = myPC + 1 /\ e = d
      BY <1>1, <2>2, AfterInside DEF Status
    <3>2. n = Status + 1
      BY <1>1, <2>2
    <3> HIDE DEF b, e, n, d
    <3> QED
      BY <1>1, <2>2, <3>1, <3>2, Addresses DEF Dword
  <2> QED
    BY <2>1, <2>2
<1>8. e = HeadDword /\ e \in Dword /\ b = 4 * e + n
  BY <1>1, <1>7 DEF HeadDword
<1>9. Head(fifo).kind = "ok" => HalfCurrent(SecondHalf, b, live)
  <2> HIDE DEF e, b
  <2>1. Head(fifo).kind = "ok" => HalfCurrent(HalfOf(Head(fifo), n), b, live)
    <3> n \in 0 .. 3
      BY <1>1
    <3> HIDE DEF n
    <3> QED
      BY <1>2, <1>6, <1>8, HalfOfAnswer DEF b, e
  <2> QED
    BY <2>1 DEF SecondHalf
<1>10. Head(fifo).kind # "ok" => ~Fetches(e)
  BY <1>2, <1>8 DEF Answers
<1> DEFINE i == InstToIdu
<1>11. /\ i.pc = myPC /\ i.fault = FaultAt
       /\ i.halves = IF FaultAt # None THEN <<>>
                     ELSE IF InstLong THEN <<one, SecondHalf>> ELSE <<one>>
  BY DEF InstToIdu
<1> HIDE DEF i, one
<1>12. CASE FirstWord.kind # "ok"
  BY <1>5, <1>6, <1>11, <1>12 DEF FaultAt, Right, FaultsAtOnce, i
<1>13. CASE FirstWord.kind = "ok" /\ InstLong /\ Head(fifo).kind # "ok"
  BY <1>4, <1>6, <1>10, <1>11, <1>13 DEF FaultAt, Right, FaultsBehind, i
<1>14. CASE FirstWord.kind = "ok" /\ InstLong /\ Head(fifo).kind = "ok"
  <2>1. i.fault = None /\ i.halves = <<one, SecondHalf>> /\ Size(myPC) = 2
    BY <1>4, <1>11, <1>14 DEF FaultAt, Size
  <2>2. Len(i.halves) = 2 /\ i.halves[1] = one /\ i.halves[2] = SecondHalf
    BY <2>1
  <2>3. After(myPC, 1 - 1) = myPC /\ After(myPC, 2 - 1) = b
    BY <1>1, AfterZero
  <2>4. \A k \in 1 .. 2 : HalfCurrent(i.halves[k], After(myPC, k - 1), live)
    <3>1. HalfCurrent(i.halves[1], After(myPC, 1 - 1), live) /\ HalfCurrent(i.halves[2], After(myPC, 2 - 1), live)
      BY <1>4, <1>9, <1>14, <2>2, <2>3
    <3>2. \A k \in 1 .. 2 : k = 1 \/ k = 2
      OBVIOUS
    <3> QED
      BY <3>1, <3>2
  <2> QED
    BY <1>11, <1>14, <2>1, <2>2, <2>4 DEF Right, Whole, i
<1>15. CASE FirstWord.kind = "ok" /\ ~InstLong
  <2>1. i.fault = None /\ i.halves = <<one>> /\ Size(myPC) = 1
    BY <1>4, <1>11, <1>15 DEF FaultAt, Size
  <2>2. Len(i.halves) = 1 /\ i.halves[1] = one
    BY <2>1
  <2>3. After(myPC, 1 - 1) = myPC
    BY <1>1, AfterZero
  <2>4. \A k \in 1 .. 1 : HalfCurrent(i.halves[k], After(myPC, k - 1), live)
    <3>1. HalfCurrent(i.halves[1], After(myPC, 1 - 1), live)
      BY <1>4, <1>15, <2>2, <2>3
    <3>2. \A k \in 1 .. 1 : k = 1
      OBVIOUS
    <3> QED
      BY <3>1, <3>2
  <2> QED
    BY <1>11, <1>15, <2>1, <2>2, <2>4 DEF Right, Whole, i
<1> QED
  BY <1>12, <1>13, <1>14, <1>15

-----------------------------------------------------------------------------
\* Queues whose elements are consecutive.

\* Behind the first j elements of q comes d, then what follows it.
Requested(q, j, d) == \A k \in 1 .. Len(q) - j : q[k + j] = Ahead(d, k - 1)

LEMMA TailItems ==
    ASSUME NEW S, NEW q \in Seq(S), q # <<>>
    PROVE  /\ Tail(q) \in Seq(S) /\ Len(q) \in Nat \ {0} /\ Len(Tail(q)) = Len(q) - 1
           /\ Head(q) = q[1]
           /\ \A k \in 1 .. Len(Tail(q)) : Tail(q)[k] = q[k + 1]
OBVIOUS

LEMMA PushItems ==
    ASSUME NEW S, NEW q \in Seq(S), NEW e \in S
    PROVE  /\ q \o <<e>> \in Seq(S) /\ Len(q) \in Nat /\ Len(q \o <<e>>) = Len(q) + 1
           /\ \A k \in 1 .. Len(q) : (q \o <<e>>)[k] = q[k]
           /\ (q \o <<e>>)[Len(q) + 1] = e
OBVIOUS

LEMMA TailPlaces ==
    ASSUME NEW d \in Dword, NEW n \in Nat \ {0}
    PROVE  /\ Ahead(NextDword(d), n - 1) = Ahead(d, n)
           /\ \A k \in 1 .. n - 1 : k + 1 \in 1 .. n
                    /\ Ahead(NextDword(d), k - 1) = Ahead(d, (k + 1) - 1)
<1>1. \A j \in Nat : Ahead(NextDword(d), j) = Ahead(d, j + 1)
  BY AheadNext
<1>2. n - 1 \in Nat /\ (n - 1) + 1 = n
  OBVIOUS
<1>3. Ahead(NextDword(d), n - 1) = Ahead(d, n)
  BY <1>1, <1>2
<1>4. ASSUME NEW k \in 1 .. n - 1
      PROVE  k + 1 \in 1 .. n /\ Ahead(NextDword(d), k - 1) = Ahead(d, (k + 1) - 1)
  <2>1. k - 1 \in Nat /\ (k - 1) + 1 = (k + 1) - 1 /\ k + 1 \in 1 .. n
    OBVIOUS
  <2>2. Ahead(NextDword(d), k - 1) = Ahead(d, (k - 1) + 1)
    BY <1>1, <2>1
  <2> QED
    BY <2>1, <2>2
<1> QED
  BY <1>3, <1>4

LEMMA ReceivedTail ==
    ASSUME NEW now, NEW q \in Seq(Answer), q # <<>>, NEW d \in Dword, Received(q, d, now)
    PROVE  /\ Received(Tail(q), NextDword(d), now)
           /\ Ahead(NextDword(d), Len(Tail(q))) = Ahead(d, Len(q))
<1>1. /\ Len(q) \in Nat \ {0} /\ Len(Tail(q)) = Len(q) - 1
      /\ \A k \in 1 .. Len(Tail(q)) : Tail(q)[k] = q[k + 1]
  BY TailItems
<1>2. /\ Ahead(NextDword(d), Len(q) - 1) = Ahead(d, Len(q))
      /\ \A k \in 1 .. Len(q) - 1 : k + 1 \in 1 .. Len(q)
                    /\ Ahead(NextDword(d), k - 1) = Ahead(d, (k + 1) - 1)
  BY <1>1, TailPlaces
<1>3. ASSUME NEW k \in 1 .. Len(Tail(q))
      PROVE  Answers(Tail(q)[k], Ahead(NextDword(d), k - 1), now)
  <2>1. k + 1 \in 1 .. Len(q) /\ Ahead(NextDword(d), k - 1) = Ahead(d, (k + 1) - 1)
    BY <1>1, <1>2
  <2>2. Answers(q[k + 1], Ahead(d, (k + 1) - 1), now)
    BY <2>1 DEF Received
  <2> QED
    BY <1>1, <2>1, <2>2
<1> QED
  BY <1>1, <1>2, <1>3 DEF Received

LEMMA RequestedTail ==
    ASSUME NEW q \in Seq(Dword), q # <<>>, NEW d \in Dword, Requested(q, 0, d)
    PROVE  /\ Head(q) = d /\ Requested(Tail(q), 0, NextDword(d))
           /\ Ahead(NextDword(d), Len(Tail(q))) = Ahead(d, Len(q))
<1>1. /\ Len(q) \in Nat \ {0} /\ Len(Tail(q)) = Len(q) - 1 /\ Head(q) = q[1]
      /\ \A k \in 1 .. Len(Tail(q)) : Tail(q)[k] = q[k + 1]
  BY TailItems
<1>2. /\ Ahead(NextDword(d), Len(q) - 1) = Ahead(d, Len(q))
      /\ \A k \in 1 .. Len(q) - 1 : k + 1 \in 1 .. Len(q)
                    /\ Ahead(NextDword(d), k - 1) = Ahead(d, (k + 1) - 1)
  BY <1>1, TailPlaces
<1>3. \A k \in 1 .. Len(q) : q[k] = Ahead(d, k - 1)
  BY <1>1 DEF Requested
<1>4. ASSUME NEW k \in 1 .. Len(Tail(q)) - 0
      PROVE  Tail(q)[k + 0] = Ahead(NextDword(d), k - 1)
  <2>1. k + 1 \in 1 .. Len(q) /\ Ahead(NextDword(d), k - 1) = Ahead(d, (k + 1) - 1)
        /\ k + 0 = k
    BY <1>1, <1>2
  <2>2. q[k + 1] = Ahead(d, (k + 1) - 1)
    BY <1>3, <2>1
  <2>3. Tail(q)[k] = q[k + 1]
    BY <1>1
  <2> QED
    BY <2>1, <2>2, <2>3
<1>5. Head(q) = d
  <2>1. 1 \in 1 .. Len(q) /\ 1 - 1 = 0
    BY <1>1
  <2>2. q[1] = Ahead(d, 0)
    BY <1>3, <2>1
  <2> QED
    BY <1>1, <2>2, AheadZero
<1> QED
  BY <1>1, <1>2, <1>4, <1>5 DEF Requested

LEMMA RequestedDrop ==
    ASSUME NEW q \in Seq(Dword), NEW d \in Dword, NEW j \in Nat \ {0}, j <= Len(q),
           Requested(q, j, d)
    PROVE  /\ Requested(Tail(q), j - 1, d)
           /\ Len(Tail(q)) - (j - 1) = Len(q) - j
<1>1. /\ Len(q) \in Nat \ {0} /\ Len(Tail(q)) = Len(q) - 1
      /\ \A k \in 1 .. Len(Tail(q)) : Tail(q)[k] = q[k + 1]
  <2>1. q # <<>>
    BY LengthType, Single
  <2> QED
    BY <2>1, TailItems
<1>2. ASSUME NEW k \in 1 .. Len(Tail(q)) - (j - 1)
      PROVE  Tail(q)[k + (j - 1)] = Ahead(d, k - 1)
  <2>1. k \in 1 .. Len(q) - j /\ k + (j - 1) \in 1 .. Len(Tail(q)) /\ (k + (j - 1)) + 1 = k + j
    BY <1>1
  <2>2. Tail(q)[k + (j - 1)] = q[(k + (j - 1)) + 1]
    BY <1>1, <2>1
  <2> QED
    BY <2>1, <2>2 DEF Requested
<1> QED
  BY <1>1, <1>2 DEF Requested

LEMMA PushPlaces ==
    ASSUME NEW d \in Dword, NEW n \in Nat
    PROVE  /\ Ahead(d, n + 1) = NextDword(Ahead(d, n))
           /\ \A k \in 1 .. n + 1 : k \in 1 .. n \/ (k = n + 1 /\ k - 1 = n)
<1>1. Ahead(d, n + 1) = NextDword(Ahead(d, n))
  BY AheadNext
<1> QED
  BY <1>1

LEMMA ReceivedPush ==
    ASSUME NEW now, NEW q \in Seq(Answer), NEW d \in Dword, Received(q, d, now),
           NEW a \in Answer, Answers(a, Ahead(d, Len(q)), now)
    PROVE  /\ Received(q \o <<a>>, d, now)
           /\ Ahead(d, Len(q \o <<a>>)) = NextDword(Ahead(d, Len(q)))
<1>1. /\ Len(q) \in Nat /\ Len(q \o <<a>>) = Len(q) + 1
      /\ \A k \in 1 .. Len(q) : (q \o <<a>>)[k] = q[k]
      /\ (q \o <<a>>)[Len(q) + 1] = a
  BY PushItems
<1>2. /\ Ahead(d, Len(q) + 1) = NextDword(Ahead(d, Len(q)))
      /\ \A k \in 1 .. Len(q) + 1 : k \in 1 .. Len(q) \/ (k = Len(q) + 1 /\ k - 1 = Len(q))
  BY <1>1, PushPlaces
<1>3. \A k \in 1 .. Len(q) + 1 : Answers((q \o <<a>>)[k], Ahead(d, k - 1), now)
  BY <1>1, <1>2 DEF Received
<1> QED
  BY <1>1, <1>2, <1>3 DEF Received

LEMMA RequestedPush ==
    ASSUME NEW q \in Seq(Dword), NEW d \in Dword, NEW j \in Nat, j <= Len(q),
           Requested(q, j, d), NEW e, e = Ahead(d, Len(q) - j)
    PROVE  /\ Requested(q \o <<e>>, j, d)
           /\ NextDword(e) = Ahead(d, Len(q \o <<e>>) - j)
<1>1. e \in Dword
  BY AheadType, LengthType
<1>2. /\ Len(q) \in Nat /\ Len(q \o <<e>>) = Len(q) + 1
      /\ \A k \in 1 .. Len(q) : (q \o <<e>>)[k] = q[k]
      /\ (q \o <<e>>)[Len(q) + 1] = e
  BY <1>1, PushItems
<1>3. Len(q) - j \in Nat /\ Len(q \o <<e>>) - j = (Len(q) - j) + 1
  BY <1>2
<1> DEFINE n == Len(q) - j
<1>4. /\ Ahead(d, n + 1) = NextDword(Ahead(d, n))
      /\ \A k \in 1 .. n + 1 : k \in 1 .. n \/ (k = n + 1 /\ k - 1 = n)
  BY <1>3, PushPlaces
<1>5. ASSUME NEW k \in 1 .. n + 1
      PROVE  (q \o <<e>>)[k + j] = Ahead(d, k - 1)
  <2>1. CASE k \in 1 .. n
    <3>1. k + j \in 1 .. Len(q) /\ q[k + j] = Ahead(d, k - 1)
      BY <1>2, <2>1 DEF Requested
    <3> QED
      BY <1>2, <3>1
  <2>2. CASE k = n + 1 /\ k - 1 = n
    <3>1. k + j = Len(q) + 1
      BY <1>2, <2>2
    <3> QED
      BY <1>2, <2>2, <3>1
  <2> QED
    BY <1>4, <2>1, <2>2
<1> QED
  BY <1>3, <1>4, <1>5 DEF Requested

-----------------------------------------------------------------------------
\* Without fence.i what was current stays it.

LiveGrows == \A l \in Line : live[l] \subseteq live'[l]

LEMMA AnswersGrow ==
    ASSUME LiveGrows
    PROVE  /\ \A a, d : d \in Dword /\ Current(a, d, live) => Current(a, d, live')
           /\ \A a, d : d \in Dword /\ Answers(a, d, live) => Answers(a, d, live')
           /\ \A d, q : d \in Dword /\ Received(q, d, live) /\ Len(q) \in Nat => Received(q, d, live')
<1>1. ASSUME NEW a, NEW d, d \in Dword, Current(a, d, live)
      PROVE  Current(a, d, live')
  <2>1. LineOf(d) \in Line
    BY <1>1, Addresses
  <2> QED
    BY <1>1, <2>1 DEF Current, LiveGrows
<1>2. ASSUME NEW a, NEW d, d \in Dword, Answers(a, d, live)
      PROVE  Answers(a, d, live')
  <2>1. CASE a.kind = "ok"
    <3>1. Fetches(d) /\ Current(a, d, live)
      BY <1>2, <2>1 DEF Answers
    <3>2. Current(a, d, live')
      BY <1>1, <1>2, <3>1
    <3> QED
      BY <2>1, <3>1, <3>2 DEF Answers
  <2>2. CASE a.kind # "ok"
    BY <1>2, <2>2 DEF Answers
  <2> QED
    BY <2>1, <2>2
<1>3. ASSUME NEW d, NEW q, d \in Dword, Received(q, d, live), Len(q) \in Nat
      PROVE  Received(q, d, live')
  <2>1. ASSUME NEW k \in 1 .. Len(q)
        PROVE  Answers(q[k], Ahead(d, k - 1), live')
    <3>1. Answers(q[k], Ahead(d, k - 1), live) /\ k - 1 \in Int
      BY <1>3 DEF Received
    <3>2. Ahead(d, k - 1) \in Dword
      BY <1>3, <3>1, AheadType
    <3> QED
      BY <1>2, <3>1, <3>2
  <2> QED
    BY <2>1 DEF Received
<1> QED
  BY <1>1, <1>2, <1>3

LEMMA RightGrows ==
    ASSUME LiveGrows, NEW i \in Instruction, Right(i, live)
    PROVE  Right(i, live')
<1>1. i.pc \in HalfWord
  BY DEF Instruction
<1>2. ASSUME NEW x, NEW h \in HalfWord, HalfCurrent(x, h, live)
      PROVE  HalfCurrent(x, h, live')
  <2>1. LineOf(DwordOf(h)) \in Line
    BY Addresses
  <2> QED
    BY <1>2, <2>1 DEF HalfCurrent, LiveGrows
<1>3. CASE Whole(i, live)
  <2>1. ASSUME NEW n \in 1 .. Size(i.pc)
        PROVE  HalfCurrent(i.halves[n], After(i.pc, n - 1), live')
    <3>1. n - 1 \in Int
      BY DEF Size
    <3>2. After(i.pc, n - 1) \in HalfWord
      BY <1>1, <3>1, AfterType
    <3> QED
      BY <1>2, <1>3, <3>2 DEF Whole
  <2> QED
    BY <1>3, <2>1 DEF Right, Whole
<1>4. CASE FaultsAtOnce(i) \/ FaultsBehind(i)
  BY <1>4 DEF Right, FaultsAtOnce, FaultsBehind
<1> QED
  BY <1>3, <1>4 DEF Right

-----------------------------------------------------------------------------
\* ifu reads on: the head of the fifo moves by one double word when it is read.

LEMMA HeadMoves ==
    ASSUME IfuData, LowAnswers, FifoAnswers, LiveGrows, NEW rdata,
           FifoStep(FALSE, rdata), PcStep(None)
    PROVE  /\ HeadDword' = IF FifoRen THEN NextDword(HeadDword) ELSE HeadDword
           /\ LowAnswers'
<1> DEFINE n == IF InstLong THEN 2 ELSE 1
           d == DwordOf(myPC)
<1>1. /\ low' = IF FifoRen THEN Head(fifo) ELSE low
      /\ myPC' = IF CanChange THEN After(myPC, n) ELSE myPC
      /\ Status' = myPC' % 4 /\ n \in {1, 2}
  BY DEF FifoStep, PcStep, Status
<1>2. myPC \in HalfWord /\ Status \in 0 .. 3 /\ d \in Dword /\ Status = myPC % 4
  BY HalfParts DEF IfuData, Status
<1>3. fifo # <<>> => /\ Head(fifo) # None /\ HeadDword \in Dword
                     /\ Answers(Head(fifo), HeadDword, live')
  BY HeadAnswers, AnswersGrow, NoneApart
<1>4. low # None /\ Status = 3 => Answers(low, d, live')
  BY <1>2, AnswersGrow DEF LowAnswers
<1>5. CASE AfterJump
  <2>1. FifoRen /\ ~CanChange /\ Status = 3 /\ low = None /\ fifo # <<>>
    BY <1>5 DEF FifoRen, AfterJump, CanChange
  <2>2. HeadDword = d /\ low' = Head(fifo) /\ myPC' = myPC /\ Status' = 3
    BY <1>1, <1>2, <2>1 DEF HeadDword
  <2>3. HeadDword' = NextDword(d)
    BY <1>3, <2>1, <2>2 DEF HeadDword
  <2>4. LowAnswers'
    BY <1>3, <2>1, <2>2 DEF LowAnswers
  <2> QED
    BY <2>1, <2>2, <2>3, <2>4
<1>6. CASE ~AfterJump /\ ~CanChange
  <2>1. ~FifoRen
    BY <1>6 DEF FifoRen
  <2>2. low' = low /\ myPC' = myPC /\ Status' = Status
    BY <1>1, <1>2, <1>6, <2>1
  <2>3. HeadDword' = HeadDword
    BY <2>2 DEF HeadDword
  <2>4. LowAnswers'
    BY <1>4, <2>2 DEF LowAnswers
  <2> QED
    BY <2>1, <2>3, <2>4
<1>7. CASE CanChange
  <2>0. ~AfterJump /\ fifo # <<>> /\ (Status = 3 => low # None) /\ myPC' = After(myPC, n)
    BY <1>1, <1>7 DEF AfterJump, CanChange
  <2>r. FifoRen <=> ((Status = 1 /\ n = 2) \/ Status = 2)
    BY <1>7, <2>0 DEF FifoRen
  <2> HIDE DEF n
  <2>1. CASE Status + n < 4
    <3>1. DwordOf(myPC') = d /\ Status' = Status + n
      BY <1>1, <1>2, <2>0, <2>1, AfterInside
    <3>2. HeadDword = d
      BY <1>1, <1>2, <2>1 DEF HeadDword
    <3>3. CASE FifoRen
      <4>1. Status' = 3 /\ low' = Head(fifo) /\ low' # None
        BY <1>1, <1>2, <1>3, <2>0, <2>r, <2>1, <3>1, <3>3
      <4>2. HeadDword' = NextDword(d)
        BY <3>1, <4>1 DEF HeadDword
      <4>3. LowAnswers'
        BY <1>3, <2>0, <3>1, <3>2, <4>1 DEF LowAnswers
      <4> QED
        BY <3>2, <3>3, <4>2, <4>3
    <3>4. CASE ~FifoRen
      <4>1. Status' # 3
        BY <1>1, <1>2, <2>r, <2>1, <3>1, <3>4
      <4> QED
        BY <3>1, <3>2, <3>4, <4>1 DEF HeadDword, LowAnswers
    <3> QED
      BY <3>3, <3>4
  <2>2. CASE Status + n >= 4
    <3>1. DwordOf(myPC') = NextDword(d) /\ Status' = Status + n - 4
      BY <1>1, <1>2, <2>0, <2>2, AfterBeyond
    <3>2. Status' # 3
      BY <1>1, <1>2, <2>2, <3>1
    <3>3. HeadDword' = NextDword(d) /\ LowAnswers'
      BY <3>1, <3>2 DEF HeadDword, LowAnswers
    <3>4. CASE Status = 3
      BY <2>0, <2>r, <3>3, <3>4 DEF HeadDword
    <3>5. CASE Status # 3
      <4>1. FifoRen
        BY <1>1, <1>2, <2>2, <2>r, <3>5
      <4> QED
        BY <3>3, <3>5, <4>1 DEF HeadDword
    <3> QED
      BY <3>3, <3>4, <3>5
  <2> QED
    BY <1>1, <1>2, <2>1, <2>2
<1> QED
  BY <1>5, <1>6, <1>7

\* The double word of the answer that comes next.
NextAnswer == Ahead(HeadDword, Len(fifo))

LEMMA FifoReceives ==
    ASSUME IfuData, LowAnswers, FifoAnswers, LiveGrows, NEW rdata \in Answer \cup {None},
           FifoStep(FALSE, rdata), PcStep(None),
           rdata # None /\ invalidCnt = 0 => Answers(rdata, NextAnswer, live)
    PROVE  /\ LowAnswers' /\ FifoAnswers'
           /\ NextAnswer \in Dword
           /\ NextAnswer' = IF rdata # None /\ invalidCnt = 0
                            THEN NextDword(NextAnswer) ELSE NextAnswer
<1> DEFINE d == HeadDword
           e == HeadDword'
           kept == IF FifoRen THEN Tail(fifo) ELSE fifo
           arrives == rdata # None /\ invalidCnt = 0
<1>1. fifo \in Seq(Answer) /\ Len(fifo) \in Nat /\ d \in Dword
  BY Addresses DEF IfuData, HeadDword
<1>2. (FifoRen => fifo # <<>>) /\ e = (IF FifoRen THEN NextDword(d) ELSE d) /\ LowAnswers'
  BY HeadMoves, FifoRenType
<1>3. fifo' = kept \o (IF arrives THEN <<rdata>> ELSE <<>>)
  BY DEF FifoStep
<1>4. NextAnswer \in Dword /\ NextAnswer = Ahead(d, Len(fifo)) /\ NextAnswer' = Ahead(e, Len(fifo'))
  BY <1>1, AheadType DEF NextAnswer
<1>5. Received(fifo, d, live')
  <2>1. Received(fifo, d, live)
    BY DEF FifoAnswers
  <2> HIDE DEF d
  <2> QED
    BY <1>1, <2>1, AnswersGrow
<1>6. arrives => Answers(rdata, NextAnswer, live')
  BY <1>4, AnswersGrow
<1> HIDE DEF d, e
<1>7. /\ kept \in Seq(Answer) /\ e \in Dword /\ Received(kept, e, live')
      /\ Ahead(e, Len(kept)) = NextAnswer
  <2>1. CASE FifoRen
    <3>1. Tail(fifo) \in Seq(Answer) /\ NextDword(d) \in Dword
      BY <1>1, <1>2, <2>1, HeadTail, Addresses
    <3>2. Received(Tail(fifo), NextDword(d), live')
          /\ Ahead(NextDword(d), Len(Tail(fifo))) = Ahead(d, Len(fifo))
      BY <1>1, <1>2, <1>5, <2>1, ReceivedTail
    <3> QED
      BY <1>2, <1>4, <2>1, <3>1, <3>2
  <2>2. CASE ~FifoRen
    BY <1>1, <1>2, <1>4, <1>5, <2>2
  <2> QED
    BY <2>1, <2>2
<1> HIDE DEF kept
<1>8. CASE arrives
  <2>1. fifo' = kept \o <<rdata>> /\ rdata \in Answer
    BY <1>3, <1>8
  <2>2. Answers(rdata, Ahead(e, Len(kept)), live')
    BY <1>6, <1>7, <1>8
  <2>3. Received(kept \o <<rdata>>, e, live')
        /\ Ahead(e, Len(kept \o <<rdata>>)) = NextDword(Ahead(e, Len(kept)))
    BY <1>7, <2>1, <2>2, ReceivedPush
  <2>4. Received(fifo', e, live') /\ NextAnswer' = NextDword(NextAnswer)
    BY <1>4, <1>7, <2>1, <2>3
  <2> QED
    BY <1>2, <1>4, <1>8, <2>4 DEF FifoAnswers, e
<1>9. CASE ~arrives
  <2>1. fifo' = kept
    BY <1>3, <1>7, <1>9
  <2>2. Received(fifo', e, live') /\ NextAnswer' = NextAnswer
    BY <1>4, <1>7, <2>1
  <2> QED
    BY <1>2, <1>4, <1>9, <2>2 DEF FifoAnswers, e
<1> QED
  BY <1>8, <1>9

-----------------------------------------------------------------------------
\* The two registers in front of decode hold consecutive instructions.

Behind(i) == After(i.pc, Size(i.pc))

Buffered ==
    /\ buf[sel] = None => buf[Other(sel)] = None
    /\ \A s \in {1, 2} : buf[s] # None => Right(buf[s], live)
    /\ buf[sel] # None /\ buf[sel].fault = None =>
          Behind(buf[sel]) = IF buf[Other(sel)] # None THEN buf[Other(sel)].pc ELSE myPC
    /\ buf[Other(sel)] # None /\ buf[Other(sel)].fault = None =>
          Behind(buf[Other(sel)]) = myPC

\* The instruction decode waits for unless a jump must come first.
Awaited == IF buf[sel] # None THEN buf[sel].pc ELSE myPC

LEMMA BuffersMove ==
    ASSUME IfuData, LowAnswers, FifoAnswers, Buffered, LiveGrows,
           NEW ready \in BOOLEAN, ready => InstValid,
           BufferStep(FALSE, ready), PcStep(None)
    PROVE  /\ Buffered'
           /\ Awaited' = IF ~ready THEN Awaited
                         ELSE IF buf[sel].fault = None THEN Behind(buf[sel]) ELSE Awaited'
<1> DEFINE s == sel
           t == Other(sel)
           i == InstToIdu
<1>1. /\ s \in {1, 2} /\ t \in {1, 2} /\ s # t /\ {1, 2} = {s, t} /\ Other(t) = s
      /\ buf \in [{1, 2} -> Instruction \cup {None}]
      /\ buf' \in [{1, 2} -> Instruction \cup {None}]
  <2>1. CanChange => i \in Instruction
    BY CutType
  <2>2. buf \in [{1, 2} -> Instruction \cup {None}] /\ sel \in {1, 2}
    BY DEF IfuData
  <2>3. buf' \in [{1, 2} -> Instruction \cup {None}]
    <3> HIDE DEF i
    <3> QED
      BY <2>1, <2>2 DEF BufferStep, FillOf, i
  <2> QED
    BY <2>2, <2>3 DEF Other
<1>2. /\ buf'[s] = IF buf[s] = None THEN (IF CanChange THEN i ELSE None)
                   ELSE IF ready THEN None ELSE buf[s]
      /\ buf'[t] = IF buf[t] = None /\ CanChange /\ buf[s] # None THEN i ELSE buf[t]
      /\ sel' = IF ready THEN t ELSE s
  <2>1. ready => buf[s] # None
    BY DEF InstValid
  <2> HIDE DEF i
  <2>2. buf'[s] = IF buf[s] = None \/ ready THEN (IF FillOf(s) THEN i ELSE None) ELSE buf[s]
    BY <1>1 DEF BufferStep, i
  <2>3. buf'[t] = IF buf[t] = None THEN (IF FillOf(t) THEN i ELSE None) ELSE buf[t]
    BY <1>1 DEF BufferStep, i
  <2>4. sel' = IF ready THEN t ELSE s
    BY <2>1 DEF BufferStep, InstValid
  <2>5. (FillOf(s) <=> CanChange /\ buf[s] = None) /\ (FillOf(t) <=> CanChange /\ buf[s] # None)
    BY <1>1 DEF FillOf
  <2> HIDE DEF s, t
  <2> QED
    BY <2>1, <2>2, <2>3, <2>4, <2>5
<1>3. CanChange => /\ i.pc = myPC /\ Right(i, live) /\ i \in Instruction /\ i # None
                   /\ i.fault = None => Behind(i) = myPC'
                   /\ (buf[s] = None \/ buf[t] = None)
  <2> SUFFICES ASSUME CanChange PROVE /\ i.pc = myPC /\ Right(i, live) /\ i \in Instruction
                   /\ i # None /\ (i.fault = None => Behind(i) = myPC')
                   /\ (buf[s] = None \/ buf[t] = None)
    OBVIOUS
  <2>1. /\ i.pc = myPC /\ Right(i, live) /\ i \in Instruction
        /\ i.fault = None => Size(myPC) = IF InstLong THEN 2 ELSE 1
    BY CutRight, CutType
  <2>2. myPC' = After(myPC, IF InstLong THEN 2 ELSE 1)
    BY DEF PcStep
  <2>3. buf[1] = None \/ buf[2] = None
    BY DEF CanChange, CanCover
  <2>4. i # None
    BY NoneAssumption, <2>1
  <2> HIDE DEF i, s, t
  <2> QED
    BY <1>1, <2>1, <2>2, <2>3, <2>4 DEF Behind
<1>4. ~CanChange => myPC' = myPC
  BY DEF PcStep
<1>5. /\ buf[s] = None => buf[t] = None
      /\ \A r \in {1, 2} : buf[r] # None => Right(buf[r], live)
      /\ buf[s] # None /\ buf[s].fault = None =>
            Behind(buf[s]) = IF buf[t] # None THEN buf[t].pc ELSE myPC
      /\ buf[t] # None /\ buf[t].fault = None => Behind(buf[t]) = myPC
  BY DEF Buffered
<1>6. \A r \in {1, 2} : buf'[r] # None => Right(buf'[r], live')
  <2>1. ASSUME NEW r \in {1, 2}, buf'[r] # None
        PROVE  Right(buf'[r], live)
    <3>1. (CanChange /\ buf'[r] = i) \/ buf'[r] = buf[r]
      <4> HIDE DEF i, s, t
      <4> QED
        BY <1>1, <1>2, <2>1
    <3> HIDE DEF i
    <3> QED
      BY <1>3, <1>5, <2>1, <3>1
  <2> QED
    BY <1>1, <2>1, RightGrows
<1> HIDE DEF i, s, t
<1>7. CASE ready
  <2>1. buf[s] # None /\ sel' = t /\ Other(sel') = s /\ buf'[s] = None
    BY <1>1, <1>2, <1>7 DEF InstValid, s
  <2>2. CASE buf[t] # None
    <3>1. buf'[t] = buf[t] /\ myPC' = myPC
      BY <1>2, <1>3, <1>4, <2>1, <2>2
    <3>2. Buffered'
      BY <1>1, <1>5, <1>6, <2>1, <2>2, <3>1 DEF Buffered
    <3>3. buf[sel].fault = None => Awaited' = Behind(buf[sel])
      BY <1>5, <2>1, <2>2, <3>1 DEF Awaited, s
    <3> QED
      BY <1>7, <3>2, <3>3
  <2>3. CASE buf[t] = None /\ CanChange
    <3>1. buf'[t] = i
      BY <1>2, <2>1, <2>3
    <3>2. Buffered'
      BY <1>1, <1>3, <1>6, <2>1, <2>3, <3>1 DEF Buffered
    <3>3. buf[sel].fault = None => Awaited' = Behind(buf[sel])
      BY <1>3, <1>5, <2>1, <2>3, <3>1 DEF Awaited, s
    <3> QED
      BY <1>7, <3>2, <3>3
  <2>4. CASE buf[t] = None /\ ~CanChange
    <3>1. buf'[t] = None /\ myPC' = myPC
      BY <1>2, <1>4, <2>4
    <3>2. Buffered'
      BY <1>1, <1>6, <2>1, <3>1 DEF Buffered
    <3>3. buf[sel].fault = None => Awaited' = Behind(buf[sel])
      BY <1>5, <2>1, <2>4, <3>1 DEF Awaited, s
    <3> QED
      BY <1>7, <3>2, <3>3
  <2> QED
    BY <2>2, <2>3, <2>4
<1>8. CASE ~ready
  <2>1. sel' = s /\ Other(sel') = t /\ sel = s
    BY <1>1, <1>2, <1>8 DEF s, t
  <2>2. CASE buf[s] = None /\ CanChange
    <3>1. buf'[s] = i /\ buf'[t] = None
      BY <1>2, <1>5, <2>2
    <3>2. Buffered'
      BY <1>1, <1>3, <1>6, <2>1, <2>2, <3>1 DEF Buffered
    <3>3. Awaited' = Awaited
      BY <1>3, <2>1, <2>2, <3>1 DEF Awaited
    <3> QED
      BY <1>8, <3>2, <3>3
  <2>3. CASE buf[s] # None /\ CanChange
    <3>1. buf'[s] = buf[s] /\ buf'[t] = i /\ buf[t] = None
      BY <1>2, <1>3, <1>8, <2>3
    <3>2. Buffered'
      BY <1>1, <1>3, <1>5, <1>6, <2>1, <2>3, <3>1 DEF Buffered
    <3>3. Awaited' = Awaited
      BY <2>1, <2>3, <3>1 DEF Awaited
    <3> QED
      BY <1>8, <3>2, <3>3
  <2>4. CASE ~CanChange
    <3>1. buf'[s] = buf[s] /\ buf'[t] = buf[t] /\ myPC' = myPC
      BY <1>2, <1>4, <1>8, <2>4
    <3>2. Buffered'
      BY <1>1, <1>5, <1>6, <2>1, <3>1 DEF Buffered
    <3>3. Awaited' = Awaited
      BY <2>1, <3>1 DEF Awaited
    <3> QED
      BY <1>8, <3>2, <3>3
  <2> QED
    BY <2>2, <2>3, <2>4
<1> QED
  BY <1>7, <1>8

-----------------------------------------------------------------------------
\* The two queues of icache, each with the register in front of it: a request
\* and its translation leave together.

Front(r) == IF r = None THEN <<>> ELSE <<r>>
StageQ == Front(stage) \o rch
PaddrQ == Front(paddr) \o mmu
Lockstep == StageQ = PaddrQ

LEMMA Joined ==
    ASSUME NEW S, NEW q \in Seq(S), NEW new \in Seq(S), NEW e \in S
    PROVE  /\ <<>> \o q = q /\ <<>> \o new = new
           /\ <<e>> \o q \in Seq(S) /\ Tail(<<e>> \o q) = q /\ Head(<<e>> \o q) = e
           /\ <<e>> \o q # <<>>
           /\ (<<e>> \o q) \o new = <<e>> \o (q \o new)
           /\ Len(<<e>> \o q) = 1 + Len(q) /\ (<<e>> \o q)[1] = e
           /\ \A k \in 1 .. Len(q) : (<<e>> \o q)[k + 1] = q[k]
<1>1. /\ <<e>> \in Seq(S) /\ Len(<<e>>) = 1 /\ <<e>> # <<>> /\ <<e>>[1] = e
  OBVIOUS
<1>2. <<>> \o q = q /\ <<>> \o new = new
  BY ConcatEmptySeq
<1>3. (<<e>> \o q) \o new = <<e>> \o (q \o new)
  BY <1>1, ConcatAssociative
<1>4. /\ <<e>> \o q \in Seq(S) /\ Len(<<e>> \o q) = 1 + Len(q) /\ Len(q) \in Nat
      /\ (<<e>> \o q)[1] = e
      /\ \A k \in 1 .. Len(q) : (<<e>> \o q)[k + 1] = q[k]
  <2>1. Len(q) \in Nat
    BY LengthType
  <2>2. /\ <<e>> \o q \in Seq(S) /\ Len(<<e>> \o q) = Len(<<e>>) + Len(q)
        /\ \A i \in 1 .. Len(<<e>>) + Len(q) : (<<e>> \o q)[i] =
              IF i <= Len(<<e>>) THEN <<e>>[i] ELSE q[i - Len(<<e>>)]
    BY <1>1, ConcatProperties
  <2>3. 1 \in 1 .. 1 + Len(q) /\ 1 <= 1
    BY <2>1
  <2>4. \A k \in 1 .. Len(q) : k + 1 \in 1 .. 1 + Len(q) /\ ~(k + 1 <= 1) /\ (k + 1) - 1 = k
    BY <2>1
  <2> QED
    BY <1>1, <2>1, <2>2, <2>3, <2>4
<1>5. <<e>> \o q # <<>> /\ Head(<<e>> \o q) = e /\ Tail(<<e>> \o q) = q
  <2> DEFINE s == <<e>> \o q
  <2>1. s \in Seq(S) /\ Len(s) = 1 + Len(q) /\ Len(q) \in Nat /\ s[1] = e
        /\ \A k \in 1 .. Len(q) : s[k + 1] = q[k]
    BY <1>4
  <2> HIDE DEF s
  <2>2. s # <<>>
    BY <2>1, Single
  <2>3. Tail(s) \in Seq(S) /\ Len(Tail(s)) = Len(q) /\ Head(s) = s[1]
        /\ \A k \in 1 .. Len(Tail(s)) : Tail(s)[k] = s[k + 1]
    BY <2>1, <2>2, TailItems
  <2>4. Tail(s) = q
    BY <2>1, <2>3, SeqEqual
  <2> QED
    BY <2>1, <2>2, <2>3, <2>4 DEF s
<1> QED
  BY <1>2, <1>3, <1>4, <1>5

LEMMA Rejoined ==
    ASSUME NEW S, NEW q \in Seq(S), NEW new \in Seq(S), q # <<>>
    PROVE  <<Head(q)>> \o (Tail(q) \o new) = q \o new
<1>1. Head(q) \in S /\ Tail(q) \in Seq(S) /\ <<Head(q)>> \in Seq(S)
  BY HeadTail
<1>2. <<Head(q)>> \o Tail(q) = q
  <2> DEFINE s == <<Head(q)>> \o Tail(q)
  <2>1. /\ s \in Seq(S) /\ Len(s) = 1 + Len(Tail(q)) /\ s[1] = Head(q)
        /\ \A k \in 1 .. Len(Tail(q)) : s[k + 1] = Tail(q)[k]
    BY <1>1, Joined
  <2> HIDE DEF s
  <2>2. /\ Len(s) = Len(q) /\ s[1] = q[1]
        /\ \A k \in 1 .. Len(q) - 1 : s[k + 1] = q[k + 1]
    <3>1. /\ Len(q) \in Nat \ {0} /\ Len(Tail(q)) = Len(q) - 1 /\ Head(q) = q[1]
          /\ \A k \in 1 .. Len(Tail(q)) : Tail(q)[k] = q[k + 1]
      BY TailItems
    <3> QED
      BY <2>1, <3>1
  <2>3. \A k \in 1 .. Len(s) : s[k] = q[k]
    <3>1. ASSUME NEW k \in 1 .. Len(s), k # 1
          PROVE  s[k] = q[k]
      <4>1. k - 1 \in 1 .. Len(q) - 1 /\ (k - 1) + 1 = k
        BY <2>2, <3>1, LengthType
      <4> QED
        BY <2>2, <4>1
    <3> QED
      BY <2>2, <3>1
  <2>4. s = q
    BY <2>1, <2>2, <2>3, SeqEqual
  <2> QED
    BY <2>4 DEF s
<1>3. (<<Head(q)>> \o Tail(q)) \o new = <<Head(q)>> \o (Tail(q) \o new)
  BY <1>1, ConcatAssociative
<1> QED
  BY <1>2, <1>3

LEMMA FrontQueue ==
    ASSUME NEW q \in Seq(Dword), NEW new \in Seq(Dword)
    PROVE  /\ Front(None) \o q = q /\ Front(None) \o (q \o new) = q \o new
           /\ q # <<>> => Front(Head(q)) \o (Tail(q) \o new) = q \o new
           /\ \A r \in Dword : /\ Tail(Front(r) \o q) = q
                               /\ Front(r) \o (q \o new) = (Front(r) \o q) \o new
<1>1. Front(None) = <<>> /\ q \o new \in Seq(Dword)
  BY Concatenated DEF Front
<1>2. Front(None) \o q = q /\ Front(None) \o (q \o new) = q \o new
  BY <1>1, ConcatEmptySeq
<1>3. q # <<>> => Front(Head(q)) \o (Tail(q) \o new) = q \o new
  <2> HAVE q # <<>>
  <2>1. Front(Head(q)) = <<Head(q)>>
    BY HeadTail, NoneApart DEF Front
  <2> QED
    BY <2>1, Rejoined
<1>4. ASSUME NEW r \in Dword
      PROVE  /\ Tail(Front(r) \o q) = q
             /\ Front(r) \o (q \o new) = (Front(r) \o q) \o new
  <2>1. Front(r) = <<r>>
    BY NoneApart DEF Front
  <2>2. Tail(<<r>> \o q) = q /\ <<r>> \o (q \o new) = (<<r>> \o q) \o new
    BY Joined
  <2> QED
    BY <2>1, <2>2
<1> QED
  BY <1>2, <1>3, <1>4

LEMMA QueuesMove ==
    ASSUME IcacheTypeOK, Refill, NEW immuHas \in BOOLEAN, NEW new \in Seq(Dword),
           StageStep(FALSE, immuHas), QueueStep(FALSE, new, immuHas)
    PROVE  /\ StageQ \in Seq(Dword)
           /\ OutWen => StageQ # <<>> /\ Head(StageQ) = stage /\ Head(PaddrQ) = paddr
           /\ StageQ' = (IF OutWen THEN Tail(StageQ) ELSE StageQ) \o new
           /\ PaddrQ' = (IF OutWen THEN Tail(PaddrQ) ELSE PaddrQ) \o new
<1>1. /\ rch \in Seq(Dword) /\ mmu \in Seq(Dword)
      /\ stage \in Dword \cup {None} /\ paddr \in Dword \cup {None}
  BY DEF IcacheTypeOK
<1>2. OutWen => stage # None /\ paddr # None
  BY OutWenStaged
<1>3. OutWen \in BOOLEAN
  BY DEF OutWen, Translated, Miss
<1>4. StageQ \in Seq(Dword)
  <2>1. CASE stage = None
    BY <1>1, <2>1, Joined DEF StageQ, Front
  <2>2. CASE stage # None
    <3>1. stage \in Dword
      BY <1>1, <2>2
    <3> QED
      BY <1>1, <2>2, <3>1, Joined DEF StageQ, Front
  <2> QED
    BY <2>1, <2>2
<1>5. OutWen => StageQ # <<>> /\ Head(StageQ) = stage /\ Head(PaddrQ) = paddr
  <2> HAVE OutWen
  <2>1. stage \in Dword /\ paddr \in Dword
    BY <1>1, <1>2
  <2>2. <<stage>> \o rch # <<>> /\ Head(<<stage>> \o rch) = stage
        /\ Head(<<paddr>> \o mmu) = paddr
    BY <1>1, <2>1, Joined
  <2> QED
    BY <1>2, <2>2 DEF StageQ, PaddrQ, Front
<1>6. StageQ' = (IF OutWen THEN Tail(StageQ) ELSE StageQ) \o new
  <2>1. /\ RchRen \in BOOLEAN /\ (RchRen => rch # <<>> /\ (OutWen \/ stage = None))
        /\ stage' = IF stage = None \/ OutWen THEN (IF RchRen THEN Head(rch) ELSE None) ELSE stage
        /\ rch' = Pushed(rch, RchRen, new)
    BY DEF RchRen, StageStep, QueueStep
  <2>2. Front(stage') \o Pushed(rch, RchRen, new)
          = (IF OutWen THEN Tail(Front(stage) \o rch) ELSE Front(stage) \o rch) \o new
    <3>1. OutWen => Tail(Front(stage) \o rch) = rch
      BY <1>1, <1>2, FrontQueue
    <3>2. CASE RchRen
      <4>1. stage' = Head(rch) /\ Pushed(rch, RchRen, new) = Tail(rch) \o new
        BY <2>1, <3>2 DEF Pushed
      <4>2. Front(Head(rch)) \o (Tail(rch) \o new) = rch \o new
        BY <1>1, <2>1, <3>2, FrontQueue
      <4>3. stage = None => Front(stage) \o rch = rch
        BY <1>1, FrontQueue
      <4> QED
        BY <2>1, <3>1, <3>2, <4>1, <4>2, <4>3
    <3>3. CASE ~RchRen /\ (stage = None \/ OutWen)
      <4>1. stage' = None /\ Pushed(rch, RchRen, new) = rch \o new
        BY <2>1, <3>3 DEF Pushed
      <4>2. Front(None) \o (rch \o new) = rch \o new /\ Front(None) \o rch = rch
        BY <1>1, FrontQueue
      <4> QED
        BY <3>1, <3>3, <4>1, <4>2
    <3>4. CASE ~RchRen /\ stage # None /\ ~OutWen
      <4>1. stage' = stage /\ Pushed(rch, RchRen, new) = rch \o new /\ stage \in Dword
        BY <1>1, <2>1, <3>4 DEF Pushed
      <4>2. Front(stage) \o (rch \o new) = (Front(stage) \o rch) \o new
        BY <1>1, <4>1, FrontQueue
      <4> QED
        BY <3>4, <4>1, <4>2
    <3> QED
      BY <3>2, <3>3, <3>4
  <2>3. StageQ' = Front(stage') \o Pushed(rch, RchRen, new)
    BY <2>1 DEF StageQ, Front
  <2> QED
    BY <2>2, <2>3 DEF StageQ
<1>7. PaddrQ' = (IF OutWen THEN Tail(PaddrQ) ELSE PaddrQ) \o new
  <2> DEFINE ren == MmuRen /\ immuHas
  <2>1. /\ ren \in BOOLEAN /\ (ren => mmu # <<>> /\ (OutWen \/ paddr = None))
        /\ paddr' = IF paddr = None \/ OutWen THEN (IF ren THEN Head(mmu) ELSE None) ELSE paddr
        /\ mmu' = Pushed(mmu, ren, new)
    BY DEF MmuRen, StageStep, QueueStep
  <2> HIDE DEF ren
  <2>2. Front(paddr') \o Pushed(mmu, ren, new)
          = (IF OutWen THEN Tail(Front(paddr) \o mmu) ELSE Front(paddr) \o mmu) \o new
    <3>1. OutWen => Tail(Front(paddr) \o mmu) = mmu
      BY <1>1, <1>2, FrontQueue
    <3>2. CASE ren
      <4>1. paddr' = Head(mmu) /\ Pushed(mmu, ren, new) = Tail(mmu) \o new
        BY <2>1, <3>2 DEF Pushed
      <4>2. Front(Head(mmu)) \o (Tail(mmu) \o new) = mmu \o new
        BY <1>1, <2>1, <3>2, FrontQueue
      <4>3. paddr = None => Front(paddr) \o mmu = mmu
        BY <1>1, FrontQueue
      <4> QED
        BY <2>1, <3>1, <3>2, <4>1, <4>2, <4>3
    <3>3. CASE ~ren /\ (paddr = None \/ OutWen)
      <4>1. paddr' = None /\ Pushed(mmu, ren, new) = mmu \o new
        BY <2>1, <3>3 DEF Pushed
      <4>2. Front(None) \o (mmu \o new) = mmu \o new /\ Front(None) \o mmu = mmu
        BY <1>1, FrontQueue
      <4> QED
        BY <3>1, <3>3, <4>1, <4>2
    <3>4. CASE ~ren /\ paddr # None /\ ~OutWen
      <4>1. paddr' = paddr /\ Pushed(mmu, ren, new) = mmu \o new /\ paddr \in Dword
        BY <1>1, <2>1, <3>4 DEF Pushed
      <4>2. Front(paddr) \o (mmu \o new) = (Front(paddr) \o mmu) \o new
        BY <1>1, <4>1, FrontQueue
      <4> QED
        BY <3>4, <4>1, <4>2
    <3> QED
      BY <3>2, <3>3, <3>4
  <2>3. PaddrQ' = Front(paddr') \o Pushed(mmu, ren, new)
    BY <2>1 DEF PaddrQ, Front
  <2> QED
    BY <2>2, <2>3 DEF PaddrQ
<1> QED
  BY <1>4, <1>5, <1>6, <1>7

-----------------------------------------------------------------------------
\* The arrays: a valid row is a whole line that can be fetched, current, and the
\* only one of its line in its set.

RowGood(r, now) ==
    /\ Fetches(2 * r.line)
    /\ \A h \in {1, 2} : Current(r.data[h], 2 * r.line + h - 1, now)

RowsGood == \A i \in Index, w \in Way : rows[i][w] # None => RowGood(rows[i][w], live)

RowsOnce ==
    \A i \in Index : \A w, v \in Way :
        rows[i][w] # None /\ rows[i][v] # None /\ rows[i][w].line = rows[i][v].line => w = v

\* The rows the stage compares are those of its set.
StageRows ==
    stage # None /\ fsm # "SEND_DATA" => RowsUsed = rows[IndexOf(LineOf(stage))]

\* The refill: the burst is the one of the line in the stage, and resp tells
\* whether a beat of it failed.
BadLine == LineOf(paddr) \in BusBad
BeatGood(h, now) == Current(wdata[h], 2 * LineOf(paddr) + h - 1, now)

Refilled ==
    /\ fsm \in {"WAIT_RVALID0", "DATA0_ERROR", "WAIT_RVALID1"} =>
          Head(bus).line = LineOf(paddr)
    /\ fsm = "WAIT_RVALID1" => BeatGood(1, live) /\ ~Head(bus).err
    /\ fsm = "DATA0_ERROR" => BadLine /\ resp
    /\ fsm = "WRITE_CACHE" => ~BadLine /\ BeatGood(1, live) /\ BeatGood(2, live)
    /\ fsm = "SEND_DATA" => resp = BadLine
    /\ fsm = "SEND_DATA" /\ ~resp => BeatGood(1, live) /\ BeatGood(2, live)
    /\ fsm \notin {"DATA0_ERROR", "SEND_DATA"} => ~resp

CacheGood == Lockstep /\ RowsGood /\ RowsOnce /\ StageRows /\ Refilled
MemLive == \A l \in Line : mem[l] \in live[l]

LEMMA DwordParts ==
    ASSUME NEW d \in Dword
    PROVE  /\ d \in Int /\ LineOf(d) \in Line /\ d % 2 \in {0, 1}
           /\ 2 * LineOf(d) + (d % 2) = d
<1>1. d \in Int
  BY Addresses DEF Dword
<1>2. d % 2 \in 0 .. 1 /\ d = 2 * (d \div 2) + (d % 2)
  BY <1>1, Division
<1>3. \A x \in 0 .. 1 : x \in {0, 1}
  OBVIOUS
<1> QED
  BY <1>1, <1>2, <1>3, Addresses DEF LineOf

LEMMA LineParts ==
    ASSUME NEW l \in Line
    PROVE  LineOf(2 * l) = l /\ LineOf(2 * l + 1) = l
<1>1. l \in Int
  BY Addresses DEF Line
<1> QED
  BY <1>1 DEF LineOf

LEMMA StagePaddr ==
    ASSUME IcacheTypeOK, Lockstep, stage # None, paddr # None
    PROVE  paddr = stage /\ stage \in Dword
<1>1. stage \in Dword /\ paddr \in Dword /\ rch \in Seq(Dword) /\ mmu \in Seq(Dword)
  BY DEF IcacheTypeOK
<1>2. Head(<<stage>> \o rch) = stage /\ Head(<<paddr>> \o mmu) = paddr
  BY <1>1, Joined
<1>3. <<stage>> \o rch = <<paddr>> \o mmu
  BY DEF Lockstep, StageQ, PaddrQ, Front
<1> QED
  BY <1>1, <1>2, <1>3

LEMMA LineFetches ==
    ASSUME NEW d \in Dword
    PROVE  Fetches(2 * LineOf(d)) = Fetches(d)
BY DwordParts, LineParts DEF Fetches

\* What icache answers is right for the request in the stage.
LEMMA OutAnswers ==
    ASSUME IcacheTypeOK, Refill, CacheGood, OutWen, NEW a \in OutData
    PROVE  Answers(a, stage, live)
<1> DEFINE l == LineOf(stage)
           i == IndexOf(l)
<1>1. stage # None /\ paddr = stage /\ stage \in Dword
  BY OutWenStaged, StagePaddr DEF CacheGood
<1>2. /\ l \in Line /\ i \in Index /\ Half \in {1, 2} /\ stage % 2 \in {0, 1}
      /\ 2 * l + Half - 1 = stage
  <2>1. stage \in Int /\ l \in Line /\ stage % 2 \in {0, 1} /\ 2 * l + (stage % 2) = stage
    BY <1>1, DwordParts
  <2>2. l \in Int
    BY <2>1, Addresses DEF Line
  <2>3. i \in Index
    BY <2>1, IndexType
  <2>4. Half = 1 + (stage % 2)
    BY <2>1 DEF Half
  <2> HIDE DEF l, i
  <2> QED
    BY <2>1, <2>2, <2>3, <2>4
<1>3. CASE fsm = "SEND_DATA"
  <2>1. Miss /\ Refilled
    BY <1>3 DEF Refill, CacheGood
  <2>2. CASE resp
    <3>1. a.kind # "ok"
      BY <1>3, <2>2 DEF OutData, Failed
    <3>2. ~Fetches(stage)
      BY <1>1, <1>3, <2>1, <2>2 DEF Refilled, BadLine, Fetches
    <3> QED
      BY <3>1, <3>2 DEF Answers
  <2>3. CASE ~resp
    <3>1. a = wdata[Half]
      BY <1>3, <2>3 DEF OutData
    <3>2. BeatGood(1, live) /\ BeatGood(2, live) /\ ~BadLine
      BY <1>3, <2>1, <2>3 DEF Refilled
    <3>3. Current(wdata[Half], 2 * l + Half - 1, live)
      <4>1. BeatGood(Half, live)
        BY <1>2, <3>2
      <4> QED
        BY <1>1, <4>1 DEF BeatGood
    <3>4. Fetches(stage)
      BY <1>1, <2>1, <3>2 DEF Miss, PaddrError, BadLine, Fetches
    <3> HIDE DEF l
    <3> QED
      BY <1>2, <3>1, <3>3, <3>4 DEF Answers, Current
  <2> QED
    BY <2>2, <2>3
<1>4. CASE fsm # "SEND_DATA" /\ PaddrError
  <2>1. a.kind # "ok"
    BY <1>4 DEF OutData, Failed
  <2>2. ~Fetches(stage)
    BY <1>1, <1>4 DEF PaddrError, Fetches
  <2> QED
    BY <2>1, <2>2 DEF Answers
<1>5. CASE fsm # "SEND_DATA" /\ ~PaddrError
  <2>1. a = HitData /\ HitWays # {}
    BY <1>5 DEF OutData, OutWen, Miss
  <2>2. RowsUsed = rows[i]
    BY <1>1, <1>5 DEF CacheGood, StageRows
  <2> HIDE DEF i, l
  <2>3. PICK w \in Way : w \in HitWays
    BY <2>1 DEF HitWays
  <2>4. \A v \in HitWays : v \in Way /\ rows[i][v] # None /\ rows[i][v].line = l
    BY <1>1, <2>2 DEF HitWays, l
  <2>5. \A v \in HitWays : v = w
    BY <1>2, <2>3, <2>4 DEF CacheGood, RowsOnce
  <2> DEFINE x == rows[i][w].data[Half]
             data == {RowsUsed[v].data[Half] : v \in HitWays}
  <2>6. data = {x}
    BY <2>2, <2>3, <2>5
  <2>7. Cardinality({x}) = 1
    BY FS_Singleton
  <2>8. HitData = x
    BY <2>6, <2>7 DEF HitData
  <2>9. /\ Fetches(2 * l) /\ Current(x, 2 * l + Half - 1, live)
    <3>1. RowGood(rows[i][w], live) /\ rows[i][w].line = l
      BY <1>2, <2>3, <2>4 DEF CacheGood, RowsGood
    <3> QED
      BY <1>2, <3>1 DEF RowGood
  <2>10. Fetches(stage)
    BY <1>1, <2>9, LineFetches DEF l
  <2> QED
    BY <1>2, <2>1, <2>8, <2>9, <2>10 DEF Answers, Current
<1> QED
  BY <1>3, <1>4, <1>5

-----------------------------------------------------------------------------
\* The arrays and the stage at a clock edge.

LEMMA StageRowsStep ==
    ASSUME IcacheTypeOK, Refill, StageRows, NEW flush \in BOOLEAN, NEW clear \in BOOLEAN,
           clear => flush, NEW immuHas \in BOOLEAN, NEW arready \in BOOLEAN, NEW beat,
           FsmStep(flush, arready, beat), StageStep(flush, immuHas), ArrayStep(clear)
    PROVE  StageRows'
<1>1. CASE flush
  BY <1>1 DEF StageStep, StageRows
<1>2. CASE ~flush /\ (stage = None \/ OutWen)
  <2>1. SUFFICES ASSUME stage' # None
                 PROVE  RowsUsed' = rows'[IndexOf(LineOf(stage'))]
    BY DEF StageRows
  <2>2. stage' = Head(rch) /\ rch # <<>> /\ cap' = None
    BY <1>2, <2>1 DEF StageStep, RchRen
  <2>3. fsm # "WRITE_CACHE"
    BY <1>2 DEF Refill, Miss, Translated, OutWen
  <2>4. shown' = IndexOf(LineOf(stage'))
    BY <2>2, <2>3 DEF ArrayStep
  <2>5. shown' # None
    <3>1. stage' \in Dword
      BY <2>2, HeadTail DEF IcacheTypeOK
    <3>2. shown' \in Index
      BY <2>4, <3>1, Addresses, IndexType
    <3>3. Cardinality(Index) \in Nat
      BY IcacheAssumption, FS_CardinalityType
    <3>4. None \notin Index
      BY <3>3, IcacheAssumption, NoneApart
    <3> QED
      BY <3>2, <3>4
  <2> QED
    BY <2>2, <2>4, <2>5 DEF RowsUsed, RowsNow
<1>3. CASE ~flush /\ stage # None /\ ~OutWen
  <2>1. stage' = stage /\ cap' = RowsUsed /\ cap' # None
    <3>1. stage' = stage /\ cap' = IF cap = None THEN RowsNow ELSE cap
      BY <1>3 DEF StageStep
    <3> QED
      BY <3>1, RowsUsedType, NoneApart DEF RowsUsed
  <2>2. RowsUsed' = RowsUsed
    BY <2>1 DEF RowsUsed
  <2>3. fsm # "SEND_DATA" /\ RowsUsed = rows[IndexOf(LineOf(stage))]
    BY <1>3 DEF OutWen, StageRows
  <2>4. CASE fsm = "WRITE_CACHE"
    <3>1. fsm' = "SEND_DATA"
      BY <1>3, <2>4 DEF FsmStep, FsmMove
    <3> QED
      BY <3>1 DEF StageRows
  <2>5. CASE fsm # "WRITE_CACHE"
    <3>1. rows' = rows
      BY <1>3, <2>5 DEF ArrayStep
    <3> QED
      BY <2>1, <2>2, <2>3, <3>1 DEF StageRows
  <2> QED
    BY <2>4, <2>5
<1> QED
  BY <1>1, <1>2, <1>3

LEMMA RowGrows ==
    ASSUME LiveGrows, NEW r \in Row, RowGood(r, live)
    PROVE  RowGood(r, live')
<1>1. r.line \in Line /\ 2 * r.line \in Dword /\ 2 * r.line + 1 \in Dword /\ r.line \in Int
  BY Addresses DEF Row, Line
<1>2. \A h \in {1, 2} : 2 * r.line + h - 1 \in Dword
  BY <1>1
<1>3. \A h \in {1, 2} : Current(r.data[h], 2 * r.line + h - 1, live')
  BY <1>2, AnswersGrow DEF RowGood
<1> QED
  BY <1>3 DEF RowGood

LEMMA RowsStep ==
    ASSUME IcacheTypeOK, Refill, CacheGood, NEW clear \in BOOLEAN,
           clear \/ LiveGrows, ArrayStep(clear)
    PROVE  RowsGood' /\ RowsOnce'
<1>1. CASE clear
  <2>1. \A i \in Index, w \in Way : rows'[i][w] = None
    BY <1>1 DEF ArrayStep
  <2> QED
    BY <2>1 DEF RowsGood, RowsOnce
<1>2. CASE ~clear
  <2>1. ASSUME NEW r \in Row, RowGood(r, live)
        PROVE  RowGood(r, live')
    BY <1>2, <2>1, RowGrows
  <2>2. \A i \in Index, w \in Way : rows[i][w] # None => rows[i][w] \in Row /\ RowGood(rows[i][w], live')
    <3>1. \A i \in Index, w \in Way : rows[i][w] # None => rows[i][w] \in Row
      BY DEF IcacheTypeOK, RowSet
    <3> QED
      BY <2>1, <3>1 DEF CacheGood, RowsGood
  <2>3. CASE fsm # "WRITE_CACHE"
    <3>1. rows' = rows
      BY <1>2, <2>3 DEF ArrayStep
    <3>2. RowsGood'
      BY <2>2, <3>1 DEF RowsGood
    <3> QED
      BY <3>1, <3>2 DEF CacheGood, RowsOnce
  <2>4. CASE fsm = "WRITE_CACHE"
    <3> DEFINE l == LineOf(stage)
               i == IndexOf(l)
               r == [line |-> LineOf(paddr), data |-> wdata]
    <3>1. Miss /\ stage # None /\ paddr = stage /\ stage \in Dword
      BY <2>4, StagePaddr DEF Refill, Miss, Translated, CacheGood
    <3>2. l \in Line /\ i \in Index
      BY <3>1, Addresses, IndexType
    <3>3. PICK w \in Way : rows' = [rows EXCEPT ![i][w] = r]
      BY <1>2, <2>4 DEF ArrayStep
    <3>4. r \in Row /\ r.line = l /\ RowGood(r, live)
      <4>1. ~BadLine /\ BeatGood(1, live) /\ BeatGood(2, live)
        BY <2>4 DEF CacheGood, Refilled
      <4>2. Fetches(2 * l)
        BY <3>1, <4>1, LineFetches DEF Miss, PaddrError, BadLine, Fetches
      <4>3. \A h \in {1, 2} : Current(wdata[h], 2 * l + h - 1, live)
        BY <3>1, <4>1 DEF BeatGood
      <4>4. r.line = l /\ r.data = wdata
        BY <3>1
      <4>5. r \in Row
        BY <3>1, <3>2 DEF Row, IcacheTypeOK
      <4> HIDE DEF r, l
      <4> QED
        BY <4>2, <4>3, <4>4, <4>5 DEF RowGood
    <3>5. \A v \in Way : rows[i][v] # None => rows[i][v].line # l
      <4>1. HitWays = {} /\ RowsUsed = rows[i]
        BY <2>4, <3>1 DEF Miss, CacheGood, StageRows
      <4> HIDE DEF i
      <4> QED
        BY <3>1, <4>1 DEF HitWays
    <3> HIDE DEF r, l, i
    <3>6. \A j \in Index, v \in Way :
             rows'[j][v] = IF j = i /\ v = w THEN r ELSE rows[j][v]
      BY <3>2, <3>3 DEF IcacheTypeOK, RowSet
    <3>7. RowsGood'
      <4>1. RowGood(r, live')
        BY <2>1, <3>4
      <4> QED
        BY <2>2, <3>6, <4>1 DEF RowsGood
    <3>8. RowsOnce'
      BY <3>4, <3>5, <3>6 DEF CacheGood, RowsOnce
    <3> QED
      BY <3>7, <3>8
  <2> QED
    BY <2>3, <2>4
<1> QED
  BY <1>1, <1>2

-----------------------------------------------------------------------------
\* The refill at a clock edge.

LEMMA BeatFacts ==
    ASSUME hasIcache, BusType, MemType, MemLive, NEW beat \in Beats
    PROVE  LET r == Head(bus)
           IN /\ r.line \in Line /\ r.sent \in {0, 1} /\ r.err \in BOOLEAN
              /\ beat.ok => Current(beat.data, 2 * r.line + r.sent, live)
              /\ ~beat.ok => r.line \in BusBad
              /\ beat.ok /\ r.sent = 1 /\ ~r.err => r.line \notin BusBad
<1> DEFINE r == Head(bus)
           d == 2 * r.line + r.sent
           good == [ok |-> TRUE, last |-> r.sent = 1, data |-> Good(d, mem[r.line])]
           error == [good EXCEPT !.ok = FALSE]
<1>1. r.line \in Line /\ r.sent \in {0, 1} /\ r.err \in BOOLEAN
  <2>1. bus # <<>> /\ bus \in Seq(Burst)
    BY DEF Beats, BusType
  <2>2. r \in Burst
    BY <2>1, HeadTail
  <2> QED
    BY <2>2 DEF Burst
<1>2. /\ beat \in {good, error}
      /\ r.line \notin BusBad => beat = good
      /\ r.line \in BusBad /\ r.sent = 1 /\ ~r.err => beat = error
  BY DEF Beats, Fails
<1>3. LineOf(d) = r.line
  <2>1. r.line \in Int
    BY <1>1, Addresses DEF Line
  <2> HIDE DEF r
  <2>2. CASE r.sent = 0
    BY <1>1, <2>1, <2>2, LineParts
  <2>3. CASE r.sent = 1
    BY <1>1, <2>1, <2>3, LineParts
  <2> QED
    BY <1>1, <2>2, <2>3
<1>4. good.ok /\ good.data = Good(d, mem[r.line]) /\ ~error.ok
  OBVIOUS
<1>5. Current(Good(d, mem[r.line]), d, live)
  <2>1. mem[r.line] \in live[r.line]
    BY <1>1 DEF MemLive
  <2> HIDE DEF r, d
  <2> QED
    BY <1>3, <2>1 DEF Current, Good
<1> HIDE DEF good, error
<1> QED
  BY <1>1, <1>2, <1>4, <1>5

LEMMA SentKeeps ==
    ASSUME hasIcache, BusType, Len(bus) <= 1, bus # <<>>, NEW beat \in Beat,
           beat # None, ~beat.last
    PROVE  Head(Sent(beat)).line = Head(bus).line /\ Head(Sent(beat)).err = ~beat.ok
<1> DEFINE b == [Head(bus) EXCEPT !.sent = 1, !.err = ~beat.ok]
<1>1. bus \in Seq(Burst)
  BY DEF BusType
<1>2. Head(bus) \in Burst /\ Tail(bus) \in Seq(Burst) /\ Len(Tail(bus)) = Len(bus) - 1
      /\ Len(bus) \in Nat /\ Len(bus) > 0
  BY <1>1, HeadTail
<1>3. Tail(bus) = <<>>
  BY <1>2
<1>4. b \in Burst /\ b.line = Head(bus).line /\ b.err = ~beat.ok
  BY <1>2 DEF Burst, Beat
<1> HIDE DEF b
<1>5. <<b>> \o <<>> = <<b>> /\ Head(<<b>>) = b
  BY <1>4
<1>6. Sent(beat) = <<b>>
  BY <1>3, <1>5 DEF Sent, b
<1> QED
  BY <1>4, <1>5, <1>6

LEMMA RefilledStep ==
    ASSUME hasIcache, hasIcache', BusType, MemType, MemLive, IcacheTypeOK, Refill,
           BurstOwned, BurstPlace, Refilled, NEW flush \in BOOLEAN, flush \/ LiveGrows,
           NEW arready \in BOOLEAN, NEW immuHas \in BOOLEAN, NEW beat \in Beats \cup {None},
           FsmStep(flush, arready, beat), StageStep(flush, immuHas),
           bus' = Sent(beat) \o (IF ArValid /\ arready
                                 THEN <<[line |-> LineOf(paddr), sent |-> 0, err |-> FALSE]>>
                                 ELSE <<>>)
    PROVE  Refilled'
<1>1. CASE flush
  BY <1>1 DEF FsmStep, Refilled
<1>2. CASE ~flush
  <2> DEFINE l == LineOf(paddr)
             Owning == {"WAIT_RVALID0", "DATA0_ERROR", "WAIT_RVALID1"}
  <2>1. FsmMove(arready, beat) /\ resp' = RespNext(beat)
    BY <1>2 DEF FsmStep
  <2>2. fsm \in {"WAIT_ARREADY", "WAIT_RVALID0", "DATA0_ERROR", "WAIT_RVALID1", "WRITE_CACHE"}
          => paddr' = paddr /\ paddr \in Dword
    <3> HAVE fsm \in {"WAIT_ARREADY", "WAIT_RVALID0", "DATA0_ERROR", "WAIT_RVALID1", "WRITE_CACHE"}
    <3>1. Miss /\ ~OutWen /\ paddr # None
      BY DEF Refill, OutWen, Miss, Translated
    <3> QED
      BY <1>2, <3>1 DEF StageStep, IcacheTypeOK
  <2>3. ASSUME NEW h \in {1, 2}, paddr' = paddr, paddr \in Dword, wdata'[h] = wdata[h],
               BeatGood(h, live)
        PROVE  BeatGood(h, live)'
    <3>1. l \in Line
      BY <2>3, Addresses
    <3>2. l \in Int /\ 2 * l \in Dword /\ 2 * l + 1 \in Dword
      BY <3>1, Addresses DEF Line
    <3>3. 2 * l + h - 1 \in Dword
      BY <3>2
    <3>4. Current(wdata[h], 2 * l + h - 1, live')
      BY <1>2, <2>3, <3>3, AnswersGrow DEF BeatGood
    <3> QED
      BY <2>3, <3>4 DEF BeatGood
  <2>4. CASE fsm = "IDLE"
    <3>1. fsm' \in {"IDLE", "WAIT_ARREADY"} /\ ~resp'
      BY <2>1, <2>4 DEF FsmMove, RespNext, Refilled
    <3> QED
      BY <3>1 DEF Refilled
  <2>5. CASE fsm = "WAIT_ARREADY"
    <3>1. bus = <<>> /\ beat = None
      BY <2>5 DEF BurstOwned, Refill, Beats
    <3>2. ~resp'
      BY <2>1, <2>5, <3>1 DEF RespNext, Refilled
    <3>3. CASE arready
      <4> DEFINE b == [line |-> LineOf(paddr), sent |-> 0, err |-> FALSE]
      <4>1. fsm' = "WAIT_RVALID0" /\ paddr' = paddr
        BY <2>1, <2>2, <2>5, <3>3 DEF FsmMove
      <4>2. bus' = <<>> \o <<b>>
        BY <2>5, <3>1, <3>3 DEF ArValid, Sent
      <4>3. b \in Burst /\ b.line = LineOf(paddr)
        BY <2>2, <2>5, Addresses DEF Burst
      <4> HIDE DEF b
      <4>4. Head(bus') = b
        BY <4>2, <4>3, OneElement, Single
      <4> QED
        BY <3>2, <4>1, <4>3, <4>4 DEF Refilled
    <3>4. CASE ~arready
      <4>1. fsm' = "WAIT_ARREADY"
        BY <2>1, <2>5, <3>4 DEF FsmMove
      <4> QED
        BY <3>2, <4>1 DEF Refilled
    <3> QED
      BY <3>3, <3>4
  <2>6. CASE fsm = "WRITE_CACHE"
    <3>1. fsm' = "SEND_DATA" /\ paddr' = paddr /\ paddr \in Dword
      BY <2>1, <2>2, <2>6 DEF FsmMove
    <3>2. ~resp /\ ~BadLine /\ BeatGood(1, live) /\ BeatGood(2, live)
      BY <2>6 DEF Refilled
    <3>3. wdata'[1] = wdata[1] /\ wdata'[2] = wdata[2] /\ resp' = resp
      BY <1>2, <2>1, <2>6 DEF FsmStep, RespNext
    <3>4. BeatGood(1, live)' /\ BeatGood(2, live)'
      BY <2>3, <3>1, <3>2, <3>3
    <3>5. BadLine' = FALSE /\ resp' = FALSE
      BY <3>1, <3>2, <3>3 DEF BadLine, IcacheTypeOK
    <3> QED
      BY <3>1, <3>4, <3>5 DEF Refilled
  <2>7. CASE fsm = "SEND_DATA"
    <3>1. fsm' = "IDLE" /\ ~resp'
      BY <2>1, <2>7 DEF FsmMove, RespNext
    <3> QED
      BY <3>1 DEF Refilled
  <2>8. CASE fsm \in Owning /\ beat = None
    <3>1. fsm' = fsm /\ resp' = resp /\ paddr' = paddr /\ paddr \in Dword
      BY <2>1, <2>2, <2>8 DEF FsmMove, RespNext
    <3>2. bus' = bus
      <4>1. bus \in Seq(Burst) /\ bus' = bus \o <<>>
        BY <2>8 DEF BusType, ArValid, Sent
      <4> QED
        BY <4>1, ConcatEmptySeq
    <3>3. wdata'[1] = wdata[1]
      BY <1>2, <2>8 DEF FsmStep
    <3>4. fsm = "WAIT_RVALID1" => BeatGood(1, live)'
      BY <2>3, <3>1, <3>3 DEF Refilled
    <3>5. BadLine' = BadLine
      BY <3>1 DEF BadLine
    <3> QED
      BY <2>8, <3>1, <3>2, <3>4, <3>5 DEF Refilled
  <2>9. CASE fsm \in Owning /\ beat # None
    <3> DEFINE r == Head(bus)
    <3>1. beat \in Beats /\ bus # <<>> /\ beat \in Beat /\ beat.last = (r.sent = 1)
          /\ Len(bus) <= 1 /\ beat.ok \in BOOLEAN /\ beat.last \in BOOLEAN
      BY <2>9, BeatTypes DEF BurstOwned, Beat
    <3>2. /\ r.line = l /\ r.sent \in {0, 1} /\ l \in Line
          /\ beat.ok => Current(beat.data, 2 * l + r.sent, live)
          /\ ~beat.ok => l \in BusBad
          /\ beat.ok /\ r.sent = 1 /\ ~r.err => l \notin BusBad
      <4>1. r.line = l
        BY <2>9 DEF Refilled
      <4> QED
        BY <3>1, <4>1, BeatFacts
    <3>3. paddr' = paddr /\ paddr \in Dword /\ BadLine' = BadLine /\ LineOf(paddr') = l
      BY <2>2, <2>9 DEF BadLine
    <3>4. l \in Int /\ 2 * l + 1 - 1 = 2 * l + 0 /\ 2 * l + 2 - 1 = 2 * l + 1
          /\ 2 * l + 1 - 1 \in Dword /\ 2 * l + 2 - 1 \in Dword
      <4>1. l \in Int /\ 2 * l \in Dword /\ 2 * l + 1 \in Dword
        BY <3>2, Addresses DEF Line
      <4> HIDE DEF l
      <4> QED
        BY <4>1
    <3>5. bus' = Sent(beat)
      <4>1. Sent(beat) \in Seq(Burst) /\ bus' = Sent(beat) \o <<>>
        BY <2>9, <3>1, SentBurst DEF ArValid
      <4> QED
        BY <4>1
    <3>6. CASE fsm = "WAIT_RVALID0"
      <4>1. r.sent = 0 /\ ~beat.last
        <5>1. Head(bus).sent = 0
          BY <3>6 DEF BurstPlace
        <5>2. r.sent # 1
          BY <5>1
        <5> HIDE DEF r
        <5>3. ~beat.last
          BY <3>1, <5>2
        <5> QED
          BY <5>1, <5>3 DEF r
      <4>2. Head(bus').line = l /\ Head(bus').err = ~beat.ok
        BY <2>9, <3>1, <3>2, <3>5, <4>1, SentKeeps
      <4>3. CASE beat.ok
        <5>1. fsm' = "WAIT_RVALID1" /\ ~resp' /\ wdata'[1] = beat.data
          BY <1>2, <2>1, <2>9, <3>6, <4>1, <4>3 DEF FsmMove, FsmStep, RespNext, Refilled
        <5>2. Current(beat.data, 2 * l + 1 - 1, live')
          <6>1. Current(beat.data, 2 * l + 1 - 1, live)
            BY <3>2, <3>4, <4>1, <4>3
          <6> HIDE DEF l
          <6> QED
            BY <1>2, <3>4, <6>1, AnswersGrow
        <5>3. BeatGood(1, live)'
          BY <3>3, <5>1, <5>2 DEF BeatGood
        <5> HIDE DEF l
        <5> QED
          BY <3>3, <4>2, <4>3, <5>1, <5>3 DEF Refilled
      <4>4. CASE ~beat.ok
        <5>1. fsm' = "DATA0_ERROR" /\ resp'
          BY <2>1, <2>9, <3>6, <4>4 DEF FsmMove, RespNext
        <5>2. BadLine'
          BY <3>2, <3>3, <4>4 DEF BadLine
        <5> HIDE DEF l
        <5> QED
          BY <3>3, <4>2, <5>1, <5>2 DEF Refilled
      <4> QED
        BY <3>1, <4>3, <4>4
    <3>7. CASE fsm = "DATA0_ERROR"
      <4>1. BadLine /\ resp /\ beat.last
        BY <3>1, <3>7 DEF BurstPlace, Refilled
      <4>2. fsm' = "SEND_DATA" /\ resp'
        BY <2>1, <2>9, <3>7, <4>1 DEF FsmMove, RespNext
      <4> QED
        BY <3>3, <4>1, <4>2 DEF Refilled
    <3>8. CASE fsm = "WAIT_RVALID1"
      <4>1. r.sent = 1 /\ beat.last /\ ~r.err /\ BeatGood(1, live)
        BY <3>1, <3>8 DEF BurstPlace, Refilled
      <4>2. CASE beat.ok
        <5>1. fsm' \in {"SEND_DATA", "WRITE_CACHE"} /\ resp' = FALSE
              /\ wdata'[2] = beat.data /\ wdata'[1] = wdata[1]
          BY <1>2, <2>1, <2>9, <3>8, <4>1, <4>2 DEF FsmMove, FsmStep, RespNext
        <5>2. BeatGood(1, live)'
          BY <2>3, <3>3, <4>1, <5>1
        <5>3. Current(beat.data, 2 * l + 2 - 1, live')
          <6>1. Current(beat.data, 2 * l + 2 - 1, live)
            BY <3>2, <3>4, <4>1, <4>2
          <6> HIDE DEF l
          <6> QED
            BY <1>2, <3>4, <6>1, AnswersGrow
        <5>4. BeatGood(2, live)'
          BY <3>3, <5>1, <5>3 DEF BeatGood
        <5>5. BadLine' = FALSE
          BY <3>2, <3>3, <4>1, <4>2 DEF BadLine
        <5> QED
          BY <5>1, <5>2, <5>4, <5>5 DEF Refilled
      <4>3. CASE ~beat.ok
        <5>1. fsm' = "SEND_DATA" /\ resp'
          BY <2>1, <2>9, <3>8, <4>3 DEF FsmMove, RespNext
        <5>2. BadLine'
          BY <3>2, <3>3, <4>3 DEF BadLine
        <5> QED
          BY <5>1, <5>2 DEF Refilled
      <4> QED
        BY <3>1, <4>2, <4>3
    <3> QED
      BY <2>9, <3>6, <3>7, <3>8
  <2> QED
    BY <2>4, <2>5, <2>6, <2>7, <2>8, <2>9 DEF IcacheTypeOK
<1> QED
  BY <1>1, <1>2

-----------------------------------------------------------------------------
\* fence.i of core_top raises its flush and does not jump behind itself: what
\* decode takes next is not the next instruction.  The promise is for the other top.
FenceFits == FALSE \notin FenceBuilds

LEMMA OrderKinds ==
    ASSUME FenceFits, hasIcache \in BOOLEAN, NEW o \in Orders
    PROVE  \/ /\ o = Run /\ stall = "no"
              /\ o.flush = FALSE /\ o.to = None /\ o.clear = FALSE /\ o.stall = "no"
           \/ /\ o = Halt
              /\ o.flush = TRUE /\ o.to = None /\ o.clear = FALSE /\ o.stall = "wait"
           \/ /\ o # Halt
              /\ o.flush = TRUE /\ o.to \in Target /\ o.stall \in {"no", "scan"}
              /\ ~FenceDone(o)
           \/ /\ o # Halt /\ stall = "scan"
              /\ o.flush = TRUE /\ o.to = None /\ o.clear = TRUE /\ o.stall \in {"no", "scan"}
<1>1. \A h \in Target : h # None
  BY CodeAssumption, NoneApart
<1>2. CASE stall = "scan"
  <2>1. PICK s \in {"scan", "no"} : o = Order(TRUE, None, TRUE, s)
    BY <1>2 DEF Orders
  <2> QED
    BY <1>2, <2>1 DEF Order, Halt
<1>3. CASE stall # "scan" /\ o = Run
  <2>1. stall = "no"
    <3>1. SUFFICES ASSUME stall # "no" PROVE FALSE
      OBVIOUS
    <3>2. o \in {Halt} \cup {JumpTo(h) : h \in Target} \cup FenceOrders
      BY <1>3, <3>1 DEF Orders
    <3>3. \A q \in {Halt} \cup {JumpTo(h) : h \in Target} \cup FenceOrders : q.flush = TRUE
      <4>1. \A q \in FenceOrders : q.flush = TRUE
        BY DEF FenceOrders, Order
      <4> QED
        BY <4>1 DEF Halt, JumpTo, Order
    <3>4. o.flush = TRUE /\ o.flush = FALSE
      BY <1>3, <3>2, <3>3 DEF Run, Order
    <3> QED
      BY <3>4
  <2> QED
    BY <1>3, <2>1 DEF Run, Order
<1>4. CASE stall # "scan" /\ o = Halt
  BY <1>4 DEF Halt, Order
<1>5. CASE stall # "scan" /\ o # Run /\ o # Halt
  <2>1. o \in {JumpTo(h) : h \in Target} \/ o \in FenceOrders
    BY <1>5 DEF Orders
  <2>2. CASE o \in {JumpTo(h) : h \in Target}
    <3>1. PICK h \in Target : o = JumpTo(h)
      BY <2>2
    <3> QED
      BY <1>5, <3>1 DEF JumpTo, Order, FenceDone
  <2>3. CASE o \in FenceOrders
    <3>1. hasIcache
      BY <2>3 DEF FenceFits, FenceOrders
    <3>2. PICK h \in Target : o = Order(TRUE, h, TRUE, "scan")
      BY <2>3, <3>1 DEF FenceOrders
    <3> QED
      BY <1>5, <3>2 DEF Order, FenceDone
  <2> QED
    BY <2>1, <2>2, <2>3
<1> QED
  BY <1>2, <1>3, <1>4, <1>5

\* The requests under way, the oldest first; ifu throws the answers of the first
\* invalidCnt of them away, the next one is for FirstRequest.
Queue == IF hasIcache THEN StageQ ELSE bus
FirstRequest == IF hasIcache /\ out # None THEN NextDword(NextAnswer) ELSE NextAnswer

Asked ==
    /\ hasIcache /\ out # None => Answers(out, NextAnswer, live)
    /\ Requested(Queue, invalidCnt, FirstRequest)
    /\ pc = Ahead(FirstRequest, Len(Queue) - invalidCnt)

InStep == LowAnswers /\ FifoAnswers /\ Asked /\ Buffered

\* A flush that is not waiting for its jump leaves ifu at the address it goes on
\* from, also while fence.i holds it there.
Restarted ==
    /\ ~arvalid /\ fifo = <<>> /\ low = None /\ buf[1] = None /\ buf[2] = None
    /\ pc = DwordOf(myPC)

StreamInv ==
    /\ FetchInv /\ MemLive
    /\ hasIcache => CacheGood
    /\ stall # "wait" => InStep
    /\ stall = "scan" => Restarted

LEMMA RestartedInStep ==
    ASSUME IfuData, Restarted, Len(Queue) \in Nat, invalidCnt = Len(Queue),
           hasIcache => out = None
    PROVE  InStep
<1> DEFINE d == DwordOf(myPC)
<1>1. d \in Dword /\ Len(fifo) = 0 /\ fifo = <<>> /\ low = None
  BY HalfParts DEF IfuData, Restarted
<1>2. HeadDword = d /\ NextAnswer = d /\ FirstRequest = d
  BY <1>1, AheadZero DEF HeadDword, NextAnswer, FirstRequest
<1>3. LowAnswers /\ FifoAnswers
  BY <1>1 DEF LowAnswers, FifoAnswers, Received
<1>4. Asked
  <2>1. Len(Queue) - invalidCnt = 0
    OBVIOUS
  <2>2. pc = Ahead(FirstRequest, 0)
    BY <1>1, <1>2, AheadZero DEF Restarted
  <2>3. Requested(Queue, invalidCnt, FirstRequest)
    BY <2>1 DEF Requested
  <2> QED
    BY <2>1, <2>2, <2>3 DEF Asked
<1>5. Buffered
  <2>1. \A s \in {1, 2} : buf[s] = None
    BY DEF Restarted
  <2>2. sel \in {1, 2} /\ Other(sel) \in {1, 2}
    BY DEF IfuData, Other
  <2> QED
    BY <2>1, <2>2 DEF Buffered
<1> QED
  BY <1>3, <1>4, <1>5 DEF InStep

LEMMA RestartedNext ==
    (IfuData /\ Restarted /\ Len(Queue) \in Nat /\ invalidCnt = Len(Queue)
        /\ (hasIcache => out = None) => InStep)'
BY RestartedInStep, PTL

\* A flush with a jump, or of fence.i, restarts ifu.
LEMMA FlushRestarts ==
    ASSUME IfuData, NEW to \in Target \cup {None}, to = None => Restarted,
           NEW arready \in BOOLEAN, NEW rdata, NEW ready \in BOOLEAN,
           IfuStep(TRUE, to, arready, rdata, ready)
    PROVE  Restarted' /\ pcCnt' = 0
<1>1. /\ RequestStep(TRUE, to, arvalid /\ arready, rdata # None)
      /\ CountStep(TRUE, arvalid /\ arready, rdata # None)
      /\ FifoStep(TRUE, rdata) /\ PcStep(to) /\ BufferStep(TRUE, ready)
  BY DEF IfuStep
<1>2. /\ arvalid' = FALSE /\ pcCnt' = 0 /\ fifo' = <<>> /\ low' = None
      /\ buf'[1] = None /\ buf'[2] = None
  BY <1>1 DEF RequestStep, CountStep, FifoStep, BufferStep
<1>3. pc' = DwordOf(myPC')
  <2>1. CASE to # None
    BY <1>1, <2>1 DEF RequestStep, PcStep
  <2>2. CASE to = None
    <3>1. ~arvalid /\ fifo = <<>> /\ pc = DwordOf(myPC)
      BY <2>2 DEF Restarted
    <3>2. pc' = pc /\ myPC' = myPC
      BY <1>1, <2>2, <3>1 DEF RequestStep, PcStep, CanChange
    <3> QED
      BY <3>1, <3>2
  <2> QED
    BY <2>1, <2>2
<1> QED
  BY <1>2, <1>3 DEF Restarted

\* The next request goes behind the others.
LEMMA Requests ==
    ASSUME NEW q \in Seq(Dword), NEW d \in Dword, NEW j \in Nat, j <= Len(q),
           Requested(q, j, d), pc \in Dword, pc = Ahead(d, Len(q) - j),
           NEW fire \in BOOLEAN, NEW new, new = IF fire THEN <<pc>> ELSE <<>>,
           pc' = IF fire THEN NextDword(pc) ELSE pc
    PROVE  Requested(q \o new, j, d) /\ pc' = Ahead(d, Len(q \o new) - j)
<1>1. CASE fire
  <2>1. new = <<pc>>
    BY <1>1
  <2>2. Requested(q \o <<pc>>, j, d) /\ NextDword(pc) = Ahead(d, Len(q \o <<pc>>) - j)
    BY RequestedPush
  <2> QED
    BY <1>1, <2>1, <2>2
<1>2. CASE ~fire
  <2>1. q \o new = q /\ pc' = pc
    BY <1>2, ConcatEmptySeq
  <2> QED
    BY <2>1
<1> QED
  BY <1>1, <1>2

LEMMA AskedIcache ==
    ASSUME FetchInv, CacheGood, hasIcache, hasIcache', LowAnswers, FifoAnswers, Asked, LiveGrows,
           Counting', NEW fire \in BOOLEAN, fire = (arvalid /\ IfuArReady),
           NEW new, new = IF fire THEN <<pc>> ELSE <<>>,
           NEW immuHas \in BOOLEAN, StageStep(FALSE, immuHas), QueueStep(FALSE, new, immuHas),
           RequestStep(FALSE, None, fire, out # None), FifoStep(FALSE, out), PcStep(None)
    PROVE  LowAnswers' /\ FifoAnswers' /\ Asked'
<1> DEFINE f == FirstRequest
           q == IF OutWen THEN Tail(StageQ) ELSE StageQ
           g == IF OutWen THEN NextDword(f) ELSE f
<1>1. invalidCnt = 0 /\ invalidCnt' = 0 /\ out \in Answer \cup {None} /\ pc \in Dword
      /\ IfuData /\ IcacheTypeOK /\ Refill
  BY DEF FetchInv, Counting, IfuData, IcacheTypeOK
<1>2. /\ LowAnswers' /\ FifoAnswers' /\ NextAnswer \in Dword
      /\ NextAnswer' = f
  <2>1. out # None /\ invalidCnt = 0 => Answers(out, NextAnswer, live)
    BY DEF Asked
  <2>2. /\ LowAnswers' /\ FifoAnswers' /\ NextAnswer \in Dword
        /\ NextAnswer' = IF out # None /\ invalidCnt = 0
                         THEN NextDword(NextAnswer) ELSE NextAnswer
    BY <1>1, <2>1, FifoReceives
  <2> QED
    BY <1>1, <2>2 DEF FirstRequest
<1>3. f \in Dword
  BY <1>2, Addresses DEF FirstRequest
<1>4. /\ StageQ \in Seq(Dword) /\ new \in Seq(Dword)
      /\ OutWen => StageQ # <<>> /\ Head(StageQ) = stage
      /\ StageQ' = q \o new
  <2>1. new \in Seq(Dword)
    BY <1>1
  <2> QED
    BY <1>1, <2>1, QueuesMove
<1>5. Requested(StageQ, 0, f) /\ pc = Ahead(f, Len(StageQ)) /\ Len(StageQ) \in Nat
  <2>1. Len(StageQ) \in Nat
    BY <1>4, LengthType
  <2>2. Len(StageQ) - 0 = Len(StageQ)
    BY <2>1
  <2> QED
    BY <1>1, <2>1, <2>2 DEF Asked, Queue
<1>6. /\ q \in Seq(Dword) /\ Requested(q, 0, g) /\ pc = Ahead(g, Len(q)) /\ g \in Dword
      /\ OutWen => stage = f
  <2>1. CASE OutWen
    BY <1>3, <1>4, <1>5, <2>1, RequestedTail, TailItems, Addresses
  <2>2. CASE ~OutWen
    BY <1>3, <1>4, <1>5, <2>2
  <2> QED
    BY <2>1, <2>2
<1>7. /\ FirstRequest' = g
      /\ out' # None => Answers(out', NextAnswer', live')
  <2>1. CASE OutWen
    <3>1. out' \in OutData /\ out' \in Answer
      BY <1>1, <2>1, OutDataType DEF QueueStep
    <3>2. Answers(out', f, live')
      BY <1>1, <1>3, <1>6, <2>1, <3>1, OutAnswers, AnswersGrow
    <3>3. out' # None
      BY <3>1, NoneApart
    <3> QED
      BY <1>2, <2>1, <3>2, <3>3 DEF FirstRequest
  <2>2. CASE ~OutWen
    <3>1. out' = None
      BY <2>2 DEF QueueStep
    <3> QED
      BY <1>2, <2>2, <3>1 DEF FirstRequest
  <2> QED
    BY <2>1, <2>2
<1> HIDE DEF f, g, q
<1>8. Requested(q \o new, 0, g) /\ pc' = Ahead(g, Len(q \o new) - 0)
  <2>1. pc' = IF fire THEN NextDword(pc) ELSE pc
    BY DEF RequestStep
  <2>2. Len(q) \in Nat /\ Len(q) - 0 = Len(q) /\ 0 <= Len(q)
    BY <1>6, LengthType
  <2> QED
    BY <1>1, <1>6, <2>1, <2>2, Requests
<1>9. Queue' = q \o new
  BY <1>4 DEF Queue
<1> QED
  BY <1>1, <1>2, <1>7, <1>8, <1>9 DEF Asked

LEMMA AnswerOfBus ==
    ASSUME ~hasIcache, bus \in Seq(Dword), MemLive, NEW answer \in WordAnswers
    PROVE  bus # <<>> /\ Head(bus) \in Dword /\ Answers(answer, Head(bus), live)
<1>1. bus # <<>> /\ Head(bus) \in Dword
  BY HeadTail DEF WordAnswers
<1>2. LineOf(Head(bus)) \in Line
  BY <1>1, Addresses
<1>3. Fetches(Head(bus)) <=> ~Fails(LineOf(Head(bus)))
  BY DEF Fetches, Fails
<1>4. CASE Fails(LineOf(Head(bus)))
  BY <1>1, <1>3, <1>4 DEF WordAnswers, Failed, Answers
<1>5. CASE ~Fails(LineOf(Head(bus)))
  <2>1. answer = Good(Head(bus), mem[LineOf(Head(bus))])
    BY <1>1, <1>5 DEF WordAnswers
  <2> QED
    BY <1>1, <1>2, <1>3, <1>5, <2>1 DEF Answers, Current, Good, MemLive
<1> QED
  BY <1>1, <1>4, <1>5

LEMMA AskedBus ==
    ASSUME FetchInv, MemLive, ~hasIcache, ~hasIcache', LowAnswers, FifoAnswers, Asked, LiveGrows,
           NEW fire \in BOOLEAN, NEW new, new = IF fire THEN <<pc>> ELSE <<>>,
           NEW answer \in WordAnswers \cup {None}, answer \in Answer \cup {None},
           bus' = (IF answer = None THEN bus ELSE Tail(bus)) \o new,
           RequestStep(FALSE, None, fire, answer # None),
           CountStep(FALSE, fire, answer # None),
           FifoStep(FALSE, answer), PcStep(None)
    PROVE  LowAnswers' /\ FifoAnswers' /\ Asked'
<1> DEFINE f == NextAnswer
           kept == answer # None /\ invalidCnt = 0
           q == IF answer = None THEN bus ELSE Tail(bus)
           g == IF kept THEN NextDword(f) ELSE f
           j == IF answer # None /\ invalidCnt > 0 THEN invalidCnt - 1 ELSE invalidCnt
<1>1. /\ bus \in Seq(Dword) /\ pc \in Dword /\ IfuData /\ Len(bus) \in Nat
      /\ invalidCnt \in Nat /\ invalidCnt <= Len(bus) /\ ~useIcache
  <2>1. bus \in Seq(Dword) /\ pc \in Dword /\ IfuData
    BY DEF FetchInv, BusType, IfuData
  <2> QED
    BY <2>1, LengthType DEF FetchInv, Counting, UnderWay
<1>2. Requested(bus, invalidCnt, f) /\ pc = Ahead(f, Len(bus) - invalidCnt)
  BY DEF Asked, Queue, FirstRequest
<1>3. answer # None => /\ bus # <<>> /\ Head(bus) \in Dword
                       /\ Answers(answer, Head(bus), live)
  BY <1>1, AnswerOfBus
<1>4. f \in Dword
  <2>1. HeadDword \in Dword /\ Len(fifo) \in Int
    <3>1. DwordOf(myPC) \in Dword /\ fifo \in Seq(Answer)
      BY <1>1, HalfParts DEF IfuData
    <3> QED
      BY <3>1, LengthType, Addresses DEF HeadDword
  <2> QED
    BY <2>1, AheadType DEF NextAnswer
<1>5. kept => Answers(answer, f, live)
  <2> HAVE kept
  <2>1. bus # <<>> /\ Requested(bus, 0, f)
    BY <1>2, <1>3
  <2>2. Head(bus) = f
    BY <1>1, <1>4, <2>1, RequestedTail
  <2> QED
    BY <1>3, <2>2
<1>6. /\ LowAnswers' /\ FifoAnswers' /\ NextAnswer' = g
  BY <1>1, <1>5, FifoReceives
<1>7. /\ q \in Seq(Dword) /\ j \in Nat /\ j <= Len(q) /\ g \in Dword
      /\ Requested(q, j, g) /\ pc = Ahead(g, Len(q) - j)
  <2>1. CASE answer = None
    BY <1>1, <1>2, <1>4, <2>1
  <2>2. CASE answer # None /\ invalidCnt = 0
    <3>1. q = Tail(bus) /\ j = 0 /\ g = NextDword(f) /\ bus # <<>>
      BY <1>1, <1>3, <2>2
    <3>2. Len(bus) - invalidCnt = Len(bus)
      BY <1>1, <2>2
    <3>3. Tail(bus) \in Seq(Dword) /\ Requested(Tail(bus), 0, NextDword(f))
          /\ pc = Ahead(NextDword(f), Len(Tail(bus)))
      BY <1>1, <1>2, <1>4, <2>2, <3>1, <3>2, RequestedTail, TailItems
    <3>4. Len(Tail(bus)) \in Nat /\ Len(Tail(bus)) - 0 = Len(Tail(bus)) /\ 0 <= Len(Tail(bus))
      BY <3>3, LengthType
    <3> HIDE DEF q, j, g, f
    <3> QED
      BY <1>4, <3>1, <3>3, <3>4, Addresses
  <2>3. CASE answer # None /\ invalidCnt > 0
    <3>1. q = Tail(bus) /\ j = invalidCnt - 1 /\ g = f /\ bus # <<>>
          /\ invalidCnt \in Nat \ {0}
      BY <1>1, <1>3, <2>3
    <3>2. Tail(bus) \in Seq(Dword) /\ Len(Tail(bus)) = Len(bus) - 1
          /\ Requested(Tail(bus), invalidCnt - 1, f)
          /\ Len(Tail(bus)) - (invalidCnt - 1) = Len(bus) - invalidCnt
      BY <1>1, <1>2, <1>4, <3>1, RequestedDrop, TailItems
    <3> HIDE DEF q, j, g, f
    <3>3. invalidCnt - 1 \in Nat /\ invalidCnt - 1 <= Len(Tail(bus))
      <4>1. Len(bus) \in Nat /\ invalidCnt <= Len(bus) /\ Len(Tail(bus)) = Len(bus) - 1
        BY <1>1, <3>2
      <4> QED
        BY <3>1, <4>1
    <3> QED
      BY <1>2, <1>4, <3>1, <3>2, <3>3
  <2>4. invalidCnt = 0 \/ invalidCnt > 0
    BY <1>1
  <2> HIDE DEF q, j, g, f, kept
  <2> QED
    BY <2>1, <2>2, <2>3, <2>4
<1>8. invalidCnt' = j
  BY <1>1 DEF CountStep
<1>9. Requested(q \o new, j, g) /\ pc' = Ahead(g, Len(q \o new) - j)
  <2>1. pc' = IF fire THEN NextDword(pc) ELSE pc
    BY DEF RequestStep
  <2> HIDE DEF q, j, g
  <2> QED
    BY <1>1, <1>7, <2>1, Requests
<1>10. Queue' = q \o new /\ FirstRequest' = g
  BY <1>6 DEF Queue, FirstRequest
<1> HIDE DEF q, j, g, f, kept
<1> QED
  BY <1>6, <1>8, <1>9, <1>10 DEF Asked

-----------------------------------------------------------------------------
\* The invariant of the stream: its steps.

LEMMA CacheGoodStep ==
    ASSUME FetchInv, MemLive, CacheGood, hasIcache, hasIcache', NEW o \in Orders,
           o.clear => o.flush, o.clear \/ LiveGrows,
           NEW immuHas \in BOOLEAN, NEW arready \in BOOLEAN, NEW ready \in BOOLEAN,
           NEW beat \in Beats \cup {None}, CycleWithIcache(o, immuHas, arready, beat, ready)
    PROVE  CacheGood'
<1> DEFINE fire == arvalid /\ IfuArReady
           new == IF fire THEN <<pc>> ELSE <<>>
<1>1. /\ o.flush \in BOOLEAN /\ o.clear \in BOOLEAN
      /\ IcacheTypeOK /\ Refill /\ BusType /\ MemType /\ BurstOwned /\ BurstPlace
  BY OrderTypes DEF FetchInv, PipeType
<1>2. /\ FsmStep(o.flush, arready, beat) /\ ArrayStep(o.clear)
      /\ StageStep(o.flush, immuHas) /\ QueueStep(o.flush, new, immuHas)
  BY DEF CycleWithIcache, IcacheStep
<1>3. Lockstep'
  <2>1. CASE o.flush
    <3>1. stage' = None /\ paddr' = None /\ rch' = <<>> /\ mmu' = <<>>
      BY <1>2, <2>1 DEF StageStep, QueueStep
    <3> QED
      BY <3>1 DEF Lockstep, StageQ, PaddrQ
  <2>2. CASE ~o.flush
    <3>1. new \in Seq(Dword) /\ StageStep(FALSE, immuHas) /\ QueueStep(FALSE, new, immuHas)
      <4>1. pc \in Dword
        BY DEF FetchInv, IfuData
      <4>2. o.flush = FALSE
        BY <1>1, <2>2
      <4> QED
        BY <1>2, <4>1, <4>2 DEF StageStep, QueueStep
    <3> HIDE DEF new, fire
    <3>2. /\ StageQ' = (IF OutWen THEN Tail(StageQ) ELSE StageQ) \o new
          /\ PaddrQ' = (IF OutWen THEN Tail(PaddrQ) ELSE PaddrQ) \o new
      BY <1>1, <3>1, QueuesMove
    <3> QED
      BY <3>2 DEF CacheGood, Lockstep
  <2> QED
    BY <2>1, <2>2
<1>4. RowsGood' /\ RowsOnce'
  BY <1>1, <1>2, RowsStep
<1>5. StageRows'
  BY <1>1, <1>2, StageRowsStep DEF CacheGood
<1>6. Refilled'
  <2>1. bus' = Sent(beat) \o (IF ArValid /\ arready
                              THEN <<[line |-> LineOf(paddr), sent |-> 0, err |-> FALSE]>>
                              ELSE <<>>)
    BY DEF CycleWithIcache
  <2>2. o.flush \/ LiveGrows
    OBVIOUS
  <2> QED
    BY <1>1, <1>2, <2>1, <2>2, RefilledStep DEF CacheGood
<1> QED
  BY <1>3, <1>4, <1>5, <1>6 DEF CacheGood

\* A cycle without flush.
LEMMA RunInStep ==
    ASSUME StreamInv, FetchInv', stall # "wait", LiveGrows, hasIcache' = hasIcache,
           NEW o \in Orders, o.flush = FALSE, o.to = None,
           NEW immuHas \in BOOLEAN, NEW arready \in BOOLEAN, NEW ready \in BOOLEAN,
           ready => InstValid,
           \/ hasIcache /\ \E beat \in Beats \cup {None} :
                               CycleWithIcache(o, immuHas, arready, beat, ready)
           \/ ~hasIcache /\ \E answer \in WordAnswers \cup {None} :
                               CycleWithBus(o, arready, answer, ready)
    PROVE  /\ InStep'
           /\ Awaited' = IF ~ready THEN Awaited
                         ELSE IF buf[sel].fault = None THEN Behind(buf[sel]) ELSE Awaited'
<1>1. /\ IfuData /\ LowAnswers /\ FifoAnswers /\ Asked /\ Buffered
      /\ Counting' /\ FetchInv /\ MemLive
  BY DEF StreamInv, InStep, FetchInv
<1>2. ASSUME NEW rdata, NEW arr \in BOOLEAN, IfuStep(FALSE, None, arr, rdata, ready),
             LowAnswers', FifoAnswers', Asked'
      PROVE  /\ InStep'
             /\ Awaited' = IF ~ready THEN Awaited
                           ELSE IF buf[sel].fault = None THEN Behind(buf[sel]) ELSE Awaited'
  <2>1. BufferStep(FALSE, ready) /\ PcStep(None)
    BY <1>2 DEF IfuStep
  <2>2. /\ Buffered'
        /\ Awaited' = IF ~ready THEN Awaited
                      ELSE IF buf[sel].fault = None THEN Behind(buf[sel]) ELSE Awaited'
    BY <1>1, <2>1, BuffersMove
  <2> QED
    BY <1>2, <2>2 DEF InStep
<1>3. CASE hasIcache
  <2> DEFINE fire == arvalid /\ IfuArReady
             new == IF fire THEN <<pc>> ELSE <<>>
  <2>1. PICK beat \in Beats \cup {None} : CycleWithIcache(o, immuHas, arready, beat, ready)
    BY <1>3
  <2>2. /\ IfuStep(FALSE, None, IfuArReady, out, ready)
        /\ StageStep(FALSE, immuHas) /\ QueueStep(FALSE, new, immuHas)
    BY <2>1 DEF CycleWithIcache, IcacheStep
  <2>3. fire \in BOOLEAN /\ IfuArReady \in BOOLEAN
    BY <1>1 DEF IfuData, IfuArReady
  <2>4. /\ RequestStep(FALSE, None, fire, out # None) /\ FifoStep(FALSE, out) /\ PcStep(None)
    BY <2>2 DEF IfuStep
  <2>5. new = (IF fire THEN <<pc>> ELSE <<>>) /\ fire = (arvalid /\ IfuArReady)
    OBVIOUS
  <2> HIDE DEF fire, new
  <2>6. LowAnswers' /\ FifoAnswers' /\ Asked'
    BY <1>1, <1>3, <2>2, <2>3, <2>4, <2>5, AskedIcache DEF StreamInv
  <2> QED
    BY <1>2, <2>2, <2>3, <2>6
<1>4. CASE ~hasIcache
  <2> DEFINE fire == arvalid /\ arready
             new == IF fire THEN <<pc>> ELSE <<>>
  <2>1. PICK answer \in WordAnswers \cup {None} : CycleWithBus(o, arready, answer, ready)
    BY <1>4
  <2>2. /\ IfuStep(FALSE, None, arready, answer, ready)
        /\ bus' = (IF answer = None THEN bus ELSE Tail(bus)) \o new
    BY <2>1 DEF CycleWithBus
  <2>3. fire \in BOOLEAN
    BY <1>1 DEF IfuData
  <2>4. /\ RequestStep(FALSE, None, fire, answer # None)
        /\ CountStep(FALSE, fire, answer # None)
        /\ FifoStep(FALSE, answer) /\ PcStep(None)
    BY <2>2 DEF IfuStep
  <2>5. answer \in Answer \cup {None}
    <3>1. CASE answer \in WordAnswers
      <4>1. bus \in Seq(Dword)
        BY <1>1, <1>4 DEF FetchInv, BusType
      <4>2. Head(bus) \in Dword
        BY <1>4, <3>1, <4>1, AnswerOfBus, <1>1
      <4>3. mem[LineOf(Head(bus))] \in Version
        BY <1>1, <4>2, Addresses DEF FetchInv, PipeType, MemType
      <4> QED
        BY <3>1, <4>2, <4>3, AnswerTypes DEF WordAnswers
    <3> QED
      BY <2>1, <3>1
  <2>6. new = (IF fire THEN <<pc>> ELSE <<>>)
    OBVIOUS
  <2> HIDE DEF fire, new
  <2>7. LowAnswers' /\ FifoAnswers' /\ Asked'
    BY <1>1, <1>4, <2>1, <2>2, <2>3, <2>4, <2>5, <2>6, AskedBus
  <2> QED
    BY <1>2, <2>2, <2>7
<1> QED
  BY <1>3, <1>4

\* Where nothing moves, what was right stays it while live grows.
LEMMA StreamInvGrows ==
    ASSUME StreamInv, FetchInv', MemLive', LiveGrows,
           UNCHANGED <<ifuVars, icacheVars, hasIcache, bus, stall>>
    PROVE  StreamInv'
<1>1. /\ ifuVars' = ifuVars /\ icacheVars' = icacheVars /\ hasIcache' = hasIcache
      /\ bus' = bus /\ stall' = stall
      /\ IfuData /\ IcacheTypeOK /\ FetchInv
  BY DEF StreamInv, FetchInv
<1>2. hasIcache => CacheGood'
  <2> HAVE hasIcache
  <2>1. CacheGood
    BY DEF StreamInv
  <2>2. Lockstep' /\ RowsOnce' /\ StageRows'
    <3>1. StageQ' = StageQ /\ PaddrQ' = PaddrQ
      BY <1>1 DEF icacheVars, StageQ, PaddrQ
    <3>2. RowsUsed' = RowsUsed
      BY <1>1 DEF icacheVars, RowsUsed, RowsNow
    <3> QED
      BY <1>1, <2>1, <3>1, <3>2 DEF icacheVars, CacheGood, Lockstep, RowsOnce, StageRows
  <2>3. RowsGood'
    <3>1. \A i \in Index, w \in Way : rows[i][w] # None => rows[i][w] \in Row
      BY <1>1 DEF IcacheTypeOK, RowSet
    <3> QED
      BY <1>1, <2>1, <3>1, RowGrows DEF icacheVars, CacheGood, RowsGood
  <2>4. Refilled'
    <3>1. ASSUME NEW h \in {1, 2}, fsm # "IDLE", BeatGood(h, live)
          PROVE  BeatGood(h, live)'
      <4>1. paddr \in Dword
        BY <1>1, <3>1 DEF FetchInv, Refill, Miss, Translated, IcacheTypeOK
      <4> DEFINE l == LineOf(paddr)
      <4>2. l \in Int /\ 2 * l \in Dword /\ 2 * l + 1 \in Dword
        <5>1. l \in Line
          BY <4>1, Addresses
        <5> QED
          BY <5>1, Addresses DEF Line
      <4>3. 2 * l + h - 1 \in Dword
        BY <4>2
      <4>4. Current(wdata[h], 2 * l + h - 1, live')
        BY <3>1, <4>3, AnswersGrow DEF BeatGood
      <4> QED
        BY <1>1, <4>4 DEF BeatGood, icacheVars
    <3>2. BadLine' = BadLine
      BY <1>1 DEF BadLine, icacheVars
    <3> QED
      BY <1>1, <2>1, <3>1, <3>2 DEF CacheGood, Refilled, icacheVars
  <2> QED
    BY <2>2, <2>3, <2>4 DEF CacheGood
<1>3. stall # "wait" => InStep'
  <2> HAVE stall # "wait"
  <2>1. LowAnswers /\ FifoAnswers /\ Asked /\ Buffered
    BY DEF StreamInv, InStep
  <2>2. LowAnswers'
    <3>1. DwordOf(myPC) \in Dword
      BY <1>1, HalfParts DEF IfuData
    <3> QED
      BY <1>1, <2>1, <3>1, AnswersGrow DEF LowAnswers, Status, ifuVars
  <2>3. HeadDword' = HeadDword /\ HeadDword \in Dword /\ Len(fifo) \in Nat /\ fifo' = fifo
        /\ NextAnswer' = NextAnswer /\ NextAnswer \in Dword
    <3>1. DwordOf(myPC) \in Dword /\ fifo \in Seq(Answer) /\ fifo' = fifo
      BY <1>1, HalfParts DEF IfuData, ifuVars
    <3>2. HeadDword' = HeadDword /\ HeadDword \in Dword
      BY <1>1, <3>1, Addresses DEF HeadDword, Status, ifuVars
    <3>3. Len(fifo) \in Nat
      BY <3>1, LengthType
    <3> QED
      BY <3>1, <3>2, <3>3, AheadType DEF NextAnswer
  <2>4. FifoAnswers'
    BY <2>1, <2>3, AnswersGrow DEF FifoAnswers
  <2>5. Asked'
    <3>1. Queue' = Queue /\ invalidCnt' = invalidCnt /\ pc' = pc /\ out' = out
      BY <1>1 DEF Queue, StageQ, ifuVars, icacheVars
    <3>2. FirstRequest' = FirstRequest
      BY <1>1, <2>3, <3>1 DEF FirstRequest
    <3>3. hasIcache /\ out # None => Answers(out', NextAnswer', live')
      BY <2>1, <2>3, <3>1, AnswersGrow DEF Asked
    <3> QED
      BY <1>1, <2>1, <3>1, <3>2, <3>3 DEF Asked
  <2>6. Buffered'
    <3>1. sel' = sel /\ buf' = buf /\ myPC' = myPC
      BY <1>1 DEF ifuVars
    <3>2. \A s \in {1, 2} : buf[s] # None => Right(buf[s], live')
      <4>1. \A s \in {1, 2} : buf[s] # None => buf[s] \in Instruction
        BY <1>1 DEF IfuData
      <4> QED
        BY <2>1, <4>1, RightGrows DEF Buffered
    <3> QED
      BY <2>1, <3>1, <3>2 DEF Buffered
  <2> QED
    BY <2>2, <2>4, <2>5, <2>6 DEF InStep
<1>4. stall = "scan" => Restarted'
  BY <1>1 DEF StreamInv, Restarted, ifuVars
<1> QED
  BY <1>1, <1>2, <1>3, <1>4 DEF StreamInv

LEMMA StreamInvInit ==
    ASSUME MacroFits, Init
    PROVE  StreamInv /\ Restarted
<1>1. FetchInv
  BY FetchInvInit
<1>2. /\ arvalid = FALSE /\ fifo = <<>> /\ low = None /\ invalidCnt = 0 /\ out = None
      /\ buf[1] = None /\ buf[2] = None /\ pc = 0 /\ myPC = 0 /\ bus = <<>> /\ stall = "no"
      /\ rch = <<>> /\ mmu = <<>> /\ stage = None /\ paddr = None /\ fsm = "IDLE" /\ resp = FALSE
      /\ rows = [i \in Index |-> [w \in Way |-> None]]
      /\ mem = [l \in Line |-> 0] /\ live = [l \in Line |-> {0}]
  BY DEF Init, IfuInit, IcacheInit
<1>3. Restarted
  <2>1. DwordOf(0) = 0
    BY DEF DwordOf
  <2> QED
    BY <1>2, <2>1 DEF Restarted
<1>4. StageQ = <<>> /\ Queue = <<>> /\ Len(Queue) = 0
  <2>1. StageQ = <<>>
    BY <1>2, ConcatEmptySeq DEF StageQ, Front
  <2> QED
    BY <1>2, <2>1, Single DEF Queue
<1>5. InStep
  BY <1>1, <1>2, <1>3, <1>4, RestartedInStep DEF FetchInv
<1>6. CacheGood
  <2>1. Lockstep
    BY <1>2 DEF Lockstep, StageQ, PaddrQ
  <2>2. \A i \in Index, w \in Way : rows[i][w] = None
    BY <1>2
  <2> QED
    BY <1>2, <2>1, <2>2 DEF CacheGood, RowsGood, RowsOnce, StageRows, Refilled
<1>7. MemLive
  BY <1>2 DEF MemLive
<1> QED
  BY <1>1, <1>2, <1>3, <1>5, <1>6, <1>7 DEF StreamInv

\* A cycle with an order, the side that exists.
Cycle(o, immuHas, arready, ready) ==
    \/ hasIcache /\ \E beat \in Beats \cup {None} :
                        CycleWithIcache(o, immuHas, arready, beat, ready)
    \/ ~hasIcache /\ \E answer \in WordAnswers \cup {None} :
                        CycleWithBus(o, arready, answer, ready)

LEMMA TickCycle ==
    ASSUME NEW o, NEW immuHas \in BOOLEAN, NEW arready \in BOOLEAN, NEW answers \in BOOLEAN,
           NEW ready \in BOOLEAN, Tick(o, immuHas, arready, answers, ready)
    PROVE  /\ o \in Orders /\ (ready => InstValid) /\ PipelineStep(o, ready)
           /\ Cycle(o, immuHas, arready, ready)
<1>1. o \in Orders /\ (ready => InstValid) /\ PipelineStep(o, ready)
  BY DEF Tick
<1>2. CASE hasIcache
  <2>1. PICK beat \in (IF answers THEN Beats ELSE {None}) :
           CycleWithIcache(o, immuHas, arready, beat, ready)
    BY <1>2 DEF Tick
  <2> QED
    BY <1>1, <1>2, <2>1 DEF Cycle
<1>3. CASE ~hasIcache
  <2>1. PICK answer \in (IF answers THEN WordAnswers ELSE {None}) :
           CycleWithBus(o, arready, answer, ready)
    BY <1>3 DEF Tick
  <2> QED
    BY <1>1, <1>3, <2>1 DEF Cycle
<1> QED
  BY <1>2, <1>3

\* A flush that is not Halt empties what is under way or counts it off.
LEMMA FlushCycle ==
    ASSUME StreamInv, FetchInv', hasIcache' = hasIcache, NEW o \in Orders, o.flush = TRUE,
           o.to \in Target \/ (o.to = None /\ stall = "scan"),
           NEW immuHas \in BOOLEAN, NEW arready \in BOOLEAN, NEW ready \in BOOLEAN,
           Cycle(o, immuHas, arready, ready)
    PROVE  /\ Restarted' /\ InStep'
           /\ myPC' = IF o.to # None THEN o.to ELSE myPC
<1>1. IfuData /\ IfuData' /\ Counting' /\ BusType'
  BY DEF StreamInv, FetchInv
<1>2. o.to \in Target \cup {None} /\ (o.to = None => Restarted)
  <2>1. \A h \in Target : h # None
    BY CodeAssumption, NoneApart
  <2> QED
    BY <2>1 DEF StreamInv
<1>3. \E arr \in BOOLEAN : \E rdata : IfuStep(TRUE, o.to, arr, rdata, ready)
  <2>1. IfuArReady \in BOOLEAN
    BY DEF IfuArReady
  <2>2. CASE hasIcache
    <3>1. IfuStep(TRUE, o.to, IfuArReady, out, ready)
      BY <2>2 DEF Cycle, CycleWithIcache
    <3> QED
      BY <2>1, <3>1
  <2>3. CASE ~hasIcache
    <3>1. PICK answer : IfuStep(TRUE, o.to, arready, answer, ready)
      BY <2>3 DEF Cycle, CycleWithBus
    <3> QED
      BY <3>1
  <2> QED
    BY <2>2, <2>3
<1>4. PICK arr \in BOOLEAN : \E rdata : IfuStep(TRUE, o.to, arr, rdata, ready)
  BY <1>3
<1>5. PICK rdata : IfuStep(TRUE, o.to, arr, rdata, ready)
  BY <1>4
<1>6. Restarted' /\ pcCnt' = 0
  BY <1>1, <1>2, <1>5, FlushRestarts
<1>7. myPC' = IF o.to # None THEN o.to ELSE myPC
  <2>1. PcStep(o.to)
    BY <1>5 DEF IfuStep
  <2> QED
    BY <1>2, <2>1 DEF PcStep, CanChange, Restarted
<1>8. Len(Queue') \in Nat /\ invalidCnt' = Len(Queue') /\ (hasIcache' => out' = None)
  <2>1. CASE hasIcache
    <3>1. stage' = None /\ rch' = <<>> /\ out' = None
      BY <2>1 DEF Cycle, CycleWithIcache, IcacheStep, StageStep, QueueStep
    <3>2. Queue' = <<>>
      BY <2>1, <3>1, ConcatEmptySeq DEF Queue, StageQ, Front
    <3>3. invalidCnt' = 0
      BY <1>1, <2>1 DEF Counting
    <3> QED
      BY <3>1, <3>2, <3>3, Single
  <2>2. CASE ~hasIcache
    <3>1. Queue' = bus' /\ bus' \in Seq(Dword) /\ UnderWay' = Len(bus')
      BY <1>1, <2>2 DEF Queue, BusType, UnderWay
    <3>2. Len(bus') \in Nat
      BY <3>1, LengthType
    <3>3. /\ pcCnt' = UnderWay' - invalidCnt' + Len(fifo') /\ invalidCnt' \in Nat
          /\ Len(fifo') = 0
      BY <1>1, <1>6, Single DEF Counting, CountersAgree, Restarted
    <3> QED
      BY <1>6, <2>2, <3>1, <3>2, <3>3
  <2> QED
    BY <2>1, <2>2
<1>9. InStep'
  BY <1>1, <1>6, <1>8, RestartedNext
<1> QED
  BY <1>6, <1>7, <1>9

LEMMA StreamInvTick ==
    ASSUME StreamInv, FetchInv', FenceFits, NEW o, NEW immuHas \in BOOLEAN,
           NEW arready \in BOOLEAN, NEW answers \in BOOLEAN, NEW ready \in BOOLEAN,
           Tick(o, immuHas, arready, answers, ready)
    PROVE  StreamInv'
<1>1. /\ o \in Orders /\ (ready => InstValid) /\ PipelineStep(o, ready)
      /\ Cycle(o, immuHas, arready, ready)
      /\ FetchInv /\ MemLive /\ hasIcache \in BOOLEAN /\ MemType
  BY TickCycle DEF StreamInv, FetchInv, Counting, PipeType
<1>2. hasIcache' = hasIcache /\ mem' = mem
      /\ live' = IF FenceDone(o) THEN [l \in Line |-> {mem[l]}] ELSE live
  BY <1>1 DEF PipelineStep
<1>3. MemLive'
  BY <1>1, <1>2 DEF MemLive
<1>4. o.clear \/ LiveGrows
  BY <1>2 DEF FenceDone, LiveGrows
<1>5. o.clear => o.flush
  BY <1>1, OrderKinds
<1>6. hasIcache' => CacheGood'
  <2> HAVE hasIcache'
  <2>1. PICK beat \in Beats \cup {None} : CycleWithIcache(o, immuHas, arready, beat, ready)
    BY <1>1, <1>2 DEF Cycle
  <2> QED
    BY <1>1, <1>2, <1>4, <1>5, <2>1, CacheGoodStep DEF StreamInv
<1>7. /\ stall' # "wait" => InStep'
      /\ stall' = "scan" => Restarted'
  <2>1. CASE o = Run /\ stall = "no" /\ o.flush = FALSE /\ o.to = None /\ o.clear = FALSE
             /\ o.stall = "no"
    <3>1. stall' # "scan"
      BY <1>1, <2>1 DEF PipelineStep
    <3>2. LiveGrows /\ stall # "wait"
      BY <1>4, <2>1
    <3>3. InStep'
      BY <1>1, <1>2, <2>1, <3>2, RunInStep DEF Cycle
    <3> QED
      BY <3>1, <3>3
  <2>2. CASE o = Halt /\ o.flush = TRUE /\ o.to = None /\ o.stall = "wait"
    <3>1. stall' = "wait"
      BY <1>1, <2>2 DEF PipelineStep
    <3> QED
      BY <3>1
  <2>3. CASE o.flush = TRUE /\ (o.to \in Target \/ (o.to = None /\ stall = "scan"))
    BY <1>1, <1>2, <2>3, FlushCycle
  <2> QED
    BY <1>1, <2>1, <2>2, <2>3, OrderKinds
<1> QED
  BY <1>1, <1>3, <1>6, <1>7 DEF StreamInv

LEMMA StreamInvStep ==
    ASSUME StreamInv, FenceFits, [Next]_vars
    PROVE  StreamInv'
<1>1. FetchInv'
  BY FetchInvStep DEF StreamInv
<1>2. CASE Clock
  <2>1. PICK o \in Orders, immuHas, arready, answers, ready \in BOOLEAN :
           Tick(o, immuHas, arready, answers, ready)
    BY <1>2 DEF Clock
  <2> QED
    BY <1>1, <2>1, StreamInvTick
<1>3. CASE PatchCode
  <2>1. PICK l \in Line, v \in Version :
           /\ mem' = [mem EXCEPT ![l] = v]
           /\ live' = [live EXCEPT ![l] = @ \cup {v}]
    BY <1>3, CodeAssumption DEF PatchCode
  <2>2. mem \in [Line -> Version] /\ live \in [Line -> SUBSET Version] /\ MemLive
    BY DEF StreamInv, FetchInv, PipeType, MemType
  <2>3. MemLive' /\ LiveGrows
    BY <2>1, <2>2 DEF MemLive, LiveGrows
  <2> QED
    BY <1>1, <1>3, <2>3, StreamInvGrows DEF PatchCode
<1>4. CASE UNCHANGED vars
  <2>1. mem' = mem /\ live' = live
        /\ UNCHANGED <<ifuVars, icacheVars, hasIcache, bus, stall>>
    BY <1>4 DEF vars, envVars
  <2>2. MemLive' /\ LiveGrows
    BY <2>1 DEF StreamInv, MemLive, LiveGrows
  <2> QED
    BY <1>1, <2>1, <2>2, StreamInvGrows
<1> QED
  BY <1>2, <1>3, <1>4 DEF Next

-----------------------------------------------------------------------------
\* The steps of the stream.

LEMMA StreamWords ==
    /\ Stream!Line = Line /\ Stream!Quiet = Quiet /\ Stream!Hold = Hold
    /\ \A d : Stream!LineOf(d) = LineOf(d)
    /\ \A h : /\ Stream!DwordOf(h) = DwordOf(h) /\ Stream!Size(h) = Size(h)
              /\ Stream!Fetchable(h) <=> Fetches(DwordOf(h))
    /\ \A h, n : Stream!After(h, n) = After(h, n)
BY DEF Stream!Line, Line, Stream!Quiet, Quiet, Stream!Hold, Hold, Stream!LineOf, LineOf,
   Stream!DwordOf, DwordOf, Stream!Size, Size, Stream!Fetchable, Fetches, Stream!After, After

LEMMA RightIsCorrect ==
    ASSUME NEW i \in Instruction, Right(i, live), NextPC = i.pc
    PROVE  Stream!Correct(i)
<1> DEFINE p == i.pc
<1>1. p \in HalfWord /\ Size(p) \in {1, 2}
  BY DEF Instruction, Size
<1>2. \A n \in 1 .. Size(p) : Stream!Needed(p)[n] = After(p, n - 1)
  BY StreamWords DEF Stream!Needed
<1>3. CASE Whole(i, live)
  <2>1. i.fault = None /\ Len(i.halves) = Stream!Size(p)
    BY <1>3, StreamWords DEF Whole
  <2>2. ASSUME NEW n \in 1 .. Stream!Size(p)
        PROVE  /\ Stream!Fetchable(Stream!Needed(p)[n])
               /\ i.halves[n][1] = Stream!Needed(p)[n]
               /\ i.halves[n][2] \in live[Stream!LineOf(Stream!DwordOf(Stream!Needed(p)[n]))]
    <3>1. n \in 1 .. Size(p) /\ Stream!Needed(p)[n] = After(p, n - 1)
      BY <1>2, StreamWords
    <3>2. HalfCurrent(i.halves[n], After(p, n - 1), live)
      BY <1>3, <3>1 DEF Whole
    <3> QED
      BY <3>1, <3>2, StreamWords DEF HalfCurrent
  <2> HIDE DEF p
  <2>3. NextPC = p
    BY DEF p
  <2> QED
    BY <2>1, <2>2, <2>3 DEF Stream!Correct, p
<1>4. CASE FaultsAtOnce(i)
  BY <1>4, StreamWords DEF FaultsAtOnce, Stream!Correct
<1>5. CASE FaultsBehind(i)
  BY <1>5, StreamWords DEF FaultsBehind, Stream!Correct
<1> QED
  BY <1>3, <1>4, <1>5 DEF Right

\* What decode waits for.
LEMMA NextPCNow ==
    StreamInv => NextPC = IF stall = "wait" THEN None ELSE Awaited
<1> SUFFICES ASSUME StreamInv, stall # "wait"
             PROVE  NextPC = Awaited
  BY DEF NextPC
<1>1. Buffered
  BY DEF StreamInv, InStep
<1> QED
  BY <1>1 DEF NextPC, Awaited, InstValid, Buffered

LEMMA NextPCThen ==
    (StreamInv => NextPC = IF stall = "wait" THEN None ELSE Awaited)'
BY NextPCNow, PTL

LEMMA StreamTick ==
    ASSUME StreamInv, StreamInv', FenceFits, NEW o, NEW immuHas \in BOOLEAN,
           NEW arready \in BOOLEAN, NEW answers \in BOOLEAN, NEW ready \in BOOLEAN,
           Tick(o, immuHas, arready, answers, ready)
    PROVE  Stream!Next
<1>1. /\ o \in Orders /\ (ready => InstValid) /\ PipelineStep(o, ready)
      /\ Cycle(o, immuHas, arready, ready)
      /\ FetchInv /\ hasIcache \in BOOLEAN /\ IfuData /\ FetchInv'
  BY TickCycle DEF StreamInv, FetchInv, Counting
<1>2. /\ event' = EventOf(o, ready) /\ hasIcache' = hasIcache /\ mem' = mem
      /\ stall' = IF event'.what = "take" /\ event'.inst.fault # None THEN "wait" ELSE o.stall
      /\ live' = IF FenceDone(o) THEN [l \in Line |-> {mem[l]}] ELSE live
  BY <1>1 DEF PipelineStep
<1>3. /\ Stream!FenceEnd \/ UNCHANGED <<mem, live>>
  BY <1>2, StreamWords DEF Stream!FenceEnd
<1>4. /\ NextPC = IF stall = "wait" THEN None ELSE Awaited
      /\ NextPC' = IF stall' = "wait" THEN None ELSE Awaited'
  BY NextPCNow, NextPCThen
<1>5. SUFFICES Stream!TakeNext \/ Stream!Redirect \/ Stream!Stop \/ Stream!Wait
  BY <1>3 DEF Stream!Next
<1>6. CASE o = Run /\ stall = "no" /\ o.flush = FALSE /\ o.to = None /\ o.clear = FALSE
           /\ o.stall = "no"
  <2>1. live' = live /\ LiveGrows
    BY <1>2, <1>6 DEF FenceDone, LiveGrows
  <2>2. Awaited' = IF ~ready THEN Awaited
                   ELSE IF buf[sel].fault = None THEN Behind(buf[sel]) ELSE Awaited'
    BY <1>1, <1>2, <1>6, <2>1, RunInStep DEF Cycle
  <2>3. NextPC = Awaited
    BY <1>4, <1>6
  <2>4. o # Halt
    BY <1>6 DEF Halt, Order
  <2>5. CASE ready
    <3>1. event' = Take(buf[sel]) /\ buf[sel] # None
      BY <1>1, <1>2, <1>6, <2>4, <2>5 DEF EventOf, InstValid
    <3>2. event'.what = "take" /\ event'.inst = buf[sel]
      BY <3>1 DEF Take
    <3>3. buf[sel] \in Instruction /\ Right(buf[sel], live) /\ Awaited = buf[sel].pc
          /\ buf[sel].pc \in HalfWord
      <4>1. buf[sel] \in Instruction /\ sel \in {1, 2}
        BY <1>1, <3>1 DEF IfuData
      <4>2. Buffered
        BY <1>6 DEF StreamInv, InStep
      <4> QED
        BY <3>1, <4>1, <4>2 DEF Buffered, Awaited, Instruction
    <3>4. NextPC # None /\ Stream!Correct(buf[sel])
      BY <2>3, <3>3, NoneApart, RightIsCorrect
    <3>5. NextPC' = IF buf[sel].fault = None
                    THEN Stream!After(NextPC, Stream!Size(NextPC)) ELSE None
      <4>1. CASE buf[sel].fault = None
        <5>1. stall' = "no"
          BY <1>2, <1>6, <3>2, <4>1
        <5> QED
          BY <1>4, <2>2, <2>3, <2>5, <3>3, <4>1, <5>1, StreamWords DEF Behind
      <4>2. CASE buf[sel].fault # None
        <5>1. stall' = "wait"
          BY <1>2, <3>2, <4>2
        <5> QED
          BY <1>4, <4>2, <5>1
      <4> QED
        BY <4>1, <4>2
    <3> QED
      BY <3>2, <3>4, <3>5 DEF Stream!TakeNext
  <2>6. CASE ~ready
    <3>1. event' = Quiet
      BY <1>2, <1>6, <2>4, <2>6 DEF EventOf
    <3>2. stall' = "no"
      BY <1>2, <1>6, <3>1 DEF Quiet
    <3> QED
      BY <1>4, <2>2, <2>3, <2>6, <3>1, <3>2, StreamWords DEF Stream!Wait
  <2> QED
    BY <2>5, <2>6
<1>7. CASE o = Halt /\ o.flush = TRUE /\ o.to = None /\ o.stall = "wait"
  <2>1. event' = Hold
    BY <1>2, <1>7 DEF EventOf
  <2>2. stall' = "wait"
    BY <1>2, <1>7
  <2> QED
    BY <1>4, <2>1, <2>2, StreamWords DEF Stream!Stop
<1>8. CASE o # Halt /\ o.flush = TRUE /\ o.to \in Target /\ o.stall \in {"no", "scan"}
  <2>1. o.to # None
    BY <1>8, CodeAssumption, NoneApart
  <2>2. event' = Jump(o.to)
    BY <1>2, <2>1 DEF EventOf
  <2>3. event'.what = "jump" /\ event'.to = o.to /\ stall' # "wait"
    BY <1>2, <1>8, <2>2 DEF Jump
  <2>4. Restarted' /\ myPC' = o.to
    BY <1>1, <1>2, <1>8, <2>1, FlushCycle
  <2>5. Awaited' = o.to
    BY <1>1, <2>4 DEF Awaited, Restarted, FetchInv, IfuData
  <2> QED
    BY <1>4, <2>3, <2>5 DEF Stream!Redirect
<1>9. CASE o # Halt /\ stall = "scan" /\ o.flush = TRUE /\ o.to = None
           /\ o.stall \in {"no", "scan"}
  <2>1. event' = Quiet
    BY <1>2, <1>9 DEF EventOf
  <2>2. stall' # "wait"
    BY <1>2, <1>9, <2>1 DEF Quiet
  <2>3. Restarted' /\ myPC' = myPC
    BY <1>1, <1>2, <1>9, FlushCycle
  <2>4. Awaited' = myPC /\ Awaited = myPC
    <3>1. Restarted /\ IfuData /\ IfuData'
      BY <1>1, <1>9 DEF StreamInv, FetchInv
    <3> QED
      BY <2>3, <3>1 DEF Awaited, Restarted, IfuData
  <2> QED
    BY <1>4, <1>9, <2>1, <2>2, <2>4, StreamWords DEF Stream!Wait
<1> QED
  BY <1>1, <1>6, <1>7, <1>8, <1>9, OrderKinds

LEMMA StreamStep ==
    ASSUME StreamInv, StreamInv', FenceFits, [Next]_vars
    PROVE  [Stream!Next]_(Stream!stream)
<1>1. CASE Clock
  <2>1. PICK o \in Orders, immuHas, arready, answers, ready \in BOOLEAN :
           Tick(o, immuHas, arready, answers, ready)
    BY <1>1 DEF Clock
  <2> QED
    BY <2>1, StreamTick
<1>2. ASSUME UNCHANGED <<ifuVars, stall>>
      PROVE  NextPC' = NextPC
  BY <1>2 DEF ifuVars, NextPC, InstValid, Other
<1>3. CASE PatchCode
  <2>1. NextPC' = NextPC /\ event' = Quiet
    BY <1>2, <1>3 DEF PatchCode
  <2>2. Stream!Patch
    BY <1>3 DEF PatchCode, Stream!Patch
  <2> QED
    BY <2>1, <2>2, StreamWords DEF Stream!Next, Stream!Wait
<1>4. CASE UNCHANGED vars
  BY <1>2, <1>4 DEF vars, envVars, Stream!stream
<1> QED
  BY <1>1, <1>3, <1>4 DEF Next

\* Decode takes exactly the program's instructions, in order, each once, whole,
\* with the right fault, from the target of the last jump on, and none of their
\* half-words is older than the last fence.i (ifu.v, icache.v and the flush
\* wires of core_top_with_i_dcache.v).
THEOREM FetchIsStream ==
    ASSUME MacroFits, FenceFits
    PROVE  Spec => ImplementsStream
<1>1. Init => StreamInv /\ Stream!Init
  <2> HAVE Init
  <2>1. StreamInv /\ Restarted
    BY StreamInvInit
  <2>2. /\ event = Quiet /\ mem = [l \in Line |-> 0] /\ live = [l \in Line |-> {0}]
        /\ stall = "no" /\ myPC = 0 /\ buf[sel] = None
    BY DEF Init, IfuInit
  <2>3. NextPC = 0
    BY <2>1, <2>2, NextPCNow DEF Awaited
  <2> QED
    BY <2>1, <2>2, <2>3, StreamWords DEF Stream!Init
<1>2. StreamInv /\ [Next]_vars => StreamInv'
  BY StreamInvStep
<1>3. StreamInv /\ StreamInv' /\ [Next]_vars => [Stream!Next]_(Stream!stream)
  BY StreamStep
<1> QED
  BY <1>1, <1>2, <1>3, PTL DEF Spec, ImplementsStream, Stream!Spec
=============================================================================
