--------------------------------- MODULE Ifu --------------------------------
(***************************************************************************)
(* ifu.v with its ifu_fifo: requests double words ahead of decode, counts  *)
(* what is under way, cuts the answers into instructions at half-word      *)
(* boundaries and keeps two of them ready for decode.                      *)
(* The macro USE_ICACHE is the variable useIcache, fixed at elaboration:   *)
(* with it a flush reaches the requests too, without it ifu counts the     *)
(* answers it has to throw away.                                           *)
(***************************************************************************)
EXTENDS CodeMemory

VARIABLES
    useIcache,
    pc,         \* the double word to request next
    arvalid,    \* ifu_arvalid_reg
    pcCnt,      \* requested and not yet read from the fifo, of this stream
    pcAllCnt,   \* requested and not yet answered
    instCnt,    \* requested since the flush and not answered (read without USE_ICACHE)
    invalidCnt, \* answers still to be thrown away (flag and count are one number)
    fifo,       \* answers: [dword, ver, kind]
    low,        \* inst_rdata_reg, rresp_rdata_reg; None: inst_my_reg_valid is 0
    myPC,       \* my_reg_PC_reg
    buf,        \* IF_ID registers 1 and 2: an instruction or None
    sel         \* IF_ID_reg_sel_reg + 1

ifuVars == <<useIcache, pc, arvalid, pcCnt, pcAllCnt, instCnt, invalidCnt,
             fifo, low, myPC, buf, sel>>

\* An answer: a double word, or noise of either length when it failed.
Answer == [dword : Dword, ver : Version \cup {Unwritten}, kind : {"ok", "noise16", "noise32"}]
Good(d, v) == [dword |-> d, ver |-> v, kind |-> "ok"]
Failed == {[dword |-> 0, ver |-> Unwritten, kind |-> k] : k \in {"noise16", "noise32"}}

IfuTypeOK ==
    /\ useIcache \in BOOLEAN
    /\ pc \in Dword /\ arvalid \in BOOLEAN
    /\ pcCnt \in 0 .. 4 /\ pcAllCnt \in 0 .. 4 /\ instCnt \in 0 .. 4
    /\ invalidCnt \in 0 .. 4
    /\ fifo \in Seq(Answer) /\ Len(fifo) <= 4
    /\ low \in Answer \cup {None}
    /\ myPC \in HalfWord
    /\ buf \in [{1, 2} -> Instruction \cup {None}]
    /\ sel \in {1, 2}

IfuInit ==
    /\ pc = 0 /\ arvalid = FALSE
    /\ pcCnt = 0 /\ pcAllCnt = 0 /\ instCnt = 0 /\ invalidCnt = 0
    /\ fifo = <<>> /\ low = None
    /\ myPC = 0 /\ buf = [s \in {1, 2} |-> None] /\ sel = 1

-----------------------------------------------------------------------------
\* Cutting answers into instructions.

\* status: where in the double word at the head of the fifo the instruction
\* starts; 3: in the last half-word of the double word before it.
Status == myPC % 4

LongAt(a, n) == IF a.kind = "ok" THEN (4 * a.dword + n) \in Wide ELSE a.kind = "noise32"
HalfOf(a, n) == <<4 * a.dword + n, a.ver>>

FirstWord == IF Status = 3 THEN low ELSE Head(fifo)
SecondHalf == HalfOf(Head(fifo), (Status + 1) % 4)
InstLong == LongAt(FirstWord, Status)

\* rresp_to_idu and tval_to_idu.
FaultAt ==
    IF FirstWord.kind # "ok" THEN myPC
    ELSE IF InstLong /\ Head(fifo).kind # "ok" THEN After(myPC, 1)
    ELSE None

InstToIdu ==
    [pc |-> myPC,
     halves |-> IF FaultAt # None THEN <<>>
                ELSE IF InstLong THEN <<HalfOf(FirstWord, Status), SecondHalf>>
                ELSE <<HalfOf(FirstWord, Status)>>,
     fault |-> FaultAt]

CanCover == buf[1] = None \/ buf[2] = None
CanChange == CanCover /\ fifo # <<>> /\ (Status = 3 => low # None)
AfterJump == CanCover /\ fifo # <<>> /\ Status = 3 /\ low = None

\* fifo_ren: the last half-word of the head is used, or moves to low.
FifoRen ==
    \/ AfterJump
    \/ Status = 1 /\ CanChange /\ InstLong
    \/ Status = 2 /\ CanChange

InstValid == buf[sel] # None

-----------------------------------------------------------------------------
\* Registers at a clock edge.  flush = ID_IF_flush_flag | jump_flag; target is
\* None without jump_flag; fire = ifu_arvalid & ifu_arready; rdata the answer
\* on the read channel, None when there is none; ready = ID_IF_inst_ready.

\* Counters that go up by one, down by one, or neither.
Counted(n, up, down) == n + (IF up THEN 1 ELSE 0) - (IF down THEN 1 ELSE 0)

RequestStep(flush, target, fire, rvalid) ==
    /\ pc' = IF target # None THEN DwordOf(target) ELSE IF fire THEN NextDword(pc) ELSE pc
    /\ arvalid' = IF flush THEN FALSE
                  ELSE IF arvalid
                  THEN ~(fire /\ (\/ pcCnt = 3 /\ ~FifoRen
                                  \/ pcAllCnt = 3 /\ ~rvalid))
                  ELSE pcCnt # 4 /\ pcAllCnt # 4

\* Mutant of CountStep: answers thrown away are counted off instCnt as well.
CountStepDouble(flush, fire, rvalid) ==
    /\ pcCnt' = IF flush THEN 0 ELSE Counted(pcCnt, fire, FifoRen)
    /\ pcAllCnt' = IF useIcache /\ flush THEN 0 ELSE Counted(pcAllCnt, fire, rvalid)
    /\ instCnt' = IF flush \/ useIcache THEN 0 ELSE Counted(instCnt, fire, rvalid)
    /\ invalidCnt' =
        IF useIcache THEN 0
        ELSE IF flush THEN Counted(invalidCnt + instCnt, fire, rvalid)
        ELSE IF invalidCnt > 0 /\ rvalid THEN invalidCnt - 1
        ELSE invalidCnt

\* Mutant of CountStep: a request accepted in the cycle of the flush is not
\* counted among those whose answer is thrown away.
CountStepForgets(flush, fire, rvalid) ==
    /\ pcCnt' = IF flush THEN 0 ELSE Counted(pcCnt, fire, FifoRen)
    /\ pcAllCnt' = IF useIcache /\ flush THEN 0 ELSE Counted(pcAllCnt, fire, rvalid)
    /\ instCnt' = IF flush \/ useIcache THEN 0
                  ELSE Counted(instCnt, fire, rvalid /\ invalidCnt = 0)
    /\ invalidCnt' =
        IF useIcache THEN 0
        ELSE IF flush /\ invalidCnt + instCnt > 0 THEN Counted(invalidCnt + instCnt, FALSE, rvalid)
        ELSE IF invalidCnt > 0 /\ rvalid THEN invalidCnt - 1
        ELSE invalidCnt

CountStep(flush, fire, rvalid) ==
    /\ pcCnt' = IF flush THEN 0 ELSE Counted(pcCnt, fire, FifoRen)
    /\ pcAllCnt' = IF useIcache /\ flush THEN 0 ELSE Counted(pcAllCnt, fire, rvalid)
    /\ instCnt' = IF flush \/ useIcache THEN 0
                  ELSE Counted(instCnt, fire, rvalid /\ invalidCnt = 0)
    /\ invalidCnt' =
        IF useIcache THEN 0
        ELSE IF flush THEN Counted(invalidCnt + instCnt, fire, rvalid)
        ELSE IF invalidCnt > 0 /\ rvalid THEN invalidCnt - 1
        ELSE invalidCnt

\* A flush empties the fifo (ifu_fifo: the write pointer goes back).
FifoStep(flush, rdata) ==
    /\ fifo' = IF flush THEN <<>>
               ELSE (IF FifoRen THEN Tail(fifo) ELSE fifo)
                    \o (IF rdata # None /\ invalidCnt = 0 THEN <<rdata>> ELSE <<>>)
    /\ low' = IF flush THEN None ELSE IF FifoRen THEN Head(fifo) ELSE low

PcStep(target) ==
    myPC' = IF target # None THEN target
            ELSE IF CanChange THEN After(myPC, IF InstLong THEN 2 ELSE 1)
            ELSE myPC

\* reg1_can_change_flag, reg2_can_change_flag: the next instruction goes to the
\* register shown to decode when it is empty, else to the other.
Other(s) == 3 - s
FillOf(s) == CanChange /\ (IF s = sel THEN buf[s] = None ELSE buf[sel] # None)

BufferStep(flush, ready) ==
    /\ buf' = [s \in {1, 2} |->
                 IF flush THEN None
                 ELSE IF buf[s] = None \/ (s = sel /\ ready)
                 THEN (IF FillOf(s) THEN InstToIdu ELSE None)
                 ELSE buf[s]]
    /\ sel' = IF flush THEN 1 ELSE IF InstValid /\ ready THEN Other(sel) ELSE sel

IfuStep(flush, target, arready, rdata, ready) ==
    LET fire == arvalid /\ arready
        rvalid == rdata # None
    IN /\ RequestStep(flush, target, fire, rvalid)
       /\ CountStep(flush, fire, rvalid)
       /\ FifoStep(flush, rdata)
       /\ PcStep(target)
       /\ BufferStep(flush, ready)
       /\ UNCHANGED useIcache
=============================================================================
