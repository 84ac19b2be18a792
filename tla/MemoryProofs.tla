---------------------------- MODULE MemoryProofs ----------------------------
(***************************************************************************)
(* Proofs that the data cache loses no store: TypeOK, CachedOnce and the   *)
(* refinement of MemoryPorts, and that fence.i leaves no dirty row, for    *)
(* every number of tags, sets and ways, every program and every flush.     *)
(***************************************************************************)
EXTENDS DcacheProofs, FiniteSetTheorems, WellFoundedInduction

-----------------------------------------------------------------------------
Writing == {"WAIT_AW_W", "WAIT_AW", "WAIT_W", "WAIT_B"}
Reading == {"WAIT_AR", "WAIT_R"}

\* A row of the arrays names its line.
CacheRow == [line : Line, data : Word \X Word, dirty : BOOLEAN]
RowsAt(i) == [w \in Way |-> c[w][i]]

\* A request is held while its port is not idle.
Requests ==
    /\ l_state = "idle" <=> l_op = None
    /\ l_state = "stage" => l_paddr # "none"
    /\ w_state = "idle" <=> w_addr = None
    /\ m_valid \/ f_for = "walk" => m_addr # None

\* The two stages never hold requests of one set.
SetsApart == l_state = "stage" /\ m_valid => ~SameIndex(m_addr[1], l_op.line)

\* The rows a stage compares are those of the arrays, until the transfer of its
\* request has changed them.
LsuSpent == (x # None /\ x.single) \/ LsuSend
RowsLatched ==
    /\ l_state = "stage" /\ ~LsuSpent =>
          IF l_cap = None THEN c_q = l_op.line[2] ELSE l_cap = RowsAt(l_op.line[2])
    /\ m_valid /\ ~WalkSend =>
          IF m_cap = None THEN c_q = m_addr[1][2] ELSE m_cap = RowsAt(m_addr[1][2])

\* CachedOnce, way by way.
Uncached(l) == \A w \in Way : c[w][l[2]] # None => c[w][l[2]].line # l
ArraySound ==
    /\ c \in [Way -> [Index -> CacheRow \cup {None}]]
    /\ \A w \in Way, i \in Index :
          c[w][i] # None => /\ c[w][i].line[2] = i
                            /\ c[w][i].dirty \/ c[w][i].data = mem[c[w][i].line]
    /\ \A v \in Way, w \in Way, i \in Index :
          c[v][i] # None /\ c[w][i] # None /\ c[v][i].line = c[w][i].line => v = w

\* Which registers a state of dcache_fsm uses, and how far its burst is.
BurstShape ==
    /\ f_state \in {"IDLE", "FLUSH"} => f_for = "lsu"
    /\ f_state \in {"IDLE", "FLUSH_READ"} => x = None /\ b = <<>>
    /\ f_state \in Writing \cup Reading \cup {"WAIT_ERROR"} => x # None
    /\ x # None => (x.single => x.last /\ f_for = "lsu")
    /\ f_state \in {"WAIT_AW_W", "WAIT_W"} => Len(b) = IF ~x.single /\ x.last THEN 1 ELSE 0
    /\ f_state \in {"WAIT_AW", "WAIT_B"} => x.last /\ Len(b) = IF x.single THEN 1 ELSE 2
    /\ f_state = "WAIT_AR" => b = <<>>
    /\ f_state = "WAIT_R" => Len(b) <= IF x.single THEN 0 ELSE 1
    /\ f_state = "WAIT_ERROR" => ~x.single /\ Len(b) = 1 /\ ~f_ok
    /\ f_state = "WRITE_CACHE" => f_ok
    /\ f_state \in {"WRITE_CACHE", "FLUSH"} /\ x # None => ~x.single
    /\ f_state = "SEND_DATA" /\ f_ok => Len(b) >= 1

\* The request, the way and the row a transfer is about.
Hits == IF f_for = "walk" THEN MHits ELSE LHits
Asked == IF f_for = "walk" THEN m_addr[1] ELSE l_op.line
VictimWay == IF f_for = "scan" THEN s_way ELSE IF f_for = "walk" THEN MWay ELSE LWay
VictimIndex == IF f_for = "scan" THEN s_index ELSE Asked[2]
VictimRow == c[VictimWay][VictimIndex]
Beats(d) == (Len(b) >= 1 => b[1] = d[1]) /\ (Len(b) = 2 => b[2] = d[2])
VictimSaved == VictimRow # None => mem[VictimRow.line] = VictimRow.data

\* The two words that go out are those of the victim; a flush may cut the
\* second off, but then the victim is still there, and dirty.
WriteBack ==
    f_state \in Writing /\ ~x.single =>
        IF f_flush
        THEN \E w \in Way : /\ IsDirty(c[w][x.line[2]])
                            /\ c[w][x.line[2]].line = x.line
        ELSE /\ IsDirty(VictimRow) /\ x.line = VictimRow.line
             /\ Beats(VictimRow.data)
             /\ ~x.last => x.wdata = VictimRow.data[1]
             /\ x.last /\ Len(b) = 1 => x.wdata = VictimRow.data[2]

\* The words that come in are those memory holds of a line that is in no way,
\* and the row they will replace may go.
Refilling ==
    \/ f_state \in Reading /\ ~x.single /\ ~f_flush
    \/ f_state = "WRITE_CACHE" /\ Hits = {}
Refill ==
    /\ Refilling => /\ x # None /\ x.line = Asked
                    /\ Hits = {}
                    /\ Beats(mem[Asked])
                    /\ VictimSaved
    /\ f_state = "WRITE_CACHE" /\ Hits = {} => Len(b) = 2
    /\ f_state = "FLUSH" => VictimSaved

\* A word of a request that goes past the cache.
SingleBeat ==
    f_state \in Writing \cup Reading /\ x.single =>
        /\ Single(l_op) /\ x.line = l_op.line /\ x.half = l_op.half
        /\ Uncached(l_op.line)
        /\ f_state \in Reading <=> IsRead(l_op)
        /\ f_state \in Writing => (IF Len(b) = 0 THEN x.wdata ELSE b[1]) = OpWord(l_op)

\* A transfer for the LSU serves the request in its stage.
LsuTransfer ==
    /\ f_for = "lsu" /\ f_state # "IDLE" => l_state = "stage" /\ l_paddr = "ok"
    /\ f_for = "lsu" /\ f_state \in Writing \cup Reading /\ ~x.single =>
          IF LHits # {} THEN Locked(l_op) /\ f_state \in Writing ELSE ~Single(l_op)
    /\ f_for = "lsu" /\ f_state = "WRITE_CACHE" =>
          IF LHits # {} THEN l_op.kind = "store" ELSE ~Single(l_op)
    /\ f_state = "FLUSH" => Locked(l_op) /\ LHits # {}

\* A transfer for the walker serves the request in its stage, or was flushed.
WalkTransfer ==
    /\ f_for = "walk" => f_state \in Transfer \cup {"WRITE_CACHE", "SEND_DATA", "WAIT_ERROR"}
    /\ f_for = "walk" /\ f_state \in Transfer /\ ~f_flush => m_valid /\ MHits = {}
    /\ f_for = "walk" /\ f_state = "WRITE_CACHE" => m_valid /\ MHits = {}
    /\ f_flush => f_for = "walk" /\ f_state \in Transfer \cup {"WAIT_ERROR"}

\* The scan of fence.i.
ScanTransfer ==
    /\ fence # "no" => l_state = "idle"
    /\ fence = "on" => w_state = "idle" /\ ~m_valid
    /\ f_for # "scan" => s_way = 0 /\ s_index = 0
    /\ f_for = "scan" => fence = "on" /\ f_state \in Writing \cup {"FLUSH_READ"}
    /\ f_state = "FLUSH_READ" => f_for = "scan" /\ c_q = s_index
    /\ f_for = "scan" /\ f_state \in Writing => s_row = c[s_way][s_index]

\* No fence.i enters LS while the refill of a walk is written in another set.
RefillUnfenced ==
    ~(fence = "first" /\ f_state = "WRITE_CACHE" /\ f_for = "walk" /\ m_addr[1][2] # 0)

\* The inductive invariant behind TypeOK, CachedOnce and the refinement.
CacheInv ==
    /\ TypeOK /\ Requests /\ SetsApart /\ RowsLatched /\ ArraySound
    /\ BurstShape /\ WriteBack /\ Refill /\ SingleBeat
    /\ LsuTransfer /\ WalkTransfer /\ ScanTransfer

-----------------------------------------------------------------------------
\* Numbers and sequences.

LEMMA LeastNumber ==
    ASSUME NEW S \in SUBSET Nat, S # {}
    PROVE  \E m \in S : \A n \in S : m <= n
<1> DEFINE R == {ss \in Nat \X Nat : ss[1] < ss[2]}
<1>1. IsWellFoundedOn(R, Nat)
  BY NatLessThanWellFounded DEF OpToRel
<1> HIDE DEF R
<1>2. PICK m \in S : \A n \in S : <<n, m>> \notin R
  BY <1>1, WFMin
<1>3. \A n \in S : ~(n < m)
  BY <1>2 DEF R
<1> QED
  BY <1>3

\* The highest and the lowest of some ways are among them.
LEMMA PickWay ==
    ASSUME NEW ways \in SUBSET Way, ways # {}
    PROVE  Highest(ways) \in ways /\ Lowest(ways) \in ways
<1>1. LastWay \in Nat /\ Way = 0 .. LastWay
  BY DcacheAssumption
<1>2. \E w \in ways : \A v \in ways : w <= v
  BY <1>1, LeastNumber
<1>3. \E w \in ways : \A v \in ways : v <= w
  <2> DEFINE mirror == {LastWay - w : w \in ways}
  <2>1. mirror \in SUBSET Nat /\ mirror # {}
    BY <1>1
  <2>2. PICK m \in mirror : \A n \in mirror : m <= n
    BY <2>1, LeastNumber
  <2>3. PICK w \in ways : m = LastWay - w
    OBVIOUS
  <2>4. \A v \in ways : LastWay - w <= LastWay - v
    BY <2>2, <2>3
  <2> QED
    BY <2>4, <1>1
<1> QED
  BY <1>2, <1>3 DEF Highest, Lowest

LEMMA AppendWord ==
    ASSUME NEW s \in Seq(Word), Len(s) <= 1, NEW v \in Word
    PROVE  /\ Append(s, v) \in Seq(Word)
           /\ Len(Append(s, v)) = Len(s) + 1
           /\ Len(s) = 0 => Append(s, v)[1] = v
           /\ Len(s) = 1 => Append(s, v)[1] = s[1] /\ Append(s, v)[2] = v
OBVIOUS

-----------------------------------------------------------------------------
\* The rows the two stages compare.

LEMMA LineOfRequest ==
    ASSUME TypeOK
    PROVE  /\ l_op # None => l_op \in Op /\ l_op.line \in Line /\ l_op.line[2] \in Index
           /\ l_op # None => l_op.half \in Half /\ OpWord(l_op) \in Word
           /\ m_addr # None => /\ m_addr \in WalkAddr /\ m_addr[1] \in Line
                               /\ m_addr[1][2] \in Index /\ m_addr[2] \in Half
           /\ w_addr # None => w_addr \in WalkAddr /\ w_addr[1][2] \in Index
<1>1. Op \subseteq OpRecord /\ WalkAddr \subseteq (Line \ Device) \X Half
  BY DcacheAssumption
<1> QED
  BY <1>1 DEF TypeOK, OpRecord, Line, OpWord, WordAt, Word

LEMMA ShownRows ==
    ASSUME TypeOK, NEW i \in Index
    PROVE  /\ Shown(i) \in Rows
           /\ c_q = i => Shown(i) = RowsAt(i)
<1>1. \A w \in Way, j \in Index : c[w][j] = None \/ c[w][j] \in Row
  BY DEF TypeOK
<1>2. Noise \in Row
  BY DEF Noise, Row, Word
<1>3. \A w \in Way : Q(w) \in Row
  BY <1>1, <1>2 DEF Q, TypeOK
<1>4. \A q \in Row, r \in Row : [q EXCEPT !.dirty = r.dirty] \in Row
  BY DEF Row
<1>5. Shown(i) \in Rows
  BY <1>1, <1>3, <1>4 DEF Shown, Rows
<1>6. ASSUME c_q = i
      PROVE  Shown(i) = RowsAt(i)
  <2>1. c_q # None
    BY <1>6, NoneAssumption
  <2>2. \A w \in Way : c[w][i] # None => Q(w) = c[w][i]
    BY <2>1, <1>6 DEF Q
  <2>3. \A r \in Row : [r EXCEPT !.dirty = r.dirty] = r
    BY DEF Row
  <2> QED
    BY <2>2, <2>3, <1>1 DEF Shown, RowsAt
<1> QED
  BY <1>5, <1>6

LEMMA StageRows ==
    ASSUME TypeOK
    PROVE  /\ l_op # None => LWays \in Rows
           /\ m_addr # None => MWays \in Rows
BY LineOfRequest, ShownRows DEF LWays, MWays, TypeOK

LEMMA StageWays ==
    ASSUME TypeOK
    PROVE  /\ LHits \subseteq Way /\ MHits \subseteq Way
           /\ LWay \in Way /\ MWay \in Way
           /\ LHits # {} => LWay \in LHits
           /\ MHits # {} => Highest(MHits) \in MHits
<1>1. LHits \in SUBSET Way /\ MHits \in SUBSET Way
  BY DEF LHits, MHits, HitWays
<1>2. \A rows : Free(rows) \in SUBSET Way
  BY DEF Free
<1>3. \A rows : \A rand \in Way : Victim(rows, rand) \in Way
  BY <1>2, PickWay DEF Victim
<1>4. l_rand \in Way /\ m_rand \in Way
  BY DEF TypeOK
<1>5. LHits # {} => LWay = Highest(LHits) /\ Highest(LHits) \in LHits
  <2>1. LHits # {} => Highest(LHits) \in LHits
    BY <1>1, PickWay
  <2> QED
    BY <2>1 DEF LWay
<1>6. LHits = {} => LWay \in Way
  BY <1>3, <1>4 DEF LWay
<1>7. MHits # {} => Highest(MHits) \in MHits
  BY <1>1, PickWay
<1> QED
  BY <1>1, <1>3, <1>4, <1>5, <1>6, <1>7 DEF MWay

LEMMA LsuRows ==
    ASSUME CacheInv, l_state = "stage", ~LsuSpent
    PROVE  LWays = RowsAt(l_op.line[2])
<1>1. l_op # None
  BY DEF CacheInv, Requests
<1> QED
  BY <1>1, LineOfRequest, ShownRows DEF CacheInv, RowsLatched, LWays

LEMMA WalkRows ==
    ASSUME CacheInv, m_valid, ~WalkSend
    PROVE  MWays = RowsAt(m_addr[1][2])
<1>1. m_addr # None
  BY DEF CacheInv, Requests
<1> QED
  BY <1>1, LineOfRequest, ShownRows DEF CacheInv, RowsLatched, MWays

\* Of sound rows, the tag tells the line.
LEMMA HitsOfRows ==
    ASSUME ArraySound, NEW l \in Line
    PROVE  HitWays(RowsAt(l[2]), l[1])
             = {w \in Way : c[w][l[2]] # None /\ c[w][l[2]].line = l}
<1>1. l[2] \in Index
  BY DEF Line
<1>2. \A w \in Way : c[w][l[2]] # None => c[w][l[2]].line \in Line /\ c[w][l[2]].line[2] = l[2]
  BY <1>1 DEF ArraySound, CacheRow
<1>3. \A k \in Line : k[2] = l[2] => (k[1] = l[1] <=> k = l)
  BY DEF Line
<1>4. \A w \in Way : c[w][l[2]] # None => c[w][l[2]].line # None
  BY <1>2, NoneAssumption
<1>5. \A w \in Way : RowsAt(l[2])[w] = c[w][l[2]]
  BY DEF RowsAt
<1> QED
  BY <1>2, <1>3, <1>4, <1>5 DEF HitWays

LEMMA LsuHits ==
    ASSUME CacheInv, l_state = "stage", ~LsuSpent
    PROVE  /\ LHits = {w \in Way : c[w][l_op.line[2]] # None /\ c[w][l_op.line[2]].line = l_op.line}
           /\ LHits = {} => Uncached(l_op.line)
           /\ LWays[LWay] = c[LWay][l_op.line[2]]
<1>1. l_op # None
  BY DEF CacheInv, Requests
<1>2. LWays = RowsAt(l_op.line[2])
  BY LsuRows
<1>3. l_op.line \in Line
  BY <1>1, LineOfRequest DEF CacheInv
<1>4. LHits = {w \in Way : c[w][l_op.line[2]] # None /\ c[w][l_op.line[2]].line = l_op.line}
  BY <1>2, <1>3, HitsOfRows DEF LHits, CacheInv
<1>5. LWay \in Way
  BY StageWays DEF CacheInv
<1> QED
  BY <1>2, <1>4, <1>5 DEF Uncached, RowsAt

LEMMA WalkHits ==
    ASSUME CacheInv, m_valid, ~WalkSend
    PROVE  /\ MHits = {w \in Way : c[w][m_addr[1][2]] # None /\ c[w][m_addr[1][2]].line = m_addr[1]}
           /\ MHits = {} => Uncached(m_addr[1])
           /\ MWays[MWay] = c[MWay][m_addr[1][2]]
<1>1. m_addr # None
  BY DEF CacheInv, Requests
<1>2. MWays = RowsAt(m_addr[1][2])
  BY WalkRows
<1>3. m_addr[1] \in Line
  BY <1>1, LineOfRequest DEF CacheInv
<1>4. MHits = {w \in Way : c[w][m_addr[1][2]] # None /\ c[w][m_addr[1][2]].line = m_addr[1]}
  BY <1>2, <1>3, HitsOfRows DEF MHits, CacheInv
<1>5. MWay \in Way
  BY StageWays DEF CacheInv
<1> QED
  BY <1>2, <1>4, <1>5 DEF Uncached, RowsAt

-----------------------------------------------------------------------------
\* What an edge does to the two stages.

\* A flush finds the LSU idle.
LEMMA FlushFindsIdle ==
    ASSUME CacheInv, NEW flush \in FlushIn
    PROVE  /\ flush \in BOOLEAN
           /\ flush => l_state = "idle" /\ fence # "on"
           /\ fence = "first" => flush
BY DEF FlushIn, CacheInv, ScanTransfer, TypeOK

\* A request in the LSU's stage that is not answered stays, with its rows.
LEMMA LsuStageKept ==
    ASSUME CacheInv, NEW flush \in FlushIn, LsuStep(flush),
           l_state = "stage", ~LsuPush
    PROVE  /\ l_state' = "stage" /\ l_op' = l_op /\ l_paddr' = l_paddr
           /\ l_cap' = LWays /\ l_cap' # None
           /\ LWays' = LWays /\ LHits' = LHits /\ LWay' = LWay
<1>1. /\ l_state' = "stage" /\ l_op' = l_op /\ l_paddr' = l_paddr
      /\ l_cap' = LWays /\ l_rand' = l_rand
  BY DEF LsuStep
<1>2. LWays \in Rows
  BY StageRows DEF CacheInv, Requests
<1>3. l_cap' # None
  BY <1>1, <1>2, NoneAssumption
<1>4. LWays' = LWays
  BY <1>1, <1>3 DEF LWays
<1>5. LHits' = LHits
  BY <1>1, <1>4 DEF LHits
<1> QED
  BY <1>1, <1>3, <1>4, <1>5 DEF LWay

\* So does a read in the walker's stage, unless it is flushed.
LEMMA WalkStageKept ==
    ASSUME CacheInv, NEW flush \in FlushIn, WalkStep(flush),
           m_valid, ~WalkPush, ~flush
    PROVE  /\ m_valid' /\ ~WalkTake /\ m_addr' = m_addr
           /\ m_cap' = MWays /\ m_cap' # None
           /\ MWays' = MWays /\ MHits' = MHits /\ MWay' = MWay
<1>1. ~WalkTake
  BY DEF WalkTake
<1>2. m_valid'
  BY <1>1 DEF WalkStep
<1>3. m_addr # None
  BY DEF CacheInv, Requests
<1>4. m_addr' = m_addr /\ m_cap' = MWays /\ m_rand' = m_rand
  BY <1>1, <1>2, <1>3 DEF WalkStep
<1>5. MWays \in Rows
  BY <1>3, StageRows DEF CacheInv
<1>6. m_cap' # None
  BY <1>4, <1>5, NoneAssumption
<1>7. MWays' = MWays
  BY <1>4, <1>6 DEF MWays
<1>8. MHits' = MHits
  BY <1>4, <1>7 DEF MHits
<1> QED
  BY <1>1, <1>2, <1>4, <1>6, <1>7, <1>8 DEF MWay

\* A transfer for the LSU is answered in its last state only, one for the walker
\* as well.
LEMMA NoPush ==
    ASSUME CacheInv, f_state \notin {"IDLE", "SEND_DATA"}
    PROVE  /\ ~WalkPush
           /\ LsuPush => f_state = "WRITE_CACHE" /\ f_for = "lsu" /\ LHits # {}
BY DEF WalkPush, WalkHit, WalkSend, LsuPush, LsuFault, LsuLoadHit, LsuStoreHit, LsuSend

-----------------------------------------------------------------------------
\* What an edge does to the arrays and to memory.

\* One of the four writes, or none.
Write(way, i, row) == c' = [c EXCEPT ![way][i] = row]
FillWay == IF f_for = "walk" THEN MWay ELSE LWay

LEMMA ArrayChange ==
    ASSUME CacheInv, RefillUnfenced, NEW flush \in FlushIn, NEW bus \in BusIn,
           ArrayStep(bus)
    PROVE  \/ /\ f_state = "WRITE_CACHE" /\ f_for \in {"lsu", "walk"}
              /\ Write(FillWay, Asked[2], NewRow)
           \/ f_state = "FLUSH" /\ Write(LWay, l_op.line[2], None)
           \/ f_for = "scan" /\ ScanClears(bus) /\ Write(s_way, s_index, None)
           \/ f_state \notin {"WRITE_CACHE", "FLUSH"} /\ ~ScanClears(bus) /\ c' = c
<1> USE DEF Write
<1>1. CASE f_state = "WRITE_CACHE"
  <2>1. f_for \in {"lsu", "walk"}
    BY <1>1 DEF CacheInv, ScanTransfer, TypeOK, Writing
  <2>2. WrittenIndex = Asked[2]
    <3>1. CASE f_for = "lsu"
      BY <3>1, <1>1 DEF CacheInv, LsuTransfer, ScanTransfer, WrittenIndex, Asked
    <3>2. CASE f_for = "walk"
      <4>1. m_valid
        BY <3>2, <1>1 DEF CacheInv, WalkTransfer
      <4>2. fence \in {"no", "first"}
        BY <4>1 DEF CacheInv, ScanTransfer, TypeOK
      <4>3. s_index = 0
        BY <3>2 DEF CacheInv, ScanTransfer
      <4> QED
        BY <3>2, <1>1, <4>2, <4>3 DEF RefillUnfenced, WrittenIndex, Asked
    <3> QED
      BY <2>1, <3>1, <3>2
  <2>3. WrittenWay = FillWay
    BY DEF WrittenWay, FillWay
  <2> QED
    BY <1>1, <2>1, <2>2, <2>3 DEF ArrayStep
<1>2. CASE f_state = "FLUSH"
  BY <1>2 DEF ArrayStep
<1>3. CASE f_state \notin {"WRITE_CACHE", "FLUSH"} /\ ScanClears(bus)
  <2>1. f_for = "scan"
    BY <1>3 DEF ScanClears, CacheInv, ScanTransfer
  <2> QED
    BY <1>3, <2>1 DEF ArrayStep
<1>4. CASE f_state \notin {"WRITE_CACHE", "FLUSH"} /\ ~ScanClears(bus)
  BY <1>4 DEF ArrayStep
<1> QED
  BY <1>1, <1>2, <1>3, <1>4

\* The row that is written is a row of the line asked for.
LEMMA NewRowSound ==
    ASSUME CacheInv, f_state = "WRITE_CACHE"
    PROVE  /\ FillWay \in Way /\ Asked \in Line /\ Asked[2] \in Index
           /\ NewRow \in CacheRow /\ NewRow.line = Asked
           /\ Hits = {} /\ ~NewRow.dirty => NewRow.data = mem[Asked]
           /\ Hits # {} => NewRow.dirty
           /\ \A w \in Way : /\ c[w][Asked[2]] # None
                             /\ c[w][Asked[2]].line = Asked
                             => w = FillWay
<1>1. f_for \in {"lsu", "walk"}
  BY DEF CacheInv, ScanTransfer, TypeOK, Writing
<1>2. CASE f_for = "walk"
  <2>1. m_valid /\ MHits = {} /\ ~WalkSend
    BY <1>2 DEF CacheInv, WalkTransfer, WalkSend
  <2>2. Asked = m_addr[1] /\ Asked \in Line /\ Asked[2] \in Index /\ Hits = {}
    BY <1>2, <2>1, LineOfRequest DEF CacheInv, Requests, Asked, Hits
  <2>3. Len(b) = 2 /\ Beats(mem[Asked])
    BY <2>2 DEF CacheInv, Refill, Refilling
  <2>4. <<b[1], b[2]>> = mem[Asked] /\ mem[Asked] \in Word \X Word
    BY <2>2, <2>3 DEF Beats, CacheInv, TypeOK
  <2>5. NewRow = [line |-> Asked, data |-> mem[Asked], dirty |-> FALSE]
    BY <1>2, <2>2, <2>4 DEF NewRow
  <2>6. Uncached(Asked)
    BY <2>1, <2>2, WalkHits
  <2> QED
    BY <1>2, <2>2, <2>4, <2>5, <2>6, StageWays DEF FillWay, CacheInv, CacheRow, Uncached
<1>3. CASE f_for = "lsu"
  <2>1. l_state = "stage" /\ ~LsuSpent
    BY <1>3 DEF CacheInv, LsuTransfer, BurstShape, LsuSpent, LsuSend
  <2>2. Asked = l_op.line /\ Asked \in Line /\ Asked[2] \in Index /\ Hits = LHits
    BY <1>3, <2>1, LineOfRequest DEF CacheInv, Requests, Asked, Hits
  <2>3. l_op.half \in {1, 2} /\ OpWord(l_op) \in Word
    BY <2>1, LineOfRequest DEF CacheInv, Requests, Half
  <2>4. \A d \in Word \X Word : Stored(d) \in Word \X Word
    BY <2>3 DEF Stored
  <2>5. FillWay = LWay /\ LWay \in Way
    BY <1>3, StageWays DEF FillWay, CacheInv
  <2>6. CASE LHits = {}
    <3>1. Len(b) = 2 /\ Beats(mem[Asked])
      BY <2>2, <2>6 DEF CacheInv, Refill, Refilling
    <3>2. <<b[1], b[2]>> = mem[Asked] /\ mem[Asked] \in Word \X Word
      BY <2>2, <3>1 DEF Beats, CacheInv, TypeOK
    <3>3. NewRow = IF IsRead(l_op)
                   THEN [line |-> Asked, data |-> mem[Asked], dirty |-> FALSE]
                   ELSE [line |-> Asked, dirty |-> TRUE, data |-> Stored(mem[Asked])]
      BY <1>3, <2>2, <2>6, <3>2 DEF NewRow
    <3>4. Uncached(Asked)
      BY <2>1, <2>2, <2>6, LsuHits
    <3>5. Stored(mem[Asked]) \in Word \X Word
      BY <2>4, <3>2
    <3> QED
      BY <2>2, <2>5, <2>6, <3>2, <3>3, <3>4, <3>5 DEF CacheRow, Uncached
  <2>7. CASE LHits # {}
    <3>1. ~IsRead(l_op)
      BY <1>3, <2>7 DEF CacheInv, LsuTransfer, IsRead
    <3>2. LWay \in LHits
      BY <2>7, StageWays DEF CacheInv
    <3>3. /\ c[LWay][Asked[2]] # None /\ c[LWay][Asked[2]].line = Asked
          /\ LWays[LWay] = c[LWay][Asked[2]]
      BY <2>1, <2>2, <3>2, LsuHits
    <3>4. LWays[LWay].data \in Word \X Word
      BY <2>2, <2>5, <3>3 DEF CacheInv, ArraySound, CacheRow
    <3>5. NewRow = [line |-> Asked, dirty |-> TRUE, data |-> Stored(LWays[LWay].data)]
      BY <1>3, <2>2, <2>7, <3>1 DEF NewRow
    <3>6. Stored(LWays[LWay].data) \in Word \X Word
      BY <2>4, <3>4
    <3>7. \A w \in Way : c[w][Asked[2]] # None /\ c[w][Asked[2]].line = Asked => w = LWay
      BY <2>2, <2>5, <3>3 DEF CacheInv, ArraySound
    <3> QED
      BY <2>2, <2>5, <2>7, <3>5, <3>6, <3>7 DEF CacheRow
  <2> QED
    BY <2>6, <2>7
<1> QED
  BY <1>1, <1>2, <1>3

\* Memory takes a write in WAIT_B: of a word past the cache, or of a line that is
\* dirty in some way.
DirtyIn(w, l) == IsDirty(c[w][l[2]]) /\ c[w][l[2]].line = l

LEMMA MemoryChange ==
    ASSUME CacheInv, NEW flush \in FlushIn, NEW bus \in BusIn, FsmStep(flush, bus)
    PROVE  \/ mem' = mem
           \/ /\ f_state = "WAIT_B" /\ "ok" \in bus /\ x.line \in Line
              /\ \/ /\ x.single /\ x.half \in Half /\ b[1] \in Word
                    /\ f_for = "lsu" /\ x.line = l_op.line /\ Uncached(x.line)
                    /\ mem' = [mem EXCEPT ![x.line][x.half] = b[1]]
                 \/ /\ ~x.single /\ b[1] \in Word /\ b[2] \in Word
                    /\ \E w \in Way : DirtyIn(w, x.line)
                    /\ mem' = [mem EXCEPT ![x.line] = <<b[1], b[2]>>]
<1>1. CASE f_state # "WAIT_B" \/ "ok" \notin bus
  BY <1>1 DEF FsmStep, Idle, DropForLock, SendWrite, WaitB, WaitAr, WaitR, WaitError, SendData,
     WriteCache, FlushRead
<1>2. CASE f_state = "WAIT_B" /\ "ok" \in bus
  <2>1. Commit
    BY <1>2 DEF FsmStep, Idle, DropForLock, SendWrite, WaitB, WaitAr, WaitR, WaitError, SendData,
       WriteCache, FlushRead
  <2>2. x \in Burst /\ x.line \in Line /\ x.half \in Half /\ x.single \in BOOLEAN
    BY <1>2 DEF CacheInv, TypeOK, BurstShape, Writing, Burst
  <2>3. b \in Seq(Word) /\ Len(b) = IF x.single THEN 1 ELSE 2
    BY <1>2 DEF CacheInv, TypeOK, BurstShape
  <2>4. CASE x.single
    <3>1. f_for = "lsu" /\ x.line = l_op.line /\ Uncached(x.line)
      BY <1>2, <2>4 DEF CacheInv, SingleBeat, BurstShape, Writing
    <3> QED
      BY <1>2, <2>1, <2>2, <2>3, <2>4, <3>1 DEF Commit
  <2>5. CASE ~x.single
    <3>1. \E w \in Way : DirtyIn(w, x.line)
      <4>1. CASE f_flush
        BY <1>2, <2>5, <4>1 DEF CacheInv, WriteBack, Writing, DirtyIn
      <4>2. CASE ~f_flush
        <5>1. IsDirty(VictimRow) /\ x.line = VictimRow.line
          BY <1>2, <2>5, <4>2 DEF CacheInv, WriteBack, Writing
        <5>2. VictimWay \in Way
          BY StageWays DEF CacheInv, TypeOK, VictimWay
        <5>3. VictimIndex \in Index
          <6>1. s_index \in Index
            BY DEF CacheInv, TypeOK
          <6>2. f_for = "walk" => m_addr[1][2] \in Index
            BY LineOfRequest DEF CacheInv, Requests
          <6>3. f_for = "lsu" => l_op.line[2] \in Index
            BY <1>2, LineOfRequest DEF CacheInv, Requests, LsuTransfer
          <6> QED
            BY <6>1, <6>2, <6>3 DEF VictimIndex, Asked, CacheInv, TypeOK
        <5>4. VictimRow.line[2] = VictimIndex
          BY <5>1, <5>2, <5>3 DEF CacheInv, ArraySound, VictimRow, IsDirty
        <5> QED
          BY <5>1, <5>2, <5>4 DEF DirtyIn, VictimRow
      <4> QED
        BY <4>1, <4>2
    <3>2. b[1] \in Word /\ b[2] \in Word
      BY <2>3, <2>5
    <3>3. mem' = [mem EXCEPT ![x.line] = <<b[1], b[2]>>]
      BY <2>1, <2>5 DEF Commit
    <3> QED
      BY <1>2, <2>2, <2>5, <3>1, <3>2, <3>3
  <2> QED
    BY <2>4, <2>5
<1> QED
  BY <1>1, <1>2

LEMMA MemoryType ==
    ASSUME CacheInv, NEW flush \in FlushIn, NEW bus \in BusIn, FsmStep(flush, bus)
    PROVE  mem' \in [Line -> Word \X Word]
<1>1. mem \in [Line -> Word \X Word]
  BY DEF CacheInv, TypeOK
<1>2. \A d \in Word \X Word, h \in Half, v \in Word : [d EXCEPT ![h] = v] \in Word \X Word
  BY DEF Half
<1> QED
  BY <1>1, <1>2, MemoryChange

\* A write never makes a clean row stale.
LEMMA CleanRowsKept ==
    ASSUME CacheInv, NEW flush \in FlushIn, NEW bus \in BusIn, FsmStep(flush, bus),
           NEW w \in Way, NEW i \in Index, c[w][i] # None, ~c[w][i].dirty
    PROVE  mem'[c[w][i].line] = mem[c[w][i].line]
<1>1. c[w][i] \in CacheRow /\ c[w][i].line \in Line /\ c[w][i].line[2] = i
  BY DEF CacheInv, ArraySound, CacheRow
<1>2. \A k \in Line : Uncached(k) => k # c[w][i].line
  BY <1>1 DEF Uncached
<1>3. \A k \in Line : (\E v \in Way : DirtyIn(v, k)) => k # c[w][i].line
  BY <1>1 DEF DirtyIn, IsDirty, CacheInv, ArraySound
<1> QED
  BY <1>1, <1>2, <1>3, MemoryChange DEF CacheInv, TypeOK

LEMMA ArraysStaySound ==
    ASSUME CacheInv, RefillUnfenced, NEW flush \in FlushIn, NEW bus \in BusIn,
           FsmStep(flush, bus), ArrayStep(bus)
    PROVE  ArraySound'
<1>1. ArraySound
  BY DEF CacheInv
<1>2. CASE f_state = "WRITE_CACHE" /\ Write(FillWay, Asked[2], NewRow)
  <2>1. mem' = mem
    BY <1>2, MemoryChange
  <2>2. /\ FillWay \in Way /\ Asked \in Line /\ Asked[2] \in Index
        /\ NewRow \in CacheRow /\ NewRow.line = Asked
        /\ NewRow.dirty \/ NewRow.data = mem[Asked]
        /\ \A w \in Way : c[w][Asked[2]] # None /\ c[w][Asked[2]].line = Asked => w = FillWay
    BY <1>2, NewRowSound
  <2>3. c' \in [Way -> [Index -> CacheRow \cup {None}]]
    BY <1>1, <1>2, <2>2 DEF ArraySound, Write
  <2>4. \A w \in Way, i \in Index :
           c'[w][i] = IF w = FillWay /\ i = Asked[2] THEN NewRow ELSE c[w][i]
    BY <1>1, <1>2, <2>2 DEF ArraySound, Write
  <2>5. ASSUME NEW w \in Way, NEW i \in Index, c'[w][i] # None
        PROVE  c'[w][i].line[2] = i /\ (c'[w][i].dirty \/ c'[w][i].data = mem'[c'[w][i].line])
    BY <1>1, <2>1, <2>2, <2>4, <2>5 DEF ArraySound
  <2>6. ASSUME NEW v \in Way, NEW w \in Way, NEW i \in Index, c'[v][i] # None, c'[w][i] # None,
               c'[v][i].line = c'[w][i].line
        PROVE  v = w
    BY <1>1, <2>2, <2>4, <2>6 DEF ArraySound
  <2> QED
    BY <2>3, <2>5, <2>6 DEF ArraySound
<1>3. ASSUME NEW way \in Way, NEW idx \in Index, Write(way, idx, None) \/ c' = c
      PROVE  ArraySound'
  <2>1. c' \in [Way -> [Index -> CacheRow \cup {None}]]
    BY <1>1, <1>3 DEF ArraySound, Write
  <2>2. \A w \in Way, i \in Index : c'[w][i] = c[w][i] \/ c'[w][i] = None
    BY <1>1, <1>3 DEF ArraySound, Write
  <2>3. ASSUME NEW w \in Way, NEW i \in Index, c'[w][i] # None
        PROVE  c'[w][i].line[2] = i /\ (c'[w][i].dirty \/ c'[w][i].data = mem'[c'[w][i].line])
    BY <1>1, <2>2, <2>3, CleanRowsKept DEF ArraySound
  <2>4. ASSUME NEW v \in Way, NEW w \in Way, NEW i \in Index, c'[v][i] # None, c'[w][i] # None,
               c'[v][i].line = c'[w][i].line
        PROVE  v = w
    BY <1>1, <2>2, <2>4 DEF ArraySound
  <2> QED
    BY <2>1, <2>3, <2>4 DEF ArraySound
<1>4. CASE f_state = "FLUSH" /\ Write(LWay, l_op.line[2], None)
  <2>1. l_state = "stage"
    BY <1>4 DEF CacheInv, LsuTransfer, BurstShape
  <2>2. LWay \in Way /\ l_op.line[2] \in Index
    BY <2>1, StageWays, LineOfRequest DEF CacheInv, Requests
  <2> QED
    BY <1>3, <1>4, <2>2
<1>5. CASE Write(s_way, s_index, None)
  BY <1>3, <1>5 DEF CacheInv, TypeOK
<1>6. CASE c' = c
  <2>1. 0 \in Way /\ 0 \in Index
    BY DcacheAssumption
  <2> QED
    BY <1>3, <1>6, <2>1
<1> QED
  BY <1>2, <1>4, <1>5, <1>6, ArrayChange

-----------------------------------------------------------------------------
\* What dcache_fsm keeps, but for the scan.
FsmInv == BurstShape /\ WriteBack /\ Refill /\ SingleBeat /\ LsuTransfer /\ WalkTransfer

LEMMA RestKeeps ==
    ASSUME Rest, f_flush' = FALSE
    PROVE  FsmInv'
BY DEF Rest, FsmInv, BurstShape, WriteBack, Refill, Refilling, SingleBeat, LsuTransfer,
   WalkTransfer, Writing, Reading, Transfer

\* A burst that starts: the words of a line, or a word of the LSU's request.
LEMMA LineStarts ==
    ASSUME NEW state, NEW for, NEW line \in Line, NEW word \in Word,
           StartLine(state, for, line, word)
    PROVE  /\ f_state' = state /\ f_for' = for /\ b' = <<>> /\ Len(b') = 0
           /\ x' \in Burst /\ x' # None
           /\ x'.line = line /\ ~x'.single /\ ~x'.last /\ x'.wdata = word
<1>1. x' = [line |-> line, half |-> 1, lock |-> FALSE, single |-> FALSE,
            wdata |-> word, last |-> FALSE]
  BY DEF StartLine
<1>2. x' \in Burst
  BY <1>1 DEF Burst, Half
<1>3. x' # None
  BY <1>2, NoneAssumption
<1>4. f_state' = state /\ f_for' = for /\ b' = <<>>
  BY DEF StartLine
<1> QED
  BY <1>1, <1>2, <1>3, <1>4

LEMMA SingleStarts ==
    ASSUME StartSingle, l_op.line \in Line, l_op.half \in Half, OpWord(l_op) \in Word
    PROVE  /\ f_state' = IF IsRead(l_op) THEN "WAIT_AR" ELSE "WAIT_AW_W"
           /\ f_for' = "lsu" /\ b' = <<>> /\ Len(b') = 0
           /\ x' \in Burst /\ x' # None
           /\ x'.line = l_op.line /\ x'.half = l_op.half /\ x'.single /\ x'.last
           /\ ~IsRead(l_op) => x'.wdata = OpWord(l_op)
<1>1. x' = [line |-> l_op.line, half |-> l_op.half, lock |-> Locked(l_op), single |-> TRUE,
            wdata |-> IF IsRead(l_op) THEN None ELSE OpWord(l_op), last |-> TRUE]
  BY DEF StartSingle
<1>2. x' \in Burst
  BY <1>1 DEF Burst, Locked, Word
<1>3. x' # None
  BY <1>2, NoneAssumption
<1>4. /\ f_state' = IF IsRead(l_op) THEN "WAIT_AR" ELSE "WAIT_AW_W"
      /\ f_for' = "lsu" /\ b' = <<>>
  BY DEF StartSingle
<1> QED
  BY <1>1, <1>2, <1>3, <1>4

\* A write-back that starts with the victim in the arrays, and a refill that
\* starts when memory has what the victim holds.
LEMMA WriteBackStarts ==
    ASSUME NEW for \in {"lsu", "walk", "scan"}, NEW row \in CacheRow,
           StartWriteBack(for, row), f_flush' = FALSE,
           VictimRow' = row, IsDirty(row),
           for = "lsu" => /\ l_state' = "stage" /\ l_paddr' = "ok"
                          /\ IF LHits' # {} THEN Locked(l_op') ELSE ~Single(l_op'),
           for = "walk" => m_valid' /\ MHits' = {}
    PROVE  FsmInv' /\ x' \in Burst /\ b' = <<>>
<1>1. row.line \in Line /\ row.data[1] \in Word
  BY DEF CacheRow
<1>2. /\ f_state' = "WAIT_AW_W" /\ f_for' = for /\ b' = <<>> /\ Len(b') = 0
      /\ x' \in Burst /\ x' # None
      /\ x'.line = row.line /\ ~x'.single /\ ~x'.last /\ x'.wdata = row.data[1]
  BY <1>1, LineStarts DEF StartWriteBack
<1>3. BurstShape' /\ Refill' /\ SingleBeat'
  BY <1>2 DEF BurstShape, Refill, Refilling, SingleBeat, Writing, Reading
<1>4. WriteBack'
  BY <1>2 DEF WriteBack, Beats
<1>5. LsuTransfer' /\ WalkTransfer'
  BY <1>2 DEF LsuTransfer, WalkTransfer, Writing, Reading, Transfer
<1> QED
  BY <1>2, <1>3, <1>4, <1>5 DEF FsmInv

LEMMA RefillStarts ==
    ASSUME NEW for \in {"lsu", "walk"}, NEW line \in Line,
           StartRefill(for, line), f_flush' = FALSE,
           VictimSaved', Asked' = line, None \in Word,
           for = "lsu" => /\ l_state' = "stage" /\ l_paddr' = "ok"
                          /\ LHits' = {} /\ ~Single(l_op'),
           for = "walk" => m_valid' /\ MHits' = {}
    PROVE  FsmInv' /\ x' \in Burst /\ b' = <<>>
<1>1. /\ f_state' = "WAIT_AR" /\ f_for' = for /\ b' = <<>> /\ Len(b') = 0
      /\ x' \in Burst /\ x' # None
      /\ x'.line = line /\ ~x'.single /\ ~x'.last
  BY LineStarts DEF StartRefill
<1>2. BurstShape' /\ WriteBack' /\ SingleBeat'
  BY <1>1 DEF BurstShape, WriteBack, SingleBeat, Writing, Reading
<1>3. Hits' = {}
  BY <1>1 DEF Hits
<1>4. Refill'
  BY <1>1, <1>3 DEF Refill, Refilling, Beats
<1>5. LsuTransfer' /\ WalkTransfer'
  BY <1>1 DEF LsuTransfer, WalkTransfer, Writing, Reading, Transfer
<1> QED
  BY <1>1, <1>2, <1>4, <1>5 DEF FsmInv

LEMMA RequestStarts ==
    ASSUME TypeOK, StartSingle, f_flush' = FALSE, l_op # None,
           l_state' = "stage", l_paddr' = "ok", l_op' = l_op,
           Single(l_op), Uncached(l_op.line)'
    PROVE  FsmInv' /\ x' \in Burst /\ b' = <<>>
<1>1. /\ f_state' = IF IsRead(l_op) THEN "WAIT_AR" ELSE "WAIT_AW_W"
      /\ f_for' = "lsu" /\ b' = <<>> /\ Len(b') = 0
      /\ x' \in Burst /\ x' # None
      /\ x'.line = l_op.line /\ x'.half = l_op.half /\ x'.single /\ x'.last
      /\ ~IsRead(l_op) => x'.wdata = OpWord(l_op)
  BY SingleStarts, LineOfRequest
<1>2. BurstShape' /\ WriteBack' /\ Refill'
  BY <1>1 DEF BurstShape, WriteBack, Refill, Refilling, Writing, Reading
<1>3. SingleBeat'
  BY <1>1 DEF SingleBeat, Writing, Reading
<1>4. LsuTransfer' /\ WalkTransfer'
  BY <1>1 DEF LsuTransfer, WalkTransfer, Writing, Reading
<1> QED
  BY <1>1, <1>2, <1>3, <1>4 DEF FsmInv

\* A transfer that is answered.
LEMMA SendStarts ==
    ASSUME f_state' = "SEND_DATA", f_for' \in {"lsu", "walk"}, f_flush' = FALSE,
           f_for' = "lsu" => l_state' = "stage" /\ l_paddr' = "ok",
           x' # None => (x'.single => x'.last /\ f_for' = "lsu"),
           f_ok' => Len(b') >= 1
    PROVE  FsmInv'
BY DEF FsmInv, BurstShape, WriteBack, Refill, Refilling, SingleBeat, LsuTransfer,
   WalkTransfer, Writing, Reading, Transfer

-----------------------------------------------------------------------------
\* The machine, state by state.
BusTypes == x \in Burst \cup {None} /\ b \in Seq(Word) /\ Len(b) <= 2

LEMMA NoBurst ==
    ASSUME b' = <<>>, x' \in Burst \cup {None}
    PROVE  BusTypes'
BY DEF BusTypes

LEMMA IdleKeeps ==
    ASSUME CacheInv, RefillUnfenced, NEW flush \in FlushIn, NEW bus \in BusIn,
           Cycle(flush, bus), ArraySound', Idle(flush)
    PROVE  FsmInv' /\ BusTypes'
<1>1. f_state = "IDLE" /\ f_for = "lsu" /\ x = None /\ b = <<>> /\ f_flush = FALSE
  BY DEF Idle, CacheInv, BurstShape, WalkTransfer, TypeOK
<1>2. f_flush' = FALSE /\ f_ok' = TRUE
  BY <1>1 DEF Idle
<1>3. c' = c
  BY <1>1, ArrayChange DEF Cycle
<1>4. CASE Rest
  BY <1>2, <1>4, RestKeeps, NoBurst DEF Rest
<1>5. CASE ~flush /\ fence # "no"
  <2>1. f_state' = "FLUSH_READ" /\ f_for' = "scan" /\ x' = None /\ b' = <<>>
    BY <1>1, <1>5 DEF Idle
  <2>2. FsmInv'
    BY <1>2, <2>1 DEF FsmInv, BurstShape, WriteBack, Refill, Refilling, SingleBeat,
       LsuTransfer, WalkTransfer, Writing, Reading, Transfer
  <2> QED
    BY <2>1, <2>2, NoBurst
<1>6. CASE ~flush /\ fence = "no" /\ m_valid /\ ~Rest
  <2>1. IdleWalk
    BY <1>6 DEF Idle
  <2>2. MHits = {} /\ ~WalkPush /\ ~WalkSend
    BY <1>1, <1>6, <2>1 DEF IdleWalk, WalkPush, WalkHit, WalkSend
  <2>3. /\ m_valid' /\ m_addr' = m_addr
        /\ MHits' = {} /\ MWay' = MWay
    BY <1>6, <2>2, WalkStageKept DEF Cycle
  <2>4. m_addr[1] \in Line /\ m_addr[1][2] \in Index /\ MWay \in Way
    BY <1>6, LineOfRequest, StageWays DEF CacheInv, Requests
  <2>5. MWays[MWay] = c[MWay][m_addr[1][2]]
    BY <1>6, <2>2, WalkHits
  <2>6. f_for' = "walk" => /\ Asked' = m_addr[1] /\ VictimWay' = MWay
                           /\ VictimIndex' = m_addr[1][2] /\ VictimRow' = MWays[MWay]
    BY <1>3, <2>3, <2>5 DEF Asked, VictimWay, VictimIndex, VictimRow
  <2>7. CASE IsDirty(MWays[MWay])
    <3>1. StartWriteBack("walk", MWays[MWay])
      BY <2>1, <2>2, <2>7 DEF IdleWalk
    <3>2. MWays[MWay] \in CacheRow
      BY <2>4, <2>5, <2>7 DEF CacheInv, ArraySound, IsDirty
    <3>3. f_for' = "walk"
      BY <3>1 DEF StartWriteBack, StartLine
    <3>4. FsmInv' /\ x' \in Burst /\ b' = <<>>
      BY <1>2, <2>3, <2>6, <2>7, <3>1, <3>2, <3>3, WriteBackStarts
    <3> QED
      BY <3>4, NoBurst
  <2>8. CASE ~IsDirty(MWays[MWay])
    <3>1. StartRefill("walk", m_addr[1])
      BY <2>1, <2>2, <2>8 DEF IdleWalk
    <3>2. f_for' = "walk"
      BY <3>1 DEF StartRefill, StartLine
    <3>3. VictimSaved'
      <4>1. (VictimWay \in Way /\ VictimIndex \in Index /\ ~IsDirty(VictimRow))'
        BY <2>4, <2>6, <2>8, <3>2 DEF IsDirty
      <4> QED
        BY <4>1 DEF ArraySound, VictimRow, VictimSaved, IsDirty
    <3>4. FsmInv' /\ x' \in Burst /\ b' = <<>>
      BY <1>2, <2>3, <2>4, <2>6, <3>1, <3>2, <3>3, RefillStarts DEF Word
    <3> QED
      BY <3>4, NoBurst
  <2> QED
    BY <2>7, <2>8
<1>7. CASE ~flush /\ fence = "no" /\ ~m_valid /\ ~Rest
  <2>1. IdleLsu /\ InStage /\ l_paddr = "ok"
    BY <1>7 DEF Idle
  <2>2. l_state = "stage" /\ ~LsuSpent /\ l_op # None /\ l_op \in Op
    BY <1>1, <2>1, LineOfRequest DEF InStage, LsuSpent, LsuSend, CacheInv, Requests
  <2>3. ~(l_op.kind = "load" /\ LHits # {})
    BY <1>7, <2>1 DEF IdleLsu, Single, Locked, Rest, Go, StartWriteBack, StartRefill, StartLine,
       StartSingle
  <2>4. ~LsuPush
    BY <1>1, <2>1, <2>3 DEF LsuPush, LsuFault, LsuLoadHit, LsuStoreHit, LsuSend
  <2>5. /\ l_state' = "stage" /\ l_op' = l_op /\ l_paddr' = "ok"
        /\ LHits' = LHits /\ LWay' = LWay
    BY <2>1, <2>2, <2>4, LsuStageKept DEF Cycle
  <2>6. l_op.line \in Line /\ l_op.line[2] \in Index /\ LWay \in Way
    BY <2>2, LineOfRequest, StageWays DEF CacheInv
  <2>7. LWays[LWay] = c[LWay][l_op.line[2]] /\ (LHits = {} => Uncached(l_op.line))
    BY <2>2, LsuHits
  <2>8. f_for' = "lsu" => /\ Asked' = l_op.line /\ VictimWay' = LWay
                          /\ VictimIndex' = l_op.line[2] /\ VictimRow' = LWays[LWay]
                          /\ Hits' = LHits
    BY <1>3, <2>5, <2>7 DEF Asked, VictimWay, VictimIndex, VictimRow, Hits
  <2>9. f_for' = "lsu" /\ ~IsDirty(LWays[LWay]) => VictimSaved'
    BY <2>6, <2>8 DEF ArraySound, VictimRow, VictimSaved, IsDirty
  <2>10. CASE l_op.kind = "store" /\ LHits # {}
    <3>1. Go("WRITE_CACHE")
      BY <2>1, <2>10 DEF IdleLsu, Locked, Single
    <3>2. f_state' = "WRITE_CACHE" /\ f_for' = "lsu" /\ x' = None /\ b' = <<>>
      BY <1>1, <3>1 DEF Go
    <3>3. FsmInv'
      BY <1>2, <2>5, <2>8, <2>10, <3>2 DEF FsmInv, BurstShape, WriteBack, Refill, Refilling,
         SingleBeat, LsuTransfer, WalkTransfer, Writing, Reading, Transfer
    <3> QED
      BY <3>2, <3>3, NoBurst
  <2>11. CASE IsDirty(LWays[LWay]) /\ (IF LHits # {} THEN Locked(l_op) ELSE ~Single(l_op))
    <3>1. StartWriteBack("lsu", LWays[LWay])
      BY <2>1, <2>11 DEF IdleLsu, Locked, Single
    <3>2. LWays[LWay] \in CacheRow
      BY <2>6, <2>7, <2>11 DEF CacheInv, ArraySound, IsDirty
    <3>3. f_for' = "lsu"
      BY <3>1 DEF StartWriteBack, StartLine
    <3>4. FsmInv' /\ x' \in Burst /\ b' = <<>>
      BY <1>2, <2>5, <2>8, <2>11, <3>1, <3>2, <3>3, WriteBackStarts
    <3> QED
      BY <3>4, NoBurst
  <2>12. CASE ~IsDirty(LWays[LWay]) /\ LHits # {} /\ Locked(l_op)
    <3>1. Go("FLUSH")
      BY <2>1, <2>12 DEF IdleLsu, Locked, Single
    <3>2. f_state' = "FLUSH" /\ f_for' = "lsu" /\ x' = None /\ b' = <<>>
      BY <1>1, <3>1 DEF Go
    <3>3. FsmInv'
      BY <1>2, <2>5, <2>8, <2>9, <2>12, <3>2 DEF FsmInv, BurstShape, WriteBack, Refill, Refilling,
         SingleBeat, LsuTransfer, WalkTransfer, Writing, Reading, Transfer
    <3> QED
      BY <3>2, <3>3, NoBurst
  <2>13. CASE Single(l_op) /\ LHits = {}
    <3>1. StartSingle
      BY <2>1, <2>13 DEF IdleLsu, Locked, Single
    <3>2. Uncached(l_op.line)'
      BY <1>3, <2>5, <2>7, <2>13 DEF Uncached
    <3>3. FsmInv' /\ x' \in Burst /\ b' = <<>>
      BY <1>2, <2>2, <2>5, <2>13, <3>1, <3>2, RequestStarts DEF CacheInv
    <3> QED
      BY <3>3, NoBurst
  <2>14. CASE ~IsDirty(LWays[LWay]) /\ LHits = {} /\ ~Single(l_op)
    <3>1. StartRefill("lsu", l_op.line)
      BY <2>1, <2>14 DEF IdleLsu, Locked, Single
    <3>2. f_for' = "lsu"
      BY <3>1 DEF StartRefill, StartLine
    <3>3. FsmInv' /\ x' \in Burst /\ b' = <<>>
      BY <1>2, <2>5, <2>6, <2>8, <2>9, <2>14, <3>1, <3>2, RefillStarts DEF Word
    <3> QED
      BY <3>3, NoBurst
  <2>15. l_op.kind \in {"load", "store", "lr", "sc"}
    BY <2>2, DcacheAssumption DEF OpRecord
  <2> QED
    BY <2>3, <2>10, <2>11, <2>12, <2>13, <2>14, <2>15 DEF Locked, Single
<1> QED
  BY <1>4, <1>5, <1>6, <1>7 DEF Idle

\* A request under way is still the one served after the edge, and its rows are
\* the same.
LEMMA LsuServes ==
    ASSUME CacheInv, NEW flush \in FlushIn, NEW bus \in BusIn, Cycle(flush, bus),
           f_for = "lsu", f_state # "IDLE"
    PROVE  /\ ~flush /\ f_flush = FALSE /\ l_op # None /\ l_op \in Op
           /\ l_op.line \in Line /\ l_op.line[2] \in Index /\ LWay \in Way
           /\ ~LsuPush => /\ l_state' = "stage" /\ l_op' = l_op /\ l_paddr' = "ok"
                          /\ LHits' = LHits /\ LWay' = LWay
<1>1. l_state = "stage" /\ l_paddr = "ok"
  BY DEF CacheInv, LsuTransfer
<1>2. ~flush
  BY <1>1, FlushFindsIdle
<1>3. f_flush = FALSE
  BY DEF CacheInv, WalkTransfer, TypeOK
<1>4. l_op # None
  BY <1>1 DEF CacheInv, Requests
<1>5. l_op.line \in Line /\ l_op.line[2] \in Index /\ LWay \in Way /\ l_op \in Op
  BY <1>4, LineOfRequest, StageWays DEF CacheInv
<1> QED
  BY <1>1, <1>2, <1>3, <1>4, <1>5, LsuStageKept DEF Cycle

LEMMA WalkServes ==
    ASSUME CacheInv, NEW flush \in FlushIn, NEW bus \in BusIn, Cycle(flush, bus),
           f_for = "walk", f_state \in Transfer, ~flush, ~f_flush
    PROVE  /\ m_valid /\ m_valid' /\ m_addr' = m_addr /\ ~WalkSend
           /\ MHits = {} /\ MHits' = {} /\ MWay' = MWay /\ MWay \in Way
           /\ m_addr[1] \in Line /\ m_addr[1][2] \in Index
<1>1. m_valid /\ MHits = {}
  BY DEF CacheInv, WalkTransfer
<1>2. ~WalkPush /\ ~WalkSend
  BY NoPush DEF Transfer, WalkSend
<1>3. m_addr[1] \in Line /\ m_addr[1][2] \in Index /\ MWay \in Way
  BY <1>1, LineOfRequest, StageWays DEF CacheInv, Requests
<1> QED
  BY <1>1, <1>2, <1>3, WalkStageKept DEF Cycle

\* The victim of a transfer, as the latched rows show it.
LEMMA VictimShown ==
    ASSUME CacheInv, f_state \in Transfer \cup {"WRITE_CACHE"}, x # None, ~x.single, ~f_flush
    PROVE  /\ VictimWay \in Way /\ VictimIndex \in Index
           /\ f_for = "lsu" => LWays[LWay] = VictimRow
           /\ f_for = "walk" => MWays[MWay] = VictimRow
           /\ VictimRow \in CacheRow \cup {None}
<1>1. f_for = "lsu" => l_state = "stage" /\ ~LsuSpent /\ l_op # None
  BY DEF CacheInv, LsuTransfer, LsuSpent, LsuSend, Requests, Transfer
<1>2. f_for = "walk" => m_valid /\ m_addr # None /\ ~WalkSend
  BY DEF CacheInv, WalkTransfer, Requests, WalkSend, Transfer
<1>3. VictimWay \in Way
  BY StageWays DEF CacheInv, TypeOK, VictimWay
<1>4. VictimIndex \in Index
  <2>1. s_index \in Index /\ f_for \in {"lsu", "walk", "scan"}
    BY DEF CacheInv, TypeOK
  <2>2. f_for = "walk" => m_addr[1][2] \in Index
    BY <1>2, LineOfRequest DEF CacheInv
  <2>3. f_for = "lsu" => l_op.line[2] \in Index
    BY <1>1, LineOfRequest DEF CacheInv
  <2> QED
    BY <2>1, <2>2, <2>3 DEF VictimIndex, Asked
<1>5. f_for = "lsu" => LWays[LWay] = VictimRow
  BY <1>1, LsuHits DEF VictimRow, VictimWay, VictimIndex, Asked
<1>6. f_for = "walk" => MWays[MWay] = VictimRow
  BY <1>2, WalkHits DEF VictimRow, VictimWay, VictimIndex, Asked
<1>7. VictimRow \in CacheRow \cup {None}
  BY <1>3, <1>4 DEF CacheInv, ArraySound, VictimRow
<1> QED
  BY <1>3, <1>4, <1>5, <1>6, <1>7

\* A line that is written back is dirty in some way, also after a flush.
LEMMA WrittenIsDirty ==
    ASSUME CacheInv, f_state \in Writing, ~x.single
    PROVE  \E w \in Way : DirtyIn(w, x.line)
<1>1. CASE f_flush
  BY <1>1 DEF CacheInv, WriteBack, DirtyIn
<1>2. CASE ~f_flush
  <2>1. IsDirty(VictimRow) /\ x.line = VictimRow.line
    BY <1>2 DEF CacheInv, WriteBack
  <2>2. VictimWay \in Way /\ VictimIndex \in Index
    BY <1>2, VictimShown DEF CacheInv, BurstShape, Writing, Transfer
  <2>3. VictimRow.line[2] = VictimIndex
    BY <2>1, <2>2 DEF CacheInv, ArraySound, VictimRow, IsDirty
  <2> QED
    BY <2>1, <2>2, <2>3 DEF DirtyIn, VictimRow
<1> QED
  BY <1>1, <1>2

LEMMA DropForLockKeeps ==
    ASSUME CacheInv, RefillUnfenced, NEW flush \in FlushIn, NEW bus \in BusIn,
           Cycle(flush, bus), DropForLock
    PROVE  FsmInv' /\ BusTypes'
<1>1. f_state = "FLUSH" /\ f_for = "lsu" /\ StartSingle /\ f_flush' = f_flush
  BY DEF DropForLock, CacheInv, BurstShape
<1>2. l_state = "stage" /\ Locked(l_op) /\ LHits # {} /\ ~LsuSpent
  BY <1>1 DEF CacheInv, LsuTransfer, BurstShape, LsuSpent, LsuSend
<1>3. ~LsuPush
  BY <1>1, NoPush
<1>4. /\ f_flush = FALSE /\ l_op # None /\ l_op.line \in Line /\ l_op.line[2] \in Index
      /\ l_state' = "stage" /\ l_op' = l_op /\ l_paddr' = "ok"
  BY <1>1, <1>3, LsuServes
<1>5. Write(LWay, l_op.line[2], None)
  BY <1>1, ArrayChange DEF Cycle, CacheInv, ScanTransfer, ScanClears
<1>6. LWay \in LHits
  BY <1>2, StageWays DEF CacheInv
<1>7. c[LWay][l_op.line[2]] # None /\ c[LWay][l_op.line[2]].line = l_op.line /\ LWay \in Way
  BY <1>2, <1>6, LsuHits
<1>8. Uncached(l_op.line)'
  <2>1. ASSUME NEW w \in Way, c'[w][l_op.line[2]] # None
        PROVE  c'[w][l_op.line[2]].line # l_op.line
    <3>1. w # LWay
      BY <1>4, <1>5, <1>7, <2>1 DEF Write, CacheInv, TypeOK
    <3>2. c'[w][l_op.line[2]] = c[w][l_op.line[2]]
      BY <3>1, <1>4, <1>5, <1>7 DEF Write, CacheInv, TypeOK
    <3> QED
      BY <3>1, <3>2, <2>1, <1>4, <1>7 DEF CacheInv, ArraySound
  <2> QED
    BY <2>1, <1>4 DEF Uncached
<1>9. FsmInv' /\ x' \in Burst /\ b' = <<>>
  BY <1>1, <1>2, <1>4, <1>8, RequestStarts DEF CacheInv, Single
<1> QED
  BY <1>9, NoBurst

LEMMA SendDataKeeps ==
    ASSUME CacheInv, SendData
    PROVE  FsmInv' /\ BusTypes'
<1>1. f_flush' = FALSE
  BY DEF SendData, CacheInv, WalkTransfer, Transfer, TypeOK
<1> QED
  BY <1>1, RestKeeps, NoBurst DEF SendData, Rest

LEMMA WriteCacheKeeps ==
    ASSUME CacheInv, NEW flush \in FlushIn, NEW bus \in BusIn, Cycle(flush, bus),
           WriteCache(flush)
    PROVE  FsmInv' /\ BusTypes'
<1>1. f_state = "WRITE_CACHE" /\ f_flush' = FALSE
  BY DEF WriteCache, CacheInv, WalkTransfer, Transfer, TypeOK
<1>2. CASE flush \/ (f_for = "lsu" /\ LHits # {})
  BY <1>1, <1>2, RestKeeps, NoBurst DEF WriteCache, Rest
<1>3. CASE ~flush /\ ~(f_for = "lsu" /\ LHits # {})
  <2>1. f_state' = "SEND_DATA" /\ f_for' = f_for /\ x' = x /\ b' = b
    BY <1>3 DEF WriteCache, Go
  <2>2. f_for \in {"lsu", "walk"}
    BY <1>1 DEF CacheInv, ScanTransfer, TypeOK, Writing
  <2>3. Hits = {}
    BY <1>1, <1>3, <2>2 DEF Hits, CacheInv, WalkTransfer
  <2>4. Len(b) = 2
    BY <1>1, <2>3 DEF CacheInv, Refill
  <2>5. f_for = "lsu" => l_state' = "stage" /\ l_paddr' = "ok"
    BY <1>1, <1>3, NoPush, LsuServes
  <2>6. x' # None => (x'.single => x'.last /\ f_for' = "lsu")
    BY <2>1 DEF CacheInv, BurstShape
  <2>7. FsmInv'
    <3>1. f_for' \in {"lsu", "walk"} /\ Len(b') >= 1
      BY <2>1, <2>2, <2>4
    <3> QED
      BY <1>1, <2>1, <2>5, <2>6, <3>1, SendStarts
  <2> QED
    BY <2>1, <2>7 DEF BusTypes, CacheInv, TypeOK
<1> QED
  BY <1>2, <1>3

LEMMA ScanNextKeeps ==
    ASSUME ScanNext, f_flush' = FALSE
    PROVE  FsmInv' /\ BusTypes'
<1>1. CASE Rest
  BY <1>1, RestKeeps, NoBurst DEF Rest
<1>2. CASE ~Rest
  <2>1. f_state' = "FLUSH_READ" /\ f_for' = "scan" /\ x' = None /\ b' = <<>>
    BY <1>2 DEF ScanNext
  <2>2. FsmInv'
    BY <2>1 DEF FsmInv, BurstShape, WriteBack, Refill, Refilling, SingleBeat,
       LsuTransfer, WalkTransfer, Writing, Reading, Transfer
  <2> QED
    BY <2>1, <2>2, NoBurst
<1> QED
  BY <1>1, <1>2

LEMMA FlushReadKeeps ==
    ASSUME CacheInv, RefillUnfenced, NEW flush \in FlushIn, NEW bus \in BusIn,
           Cycle(flush, bus), FlushRead
    PROVE  FsmInv' /\ BusTypes'
<1>1. f_state = "FLUSH_READ" /\ f_for = "scan" /\ c_q = s_index /\ f_flush' = FALSE
  BY DEF FlushRead, CacheInv, WalkTransfer, ScanTransfer, TypeOK
<1>2. CASE ScanDirty
  <2>1. StartWriteBack("scan", Q(s_way))
    BY <1>2 DEF FlushRead
  <2>2. s_way \in Way /\ s_index \in Index
    BY DEF CacheInv, TypeOK
  <2>3. Q(s_way) = c[s_way][s_index] /\ c[s_way][s_index] # None
    BY <1>1, <1>2, <2>2, NoneAssumption DEF Q, ScanDirty, IsDirty
  <2>4. ~ScanClears(bus)
    BY <1>1, <1>2 DEF ScanClears
  <2>5. c' = c /\ s_way' = s_way /\ s_index' = s_index
    BY <1>1, <2>4, ArrayChange DEF Cycle, ScanStep
  <2>6. f_for' = "scan"
    BY <2>1 DEF StartWriteBack, StartLine
  <2>7. VictimRow' = Q(s_way)
    BY <2>3, <2>5, <2>6 DEF VictimRow, VictimWay, VictimIndex
  <2>8. Q(s_way) \in CacheRow /\ IsDirty(Q(s_way))
    BY <1>2, <2>2, <2>3 DEF CacheInv, ArraySound, ScanDirty
  <2>9. FsmInv' /\ x' \in Burst /\ b' = <<>>
    BY <1>1, <2>1, <2>7, <2>8, WriteBackStarts
  <2> QED
    BY <2>9, NoBurst
<1>3. CASE ~ScanDirty
  BY <1>1, <1>3, ScanNextKeeps DEF FlushRead
<1> QED
  BY <1>2, <1>3

\* A step within a transfer leaves the arrays alone, but for the scan's clearing.
LEMMA TransferKeepsArrays ==
    ASSUME CacheInv, RefillUnfenced, NEW flush \in FlushIn, NEW bus \in BusIn,
           Cycle(flush, bus), f_state \in Transfer \cup {"WAIT_ERROR"}, ~ScanClears(bus)
    PROVE  c' = c /\ s_way' = s_way /\ s_index' = s_index
<1>1. c' = c
  BY ArrayChange DEF Cycle, Transfer
<1> QED
  BY <1>1 DEF Cycle, ScanStep

\* Who is served, which row is the victim and what is asked for, in the middle of
\* a transfer that no flush overtakes.
LEMMA ServiceKept ==
    ASSUME CacheInv, RefillUnfenced, NEW flush \in FlushIn, NEW bus \in BusIn,
           Cycle(flush, bus), f_state \in Transfer, ~ScanClears(bus), f_for' = f_for,
           ~flush, ~f_flush
    PROVE  /\ VictimRow' = VictimRow
           /\ f_for # "scan" => Asked' = Asked /\ Hits' = Hits
<1>1. c' = c /\ s_way' = s_way /\ s_index' = s_index
  BY TransferKeepsArrays
<1>2. f_for \in {"lsu", "walk", "scan"}
  BY DEF CacheInv, TypeOK
<1>3. CASE f_for = "lsu"
  <2>1. l_op' = l_op /\ LHits' = LHits /\ LWay' = LWay
    BY <1>3, NoPush, LsuServes DEF Transfer
  <2> QED
    BY <1>1, <1>3, <2>1 DEF VictimRow, VictimWay, VictimIndex, Asked, Hits
<1>4. CASE f_for = "walk"
  <2>1. m_addr' = m_addr /\ MHits' = MHits /\ MWay' = MWay
    BY <1>4, WalkServes
  <2> QED
    BY <1>1, <1>4, <2>1 DEF VictimRow, VictimWay, VictimIndex, Asked, Hits
<1>5. CASE f_for = "scan"
  BY <1>1, <1>5 DEF VictimRow, VictimWay, VictimIndex
<1> QED
  BY <1>2, <1>3, <1>4, <1>5

\* The parts of the invariant that say whom a transfer serves, while it goes on.
LEMMA ServersKept ==
    ASSUME CacheInv, NEW flush \in FlushIn, NEW bus \in BusIn, Cycle(flush, bus),
           f_state \in Transfer, f_for' = f_for, f_flush' = (f_flush \/ flush),
           f_state' \in Transfer, x # None, x'.single = x.single,
           f_state \in Writing <=> f_state' \in Writing
    PROVE  LsuTransfer' /\ WalkTransfer'
<1>1. f_for = "lsu" => /\ l_state' = "stage" /\ l_op' = l_op /\ l_paddr' = "ok"
                       /\ LHits' = LHits /\ f_flush' = FALSE
  BY NoPush, LsuServes DEF Transfer
<1>2. LsuTransfer'
  BY <1>1 DEF LsuTransfer, CacheInv, Transfer, Writing, Reading
<1>3. f_for = "walk" /\ ~flush /\ ~f_flush => m_valid' /\ MHits' = {}
  BY WalkServes
<1>4. f_flush' => f_for = "walk"
  <2>1. f_for = "scan" => fence = "on"
    BY DEF CacheInv, ScanTransfer
  <2>2. f_for = "scan" => ~flush
    BY <2>1, FlushFindsIdle
  <2>3. f_flush => f_for = "walk"
    BY DEF CacheInv, WalkTransfer
  <2>4. f_for \in {"lsu", "walk", "scan"} /\ f_flush \in BOOLEAN /\ flush \in BOOLEAN
    BY FlushFindsIdle DEF CacheInv, TypeOK
  <2> QED
    BY <1>1, <2>2, <2>3, <2>4
<1>5. WalkTransfer'
  BY <1>3, <1>4 DEF WalkTransfer, Transfer
<1> QED
  BY <1>2, <1>5

\* What goes out next of a line is the second word of its victim.
LEMMA SecondBeatIs ==
    ASSUME CacheInv, f_state \in Writing, x # None, ~x.single
    PROVE  /\ SecondBeat \in Word
           /\ ~f_flush => SecondBeat = VictimRow.data[2]
<1>1. f_for = "scan" => ~f_flush /\ s_row = VictimRow
  BY DEF CacheInv, WalkTransfer, ScanTransfer, VictimRow, VictimWay, VictimIndex
<1>2. f_for = "lsu" => ~f_flush
  BY DEF CacheInv, WalkTransfer
<1>3. ~f_flush => VictimRow \in CacheRow /\ IsDirty(VictimRow)
  BY VictimShown DEF CacheInv, WriteBack, Writing, Transfer, IsDirty
<1>4. VictimRow \in CacheRow => VictimRow.data[2] \in Word /\ VictimRow # None
  BY NoneAssumption DEF CacheRow, Row
<1>5. ~f_flush => SecondBeat = VictimRow.data[2]
  BY <1>1, <1>3, <1>4, VictimShown DEF SecondBeat, Writing, Transfer, CacheInv, TypeOK
<1>6. CASE f_flush
  <2>1. f_for = "walk" /\ m_addr # None
    BY <1>6 DEF CacheInv, WalkTransfer, Requests
  <2>2. MWays \in Rows /\ MWay \in Way
    BY <2>1, StageRows, StageWays DEF CacheInv
  <2>3. MWays[MWay] = None \/ MWays[MWay].data[2] \in Word
    BY <2>2 DEF Rows, Row
  <2> QED
    BY <1>6, <2>1, <2>3 DEF SecondBeat, Word
<1> QED
  BY <1>3, <1>4, <1>5, <1>6

LEMMA SendWriteKeeps ==
    ASSUME CacheInv, RefillUnfenced, NEW flush \in FlushIn, NEW bus \in BusIn,
           Cycle(flush, bus), SendWrite(flush, bus)
    PROVE  FsmInv' /\ BusTypes'
<1>1. /\ f_state \in {"WAIT_AW_W", "WAIT_AW", "WAIT_W"}
      /\ f_for' = f_for /\ f_flush' = (f_flush \/ flush)
      /\ f_state' \in Writing
  BY DEF SendWrite, Writing
<1>2. /\ x \in Burst /\ x # None /\ x.single \in BOOLEAN /\ x.last \in BOOLEAN
      /\ x.wdata \in Word /\ x.line \in Line
      /\ b \in Seq(Word) /\ Len(b) \in Nat /\ Len(b) <= 2
  BY <1>1 DEF CacheInv, TypeOK, BurstShape, Writing, Burst
<1>3. /\ f_state \in {"WAIT_AW_W", "WAIT_W"} => Len(b) = IF ~x.single /\ x.last THEN 1 ELSE 0
      /\ f_state = "WAIT_AW" => x.last /\ Len(b) = IF x.single THEN 1 ELSE 2
      /\ x.single => x.last /\ f_for = "lsu"
  BY <1>2 DEF CacheInv, BurstShape
<1>4. "w" \in bus => f_state \in {"WAIT_AW_W", "WAIT_W"}
  BY <1>1 DEF BusIn
<1>5. ~x.single => SecondBeat \in Word /\ (~f_flush => SecondBeat = VictimRow.data[2])
  BY <1>1, <1>2, SecondBeatIs DEF Writing
<1>6. c' = c
  BY <1>1, TransferKeepsArrays DEF Transfer, ScanClears
\* The three things a step may do to the burst.
<1>7. \/ /\ "w" \notin bus /\ b' = b /\ x' = x
         /\ f_state = "WAIT_AW" => f_state' \in {"WAIT_AW", "WAIT_B"}
         /\ f_state # "WAIT_AW" => f_state' \in {"WAIT_AW_W", "WAIT_W"}
      \/ /\ "w" \in bus /\ x.last /\ b' = Append(b, x.wdata) /\ x' = x
         /\ f_state' \in {"WAIT_AW", "WAIT_B"}
      \/ /\ "w" \in bus /\ ~x.last /\ b' = Append(b, x.wdata)
         /\ x' = [x EXCEPT !.wdata = SecondBeat, !.last = TRUE]
         /\ f_state' \in {"WAIT_AW_W", "WAIT_W"}
  BY <1>1, <1>4 DEF SendWrite
<1>8. "w" \in bus => /\ b' \in Seq(Word) /\ Len(b') = Len(b) + 1
                     /\ Len(b) = 0 => b'[1] = x.wdata
                     /\ Len(b) = 1 => b'[1] = b[1] /\ b'[2] = x.wdata
  <2>1. "w" \in bus => Len(b) = IF ~x.single /\ x.last THEN 1 ELSE 0
    BY <1>3, <1>4
  <2> QED
    BY <1>2, <1>7, <2>1, AppendWord
<1>9. /\ x' \in Burst /\ x' # None /\ x'.line = x.line /\ x'.half = x.half
      /\ x'.single = x.single /\ x'.last \in BOOLEAN
      /\ "w" \in bus /\ ~x.last => x'.wdata = SecondBeat /\ x'.last
  <2>1. ~x.last => [x EXCEPT !.wdata = SecondBeat, !.last = TRUE] \in Burst
    BY <1>2, <1>3, <1>5 DEF Burst
  <2> QED
    BY <1>2, <1>7, <2>1, NoneAssumption DEF Burst
<1>10. BusTypes'
  BY <1>2, <1>3, <1>4, <1>7, <1>8, <1>9 DEF BusTypes
<1>11. BurstShape'
  <2> DEFINE Shape ==
        /\ f_state' \in {"WAIT_AW_W", "WAIT_W"} => Len(b') = IF ~x'.single /\ x'.last THEN 1 ELSE 0
        /\ f_state' \in {"WAIT_AW", "WAIT_B"} => x'.last /\ Len(b') = IF x'.single THEN 1 ELSE 2
        /\ x'.single => x'.last
  <2>1. Shape
    <3>1. CASE "w" \notin bus
      BY <1>1, <1>3, <1>7, <3>1
    <3>2. CASE "w" \in bus /\ x.last
      <4>1. Len(b) = IF x.single THEN 0 ELSE 1
        BY <1>3, <1>4, <3>2
      <4>2. x' = x /\ f_state' \in {"WAIT_AW", "WAIT_B"}
        BY <1>7, <3>2
      <4>3. Len(b') = IF x.single THEN 1 ELSE 2
        BY <1>8, <3>2, <4>1
      <4> QED
        BY <3>2, <4>2, <4>3
    <3>3. CASE "w" \in bus /\ ~x.last
      <4>1. ~x.single /\ Len(b) = 0
        BY <1>3, <1>4, <3>3
      <4>2. f_state' \in {"WAIT_AW_W", "WAIT_W"}
        BY <1>7, <3>3
      <4>3. Len(b') = 1
        BY <1>8, <3>3, <4>1
      <4> QED
        BY <1>9, <3>3, <4>1, <4>2, <4>3
    <3> QED
      BY <3>1, <3>2, <3>3
  <2>2. x'.single => f_for' = "lsu"
    BY <1>1, <1>3, <1>9
  <2> QED
    BY <1>1, <1>9, <2>1, <2>2 DEF BurstShape, Writing, Reading
<1>12. WriteBack'
  <2>1. SUFFICES ASSUME ~x.single
                 PROVE  WriteBack'
    BY <1>9 DEF WriteBack
  <2>2. CASE f_flush'
    <3>1. PICK w \in Way : DirtyIn(w, x.line)
      BY <1>1, <2>1, WrittenIsDirty DEF Writing
    <3> QED
      BY <1>6, <1>9, <2>2, <3>1 DEF WriteBack, DirtyIn
  <2>3. CASE ~f_flush'
    <3>1. ~flush /\ ~f_flush
      BY <1>1, <2>3
    <3>2. VictimRow' = VictimRow
      BY <1>1, <3>1, ServiceKept DEF Transfer, ScanClears
    <3>3. /\ IsDirty(VictimRow) /\ x.line = VictimRow.line
          /\ Beats(VictimRow.data)
          /\ ~x.last => x.wdata = VictimRow.data[1]
          /\ x.last /\ Len(b) = 1 => x.wdata = VictimRow.data[2]
      BY <1>1, <2>1, <3>1 DEF CacheInv, WriteBack, Writing
    <3>4. /\ Beats(VictimRow.data)'
          /\ ~x'.last => x'.wdata = VictimRow.data[1]
          /\ x'.last /\ Len(b') = 1 => x'.wdata = VictimRow.data[2]
      BY <1>2, <1>3, <1>4, <1>5, <1>7, <1>8, <1>9, <2>1, <3>1, <3>2, <3>3 DEF Beats
    <3> QED
      BY <1>9, <2>3, <3>2, <3>3, <3>4 DEF WriteBack
  <2> QED
    BY <2>2, <2>3
<1>13. Refill'
  BY <1>1 DEF Refill, Refilling, Writing, Reading
<1>14. SingleBeat'
  <2>1. SUFFICES ASSUME x.single
                 PROVE  SingleBeat'
    BY <1>9 DEF SingleBeat
  <2>2. f_for = "lsu" /\ l_op' = l_op
    BY <1>1, <1>3, <2>1, NoPush, LsuServes
  <2>3. /\ Single(l_op) /\ x.line = l_op.line /\ x.half = l_op.half
        /\ Uncached(l_op.line) /\ ~IsRead(l_op)
        /\ (IF Len(b) = 0 THEN x.wdata ELSE b[1]) = OpWord(l_op)
    BY <1>1, <2>1 DEF CacheInv, SingleBeat, Writing, Reading
  <2>4. Uncached(l_op.line)'
    BY <1>6, <2>2, <2>3 DEF Uncached
  <2>5. (IF Len(b') = 0 THEN x'.wdata ELSE b'[1]) = OpWord(l_op)
    BY <1>2, <1>3, <1>4, <1>7, <1>8, <2>1, <2>3
  <2> QED
    BY <1>1, <1>9, <2>2, <2>3, <2>4, <2>5 DEF SingleBeat, Writing, Reading
<1>15. LsuTransfer' /\ WalkTransfer'
  BY <1>1, <1>2, <1>9, ServersKept DEF Writing, Transfer
<1> QED
  BY <1>10, <1>11, <1>12, <1>13, <1>14, <1>15 DEF FsmInv

\* A step that keeps the burst and stays in its phase.
LEMMA BurstKept ==
    ASSUME CacheInv, RefillUnfenced, NEW flush \in FlushIn, NEW bus \in BusIn,
           Cycle(flush, bus), f_state \in Transfer, ~ScanClears(bus), mem' = mem,
           f_for' = f_for, x' = x, b' = b, f_flush' = (f_flush \/ flush),
           \/ f_state' = f_state
           \/ f_state = "WAIT_AR" /\ f_state' = "WAIT_R"
    PROVE  FsmInv' /\ BusTypes'
<1>1. x # None /\ x.single \in BOOLEAN /\ x.line \in Line
  BY DEF CacheInv, BurstShape, TypeOK, Transfer, Writing, Reading, Burst
<1>2. c' = c
  BY TransferKeepsArrays
<1>3. BurstShape'
  <2>1. f_state = "WAIT_AR" => Len(b) = 0
    BY DEF CacheInv, BurstShape
  <2> QED
    BY <1>1, <2>1 DEF BurstShape, CacheInv, Transfer, Writing, Reading
<1>4. ~f_flush' => /\ ~flush /\ ~f_flush /\ VictimRow' = VictimRow
                   /\ f_for # "scan" => Asked' = Asked /\ Hits' = Hits
  BY ServiceKept
<1>5. WriteBack'
  <2>1. f_flush' /\ f_state \in Writing /\ ~x.single => \E w \in Way : DirtyIn(w, x.line)
    BY WrittenIsDirty
  <2>2. CASE f_flush'
    BY <1>2, <2>1, <2>2 DEF WriteBack, DirtyIn, Writing
  <2>3. CASE ~f_flush'
    BY <1>4, <2>3 DEF WriteBack, CacheInv, Writing, Beats
  <2> QED
    BY <2>2, <2>3
<1>6. Refill'
  <2>1. CASE f_flush'
    BY <2>1 DEF Refill, Refilling, Transfer
  <2>2. CASE ~f_flush'
    <3>1. f_state' \in Reading => f_for # "scan" /\ f_state \in Reading
      BY DEF CacheInv, ScanTransfer, Writing, Reading
    <3>2. f_state \in Reading /\ ~x.single =>
             x.line = Asked /\ Hits = {} /\ Beats(mem[Asked]) /\ VictimSaved
      BY <1>4, <2>2 DEF CacheInv, Refill, Refilling
    <3>3. f_state' \notin {"WRITE_CACHE", "FLUSH"}
      BY DEF Transfer
    <3>4. f_state' \in Reading /\ ~x.single =>
             x.line = Asked' /\ Hits' = {} /\ Beats(mem[Asked])' /\ VictimSaved'
      BY <1>4, <2>2, <3>1, <3>2 DEF Beats, VictimSaved
    <3> QED
      BY <1>1, <3>3, <3>4 DEF Refill, Refilling
  <2> QED
    BY <2>1, <2>2
<1>7. SingleBeat'
  <2>1. x.single => l_op' = l_op
    BY <1>1, NoPush, LsuServes DEF CacheInv, BurstShape, Transfer
  <2>2. x.single => (Uncached(l_op.line) <=> Uncached(l_op.line)')
    BY <1>2, <2>1 DEF Uncached
  <2> QED
    BY <2>1, <2>2 DEF SingleBeat, CacheInv, Transfer, Writing, Reading
<1>8. LsuTransfer' /\ WalkTransfer'
  BY <1>1, ServersKept DEF Transfer, Writing
<1>9. BusTypes'
  BY DEF BusTypes, CacheInv, TypeOK
<1> QED
  BY <1>3, <1>5, <1>6, <1>7, <1>8, <1>9 DEF FsmInv

LEMMA WaitArKeeps ==
    ASSUME CacheInv, RefillUnfenced, NEW flush \in FlushIn, NEW bus \in BusIn,
           Cycle(flush, bus), WaitAr(flush, bus)
    PROVE  FsmInv' /\ BusTypes'
BY BurstKept DEF WaitAr, Go, Transfer, ScanClears

\* The write is answered.
LEMMA WaitBKeeps ==
    ASSUME CacheInv, RefillUnfenced, NEW flush \in FlushIn, NEW bus \in BusIn,
           Cycle(flush, bus), WaitB(flush, bus)
    PROVE  FsmInv' /\ BusTypes'
<1>1. f_state = "WAIT_B" /\ (bus = {} \/ bus = {"ok"} \/ bus = {"error"})
  BY DEF WaitB, BusIn, Answers
<1>2. CASE bus = {}
  <2>1. /\ f_state' = f_state /\ f_for' = f_for /\ x' = x /\ b' = b /\ mem' = mem
        /\ f_flush' = (f_flush \/ flush)
    BY <1>1, <1>2 DEF WaitB, Go
  <2> QED
    BY <1>1, <1>2, <2>1, BurstKept DEF Transfer, ScanClears
<1>3. CASE bus # {} /\ (flush \/ f_flush)
  BY <1>1, <1>3, RestKeeps, NoBurst DEF WaitB, Rest
<1>4. CASE bus # {} /\ ~(flush \/ f_flush)
  <2>1. /\ x \in Burst /\ x # None /\ x.single \in BOOLEAN /\ x.line \in Line /\ x.last
        /\ Len(b) = IF x.single THEN 1 ELSE 2
        /\ x.single => f_for = "lsu"
    BY <1>1 DEF CacheInv, TypeOK, BurstShape, Writing, Burst
  <2>2. f_flush' = FALSE /\ f_for \in {"lsu", "walk", "scan"}
    BY <1>1, <1>4 DEF WaitB, CacheInv, TypeOK
  <2>3. f_for = "lsu" => /\ l_state' = "stage" /\ l_op' = l_op /\ l_paddr' = "ok"
                         /\ LHits' = LHits /\ LWay' = LWay
    BY <1>1, NoPush, LsuServes
  <2>4. CASE f_for = "scan"
    <3>1. AfterScanWrite("ok" \in bus) /\ ~x.single
      BY <1>1, <1>4, <2>1, <2>4 DEF WaitB
    <3>2. CASE "ok" \in bus
      BY <2>2, <3>1, <3>2, ScanNextKeeps DEF AfterScanWrite
    <3>3. CASE "ok" \notin bus
      <4>1. StartWriteBack("scan", s_row) /\ ~ScanClears(bus)
        BY <1>1, <3>1, <3>3 DEF AfterScanWrite, ScanClears
      <4>2. c' = c /\ s_way' = s_way /\ s_index' = s_index
        BY <1>1, <4>1, TransferKeepsArrays DEF Transfer
      <4>3. f_for' = "scan"
        BY <4>1 DEF StartWriteBack, StartLine
      <4>4. s_row = VictimRow /\ VictimRow' = VictimRow
        BY <1>1, <2>4, <4>2, <4>3 DEF CacheInv, ScanTransfer, Writing, VictimRow, VictimWay,
           VictimIndex
      <4>5. IsDirty(VictimRow) /\ VictimRow \in CacheRow
        BY <1>1, <1>4, <2>1, <3>1, VictimShown
        DEF CacheInv, WriteBack, Writing, IsDirty, Transfer
      <4>6. FsmInv' /\ x' \in Burst /\ b' = <<>>
        BY <2>2, <4>1, <4>4, <4>5, WriteBackStarts
      <4> QED
        BY <4>6, NoBurst
    <3> QED
      BY <3>2, <3>3
  <2>5. CASE f_for # "scan" /\ (x.single \/ bus = {"error"})
    <3>1. f_state' = "SEND_DATA" /\ f_for' = f_for /\ x' = x /\ b' = b
      BY <1>1, <1>4, <2>5 DEF WaitB, Go
    <3>2. f_for' \in {"lsu", "walk"} /\ Len(b') >= 1
      <4>1. f_for \in {"lsu", "walk"}
        BY <2>2, <2>5
      <4>2. Len(b) >= 1
        BY <2>1
      <4> QED
        BY <3>1, <4>1, <4>2
    <3>3. x' # None => (x'.single => x'.last /\ f_for' = "lsu")
      BY <2>1, <3>1
    <3>4. FsmInv'
      BY <2>2, <2>3, <3>1, <3>2, <3>3, SendStarts
    <3> QED
      BY <3>1, <3>4 DEF BusTypes, CacheInv, TypeOK
  <2>6. CASE f_for # "scan" /\ ~x.single /\ bus = {"ok"}
    <3>1. /\ IsDirty(VictimRow) /\ x.line = VictimRow.line
          /\ VictimRow.data[1] = b[1] /\ VictimRow.data[2] = b[2]
      BY <1>1, <1>4, <2>1, <2>6 DEF CacheInv, WriteBack, Writing, Beats
    <3>2. VictimRow \in CacheRow /\ VictimWay \in Way /\ VictimIndex \in Index
      BY <1>1, <1>4, <2>1, <2>6, <3>1, VictimShown DEF Transfer, IsDirty
    <3>3. VictimRow.data = <<b[1], b[2]>>
      BY <3>1, <3>2 DEF CacheRow
    <3>4. mem' = [mem EXCEPT ![x.line] = <<b[1], b[2]>>]
      BY <1>1, <2>6 DEF WaitB, Commit
    <3>5. mem'[VictimRow.line] = VictimRow.data
      BY <2>1, <3>1, <3>3, <3>4 DEF CacheInv, TypeOK
    <3>6. ~ScanClears(bus) /\ c' = c
      BY <1>1, <2>6, TransferKeepsArrays DEF ScanClears, Transfer
    <3>7. CASE f_for = "walk"
      <4>1. StartRefill("walk", m_addr[1])
        BY <1>1, <1>4, <2>1, <2>6, <3>7 DEF WaitB
      <4>2. f_for' = f_for
        BY <3>7, <4>1 DEF StartRefill, StartLine
      <4>3. VictimRow' = VictimRow /\ Asked' = m_addr[1]
        BY <1>1, <1>4, <3>6, <3>7, <4>2, ServiceKept DEF Transfer, Asked
      <4>4. VictimSaved'
        BY <3>5, <4>3 DEF VictimSaved
      <4>5. m_valid' /\ MHits' = {} /\ m_addr[1] \in Line
        BY <1>1, <1>4, <3>7, WalkServes DEF Transfer
      <4>6. FsmInv' /\ x' \in Burst /\ b' = <<>>
        BY <2>2, <4>1, <4>3, <4>4, <4>5, RefillStarts DEF Word
      <4> QED
        BY <4>6, NoBurst
    <3>8. CASE f_for = "lsu" /\ LHits # {}
      <4>1. Go("FLUSH")
        BY <1>1, <1>4, <2>1, <2>6, <3>8 DEF WaitB
      <4>2. f_state' = "FLUSH" /\ f_for' = f_for /\ x' = x /\ b' = b
        BY <4>1 DEF Go
      <4>3. VictimRow' = VictimRow
        BY <1>1, <1>4, <3>6, <4>2, ServiceKept DEF Transfer
      <4>4. VictimSaved'
        BY <3>5, <4>3 DEF VictimSaved
      <4>5. Locked(l_op)
        BY <1>1, <2>6, <3>8 DEF CacheInv, LsuTransfer, Writing, Reading
      <4>6. FsmInv'
        BY <2>1, <2>2, <2>3, <2>6, <3>8, <4>2, <4>4, <4>5 DEF FsmInv, BurstShape, WriteBack,
           Refill, Refilling, SingleBeat, LsuTransfer, WalkTransfer, Writing, Reading, Transfer
      <4> QED
        BY <4>2, <4>6 DEF BusTypes, CacheInv, TypeOK
    <3>9. CASE f_for = "lsu" /\ LHits = {}
      <4>1. StartRefill("lsu", l_op.line)
        BY <1>1, <1>4, <2>1, <2>6, <3>9 DEF WaitB
      <4>2. f_for' = f_for
        BY <3>9, <4>1 DEF StartRefill, StartLine
      <4>3. VictimRow' = VictimRow /\ Asked' = l_op.line
        BY <1>1, <1>4, <3>6, <3>9, <4>2, ServiceKept DEF Transfer, Asked
      <4>4. VictimSaved'
        BY <3>5, <4>3 DEF VictimSaved
      <4>5. ~Single(l_op)
        BY <1>1, <2>6, <3>9 DEF CacheInv, LsuTransfer, Writing, Reading
      <4>6. l_op.line \in Line
        BY <1>1, <3>9, LsuServes
      <4>7. FsmInv' /\ x' \in Burst /\ b' = <<>>
        BY <2>2, <2>3, <3>9, <4>1, <4>3, <4>4, <4>5, <4>6, RefillStarts DEF Word
      <4> QED
        BY <4>7, NoBurst
    <3> QED
      BY <2>2, <2>6, <3>7, <3>8, <3>9
  <2> QED
    BY <1>1, <1>4, <2>4, <2>5, <2>6
<1> QED
  BY <1>2, <1>3, <1>4

\* A beat arrives.
LEMMA WaitRKeeps ==
    ASSUME CacheInv, RefillUnfenced, NEW flush \in FlushIn, NEW bus \in BusIn,
           Cycle(flush, bus), WaitR(flush, bus)
    PROVE  FsmInv' /\ BusTypes'
<1>1. /\ f_state = "WAIT_R" /\ (bus = {} \/ bus = {"ok"} \/ bus = {"error"})
      /\ mem' = mem /\ ~ScanClears(bus)
  BY DEF WaitR, BusIn, Answers, ScanClears
<1>2. /\ x \in Burst /\ x # None /\ x.single \in BOOLEAN /\ x.line \in Line /\ x.half \in Half
      /\ b \in Seq(Word) /\ Len(b) \in Nat
      /\ Len(b) <= IF x.single THEN 0 ELSE 1
      /\ x.single => x.last /\ f_for = "lsu"
      /\ f_for \in {"lsu", "walk"}
  BY <1>1 DEF CacheInv, TypeOK, BurstShape, Reading, Burst, ScanTransfer, Writing
<1>3. LastBeat <=> (x.single \/ Len(b) = 1)
  BY DEF LastBeat
<1>10. ~x.single => Len(b) = 0 \/ Len(b) = 1
  <2> DEFINE n == Len(b)
  <2>1. n \in Nat /\ (~x.single => n <= 1)
    BY <1>2
  <2> HIDE DEF n
  <2>2. ~x.single => n = 0 \/ n = 1
    BY <2>1
  <2> QED
    BY <2>2 DEF n
<1>4. ReadWord \in Word
  <2>1. mem[x.line] \in Word \X Word /\ x.half \in {1, 2}
    BY <1>2 DEF CacheInv, TypeOK, Half
  <2>2. Len(b) + 1 \in {1, 2}
    BY <1>2
  <2> QED
    BY <2>1, <2>2 DEF ReadWord
<1>5. /\ Append(b, ReadWord) \in Seq(Word)
      /\ Len(Append(b, ReadWord)) = Len(b) + 1
      /\ Len(b) = 0 => Append(b, ReadWord)[1] = ReadWord
      /\ Len(b) = 1 => Append(b, ReadWord)[1] = b[1] /\ Append(b, ReadWord)[2] = ReadWord
  <2>1. Len(b) <= 1
    BY <1>2
  <2> QED
    BY <1>2, <1>4, <2>1, AppendWord
<1>6. CASE bus = {}
  BY <1>1, <1>6, BurstKept DEF WaitR, Transfer
<1>7. CASE bus # {} /\ (flush \/ f_flush) /\ LastBeat
  BY <1>7, RestKeeps, NoBurst DEF WaitR, Rest
<1>8. CASE bus # {} /\ (flush \/ f_flush) /\ ~LastBeat
  <2>1. /\ f_state' = f_state /\ f_for' = f_for /\ x' = x /\ b' = Append(b, ReadWord)
        /\ f_flush' = (f_flush \/ flush)
    BY <1>8 DEF WaitR
  <2>2. f_flush' = TRUE
    BY <1>8, <2>1, FlushFindsIdle DEF CacheInv, TypeOK
  <2>3. ~x.single /\ Len(b') = 1 /\ b' \in Seq(Word)
    <3>1. ~x.single /\ Len(b) = 0
      BY <1>3, <1>8, <1>10
    <3> QED
      BY <1>5, <2>1, <3>1
  <2>4. BurstShape' /\ WriteBack' /\ Refill' /\ SingleBeat'
    BY <1>1, <1>2, <2>1, <2>2, <2>3
    DEF BurstShape, WriteBack, Refill, Refilling, SingleBeat, Writing, Reading
  <2>5. LsuTransfer' /\ WalkTransfer'
    BY <1>1, <1>2, <2>1, ServersKept DEF Transfer, Writing
  <2>6. BusTypes'
    BY <1>2, <2>1, <2>3 DEF BusTypes
  <2> QED
    BY <2>4, <2>5, <2>6 DEF FsmInv
<1>9. CASE bus # {} /\ ~(flush \/ f_flush)
  <2>1. /\ b' = Append(b, ReadWord) /\ f_ok' = ("ok" \in bus)
        /\ f_state' = IF "error" \in bus THEN (IF LastBeat THEN "SEND_DATA" ELSE "WAIT_ERROR")
                      ELSE IF ~LastBeat THEN "WAIT_R"
                      ELSE IF x.single THEN "SEND_DATA" ELSE "WRITE_CACHE"
        /\ f_for' = f_for /\ f_flush' = f_flush /\ x' = x
    BY <1>9 DEF WaitR
  <2>2. f_flush' = FALSE
    BY <1>9, <2>1 DEF CacheInv, TypeOK
  <2>3. f_for = "lsu" => /\ l_state' = "stage" /\ l_op' = l_op /\ l_paddr' = "ok"
                         /\ LHits' = LHits /\ LWay' = LWay
    BY <1>1, NoPush, LsuServes
  <2>4. f_for = "walk" => m_valid' /\ m_addr' = m_addr /\ MHits' = {} /\ MHits = {}
    BY <1>1, <1>9, WalkServes DEF Transfer
  <2>5. BusTypes'
    BY <1>2, <1>5, <2>1 DEF BusTypes
  <2>6. CASE f_state' = "SEND_DATA"
    <3>1. Len(b') >= 1 /\ f_for' \in {"lsu", "walk"}
      BY <1>2, <1>5, <2>1
    <3>2. x' # None => (x'.single => x'.last /\ f_for' = "lsu")
      BY <1>2, <2>1
    <3>3. FsmInv'
      BY <2>1, <2>2, <2>3, <2>6, <3>1, <3>2, SendStarts
    <3> QED
      BY <2>5, <3>3
  <2>7. CASE f_state' = "WAIT_ERROR"
    <3>1. "error" \in bus /\ ~LastBeat
      BY <2>1, <2>7
    <3>2. ~x.single /\ Len(b') = 1 /\ ~f_ok'
      <4>1. ~x.single /\ Len(b) = 0
        BY <1>3, <1>10, <3>1
      <4>2. "ok" \notin bus
        BY <1>1, <3>1
      <4> QED
        <5>1. Len(Append(b, ReadWord)) = 0 + 1
          BY <1>5, <4>1
        <5>2. Len(b') = 1
          BY <2>1, <5>1
        <5> QED
          BY <2>1, <4>1, <4>2, <5>2
    <3>3. FsmInv'
      BY <1>2, <2>1, <2>2, <2>3, <2>4, <2>7, <3>2 DEF FsmInv, BurstShape, WriteBack, Refill,
         Refilling, SingleBeat, LsuTransfer, WalkTransfer, Writing, Reading, Transfer
    <3> QED
      BY <2>5, <3>3
  <2>8. CASE f_state' \in {"WAIT_R", "WRITE_CACHE"}
    <3>1. ~x.single /\ f_ok' = TRUE
      BY <1>1, <1>3, <1>9, <2>1, <2>8
    <3>2. Len(b') = IF f_state' = "WAIT_R" THEN 1 ELSE 2
      <4>1. f_state' = IF LastBeat THEN "WRITE_CACHE" ELSE "WAIT_R"
        BY <2>1, <2>8, <3>1
      <4>2. Len(b') = Len(b) + 1
        BY <1>5, <2>1
      <4> QED
        <5>1. CASE LastBeat
          <6>1. Len(b) = 1
            BY <1>3, <3>1, <5>1
          <6> QED
            BY <4>1, <4>2, <5>1, <6>1
        <5>2. CASE ~LastBeat
          <6>1. Len(b) = 0
            BY <1>3, <1>10, <5>2
          <6> QED
            BY <4>1, <4>2, <5>2, <6>1
        <5> QED
          BY <5>1, <5>2
    <3>3. x.line = Asked /\ Hits = {} /\ Beats(mem[Asked]) /\ VictimSaved
      BY <1>1, <1>9, <3>1 DEF CacheInv, Refill, Refilling, Reading
    <3>4. VictimRow' = VictimRow /\ Asked' = Asked /\ Hits' = Hits
      BY <1>1, <1>2, <1>9, <2>1, ServiceKept DEF Transfer
    <3>5. ReadWord = mem[Asked][Len(b) + 1]
      BY <3>1, <3>3 DEF ReadWord
    <3>6. Beats(mem[Asked])'
      <4>1. Len(b) = 0 \/ Len(b) = 1
        BY <1>10, <3>1
      <4> QED
        BY <1>1, <1>5, <2>1, <3>3, <3>4, <3>5, <4>1 DEF Beats
    <3>7. VictimSaved'
      BY <1>1, <3>3, <3>4 DEF VictimSaved
    <3>8. BurstShape' /\ WriteBack' /\ SingleBeat'
      BY <1>2, <2>1, <2>8, <3>1, <3>2 DEF BurstShape, WriteBack, SingleBeat, Writing, Reading
    <3>9. Refill'
      BY <1>2, <2>1, <2>8, <3>2, <3>3, <3>4, <3>6, <3>7 DEF Refill, Refilling
    <3>10. f_for = "lsu" => LHits = {} /\ ~Single(l_op)
      BY <1>1, <3>1, <3>3 DEF CacheInv, LsuTransfer, Hits, Writing, Reading
    <3>11. LsuTransfer' /\ WalkTransfer'
      BY <1>2, <2>1, <2>2, <2>3, <2>4, <2>8, <3>10
      DEF LsuTransfer, WalkTransfer, Transfer, Writing, Reading
    <3> QED
      BY <2>5, <3>8, <3>9, <3>11 DEF FsmInv
  <2>9. f_state' \in {"SEND_DATA", "WAIT_ERROR", "WAIT_R", "WRITE_CACHE"}
    BY <2>1
  <2> QED
    BY <2>6, <2>7, <2>8, <2>9
<1> QED
  BY <1>6, <1>7, <1>8, <1>9

LEMMA WaitErrorKeeps ==
    ASSUME CacheInv, NEW flush \in FlushIn, NEW bus \in BusIn, Cycle(flush, bus),
           WaitError(flush, bus)
    PROVE  FsmInv' /\ BusTypes'
<1>1. /\ f_state = "WAIT_ERROR" /\ x \in Burst /\ x # None /\ ~x.single /\ Len(b) = 1
      /\ f_ok = FALSE /\ f_ok' = f_ok /\ b \in Seq(Word) /\ x.line \in Line
  BY DEF WaitError, CacheInv, BurstShape, TypeOK, Burst
<1>2. f_for \in {"lsu", "walk"} /\ f_for' = f_for /\ x' = x
  BY <1>1 DEF WaitError, Go, CacheInv, ScanTransfer, TypeOK, Writing
<1>3. f_for = "lsu" => /\ l_state' = "stage" /\ l_paddr' = "ok"
                       /\ ~flush /\ f_flush = FALSE
  BY <1>1, NoPush, LsuServes
<1>4. CASE bus = {}
  <2>1. f_state' = "WAIT_ERROR" /\ b' = b /\ f_flush' = (f_flush \/ flush)
    BY <1>4 DEF WaitError, Go
  <2>2. FsmInv'
    BY <1>1, <1>2, <1>3, <2>1 DEF FsmInv, BurstShape, WriteBack, Refill,
       Refilling, SingleBeat, LsuTransfer, WalkTransfer, Writing, Reading, Transfer
  <2> QED
    <3>1. x' \in Burst /\ b' \in Seq(Word) /\ Len(b') = 1
      BY <1>1, <1>2, <2>1
    <3> QED
      BY <2>2, <3>1 DEF BusTypes
<1>5. CASE bus # {}
  <2>1. f_state' = "SEND_DATA" /\ b' = Append(b, ReadWord) /\ f_flush' = FALSE
    BY <1>5 DEF WaitError
  <2>2. ReadWord \in Word
    BY <1>1 DEF ReadWord, CacheInv, TypeOK
  <2>3. b' \in Seq(Word) /\ Len(b') = 2
    <3>1. b \in Seq(Word) /\ Len(b) = 1
      BY <1>1
    <3>2. Append(b, ReadWord) \in Seq(Word) /\ Len(Append(b, ReadWord)) = Len(b) + 1
      <4>1. b \in Seq(Word) /\ Len(b) <= 1
        BY <3>1
      <4> QED
        BY <2>2, <4>1, AppendWord
    <3> QED
      BY <2>1, <3>1, <3>2
  <2>4. FsmInv'
    BY <1>1, <1>2, <1>3, <2>1, <2>3, SendStarts
  <2> QED
    BY <1>1, <1>2, <2>3, <2>4 DEF BusTypes
<1> QED
  BY <1>4, <1>5

-----------------------------------------------------------------------------
\* An edge keeps the whole invariant.

LEMMA FsmKeeps ==
    ASSUME CacheInv, RefillUnfenced, NEW flush \in FlushIn, NEW bus \in BusIn, Cycle(flush, bus)
    PROVE  FsmInv' /\ BusTypes' /\ ArraySound'
<1>1. FsmStep(flush, bus) /\ ArrayStep(bus)
  BY DEF Cycle
<1>2. ArraySound'
  BY <1>1, ArraysStaySound
<1> QED
  BY <1>1, <1>2, IdleKeeps, DropForLockKeeps, SendWriteKeeps, WaitBKeeps, WaitArKeeps,
     WaitRKeeps, WaitErrorKeeps, SendDataKeeps, WriteCacheKeeps, FlushReadKeeps DEF FsmStep

\* The index the scan reads next is the one it moves to.
LEMMA ScanReads ==
    ASSUME CacheInv, NEW bus, ScanStep(bus), ScanClears(bus), f_for = "scan"
    PROVE  ScanReadIndex = s_index'
<1>1. LastIndex \in Nat /\ Index = 0 .. LastIndex
  BY DcacheAssumption
<1>2. Cardinality(Index) = LastIndex + 1
  BY <1>1, FS_Interval
<1>3. s_index \in 0 .. LastIndex
  BY <1>1 DEF CacheInv, TypeOK
<1>4. \A i \in Nat, n \in Nat : i <= n => (i + 1) % (n + 1) = IF i = n THEN 0 ELSE i + 1
  <2> TAKE i \in Nat, n \in Nat
  <2> HAVE i <= n
  <2>1. CASE i = n
    BY <2>1
  <2>2. CASE i # n
    BY <2>2
  <2> QED
    BY <2>1, <2>2
<1> QED
  BY <1>1, <1>2, <1>3, <1>4 DEF ScanReadIndex, ScanStep

\* The scan moves when a row is clean or has been written back.
LEMMA ScanMoves ==
    ASSUME CacheInv, NEW flush \in FlushIn, NEW bus \in BusIn, Cycle(flush, bus), f_for = "scan"
    PROVE  /\ ~flush /\ fence = "on" /\ ~LineWen
           /\ IF ScanClears(bus) THEN ScanNext
              ELSE /\ f_for' = "scan" /\ f_state' \in Writing
                   /\ s_row' = IF f_state = "FLUSH_READ" THEN Q(s_way) ELSE s_row
<1>1. fence = "on" /\ f_state \in Writing \cup {"FLUSH_READ"} /\ f_flush = FALSE
  BY DEF CacheInv, ScanTransfer, WalkTransfer, TypeOK
<1>2. flush = FALSE
  BY <1>1, FlushFindsIdle
<1>3. ~LineWen
  BY <1>1 DEF LineWen, Writing
<1>4. CASE f_state = "FLUSH_READ"
  <2>1. FlushRead
    BY <1>4 DEF Cycle, FsmStep, Idle, DropForLock, SendWrite, WaitB, WaitAr, WaitR, WaitError,
       SendData, WriteCache
  <2>2. ScanClears(bus) <=> ~ScanDirty
    BY <1>4 DEF ScanClears
  <2> QED
    BY <1>1, <1>2, <1>3, <1>4, <2>1, <2>2 DEF FlushRead, StartWriteBack, StartLine, Writing
<1>5. CASE f_state = "WAIT_B"
  <2>1. WaitB(flush, bus)
    BY <1>5 DEF Cycle, FsmStep, Idle, DropForLock, SendWrite, WaitAr, WaitR, WaitError,
       SendData, WriteCache, FlushRead
  <2>2. ScanClears(bus) <=> "ok" \in bus
    BY <1>5 DEF ScanClears
  <2>3. bus # {} => AfterScanWrite("ok" \in bus)
    BY <1>1, <1>2, <2>1 DEF WaitB
  <2> QED
    BY <1>1, <1>2, <1>3, <1>5, <2>1, <2>2, <2>3
    DEF WaitB, Go, AfterScanWrite, StartWriteBack, StartLine, Writing
<1>6. CASE f_state \in {"WAIT_AW_W", "WAIT_AW", "WAIT_W"}
  <2>1. SendWrite(flush, bus)
    BY <1>6 DEF Cycle, FsmStep, Idle, DropForLock, WaitB, WaitAr, WaitR, WaitError,
       SendData, WriteCache, FlushRead
  <2>2. ~ScanClears(bus)
    BY <1>6 DEF ScanClears
  <2>3. f_for' = "scan" /\ s_row' = s_row
    BY <2>1 DEF SendWrite
  <2>4. f_state' \in Writing
    BY <2>1 DEF SendWrite, Writing
  <2> QED
    BY <1>1, <1>2, <1>3, <1>6, <2>2, <2>3, <2>4
<1> QED
  BY <1>1, <1>4, <1>5, <1>6 DEF Writing

\* A transfer for the scan begins in IDLE.
LEMMA ScanBegins ==
    ASSUME CacheInv, NEW flush \in FlushIn, NEW bus \in BusIn, Cycle(flush, bus), f_for # "scan"
    PROVE  /\ ~ScanClears(bus)
           /\ f_for' = "scan" \/ f_state' = "FLUSH_READ" =>
                 /\ f_state = "IDLE" /\ ~flush /\ fence = "on"
                 /\ f_for' = "scan" /\ f_state' = "FLUSH_READ"
           /\ f_for' = "walk" => f_for = "walk" \/ m_valid
<1>1. f_state # "FLUSH_READ"
  BY DEF CacheInv, ScanTransfer
<1>2. ~ScanClears(bus)
  BY <1>1 DEF ScanClears
<1>3. CASE f_state = "IDLE"
  <2>1. Idle(flush) /\ f_for = "lsu"
    BY <1>3 DEF Cycle, FsmStep, DropForLock, SendWrite, WaitB, WaitAr, WaitR, WaitError,
       SendData, WriteCache, FlushRead, CacheInv, BurstShape
  <2>2. ~flush => fence # "first"
    BY FlushFindsIdle
  <2>3. m_valid /\ IdleWalk => f_for' # "scan" /\ f_state' # "FLUSH_READ"
    BY DEF IdleWalk, Rest, StartWriteBack, StartRefill, StartLine
  <2>4. IdleLsu => f_for' = "lsu" /\ f_state' # "FLUSH_READ"
    BY <2>1 DEF IdleLsu, Rest, Go, StartWriteBack, StartRefill, StartLine, StartSingle
  <2>5. Rest => f_for' = "lsu" /\ f_state' # "FLUSH_READ"
    BY DEF Rest
  <2> QED
    BY <1>2, <1>3, <2>1, <2>2, <2>3, <2>4, <2>5 DEF Idle, CacheInv, TypeOK
<1>4. CASE f_state # "IDLE"
  <2>1. f_for' \in {f_for, "lsu"} /\ f_state' # "FLUSH_READ"
    <3>1. DropForLock \/ SendData \/ WriteCache(flush) => f_for' \in {f_for, "lsu"} /\ f_state' # "FLUSH_READ"
      BY DEF DropForLock, StartSingle, SendData, WriteCache, Rest, Go
    <3>2. SendWrite(flush, bus) => f_for' = f_for /\ f_state' # "FLUSH_READ"
      BY DEF SendWrite
    <3>3. WaitB(flush, bus) => f_for' \in {f_for, "lsu"} /\ f_state' # "FLUSH_READ"
      BY DEF WaitB, Rest, Go, StartRefill, StartLine, CacheInv, TypeOK
    <3>4. WaitAr(flush, bus) \/ WaitError(flush, bus) => f_for' = f_for /\ f_state' # "FLUSH_READ"
      BY DEF WaitAr, WaitError, Go
    <3>5. WaitR(flush, bus) => f_for' \in {f_for, "lsu"} /\ f_state' # "FLUSH_READ"
      BY <1>1 DEF WaitR, Rest
    <3> QED
      BY <1>1, <1>4, <3>1, <3>2, <3>3, <3>4, <3>5 DEF Cycle, FsmStep, Idle, FlushRead
  <2> QED
    BY <1>2, <2>1 DEF CacheInv, TypeOK
<1> QED
  BY <1>3, <1>4

LEMMA ScanKeeps ==
    ASSUME CacheInv, RefillUnfenced, NEW flush \in FlushIn, NEW bus \in BusIn, Cycle(flush, bus)
    PROVE  ScanTransfer'
<1>1. ScanStep(bus) /\ ArrayStep(bus) /\ LsuStep(flush) /\ WalkStep(flush)
  BY DEF Cycle
<1>2. fence' # "no" => fence # "no" /\ l_state' = "idle"
  BY <1>1 DEF ScanStep, LsuStep, CacheInv, ScanTransfer
<1>3. fence' = "on" => w_state' = "idle" /\ ~m_valid'
  <2>1. CASE flush
    BY <1>1, <2>1 DEF WalkStep
  <2>2. CASE ~flush /\ fence' = "on"
    <3>1. fence = "on"
      BY <1>2, <2>2, FlushFindsIdle DEF CacheInv, TypeOK
    <3>2. w_state = "idle" /\ ~m_valid /\ ~WalkTake
      BY <3>1 DEF CacheInv, ScanTransfer, WalkTake
    <3> QED
      BY <1>1, <3>2 DEF WalkStep
  <2> QED
    BY <2>1, <2>2
<1>4. CASE f_for # "scan"
  <2>1. /\ ~ScanClears(bus) /\ s_way' = s_way /\ s_index' = s_index
        /\ s_way = 0 /\ s_index = 0
    BY <1>1, <1>4, ScanBegins DEF ScanStep, CacheInv, ScanTransfer
  <2>2. f_for' = "scan" \/ f_state' = "FLUSH_READ" =>
           f_for' = "scan" /\ fence' = "on" /\ f_state' = "FLUSH_READ" /\ c_q' = s_index'
    <3>1. SUFFICES ASSUME f_for' = "scan" \/ f_state' = "FLUSH_READ"
                   PROVE  f_for' = "scan" /\ fence' = "on" /\ f_state' = "FLUSH_READ"
                          /\ c_q' = s_index'
      OBVIOUS
    <3>2. f_state = "IDLE" /\ fence = "on" /\ f_for' = "scan" /\ f_state' = "FLUSH_READ"
      BY <1>4, <3>1, ScanBegins
    <3>3. c_q' = 0
      BY <1>1, <1>4, <3>2 DEF ArrayStep, LineWen, ScanReadIndex
    <3> QED
      BY <1>1, <2>1, <3>2, <3>3 DEF ScanStep
  <2> QED
    BY <1>2, <1>3, <2>1, <2>2 DEF ScanTransfer, Writing
<1>5. CASE f_for = "scan" /\ ScanClears(bus)
  <2>1. ScanNext /\ fence = "on" /\ ~LineWen
    BY <1>5, ScanMoves
  <2>2. CASE ScanLast
    <3>1. s_way' = 0 /\ s_index' = 0
      BY <1>1, <1>5, <2>2 DEF ScanStep, ScanLast
    <3>2. f_state' = "IDLE" /\ f_for' = "lsu"
      BY <2>1, <2>2 DEF ScanNext, Rest
    <3> QED
      BY <1>2, <1>3, <3>1, <3>2 DEF ScanTransfer
  <2>3. CASE ~ScanLast
    <3>1. f_state' = "FLUSH_READ" /\ f_for' = "scan" /\ fence' = "on"
      BY <1>1, <2>1, <2>3 DEF ScanNext, ScanStep
    <3>2. c_q' = s_index'
      BY <1>1, <1>5, <2>1, ScanReads DEF ArrayStep
    <3> QED
      BY <1>2, <1>3, <3>1, <3>2 DEF ScanTransfer, Writing
  <2> QED
    BY <2>2, <2>3
<1>6. CASE f_for = "scan" /\ ~ScanClears(bus)
  <2>1. /\ fence = "on" /\ f_for' = "scan" /\ f_state' \in Writing /\ ~LineWen
        /\ s_row' = IF f_state = "FLUSH_READ" THEN Q(s_way) ELSE s_row
    BY <1>6, ScanMoves
  <2>2. fence' = "on" /\ s_way' = s_way /\ s_index' = s_index
    BY <1>1, <1>6, <2>1 DEF ScanStep
  <2>3. c' = c
    BY <1>1, <1>6, <2>1 DEF ArrayStep, LineWen
  <2>4. s_row' = c[s_way][s_index]
    <3>1. CASE f_state = "FLUSH_READ"
      <4>1. ScanDirty /\ c_q = s_index /\ s_index \in Index
        BY <1>6, <3>1 DEF ScanClears, CacheInv, ScanTransfer, TypeOK
      <4>2. c[s_way][s_index] # None /\ c_q # None
        BY <4>1, NoneAssumption DEF ScanDirty, IsDirty
      <4> QED
        BY <2>1, <3>1, <4>1, <4>2 DEF Q
    <3>2. CASE f_state # "FLUSH_READ"
      BY <1>6, <2>1, <3>2 DEF CacheInv, ScanTransfer
    <3> QED
      BY <3>1, <3>2
  <2> QED
    BY <1>2, <1>3, <2>1, <2>2, <2>3, <2>4 DEF ScanTransfer, Writing
<1> QED
  BY <1>4, <1>5, <1>6

\* The LSU after an edge: idle, waiting, in its stage (entering or staying), or
\* answered.
LEMMA LsuMoves ==
    ASSUME CacheInv, NEW flush \in FlushIn, NEW bus \in BusIn, Cycle(flush, bus)
    PROVE  /\ l_state' = "idle" <=> l_op' = None
           /\ l_op' # None => l_op' = l_op
           /\ l_state' = "stage" =>
                 \/ /\ LsuTake /\ l_state = "fifo" /\ l_cap' = None
                    /\ l_paddr' = l_paddr /\ l_paddr # "none" /\ l_rand' \in Way
                 \/ l_state = "stage" /\ ~LsuPush
<1>1. LsuStep(flush) /\ Requests
  BY DEF Cycle, CacheInv
<1>2. l_state \in {"idle", "fifo", "stage", "answer"}
  BY DEF CacheInv, TypeOK
<1> QED
  BY <1>1, <1>2 DEF LsuStep, Requests, LsuTake

\* The walker's port and stage after an edge.
LEMMA WalkMoves ==
    ASSUME CacheInv, NEW flush \in FlushIn, NEW bus \in BusIn, Cycle(flush, bus)
    PROVE  /\ w_state' = "idle" <=> w_addr' = None
           /\ w_addr' # None => w_addr' = w_addr
           /\ m_valid' => ~flush /\ (WalkTake \/ (m_valid /\ ~WalkPush /\ ~WalkTake))
           /\ m_addr' \in {None, m_addr, w_addr}
           /\ m_valid' \/ f_for' = "walk" => m_addr' # None
           /\ WalkTake => w_addr # None
<1>1. WalkStep(flush) /\ Requests
  BY DEF Cycle, CacheInv
<1>2. w_state \in {"idle", "send", "wait"} /\ flush \in BOOLEAN
  BY FlushFindsIdle DEF CacheInv, TypeOK
<1>3. WalkTake => w_addr # None /\ (~m_valid \/ WalkPush)
  BY <1>1 DEF WalkTake, Requests
<1>4. w_state' # "idle" => w_state # "idle"
  BY <1>1, <1>2 DEF WalkStep, WalkTake
<1>5. f_for' = "walk" => f_for = "walk" \/ m_valid
  BY ScanBegins, ScanMoves DEF ScanNext, Rest
<1>6. m_valid' => ~flush /\ (WalkTake \/ (m_valid /\ ~WalkPush))
  BY <1>1 DEF WalkStep
<1>7. w_addr' = IF w_state' = "idle" THEN None ELSE w_addr
  BY <1>1 DEF WalkStep
<1>8. m_addr' = IF ~m_valid' /\ f_for' # "walk" THEN None
                ELSE IF WalkTake THEN w_addr ELSE m_addr
  BY <1>1 DEF WalkStep
<1>9. m_valid' \/ f_for' = "walk" => m_addr' # None
  BY <1>1, <1>3, <1>5, <1>6, <1>8 DEF Requests
<1> QED
  BY <1>1, <1>3, <1>4, <1>6, <1>7, <1>8, <1>9 DEF Requests

LEMMA RequestsKept ==
    ASSUME CacheInv, NEW flush \in FlushIn, NEW bus \in BusIn, Cycle(flush, bus)
    PROVE  Requests'
<1>1. l_state' = "stage" => l_paddr' # "none"
  <2>1. l_state = "stage" /\ ~LsuPush => l_paddr' = l_paddr /\ l_paddr # "none"
    BY LsuStageKept DEF Cycle, CacheInv, Requests
  <2> QED
    BY <2>1, LsuMoves
<1> QED
  BY <1>1, LsuMoves, WalkMoves DEF Requests

\* A stage takes a request of another set than the one the other stage holds.
LEMMA SetsKeptApart ==
    ASSUME CacheInv, NEW flush \in FlushIn, NEW bus \in BusIn, Cycle(flush, bus)
    PROVE  SetsApart'
<1>1. SUFFICES ASSUME l_state' = "stage", m_valid'
               PROVE  ~SameIndex(m_addr'[1], l_op'.line)
  BY DEF SetsApart, SameIndex
<1>2. l_op' = l_op
  BY <1>1, LsuMoves
<1>3. CASE WalkTake
  <2>1. m_addr' = w_addr
    BY <1>1, <1>3 DEF Cycle, WalkStep
  <2>2. l_state = "stage"
    BY <1>1, <1>3, LsuMoves DEF LsuTake
  <2> QED
    BY <1>2, <1>3, <2>1, <2>2 DEF WalkTake
<1>4. CASE ~WalkTake
  <2>1. m_valid /\ m_addr' = m_addr
    BY <1>1, <1>4, WalkMoves DEF Cycle, WalkStep
  <2> QED
    BY <1>1, <1>2, <2>1, LsuMoves DEF LsuTake, CacheInv, SetsApart
<1> QED
  BY <1>3, <1>4

\* A single word stays the transfer until it is answered.
LEMMA SingleStays ==
    ASSUME CacheInv, NEW flush \in FlushIn, NEW bus \in BusIn, Cycle(flush, bus),
           LsuSpent, l_state = "stage", ~LsuPush
    PROVE  LsuSpent'
<1>1. x # None /\ x.single /\ f_state # "SEND_DATA" /\ x \in Burst
  BY DEF LsuSpent, LsuPush, LsuSend, CacheInv, BurstShape, TypeOK
<1>2. /\ f_for = "lsu"
      /\ f_state \in Writing \cup Reading
  BY <1>1 DEF CacheInv, BurstShape, TypeOK, Writing, Reading, ScanTransfer
<1>3. ~flush /\ f_flush = FALSE
  BY <1>2, LsuServes DEF Writing, Reading
<1>4. /\ SendWrite(flush, bus) \/ WaitB(flush, bus) \/ WaitAr(flush, bus) \/ WaitR(flush, bus)
  BY <1>2 DEF Cycle, FsmStep, Idle, DropForLock, WaitError, SendData, WriteCache, FlushRead,
     Writing, Reading
<1>5. x' # None /\ x'.single
  <2>1. CASE SendWrite(flush, bus)
    <3>1. x' = x \/ x' = [x EXCEPT !.wdata = SecondBeat, !.last = TRUE]
      BY <2>1 DEF SendWrite
    <3>2. x.last
      BY <1>1 DEF CacheInv, BurstShape
    <3>3. x' = x
      BY <2>1, <3>2 DEF SendWrite
    <3> QED
      BY <1>1, <3>3
  <2>2. CASE WaitB(flush, bus)
    BY <1>1, <1>2, <1>3, <2>2 DEF WaitB, Go
  <2>3. CASE WaitAr(flush, bus)
    BY <1>1, <2>3 DEF WaitAr, Go
  <2>4. CASE WaitR(flush, bus)
    BY <1>1, <1>3, <2>4 DEF WaitR
  <2> QED
    BY <1>4, <2>1, <2>2, <2>3, <2>4
<1> QED
  BY <1>5 DEF LsuSpent

\* A set is written by the request that is answered, by a transfer that is then
\* answered, or while no request is in its stage.
LEMMA LsuSetKept ==
    ASSUME CacheInv, RefillUnfenced, NEW flush \in FlushIn, NEW bus \in BusIn,
           Cycle(flush, bus), l_state = "stage", ~LsuPush, ~LsuSpent'
    PROVE  RowsAt(l_op.line[2])' = RowsAt(l_op.line[2])
<1>1. l_op # None /\ l_op.line[2] \in Index /\ LWay \in Way /\ l_op' = l_op
  BY LineOfRequest, StageWays, LsuMoves, LsuStageKept DEF CacheInv, Requests, Cycle
<1>2. ~ScanClears(bus)
  BY DEF ScanClears, CacheInv, ScanTransfer
<1>3. f_state # "FLUSH"
  <2>1. SUFFICES ASSUME f_state = "FLUSH" PROVE FALSE
    OBVIOUS
  <2>2. StartSingle
    BY <2>1 DEF Cycle, FsmStep, Idle, DropForLock, SendWrite, WaitB, WaitAr, WaitR, WaitError,
       SendData, WriteCache, FlushRead
  <2>3. x' # None /\ x'.single
    BY <1>1, <2>2, SingleStarts, LineOfRequest DEF CacheInv
  <2> QED
    BY <2>3 DEF LsuSpent
<1>4. CASE f_state = "WRITE_CACHE"
  <2>1. WriteCache(flush) /\ ~flush
    BY <1>4, FlushFindsIdle DEF Cycle, FsmStep, Idle, DropForLock, SendWrite, WaitB, WaitAr,
       WaitR, WaitError, SendData, FlushRead
  <2>2. f_for # "lsu"
    <3>1. SUFFICES ASSUME f_for = "lsu" PROVE FALSE
      OBVIOUS
    <3>2. LHits = {}
      BY <1>4, <3>1 DEF LsuPush, LsuStoreHit, IsRead, CacheInv, LsuTransfer
    <3>3. f_state' = "SEND_DATA" /\ f_for' = "lsu"
      BY <2>1, <3>1, <3>2 DEF WriteCache, Go
    <3> QED
      BY <3>3 DEF LsuSpent, LsuSend
  <2>3. f_for = "walk" /\ m_valid
    BY <1>4, <2>2 DEF CacheInv, TypeOK, ScanTransfer, WalkTransfer, Writing
  <2>4. Write(FillWay, m_addr[1][2], NewRow) /\ FillWay \in Way
    BY <1>2, <1>4, <2>3, ArrayChange, NewRowSound DEF Asked, Cycle
  <2>5. m_addr[1][2] # l_op.line[2]
    BY <2>3 DEF CacheInv, SetsApart, SameIndex
  <2> QED
    BY <1>1, <2>4, <2>5 DEF RowsAt, Write, CacheInv, TypeOK
<1>5. CASE f_state # "WRITE_CACHE"
  BY <1>1, <1>2, <1>3, <1>5, ArrayChange DEF RowsAt, Cycle
<1> QED
  BY <1>4, <1>5

LEMMA WalkSetKept ==
    ASSUME CacheInv, RefillUnfenced, NEW flush \in FlushIn, NEW bus \in BusIn,
           Cycle(flush, bus), m_valid, ~WalkPush, ~flush, ~WalkSend'
    PROVE  RowsAt(m_addr[1][2])' = RowsAt(m_addr[1][2])
<1>1. m_addr # None /\ m_addr[1][2] \in Index /\ m_addr' = m_addr
  BY LineOfRequest, WalkStageKept DEF CacheInv, Requests, Cycle
<1>2. ~ScanClears(bus)
  BY DEF ScanClears, CacheInv, ScanTransfer
<1>3. f_state \in {"FLUSH", "WRITE_CACHE"} /\ f_for = "lsu" =>
         /\ l_state = "stage" /\ l_op.line[2] \in Index /\ LWay \in Way
         /\ m_addr[1][2] # l_op.line[2]
  BY LineOfRequest, StageWays DEF CacheInv, LsuTransfer, SetsApart, SameIndex, Requests
<1>4. CASE f_state = "FLUSH"
  <2>1. f_for = "lsu" /\ Write(LWay, l_op.line[2], None)
    BY <1>2, <1>4, ArrayChange DEF Cycle, CacheInv, BurstShape
  <2> QED
    BY <1>1, <1>3, <1>4, <2>1 DEF RowsAt, Write, CacheInv, TypeOK
<1>5. CASE f_state = "WRITE_CACHE"
  <2>1. WriteCache(flush)
    BY <1>5 DEF Cycle, FsmStep, Idle, DropForLock, SendWrite, WaitB, WaitAr,
       WaitR, WaitError, SendData, FlushRead
  <2>2. f_for = "lsu"
    <3>1. f_for = "walk" => f_state' = "SEND_DATA" /\ f_for' = "walk"
      BY <2>1 DEF WriteCache, Go
    <3> QED
      BY <1>5, <3>1 DEF WalkSend, CacheInv, TypeOK, ScanTransfer, Writing
  <2>3. Write(FillWay, l_op.line[2], NewRow) /\ FillWay \in Way
    BY <1>2, <1>5, <2>2, ArrayChange, NewRowSound DEF Asked, Cycle
  <2> QED
    BY <1>1, <1>3, <1>5, <2>2, <2>3 DEF RowsAt, Write, CacheInv, TypeOK
<1>6. CASE f_state \notin {"FLUSH", "WRITE_CACHE"}
  BY <1>1, <1>2, <1>6, ArrayChange DEF RowsAt, Cycle
<1> QED
  BY <1>4, <1>5, <1>6

LEMMA RowsStayLatched ==
    ASSUME CacheInv, RefillUnfenced, NEW flush \in FlushIn, NEW bus \in BusIn, Cycle(flush, bus)
    PROVE  RowsLatched'
<1>1. ASSUME l_state' = "stage", ~LsuSpent'
      PROVE  IF l_cap' = None THEN c_q' = l_op'.line[2]
             ELSE l_cap' = RowsAt(l_op.line[2])'
  <2>1. CASE LsuTake /\ l_state = "fifo" /\ l_cap' = None
    <3>1. fence = "no"
      BY <2>1 DEF CacheInv, ScanTransfer
    <3>2. l_op' = l_op
      BY <1>1, LsuMoves
    <3> QED
      BY <2>1, <3>1, <3>2 DEF Cycle, ArrayStep, LsuTake
  <2>2. CASE l_state = "stage" /\ ~LsuPush
    <3>1. ~LsuSpent
      BY <1>1, <2>2, SingleStays
    <3>2. l_op' = l_op /\ l_cap' = LWays /\ l_cap' # None
      BY <2>2, LsuStageKept DEF Cycle
    <3>3. LWays = RowsAt(l_op.line[2])
      BY <2>2, <3>1, LsuRows
    <3>4. RowsAt(l_op.line[2])' = RowsAt(l_op.line[2])
      BY <1>1, <2>2, LsuSetKept
    <3> QED
      BY <3>2, <3>3, <3>4
  <2> QED
    BY <1>1, <2>1, <2>2, LsuMoves
<1>2. ASSUME m_valid', ~WalkSend'
      PROVE  IF m_cap' = None THEN c_q' = m_addr'[1][2]
             ELSE m_cap' = RowsAt(m_addr[1][2])'
  <2>1. CASE WalkTake
    <3>1. ~flush /\ m_addr' = w_addr /\ m_cap' = None
      BY <1>2, <2>1, WalkMoves DEF Cycle, WalkStep, WalkTake
    <3>2. fence = "no"
      BY <2>1, <3>1, FlushFindsIdle DEF CacheInv, ScanTransfer, TypeOK, WalkTake
    <3> QED
      BY <2>1, <3>1, <3>2 DEF Cycle, ArrayStep, WalkTake
  <2>2. CASE m_valid /\ ~WalkPush /\ ~WalkTake
    <3>1. ~flush
      BY <1>2, WalkMoves
    <3>2. m_addr' = m_addr /\ m_cap' = MWays /\ m_cap' # None
      BY <2>2, <3>1, WalkStageKept DEF Cycle
    <3>3. MWays = RowsAt(m_addr[1][2])
      BY <2>2, WalkRows DEF WalkPush
    <3>4. RowsAt(m_addr[1][2])' = RowsAt(m_addr[1][2])
      BY <1>2, <2>2, <3>1, WalkSetKept
    <3> QED
      BY <3>2, <3>3, <3>4
  <2> QED
    BY <1>2, <2>1, <2>2, WalkMoves
<1> QED
  BY <1>1, <1>2 DEF RowsLatched

-----------------------------------------------------------------------------
\* Types after an edge.

\* What enters the out fifo.
LEMMA PushedType ==
    ASSUME CacheInv, WalkPush \/ LsuPush
    PROVE  Pushed \in OutRecord
<1>1. \A who \in {"lsu", "walk"}, ok \in {"ok", "error", "fault"}, word \in Word,
         of \in WalkAddr \cup {None} : Answer(who, ok, word, of) \in OutRecord
  BY DEF Answer, OutRecord
<1>2. None \in Word
  BY DEF Word
<1>3. \A rows \in Rows, h \in Half, w \in Way : rows[w] # None => rows[w].data[h] \in Word
  BY DEF Rows, Row, Half
<1>4. WalkSend \/ LsuSend => \A h \in Half : Beat(h) \in Word
  <2>1. SUFFICES ASSUME f_state = "SEND_DATA", NEW h \in Half PROVE Beat(h) \in Word
    BY DEF WalkSend, LsuSend
  <2>2. b \in Seq(Word) /\ Len(b) <= 2 /\ (f_ok => Len(b) >= 1)
    BY <2>1 DEF CacheInv, TypeOK, BurstShape
  <2>3. CASE ~f_ok
    BY <1>2, <2>3 DEF Beat
  <2>4. CASE f_ok
    <3>1. Len(b) \in Nat /\ Len(b) >= 1
      BY <2>2, <2>4
    <3>2. b[1] \in Word /\ (Len(b) = 2 => b[h] \in Word)
      BY <2>2, <3>1 DEF Half
    <3> QED
      BY <2>4, <3>2 DEF Beat
  <2> QED
    BY <2>3, <2>4
<1>5. CASE WalkHit
  <2>1. m_addr \in WalkAddr /\ m_addr[2] \in Half /\ MWays \in Rows
    BY <1>5, LineOfRequest, StageRows DEF CacheInv, Requests, WalkHit
  <2>2. Highest(MHits) \in MHits
    BY <1>5, StageWays DEF WalkHit, CacheInv
  <2>3. MWays[Highest(MHits)].data[m_addr[2]] \in Word
    BY <1>3, <2>1, <2>2 DEF MHits, HitWays
  <2> QED
    BY <1>1, <1>5, <2>1, <2>3 DEF Pushed
<1>6. CASE ~WalkHit /\ WalkSend
  <2>1. m_addr \in WalkAddr /\ m_addr[2] \in Half
    BY <1>6, LineOfRequest DEF CacheInv, Requests, WalkSend
  <2>2. Beat(m_addr[2]) \in Word
    BY <1>4, <1>6, <2>1
  <2> QED
    BY <1>1, <1>6, <2>1, <2>2 DEF Pushed, Resp
<1>7. CASE ~WalkPush /\ LsuFault
  BY <1>1, <1>2, <1>7 DEF Pushed, WalkPush
<1>8. CASE ~WalkPush /\ ~LsuFault /\ LsuLoadHit
  <2>1. l_op # None /\ l_op.half \in Half /\ LWays \in Rows
    BY <1>8, LineOfRequest, StageRows DEF CacheInv, Requests, LsuLoadHit, InStage
  <2>2. LWay \in LHits
    BY <1>8, StageWays DEF LsuLoadHit, CacheInv
  <2>3. LWays[LWay].data[l_op.half] \in Word
    BY <1>3, <2>1, <2>2 DEF LHits, HitWays
  <2> QED
    BY <1>1, <1>8, <2>3 DEF Pushed, WalkPush
<1>9. CASE ~WalkPush /\ ~LsuFault /\ ~LsuLoadHit /\ LsuStoreHit
  BY <1>1, <1>2, <1>9 DEF Pushed, WalkPush
<1>10. CASE ~WalkPush /\ ~LsuFault /\ ~LsuLoadHit /\ ~LsuStoreHit
  <2>1. LsuSend
    BY <1>10 DEF LsuPush
  <2>2. l_op # None /\ l_op.half \in Half
    BY <2>1, LineOfRequest DEF CacheInv, Requests, LsuTransfer, LsuSend
  <2>3. (IF IsRead(l_op) THEN Beat(l_op.half) ELSE None) \in Word
    BY <1>2, <1>4, <2>1, <2>2
  <2> QED
    BY <1>1, <1>10, <2>3 DEF Pushed, WalkPush, Resp
<1> QED
  BY <1>5, <1>6, <1>7, <1>8, <1>9, <1>10 DEF WalkPush

\* The states dcache_fsm moves to.
LEMMA FsmTypes ==
    ASSUME CacheInv, NEW flush \in FlushIn, NEW bus \in BusIn, FsmStep(flush, bus)
    PROVE  /\ f_state' \in {"IDLE", "FLUSH", "WAIT_AW_W", "WAIT_AW", "WAIT_W", "WAIT_B",
                            "WAIT_AR", "WAIT_R", "WAIT_ERROR", "SEND_DATA", "WRITE_CACHE",
                            "FLUSH_READ"}
           /\ f_for' \in {"lsu", "walk", "scan"}
           /\ f_flush' \in BOOLEAN /\ f_ok' \in BOOLEAN
           /\ s_row' \in Row \cup {None}
<1>1. /\ f_state \in {"IDLE", "FLUSH", "WAIT_AW_W", "WAIT_AW", "WAIT_W", "WAIT_B",
                      "WAIT_AR", "WAIT_R", "WAIT_ERROR", "SEND_DATA", "WRITE_CACHE",
                      "FLUSH_READ"}
      /\ f_for \in {"lsu", "walk", "scan"}
      /\ f_flush \in BOOLEAN /\ f_ok \in BOOLEAN /\ flush \in BOOLEAN
      /\ s_row \in Row \cup {None}
  BY FlushFindsIdle DEF CacheInv, TypeOK
<1>2. Q(s_way) \in Row
  <2>1. Noise \in Row
    BY DEF Noise, Row, Word
  <2>2. \A w \in Way, j \in Index : c[w][j] = None \/ c[w][j] \in Row
    BY DEF CacheInv, TypeOK
  <2> QED
    BY <2>1, <2>2 DEF Q, CacheInv, TypeOK
<1> DEFINE Goal == /\ f_state' \in {"IDLE", "FLUSH", "WAIT_AW_W", "WAIT_AW", "WAIT_W", "WAIT_B",
                            "WAIT_AR", "WAIT_R", "WAIT_ERROR", "SEND_DATA", "WRITE_CACHE",
                            "FLUSH_READ"}
                   /\ f_for' \in {"lsu", "walk", "scan"}
                   /\ f_flush' \in BOOLEAN /\ f_ok' \in BOOLEAN
                   /\ s_row' \in Row \cup {None}
<1>3. Idle(flush) => Goal
  <2>1. IdleWalk \/ IdleLsu \/ Rest => f_state' \in {"IDLE", "FLUSH", "WAIT_AW_W", "WAIT_AR",
           "WRITE_CACHE"} /\ f_for' \in {"lsu", "walk", f_for}
    BY DEF IdleWalk, IdleLsu, Rest, Go, StartWriteBack, StartRefill, StartLine, StartSingle
  <2> QED
    BY <1>1, <2>1 DEF Idle
<1>4. DropForLock => Goal
  BY <1>1 DEF DropForLock, StartSingle
<1>5. SendWrite(flush, bus) => Goal
  BY <1>1 DEF SendWrite
<1>6. WaitB(flush, bus) => Goal
  <2>1. ASSUME WaitB(flush, bus) PROVE /\ f_flush' \in BOOLEAN /\ f_ok' \in BOOLEAN
                                       /\ s_row' \in Row \cup {None}
    BY <1>1, <2>1 DEF WaitB
  <2>2. ASSUME WaitB(flush, bus) PROVE /\ f_for' \in {"lsu", "walk", "scan"}
                                       /\ f_state' \in {"IDLE", "FLUSH", "FLUSH_READ", "SEND_DATA",
                                                        "WAIT_B", "WAIT_AR", "WAIT_AW_W"}
    <3>1. \A ok : AfterScanWrite(ok) => /\ f_for' \in {"lsu", "scan"}
                                        /\ f_state' \in {"IDLE", "FLUSH_READ", "WAIT_AW_W"}
      BY DEF AfterScanWrite, ScanNext, Rest, StartWriteBack, StartLine
    <3> QED
      BY <1>1, <2>2, <3>1 DEF WaitB, Go, Rest, StartRefill, StartLine
  <2> QED
    BY <2>1, <2>2
<1>7. WaitAr(flush, bus) => Goal
  BY <1>1 DEF WaitAr, Go
<1>8. WaitR(flush, bus) => Goal
  <2>1. ASSUME WaitR(flush, bus) PROVE f_flush' \in BOOLEAN /\ s_row' \in Row \cup {None}
    BY <1>1, <2>1 DEF WaitR
  <2>2. ASSUME WaitR(flush, bus) PROVE f_ok' \in BOOLEAN
    <3>1. f_ok' = f_ok \/ f_ok' = ("ok" \in bus)
      BY <2>2, Zenon DEF WaitR
    <3>2. ("ok" \in bus) \in BOOLEAN
      OBVIOUS
    <3> QED
      BY <1>1, <3>1, <3>2, Zenon
  <2>3. ASSUME WaitR(flush, bus)
        PROVE  /\ f_for' \in {"lsu", "walk", "scan"}
               /\ f_state' \in {"IDLE", "SEND_DATA", "WAIT_R", "WAIT_ERROR", "WRITE_CACHE"}
    BY <1>1, <2>3 DEF WaitR, Rest
  <2> QED
    BY <2>1, <2>2, <2>3
<1>9. WaitError(flush, bus) => Goal
  BY <1>1 DEF WaitError, Go
<1>10. SendData \/ WriteCache(flush) => Goal
  BY <1>1 DEF SendData, WriteCache, Rest, Go
<1>11. FlushRead => Goal
  BY <1>1, <1>2 DEF FlushRead, ScanNext, Rest, StartWriteBack, StartLine
<1> QED
  BY <1>3, <1>4, <1>5, <1>6, <1>7, <1>8, <1>9, <1>10, <1>11 DEF FsmStep

LEMMA LsuTypes ==
    ASSUME CacheInv, NEW flush \in FlushIn, NEW bus \in BusIn, Cycle(flush, bus)
    PROVE  /\ l_state' \in {"idle", "fifo", "stage", "answer"}
           /\ l_op' \in Op \cup {None}
           /\ l_paddr' \in {"none", "ok", "fault"}
           /\ l_rand' \in Way
           /\ l_cap' \in Rows \cup {None}
<1>1. LsuStep(flush) /\ 0 \in Way
  BY DcacheAssumption DEF Cycle
<1>2. l_state = "stage" => LWays \in Rows
  BY StageRows DEF CacheInv, Requests
<1> QED
  BY <1>1, <1>2 DEF LsuStep, CacheInv, TypeOK

LEMMA WalkTypes ==
    ASSUME CacheInv, NEW flush \in FlushIn, NEW bus \in BusIn, Cycle(flush, bus)
    PROVE  /\ w_state' \in {"idle", "send", "wait"}
           /\ w_addr' \in WalkAddr \cup {None} /\ m_addr' \in WalkAddr \cup {None}
           /\ m_valid' \in BOOLEAN
           /\ m_rand' \in Way
           /\ m_cap' \in Rows \cup {None}
<1>1. WalkStep(flush) /\ 0 \in Way
  BY DcacheAssumption DEF Cycle
<1>2. m_valid => MWays \in Rows
  BY StageRows DEF CacheInv, Requests
<1>3. w_addr' \in {w_addr, None} /\ m_addr' \in {None, m_addr, w_addr}
  BY WalkMoves
<1>4. m_rand' \in Way /\ m_cap' \in Rows \cup {None}
  BY <1>1, <1>2 DEF WalkStep, CacheInv, TypeOK
<1>5. w_state' \in {"idle", "send", "wait"} /\ m_valid' \in BOOLEAN
  BY <1>1 DEF WalkStep, CacheInv, TypeOK
<1> QED
  BY <1>3, <1>4, <1>5 DEF CacheInv, TypeOK

LEMMA ScanTypes ==
    ASSUME CacheInv, NEW flush \in FlushIn, NEW bus \in BusIn, Cycle(flush, bus)
    PROVE  /\ s_way' \in Way /\ s_index' \in Index /\ fence' \in {"no", "first", "on"}
           /\ c_q' \in Index \cup {None}
<1>1. LastIndex \in Nat /\ Index = 0 .. LastIndex /\ LastWay \in Nat /\ Way = 0 .. LastWay
  BY DcacheAssumption
<1>2. s_way \in Way /\ s_index \in Index
  BY DEF CacheInv, TypeOK
<1>3. s_index' \in Index
  BY <1>1, <1>2 DEF Cycle, ScanStep
<1>4. s_way' \in Way
  BY <1>1, <1>2 DEF Cycle, ScanStep
<1>5. ScanReadIndex \in Index
  <2>1. Cardinality(Index) = LastIndex + 1
    BY <1>1, FS_Interval
  <2>2. \A i \in Nat, n \in Nat : (i + 1) % (n + 1) \in 0 .. n
    OBVIOUS
  <2> QED
    BY <1>1, <1>2, <2>1, <2>2 DEF ScanReadIndex
<1>6. WalkTake => w_addr[1][2] \in Index
  BY WalkMoves, LineOfRequest DEF CacheInv
<1>7. l_state = "fifo" => l_op.line[2] \in Index
  BY LineOfRequest DEF CacheInv, Requests
<1>8. c_q' \in Index \cup {None}
  BY <1>5, <1>6, <1>7 DEF Cycle, ArrayStep
<1>9. fence' \in {"no", "first", "on"}
  BY DEF Cycle, ScanStep
<1> QED
  BY <1>3, <1>4, <1>8, <1>9

LEMMA TypesKept ==
    ASSUME CacheInv, RefillUnfenced, NEW flush \in FlushIn, NEW bus \in BusIn, Cycle(flush, bus)
    PROVE  TypeOK'
<1>1. FsmStep(flush, bus)
  BY DEF Cycle
<1>2. out' \in OutRecord \cup {None}
  BY PushedType DEF Cycle, OutStep
<1>3. c' \in [Way -> [Index -> Row \cup {None}]]
  <2>1. c' \in [Way -> [Index -> CacheRow \cup {None}]]
    BY FsmKeeps DEF ArraySound
  <2>2. CacheRow \subseteq Row
    BY DEF CacheRow, Row
  <2> QED
    BY <2>1, <2>2
<1>4. x' \in Burst \cup {None} /\ b' \in Seq(Word) /\ Len(b') <= 2
  BY FsmKeeps DEF BusTypes
<1>5. mem' \in [Line -> Word \X Word]
  BY <1>1, MemoryType
<1> QED
  BY <1>1, <1>2, <1>3, <1>4, <1>5, FsmTypes, LsuTypes, WalkTypes, ScanTypes DEF TypeOK

LEMMA TickKeeps ==
    ASSUME CacheInv, RefillUnfenced, Tick
    PROVE  CacheInv'
<1>1. PICK flush \in FlushIn, bus \in BusIn : Cycle(flush, bus)
  BY DEF Tick
<1>2. TypeOK' /\ Requests' /\ SetsApart' /\ RowsLatched' /\ ScanTransfer'
  BY <1>1, TypesKept, RequestsKept, SetsKeptApart, RowsStayLatched, ScanKeeps
<1>3. FsmInv' /\ ArraySound'
  BY <1>1, FsmKeeps
<1> QED
  BY <1>2, <1>3 DEF CacheInv, FsmInv

-----------------------------------------------------------------------------
\* The requests between two edges.

\* A client's request changes nothing the invariant says of the transfer.
LEMMA OutsideKeeps ==
    ASSUME CacheInv, UNCHANGED <<arrayVars, fsmVars>>, UNCHANGED <<l_paddr, l_rand, l_cap>>,
           UNCHANGED <<m_valid, m_addr, m_rand, m_cap>>, UNCHANGED <<s_way, s_index, s_row, out>>,
           \/ l_op' = l_op /\ l_state' = l_state
           \/ l_state = "idle" /\ l_state' = "fifo" /\ l_op' \in Op
    PROVE  /\ SetsApart' /\ RowsLatched' /\ ArraySound' /\ FsmInv'
<1>1. /\ c' = c /\ c_q' = c_q /\ mem' = mem
      /\ f_state' = f_state /\ f_for' = f_for /\ f_flush' = f_flush /\ f_ok' = f_ok
      /\ x' = x /\ b' = b
      /\ l_paddr' = l_paddr /\ l_rand' = l_rand /\ l_cap' = l_cap
      /\ m_valid' = m_valid /\ m_addr' = m_addr /\ m_rand' = m_rand /\ m_cap' = m_cap
      /\ s_way' = s_way /\ s_index' = s_index
  BY DEF arrayVars, fsmVars
<1>2. ArraySound'
  BY <1>1 DEF ArraySound, CacheInv
<1>3. MWays' = MWays /\ MHits' = MHits /\ MWay' = MWay
  <2>1. MWays' = MWays
    BY <1>1 DEF MWays, Shown, Q
  <2>2. MHits' = MHits
    BY <1>1, <2>1 DEF MHits
  <2> QED
    BY <1>1, <2>1, <2>2 DEF MWay
<1>4. \A i : RowsAt(i)' = RowsAt(i)
  BY <1>1 DEF RowsAt
<1>5. CASE l_op' = l_op /\ l_state' = l_state
  <2>1. LWays' = LWays /\ LHits' = LHits /\ LWay' = LWay
    <3>1. LWays' = LWays
      BY <1>1, <1>5 DEF LWays, Shown, Q
    <3>2. LHits' = LHits
      BY <1>5, <3>1 DEF LHits
    <3> QED
      BY <1>1, <3>1, <3>2 DEF LWay
  <2>2. SetsApart' /\ RowsLatched'
    BY <1>1, <1>4, <1>5 DEF SetsApart, RowsLatched, LsuSpent, LsuSend, WalkSend, CacheInv
  <2>3. Hits' = Hits /\ Asked' = Asked /\ VictimRow' = VictimRow
    BY <1>1, <1>3, <1>5, <2>1 DEF Hits, Asked, VictimRow, VictimWay, VictimIndex
  <2>4. BurstShape' /\ LsuTransfer' /\ WalkTransfer'
    BY <1>1, <1>3, <1>5, <2>1 DEF BurstShape, LsuTransfer, WalkTransfer, CacheInv
  <2>5. WriteBack' /\ Refill'
    BY <1>1, <2>3 DEF WriteBack, Refill, Refilling, Beats, VictimSaved, CacheInv
  <2>6. SingleBeat'
    BY <1>1, <1>5 DEF SingleBeat, Uncached, CacheInv
  <2> QED
    BY <1>2, <2>2, <2>4, <2>5, <2>6 DEF FsmInv
<1>6. CASE l_state = "idle" /\ l_state' = "fifo" /\ l_op' \in Op
  <2>1. f_for = "lsu" => f_state = "IDLE"
    BY <1>6 DEF CacheInv, LsuTransfer
  <2>2. SetsApart' /\ RowsLatched'
    BY <1>1, <1>4, <1>6 DEF SetsApart, RowsLatched, WalkSend, CacheInv
  <2>3. f_for = "walk" => Hits' = Hits /\ Asked' = Asked /\ VictimRow' = VictimRow
    BY <1>1, <1>3 DEF Hits, Asked, VictimRow, VictimWay, VictimIndex, CacheInv, TypeOK
  <2>4. f_for = "scan" => VictimRow' = VictimRow /\ f_state \in Writing \cup {"FLUSH_READ"}
    BY <1>1 DEF VictimRow, VictimWay, VictimIndex, CacheInv, ScanTransfer
  <2>5. BurstShape' /\ LsuTransfer' /\ WalkTransfer'
    BY <1>1, <1>3, <1>6, <2>1
    DEF BurstShape, LsuTransfer, WalkTransfer, CacheInv, Writing, Reading
  <2>6. WriteBack'
    BY <1>1, <2>1, <2>3, <2>4 DEF WriteBack, Beats, CacheInv, TypeOK, Writing
  <2>7. Refill'
    BY <1>1, <2>1, <2>3, <2>4
    DEF Refill, Refilling, Beats, VictimSaved, CacheInv, TypeOK, Writing, Reading, BurstShape
  <2>8. SingleBeat'
    BY <1>1, <2>1 DEF SingleBeat, CacheInv, BurstShape, Writing, Reading
  <2> QED
    BY <1>2, <2>2, <2>5, <2>6, <2>7, <2>8 DEF FsmInv
<1> QED
  BY <1>5, <1>6

LEMMA LsuRequestKeeps ==
    ASSUME CacheInv, LsuRequest
    PROVE  CacheInv'
<1>1. /\ l_state = "idle" /\ l_state' = "fifo" /\ l_op' \in Op /\ fence = "no"
      /\ UNCHANGED <<l_paddr, l_rand, l_cap>> /\ UNCHANGED <<w_state, w_addr>>
      /\ UNCHANGED <<m_valid, m_addr, m_rand, m_cap>> /\ UNCHANGED <<c, c_q>>
      /\ UNCHANGED <<f_state, f_for, f_flush, f_ok, x, b, mem>>
      /\ UNCHANGED <<s_way, s_index, s_row, fence, out>>
  BY DEF LsuRequest, walkVars, arrayVars, fsmVars, scanVars
<1>2. SetsApart' /\ RowsLatched' /\ ArraySound' /\ FsmInv'
  BY <1>1, OutsideKeeps DEF arrayVars, fsmVars
<1>3. TypeOK'
  BY <1>1 DEF CacheInv, TypeOK
<1>4. Requests'
  BY <1>1, NoneAssumption DEF CacheInv, Requests
<1>5. ScanTransfer'
  BY <1>1 DEF CacheInv, ScanTransfer
<1> QED
  BY <1>2, <1>3, <1>4, <1>5 DEF CacheInv, FsmInv

LEMMA WalkRequestKeeps ==
    ASSUME CacheInv, WalkRequest
    PROVE  CacheInv'
<1>1. /\ w_state = "idle" /\ w_state' = "send" /\ w_addr' \in WalkAddr /\ fence = "no"
      /\ UNCHANGED <<l_state, l_op, l_paddr, l_rand, l_cap>>
      /\ UNCHANGED <<m_valid, m_addr, m_rand, m_cap>> /\ UNCHANGED <<c, c_q>>
      /\ UNCHANGED <<f_state, f_for, f_flush, f_ok, x, b, mem>>
      /\ UNCHANGED <<s_way, s_index, s_row, fence, out>>
  BY DEF WalkRequest, lsuVars, arrayVars, fsmVars, scanVars
<1>2. SetsApart' /\ RowsLatched' /\ ArraySound' /\ FsmInv'
  BY <1>1, OutsideKeeps DEF arrayVars, fsmVars
<1>3. TypeOK'
  BY <1>1 DEF CacheInv, TypeOK
<1>4. Requests'
  BY <1>1, NoneAssumption DEF CacheInv, Requests
<1>5. ScanTransfer'
  BY <1>1 DEF CacheInv, ScanTransfer
<1> QED
  BY <1>2, <1>3, <1>4, <1>5 DEF CacheInv, FsmInv

\* fence.i finds the LSU idle; the walker it finds is flushed at the next edge.
LEMMA FenceRequestKeeps ==
    ASSUME CacheInv, FenceRequest
    PROVE  CacheInv'
<1>1. /\ l_state = "idle" /\ fence = "no" /\ fence' = "first"
      /\ UNCHANGED <<l_state, l_op, l_paddr, l_rand, l_cap>> /\ UNCHANGED <<w_state, w_addr>>
      /\ UNCHANGED <<m_valid, m_addr, m_rand, m_cap>> /\ UNCHANGED <<c, c_q>>
      /\ UNCHANGED <<f_state, f_for, f_flush, f_ok, x, b, mem>>
      /\ UNCHANGED <<s_way, s_index, s_row, out>>
  BY DEF FenceRequest, lsuVars, walkVars, arrayVars, fsmVars, scanVars
<1>2. SetsApart' /\ RowsLatched' /\ ArraySound' /\ FsmInv'
  BY <1>1, OutsideKeeps DEF arrayVars, fsmVars
<1>3. TypeOK'
  BY <1>1 DEF CacheInv, TypeOK
<1>4. Requests'
  BY <1>1 DEF CacheInv, Requests
<1>5. ScanTransfer'
  BY <1>1 DEF CacheInv, ScanTransfer
<1> QED
  BY <1>2, <1>3, <1>4, <1>5 DEF CacheInv, FsmInv

LEMMA StutterKeeps ==
    ASSUME CacheInv, UNCHANGED vars
    PROVE  CacheInv'
<1>1. /\ UNCHANGED <<l_state, l_op, l_paddr, l_rand, l_cap>> /\ UNCHANGED <<w_state, w_addr>>
      /\ UNCHANGED <<m_valid, m_addr, m_rand, m_cap>> /\ UNCHANGED <<c, c_q>>
      /\ UNCHANGED <<f_state, f_for, f_flush, f_ok, x, b, mem>>
      /\ UNCHANGED <<s_way, s_index, s_row, fence, out>>
  BY DEF vars, lsuVars, walkVars, arrayVars, fsmVars, scanVars
<1>2. SetsApart' /\ RowsLatched' /\ ArraySound' /\ FsmInv'
  BY <1>1, OutsideKeeps DEF arrayVars, fsmVars
<1>3. TypeOK' /\ Requests' /\ ScanTransfer'
  BY <1>1 DEF CacheInv, TypeOK, Requests, ScanTransfer
<1> QED
  BY <1>2, <1>3 DEF CacheInv, FsmInv

\* The invariant is inductive but for the one race of fence.i.
LEMMA CacheStep ==
    ASSUME CacheInv, RefillUnfenced, [Next]_vars
    PROVE  CacheInv'
BY TickKeeps, LsuRequestKeeps, WalkRequestKeeps, FenceRequestKeeps, StutterKeeps DEF Next

LEMMA CacheStarts ==
    ASSUME Init
    PROVE  CacheInv
<1>1. 0 \in Way /\ 0 \in Index
  BY DcacheAssumption
<1>2. Memory0 \in [Line -> Word \X Word]
  BY DEF Memory0, WordAt, Word, Half
<1>3. c = [w \in Way |-> [i \in Index |-> None]]
  BY DEF Init
<1>4. TypeOK
  <2>1. c \in [Way -> [Index -> Row \cup {None}]]
    BY <1>3
  <2>2. b \in Seq(Word) /\ Len(b) <= 2
    BY DEF Init
  <2> QED
    BY <1>1, <1>2, <2>1, <2>2 DEF Init, TypeOK
<1>5. ArraySound
  BY <1>3 DEF ArraySound
<1>6. Requests /\ SetsApart /\ RowsLatched /\ ScanTransfer
  BY DEF Init, Requests, SetsApart, RowsLatched, ScanTransfer
<1>7. BurstShape /\ WriteBack /\ Refill /\ SingleBeat /\ LsuTransfer /\ WalkTransfer
  BY DEF Init, BurstShape, WriteBack, Refill, Refilling, SingleBeat, LsuTransfer, WalkTransfer,
     Writing, Reading, Transfer
<1> QED
  BY <1>4, <1>5, <1>6, <1>7 DEF CacheInv

LEMMA CacheInvariant == Spec /\ []RefillUnfenced => []CacheInv
<1>1. Init => CacheInv
  BY CacheStarts
<1>2. CacheInv /\ RefillUnfenced /\ [Next]_vars => CacheInv'
  BY CacheStep
<1> QED
  BY <1>1, <1>2, PTL DEF Spec

-----------------------------------------------------------------------------
\* The way that holds a line, if any.
LEMMA FoundWays ==
    ASSUME ArraySound, NEW l \in Line
    PROVE  /\ FoundIn(l) = {w \in Way : c[w][l[2]] # None /\ c[w][l[2]].line = l}
           /\ \A v \in FoundIn(l), w \in FoundIn(l) : v = w
           /\ FoundIn(l) # {} => Highest(FoundIn(l)) \in FoundIn(l)
<1>1. l[2] \in Index
  BY DEF Line
<1>2. \A w \in Way : c[w][l[2]] # None => c[w][l[2]].line \in Line /\ c[w][l[2]].line[2] = l[2]
  BY <1>1 DEF ArraySound, CacheRow
<1>3. \A k \in Line : k[2] = l[2] => (k[1] = l[1] <=> k = l)
  BY DEF Line
<1>4. FoundIn(l) = {w \in Way : c[w][l[2]] # None /\ c[w][l[2]].line = l}
  BY <1>2, <1>3 DEF FoundIn
<1>5. \A v \in FoundIn(l), w \in FoundIn(l) : v = w
  BY <1>1, <1>4 DEF ArraySound
<1>6. FoundIn(l) \in SUBSET Way
  BY DEF FoundIn
<1> QED
  BY <1>4, <1>5, <1>6, PickWay

LEMMA SoundIsOnce ==
    ASSUME CacheInv
    PROVE  CachedOnce
<1>1. ASSUME NEW l \in Line
      PROVE  Cardinality(FoundIn(l)) <= 1
  <2>1. CASE FoundIn(l) = {}
    BY <2>1, FS_EmptySet
  <2>2. CASE FoundIn(l) # {}
    <3>1. PICK w \in FoundIn(l) : TRUE
      BY <2>2
    <3>2. FoundIn(l) = {w}
      BY <3>1, FoundWays DEF CacheInv
    <3>3. Cardinality({w}) = 1
      BY FS_Singleton
    <3> QED
      BY <3>2, <3>3
  <2> QED
    BY <2>1, <2>2
<1> QED
  BY <1>1 DEF CachedOnce, CacheInv, ArraySound

\* Where a program without fence.i runs, or where the walker reads only set 0, the
\* race does not happen.
RaceFree == Fences => \A a \in WalkAddr : a[1][2] = 0

LEMMA RaceFreeUnfenced ==
    ASSUME RaceFree
    PROVE  Spec => [](CacheInv /\ RefillUnfenced)
<1> DEFINE I == CacheInv /\ (~Fences => fence = "no")
<1>1. Init => I
  BY CacheStarts DEF Init
<1>2. I => RefillUnfenced
  BY DEF RaceFree, RefillUnfenced, CacheInv, TypeOK, Requests
<1>3. I /\ [Next]_vars => I'
  <2>1. SUFFICES ASSUME I, [Next]_vars PROVE I'
    OBVIOUS
  <2>2. CacheInv'
    BY <1>2, <2>1, CacheStep
  <2>3. ~Fences => fence' = "no"
    BY <2>1 DEF Next, Tick, Cycle, ScanStep, LsuRequest, WalkRequest, FenceRequest, vars,
       scanVars
  <2> QED
    BY <2>2, <2>3
<1> QED
  BY <1>1, <1>2, <1>3, PTL DEF Spec

\* Every register of the cache, of its two clients' stages and of memory keeps
\* its type, whatever the program, the flushes and the errors of the bus.
THEOREM CacheTypes == Spec /\ []RefillUnfenced => []TypeOK
<1>1. CacheInv => TypeOK
  BY DEF CacheInv
<1> QED
  BY <1>1, CacheInvariant, PTL

\* A line is in one way at most, in its set, and a clean copy is what memory
\* holds: no refill doubles a line, no victim goes without its write-back.
THEOREM LineCachedOnce == Spec /\ []RefillUnfenced => []CachedOnce
BY CacheInvariant, SoundIsOnce, PTL

\* With no hypothesis on the behaviour, for the constants that leave the race of
\* fence.i with a walk's refill no room.
THEOREM RaceFreeCache ==
    ASSUME RaceFree
    PROVE  Spec => [](TypeOK /\ CachedOnce)
<1>1. CacheInv => TypeOK /\ CachedOnce
  BY SoundIsOnce DEF CacheInv
<1> QED
  BY <1>1, RaceFreeUnfenced, PTL

-----------------------------------------------------------------------------
\* What the clients see as memory.
Holds(w, l) == c[w][l[2]] # None /\ c[w][l[2]].line = l

LEMMA ViewNow ==
    ASSUME NEW l \in Line
    PROVE  ArraySound =>
              /\ \A w \in Way : Holds(w, l) => View[l] = c[w][l[2]].data
              /\ Uncached(l) => View[l] = mem[l]
<1>1. SUFFICES ASSUME ArraySound
               PROVE  /\ \A w \in Way : Holds(w, l) => View[l] = c[w][l[2]].data
                      /\ Uncached(l) => View[l] = mem[l]
  OBVIOUS
<1>2. FoundIn(l) = {w \in Way : Holds(w, l)}
  BY <1>1, FoundWays DEF Holds
<1>3. View[l] = IF FoundIn(l) = {} THEN mem[l] ELSE c[Highest(FoundIn(l))][l[2]].data
  BY DEF View
<1>4. ASSUME NEW w \in Way, Holds(w, l)
      PROVE  View[l] = c[w][l[2]].data
  <2>1. w \in FoundIn(l) /\ Highest(FoundIn(l)) = w
    <3>1. w \in FoundIn(l)
      BY <1>2, <1>4
    <3>2. /\ \A v \in FoundIn(l), u \in FoundIn(l) : v = u
          /\ FoundIn(l) # {} => Highest(FoundIn(l)) \in FoundIn(l)
      BY <1>1, FoundWays
    <3> QED
      BY <3>1, <3>2
  <2> QED
    BY <1>3, <2>1
<1>5. ASSUME Uncached(l)
      PROVE  View[l] = mem[l]
  <2>1. FoundIn(l) = {}
    BY <1>2, <1>5 DEF Uncached, Holds
  <2> QED
    BY <1>3, <2>1
<1> QED
  BY <1>4, <1>5

LEMMA ViewNext ==
    ASSUME NEW l \in Line
    PROVE  (ArraySound =>
              /\ \A w \in Way : Holds(w, l) => View[l] = c[w][l[2]].data
              /\ Uncached(l) => View[l] = mem[l])'
BY ViewNow, PTL

LEMMA ViewShape ==
    /\ View = [l \in Line |-> View[l]]
    /\ View' = [l \in Line |-> View'[l]]
BY DEF View

LEMMA RowWritten ==
    ASSUME ArraySound, NEW way \in Way, NEW i \in Index, NEW row, Write(way, i, row)
    PROVE  \A w \in Way, j \in Index : c'[w][j] = IF w = way /\ j = i THEN row ELSE c[w][j]
BY DEF ArraySound, Write

\* A row may go when memory then holds what it held.
LEMMA DropKeepsView ==
    ASSUME ArraySound, ArraySound', NEW way \in Way, NEW i \in Index, Write(way, i, None),
           c[way][i] # None => mem'[c[way][i].line] = c[way][i].data,
           \A l \in Line : ~Holds(way, l) => mem'[l] = mem[l]
    PROVE  View' = View
<1>1. \A w \in Way, j \in Index : c'[w][j] = IF w = way /\ j = i THEN None ELSE c[w][j]
  BY RowWritten
<1>2. ASSUME NEW l \in Line
      PROVE  View'[l] = View[l]
  <2>1. l[2] \in Index
    BY DEF Line
  <2>2. CASE \E w \in Way : Holds(w, l)'
    <3>1. PICK w \in Way : Holds(w, l)'
      BY <2>2
    <3>2. Holds(w, l) /\ c'[w][l[2]] = c[w][l[2]]
      BY <1>1, <2>1, <3>1 DEF Holds
    <3> QED
      BY <3>1, <3>2, ViewNow, ViewNext
  <2>3. CASE ~ \E w \in Way : Holds(w, l)'
    <3>1. View'[l] = mem'[l]
      BY <2>3, ViewNext DEF Uncached, Holds
    <3>2. CASE Holds(way, l)
      <4>1. l[2] = i
        BY <1>1, <2>1, <2>3, <3>2 DEF Holds
      <4> QED
        BY <3>1, <3>2, <4>1, ViewNow DEF Holds
    <3>3. CASE ~Holds(way, l)
      <4>1. \A w \in Way : ~Holds(w, l)
        BY <1>1, <2>1, <2>3, <3>3 DEF Holds
      <4> QED
        BY <3>1, <3>3, <4>1, ViewNow DEF Uncached, Holds
    <3> QED
      BY <3>2, <3>3
  <2> QED
    BY <2>2, <2>3
<1> QED
  BY <1>2, ViewShape

\* A fill shows the new row, and what it replaces is in memory.
LEMMA FillShowsRow ==
    ASSUME CacheInv, ArraySound', f_state = "WRITE_CACHE", mem' = mem,
           Write(FillWay, Asked[2], NewRow)
    PROVE  View' = [View EXCEPT ![Asked] = NewRow.data]
<1>1. /\ FillWay \in Way /\ Asked \in Line /\ Asked[2] \in Index
      /\ NewRow \in CacheRow /\ NewRow.line = Asked
      /\ \A w \in Way : Holds(w, Asked) => w = FillWay
  BY NewRowSound DEF Holds
<1>2. /\ FillWay = VictimWay /\ Asked[2] = VictimIndex /\ f_for # "scan"
  BY DEF FillWay, VictimWay, VictimIndex, CacheInv, ScanTransfer, Writing
<1>3. ASSUME c[FillWay][Asked[2]] # None
      PROVE  \/ c[FillWay][Asked[2]].line = Asked
             \/ mem[c[FillWay][Asked[2]].line] = c[FillWay][Asked[2]].data
  <2>1. CASE Hits = {}
    <3>1. VictimSaved
      BY <2>1 DEF CacheInv, Refill, Refilling
    <3> QED
      BY <1>2, <1>3, <3>1 DEF VictimSaved, VictimRow
  <2>2. CASE Hits # {}
    <3>1. f_for = "lsu" /\ Hits = LHits /\ Asked = l_op.line
      BY <1>2, <2>2 DEF Hits, Asked, CacheInv, WalkTransfer, TypeOK
    <3>2. l_state = "stage" /\ ~LsuSpent
      BY <3>1 DEF CacheInv, LsuTransfer, BurstShape, LsuSpent, LsuSend
    <3>3. LWay \in LHits /\ FillWay = LWay
      BY <2>2, <3>1, StageWays DEF CacheInv, FillWay
    <3> QED
      BY <3>1, <3>2, <3>3, LsuHits
  <2> QED
    BY <2>1, <2>2
<1>4. \A w \in Way, j \in Index :
         c'[w][j] = IF w = FillWay /\ j = Asked[2] THEN NewRow ELSE c[w][j]
  BY <1>1, RowWritten DEF CacheInv
<1>5. NewRow # None
  BY <1>1, NoneAssumption DEF CacheRow, Row
<1>6. ASSUME NEW l \in Line
      PROVE  View'[l] = IF l = Asked THEN NewRow.data ELSE View[l]
  <2>1. l[2] \in Index
    BY DEF Line
  <2>2. CASE l = Asked
    <3>1. \E w \in Way : Holds(w, l)' /\ c'[w][l[2]] = NewRow
      BY <1>1, <1>4, <1>5, <2>2 DEF Holds
    <3> QED
      BY <2>2, <3>1, ViewNext
  <2>3. CASE l # Asked /\ \E w \in Way : Holds(w, l)'
    <3>1. PICK w \in Way : Holds(w, l)'
      BY <2>3
    <3>2. Holds(w, l) /\ c'[w][l[2]] = c[w][l[2]]
      BY <1>1, <1>4, <2>1, <2>3, <3>1 DEF Holds
    <3> QED
      BY <2>3, <3>1, <3>2, ViewNow, ViewNext DEF CacheInv
  <2>4. CASE l # Asked /\ ~ \E w \in Way : Holds(w, l)'
    <3>1. View'[l] = mem[l]
      BY <2>4, ViewNext DEF Uncached, Holds
    <3>2. CASE Holds(FillWay, l)
      <4>1. l[2] = Asked[2]
        BY <1>1, <1>4, <2>1, <2>4, <3>2 DEF Holds
      <4> QED
        BY <1>1, <1>3, <2>4, <3>1, <3>2, <4>1, ViewNow DEF Holds, CacheInv
    <3>3. CASE ~Holds(FillWay, l)
      <4>1. \A w \in Way : ~Holds(w, l)
        BY <1>1, <1>4, <2>1, <2>4, <3>3 DEF Holds
      <4> QED
        BY <2>4, <3>1, <4>1, ViewNow DEF Uncached, Holds, CacheInv
    <3> QED
      BY <3>2, <3>3
  <2> QED
    BY <2>2, <2>3, <2>4
<1> QED
  BY <1>1, <1>6, ViewShape

\* A write of memory shows through where no way holds the line.
LEMMA CommitShowsWord ==
    ASSUME ArraySound, ArraySound', c' = c, mem \in [Line -> Word \X Word],
           NEW l \in Line, NEW h \in Half, NEW v,
           Uncached(l), mem' = [mem EXCEPT ![l][h] = v]
    PROVE  View' = [View EXCEPT ![l][h] = v]
<1>1. ASSUME NEW k \in Line
      PROVE  View'[k] = IF k = l THEN [View[l] EXCEPT ![h] = v] ELSE View[k]
  <2>1. \A w \in Way : Holds(w, k)' <=> Holds(w, k)
    BY DEF Holds
  <2>2. CASE \E w \in Way : Holds(w, k)
    <3>1. k # l
      BY <2>2 DEF Holds, Uncached
    <3> QED
      BY <2>1, <2>2, <3>1, ViewNow, ViewNext
  <2>3. CASE ~ \E w \in Way : Holds(w, k)
    <3>1. View[k] = mem[k] /\ View'[k] = mem'[k]
      BY <2>1, <2>3, ViewNow, ViewNext DEF Uncached, Holds
    <3> QED
      BY <3>1
  <2> QED
    BY <2>2, <2>3
<1> QED
  BY <1>1, ViewShape

LEMMA CommitHidden ==
    ASSUME ArraySound, ArraySound', c' = c,
           \A l \in Line : Uncached(l) => mem'[l] = mem[l]
    PROVE  View' = View
<1>1. ASSUME NEW k \in Line
      PROVE  View'[k] = View[k]
  <2>1. \A w \in Way : Holds(w, k)' <=> Holds(w, k)
    BY DEF Holds
  <2>2. CASE \E w \in Way : Holds(w, k)
    BY <2>1, <2>2, ViewNow, ViewNext
  <2>3. CASE ~ \E w \in Way : Holds(w, k)
    BY <2>1, <2>3, ViewNow, ViewNext DEF Uncached, Holds
  <2> QED
    BY <2>2, <2>3
<1> QED
  BY <1>1, ViewShape

\* The LSU's store reaches the arrays, or memory past them.
StoreTaken(bus) ==
    /\ f_for = "lsu" /\ ~IsRead(l_op)
    /\ f_state = "WRITE_CACHE" \/ (f_state = "WAIT_B" /\ x.single /\ "ok" \in bus)

\* The word of a refilled row, and that of a store.
LEMMA FilledData ==
    ASSUME CacheInv, f_state = "WRITE_CACHE"
    PROVE  IF f_for = "lsu" /\ ~IsRead(l_op)
           THEN NewRow.data = [View[l_op.line] EXCEPT ![l_op.half] = OpWord(l_op)]
                /\ Asked = l_op.line
           ELSE NewRow.data = View[Asked]
<1>1. /\ Asked \in Line
      /\ Hits = {} /\ ~NewRow.dirty => NewRow.data = mem[Asked]
      /\ f_for \in {"lsu", "walk"}
  BY NewRowSound DEF CacheInv, TypeOK, ScanTransfer, Writing
<1>2. CASE f_for = "walk"
  <2>1. m_valid /\ MHits = {} /\ ~WalkSend /\ Hits = {} /\ Asked = m_addr[1]
    BY <1>2 DEF CacheInv, WalkTransfer, WalkSend, Hits, Asked
  <2>2. ~NewRow.dirty
    BY <1>2 DEF NewRow
  <2>3. Uncached(Asked)
    BY <2>1, WalkHits
  <2> QED
    BY <1>1, <1>2, <2>1, <2>2, <2>3, NewRowSound, ViewNow DEF CacheInv
<1>3. CASE f_for = "lsu"
  <2>1. l_state = "stage" /\ ~LsuSpent /\ Hits = LHits /\ Asked = l_op.line
    BY <1>3 DEF CacheInv, LsuTransfer, BurstShape, LsuSpent, LsuSend, Hits, Asked
  <2>2. CASE IsRead(l_op)
    <3>1. LHits = {}
      BY <1>3, <2>2 DEF CacheInv, LsuTransfer, IsRead
    <3>2. ~NewRow.dirty
      BY <1>3, <2>2 DEF NewRow
    <3>3. Uncached(Asked)
      BY <2>1, <3>1, LsuHits
    <3> QED
      BY <1>1, <2>1, <2>2, <3>1, <3>2, <3>3, NewRowSound, ViewNow DEF CacheInv
  <2>3. CASE ~IsRead(l_op)
    <3>1. NewRow.data = Stored(IF LHits # {} THEN LWays[LWay].data ELSE <<b[1], b[2]>>)
      BY <1>3, <2>3 DEF NewRow
    <3>2. CASE LHits = {}
      <4>1. Len(b) = 2 /\ Beats(mem[Asked])
        BY <2>1, <3>2 DEF CacheInv, Refill, Refilling
      <4>2. <<b[1], b[2]>> = mem[Asked]
        BY <1>1, <4>1 DEF Beats, CacheInv, TypeOK
      <4>3. View[Asked] = mem[Asked]
        BY <1>1, <2>1, <3>2, LsuHits, ViewNow DEF CacheInv
      <4> QED
        BY <1>3, <2>1, <2>3, <3>1, <3>2, <4>2, <4>3 DEF Stored
    <3>3. CASE LHits # {}
      <4>1. LWay \in LHits
        BY <3>3, StageWays DEF CacheInv
      <4>2. Holds(LWay, Asked) /\ LWays[LWay] = c[LWay][Asked[2]] /\ LWay \in Way
        BY <2>1, <4>1, LsuHits DEF Holds
      <4>3. View[Asked] = LWays[LWay].data
        BY <1>1, <4>2, ViewNow DEF CacheInv
      <4> QED
        BY <1>3, <2>1, <2>3, <3>1, <3>3, <4>3 DEF Stored
    <3> QED
      BY <3>2, <3>3
  <2> QED
    BY <2>2, <2>3
<1> QED
  BY <1>1, <1>2, <1>3

\* What an edge does to what the clients see: nothing, or the LSU's store.
LEMMA ViewStep ==
    ASSUME CacheInv, RefillUnfenced, NEW flush \in FlushIn, NEW bus \in BusIn, Cycle(flush, bus)
    PROVE  View' = IF StoreTaken(bus)
                   THEN [View EXCEPT ![l_op.line][l_op.half] = OpWord(l_op)]
                   ELSE View
<1>1. ArraySound /\ ArraySound' /\ FsmStep(flush, bus) /\ ArrayStep(bus)
  BY FsmKeeps DEF CacheInv, Cycle
<1>2. CASE f_state = "WRITE_CACHE" /\ Write(FillWay, Asked[2], NewRow)
  <2>1. mem' = mem
    BY <1>1, <1>2, MemoryChange
  <2>2. View' = [View EXCEPT ![Asked] = NewRow.data] /\ Asked \in Line
    BY <1>1, <1>2, <2>1, FillShowsRow, NewRowSound
  <2>3. CASE f_for = "lsu" /\ ~IsRead(l_op)
    BY <1>2, <2>2, <2>3, FilledData DEF StoreTaken
  <2>4. CASE ~(f_for = "lsu" /\ ~IsRead(l_op))
    BY <1>2, <2>2, <2>4, FilledData, ViewShape DEF StoreTaken
  <2> QED
    BY <2>3, <2>4
<1>3. CASE f_state = "FLUSH" /\ Write(LWay, l_op.line[2], None)
  <2>1. mem' = mem /\ f_for = "lsu" /\ l_state = "stage"
    BY <1>1, <1>3, MemoryChange DEF CacheInv, BurstShape, LsuTransfer
  <2>2. LWay \in Way /\ l_op.line[2] \in Index
    BY <2>1, StageWays, LineOfRequest DEF CacheInv, Requests
  <2>3. c[LWay][l_op.line[2]] # None => mem[c[LWay][l_op.line[2]].line] = c[LWay][l_op.line[2]].data
    BY <1>3, <2>1 DEF CacheInv, Refill, VictimSaved, VictimRow, VictimWay, VictimIndex, Asked
  <2>4. View' = View
    BY <1>1, <1>3, <2>1, <2>2, <2>3, DropKeepsView
  <2> QED
    BY <1>3, <2>4 DEF StoreTaken
<1>4. CASE f_for = "scan" /\ ScanClears(bus) /\ Write(s_way, s_index, None)
  <2>1. s_way \in Way /\ s_index \in Index /\ ~StoreTaken(bus)
    BY <1>4 DEF CacheInv, TypeOK, StoreTaken
  <2>2. CASE f_state = "FLUSH_READ"
    <3>1. mem' = mem
      BY <1>1, <2>2, MemoryChange
    <3>2. c[s_way][s_index] # None => mem[c[s_way][s_index].line] = c[s_way][s_index].data
      BY <1>1, <1>4, <2>1, <2>2 DEF ScanClears, ScanDirty, IsDirty, ArraySound
    <3> QED
      BY <1>1, <1>4, <2>1, <3>1, <3>2, DropKeepsView
  <2>3. CASE f_state = "WAIT_B" /\ "ok" \in bus
    <3>1. ~x.single /\ x \in Burst /\ x # None /\ x.line \in Line /\ f_flush = FALSE
      BY <1>4, <2>3 DEF CacheInv, BurstShape, TypeOK, Burst, Writing, WalkTransfer
    <3>2. IsDirty(VictimRow) /\ x.line = VictimRow.line /\ Beats(VictimRow.data) /\ Len(b) = 2
      BY <2>3, <3>1 DEF CacheInv, WriteBack, Writing, BurstShape
    <3>3. VictimRow = c[s_way][s_index]
      BY <1>4 DEF VictimRow, VictimWay, VictimIndex
    <3>4. VictimRow \in CacheRow
      BY <1>1, <2>1, <3>2, <3>3 DEF ArraySound, IsDirty
    <3>5. VictimRow.data = <<b[1], b[2]>>
      BY <3>2, <3>4 DEF CacheRow, Beats
    <3>6. mem' = [mem EXCEPT ![x.line] = <<b[1], b[2]>>]
      BY <1>1, <2>3, <3>1, Zenon DEF FsmStep, Idle, DropForLock, SendWrite, WaitB, WaitAr, WaitR,
         WaitError, SendData, WriteCache, FlushRead, Commit
    <3>7. mem \in [Line -> Word \X Word]
      BY DEF CacheInv, TypeOK
    <3>8. mem'[x.line] = VictimRow.data /\ \A l \in Line : l # x.line => mem'[l] = mem[l]
      BY <3>1, <3>5, <3>6, <3>7
    <3>9. \A l \in Line : ~Holds(s_way, l) => l # x.line
      BY <2>1, <3>2, <3>3, <1>1 DEF Holds, IsDirty, ArraySound
    <3> QED
      BY <1>1, <1>4, <2>1, <3>2, <3>3, <3>8, <3>9, DropKeepsView
  <2> QED
    BY <1>4, <2>2, <2>3 DEF ScanClears
<1>5. CASE f_state \notin {"WRITE_CACHE", "FLUSH"} /\ ~ScanClears(bus) /\ c' = c
  <2>1. mem \in [Line -> Word \X Word]
    BY DEF CacheInv, TypeOK
  <2>2. CASE StoreTaken(bus)
    <3>1. f_state = "WAIT_B" /\ x.single /\ "ok" \in bus
      BY <1>5, <2>2 DEF StoreTaken
    <3>2. x.half \in Half /\ x.line \in Line
      BY <3>1 DEF CacheInv, BurstShape, TypeOK, Burst, Writing
    <3>5. x.line = l_op.line /\ x.half = l_op.half /\ Uncached(l_op.line)
      BY <3>1 DEF CacheInv, Writing, SingleBeat
    <3>6. Len(b) = 1
      BY <3>1 DEF CacheInv, BurstShape
    <3>7. b[1] = OpWord(l_op)
      BY <3>1, <3>6 DEF CacheInv, Writing, SingleBeat
    <3>3. mem' = [mem EXCEPT ![x.line][x.half] = b[1]]
      BY <1>1, <3>1, Zenon DEF FsmStep, Idle, DropForLock, SendWrite, WaitB, WaitAr, WaitR,
         WaitError, SendData, WriteCache, FlushRead, Commit
    <3>4. View' = [View EXCEPT ![l_op.line][l_op.half] = OpWord(l_op)]
      <4> DEFINE l == l_op.line
                 h == l_op.half
                 v == OpWord(l_op)
      <4>1. mem' = [mem EXCEPT ![l][h] = v]
        BY <3>3, <3>5, <3>7
      <4>2. l \in Line /\ h \in Half /\ Uncached(l)
        BY <3>2, <3>5
      <4>3. ArraySound /\ ArraySound' /\ c' = c
        BY <1>1, <1>5
      <4> HIDE DEF l, h, v
      <4>4. View' = [View EXCEPT ![l][h] = v]
        BY <2>1, <4>1, <4>2, <4>3, CommitShowsWord
      <4> QED
        BY <4>4 DEF l, h, v
    <3> QED
      BY <2>2, <3>4
  <2>3. CASE ~StoreTaken(bus)
    <3>1. ~(f_state = "WAIT_B" /\ "ok" \in bus /\ x.single /\ f_for = "lsu")
      BY <2>3 DEF StoreTaken, CacheInv, SingleBeat, Writing, Reading
    <3>2. \A l \in Line : Uncached(l) => mem'[l] = mem[l]
      <4>1. CASE mem' = mem
        BY <4>1
      <4>2. CASE mem' # mem
        <5>1. /\ x.line \in Line /\ \E w \in Way : DirtyIn(w, x.line)
              /\ mem' = [mem EXCEPT ![x.line] = <<b[1], b[2]>>]
          BY <1>1, <3>1, <4>2, MemoryChange
        <5>2. ~Uncached(x.line)
          BY <5>1 DEF DirtyIn, IsDirty, Uncached
        <5> QED
          BY <2>1, <5>1, <5>2
      <4> QED
        BY <4>1, <4>2
    <3>3. View' = View
      BY <1>1, <1>5, <3>2, CommitHidden
    <3> QED
      BY <2>3, <3>3
  <2> QED
    BY <2>2, <2>3
<1> QED
  BY <1>1, <1>2, <1>3, <1>4, <1>5, ArrayChange

-----------------------------------------------------------------------------
\* fence.i.

\* The rows the scan has passed are empty.
Passed(w, i) == w < s_way \/ (w = s_way /\ i < s_index)
ScanDone == \A w \in Way, i \in Index : Passed(w, i) => c[w][i] = None

LEMMA ScanEdge ==
    ASSUME CacheInv, RefillUnfenced, ScanDone,
           NEW flush \in FlushIn, NEW bus \in BusIn, Cycle(flush, bus)
    PROVE  /\ ScanDone'
           /\ fence = "on" /\ fence' = "no" =>
                 mem' = View /\ \A w \in Way, i \in Index : c'[w][i] = None
<1>1. LastIndex \in Nat /\ Index = 0 .. LastIndex /\ LastWay \in Nat /\ Way = 0 .. LastWay
  BY DcacheAssumption
<1>2. s_way \in Way /\ s_index \in Index
  BY DEF CacheInv, TypeOK
<1>3. ScanStep(bus) /\ ArrayStep(bus)
  BY DEF Cycle
<1>4. CASE ~ScanClears(bus)
  <2>1. s_way' = s_way /\ s_index' = s_index /\ ~(fence = "on" /\ fence' = "no")
    BY <1>3, <1>4 DEF ScanStep
  <2>2. CASE f_for # "scan"
    <3>1. s_way = 0 /\ s_index = 0
      BY <2>2 DEF CacheInv, ScanTransfer
    <3>2. \A w \in Way, i \in Index : ~Passed(w, i)'
      BY <1>1, <2>1, <3>1 DEF Passed
    <3> QED
      BY <2>1, <3>2 DEF ScanDone
  <2>3. CASE f_for = "scan"
    <3>1. c' = c
      BY <1>3, <1>4, <2>3, ScanMoves DEF ArrayStep, LineWen
    <3> QED
      BY <2>1, <3>1 DEF ScanDone, Passed
  <2> QED
    BY <2>2, <2>3
<1>5. CASE ScanClears(bus)
  <2>1. f_for = "scan"
    BY <1>5, ScanBegins
  <2>2. Write(s_way, s_index, None) /\ ArraySound /\ ArraySound'
    BY <1>3, <1>5, <2>1, ArrayChange, ScanMoves, FsmKeeps DEF LineWen, CacheInv
  <2>3. \A w \in Way, i \in Index : c'[w][i] = IF w = s_way /\ i = s_index THEN None ELSE c[w][i]
    BY <1>2, <2>2, RowWritten
  <2>4. \A w \in Way, i \in Index : Passed(w, i) \/ (w = s_way /\ i = s_index) => c'[w][i] = None
    BY <2>3 DEF ScanDone
  <2>5. CASE ScanLast
    <3>1. s_way' = 0 /\ s_index' = 0
      BY <1>3, <1>5, <2>5 DEF ScanStep, ScanLast
    <3>2. \A w \in Way, i \in Index : ~Passed(w, i)'
      BY <1>1, <3>1 DEF Passed
    <3>3. \A w \in Way, i \in Index : Passed(w, i) \/ (w = s_way /\ i = s_index)
      BY <1>1, <2>5 DEF Passed, ScanLast
    <3>4. \A w \in Way, i \in Index : c'[w][i] = None
      BY <2>4, <3>3
    <3>5. View' = View
      BY <2>1, ViewStep DEF StoreTaken
    <3>6. View' = mem'
      <4>1. \A l \in Line : l[2] \in Index
        BY DEF Line
      <4>2. \A l \in Line : View'[l] = mem'[l]
        BY <2>2, <3>4, <4>1, ViewNext DEF Uncached
      <4>3. mem' \in [Line -> Word \X Word]
        BY MemoryType DEF Cycle
      <4> QED
        BY <4>2, <4>3, ViewShape
    <3> QED
      BY <3>2, <3>4, <3>5, <3>6 DEF ScanDone
  <2>6. CASE ~ScanLast
    <3>1. fence' = "on" \/ fence # "on"
      BY <1>3, <2>6 DEF ScanStep
    <3>2. /\ s_index' = IF s_index = LastIndex THEN 0 ELSE s_index + 1
          /\ s_way' = IF s_index # LastIndex THEN s_way
                      ELSE IF s_way = LastWay THEN 0 ELSE s_way + 1
      BY <1>3, <1>5 DEF ScanStep
    <3>3. \A w \in Way, i \in Index : Passed(w, i)' => Passed(w, i) \/ (w = s_way /\ i = s_index)
      BY <1>1, <1>2, <2>6, <3>2 DEF Passed, ScanLast
    <3> QED
      BY <2>4, <3>1, <3>3 DEF ScanDone
  <2> QED
    BY <2>5, <2>6
<1> QED
  BY <1>4, <1>5

LEMMA FenceStep ==
    ASSUME CacheInv, RefillUnfenced, ScanDone, [Next]_vars
    PROVE  /\ ScanDone'
           /\ fence = "on" /\ fence' = "no" =>
                 mem' = View /\ \A w \in Way, i \in Index : c'[w][i] = None
<1>1. CASE Tick
  BY <1>1, ScanEdge DEF Tick
<1>2. CASE LsuRequest \/ WalkRequest \/ FenceRequest \/ UNCHANGED vars
  <2>1. c' = c /\ s_way' = s_way /\ s_index' = s_index /\ ~(fence = "on" /\ fence' = "no")
    BY <1>2 DEF LsuRequest, WalkRequest, FenceRequest, vars, arrayVars, scanVars
  <2> QED
    BY <2>1 DEF ScanDone, Passed
<1> QED
  BY <1>1, <1>2 DEF Next

LEMMA ScanStarts ==
    ASSUME Init
    PROVE  ScanDone
<1>1. LastIndex \in Nat /\ Index = 0 .. LastIndex /\ LastWay \in Nat /\ Way = 0 .. LastWay
  BY DcacheAssumption
<1> QED
  BY <1>1 DEF Init, ScanDone, Passed

\* When fence.i ends, memory holds what the LSU and the walker saw and every row
\* is empty (dcache.v:1226-1262): the scan misses no row, writes back each dirty
\* one, and no row comes back behind it.
THEOREM FenceLeavesClean == Spec /\ []RefillUnfenced => FenceCleans
<1>1. CacheInv /\ RefillUnfenced /\ ScanDone /\ [Next]_vars =>
         /\ ScanDone'
         /\ [fence = "on" /\ fence' = "no" =>
               mem' = View /\ \A w \in Way, i \in Index : c'[w][i] = None]_vars
  BY FenceStep
<1>2. Init => ScanDone
  BY ScanStarts
<1> QED
  BY <1>1, <1>2, CacheInvariant, PTL DEF Spec, FenceCleans

\* The race of fence.i with a walk's refill is the only way the edge at which
\* fence.i flushes the data side can change what the clients see.
THEOREM FlushHidden == Spec /\ []RefillUnfenced => FlushKeepsMemory
<1>1. CacheInv /\ RefillUnfenced /\ [Next]_vars => [fence = "first" => View' = View]_vars
  <2>1. SUFFICES ASSUME CacheInv, RefillUnfenced, [Next]_vars, fence = "first"
                 PROVE  View' = View \/ UNCHANGED vars
    OBVIOUS
  <2>2. CASE Tick
    <3>1. PICK flush \in FlushIn, bus \in BusIn : Cycle(flush, bus)
      BY <2>2 DEF Tick
    <3>2. ~StoreTaken(bus)
      BY <2>1 DEF StoreTaken, CacheInv, LsuTransfer, ScanTransfer
    <3> QED
      BY <2>1, <3>1, <3>2, ViewStep
  <2>3. CASE LsuRequest \/ WalkRequest \/ FenceRequest
    BY <2>1, <2>3 DEF LsuRequest, WalkRequest, FenceRequest
  <2> QED
    BY <2>1, <2>2, <2>3 DEF Next
<1> QED
  BY <1>1, CacheInvariant, PTL DEF Spec, FlushKeepsMemory

-----------------------------------------------------------------------------
\* The refinement of MemoryPorts: the port of the LSU.
PortLsu == IF l_state = "idle" THEN None ELSE [op |-> l_op, res |-> LsuResult]
PortWalk == IF w_state = "idle" THEN None ELSE [addr |-> w_addr, res |-> WalkResult]

\* The LSU's answer is in the out fifo for one cycle.
LsuAnswered == l_state = "answer" => out # None /\ out.who = "lsu"

\* Only one of the two is answered at an edge.
LEMMA OneAnswer ==
    ASSUME CacheInv, LsuPush
    PROVE  /\ ~WalkHit /\ ~WalkSend
           /\ Pushed = IF LsuFault THEN Answer("lsu", "fault", None, None)
                       ELSE IF LsuLoadHit THEN Answer("lsu", "ok", LWays[LWay].data[l_op.half], None)
                       ELSE IF LsuStoreHit THEN Answer("lsu", "ok", None, None)
                       ELSE Answer("lsu", Resp, IF IsRead(l_op) THEN Beat(l_op.half) ELSE None, None)
           /\ Pushed.who = "lsu"
<1>1. ~WalkHit /\ ~WalkSend
  BY DEF LsuPush, LsuFault, LsuLoadHit, LsuStoreHit, LsuSend, WalkHit, WalkSend
<1>2. Pushed = IF LsuFault THEN Answer("lsu", "fault", None, None)
               ELSE IF LsuLoadHit THEN Answer("lsu", "ok", LWays[LWay].data[l_op.half], None)
               ELSE IF LsuStoreHit THEN Answer("lsu", "ok", None, None)
               ELSE Answer("lsu", Resp, IF IsRead(l_op) THEN Beat(l_op.half) ELSE None, None)
  BY <1>1 DEF Pushed
<1> QED
  BY <1>1, <1>2 DEF Answer

\* How a transfer comes to be answered.
LEMMA SendFrom ==
    ASSUME CacheInv, NEW flush \in FlushIn, NEW bus \in BusIn, Cycle(flush, bus),
           f_state' = "SEND_DATA"
    PROVE  /\ f_for' = f_for
           /\ \/ /\ WaitB(flush, bus) /\ ~flush /\ ~f_flush /\ bus # {} /\ f_for # "scan"
                 /\ x.single \/ bus = {"error"}
                 /\ f_ok' = ("ok" \in bus)
              \/ /\ WaitR(flush, bus) /\ ~flush /\ ~f_flush /\ bus # {}
                 /\ x.single \/ "error" \in bus
                 /\ f_ok' = ("ok" \in bus) /\ b' = Append(b, ReadWord)
              \/ WaitError(flush, bus) /\ f_ok' = f_ok /\ f_state = "WAIT_ERROR"
              \/ /\ WriteCache(flush) /\ ~flush /\ b' = b /\ f_ok' = f_ok
                 /\ f_state = "WRITE_CACHE" /\ ~(f_for = "lsu" /\ LHits # {})
<1>1. FsmStep(flush, bus)
  BY DEF Cycle
<1>2. ~Idle(flush)
  <2>1. IdleWalk \/ IdleLsu \/ Rest => f_state' # "SEND_DATA"
    BY DEF IdleWalk, IdleLsu, Rest, Go, StartWriteBack, StartRefill, StartLine, StartSingle
  <2> QED
    BY <2>1 DEF Idle
<1>3. ~DropForLock /\ ~SendWrite(flush, bus) /\ ~SendData /\ ~WaitAr(flush, bus)
  BY DEF DropForLock, StartSingle, SendWrite, SendData, Rest, WaitAr, Go
<1>4. ~FlushRead
  BY DEF FlushRead, ScanNext, Rest, StartWriteBack, StartLine
<1>5. CASE WaitB(flush, bus)
  <2>1. bus # {} /\ ~flush /\ ~f_flush
    BY <1>5 DEF WaitB, Go, Rest
  <2>2. f_for # "scan"
    <3>1. \A ok : AfterScanWrite(ok) => f_state' # "SEND_DATA"
      BY DEF AfterScanWrite, ScanNext, Rest, StartWriteBack, StartLine
    <3> QED
      BY <1>5, <2>1, <3>1 DEF WaitB
  <2>3. (x.single \/ bus = {"error"}) /\ f_for' = f_for
    BY <1>5, <2>1, <2>2 DEF WaitB, Go, StartRefill, StartLine
  <2>4. f_ok' = ("ok" \in bus \/ f_for = "scan")
    BY <1>5, <2>1 DEF WaitB
  <2> QED
    BY <1>5, <2>1, <2>2, <2>3, <2>4
<1>6. CASE WaitR(flush, bus)
  <2>1. bus # {} /\ ~flush /\ ~f_flush
    BY <1>6 DEF WaitR, Rest
  <2> QED
    BY <1>6, <2>1 DEF WaitR
<1>7. CASE WaitError(flush, bus)
  BY <1>7 DEF WaitError, Go
<1>8. CASE WriteCache(flush)
  BY <1>8 DEF WriteCache, Rest, Go
<1> QED
  BY <1>1, <1>2, <1>3, <1>4, <1>5, <1>6, <1>7, <1>8 DEF FsmStep

\* The two words of a refill, when it is written, are what the clients see.
LEMMA RefillShown ==
    ASSUME CacheInv, f_state = "WRITE_CACHE", Hits = {}
    PROVE  /\ Asked \in Line /\ f_ok /\ Len(b) = 2
           /\ \A h \in Half : b[h] = View[Asked][h]
<1>1. Len(b) = 2 /\ f_ok /\ Beats(mem[Asked])
  BY DEF CacheInv, Refill, Refilling, BurstShape
<1>2. Asked \in Line
  BY NewRowSound
<1>3. Uncached(Asked)
  <2>1. \A w \in Way : ~Holds(w, Asked)
    <3>1. f_for = "lsu" => l_state = "stage" /\ ~LsuSpent
      BY DEF CacheInv, LsuTransfer, BurstShape, LsuSpent, LsuSend
    <3>2. f_for # "lsu" => m_valid /\ ~WalkSend /\ f_for = "walk"
      BY DEF CacheInv, TypeOK, WalkTransfer, ScanTransfer, WalkSend, Writing
    <3> QED
      BY <3>1, <3>2, LsuHits, WalkHits DEF Hits, Asked, Uncached, Holds
  <2> QED
    BY <2>1 DEF Uncached, Holds
<1>4. View[Asked] = mem[Asked]
  BY <1>2, <1>3, ViewNow DEF CacheInv
<1> QED
  BY <1>1, <1>2, <1>4 DEF Beats, Half

\* A word that comes past the cache is what the clients see.
LEMMA SingleShown ==
    ASSUME CacheInv, f_state = "WAIT_R", x.single
    PROVE  /\ IsRead(l_op) /\ Len(b) = 0 /\ b \in Seq(Word)
           /\ ReadWord \in Word /\ ReadWord = View[l_op.line][l_op.half]
<1>1. x \in Burst /\ x # None /\ x.half \in Half /\ x.line \in Line
  BY DEF CacheInv, TypeOK, BurstShape, Burst, Reading
<1>2. IsRead(l_op) /\ x.line = l_op.line /\ x.half = l_op.half /\ Uncached(l_op.line)
  BY DEF CacheInv, SingleBeat, Reading
<1>3. Len(b) = 0 /\ b \in Seq(Word)
  <2>1. b \in Seq(Word) /\ Len(b) <= 0
    BY DEF CacheInv, BurstShape, TypeOK
  <2> QED
    BY <2>1
<1>4. ReadWord = mem[x.line][x.half]
  BY DEF ReadWord
<1>5. mem[x.line][x.half] \in Word
  BY <1>1 DEF CacheInv, TypeOK, Half
<1> QED
  BY <1>1, <1>2, <1>3, <1>4, <1>5, ViewNow DEF CacheInv

\* A request of the LSU takes effect once: it fails, it reads what the clients
\* see, or it stores.
Failure == {Done("error", None), Done("fault", None)}
LEMMA LsuPerforms ==
    ASSUME CacheInv, RefillUnfenced, NEW flush \in FlushIn, NEW bus \in BusIn,
           Cycle(flush, bus), l_state = "stage"
    PROVE  /\ l_state' \in {"stage", "answer"} /\ l_op' = l_op /\ LsuAnswered'
           /\ \/ LsuResult' = LsuResult /\ ~StoreTaken(bus)
              \/ /\ LsuResult = None
                 /\ \/ ~StoreTaken(bus) /\ LsuResult' \in Failure
                    \/ /\ ~StoreTaken(bus) /\ IsRead(l_op)
                       /\ LsuResult' = Done("ok", View[l_op.line][l_op.half])
                    \/ /\ StoreTaken(bus) /\ ~IsRead(l_op)
                       /\ LsuResult' = Done("ok", None)
<1>1. ~flush /\ l_op' = l_op /\ l_op # None /\ l_op.half \in Half /\ l_op.line \in Line
  BY FlushFindsIdle, LineOfRequest DEF CacheInv, Requests, Cycle, LsuStep
<1>2. CASE LsuPush
  <2>1. l_state' = "answer" /\ out' = Pushed
    BY <1>1, <1>2 DEF Cycle, LsuStep, OutStep
  <2>2. Pushed # None
    BY <1>2, PushedType, NoneAssumption
  <2>3. LsuAnswered'
    BY <1>2, <2>1, <2>2, OneAnswer DEF LsuAnswered
  <2>4. LsuResult' = Done(Pushed.ok, Pushed.word)
    BY <2>1 DEF LsuResult
  <2>5. CASE LsuSend
    <3>1. ~LsuFault /\ ~LsuLoadHit /\ ~LsuStoreHit /\ ~StoreTaken(bus)
      BY <2>5 DEF LsuSend, LsuFault, LsuLoadHit, LsuStoreHit, StoreTaken
    <3>2. LsuResult' = Done(Resp, IF IsRead(l_op) THEN Beat(l_op.half) ELSE None)
      BY <1>2, <2>4, <3>1, OneAnswer DEF Answer
    <3>3. LsuResult = Done(Resp, IF IsRead(l_op) THEN Beat(l_op.half) ELSE None)
      BY <2>5 DEF LsuSend, LsuResult
    <3> QED
      BY <1>1, <2>1, <2>3, <3>1, <3>2, <3>3
  <2>6. CASE ~LsuSend
    <3>1. LsuResult = None
      BY <2>6 DEF LsuSend, LsuResult
    <3>2. CASE LsuFault
      <4>1. LsuResult' = Done("fault", None)
        BY <1>2, <2>4, <3>2, OneAnswer DEF Answer
      <4>2. ~StoreTaken(bus)
        BY <3>2 DEF LsuFault, StoreTaken
      <4> QED
        BY <1>1, <2>1, <2>3, <3>1, <4>1, <4>2 DEF Failure
    <3>3. CASE ~LsuFault /\ LsuLoadHit
      <4>1. LsuResult' = Done("ok", LWays[LWay].data[l_op.half])
        BY <1>2, <2>4, <3>3, OneAnswer DEF Answer
      <4>2. ~StoreTaken(bus) /\ IsRead(l_op)
        BY <3>3 DEF LsuLoadHit, StoreTaken, IsRead
      <4>3. ~LsuSpent
        BY <3>3 DEF LsuLoadHit, LsuSpent, LsuSend, CacheInv, BurstShape
      <4>4. LWay \in LHits
        BY <3>3, StageWays DEF LsuLoadHit, CacheInv
      <4>5. Holds(LWay, l_op.line) /\ LWays[LWay] = c[LWay][l_op.line[2]] /\ LWay \in Way
        BY <4>3, <4>4, LsuHits DEF Holds
      <4>6. View[l_op.line] = LWays[LWay].data
        BY <1>1, <4>5, ViewNow DEF CacheInv
      <4> QED
        BY <1>1, <2>1, <2>3, <3>1, <4>1, <4>2, <4>6
    <3>4. CASE ~LsuFault /\ ~LsuLoadHit /\ LsuStoreHit
      <4>1. LsuResult' = Done("ok", None)
        BY <1>2, <2>4, <3>4, OneAnswer DEF Answer
      <4>2. StoreTaken(bus) /\ ~IsRead(l_op)
        BY <3>4 DEF LsuStoreHit, StoreTaken
      <4> QED
        BY <1>1, <2>1, <2>3, <3>1, <4>1, <4>2
    <3> QED
      BY <1>2, <2>6, <3>2, <3>3, <3>4 DEF LsuPush
  <2> QED
    BY <2>5, <2>6
<1>3. CASE ~LsuPush
  <2>1. l_state' = "stage" /\ LsuAnswered' /\ LsuResult = None
    BY <1>3 DEF Cycle, LsuStep, LsuAnswered, LsuPush, LsuSend, LsuResult
  <2>2. CASE ~LsuSend'
    <3>1. LsuResult' = None
      BY <2>1, <2>2 DEF LsuResult, LsuSend
    <3>2. ~StoreTaken(bus)
      <4>1. SUFFICES ASSUME StoreTaken(bus) PROVE FALSE
        OBVIOUS
      <4>2. ASSUME f_state = "WRITE_CACHE" PROVE FALSE
        <5>1. WriteCache(flush) /\ LHits = {}
          BY <1>3, <4>1, <4>2 DEF Cycle, FsmStep, Idle, DropForLock, SendWrite, WaitB, WaitAr,
             WaitR, WaitError, SendData, FlushRead, LsuPush, LsuStoreHit, StoreTaken
        <5> QED
          BY <1>1, <2>2, <4>1, <5>1 DEF WriteCache, Go, LsuSend, StoreTaken
      <4>3. ASSUME f_state = "WAIT_B" PROVE FALSE
        <5>1. WaitB(flush, bus) /\ x.single /\ "ok" \in bus /\ f_for = "lsu" /\ f_flush = FALSE
          BY <4>1, <4>3, LsuServes DEF Cycle, FsmStep, Idle, DropForLock, SendWrite, WaitAr,
             WaitR, WaitError, SendData, WriteCache, FlushRead, StoreTaken
        <5> QED
          BY <1>1, <2>2, <5>1 DEF WaitB, Go, LsuSend
      <4> QED
        BY <4>1, <4>2, <4>3 DEF StoreTaken
    <3> QED
      BY <1>1, <2>1, <3>1, <3>2
  <2>3. CASE LsuSend'
    <3>1. f_state' = "SEND_DATA" /\ f_for' = "lsu" /\ f_for = "lsu"
      BY <2>3, SendFrom DEF LsuSend
    <3>2. LsuResult' = Done(Resp', IF IsRead(l_op) THEN Beat(l_op.half)' ELSE None)
      BY <1>1, <2>1, <3>1 DEF LsuResult
    <3>3. ~f_ok' => LsuResult' = Done("error", None)
      BY <3>2 DEF Resp, Beat
    <3>4. CASE WaitB(flush, bus)
      <4>1. /\ f_state = "WAIT_B" /\ bus # {} /\ f_ok' = ("ok" \in bus)
            /\ x.single \/ bus = {"error"}
        BY <3>1, <3>4, SendFrom DEF WaitB, WaitR, WaitError, WriteCache
      <4>2. CASE "ok" \in bus
        <5>1. x.single
          BY <4>1, <4>2
        <5>2. ~IsRead(l_op)
          BY <4>1, <5>1 DEF CacheInv, SingleBeat, Writing, Reading
        <5>3. StoreTaken(bus)
          BY <3>1, <4>1, <4>2, <5>1, <5>2 DEF StoreTaken
        <5>4. f_ok'
          BY <4>1, <4>2
        <5>5. LsuResult' = Done("ok", None)
          BY <3>2, <5>2, <5>4 DEF Resp
        <5> QED
          BY <1>1, <2>1, <5>2, <5>3, <5>5
      <4>3. CASE "ok" \notin bus
        <5>1. ~f_ok' /\ ~StoreTaken(bus)
          BY <4>1, <4>3 DEF StoreTaken
        <5> QED
          BY <1>1, <2>1, <3>3, <5>1 DEF Failure
      <4> QED
        BY <4>2, <4>3
    <3>5. CASE WaitR(flush, bus)
      <4>1. /\ f_state = "WAIT_R" /\ bus # {} /\ f_ok' = ("ok" \in bus)
            /\ x.single \/ "error" \in bus
            /\ b' = Append(b, ReadWord)
            /\ ~StoreTaken(bus)
        BY <3>1, <3>5, SendFrom DEF WaitB, WaitR, WaitError, WriteCache, StoreTaken
      <4>2. bus = {"ok"} \/ bus = {"error"}
        BY <4>1 DEF BusIn, Answers
      <4>3. CASE bus = {"ok"}
        <5>1. x.single /\ f_ok'
          BY <4>1, <4>3
        <5>2. /\ IsRead(l_op) /\ Len(b) = 0 /\ b \in Seq(Word)
              /\ ReadWord \in Word /\ ReadWord = View[l_op.line][l_op.half]
          BY <4>1, <5>1, SingleShown
        <5>3. Len(b') = 1 /\ b'[1] = ReadWord
          BY <4>1, <5>2, AppendWord
        <5>4. Beat(l_op.half)' = ReadWord
          BY <5>1, <5>3 DEF Beat
        <5>5. LsuResult' = Done("ok", ReadWord)
          BY <3>2, <5>1, <5>2, <5>4 DEF Resp
        <5> QED
          BY <1>1, <2>1, <4>1, <5>2, <5>5
      <4>4. CASE bus = {"error"}
        <5>1. ~f_ok'
          BY <4>1, <4>4
        <5> QED
          BY <1>1, <2>1, <3>3, <4>1, <5>1 DEF Failure
      <4> QED
        BY <4>2, <4>3, <4>4
    <3>6. CASE f_state = "WAIT_ERROR" /\ f_ok' = f_ok
      <4>1. ~f_ok' /\ ~StoreTaken(bus)
        BY <3>6 DEF CacheInv, BurstShape, StoreTaken
      <4> QED
        BY <1>1, <2>1, <3>3, <4>1 DEF Failure
    <3>7. CASE f_state = "WRITE_CACHE" /\ f_ok' = f_ok /\ b' = b /\ ~(f_for = "lsu" /\ LHits # {})
      <4>1. Hits = {} /\ Asked = l_op.line
        BY <3>1, <3>7 DEF Hits, Asked
      <4>2. f_ok /\ Len(b) = 2 /\ b[l_op.half] = View[l_op.line][l_op.half]
        BY <1>1, <3>7, <4>1, RefillShown
      <4>3. Resp' = "ok" /\ Beat(l_op.half)' = b[l_op.half]
        BY <1>1, <3>7, <4>2 DEF Resp, Beat
      <4>4. CASE IsRead(l_op)
        <5>1. ~StoreTaken(bus) /\ LsuResult' = Done("ok", View[l_op.line][l_op.half])
          BY <3>2, <4>2, <4>3, <4>4 DEF StoreTaken
        <5> QED
          BY <1>1, <2>1, <4>4, <5>1
      <4>5. CASE ~IsRead(l_op)
        <5>1. StoreTaken(bus) /\ LsuResult' = Done("ok", None)
          BY <3>1, <3>2, <3>7, <4>3, <4>5 DEF StoreTaken
        <5> QED
          BY <1>1, <2>1, <4>5, <5>1
      <4> QED
        BY <4>4, <4>5
    <3> QED
      BY <3>1, <3>4, <3>5, <3>6, <3>7, SendFrom
  <2> QED
    BY <2>2, <2>3
<1> QED
  BY <1>2, <1>3

\* The walker's read takes effect when it hits, or when its refill is written.
LEMMA WalkPerforms ==
    ASSUME CacheInv, WalkInv, NoWalkErrors, NEW flush \in FlushIn, NEW bus \in BusIn,
           Cycle(flush, bus), w_state # "idle", w_state' # "idle"
    PROVE  /\ w_addr' = w_addr /\ w_addr # None
           /\ \/ WalkResult' = WalkResult
              \/ /\ WalkResult = None
                 /\ WalkResult' = Done("ok", View[w_addr[1]][w_addr[2]])
<1>1. w_addr' = w_addr /\ w_addr # None
  BY WalkMoves DEF CacheInv, Requests
<1>2. ~flush
  BY DEF Cycle, WalkStep
<1>3. m_valid => w_state = "wait" /\ m_addr = w_addr /\ ~WalkAnswered
  BY DEF WalkInv, StageAwaited
<1>4. WalkPush => m_valid
  BY PushFromStage DEF WalkInv
<1>5. ~WalkAnswered
  <2>1. WalkAnswered => w_state = "wait"
    BY DEF WalkInv, AnswerAwaited, WalkAnswered
  <2>2. WalkAnswered => ~WalkTake
    BY <2>1 DEF WalkTake
  <2> QED
    BY <1>2, <2>1, <2>2 DEF Cycle, WalkStep, WalkAnswered
<1>6. CASE WalkPush
  <2>1. out' = Pushed /\ ~LsuPush /\ Pushed # None
    BY <1>2, <1>6, PushedType, NoneAssumption, OneAnswer DEF Cycle, OutStep, WalkPush
  <2>2. m_valid /\ m_addr = w_addr
    BY <1>3, <1>4, <1>6
  <2>3. CASE WalkHit
    <3>1. Pushed = Answer("walk", "ok", MWays[Highest(MHits)].data[m_addr[2]], m_addr)
      BY <2>3 DEF Pushed
    <3>2. WalkResult' = Done("ok", MWays[Highest(MHits)].data[m_addr[2]])
      BY <2>1, <3>1 DEF WalkResult, Answer
    <3>3. WalkResult = None /\ ~WalkSend
      BY <1>5, <2>3 DEF WalkResult, WalkAnswered, WalkHit, WalkSend
    <3>4. m_addr[1] \in Line
      BY <2>2, LineOfRequest DEF CacheInv, Requests
    <3>5. Highest(MHits) \in MHits /\ Highest(MHits) \in Way
      BY <2>3, StageWays DEF WalkHit, CacheInv
    <3>6. MWays = RowsAt(m_addr[1][2])
      BY <2>2, <3>3, WalkRows
    <3>7. /\ Holds(Highest(MHits), m_addr[1])
          /\ MWays[Highest(MHits)] = c[Highest(MHits)][m_addr[1][2]]
      BY <2>2, <3>3, <3>5, <3>6, WalkHits DEF Holds, RowsAt
    <3>8. View[m_addr[1]] = MWays[Highest(MHits)].data
      BY <3>4, <3>5, <3>7, ViewNow DEF CacheInv
    <3> QED
      BY <1>1, <2>2, <3>2, <3>3, <3>8
  <2>4. CASE ~WalkHit /\ WalkSend
    <3>1. Pushed = Answer("walk", Resp, Beat(m_addr[2]), m_addr)
      BY <2>4 DEF Pushed
    <3>2. WalkResult' = Done(Resp, Beat(m_addr[2]))
      BY <2>1, <3>1 DEF WalkResult, Answer
    <3>3. WalkResult = Done(Resp, Beat(m_addr[2]))
      BY <1>5, <2>4 DEF WalkResult, WalkAnswered, WalkSend
    <3> QED
      BY <1>1, <3>2, <3>3
  <2> QED
    BY <1>6, <2>3, <2>4 DEF WalkPush
<1>7. CASE ~WalkPush
  <2>1. ~WalkAnswered'
    <3>1. LsuPush => Pushed.who = "lsu"
      BY OneAnswer
    <3> QED
      BY <1>7, <3>1 DEF WalkAnswered, Cycle, OutStep
  <2>2. WalkResult = None
    BY <1>5, <1>7 DEF WalkResult, WalkAnswered, WalkPush, WalkSend
  <2>3. CASE ~WalkSend'
    <3>1. WalkResult' = None
      BY <2>1, <2>3 DEF WalkResult, WalkAnswered, WalkSend
    <3> QED
      BY <1>1, <2>2, <3>1
  <2>4. CASE WalkSend'
    <3>1. f_state' = "SEND_DATA" /\ f_for' = "walk" /\ f_for = "walk"
      BY <2>4, SendFrom DEF WalkSend
    <3>2. "error" \notin bus \/ bus = {}
      BY <3>1 DEF BusIn, Answers, NoWalkErrors
    <3>3. ~WaitError(flush, bus)
      BY <3>1 DEF WaitError, WalkInv, TransferAwaited, Transfer
    <3>4. x # None => ~x.single
      BY <3>1 DEF CacheInv, BurstShape
    <3>5. ~WaitB(flush, bus) /\ ~WaitR(flush, bus)
      <4>1. f_state \in {"WAIT_B", "WAIT_R"} => x # None
        BY DEF CacheInv, BurstShape, Writing, Reading
      <4>2. f_state \in {"WAIT_B", "WAIT_R"} => bus \in {{}, {"ok"}, {"error"}}
        BY DEF BusIn, Answers
      <4>3. WaitB(flush, bus) => bus # {} /\ (x.single \/ bus = {"error"})
        BY <3>1, SendFrom DEF WaitB, WaitR, WaitError, WriteCache
      <4>4. WaitR(flush, bus) => bus # {} /\ (x.single \/ "error" \in bus)
        BY <3>1, SendFrom DEF WaitB, WaitR, WaitError, WriteCache
      <4> QED
        BY <3>2, <3>4, <4>1, <4>2, <4>3, <4>4 DEF WaitB, WaitR
    <3>6. f_state = "WRITE_CACHE" /\ b' = b /\ f_ok' = f_ok
      BY <3>1, <3>3, <3>5, SendFrom
    <3>7. m_valid /\ MHits = {} /\ Hits = {} /\ Asked = m_addr[1] /\ m_addr = w_addr
      BY <1>3, <3>1, <3>6 DEF CacheInv, WalkTransfer, Hits, Asked
    <3>8. m_addr' = m_addr /\ m_addr[2] \in Half
      BY <1>2, <1>7, <3>7, WalkStageKept, LineOfRequest DEF Cycle, CacheInv, Requests
    <3>9. f_ok /\ Len(b) = 2 /\ b[m_addr[2]] = View[m_addr[1]][m_addr[2]]
      BY <3>6, <3>7, <3>8, RefillShown
    <3>10. WalkResult' = Done("ok", b[m_addr[2]])
      <4>1. WalkResult' = Done(Resp', Beat(m_addr[2])')
        BY <2>1, <3>1 DEF WalkResult, WalkAnswered
      <4>2. Resp' = "ok" /\ Beat(m_addr[2])' = b[m_addr[2]]
        BY <3>6, <3>8, <3>9 DEF Resp, Beat
      <4> QED
        BY <4>1, <4>2
    <3> QED
      BY <1>1, <2>2, <3>7, <3>9, <3>10
  <2> QED
    BY <2>3, <2>4
<1> QED
  BY <1>6, <1>7

\* The LSU's port at an edge.
LEMMA LsuPortStep ==
    ASSUME CacheInv, RefillUnfenced, LsuAnswered, NEW flush \in FlushIn, NEW bus \in BusIn,
           Cycle(flush, bus)
    PROVE  /\ LsuAnswered'
           /\ Ports!LsuAsk \/ Ports!LsuPerform \/ Ports!LsuAnswer
              \/ (View' = View /\ PortLsu' = PortLsu)
<1>1. View' = IF StoreTaken(bus)
              THEN [View EXCEPT ![l_op.line][l_op.half] = OpWord(l_op)] ELSE View
  BY ViewStep
<1>2. l_state \in {"idle", "fifo", "stage", "answer"} /\ l_op \in Op \cup {None}
  BY DEF CacheInv, TypeOK
<1>3. l_state # "stage" => ~StoreTaken(bus)
  BY DEF StoreTaken, CacheInv, LsuTransfer
<1>4. CASE l_state = "idle"
  <2>1. l_state' = "idle"
    BY <1>4 DEF Cycle, LsuStep
  <2> QED
    BY <1>1, <1>3, <1>4, <2>1 DEF PortLsu, LsuAnswered
<1>5. CASE l_state = "fifo"
  <2>1. l_state' \in {"fifo", "stage"} /\ l_op' = l_op
    BY <1>5 DEF Cycle, LsuStep
  <2>2. f_for = "lsu" => f_state = "IDLE"
    BY <1>5 DEF CacheInv, LsuTransfer
  <2>3. LsuResult = None /\ ~(f_state' = "SEND_DATA" /\ f_for' = "lsu")
    BY <1>5, <2>2, SendFrom DEF LsuResult, WaitB, WaitR
  <2>4. LsuResult' = None
    BY <2>1, <2>3 DEF LsuResult
  <2> QED
    BY <1>1, <1>3, <1>5, <2>1, <2>3, <2>4 DEF PortLsu, LsuAnswered
<1>6. CASE l_state = "answer"
  <2>1. l_state' = "idle"
    BY <1>6 DEF Cycle, LsuStep
  <2>2. LsuResult = Done(out.ok, out.word) /\ out \in OutRecord
    BY <1>6 DEF LsuResult, LsuAnswered, CacheInv, TypeOK
  <2>3. LsuResult \in Outcome
    BY <2>2 DEF Done, Outcome, OutRecord
  <2>4. l_op \in Op
    BY <1>2, <1>6 DEF CacheInv, Requests
  <2>5. PortLsu = [op |-> l_op, res |-> LsuResult] /\ PortLsu' = None
    BY <1>6, <2>1 DEF PortLsu
  <2>6. PortLsu # None /\ PortLsu.res # None
    BY <2>3, <2>4, <2>5, NoneAssumption
  <2>7. Ports!LsuAnswer
    BY <1>1, <1>3, <1>6, <2>5, <2>6 DEF Ports!LsuAnswer, PortLsu
  <2> QED
    BY <2>1, <2>7 DEF LsuAnswered
<1>7. CASE l_state = "stage"
  <2>1. /\ l_state' # "idle" /\ l_op' = l_op /\ LsuAnswered'
        /\ \/ LsuResult' = LsuResult /\ ~StoreTaken(bus)
           \/ /\ LsuResult = None
              /\ \/ ~StoreTaken(bus) /\ LsuResult' \in Failure
                 \/ /\ ~StoreTaken(bus) /\ IsRead(l_op)
                    /\ LsuResult' = Done("ok", View[l_op.line][l_op.half])
                 \/ /\ StoreTaken(bus) /\ ~IsRead(l_op)
                    /\ LsuResult' = Done("ok", None)
    BY <1>7, LsuPerforms
  <2>2. PortLsu = [op |-> l_op, res |-> LsuResult] /\ PortLsu' = [op |-> l_op, res |-> LsuResult']
    BY <1>7, <2>1 DEF PortLsu
  <2>3. l_op \in Op
    BY <1>2, <1>7 DEF CacheInv, Requests
  <2>4. CASE LsuResult' = LsuResult /\ ~StoreTaken(bus)
    BY <1>1, <2>1, <2>2, <2>4
  <2>5. CASE LsuResult = None /\ ~(LsuResult' = LsuResult /\ ~StoreTaken(bus))
    <3>1. PortLsu # None /\ PortLsu.res = None /\ PortLsu.op = l_op
      BY <2>2, <2>3, <2>5, NoneAssumption
    <3>2. PortLsu' = [PortLsu EXCEPT !.res = LsuResult']
      BY <2>2
    <3>3. CASE ~StoreTaken(bus) /\ LsuResult' \in Failure
      <4>1. LsuResult' \in Ports!Failed
        BY <3>3 DEF Failure, Done, Ports!Failed, Ports!Result
      <4>2. Ports!LsuPerform
        BY <1>1, <3>1, <3>2, <3>3, <4>1 DEF Ports!LsuPerform, PortLsu
      <4> QED
        BY <2>1, <4>2
    <3>4. CASE ~StoreTaken(bus) /\ IsRead(l_op) /\ LsuResult' = Done("ok", View[l_op.line][l_op.half])
      <4>1. Ports!LsuPerform
        BY <1>1, <3>1, <3>2, <3>4
        DEF Ports!LsuPerform, Ports!IsRead, Ports!Result, IsRead, Done, PortLsu
      <4> QED
        BY <2>1, <4>1
    <3>5. CASE StoreTaken(bus) /\ ~IsRead(l_op) /\ LsuResult' = Done("ok", None)
      <4>1. Ports!LsuPerform
        BY <1>1, <3>1, <3>2, <3>5
        DEF Ports!LsuPerform, Ports!IsRead, Ports!Result, Ports!WordOf, IsRead, Done, OpWord,
            WordAt, PortLsu
      <4> QED
        BY <2>1, <4>1
    <3> QED
      BY <2>1, <2>5, <3>3, <3>4, <3>5
  <2> QED
    BY <2>1, <2>4, <2>5
<1> QED
  BY <1>2, <1>4, <1>5, <1>6, <1>7

\* The walker's port at an edge.
LEMMA WalkPortStep ==
    ASSUME CacheInv, WalkInv, NoWalkErrors, NEW flush \in FlushIn, NEW bus \in BusIn,
           Cycle(flush, bus)
    PROVE  Ports!WalkPerform \/ Ports!WalkEnd \/ PortWalk' = PortWalk
<1>1. CASE w_state = "idle"
  <2>1. w_state' = "idle"
    BY <1>1 DEF Cycle, WalkStep, WalkTake
  <2> QED
    BY <1>1, <2>1 DEF PortWalk
<1>2. CASE w_state # "idle" /\ w_state' = "idle"
  <2>1. WalkResult \in Outcome \cup {None}
    <3>1. CASE WalkAnswered
      BY <3>1 DEF WalkAnswered, WalkResult, Done, Outcome, OutRecord, CacheInv, TypeOK
    <3>2. CASE ~WalkAnswered /\ WalkSend
      <4>1. WalkPush
        BY <3>2 DEF WalkPush
      <4>2. Pushed = Answer("walk", Resp, Beat(m_addr[2]), m_addr)
        BY <3>2 DEF Pushed, WalkHit, WalkSend
      <4>3. Pushed \in OutRecord
        BY <4>1, PushedType
      <4> QED
        BY <3>2, <4>2, <4>3
        DEF WalkAnswered, WalkSend, WalkResult, Done, Outcome, OutRecord, Answer
    <3>3. CASE ~WalkAnswered /\ ~WalkSend
      BY <3>3 DEF WalkAnswered, WalkSend, WalkResult
    <3> QED
      BY <3>1, <3>2, <3>3
  <2>2. w_addr \in WalkAddr
    BY <1>2 DEF CacheInv, Requests, TypeOK
  <2>3. PortWalk # None /\ PortWalk' = None
    BY <1>2, <2>1, <2>2, NoneAssumption DEF PortWalk
  <2> QED
    BY <2>3 DEF Ports!WalkEnd, PortWalk
<1>3. CASE w_state # "idle" /\ w_state' # "idle"
  <2>1. /\ w_addr' = w_addr /\ w_addr # None
        /\ \/ WalkResult' = WalkResult
           \/ /\ WalkResult = None
              /\ WalkResult' = Done("ok", View[w_addr[1]][w_addr[2]])
    BY <1>3, WalkPerforms
  <2>2. PortWalk = [addr |-> w_addr, res |-> WalkResult]
        /\ PortWalk' = [addr |-> w_addr, res |-> WalkResult']
    BY <1>3, <2>1 DEF PortWalk
  <2>3. CASE WalkResult' = WalkResult
    BY <2>2, <2>3
  <2>4. CASE WalkResult = None /\ WalkResult' = Done("ok", View[w_addr[1]][w_addr[2]])
    <3>1. w_addr \in WalkAddr
      BY <2>1 DEF CacheInv, TypeOK
    <3>2. PortWalk # None /\ PortWalk.res = None /\ PortWalk.addr = w_addr
      BY <2>2, <2>4, <3>1, NoneAssumption
    <3>3. PortWalk' = [PortWalk EXCEPT !.res = WalkResult']
      BY <2>2
    <3>4. Ports!WalkPerform
      BY <2>4, <3>2, <3>3 DEF Ports!WalkPerform, Ports!Result, Done, PortWalk
    <3> QED
      BY <3>4
  <2> QED
    BY <2>1, <2>3, <2>4
<1> QED
  BY <1>1, <1>2, <1>3

\* The requests between two edges, as the ports see them.
LEMMA AsksStep ==
    ASSUME CacheInv, WalkInv, LsuAnswered, LsuRequest \/ WalkRequest \/ FenceRequest \/ UNCHANGED vars
    PROVE  Ports!Next \/ UNCHANGED Ports!ports
<1>1. c' = c /\ mem' = mem /\ f_state' = f_state /\ f_for' = f_for /\ f_ok' = f_ok /\ b' = b
      /\ out' = out /\ m_addr' = m_addr
  BY DEF LsuRequest, WalkRequest, FenceRequest, vars, walkVars, arrayVars, fsmVars
<1>2. View' = View
  BY <1>1 DEF View, FoundIn
<1>3. ASSUME l_state' = l_state, l_op' = l_op
      PROVE  PortLsu' = PortLsu
  BY <1>1, <1>3 DEF PortLsu, LsuResult, Resp, Beat
<1>4. ASSUME w_state' = w_state, w_addr' = w_addr
      PROVE  PortWalk' = PortWalk
  BY <1>1, <1>4 DEF PortWalk, WalkResult, Resp, Beat
<1>5. CASE LsuRequest
  <2>1. PICK op \in Op : l_op' = op
    BY <1>5 DEF LsuRequest
  <2>2. l_state = "idle" /\ l_state' = "fifo" /\ w_state' = w_state /\ w_addr' = w_addr
    BY <1>5 DEF LsuRequest, walkVars
  <2>3. ~(f_state = "SEND_DATA" /\ f_for = "lsu")
    BY <2>2 DEF CacheInv, LsuTransfer
  <2>4. LsuResult' = None
    BY <1>1, <2>2, <2>3 DEF LsuResult
  <2>5. Ports!LsuAsk
    BY <1>2, <2>1, <2>2, <2>4 DEF Ports!LsuAsk
  <2>6. PortWalk' = PortWalk
    BY <1>4, <2>2
  <2> QED
    BY <2>5, <2>6 DEF Ports!Next, PortWalk
<1>6. CASE WalkRequest
  <2>1. PICK a \in WalkAddr : w_addr' = a
    BY <1>6 DEF WalkRequest
  <2>2. w_state = "idle" /\ w_state' = "send" /\ l_state' = l_state /\ l_op' = l_op
    BY <1>6 DEF WalkRequest, lsuVars
  <2>3. ~WalkAnswered
    BY <2>2 DEF WalkInv, AnswerAwaited, WalkAnswered
  <2>4. ~(f_state = "SEND_DATA" /\ f_for = "walk")
    BY <2>2 DEF WalkInv, TransferAwaited, StageAwaited, Transfer
  <2>5. WalkResult' = None
    BY <1>1, <2>3, <2>4 DEF WalkResult, WalkAnswered
  <2>6. Ports!WalkAsk
    BY <2>1, <2>2, <2>5 DEF Ports!WalkAsk
  <2>7. PortLsu' = PortLsu
    BY <1>3, <2>2
  <2> QED
    BY <1>2, <2>6, <2>7 DEF Ports!Next, PortLsu
<1>7. CASE FenceRequest \/ UNCHANGED vars
  <2>1. l_state' = l_state /\ l_op' = l_op /\ w_state' = w_state /\ w_addr' = w_addr
    BY <1>7 DEF FenceRequest, vars, lsuVars, walkVars
  <2>2. PortLsu' = PortLsu /\ PortWalk' = PortWalk
    BY <1>3, <1>4, <2>1
  <2> QED
    BY <1>2, <2>2 DEF Ports!ports, PortLsu, PortWalk
<1> QED
  BY <1>5, <1>6, <1>7

LEMMA PortsStep ==
    ASSUME NoWalkErrors, CacheInv, WalkInv, LsuAnswered, RefillUnfenced, [Next]_vars
    PROVE  LsuAnswered' /\ (Ports!Next \/ UNCHANGED Ports!ports)
<1>1. CASE Tick
  <2>1. PICK flush \in FlushIn, bus \in BusIn : Cycle(flush, bus)
    BY <1>1 DEF Tick
  <2>2. /\ LsuAnswered'
        /\ Ports!LsuAsk \/ Ports!LsuPerform \/ Ports!LsuAnswer
           \/ (View' = View /\ PortLsu' = PortLsu)
    BY <2>1, LsuPortStep
  <2>3. Ports!WalkPerform \/ Ports!WalkEnd \/ PortWalk' = PortWalk
    BY <2>1, WalkPortStep
  <2>4. Ports!Next
    BY <2>2, <2>3 DEF Ports!Next, PortLsu, PortWalk
  <2> QED
    BY <2>2, <2>4
<1>2. CASE LsuRequest \/ WalkRequest \/ FenceRequest \/ UNCHANGED vars
  <2>1. out' = out /\ (l_state' = l_state \/ l_state' = "fifo")
    BY <1>2 DEF LsuRequest, WalkRequest, FenceRequest, vars, lsuVars
  <2> QED
    BY <1>2, <2>1, AsksStep DEF LsuAnswered
<1> QED
  BY <1>1, <1>2 DEF Next

LEMMA PortsStart ==
    ASSUME Init
    PROVE  Ports!Init /\ LsuAnswered
<1>1. CacheInv
  BY CacheStarts
<1>2. \A l \in Line : Uncached(l)
  <2>1. \A l \in Line : l[2] \in Index
    BY DEF Line
  <2> QED
    BY <2>1 DEF Init, Uncached
<1>3. View = Memory0
  <2>1. \A l \in Line : View[l] = mem[l]
    BY <1>1, <1>2, ViewNow DEF CacheInv
  <2>2. mem = Memory0 /\ Memory0 = [l \in Line |-> Memory0[l]]
    BY DEF Init, Memory0
  <2> QED
    BY <2>1, <2>2, ViewShape
<1> QED
  BY <1>3 DEF Init, Ports!Init, LsuAnswered

\* The cache is a memory with a port for the LSU and one for the walker: each
\* request takes effect once, in one step between its start and its answer, and
\* only a store of the LSU changes what the two see - through hits, refills,
\* write-backs, locked accesses, device accesses, flushes and fence.i.
THEOREM CacheIsMemory ==
    ASSUME NoWalkErrors
    PROVE  Spec /\ []RefillUnfenced => ImplementsMemory
<1>1. Init => WalkInv
  BY DEF Init, WalkInv, StageAwaited, TransferAwaited, AnswerAwaited
<1>2. WalkInv /\ [Next]_vars => WalkInv'
  BY WalkInvStep
<1>3. Init => Ports!Init /\ LsuAnswered
  BY PortsStart
<1>4. CacheInv /\ WalkInv /\ LsuAnswered /\ RefillUnfenced /\ [Next]_vars =>
         LsuAnswered' /\ [Ports!Next]_(Ports!ports)
  BY PortsStep
<1> QED
  BY <1>1, <1>2, <1>3, <1>4, CacheInvariant, PTL DEF Spec, ImplementsMemory, Ports!Spec

\* The same with no hypothesis on the behaviour, for the constants that leave the
\* race of fence.i with a walk's refill no room.
THEOREM RaceFreeMemory ==
    ASSUME NoWalkErrors, RaceFree
    PROVE  Spec => ImplementsMemory /\ FenceCleans
BY RaceFreeUnfenced, CacheIsMemory, FenceLeavesClean, PTL
=============================================================================
