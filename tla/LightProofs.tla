----------------------------- MODULE LightProofs ----------------------------
(***************************************************************************)
(* Who sleeps, who is named and how old the oldest snapshot is, for every  *)
(* number of slots, period, program, failure of fork and interrupt.        *)
(***************************************************************************)
EXTENDS LightSSS, TLAPS

\* With one slot the newest snapshot is the oldest: it may be as young as the failure.
TwoSlots == SlotSize >= 2

-----------------------------------------------------------------------------
\* The inductive invariant.

Running == {"loop", "difftest", "fork", "exit", "wake"}
Waking == {"wakeKill", "wakeNotgood", "wakeFlag", "wait"}

MainIsMain ==
    /\ procs[Main].at \in Running \cup Waking \cup {"clear", "dead"}
    /\ ~procs[Main].child

Children ==
    \A p \in Snapshots :
        /\ procs[p].child
        /\ procs[p].at \in {"poll", "woken", "check", "difftest", "loop", "exit"}
        /\ procs[Main].at # "wait" => At(p, "poll")
        /\ procs[p].at \in {"difftest", "loop", "exit"} => wave # None

\* Who may be alive.
Known ==
    /\ \A i, j \in 1 .. Len(pidSlot) : pidSlot[i] = pidSlot[j] => i = j
    /\ procs[Main].at \in Running \cup {"clear"} =>
          \A p \in Pid : p \in Snapshots <=> \E i \in 1 .. Len(pidSlot) : pidSlot[i] = p
    /\ procs[Main].at = "wakeKill" => Snapshots \subseteq ToSet(pidSlot)
    /\ procs[Main].at \in {"wakeNotgood", "wakeFlag", "wait"} => Snapshots \subseteq {oldest}
    /\ procs[Main].at = "dead" => Snapshots = {}

\* The three words of the shared segment.
Shared ==
    /\ flag => procs[Main].at \in {"wait", "dead"}
    /\ flag \/ procs[Main].at = "wait" => notgood
    /\ procs[Main].at \in Waking => pidSlot # <<>> /\ oldest = Last(pidSlot)

\* Snapshots are a Period apart, and the run has left the newest behind by less
\* than a Period, or by one exactly when it forks or could not.
Age == procs[Main].inst - procs[pidSlot[1]].inst
FromStart == procs[pidSlot[Len(pidSlot)]].inst = 0
Apart ==
    \A i \in 1 .. Len(pidSlot) :
        procs[pidSlot[i]].inst = procs[pidSlot[1]].inst - (i - 1) * Period
Spaced ==
    procs[Main].at \in Running =>
        /\ pidSlot # <<>> =>
            /\ Apart
            /\ procs[pidSlot[1]].inst % Period = 0
            /\ \/ /\ procs[Main].at # "fork"
                  /\ Age \in 0 .. Period - 1
                  /\ Len(pidSlot) = SlotSize \/ FromStart
               \/ /\ procs[Main].at # "loop"
                  /\ procs[Main].at = "difftest" => procs[Main].npc # "RUNNING"
                  /\ Age = Period
                  /\ \/ FromStart
                     \/ Len(pidSlot) = SlotSize - 1
                     \/ Len(pidSlot) = SlotSize /\ procs[Main].at = "fork"
                  /\ procs[Main].at # "fork" => Len(pidSlot) < SlotSize
        /\ pidSlot = <<>> =>
            \/ procs[Main].at = "fork" /\ procs[Main].inst = 0
            \/ /\ procs[Main].at \notin {"fork", "loop"}
               /\ procs[Main].at = "difftest" => procs[Main].npc # "RUNNING"

\* The snapshot that is to replay is old enough, and not too old.
InWindow(p) ==
    /\ procs[p].inst = 0 \/ procs[Main].inst - procs[p].inst >= Period
    /\ procs[Main].inst - procs[p].inst < SlotSize * Period
Chosen ==
    procs[Main].at \in Waking /\ procs[oldest].at \in {"poll", "woken", "check"} => InWindow(oldest)

LightInv == TypeOK /\ MainIsMain /\ Children /\ Known /\ Shared /\ Spaced /\ Chosen

-----------------------------------------------------------------------------
\* Deques and numbers.

LEMMA FrontIs ==
    ASSUME NEW S, NEW q \in Seq(S), q # <<>>
    PROVE  /\ Front(q) \in Seq(S)
           /\ Len(Front(q)) = Len(q) - 1
           /\ \A i \in 1 .. Len(q) - 1 : Front(q)[i] = q[i]
           /\ Last(q) = q[Len(q)]
BY DEF Front, Last

LEMMA PushIs ==
    ASSUME NEW S, NEW q \in Seq(S), NEW p \in S
    PROVE  /\ <<p>> \o q \in Seq(S)
           /\ <<p>> \o q # <<>>
           /\ Len(<<p>> \o q) = Len(q) + 1
           /\ (<<p>> \o q)[1] = p
           /\ \A i \in 2 .. Len(q) + 1 : (<<p>> \o q)[i] = q[i - 1]
OBVIOUS

LEMMA MembersAre ==
    ASSUME NEW S, NEW q \in Seq(S)
    PROVE  \A p : p \in ToSet(q) <=> \E i \in 1 .. Len(q) : q[i] = p
BY DEF ToSet

LEMMA NextMultiple ==
    ASSUME NEW P \in Nat \ {0}, NEW h \in Nat, NEW x \in Nat,
           h % P = 0, x - h \in 0 .. P - 1
    PROVE  ((x + 1) % P = 0) <=> (x + 1 - h = P)
<1> DEFINE a == h \div P
           b == (x + 1) \div P
           r == (x + 1) % P
<1>1. a \in Int /\ b \in Int /\ r \in Int /\ h = P * a /\ x + 1 = P * b + r /\ 0 <= r /\ r < P
  OBVIOUS
<1> HIDE DEF a, b, r
<1>2. ASSUME r = 0 PROVE x + 1 - h = P
  <2>1. P * (b - a) = x + 1 - h
    BY <1>1, <1>2
  <2>2. b - a >= 1
    BY <2>1, <1>1
  <2>3. b - a <= 1
    BY <2>1, <1>1
  <2> QED BY <2>1, <2>2, <2>3, <1>1
<1>3. ASSUME x + 1 - h = P PROVE r = 0
  <2>1. P * (b - a - 1) = -r
    BY <1>1, <1>3
  <2>2. ASSUME b - a - 1 >= 1 PROVE FALSE
    BY <2>1, <2>2, <1>1
  <2>3. ASSUME b - a - 1 <= -1 PROVE FALSE
    <3>1. P * (b - a - 1) <= -P
      BY <2>3, <1>1
    <3> QED BY <3>1, <2>1, <1>1
  <2> QED BY <2>1, <2>2, <2>3, <1>1
<1> QED BY <1>2, <1>3 DEF r

LEMMA Multiple ==
    ASSUME NEW P \in Nat \ {0}, NEW h \in Nat, h % P = 0
    PROVE  (h + P) % P = 0
<1> DEFINE x == h + P - 1
<1>1. x \in Nat /\ x - h \in 0 .. P - 1 /\ x + 1 - h = P /\ x + 1 = h + P
  OBVIOUS
<1>2. (x + 1) % P = 0
  <2> HIDE DEF x
  <2> QED BY <1>1, NextMultiple
<1> QED BY <1>1, <1>2

LEMMA Window ==
    ASSUME NEW P \in Nat \ {0}, NEW S \in Nat, NEW n \in Nat, NEW age \in Nat,
           1 <= n, n <= S, 2 <= S
    PROVE  /\ age < P => age + (n - 1) * P < S * P
           /\ age < P /\ n = S => age + (n - 1) * P >= P
           /\ age = P /\ n < S => age + (n - 1) * P < S * P
           /\ age = P => age + (n - 1) * P >= P
<1>1. n * P <= S * P
  <2>1. (S - n) * P >= 0
    OBVIOUS
  <2> QED BY <2>1
<1>2. (n - 1) * P = n * P - P /\ n * P >= P
  <2>1. (n - 1) * P >= 0
    OBVIOUS
  <2> QED BY <2>1
<1>3. n < S => n * P <= S * P - P
  <2>1. n < S => (S - n - 1) * P >= 0
    OBVIOUS
  <2> QED BY <2>1
<1>4. n = S => (n - 1) * P >= P
  <2>1. (S - 2) * P >= 0
    OBVIOUS
  <2> QED BY <2>1
<1> QED BY <1>1, <1>2, <1>3, <1>4

-----------------------------------------------------------------------------
\* Steps.

Process == [at : Places, inst : Nat, child : BOOLEAN,
            npc : {"RUNNING", "END_GOOD", "END_BAD", "ABORT"}]

LEMMA Typed ==
    ASSUME procs \in [Pid -> Process],
           pidSlot \in Seq(Pid \ {Main}), Len(pidSlot) <= SlotSize,
           flag \in BOOLEAN, notgood \in BOOLEAN, oldest \in Pid \cup {None}, fate \in Fates,
           wave \in [from : Nat, to : Nat] \cup {None}, interrupts \in 0 .. MaxInterrupts
    PROVE  TypeOK
<1>1. procs \in [Pid -> [at : Places, inst : Nat, child : BOOLEAN,
                        npc : {"RUNNING", "END_GOOD", "END_BAD", "ABORT"}]]
  BY DEF Process
<1> QED BY <1>1 DEF TypeOK

\* A record of two numbers is not the name None.
LEMMA NoneIsNoWave == ASSUME NEW w \in [from : Nat, to : Nat] PROVE w # None
BY LightSSSAssumption

LEMMA InitLight == Init => LightInv
<1> SUFFICES ASSUME Init PROVE LightInv
  OBVIOUS
<1> USE LightSSSAssumption
<1>1. pidSlot = <<>> /\ Len(pidSlot) = 0 /\ ~flag /\ procs[Main].at = "fork" /\ procs[Main].inst = 0
      /\ ~procs[Main].child /\ Snapshots = {}
  BY DEF Init, Unborn, Snapshots, Alive
<1>2. TypeOK
  <2>1. procs \in [Pid -> [at : Places, inst : Nat, child : BOOLEAN,
                          npc : {"RUNNING", "END_GOOD", "END_BAD", "ABORT"}]]
    BY DEF Init, Unborn, Places
  <2>2. pidSlot \in Seq(Pid \ {Main}) /\ Len(pidSlot) <= SlotSize
    BY <1>1
  <2>3. fate \in Fates /\ oldest \in Pid \cup {None}
        /\ wave \in [from : Nat, to : Nat] \cup {None}
    BY DEF Init
  <2>4. flag \in BOOLEAN /\ notgood \in BOOLEAN
    BY Zenon DEF Init
  <2>5. interrupts \in 0 .. MaxInterrupts
    BY DEF Init
  <2> QED BY <2>1, <2>2, <2>3, <2>4, <2>5, Typed DEF Process
<1> QED BY <1>1, <1>2 DEF LightInv, MainIsMain, Children, Known, Shared, Spaced, Chosen, Running, Waking

\* A snapshot that was woken moves on.
LEMMA ReplayMoves ==
    ASSUME LightInv, TypeOK', NEW p \in Snapshots, procs[Main].at = "wait",
           \A q \in Pid \ {p} : procs'[q] = procs[q],
           UNCHANGED <<pidSlot, flag, notgood, oldest>>,
           procs'[p].child,
           procs'[p].at \in {"woken", "check", "difftest", "loop", "exit", "dead"},
           wave # None => wave' # None,
           procs'[p].at \in {"difftest", "loop", "exit"} => wave' # None,
           procs'[p].at \in {"woken", "check"} =>
              procs[p].at \in {"poll", "woken", "check"} /\ procs'[p].inst = procs[p].inst
    PROVE  LightInv'
<1> USE LightSSSAssumption
<1>1. p \in Pid /\ p # Main /\ Main \in Pid /\ procs'[Main] = procs[Main]
  BY DEF Snapshots
<1>2. Snapshots' \subseteq Snapshots
  BY <1>1 DEF Snapshots, Alive
<1>3. p = oldest
  BY DEF LightInv, Known
<1>4. MainIsMain'
  BY <1>1 DEF LightInv, MainIsMain
<1>5. Children'
  BY <1>1, <1>2 DEF LightInv, Children, At, Snapshots, Alive
<1>6. Known'
  BY <1>1, <1>2 DEF LightInv, Known, Running
<1>7. Shared'
  BY <1>1 DEF LightInv, Shared
<1>8. Spaced'
  BY <1>1 DEF LightInv, Spaced, Running
<1>9. Chosen'
  BY <1>1, <1>3 DEF LightInv, Chosen, InWindow, Waking
<1> QED BY <1>4, <1>5, <1>6, <1>7, <1>8, <1>9 DEF LightInv

\* The run goes on, or ends well.
LEMMA MainMoves ==
    ASSUME LightInv, TypeOK', Spaced', procs[Main].at \in Running,
           \A q \in Pid \ {Main} : procs'[q] = procs[q],
           UNCHANGED <<pidSlot, flag, notgood, oldest>>,
           ~procs'[Main].child, procs'[Main].at \in Running \cup {"clear"}
    PROVE  LightInv'
<1> USE LightSSSAssumption
<1>1. Snapshots' = Snapshots
  BY DEF Snapshots, Alive
<1>2. \A p \in Snapshots : At(p, "poll") /\ procs[p].child
  BY DEF LightInv, Children, Running
<1>3. MainIsMain'
  BY DEF MainIsMain
<1>4. Children'
  BY <1>1, <1>2 DEF Children, At, Snapshots
<1>5. Known'
  BY <1>1 DEF LightInv, Known, Running
<1>6. Shared'
  BY DEF LightInv, Shared, Running, Waking
<1>7. Chosen'
  BY DEF Chosen, Running, Waking
<1> QED BY <1>3, <1>4, <1>5, <1>6, <1>7 DEF LightInv

\* Neither the run nor the deque moves.
LEMMA SpacedKept ==
    ASSUME TypeOK, Spaced, procs[Main].at \in {"difftest", "exit"}, pidSlot' = pidSlot,
           procs'[Main].inst = procs[Main].inst,
           \A q \in Pid \ {Main} : procs'[q] = procs[q],
           \/ /\ procs'[Main].at = "loop" /\ procs[Main].at = "difftest"
              /\ procs[Main].npc = "RUNNING"
           \/ procs'[Main].at \in {"exit", "wake", "clear"}
    PROVE  Spaced'
<1>1. CASE pidSlot # <<>>
  <2>1. 1 \in 1 .. Len(pidSlot) /\ Len(pidSlot) \in 1 .. Len(pidSlot) /\ pidSlot' # <<>>
    BY <1>1 DEF TypeOK
  <2>2. \A i \in 1 .. Len(pidSlot) : procs'[pidSlot[i]] = procs[pidSlot[i]]
    BY DEF TypeOK
  <2>3. Age' = Age /\ (Apart' <=> Apart) /\ (FromStart' <=> FromStart)
        /\ procs'[pidSlot'[1]] = procs[pidSlot[1]]
    BY <2>1, <2>2 DEF Age, Apart, FromStart
  <2> QED BY <1>1, <2>1, <2>3 DEF Spaced, Running
<1>2. CASE pidSlot = <<>>
  BY <1>2 DEF Spaced, Running
<1> QED BY <1>1, <1>2

LEMMA ExecOnceStep ==
    ASSUME LightInv, NEW p \in Pid, ExecOnce(p)
    PROVE  LightInv'
<1> USE LightSSSAssumption
<1>1. TypeOK'
  <2> DEFINE end == [good |-> "END_GOOD", bad |-> "END_BAD", stuck |-> "ABORT"][fate.how]
             last == [procs[p] EXCEPT !.at = "exit", !.npc = end]
             next == IF (procs[p].inst + 1) % Period = 0 /\ ~procs[p].child
                     THEN "fork" ELSE "difftest"
             more == procs[p].inst + 1
             other == [procs[p] EXCEPT !.inst = more, !.at = next]
  <2>1. TypeOK /\ procs[p] \in Process
    BY DEF LightInv, TypeOK, Process
  <2>2. fate.how # "mismatch" => last \in Process
    <3>1. fate.how # "mismatch" => end \in {"END_GOOD", "END_BAD", "ABORT"}
      BY <2>1 DEF TypeOK
    <3> HIDE DEF end
    <3> QED BY <2>1, <3>1 DEF Process, Places
  <2>3. other \in Process
    <3>1. next \in Places /\ more \in Nat
      BY <2>1 DEF Places, Process
    <3> HIDE DEF next, more
    <3> QED BY <2>1, <3>1 DEF Process
  <2>4. (procs' = [procs EXCEPT ![p] = last] /\ fate.how # "mismatch") \/ procs' = [procs EXCEPT ![p] = other]
    <3>1. CASE procs[p].inst + 1 = fate.at /\ fate.how # "mismatch"
      BY <2>1, <3>1 DEF ExecOnce, Process
    <3>2. CASE ~(procs[p].inst + 1 = fate.at /\ fate.how # "mismatch")
      BY <2>1, <3>2 DEF ExecOnce, Process
    <3> QED BY <3>1, <3>2
  <2>5. procs' \in [Pid -> Process]
    <3> HIDE DEF last, other
    <3> QED BY <2>1, <2>2, <2>3, <2>4 DEF TypeOK, Process
  <2> QED BY <2>1, <2>5 DEF ExecOnce, TypeOK, Process
<1>2. /\ procs[p].at = "loop"
      /\ UNCHANGED <<pidSlot, flag, notgood, oldest, wave>>
      /\ \A q \in Pid \ {p} : procs'[q] = procs[q]
      /\ procs'[p].child = procs[p].child
      /\ \/ procs'[p].at = "exit" /\ procs'[p].inst = procs[p].inst
         \/ /\ procs'[p].inst = procs[p].inst + 1
            /\ procs'[p].at = IF (procs[p].inst + 1) % Period = 0 /\ ~procs[p].child
                              THEN "fork" ELSE "difftest"
  BY DEF LightInv, TypeOK, ExecOnce, At
<1>3. CASE p # Main
  <2>1. p \in Snapshots
    BY <1>2, <1>3 DEF Snapshots, Alive
  <2>2. procs[Main].at = "wait" /\ procs[p].child /\ wave # None
    BY <1>2, <2>1 DEF LightInv, Children, At
  <2> QED BY <1>1, <1>2, <2>1, <2>2, ReplayMoves
<1>4. CASE p = Main
  <2>1. ~procs[Main].child /\ procs[Main].at \in Running
    BY <1>2, <1>4 DEF LightInv, MainIsMain, Running
  <2>2. Spaced'
    <3>1. pidSlot # <<>> /\ Apart /\ procs[pidSlot[1]].inst % Period = 0
          /\ Age \in 0 .. Period - 1 /\ (Len(pidSlot) = SlotSize \/ FromStart)
      BY <1>2, <1>4, <2>1 DEF LightInv, Spaced
    <3>2. \A i \in 1 .. Len(pidSlot) : pidSlot[i] \in Pid \ {Main}
      BY DEF LightInv, TypeOK
    <3>3. Apart' /\ (procs[pidSlot[1]].inst % Period = 0)' /\ (FromStart' <=> FromStart)
          /\ procs'[pidSlot[1]].inst = procs[pidSlot[1]].inst
      <4>1. 1 \in 1 .. Len(pidSlot) /\ Len(pidSlot) \in 1 .. Len(pidSlot)
        BY <3>1 DEF LightInv, TypeOK
      <4>2. \A i \in 1 .. Len(pidSlot) : procs'[pidSlot[i]] = procs[pidSlot[i]]
        BY <1>2, <1>4, <3>2
      <4>3. pidSlot' = pidSlot
        BY <1>2
      <4> QED BY <3>1, <4>1, <4>2, <4>3 DEF Apart, FromStart
    <3>4. procs[pidSlot[1]].inst \in Nat /\ procs[Main].inst \in Nat
      BY <3>1, <3>2 DEF LightInv, TypeOK
    <3>5. ((procs[Main].inst + 1) % Period = 0) <=> (procs[Main].inst + 1 - procs[pidSlot[1]].inst = Period)
      BY <3>1, <3>4, NextMultiple DEF Age
    <3>6. pidSlot' # <<>> /\ pidSlot' = pidSlot
      BY <1>2, <3>1
    <3>7. CASE procs'[Main].at = "exit" /\ procs'[Main].inst = procs[Main].inst
      <4>1. Age' = Age
        BY <3>3, <3>6, <3>7 DEF Age
      <4> QED BY <3>1, <3>3, <3>6, <3>7, <4>1 DEF Spaced
    <3>8. CASE procs'[Main].inst = procs[Main].inst + 1
      <4>1. Age' = Age + 1
        BY <3>3, <3>4, <3>6, <3>8 DEF Age
      <4>2. Age \in Int /\ Period \in Nat \ {0}
        BY <3>4 DEF Age
      <4>3. Age + 1 = Period <=> procs'[Main].at = "fork"
        BY <1>2, <1>4, <2>1, <3>4, <3>5, <3>8 DEF Age
      <4>4. procs'[Main].at \in {"fork", "difftest"}
        BY <1>2, <1>4, <2>1, <3>8, <3>4
      <4>5. Len(pidSlot) <= SlotSize /\ Len(pidSlot) \in Nat
        BY DEF LightInv, TypeOK
      <4> QED BY <3>1, <3>3, <3>6, <4>1, <4>2, <4>3, <4>4, <4>5 DEF Spaced
    <3> QED BY <1>2, <1>4, <3>7, <3>8
  <2> QED BY <1>1, <1>2, <1>4, <2>1, <2>2, MainMoves DEF Running
<1> QED BY <1>3, <1>4

LEMMA DifftestStep ==
    ASSUME LightInv, NEW p \in Pid, Difftest(p)
    PROVE  LightInv'
<1> USE LightSSSAssumption
<1>1. TypeOK'
  <2> DEFINE npc == IF procs[p].npc = "RUNNING" /\ procs[p].inst = fate.at
                    THEN "ABORT" ELSE procs[p].npc
             place == IF procs[p].npc = "RUNNING" /\ procs[p].inst # fate.at
                      THEN "loop" ELSE "exit"
             next == [procs[p] EXCEPT !.npc = npc, !.at = place]
  <2>1. TypeOK /\ procs[p] \in Process
    BY DEF LightInv, TypeOK, Process
  <2>2. npc \in {"RUNNING", "END_GOOD", "END_BAD", "ABORT"} /\ place \in Places
    BY <2>1 DEF Process, Places
  <2>3. next \in Process
    <3> HIDE DEF npc, place
    <3> QED BY <2>1, <2>2 DEF Process
  <2>4. procs' = [procs EXCEPT ![p] = next]
    BY <2>1 DEF Difftest, Process
  <2>5. procs' \in [Pid -> Process]
    <3> HIDE DEF next
    <3> QED BY <2>1, <2>3, <2>4 DEF TypeOK, Process
  <2> QED BY <2>1, <2>5 DEF Difftest, TypeOK, Process
<1>2. /\ procs[p].at = "difftest"
      /\ UNCHANGED <<pidSlot, flag, notgood, oldest, wave>>
      /\ \A q \in Pid \ {p} : procs'[q] = procs[q]
      /\ procs'[p].child = procs[p].child
      /\ procs'[p].inst = procs[p].inst
      /\ procs'[p].at = "exit" \/ (procs'[p].at = "loop" /\ procs[p].npc = "RUNNING")
  BY DEF LightInv, TypeOK, Difftest, At
<1>3. CASE p # Main
  <2>1. p \in Snapshots
    BY <1>2, <1>3 DEF Snapshots, Alive
  <2>2. procs[Main].at = "wait" /\ procs[p].child /\ wave # None
    BY <1>2, <2>1 DEF LightInv, Children, At
  <2> QED BY <1>1, <1>2, <2>1, <2>2, ReplayMoves
<1>4. CASE p = Main
  <2>1. ~procs[Main].child /\ procs[Main].at \in Running
    BY <1>2, <1>4 DEF LightInv, MainIsMain, Running
  <2>2. Spaced'
    BY <1>2, <1>4, <2>1, SpacedKept DEF LightInv
  <2> QED BY <1>1, <1>2, <1>4, <2>1, <2>2, MainMoves DEF Running
<1> QED BY <1>3, <1>4

LEMMA SimExitStep ==
    ASSUME LightInv, NEW p \in Pid, SimExit(p)
    PROVE  LightInv'
<1> USE LightSSSAssumption
<1>1. CASE procs[p].child
  <2>1. p # Main /\ p \in Snapshots /\ procs[Main].at = "wait" /\ wave # None
    <3>1. p # Main
      BY <1>1 DEF LightInv, MainIsMain
    <3>2. p \in Snapshots
      BY <3>1 DEF SimExit, At, Snapshots, Alive
    <3> QED BY <3>1, <3>2 DEF LightInv, Children, SimExit, At
  <2>2. procs' = [procs EXCEPT ![p].at = "dead"] /\ wave' = [wave EXCEPT !.to = procs[p].inst]
        /\ UNCHANGED <<pidSlot, flag, notgood, oldest, fate, interrupts>>
    BY <1>1 DEF SimExit, Moves
  <2>3. procs' \in [Pid -> Process] /\ procs'[p].at = "dead" /\ procs'[p].child = procs[p].child
        /\ \A q \in Pid \ {p} : procs'[q] = procs[q]
    BY <2>2 DEF LightInv, TypeOK, Process, Places
  <2>4. wave' \in [from : Nat, to : Nat]
    <3>1. wave \in [from : Nat, to : Nat] /\ procs[p].inst \in Nat
      BY <2>1 DEF LightInv, TypeOK
    <3> QED BY <2>2, <3>1
  <2>5. TypeOK'
    BY <2>2, <2>3, <2>4 DEF LightInv, TypeOK, Process
  <2>6. wave' # None
    BY <2>4, NoneIsNoWave
  <2> QED BY <1>1, <2>1, <2>2, <2>3, <2>5, <2>6, ReplayMoves
<1>2. CASE ~procs[p].child
  <2>1. p = Main
    <3> SUFFICES ASSUME p # Main PROVE FALSE
      OBVIOUS
    <3>1. p \in Snapshots
      BY DEF SimExit, At, Snapshots, Alive
    <3> QED BY <1>2, <3>1 DEF LightInv, Children
  <2>2. UNCHANGED <<pidSlot, flag, notgood, oldest, fate, wave, interrupts>>
        /\ procs' \in [Pid -> Process]
        /\ procs'[Main].at \in {"wake", "clear"} /\ procs'[Main].child = procs[Main].child
        /\ procs'[Main].inst = procs[Main].inst
        /\ \A q \in Pid \ {Main} : procs'[q] = procs[q]
    <3>1. procs' = [procs EXCEPT ![Main].at = IF Bad(p) THEN "wake" ELSE "clear"]
      BY <1>2, <2>1 DEF SimExit, Moves
    <3> QED BY <1>2, <2>1, <3>1 DEF SimExit, LightInv, TypeOK, Process, Places
  <2>3. TypeOK'
    BY <2>2 DEF LightInv, TypeOK, Process
  <2>4. procs[Main].at = "exit"
    BY <2>1 DEF SimExit, At
  <2>5. Spaced'
    BY <2>2, <2>4, SpacedKept DEF LightInv, Running
  <2> QED BY <1>2, <2>1, <2>2, <2>3, <2>4, <2>5, MainMoves DEF Running
<1> QED BY <1>1, <1>2

LEMMA MakesRoomStep ==
    ASSUME TwoSlots, LightInv, ForkMakesRoom
    PROVE  LightInv'
<1> USE LightSSSAssumption
<1> DEFINE n == Len(pidSlot)
<1>1. n = SlotSize /\ n >= 2 /\ n \in Nat /\ pidSlot # <<>> /\ procs[Main].at = "fork"
      /\ UNCHANGED <<flag, notgood, oldest, fate, wave, interrupts>>
  BY DEF ForkMakesRoom, At, TwoSlots, LightInv, TypeOK
<1>2. /\ pidSlot' \in Seq(Pid \ {Main}) /\ Len(pidSlot') = n - 1 /\ pidSlot' # <<>>
      /\ \A i \in 1 .. n - 1 : pidSlot'[i] = pidSlot[i]
  BY <1>1, FrontIs DEF ForkMakesRoom, LightInv, TypeOK
<1>3. /\ procs' \in [Pid -> Process]
      /\ \A q \in Pid \ {pidSlot[n]} : procs'[q] = procs[q]
      /\ procs'[pidSlot[n]].at = "none" /\ pidSlot[n] \in Pid /\ pidSlot[n] # Main
  <2>1. Last(pidSlot) = pidSlot[n] /\ pidSlot[n] \in Pid \ {Main}
    <3>1. pidSlot \in Seq(Pid \ {Main}) /\ n \in 1 .. Len(pidSlot)
      BY <1>1 DEF LightInv, TypeOK
    <3>2. pidSlot[n] \in Pid \ {Main}
      BY <3>1
    <3> QED BY <3>2 DEF Last
  <2>2. Unborn \in Process /\ Unborn.at = "none"
    BY DEF Unborn, Process, Places
  <2> QED BY <2>1, <2>2 DEF ForkMakesRoom, Killed, LightInv, TypeOK, Process
<1> HIDE DEF n
<1>4. TypeOK'
  BY <1>1, <1>2, <1>3 DEF LightInv, TypeOK, Process
<1>5. MainIsMain'
  BY <1>1, <1>3 DEF LightInv, MainIsMain
<1>6. Snapshots' = Snapshots \ {pidSlot[n]}
  BY <1>3 DEF Snapshots, Alive
<1>7. Children'
  BY <1>1, <1>3, <1>6 DEF LightInv, Children, At, Snapshots
<1>8. Known'
  <2>1. \A i, j \in 1 .. n : pidSlot[i] = pidSlot[j] => i = j
    BY DEF LightInv, Known, n
  <2>2. \A i, j \in 1 .. n - 1 : pidSlot'[i] = pidSlot'[j] => i = j
    BY <1>1, <1>2, <2>1
  <2>3. \A p \in Pid : p \in Snapshots <=> \E i \in 1 .. n : pidSlot[i] = p
    BY <1>1 DEF LightInv, Known, Running, n
  <2>4. \A p \in Pid : p \in Snapshots' <=> \E i \in 1 .. n - 1 : pidSlot'[i] = p
    BY <1>1, <1>2, <1>6, <2>1, <2>3
  <2>5. procs'[Main].at = "fork"
    BY <1>1, <1>3
  <2> QED BY <1>2, <2>2, <2>4, <2>5 DEF Known, Running
<1>9. Shared'
  BY <1>1, <1>3 DEF LightInv, Shared, Waking
<1>10. Spaced'
  <2>1. Apart /\ procs[pidSlot[1]].inst % Period = 0 /\ Age = Period /\ procs'[Main] = procs[Main]
    BY <1>1, <1>3 DEF LightInv, Spaced, Running
  <2>2. \A i \in 1 .. n - 1 : procs'[pidSlot'[i]] = procs[pidSlot[i]]
    <3> SUFFICES ASSUME NEW i \in 1 .. n - 1 PROVE procs'[pidSlot'[i]] = procs[pidSlot[i]]
      OBVIOUS
    <3>1. pidSlot[i] # pidSlot[n] /\ pidSlot[i] \in Pid
      BY <1>1 DEF LightInv, Known, TypeOK, n
    <3> QED BY <1>2, <1>3, <3>1
  <2>3. procs'[pidSlot'[1]] = procs[pidSlot[1]] /\ Age' = Age
    BY <1>1, <2>1, <2>2 DEF Age
  <2>4. \A i \in 1 .. n - 1 : procs[pidSlot[i]].inst = procs[pidSlot[1]].inst - (i - 1) * Period
    BY <1>1, <2>1 DEF Apart, n
  <2>5. Apart'
    BY <1>2, <2>2, <2>3, <2>4 DEF Apart
  <2> QED BY <1>1, <1>2, <2>1, <2>3, <2>5 DEF Spaced, Running
<1>11. Chosen'
  BY <1>1, <1>3 DEF Chosen, Waking
<1> QED BY <1>4, <1>5, <1>7, <1>8, <1>9, <1>10, <1>11 DEF LightInv

LEMMA ForkStep ==
    ASSUME TwoSlots, LightInv, Fork
    PROVE  LightInv'
<1> USE LightSSSAssumption
<1> DEFINE n == Len(pidSlot)
<1>1. PICK p \in Pid :
        /\ procs[p].at = "none"
        /\ procs' = [procs EXCEPT
                ![Main].at = "difftest",
                ![p] = [procs[Main] EXCEPT !.at = "poll", !.child = TRUE]]
        /\ pidSlot' = <<p>> \o pidSlot
  BY DEF Fork, At
<1>2. n < SlotSize /\ n \in Nat /\ procs[Main].at = "fork" /\ p # Main
      /\ UNCHANGED <<flag, notgood, oldest, fate, wave, interrupts>>
  BY <1>1 DEF Fork, At, LightInv, TypeOK
<1>3. /\ pidSlot' \in Seq(Pid \ {Main}) /\ Len(pidSlot') = n + 1 /\ pidSlot' # <<>>
      /\ pidSlot'[1] = p /\ \A i \in 2 .. n + 1 : pidSlot'[i] = pidSlot[i - 1]
  BY <1>1, <1>2, PushIs DEF LightInv, TypeOK
<1>4. /\ procs' \in [Pid -> Process]
      /\ \A q \in Pid \ {p, Main} : procs'[q] = procs[q]
      /\ procs'[Main].at = "difftest" /\ procs'[Main].inst = procs[Main].inst
      /\ procs'[Main].child = procs[Main].child
      /\ procs'[p].at = "poll" /\ procs'[p].child /\ procs'[p].inst = procs[Main].inst
  <2> DEFINE main == [procs[Main] EXCEPT !.at = "difftest"]
             copy == [procs[Main] EXCEPT !.at = "poll", !.child = TRUE]
  <2>1. procs \in [Pid -> Process] /\ procs[Main] \in Process /\ Main \in Pid
    BY DEF LightInv, TypeOK, Process
  <2>2. main \in Process /\ main.at = "difftest" /\ main.inst = procs[Main].inst
        /\ main.child = procs[Main].child
    BY <2>1 DEF Process, Places
  <2>3. copy \in Process /\ copy.at = "poll" /\ copy.child /\ copy.inst = procs[Main].inst
    BY <2>1 DEF Process, Places
  <2>4. procs' = [[procs EXCEPT ![Main] = main] EXCEPT ![p] = copy]
    BY <1>1
  <2> HIDE DEF main, copy
  <2> QED BY <1>2, <2>1, <2>2, <2>3, <2>4
<1> HIDE DEF n
<1>5. TypeOK'
  BY <1>2, <1>3, <1>4 DEF LightInv, TypeOK, Process, n
<1>6. MainIsMain'
  BY <1>4 DEF LightInv, MainIsMain, Running
<1>7. Snapshots' = Snapshots \cup {p} /\ p \notin Snapshots
  BY <1>1, <1>2, <1>4 DEF Snapshots, Alive
<1>8. Children'
  BY <1>2, <1>4, <1>7 DEF LightInv, Children, At, Snapshots
<1>9. Known'
  <2>1. \A i, j \in 1 .. n : pidSlot[i] = pidSlot[j] => i = j
    BY DEF LightInv, Known, n
  <2>2. \A q \in Pid : q \in Snapshots <=> \E i \in 1 .. n : pidSlot[i] = q
    BY <1>2 DEF LightInv, Known, Running, n
  <2>3. \A i \in 2 .. n + 1 : i - 1 \in 1 .. n /\ pidSlot'[i] # p
    BY <1>2, <1>3, <1>7, <2>2
  <2>4. \A i, j \in 1 .. n + 1 : pidSlot'[i] = pidSlot'[j] => i = j
    <3> SUFFICES ASSUME NEW i \in 1 .. n + 1, NEW j \in 1 .. n + 1, pidSlot'[i] = pidSlot'[j]
                 PROVE  i = j
      OBVIOUS
    <3>1. (i = 1 \/ i \in 2 .. n + 1) /\ (j = 1 \/ j \in 2 .. n + 1)
      BY <1>2
    <3> QED BY <1>2, <1>3, <2>1, <2>3, <3>1
  <2>5. \A q \in Pid : q \in Snapshots' <=> \E i \in 1 .. n + 1 : pidSlot'[i] = q
    <3> SUFFICES ASSUME NEW q \in Pid
                 PROVE  q \in Snapshots' <=> \E i \in 1 .. n + 1 : pidSlot'[i] = q
      OBVIOUS
    <3>1. ASSUME q \in Snapshots' PROVE \E i \in 1 .. n + 1 : pidSlot'[i] = q
      <4>1. CASE q = p
        BY <1>2, <1>3, <4>1
      <4>2. CASE q # p
        <5>1. PICK i \in 1 .. n : pidSlot[i] = q
          BY <1>7, <2>2, <3>1, <4>2
        <5>2. i + 1 \in 2 .. n + 1 /\ i + 1 \in 1 .. n + 1 /\ pidSlot'[i + 1] = q
          BY <1>2, <1>3, <5>1
        <5> QED BY <5>2
      <4> QED BY <4>1, <4>2
    <3>2. ASSUME NEW i \in 1 .. n + 1, pidSlot'[i] = q PROVE q \in Snapshots'
      <4>1. CASE i = 1
        BY <1>3, <1>7, <3>2, <4>1
      <4>2. CASE i # 1
        <5>1. i \in 2 .. n + 1 /\ i - 1 \in 1 .. n
          BY <1>2, <4>2
        <5> QED BY <1>3, <1>7, <2>2, <3>2, <5>1
      <4> QED BY <4>1, <4>2
    <3> QED BY <3>1, <3>2
  <2> QED BY <1>3, <1>4, <2>4, <2>5 DEF Known, Running
<1>10. Shared'
  BY <1>2, <1>4 DEF LightInv, Shared, Waking
<1>11. Spaced'
  <2>1. procs[Main].inst \in Nat /\ Age' = 0 /\ Period \in Nat \ {0}
    BY <1>3, <1>4 DEF Age, LightInv, TypeOK
  <2>2. CASE pidSlot = <<>>
    <3>1. procs[Main].inst = 0 /\ n = 0
      BY <1>2, <2>2 DEF LightInv, Spaced, Running, n
    <3>2. Apart' /\ FromStart' /\ (procs[pidSlot[1]].inst % Period = 0)'
      BY <1>3, <1>4, <2>1, <3>1 DEF Apart, FromStart
    <3> QED BY <1>3, <1>4, <2>1, <3>2 DEF Spaced
  <2>3. CASE pidSlot # <<>>
    <3>1. n >= 1 /\ n \in Nat
      BY <2>3 DEF LightInv, TypeOK, n
    <3>2. Apart /\ procs[pidSlot[1]].inst % Period = 0 /\ Age = Period
          /\ (FromStart \/ n = SlotSize - 1)
      BY <1>2, <2>3 DEF LightInv, Spaced, Running, n
    <3>3. \A i \in 1 .. n : pidSlot[i] \in Pid \ {Main, p}
      BY <1>2, <1>7 DEF LightInv, Known, Running, TypeOK, n
    <3>4. \A i \in 1 .. n : procs'[pidSlot[i]] = procs[pidSlot[i]] /\ procs[pidSlot[i]].inst \in Nat
      BY <1>4, <3>3 DEF LightInv, TypeOK
    <3>5. procs[Main].inst = procs[pidSlot[1]].inst + Period
      BY <2>1, <3>1, <3>2, <3>4 DEF Age
    <3>6. (procs[pidSlot[1]].inst % Period = 0)'
      BY <1>3, <1>4, <2>1, <3>1, <3>2, <3>4, <3>5, Multiple
    <3>7. Apart'
      <4> SUFFICES ASSUME NEW i \in 1 .. n + 1
                   PROVE  procs'[pidSlot'[i]].inst = procs[Main].inst - (i - 1) * Period
        BY <1>3, <1>4 DEF Apart
      <4>1. CASE i = 1
        BY <1>3, <1>4, <2>1, <4>1
      <4>2. CASE i # 1
        <5>1. i \in 2 .. n + 1 /\ i - 1 \in 1 .. n
          BY <3>1, <4>2
        <5>2. procs'[pidSlot'[i]].inst = procs[pidSlot[1]].inst - ((i - 1) - 1) * Period
          BY <1>3, <3>2, <3>4, <5>1 DEF Apart, n
        <5>3. ((i - 1) - 1) * Period = (i - 1) * Period - Period
          BY <2>1, <5>1
        <5>4. (i - 1) * Period \in Int /\ procs[pidSlot[1]].inst \in Nat
          BY <2>1, <3>1, <3>4, <5>1
        <5> QED BY <2>1, <3>5, <5>2, <5>3, <5>4
      <4> QED BY <4>1, <4>2
    <3>8. n + 1 = SlotSize \/ FromStart'
      <4>1. procs'[pidSlot'[n + 1]] = procs[pidSlot[n]]
        BY <1>3, <3>1, <3>4
      <4> QED BY <1>3, <3>1, <3>2, <4>1 DEF FromStart, n
    <3> QED BY <1>3, <1>4, <2>1, <3>6, <3>7, <3>8 DEF Spaced
  <2> QED BY <2>2, <2>3
<1>12. Chosen'
  BY <1>4 DEF Chosen, Waking
<1> QED BY <1>5, <1>6, <1>8, <1>9, <1>10, <1>11, <1>12 DEF LightInv

LEMMA ForkErrorStep ==
    ASSUME LightInv, ForkError
    PROVE  LightInv'
<1> USE LightSSSAssumption
<1>1. procs[Main].at = "fork" /\ Len(pidSlot) < SlotSize /\ Len(pidSlot) \in Nat
      /\ UNCHANGED <<pidSlot, flag, notgood, oldest, fate, wave, interrupts>>
  BY DEF ForkError, At, LightInv, TypeOK
<1>2. /\ procs' \in [Pid -> Process]
      /\ \A q \in Pid \ {Main} : procs'[q] = procs[q]
      /\ procs'[Main].at = "difftest" /\ procs'[Main].npc = "ABORT"
      /\ procs'[Main].child = procs[Main].child /\ procs'[Main].inst = procs[Main].inst
  BY DEF ForkError, LightInv, TypeOK, Process, Places
<1>3. TypeOK'
  BY <1>1, <1>2 DEF LightInv, TypeOK, Process
<1>4. Spaced'
  <2>1. CASE pidSlot # <<>>
    <3>1. 1 \in 1 .. Len(pidSlot) /\ Len(pidSlot) \in 1 .. Len(pidSlot) /\ pidSlot' # <<>>
      BY <1>1, <2>1 DEF LightInv, TypeOK
    <3>2. \A i \in 1 .. Len(pidSlot) : procs'[pidSlot[i]] = procs[pidSlot[i]]
      BY <1>2 DEF LightInv, TypeOK
    <3>3. Age' = Age /\ (Apart' <=> Apart) /\ (FromStart' <=> FromStart)
          /\ procs'[pidSlot'[1]] = procs[pidSlot[1]]
      BY <1>1, <1>2, <3>1, <3>2 DEF Age, Apart, FromStart
    <3>4. Apart /\ procs[pidSlot[1]].inst % Period = 0 /\ Age = Period
          /\ (FromStart \/ Len(pidSlot) = SlotSize - 1)
      BY <1>1, <2>1 DEF LightInv, Spaced, Running
    <3> QED BY <1>1, <1>2, <3>1, <3>3, <3>4 DEF Spaced
  <2>2. CASE pidSlot = <<>>
    BY <1>1, <1>2, <2>2 DEF Spaced
  <2> QED BY <2>1, <2>2
<1>5. ~procs[Main].child /\ procs[Main].at \in Running
  BY <1>1 DEF LightInv, MainIsMain, Running
<1> QED BY <1>1, <1>2, <1>3, <1>4, <1>5, MainMoves DEF Running

LEMMA PollStep ==
    ASSUME LightInv, NEW p \in Pid, Polls(p)
    PROVE  LightInv'
<1> USE LightSSSAssumption
<1>1. procs[p].at \in {"poll", "woken", "check"}
  BY DEF Polls, SeesFlag, SeesNotgood, ChecksOldest, At
<1>2. p # Main /\ p \in Snapshots
  BY <1>1 DEF LightInv, MainIsMain, Running, Waking, Snapshots, Alive
<1>3. procs[p].child /\ (procs[p].at # "poll" => procs[Main].at = "wait")
  BY <1>2 DEF LightInv, Children, At
<1>4. CASE SeesFlag(p)
  <2>1. procs[Main].at = "wait"
    BY <1>2, <1>4 DEF SeesFlag, LightInv, Shared, Known
  <2>2. /\ UNCHANGED <<pidSlot, flag, notgood, oldest, fate, wave, interrupts>>
        /\ procs' \in [Pid -> Process] /\ procs'[p].at = "woken" /\ procs[p].at = "poll"
        /\ procs'[p].child = procs[p].child /\ procs'[p].inst = procs[p].inst
        /\ \A q \in Pid \ {p} : procs'[q] = procs[q]
    BY <1>4 DEF SeesFlag, At, Moves, LightInv, TypeOK, Process, Places
  <2>3. TypeOK'
    BY <2>2 DEF LightInv, TypeOK, Process
  <2> QED BY <1>2, <1>3, <2>1, <2>2, <2>3, ReplayMoves
<1>5. CASE SeesNotgood(p)
  <2>1. procs[Main].at = "wait"
    BY <1>3, <1>5 DEF SeesNotgood, At
  <2>2. /\ UNCHANGED <<pidSlot, flag, notgood, oldest, fate, wave, interrupts>>
        /\ procs' \in [Pid -> Process] /\ procs'[p].at \in {"check", "dead"} /\ procs[p].at = "woken"
        /\ procs'[p].child = procs[p].child /\ procs'[p].inst = procs[p].inst
        /\ \A q \in Pid \ {p} : procs'[q] = procs[q]
    <3>1. procs' = [procs EXCEPT ![p].at = IF notgood THEN "check" ELSE "dead"]
      BY <1>5 DEF SeesNotgood, Moves
    <3> QED BY <1>5, <3>1 DEF SeesNotgood, At, LightInv, TypeOK, Process, Places
  <2>3. TypeOK'
    BY <2>2 DEF LightInv, TypeOK, Process
  <2> QED BY <1>2, <1>3, <2>1, <2>2, <2>3, ReplayMoves
<1>6. CASE ChecksOldest(p)
  <2>1. procs[Main].at = "wait"
    BY <1>3, <1>6 DEF ChecksOldest, At
  <2>2. oldest = p
    BY <1>2, <2>1 DEF LightInv, Known
  <2>3. /\ UNCHANGED <<pidSlot, flag, notgood, oldest, fate, interrupts>>
        /\ procs' = [procs EXCEPT ![p].at = "difftest"]
        /\ wave' = [from |-> procs[p].inst, to |-> 0]
    BY <1>6, <2>2 DEF ChecksOldest, Moves
  <2>4. /\ procs' \in [Pid -> Process] /\ procs'[p].at = "difftest"
        /\ procs'[p].child = procs[p].child
        /\ \A q \in Pid \ {p} : procs'[q] = procs[q]
    BY <2>3 DEF LightInv, TypeOK, Process, Places
  <2>5. wave' \in [from : Nat, to : Nat]
    BY <2>3 DEF LightInv, TypeOK
  <2>6. wave' # None
    BY <2>5, NoneIsNoWave
  <2>7. TypeOK'
    BY <2>3, <2>4, <2>5 DEF LightInv, TypeOK, Process
  <2> QED BY <1>2, <1>3, <2>1, <2>3, <2>4, <2>6, <2>7, ReplayMoves
<1> QED BY <1>4, <1>5, <1>6 DEF Polls

LEMMA WakeOldestStep ==
    ASSUME TwoSlots, LightInv, WakeOldest
    PROVE  LightInv'
<1> USE LightSSSAssumption
<1>1. procs[Main].at = "wake" /\ UNCHANGED <<pidSlot, flag, notgood, fate, wave, interrupts>>
      /\ procs[Main].at \in Running /\ procs[Main].at \notin Waking
  BY DEF WakeOldest, At, Running, Waking
<1>2. \A p \in Snapshots : At(p, "poll") /\ procs[p].child
  BY <1>1 DEF LightInv, Children
<1>3. CASE pidSlot = <<>>
  <2>1. /\ procs' \in [Pid -> Process] /\ procs'[Main].at = "dead" /\ oldest' = oldest
        /\ procs'[Main].child = procs[Main].child
        /\ \A q \in Pid \ {Main} : procs'[q] = procs[q]
    <3>1. procs' = [procs EXCEPT ![Main].at = "dead"] /\ oldest' = oldest
      BY <1>3 DEF WakeOldest, Moves
    <3> QED BY <3>1 DEF LightInv, TypeOK, Process, Places
  <2>2. TypeOK'
    BY <1>1, <2>1 DEF LightInv, TypeOK, Process
  <2>3. Snapshots' = Snapshots /\ Snapshots = {}
    <3>1. Len(pidSlot) = 0
      BY <1>3
    <3>2. Snapshots = {}
      BY <1>1, <3>1 DEF LightInv, Known, Snapshots
    <3> QED BY <2>1, <3>2 DEF Snapshots, Alive
  <2>4. MainIsMain' /\ Children' /\ Shared' /\ Spaced' /\ Chosen'
    BY <1>1, <2>1, <2>3 DEF LightInv, MainIsMain, Children, Shared, Spaced, Chosen, Running, Waking
  <2>5. Known'
    BY <1>1, <2>1, <2>3 DEF LightInv, Known, Running
  <2> QED BY <2>2, <2>4, <2>5 DEF LightInv
<1>4. CASE pidSlot # <<>>
  <2> DEFINE n == Len(pidSlot)
  <2>1. n \in Nat /\ n >= 1 /\ n <= SlotSize /\ pidSlot[n] \in Pid \ {Main} /\ Last(pidSlot) = pidSlot[n]
        /\ pidSlot[1] \in Pid \ {Main}
    BY <1>4 DEF LightInv, TypeOK, Last
  <2>2. /\ procs' \in [Pid -> Process] /\ procs'[Main].at = "wakeKill" /\ oldest' = pidSlot[n]
        /\ procs'[Main].child = procs[Main].child /\ procs'[Main].inst = procs[Main].inst
        /\ \A q \in Pid \ {Main} : procs'[q] = procs[q]
    <3>1. procs' = [procs EXCEPT ![Main].at = "wakeKill"] /\ oldest' = pidSlot[n]
      BY <1>4, <2>1 DEF WakeOldest, Moves
    <3> QED BY <3>1 DEF LightInv, TypeOK, Process, Places
  <2>3. TypeOK'
    BY <1>1, <2>1, <2>2 DEF LightInv, TypeOK, Process
  <2>4. Snapshots' = Snapshots /\ Snapshots \subseteq ToSet(pidSlot)
    <3>1. Snapshots' = Snapshots
      BY <2>2 DEF Snapshots, Alive
    <3>2. Snapshots \subseteq ToSet(pidSlot)
      <4>1. pidSlot \in Seq(Pid \ {Main})
        BY DEF LightInv, TypeOK
      <4> QED BY <1>1, <4>1, MembersAre DEF LightInv, Known, Snapshots
    <3> QED BY <3>1, <3>2
  <2>5. InWindow(oldest)'
    <3> DEFINE age == procs[Main].inst - procs[pidSlot[1]].inst
    <3>1. procs[pidSlot[n]].inst = procs[pidSlot[1]].inst - (n - 1) * Period
      <4>1. n \in 1 .. Len(pidSlot)
        BY <2>1
      <4>2. Apart
        BY <1>1, <1>4 DEF LightInv, Spaced
      <4> QED BY <4>1, <4>2 DEF Apart
    <3>2. \/ age \in 0 .. Period - 1 /\ (n = SlotSize \/ procs[pidSlot[n]].inst = 0)
          \/ age = Period /\ n < SlotSize
      BY <1>1, <1>4 DEF LightInv, Spaced, Age, FromStart
    <3>3. Period \in Nat \ {0} /\ SlotSize \in Nat /\ SlotSize >= 2 /\ age \in Nat
          /\ procs[Main].inst \in Nat /\ procs[pidSlot[1]].inst \in Nat
      BY <2>1, <3>2 DEF TwoSlots, LightInv, TypeOK
    <3>4. procs[Main].inst - procs[pidSlot[n]].inst = age + (n - 1) * Period
      <4>1. (n - 1) * Period \in Int
        BY <2>1, <3>3
      <4> QED BY <3>1, <3>3, <4>1
    <3>5. procs'[oldest'].inst = procs[pidSlot[n]].inst /\ procs'[Main].inst = procs[Main].inst
      BY <2>1, <2>2
    <3> DEFINE old == age + (n - 1) * Period
    <3>6. /\ procs[pidSlot[n]].inst = 0 \/ old >= Period
          /\ old < SlotSize * Period
      <4> HIDE DEF age, n
      <4> QED BY <2>1, <3>2, <3>3, Window
    <3> HIDE DEF age, n
    <3> QED BY <3>4, <3>5, <3>6 DEF InWindow
  <2>6. MainIsMain' /\ Children' /\ Spaced' /\ Chosen'
    BY <1>1, <1>2, <2>2, <2>4, <2>5 DEF LightInv, MainIsMain, Children, At, Spaced, Chosen, Running, Waking, Snapshots
  <2>7. Known' /\ Shared'
    <3>1. Last(pidSlot') = oldest'
      BY <1>1, <2>1, <2>2
    <3> QED BY <1>1, <1>4, <2>2, <2>4, <3>1 DEF LightInv, Known, Shared, Running, Waking
  <2> QED BY <2>3, <2>6, <2>7 DEF LightInv
<1> QED BY <1>3, <1>4

\* The flag is set last, when wakeup_child waits.
FlagLast ==
    /\ flag => notgood /\ procs[Main].at = "wait"
    /\ procs[Main].at = "wait" => flag /\ notgood

\* wakeup_child goes on, after it named the oldest.
LEMMA WakeMoves ==
    ASSUME LightInv, TypeOK', procs[Main].at \in {"wakeKill", "wakeNotgood", "wakeFlag"},
           procs'[Main].at \in {"wakeKill", "wakeNotgood", "wakeFlag", "wait"},
           procs'[Main].inst = procs[Main].inst, procs'[Main].child = procs[Main].child,
           \A q \in Pid \ {Main} :
              procs'[q] = procs[q] \/ (q # oldest /\ procs'[q].at = "none"),
           procs'[Main].at = "wakeKill" => procs[Main].at = "wakeKill",
           procs'[Main].at # "wakeKill" => Snapshots \subseteq {oldest},
           UNCHANGED <<pidSlot, oldest, wave>>, FlagLast'
    PROVE  LightInv'
<1> USE LightSSSAssumption DEF FlagLast
<1>1. Snapshots' \subseteq Snapshots /\ \A q \in Snapshots' : procs'[q] = procs[q]
  BY DEF Snapshots, Alive
<1>2. \A p \in Snapshots : At(p, "poll") /\ procs[p].child
  BY DEF LightInv, Children
<1>3. MainIsMain'
  BY DEF LightInv, MainIsMain, Waking
<1>4. Children'
  BY <1>1, <1>2 DEF Children, At, Snapshots
<1>5. Known'
  BY <1>1 DEF LightInv, Known, Running
<1>6. Shared'
  BY DEF LightInv, Shared, Waking
<1>7. Spaced'
  BY DEF Spaced, Running
<1>8. Chosen'
  <2>1. oldest \in Pid \ {Main}
    BY DEF LightInv, Shared, Waking, TypeOK, Last
  <2> QED BY <2>1 DEF LightInv, Chosen, InWindow, Waking
<1> QED BY <1>3, <1>4, <1>5, <1>6, <1>7, <1>8 DEF LightInv

LEMMA WakeKillsOtherStep ==
    ASSUME LightInv, WakeKillsOther
    PROVE  LightInv'
<1> USE LightSSSAssumption
<1>1. PICK p \in Others : procs' = Killed({p})
  BY DEF WakeKillsOther
<1>2. procs[Main].at = "wakeKill" /\ UNCHANGED <<pidSlot, flag, notgood, oldest, fate, wave, interrupts>>
  BY DEF WakeKillsOther, At
<1>3. p \in Pid \ {Main} /\ p # oldest
  BY DEF Others, ToSet, LightInv, TypeOK
<1>4. /\ procs' \in [Pid -> Process] /\ procs'[p].at = "none"
      /\ \A q \in Pid \ {p} : procs'[q] = procs[q]
  <2>1. Unborn \in Process /\ Unborn.at = "none"
    BY DEF Unborn, Process, Places
  <2> QED BY <1>1, <1>3, <2>1 DEF Killed, LightInv, TypeOK, Process
<1>5. TypeOK'
  BY <1>2, <1>4 DEF LightInv, TypeOK, Process
<1>6. ~flag'
  BY <1>2 DEF LightInv, Shared
<1>7. procs'[Main] = procs[Main] /\ UNCHANGED <<pidSlot, oldest, wave>>
  BY <1>2, <1>3, <1>4
<1>8. \A q \in Pid \ {Main} :
        procs'[q] = procs[q] \/ (q # oldest /\ procs'[q].at = "none")
  BY <1>3, <1>4
<1>9. procs'[Main].at = "wakeKill"
  BY <1>2, <1>7
<1>10. FlagLast'
  BY <1>6, <1>9 DEF FlagLast
<1> QED BY <1>2, <1>5, <1>7, <1>8, <1>9, <1>10, WakeMoves

\* Main alone moves, from place to place of wakeup_child.
LEMMA WakeWalks ==
    ASSUME LightInv, NEW place \in {"wakeNotgood", "wakeFlag", "wait"},
           procs[Main].at \in {"wakeKill", "wakeNotgood", "wakeFlag"},
           Snapshots \subseteq {oldest}, Moves(Main, place),
           flag' \in BOOLEAN, notgood' \in BOOLEAN,
           UNCHANGED <<pidSlot, oldest, fate, wave, interrupts>>,
           flag' => notgood' /\ place = "wait",
           place = "wait" => flag' /\ notgood'
    PROVE  LightInv'
<1> USE LightSSSAssumption
<1>1. /\ procs' \in [Pid -> Process] /\ procs'[Main].at = place
      /\ procs'[Main].child = procs[Main].child /\ procs'[Main].inst = procs[Main].inst
      /\ \A q \in Pid \ {Main} : procs'[q] = procs[q]
  BY DEF Moves, LightInv, TypeOK, Process, Places
<1>2. TypeOK'
  BY <1>1 DEF LightInv, TypeOK, Process
<1>3. FlagLast'
  BY <1>1 DEF FlagLast
<1>4. \A q \in Pid \ {Main} :
        procs'[q] = procs[q] \/ (q # oldest /\ procs'[q].at = "none")
  BY <1>1
<1>5. procs'[Main].at \in {"wakeKill", "wakeNotgood", "wakeFlag", "wait"}
      /\ (procs'[Main].at = "wakeKill" => procs[Main].at = "wakeKill")
  BY <1>1
<1>6. UNCHANGED <<pidSlot, oldest, wave>>
  OBVIOUS
<1> QED BY <1>1, <1>2, <1>3, <1>4, <1>5, <1>6, WakeMoves

LEMMA WakeKilledAllStep ==
    ASSUME LightInv, WakeKilledAll
    PROVE  LightInv'
<1>1. procs[Main].at = "wakeKill" /\ Others = {} /\ Moves(Main, "wakeNotgood")
      /\ UNCHANGED <<pidSlot, flag, notgood, oldest, fate, wave, interrupts>>
  BY DEF WakeKilledAll, At
<1>2. Snapshots \subseteq {oldest}
  BY <1>1 DEF LightInv, Known, Others, Snapshots
<1>3. ~flag' /\ flag' \in BOOLEAN /\ notgood' \in BOOLEAN
  BY <1>1 DEF LightInv, Shared, TypeOK
<1> QED BY <1>1, <1>2, <1>3, WakeWalks

LEMMA WakeNotgoodStep ==
    ASSUME LightInv, WakeNotgood
    PROVE  LightInv'
<1>1. procs[Main].at = "wakeNotgood" /\ Moves(Main, "wakeFlag")
      /\ UNCHANGED <<pidSlot, flag, oldest, fate, wave, interrupts>>
  BY DEF WakeNotgood, At
<1>2. Snapshots \subseteq {oldest}
  BY <1>1 DEF LightInv, Known
<1>3. ~flag' /\ flag' \in BOOLEAN /\ notgood' \in BOOLEAN
  <2>1. ~flag' /\ flag' \in BOOLEAN
    BY <1>1 DEF LightInv, Shared, TypeOK
  <2> QED BY <2>1, Zenon DEF WakeNotgood
<1> QED BY <1>1, <1>2, <1>3, WakeWalks

LEMMA WakeFlagStep ==
    ASSUME LightInv, WakeFlag
    PROVE  LightInv'
<1>1. procs[Main].at = "wakeFlag" /\ Moves(Main, "wait")
      /\ UNCHANGED <<pidSlot, oldest, fate, wave, interrupts>>
  BY DEF WakeFlag, At
<1>2. Snapshots \subseteq {oldest}
  BY <1>1 DEF LightInv, Known
<1>3. flag' /\ notgood' /\ flag' \in BOOLEAN /\ notgood' \in BOOLEAN
  BY Zenon DEF WakeFlag
<1> QED BY <1>1, <1>2, <1>3, WakeWalks

\* Main ends, and nobody is left.
LEMMA MainEnds ==
    ASSUME LightInv, Moves(Main, "dead"), Snapshots = {},
           UNCHANGED <<pidSlot, flag, notgood, oldest, fate, wave, interrupts>>
    PROVE  LightInv'
<1> USE LightSSSAssumption
<1>1. /\ procs' \in [Pid -> Process] /\ procs'[Main].at = "dead"
      /\ procs'[Main].child = procs[Main].child
      /\ \A q \in Pid \ {Main} : procs'[q] = procs[q]
  BY DEF Moves, LightInv, TypeOK, Process, Places
<1>2. TypeOK'
  BY <1>1 DEF LightInv, TypeOK, Process
<1>3. Snapshots' = {}
  BY <1>1 DEF Snapshots, Alive
<1>4. MainIsMain' /\ Children' /\ Shared' /\ Spaced' /\ Chosen'
  BY <1>1, <1>3 DEF LightInv, MainIsMain, Children, Shared, Spaced, Chosen, Running, Waking
<1>5. Known'
  BY <1>1, <1>3 DEF LightInv, Known, Running
<1> QED BY <1>2, <1>4, <1>5 DEF LightInv

LEMMA WaitEndsStep ==
    ASSUME LightInv, WaitEnds
    PROVE  LightInv'
<1>1. procs[Main].at = "wait" /\ procs[Last(pidSlot)].at = "dead" /\ Moves(Main, "dead")
      /\ UNCHANGED <<pidSlot, flag, notgood, oldest, fate, wave, interrupts>>
  BY DEF WaitEnds, At
<1>2. Snapshots \subseteq {oldest} /\ procs[oldest].at = "dead"
  BY <1>1 DEF LightInv, Known, Shared, Waking
<1>3. Snapshots = {}
  BY <1>2 DEF Snapshots, Alive
<1> QED BY <1>1, <1>3, MainEnds

LEMMA ClearStepStep ==
    ASSUME LightInv, ClearStep
    PROVE  LightInv'
<1> USE LightSSSAssumption
<1>1. procs[Main].at = "clear" /\ UNCHANGED <<flag, notgood, oldest, fate, wave, interrupts>>
  BY DEF ClearStep, At
<1>2. CASE pidSlot = <<>>
  <2>1. Moves(Main, "dead") /\ UNCHANGED pidSlot /\ Len(pidSlot) = 0
    BY <1>2 DEF ClearStep
  <2>2. Snapshots = {}
    BY <1>1, <2>1 DEF LightInv, Known, Snapshots
  <2> QED BY <1>1, <2>1, <2>2, MainEnds
<1>3. CASE pidSlot # <<>>
  <2> DEFINE n == Len(pidSlot)
  <2>1. n >= 1 /\ n \in Nat /\ n <= SlotSize /\ pidSlot \in Seq(Pid \ {Main})
    BY <1>3 DEF LightInv, TypeOK
  <2>2. /\ pidSlot' \in Seq(Pid \ {Main}) /\ Len(pidSlot') = n - 1
        /\ \A i \in 1 .. n - 1 : pidSlot'[i] = pidSlot[i]
    BY <1>3, <2>1, FrontIs DEF ClearStep
  <2>3. /\ procs' \in [Pid -> Process]
        /\ \A q \in Pid \ {pidSlot[n]} : procs'[q] = procs[q]
        /\ procs'[pidSlot[n]].at = "none" /\ pidSlot[n] \in Pid /\ pidSlot[n] # Main
    <3>1. Last(pidSlot) = pidSlot[n] /\ pidSlot[n] \in Pid \ {Main}
      <4>1. n \in 1 .. Len(pidSlot)
        BY <2>1
      <4>2. pidSlot[n] \in Pid \ {Main}
        BY <2>1, <4>1
      <4> QED BY <4>2 DEF Last
    <3>2. Unborn \in Process /\ Unborn.at = "none"
      BY DEF Unborn, Process, Places
    <3> QED BY <1>3, <3>1, <3>2 DEF ClearStep, Killed, LightInv, TypeOK, Process
  <2> HIDE DEF n
  <2>4. TypeOK'
    BY <1>1, <2>1, <2>2, <2>3 DEF LightInv, TypeOK, Process
  <2>5. Snapshots' = Snapshots \ {pidSlot[n]} /\ procs'[Main] = procs[Main]
    BY <2>3 DEF Snapshots, Alive
  <2>6. MainIsMain' /\ Children' /\ Shared' /\ Spaced' /\ Chosen'
    BY <1>1, <2>3, <2>5
       DEF LightInv, MainIsMain, Children, At, Shared, Spaced, Chosen, Running, Waking, Snapshots
  <2>7. Known'
    <3>1. \A i, j \in 1 .. n : pidSlot[i] = pidSlot[j] => i = j
      BY DEF LightInv, Known, n
    <3>2. \A i, j \in 1 .. n - 1 : pidSlot'[i] = pidSlot'[j] => i = j
      BY <2>1, <2>2, <3>1
    <3>3. \A p \in Pid : p \in Snapshots <=> \E i \in 1 .. n : pidSlot[i] = p
      BY <1>1 DEF LightInv, Known, n
    <3>4. \A p \in Pid : p \in Snapshots' <=> \E i \in 1 .. n - 1 : pidSlot'[i] = p
      BY <2>1, <2>2, <2>5, <3>1, <3>3
    <3> QED BY <1>1, <2>2, <2>5, <3>2, <3>4 DEF Known
  <2> QED BY <2>4, <2>6, <2>7 DEF LightInv
<1> QED BY <1>2, <1>3

LEMMA InterruptStep ==
    ASSUME LightInv, Interrupt
    PROVE  LightInv'
<1> USE LightSSSAssumption
<1>1. /\ UNCHANGED <<pidSlot, flag, notgood, oldest, fate, wave>>
      /\ interrupts' \in 0 .. MaxInterrupts
  BY DEF Interrupt, LightInv, TypeOK
<1>2. PICK ends \in [Pid -> {"END_GOOD", "END_BAD"}] :
        procs' = [p \in Pid |-> IF Alive(p) THEN [procs[p] EXCEPT !.npc = ends[p]] ELSE procs[p]]
  BY DEF Interrupt
<1>3. procs' \in [Pid -> Process]
  <2>1. procs \in [Pid -> Process]
    BY DEF LightInv, TypeOK, Process
  <2>2. \A p \in Pid : [procs[p] EXCEPT !.npc = ends[p]] \in Process
    BY <2>1 DEF Process
  <2> QED BY <1>2, <2>1, <2>2
<1>4. \A p \in Pid : procs'[p].at = procs[p].at /\ procs'[p].inst = procs[p].inst
                     /\ procs'[p].child = procs[p].child
  BY <1>2 DEF LightInv, TypeOK
<1>5. procs[Main].at = "difftest" => procs'[Main].npc # "RUNNING"
  <2>1. procs[Main].at = "difftest" => procs'[Main].npc = ends[Main]
    BY <1>2 DEF Alive, LightInv, TypeOK
  <2> QED BY <2>1
<1>6. TypeOK'
  BY <1>1, <1>3 DEF LightInv, TypeOK, Process
<1>7. Snapshots' = Snapshots
  BY <1>4 DEF Snapshots, Alive
<1>8. \A i \in 1 .. Len(pidSlot) : procs'[pidSlot[i]].inst = procs[pidSlot[i]].inst
  BY <1>4 DEF LightInv, TypeOK
<1>9. MainIsMain' /\ Children' /\ Known' /\ Shared'
  <2>1. MainIsMain' /\ Shared'
    BY <1>1, <1>4 DEF LightInv, MainIsMain, Shared
  <2>2. Children'
    BY <1>1, <1>4, <1>7 DEF LightInv, Children, At, Snapshots
  <2>3. Known'
    BY <1>1, <1>4, <1>7 DEF LightInv, Known
  <2> QED BY <2>1, <2>2, <2>3
<1>10. Spaced'
  <2>1. CASE pidSlot # <<>>
    <3>1. 1 \in 1 .. Len(pidSlot) /\ Len(pidSlot) \in 1 .. Len(pidSlot)
      BY <2>1 DEF LightInv, TypeOK
    <3>2. Age' = Age /\ (Apart' <=> Apart) /\ (FromStart' <=> FromStart)
      BY <1>1, <1>4, <1>8, <3>1 DEF Age, Apart, FromStart
    <3>3. procs'[pidSlot[1]].inst = procs[pidSlot[1]].inst
      BY <1>8, <3>1
    <3>4. procs'[Main].at = procs[Main].at /\ pidSlot' = pidSlot
      BY <1>1, <1>4
    <3> QED BY <1>5, <2>1, <3>2, <3>3, <3>4 DEF LightInv, Spaced, Running
  <2>2. CASE pidSlot = <<>>
    BY <1>1, <1>4, <1>5, <2>2 DEF LightInv, Spaced
  <2> QED BY <2>1, <2>2
<1>11. Chosen'
  <2>1. procs[Main].at \in Waking => oldest \in Pid
    BY DEF LightInv, Shared, TypeOK, Last
  <2> QED BY <1>1, <1>4, <2>1 DEF LightInv, Chosen, InWindow
<1> QED BY <1>6, <1>9, <1>10, <1>11 DEF LightInv

LEMMA StutterStep ==
    ASSUME LightInv, UNCHANGED vars
    PROVE  LightInv'
<1>1. TypeOK' /\ Snapshots' = Snapshots
  BY DEF LightInv, TypeOK, Snapshots, Alive, vars
<1> QED BY <1>1 DEF LightInv, MainIsMain, Children, Known, Shared, Spaced, Chosen, InWindow,
                    Age, FromStart, Apart, At, vars

-----------------------------------------------------------------------------
\* Theorems.

\* What the processes, the deque and the shared segment are in every state of the
\* simulator: the snapshots are distinct, a Period apart, and exactly what pidSlot names.
THEOREM LightInvariant ==
    ASSUME TwoSlots PROVE Spec => []LightInv
<1>1. Init => LightInv
  BY InitLight
<1>2. LightInv /\ [Next]_vars => LightInv'
  <2> SUFFICES ASSUME LightInv, [Next]_vars PROVE LightInv'
    OBVIOUS
  <2>1. CASE Manages
    BY <2>1, MakesRoomStep, ForkStep, ForkErrorStep, WakeOldestStep, WakeKillsOtherStep,
       WakeKilledAllStep, WakeNotgoodStep, WakeFlagStep, WaitEndsStep, ClearStepStep DEF Manages
  <2>2. CASE Interrupt
    BY <2>2, InterruptStep
  <2>3. CASE \E p \in Pid : Simulates(p) \/ Polls(p)
    BY <2>3, ExecOnceStep, DifftestStep, SimExitStep, PollStep DEF Simulates
  <2>4. CASE UNCHANGED vars
    BY <2>4, StutterStep
  <2> QED BY <2>1, <2>2, <2>3, <2>4 DEF Next
<1> QED BY <1>1, <1>2, PTL DEF Spec

\* Every process is somewhere in the loop, do_fork or wakeup_child, and pidSlot
\* never holds more than SLOT_SIZE snapshots.
THEOREM SnapshotTypeCorrect ==
    ASSUME TwoSlots PROVE Spec => []TypeOK
<1>1. LightInv => TypeOK
  BY DEF LightInv
<1> QED BY <1>1, LightInvariant, PTL

\* do_fork and do_clear lose no snapshot: as long as the simulation goes on, pidSlot
\* is exactly the processes that sleep in shwait, newest first.
THEOREM SlotsCorrect ==
    ASSUME TwoSlots PROVE Spec => []SlotsAreSnapshots
<1>1. LightInv => SlotsAreSnapshots
  <2> SUFFICES ASSUME LightInv, procs[Main].at \in Running
               PROVE  /\ ToSet(pidSlot) = Snapshots
                      /\ \A p \in Snapshots : At(p, "poll")
                      /\ \A i, j \in DOMAIN pidSlot :
                            i < j => procs[pidSlot[i]].inst > procs[pidSlot[j]].inst
    BY DEF SlotsAreSnapshots, Running
  <2>1. pidSlot \in Seq(Pid \ {Main}) /\ DOMAIN pidSlot = 1 .. Len(pidSlot)
    BY DEF LightInv, TypeOK
  <2>2. ToSet(pidSlot) = Snapshots
    <3>1. \A p \in ToSet(pidSlot) : p \in Pid
      BY <2>1, MembersAre
    <3>2. \A p \in Pid : p \in Snapshots <=> \E i \in 1 .. Len(pidSlot) : pidSlot[i] = p
      BY DEF LightInv, Known
    <3>3. \A p \in Snapshots : p \in Pid
      BY DEF Snapshots
    <3> QED BY <2>1, <3>1, <3>2, <3>3, MembersAre
  <2>3. \A p \in Snapshots : At(p, "poll")
    BY DEF LightInv, Children, Running
  <2>4. ASSUME NEW i \in 1 .. Len(pidSlot), NEW j \in 1 .. Len(pidSlot), i < j
        PROVE  procs[pidSlot[i]].inst > procs[pidSlot[j]].inst
    <3>1. pidSlot # <<>> /\ 1 \in 1 .. Len(pidSlot) /\ i \in Int /\ j \in Int
      BY <2>1, <2>4
    <3>2. Apart
      BY <3>1 DEF LightInv, Spaced
    <3> DEFINE h == procs[pidSlot[1]].inst
    <3>3. h \in Nat /\ Period \in Nat \ {0}
      BY <2>1, <3>1, LightSSSAssumption DEF LightInv, TypeOK
    <3>4. procs[pidSlot[i]].inst = h - (i - 1) * Period /\ procs[pidSlot[j]].inst = h - (j - 1) * Period
      BY <3>2 DEF Apart
    <3> HIDE DEF h
    <3>5. (j - i) * Period > 0
      <4>1. j - i \in Nat \ {0}
        BY <2>4, <3>1
      <4> QED BY <3>3, <4>1
    <3>6. (j - i) * Period = (j - 1) * Period - (i - 1) * Period
          /\ (j - 1) * Period \in Int /\ (i - 1) * Period \in Int
      BY <3>1, <3>3
    <3> QED BY <3>3, <3>4, <3>5, <3>6
  <2> QED BY <2>1, <2>2, <2>3, <2>4
<1> QED BY <1>1, LightInvariant, PTL

\* Of the snapshots one at most is awake, it is the one wakeup_child named before it
\* set the flag, and it starts a Period before the failure, or at the start.
THEOREM ReplayCorrect ==
    ASSUME TwoSlots PROVE Spec => []ReplayIsOldest
<1>1. LightInv => ReplayIsOldest
  <2> SUFFICES ASSUME LightInv, NEW p \in Snapshots, procs[p].at \in {"woken", "check"}
               PROVE  Snapshots = {p} /\ p = oldest /\ notgood /\ InWindow(p)
    BY DEF ReplayIsOldest, InWindow
  <2>1. procs[Main].at = "wait"
    BY DEF LightInv, Children, At
  <2>2. Snapshots \subseteq {oldest}
    BY <2>1 DEF LightInv, Known
  <2>3. Snapshots = {p} /\ p = oldest
    BY <2>2
  <2>4. notgood
    BY <2>1 DEF LightInv, Shared
  <2>5. InWindow(p)
    BY <2>1, <2>3 DEF LightInv, Chosen, Waking
  <2> QED BY <2>3, <2>4, <2>5
<1> QED BY <1>1, LightInvariant, PTL
=============================================================================
