----------------------------- MODULE WatchPool ------------------------------
(***************************************************************************)
(* The watchpoints of the simulator's debugger (sdb/watchpoint.c): NR_WP   *)
(* nodes in two doubly linked lists, the free ones and the ones in use.    *)
(* A pool is [head, free, next, prev]; NULL stands for the null pointer.   *)
(***************************************************************************)
EXTENDS Integers, FiniteSetsExt

CONSTANTS NR_WP, NULL

ASSUME WatchPoolAssumption == NR_WP \in Nat \ {0} /\ NULL \notin Int

Wp == 0 .. NR_WP - 1
Link == Wp \cup {NULL}
Pools == [head : Link, free : Link, next : [Wp -> Link], prev : [Wp -> Link]]

init_wp_pool ==
    [head |-> NULL, free |-> 0,
     next |-> [w \in Wp |-> IF w = NR_WP - 1 THEN NULL ELSE w + 1],
     prev |-> [w \in Wp |-> IF w = 0 THEN NULL ELSE w - 1]]

\* What a loop that starts at a node and follows next visits.
ChainFrom(pool, from) ==
    LET within[k \in 0 .. NR_WP] ==
          IF k = 0 THEN {from} \ {NULL}
          ELSE within[k - 1] \cup ({pool.next[w] : w \in within[k - 1]} \ {NULL})
    IN within[NR_WP]

InUse(pool) == ChainFrom(pool, pool.head)
Free(pool) == ChainFrom(pool, pool.free)

\* links[w] := to, where w may be the null pointer the code tests for.
Pointed(links, w, to) == IF w = NULL THEN links ELSE [links EXCEPT ![w] = to]

\* Taking a node out of the free list, new_wp 45-69.
Unlinked(pool, w) ==
    [pool EXCEPT
        !.free = IF pool.prev[w] = NULL THEN pool.next[w] ELSE @,
        !.next = Pointed([@ EXCEPT ![w] = NULL], pool.prev[w], pool.next[w]),
        !.prev = Pointed([@ EXCEPT ![w] = NULL], pool.next[w], pool.prev[w])]

\* Where the walk of new_wp stops: the first node in use with a larger number.
FirstLarger(pool, w) ==
    {s \in InUse(pool) :
        s > w /\ \A v \in InUse(pool) : v # s /\ s \in ChainFrom(pool, v) => v < w}

\* Putting a node into the list in use, new_wp 71-95.  head is set for an empty
\* list only.
Inserted(pool, w) ==
    IF pool.head = NULL THEN [pool EXCEPT !.head = w]
    ELSE IF FirstLarger(pool, w) = {}
    THEN LET tail == CHOOSE v \in InUse(pool) : pool.next[v] = NULL
         IN [pool EXCEPT !.next[tail] = w, !.prev[w] = tail]
    ELSE LET s == CHOOSE v \in FirstLarger(pool, w) : TRUE
         IN [pool EXCEPT !.next = Pointed([@ EXCEPT ![w] = s], pool.prev[s], w),
                         !.prev = [@ EXCEPT ![w] = pool.prev[s], ![s] = w]]

\* The node is the free one with the smallest number.
TakenWp(pool) == Min(Free(pool))
new_wp(pool) == Inserted(Unlinked(pool, TakenWp(pool)), TakenWp(pool))

\* Mutant of free_wp: the node behind keeps the freed one as its predecessor.
free_wp_keeps_prev(pool, w) ==
    LET next == Pointed(pool.next, pool.prev[w], pool.next[w])
    IN [head |-> IF pool.head = w THEN pool.next[w] ELSE pool.head,
        free |-> w,
        next |-> [next EXCEPT ![w] = pool.free],
        prev |-> Pointed([pool.prev EXCEPT ![w] = NULL], pool.free, w)]

\* free_wp of a node in use: to the front of the free list.
free_wp(pool, w) ==
    LET next == Pointed(pool.next, pool.prev[w], pool.next[w])
        prev == Pointed(pool.prev, pool.next[w], pool.prev[w])
    IN [head |-> IF pool.head = w THEN pool.next[w] ELSE pool.head,
        free |-> w,
        next |-> [next EXCEPT ![w] = pool.free],
        prev |-> Pointed([prev EXCEPT ![w] = NULL], pool.free, w)]

\* The lists are those the code means them to be: next and prev undo each other,
\* no node is both free and in use, the one in use is sorted, and a node in
\* neither, which check_watchpoint does not reach, was put before head.
PoolWellFormed(pool) ==
    /\ \A v, w \in Wp : pool.next[v] = w <=> pool.prev[w] = v
    /\ InUse(pool) \cap Free(pool) = {}
    /\ pool.free = NULL \/ pool.prev[pool.free] = NULL
    /\ \A v \in InUse(pool) : pool.next[v] \in Wp => v < pool.next[v]
    /\ \A w \in Wp \ (InUse(pool) \cup Free(pool)) : \A v \in InUse(pool) : w < v
=============================================================================
