------------------------------- MODULE MCFetch ------------------------------
EXTENDS FetchPath

\* Four lines: 0 and 2 can be fetched and share a set of one way, 1 is an error of
\* the bus, 3 has no translation.  Instructions of both lengths start at every
\* half-word of a double word; 3 crosses double words, 7 and 23 run into a line
\* that faults.  A jump to 3 starts in the last half-word of a double word.
MCWide == {1, 3, 7, 18, 20, 23}
MCTarget == {3, 18}

\* core_top, and both tops, USE_ICACHE defined for the one that has the cache.
MCBus == {[icache |-> FALSE, macro |-> FALSE]}
MCBoth == MCBus \cup {[icache |-> TRUE, macro |-> TRUE]}
=============================================================================
