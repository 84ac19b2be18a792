-------------------------------- MODULE MCMmu -------------------------------
EXTENDS Mmu

\* Two 4K pages under one last-level table.
MCVpn2 == {0}
MCVpn1 == {0}
MCVpn0 == {0, 1}
MCVpn0One == {0}
MCTable == [a \in Asid |-> [s \in PteSlot |-> IF s \in Page THEN (IF s[3]=0 THEN "A" ELSE "rejected") ELSE "pointer"]]
MCPatch == {<<1, <<0, 0, 0>>, "B">>}
MCSatp == {[on |-> TRUE, asid |-> 1]}

\* Fetch side alone.
MCNoRequest == {}

\* Two 2M regions, each a leaf or a pointer to a table with two 4K pages.
MCVpn1Two == {0, 1}
MCTableSp == [a \in Asid |-> [s \in PteSlot |->
                IF s = <<0>> THEN "pointer"
                ELSE IF s = <<0, 0>> THEN "A"
                ELSE IF s = <<0, 1>> THEN "C"
                ELSE "rejected"]]
MCPatchSp == {<<1, <<0, 0>>, "B">>}
MCRequestSp == {<<0, 0, 1>>, <<0, 1, 0>>}

\* One 4K page and one 2M page, translation on, off by privilege, or bare.
MCTableMix == [a \in Asid |-> [s \in PteSlot |->
                IF s \in {<<0>>, <<0, 0>>} THEN "pointer"
                ELSE IF s \in {<<0, 1>>, <<0, 0, 0>>} THEN "A" ELSE "rejected"]]
\* The data side asks for the 4K page only.
MCRequestAll == Page \cup {NonCanonical}
MCRequestOne == {<<0, 0, 0>>}
\* The fetch side asks for the 2M page or a non-canonical address.
MCIRequestProt == {<<0, 1, 0>>, NonCanonical}
MCSatpBare == MCSatp \cup {[on |-> FALSE, asid |-> 1]}

\* Two address spaces that map one page differently.
MCTableAsid == [a \in Asid |-> [s \in PteSlot |->
                IF s \in Page THEN (IF a = 1 THEN "A" ELSE "B") ELSE "pointer"]]
MCSatpTwo == {[on |-> TRUE, asid |-> a] : a \in Asid}
=============================================================================
