---------------------------- MODULE MCPatchDispatch ----------------------------
(* PatchDispatch for TLC: masters with their clusters and targets.          *)
EXTENDS PatchDispatchInv

Targets == [dom0_1 |-> "dom0", domu_1 |-> "domu", cell_1 |-> "cell", cell_2 |-> "cell",
            switch_1 |-> "ibswitch", switch_2 |-> "ibswitch", switch_3 |-> "ibswitch"]
MCTargetOf == [m \in Master |-> Targets[m]]
MCClusterOf ==
    [m \in Master |-> CASE m \in {"dom0_1", "domu_1", "cell_1", "switch_1"} -> "c1"
                        [] m \in {"cell_2", "switch_2"} -> "c2"
                        [] OTHER -> "c3"]

\* dom0 and domu of one cluster may be patched at the same time, the second
\* without a lock.
NoPairs == {}
GuestPairs == {<<"dom0_1", "domu_1">>, <<"domu_1", "dom0_1">>}
=============================================================================
