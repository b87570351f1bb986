--------------------------- MODULE MCClusterRegistry ---------------------------
(* ClusterRegistry for TLC.                                                 *)
EXTENDS ClusterRegistryInv, TLC

\* Options of some commands, as their tags in the program arguments.
MCTags == [plain |-> {},
           white |-> {"white_list"},
           ping  |-> {"ping"},
           other |-> {"unknown", "keys_cmd"},
           load  |-> {"concurrent_operation"},
           one   |-> {"concurrent_cmds_set1", "concurrent_cmds_set1_db"},
           two   |-> {"concurrent_cmds_set2", "concurrent_cmds_set2_db"}]

SameKey == {<<k, k>> : k \in Key}
AllKeys == Key \X Key

Symmetry == Permutations(Req)
=============================================================================
