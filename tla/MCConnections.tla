---------------------------- MODULE MCConnections ----------------------------
(***************************************************************************)
(* The workload of the run of Connections.                                 *)
(***************************************************************************)
EXTENDS Connections, MCFarmLink

\* The same key on two pools: the second INSERT meets the first one's
\* uncommitted row while each session holds the lock of its own pool.
TwoPoolsWorkload ==
    "create" :> create_pool("maize")
    @@ "create2" :> create_pool("beans")
    @@ "give" :> contribute("maize", "ada", 1)
    @@ "give2" :> contribute("beans", "ada", 1)
    @@ "o1" :> order("maize", "ben", 1, "k")
    @@ "o2" :> order("beans", "ben", 1, "k")
===============================================================================
