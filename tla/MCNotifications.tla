--------------------------- MODULE MCNotifications ---------------------------
(***************************************************************************)
(* The workload of the run of Notifications.                               *)
(***************************************************************************)
EXTENDS Notifications, MCFarmLink

\* A contribution, an order, its key sent again with a total that the column does
\* not hold, and the closing of the pool, with the sweep: three changes of stock
\* whose messages are on their way together.
NoticesWorkload ==
    "create" :> create_pool("maize")
    @@ "give" :> contribute("maize", "ada", 2)
    @@ "o1" :> order("maize", "ben", 1, "k")
    @@ "o2" :> order("maize", "ben", 2, "k")
    @@ "close" :> close_pool("maize")
==============================================================================
