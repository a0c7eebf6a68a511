----------------------------- MODULE MCDispatch ------------------------------
(* A parent that may fail once and then needs a whole large pilot, a large *)
(* job that may depend on it in three ways, and an endless supply of two    *)
(* small jobs of lower priority, on a pilot of two units and one of one.    *)
EXTENDS Dispatch

CONSTANTS parent, large, small1, small2, big, little

On(type) == [type |-> type, on |-> {parent}]
Both(c)   == [mode |-> "all", conditions |-> c]
Either(c) == [mode |-> "any", conditions |-> c]
Single    == [type |-> "singleton", on |-> {}]

MCDependency == [j \in Jobs |->
    CASE j = large  -> {Both({On("after"), Single}), Both({On("afterok")}),
                        Either({On("after"), On("afternotok")})}
      [] j = parent -> {Both({Single})}
      [] OTHER      -> {Nothing}]
MCJobName  == [j \in Jobs |-> IF j \in {parent, large} THEN "pipeline" ELSE "filler"]
MCMemory   == [n \in Nodes |-> IF n = big THEN 2 ELSE 1]
MCFirstMem == [j \in Jobs |-> IF j = large THEN 2 ELSE 1]
MCPriority == [j \in Jobs |-> IF j \in {parent, large} THEN 2 ELSE 1]
MCRetries  == [j \in Jobs |-> IF j = parent THEN 1 ELSE 0]
=============================================================================
