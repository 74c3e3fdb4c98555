------------------------------ MODULE MCJobApi ------------------------------
(* Small instances of JobApi: one workflow of any shape, or three requests. *)
EXTENDS JobApi, TLC

CONSTANTS r1, r2, r3, k, Crashes, Throws_, Fails_

MCFaults == [f \in FaultKind |->
    CASE f = "crash" -> Crashes [] f = "throw" -> Throws_ [] f = "fail" -> Fails_]

Idle == [op |-> "none"]

MCCreates == [op : {"create"}, type : JobType, key : {NoKey, k}, cron : BOOLEAN]
MCFirst == [name : {1}, type : {"sound"}, prio : {1, 20}, key : {NoKey}]
MCSecond == [name : {2}, type : {"sound", "media-jobs"}, prio : {2}, key : {NoKey, k}]
MCBatches == [op : {"batch"},
              items : (MCFirst \X MCSecond) \cup {<<i, i>> : i \in MCSecond} \cup {<< >>}]
MCRetries == {[op |-> "retry", row |-> <<r1, n>>] : n \in {1, 2}}
MCOthers == MCCreates \cup MCRetries \cup {[op |-> "stop", of |-> r1]}
            \cup [op : {"notify"}, type : {"sound", "unknown"}, row : {<<r1, 1>>, <<r2, 1>>}]

MCFlows == {[op |-> "flow", parents |-> p, typed |-> t] :
    p \in [Node -> {NoDeps} \cup SUBSET (Node \cup {9})], t \in {Node, Node \ {3}}}

MCScenes ==
    {[r \in Request |-> IF r = r1 THEN f ELSE Idle] : f \in MCFlows}
    \cup {[r \in Request |-> IF r = r1 THEN a ELSE IF r = r2 THEN b ELSE c] :
             a \in MCCreates \cup MCBatches, b \in MCOthers, c \in MCRetries}
=============================================================================
