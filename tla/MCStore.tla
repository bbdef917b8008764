------------------------------- MODULE MCStore -------------------------------
(* Small instances of Store: two snapshots of one repository that may share a *)
(* source file, and a third of another repository; one head.                  *)
EXTENDS Store

CONSTANTS s1, s2, s3, x, main

MCTwoSnapshots == {s1, s2}
MCThreeSnapshots == {s1, s2, s3}
MCSharedFile == [s \in Snapshots |-> {x}]
MCShardsOnly == [s \in Snapshots |-> {}]
MCScopes == [s \in Snapshots |-> IF s = s3 THEN "other crate" ELSE "crate"]

MCIndexed == {[snapshot |-> s, head |-> main, import |-> FALSE] : s \in Snapshots}
MCIndexedAndImported ==
  {[snapshot |-> s, head |-> main, import |-> s = s2] : s \in Snapshots}

Keep(k, g, S) == [keep |-> k, grace |-> g, roots |-> S]
MCHeadsOnly == {Keep(0, 0, {})}
MCRetentionPolicies == {Keep(1, 1, {}), Keep(0, 0, {s1})}
=============================================================================
