-------------------------- MODULE MCPackageReceive --------------------------
EXTENDS PackageReceive
CONSTANTS a, b, c
MCMessage == {a, b, c}
MCFrameLen == [m \in MCMessage |-> IF m = c THEN 6 ELSE 3]
MCCell == UNION {{m} \X (1 .. MCFrameLen[m]) : m \in MCMessage} \cup {Zero}
=============================================================================
