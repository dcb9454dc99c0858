------------------------------ MODULE MCArtifact ------------------------------
(* Instance of Artifact for TLC: an artifact of two stripes, the second half *)
(* padding, and a shorter one that may be copied over it.                    *)
EXTENDS Artifact

CONSTANTS long, small

ShardCounts == [a \in {long, small} |-> IF a = long THEN 3 ELSE 2]
===============================================================================
