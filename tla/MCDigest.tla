------------------------------ MODULE MCDigest ------------------------------
EXTENDS Digest

\* One chat follows two shows, the first with two episodes.
MCConnections == Users \X Shows
MCNews == [s \in Shows |-> IF s = 1 THEN 2 ELSE 1]
=============================================================================
