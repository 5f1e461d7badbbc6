------------------------------ MODULE MCJobQueue ------------------------------
(***************************************************************************)
(* Instances of JobQueue for TLC. Two jobs of which the second needs the   *)
(* first one's key and another one (a scan of two sources); the first one  *)
(* takes the only slot of the upload pool too.                             *)
(***************************************************************************)
EXTENDS JobQueue

CONSTANTS ka, kb, upload

mcJobs2 == 1..2
mcKeys == {ka, kb}
mcKeysOf2 == [j \in mcJobs2 |-> IF j = 1 THEN {ka} ELSE {ka, kb}]
mcPools == {upload}
mcLimit == [p \in mcPools |-> 1]
mcNeedsOf2 == [j \in mcJobs2 |-> IF j = 1 THEN {upload} ELSE {}]
mcRunnable == [r \in 0..MaxRestarts |-> {}]
\* The last restart is of a version that does not know the first job's type.
mcUnrunnable == [r \in 0..MaxRestarts |-> IF r = 2 THEN {1} ELSE {}]
=============================================================================
