----------------------- MODULE MCHeavyMaintenanceLease -----------------------
(***************************************************************************)
(* Instances of HeavyMaintenanceLease for TLC.                             *)
(***************************************************************************)
EXTENDS HeavyMaintenanceLease, TLC

Symmetry == Permutations(Renewers) \cup Permutations(Proc \ Renewers) \cup Permutations(Token) \cup Permutations(Pid)

\* Once an exposure has been used the properties claim nothing, so what
\* follows it is not explored.
BeforeExposure == exposures = {}
=============================================================================
