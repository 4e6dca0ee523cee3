---------------------------- MODULE EnrollmentMC ----------------------------
(* Instances of Enrollment for TLC.                                        *)
EXTENDS Enrollment, TLC

\* Consumers and names are interchangeable: no action or property names one.
Symmetry == Permutations(Consumers) \cup Permutations(Names)
=============================================================================
