-------------------------- MODULE MCManualCheckins --------------------------
(* Instances of ManualCheckins for TLC.                                    *)
EXTENDS ManualCheckins, TLC

AdminSymmetry == Permutations(Admins)
=============================================================================
