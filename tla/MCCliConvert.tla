---------------------------- MODULE MCCliConvert ----------------------------
(* Small instances of CliConvert for TLC: commands are interchangeable.    *)
EXTENDS CliConvert, TLC

Symmetry == Permutations(Procs)
=============================================================================
