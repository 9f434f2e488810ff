-------------------------- MODULE MCSchemaMigration ---------------------------
(* SchemaMigration with interchangeable rows. *)
EXTENDS SchemaMigration, TLC

IdSymmetry == Permutations(Id)
==============================================================================
