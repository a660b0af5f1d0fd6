----------------------------- MODULE MCPostgres -----------------------------
(***************************************************************************)
(* Postgres with the symmetry of its ids: neither an action nor a checked  *)
(* property tells two tenants, runs or migrators apart.                    *)
(***************************************************************************)
EXTENDS Postgres, TLC

Symmetry == Permutations(Tenants) \cup Permutations(RunIds) \cup Permutations(Migrators)
=============================================================================
