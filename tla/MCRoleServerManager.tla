-------------------------- MODULE MCRoleServerManager --------------------------
(***************************************************************************)
(* Small instances of the role manager: two models, one of which renders a *)
(* config file; reload may drop and bring back either of them.             *)
(***************************************************************************)
EXTENDS RoleServerManager, TLC

CONSTANTS plain, rendered

Symmetry == Permutations(Request) \cup Permutations(Proc)
================================================================================
