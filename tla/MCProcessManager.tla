--------------------------- MODULE MCProcessManager ---------------------------
(***************************************************************************)
(* Small instances of ProcessManager, with two models.                     *)
(***************************************************************************)
EXTENDS ProcessManager, TLC

CONSTANTS m1, m2

(* m1 is unloaded after one tick; m2 declares idle_unload_seconds: 0.      *)
OneTickOrNever == [m \in {m1, m2} |-> IF m = m1 THEN 1 ELSE 0]
OneTickBoth    == [m \in {m1, m2} |-> 1]

(* Both models declare 0: the watcher never asks for the lock.             *)
NeverIdle == [m \in {m1, m2} |-> 0]

Symmetry == Permutations(Request) \cup Permutations(Proc) \cup Permutations(Model)
================================================================================
