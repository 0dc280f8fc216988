--------------------------- MODULE ServiceControl ---------------------------
(***************************************************************************)
(* What the development-environment supervisor promises about one service  *)
(* (pkg/common/devenv/service.go, the Start and Stop doc comments): the    *)
(* service runs as at most one instance; an instance appears only when it  *)
(* is started while none runs, and goes away when it exits (after Stop's   *)
(* SIGTERM, or on its own).                                                *)
(***************************************************************************)
EXTENDS Naturals

VARIABLE instances   \* number of live processes of the service

Init == instances \in {0, 1}

(* Start launches the executable when no instance runs.                    *)
Launch == instances = 0 /\ instances' = 1

(* The instance exits.                                                     *)
Exit == instances = 1 /\ instances' = 0

Spec == Init /\ [][Launch \/ Exit]_instances
====
