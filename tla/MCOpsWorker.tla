---------------------------- MODULE MCOpsWorker ----------------------------
(* TLC's view of OpsWorker: symmetry of the clients.                       *)
EXTENDS OpsWorker, TLC

Handlers == Permutations(Clients)
=============================================================================
