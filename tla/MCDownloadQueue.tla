--------------------------- MODULE MCDownloadQueue ---------------------------
(* TLC's view of DownloadQueue: symmetry of the interchangeable processes. *)
EXTENDS DownloadQueue, TLC

Processes == Permutations(Workers) \cup Permutations(Resolvers) \cup Permutations(Clients)
=============================================================================
