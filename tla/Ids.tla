-------------------------------- MODULE Ids --------------------------------
(* Ids are numbers in the order of created_at, which decides what a worker *)
(* or a lane takes first.                                                  *)
EXTENDS Naturals

(* ORDER BY created_at LIMIT 1.                                            *)
Oldest(ids) == CHOOSE j \in ids : \A k \in ids : j <= k
=============================================================================
