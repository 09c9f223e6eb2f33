--------------------------- MODULE MCMediaLibrary ---------------------------
(* TLC's view of MediaLibrary.  Workers, names and the jobs queued at the  *)
(* start are interchangeable, the latter in runs that delete no job: a     *)
(* generated id is then never one of theirs.                               *)
EXTENDS MediaLibrary, TLC

Interchangeable == Permutations(Loaders) \cup Permutations(Names) \cup Permutations(Downloads)
=============================================================================
