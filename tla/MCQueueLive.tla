---------------------------- MODULE MCQueueLive ----------------------------
(* DownloadQueue with ids enough for both checks of one link to read its   *)
(* playlist.  The two bounds are on the outside world (what a client asks  *)
(* for, what is behind a link), so they hold up no step that the fairness  *)
(* asks for: a check may always find a single video.                       *)
EXTENDS DownloadQueue

(* Bounds: a playlist has two entries, and three ids are in use or asked   *)
(* for, ...                                                                *)
PlaylistLength == 2
IdsInUse == 3
FewIds == Cardinality(Jobs \ unused) + Cardinality({c \in Clients : request[c].pc = "prepare"})
            <= IdsInUse

NewLinksFit == \A c \in Clients :
    request'[c].pc = "prepare" /\ request[c].pc # "prepare" => FewIds'

(* ... but for the second playlist of a link that is being checked twice.  *)
PlaylistsFit == \A r \in Resolvers :
    resolver'[r].pc = "expand" /\ resolver[r].pc # "expand" =>
        /\ Cardinality(resolver'[r].entries) = PlaylistLength
        /\ \/ FewIds'
           \/ \A q \in Resolvers : /\ resolver'[q].pc = "expand"
                                   /\ resolver'[q].job = resolver[r].job
=============================================================================
