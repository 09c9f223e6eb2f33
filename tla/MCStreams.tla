------------------------------ MODULE MCStreams ------------------------------
(***************************************************************************)
(* TLC's view of four components that share no state: Links, RetryBackoff, *)
(* and the two that have to come to an end or to catch up, Fetch and       *)
(* EventHub.  A behaviour of this module is one of one of them, chosen at  *)
(* the start, while the others stay in an initial state; what is fair to a *)
(* component is so while it moves.                                         *)
(***************************************************************************)
EXTENDS Links, Naturals, Sequences

CONSTANTS Files, PipeSize, Cap,         \* Fetch
          Topics, Pages, ChannelCap, MaxDrops,    \* EventHub
          Workers, Base, Window, ShiftCap, MaxAttempts, Never     \* RetryBackoff

VARIABLES
    active,                             \* the component that moves
    child, made, stdout, stderr, reader, errReader, main, ch,
    cancelled, expired, pool,           \* Fetch
    unpublished, pending, armed, page, drops,   \* EventHub
    row, worker                         \* RetryBackoff

fetchVars == <<child, made, stdout, stderr, reader, errReader, main, ch, cancelled,
               expired, pool>>
hubVars   == <<unpublished, pending, armed, page, drops>>
retryVars == <<row, worker>>
allVars   == <<active, vars, fetchVars, hubVars, retryVars>>

F == INSTANCE Fetch

H == INSTANCE EventHub WITH Cap <- ChannelCap

R == INSTANCE RetryBackoff

ASSUME InstanceConstants == F!FetchConstants /\ H!HubConstants /\ R!RetryConstants

StreamsInit ==
    /\ active \in {"links", "fetch", "hub", "retries"}
    /\ Init /\ F!Init /\ H!Init /\ R!Init
    /\ active # "links" => \A i \in Items : item[i] = "none"

InLinks(A) == active = "links" /\ A /\ UNCHANGED <<active, fetchVars, hubVars, retryVars>>
InFetch(A) == active = "fetch" /\ A /\ UNCHANGED <<active, vars, hubVars, retryVars>>
InHub(A)   == active = "hub" /\ A /\ UNCHANGED <<active, vars, fetchVars, retryVars>>
InRetries(A) == active = "retries" /\ A /\ UNCHANGED <<active, vars, fetchVars, hubVars>>

StreamsNext ==
    InLinks(Next) \/ InFetch(F!Next) \/ InHub(H!Next) \/ InRetries(R!Next)

StreamsSpec ==
    /\ StreamsInit /\ [][StreamsNext]_allVars
    /\ WF_allVars(InFetch(F!Start \/ F!StartFails))
    /\ WF_allVars(InFetch(F!ReadLine \/ F!ReadEnd \/ F!SendRead))
    /\ WF_allVars(InFetch(F!ReadError \/ F!ReadErrorEnd))
    /\ WF_allVars(InFetch(F!Wait \/ F!SendLog \/ F!Report))
    /\ WF_allVars(InFetch(F!TakeEvent \/ F!Decide))
    /\ WF_allVars(InFetch(F!Kill))
    /\ WF_allVars(InFetch(F!Expire))
    /\ \A t \in Topics :
          WF_allVars(InHub(\E T \in SUBSET unpublished : t \in T /\ H!Publish(T)))
    /\ WF_allVars(InHub(H!Flush))
    /\ \A c \in Pages :
          /\ WF_allVars(InHub(H!Subscribe(c)))
          /\ WF_allVars(InHub(H!Opened(c)))
          /\ WF_allVars(InHub(H!Deliver(c)))
          /\ \A t \in Topics : WF_allVars(InHub(H!Fetch(c, t)))

-----------------------------------------------------------------------------
(* The properties of the instances.                                        *)

(* Fetch: a run that told no error and was not cancelled lost nothing.     *)
SilenceMeansComplete == F!SilenceMeansComplete

(* Fetch: every run ends with a verdict, whatever yt-dlp does.             *)
RunEnds == active = "fetch" => F!RunEnds

(* EventHub: an open page with old data has news of it on the way.         *)
StalePartsAreAnnounced == H!StalePartsAreAnnounced

(* EventHub: a page whose channel takes the topics catches up.             *)
PagesCatchUp == H!PagesCatchUp

(* RetryBackoff: a failure is retried or not as DownloadQueue has it.      *)
VerdictsFollowWindow == R!VerdictsFollowWindow
=============================================================================
