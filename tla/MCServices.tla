----------------------------- MODULE MCServices -----------------------------
(***************************************************************************)
(* TLC's view of five small components that share no state with each       *)
(* other: Settings, CookieJar, Labels, LibraryPages and BotMessages.  A    *)
(* behaviour of this module is a behaviour of one of them, chosen at the   *)
(* start, while the others stay in an initial state; BotMessages comes in  *)
(* three instances: with playlists, with a crash among the buttons and     *)
(* requests of users, and with a crash and links that are checked again.   *)
(***************************************************************************)
EXTENDS Settings, FiniteSets, TLC

CONSTANTS Actors,           \* requests and workers, whatever the component
          Things,           \* domains of cookies, names of labels
          Mixed, None,      \* None: every "no such thing"
          Contents, JarFaults,                              \* CookieJar
          LabelledJobs, Tags, Collections, LabelRequests,   \* Labels
          ListedJobs, ListedItems, Matching, Tagged, Videos, PageSize, Filters, \* LibraryPages
          Links, Entries, Msgs, Workers, Clicks, WebChecks, BotRequests, MaxRestarts \* BotMessages

VARIABLES
    active,                                     \* the component that moves
    jar, file, importer, jarFaults,             \* CookieJar
    alive, tag, tagged, coll, labeller,         \* Labels
    job, item, older, viewer, owed,   \* LibraryPages
    row, chat, pending, handler, check, worker, click, recovery, restarts, marred \* BotMessages

C == INSTANCE CookieJar WITH
        Domains <- Things, Absent <- None, Clients <- Actors,
        NoFile <- None, MaxFaults <- JarFaults, client <- importer, faults <- jarFaults

L == INSTANCE Labels WITH
        Jobs <- LabelledJobs, Names <- Things, Clients <- Actors, Unnamed <- None,
        Requests <- LabelRequests, client <- labeller

P == INSTANCE LibraryPages WITH
        Jobs <- ListedJobs, Items <- ListedItems, Limit <- PageSize, NoJob <- None

(* A playlist, and a message more than the link's own; and two with a      *)
(* crash and a single message.  The recovery of a start runs beside the    *)
(* bot in all of them.                                                     *)
B == INSTANCE BotMessages WITH NoMsg <- None, NoJob <- None, Requests <- BotRequests
R == INSTANCE BotMessages WITH
        Entries <- {}, Msgs <- {"m1"}, NoMsg <- None, NoJob <- None,
        Requests <- {"stop", "retry", "cancel", "purge"}, MaxRestarts <- 1
A == INSTANCE BotMessages WITH
        Entries <- {}, Msgs <- {"m1"}, NoMsg <- None, NoJob <- None,
        Requests <- {"again", "purge"}, MaxRestarts <- 1

ASSUME InstanceConstants ==
    /\ C!CookieConstants /\ L!LabelConstants /\ P!PageConstants
    /\ B!BotConstants /\ R!BotConstants /\ A!BotConstants

cookieVars == <<jar, file, importer, jarFaults>>
labelVars  == <<alive, tag, tagged, coll, labeller>>
pageVars   == <<job, item, older, viewer, owed>>
botVars    == <<row, chat, pending, handler, check, worker, click, recovery, restarts, marred>>

Bots == {"bot", "restarted bot", "bot and web"}

Keep(components, v) == IF active \in components THEN TRUE ELSE UNCHANGED v
Others ==
    /\ UNCHANGED active
    /\ Keep({"settings"}, vars)
    /\ Keep({"cookies"}, cookieVars)
    /\ Keep({"labels"}, labelVars)
    /\ Keep({"pages"}, pageVars)
    /\ Keep(Bots, botVars)

ServicesInit ==
    /\ active \in {"settings", "cookies", "labels", "pages"} \cup Bots
    /\ Init /\ C!Init /\ L!Init /\ P!Init
    /\ CASE active = "restarted bot" -> R!Init
         [] active = "bot and web" -> A!Init
         [] OTHER -> B!Init
    /\ active # "settings" => table = Empty
    /\ active # "cookies" => jar = C!Blank
    /\ active # "labels" => alive = {}

ServicesNext ==
    \/ active = "settings" /\ Next /\ Others
    \/ active = "cookies" /\ C!Next /\ Others
    \/ active = "labels" /\ L!Next /\ Others
    \/ active = "pages" /\ P!Next /\ Others
    \/ active = "bot" /\ B!Next /\ Others
    \/ active = "restarted bot" /\ R!Next /\ Others
    \/ active = "bot and web" /\ A!Next /\ Others

ServicesSpec ==
    ServicesInit /\ [][ServicesNext]_<<active, vars, cookieVars, labelVars, pageVars, botVars>>

Interchangeable == Permutations(Actors) \cup Permutations(Tags)

-----------------------------------------------------------------------------
(* The properties of the instances.                                        *)

(* CookieJar: the file equals the table after a rewrite nobody disturbed.  *)
LoneRewriteSettles == C!LoneRewriteSettles

(* Labels: the tag of a collection has its row, a name has one tag.        *)
TagsMatchCollections == L!TagsMatchCollections

(* Labels: nothing but a request takes a label off a job.                  *)
LabelsAreKept == L!LabelsAreKept

(* LibraryPages: asking for more shows every row that stayed in the list.  *)
PagesMissNothing == P!PagesMissNothing

(* BotMessages: every attempt at a link edits the message sent for it.     *)
AttemptsUseTheLinksMessage ==
    CASE active = "restarted bot" -> R!AttemptsUseTheLinksMessage
      [] active = "bot and web" -> A!AttemptsUseTheLinksMessage
      [] OTHER -> B!AttemptsUseTheLinksMessage

(* BotMessages: no message offers to stop a link that became a playlist.   *)
SummariesReplaceButtons ==
    CASE active = "restarted bot" -> R!SummariesReplaceButtons
      [] active = "bot and web" -> A!SummariesReplaceButtons
      [] OTHER -> B!SummariesReplaceButtons

(* BotMessages: nothing stays in pendingMsgs without an expansion.         *)
PendingIsTaken ==
    CASE active = "restarted bot" -> R!PendingIsTaken
      [] active = "bot and web" -> A!PendingIsTaken
      [] OTHER -> B!PendingIsTaken
=============================================================================
