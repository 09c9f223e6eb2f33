------------------------------ MODULE EventHub ------------------------------
(***************************************************************************)
(* Live pages: the hub of topics (internal/sse/hub.go), the handler of     *)
(* GET /events (internal/api/server.go) and the page that listens          *)
(* (web/static/js/main.js).  A change of the data is published by whoever  *)
(* made it, publications are gathered for a window and then sent to the    *)
(* channel of every subscriber; the page fetches the parts named by the    *)
(* events it receives.                                                     *)
(*                                                                         *)
(* A step is one critical section of the hub, one channel operation of the *)
(* handler or one event of the page.                                       *)
(***************************************************************************)
EXTENDS FiniteSets, Sequences, Naturals

CONSTANTS Topics,       \* the parts of the page
          Pages,        \* open tabs (bound)
          Cap,          \* the capacity of a subscriber's channel
          MaxDrops      \* bound on lost connections and restarts

HubConstants == Cap \in Nat \ {0} /\ MaxDrops \in Nat

VARIABLES
    unpublished,    \* topics whose data has changed and whose Publish is still to come
    pending,        \* Hub.pending
    armed,          \* Hub.timer # nil
    page,           \* a tab and the handler that serves its /events
    drops           \* lost connections and restarts, for the bound

vars == <<unpublished, pending, armed, page, drops>>

(* conn: "closed", no tab; "connecting"; "served", the handler has         *)
(* subscribed; "open", the page has seen onopen.  ever: everConnected.     *)
(* due: parts the page is about to fetch.  What follows is no state of the *)
(* code.  stale: parts that changed after the page fetched them.  missed,  *)
(* skipped: topics sent before the page had connected, or when its channel *)
(* was full.                                                               *)
PageState == [conn : {"closed", "connecting", "served", "open"}, chan : Seq(SUBSET Topics),
              due : SUBSET Topics, ever : BOOLEAN, stale : SUBSET Topics,
              missed : SUBSET Topics, skipped : SUBSET Topics]
NoPage    == [conn |-> "closed", chan |-> <<>>, due |-> {}, ever |-> FALSE, stale |-> {},
              missed |-> {}, skipped |-> {}]

HubTypeOK ==
    /\ unpublished \subseteq Topics
    /\ pending \subseteq Topics
    /\ armed \in BOOLEAN
    /\ page \in [Pages -> PageState]
    /\ \A c \in Pages : Len(page[c].chan) <= Cap
    /\ drops \in Nat

Init ==
    /\ unpublished = {}
    /\ pending = {}
    /\ armed = FALSE
    /\ page = [c \in Pages |-> NoPage]
    /\ drops = 0

Subscribed(c) == page[c].conn \in {"served", "open"}
Buffered(c)   == UNION {page[c].chan[i] : i \in DOMAIN page[c].chan}

-----------------------------------------------------------------------------
(* Publishers.                                                             *)

(* The queue, the pool, the operations and the expander write their rows   *)
(* and call Publish afterwards.                                            *)
Change(t) ==
    /\ unpublished' = unpublished \cup {t}
    /\ page' = [c \in Pages |-> [page[c] EXCEPT !.stale =
                                    IF page[c].conn = "closed" THEN {} ELSE @ \cup {t}]]
    /\ UNCHANGED <<pending, armed, drops>>

(* The first publication of a window arms the timer.                       *)
Publish(T) ==
    /\ T # {}
    /\ unpublished' = unpublished \ T
    /\ pending' = pending \cup T
    /\ armed' = TRUE
    /\ UNCHANGED <<page, drops>>

(* What a flush of T does to a page: nothing if its handler has not        *)
(* subscribed, a set in its channel, or nothing if the channel is full.    *)
Sent(p, T) ==
    IF p.conn \notin {"served", "open"}
    THEN [p EXCEPT !.missed = IF p.conn = "closed" \/ p.ever THEN @ ELSE @ \cup T]
    ELSE IF Len(p.chan) < Cap
         THEN [p EXCEPT !.chan = Append(@, T)]
         ELSE [p EXCEPT !.skipped = @ \cup T]

(* The timer fires.                                                        *)
Flush ==
    /\ armed
    /\ armed' = FALSE
    /\ pending' = {}
    /\ page' = [c \in Pages |-> Sent(page[c], pending)]
    /\ UNCHANGED <<unpublished, drops>>

-----------------------------------------------------------------------------
(* A page and its handler.                                                 *)

(* The parts of a new page are fetched as it loads; then it connects.      *)
OpenPage(c) ==
    /\ page[c].conn = "closed"
    /\ page' = [page EXCEPT ![c] = [NoPage EXCEPT !.conn = "connecting"]]
    /\ UNCHANGED <<unpublished, pending, armed, drops>>

ClosePage(c) ==
    /\ page[c].conn # "closed"
    /\ page' = [page EXCEPT ![c] = NoPage]
    /\ UNCHANGED <<unpublished, pending, armed, drops>>

SubscribeOnce(c) ==
    /\ page[c].conn = "connecting"
    /\ ~page[c].ever
    /\ page' = [page EXCEPT ![c].conn = "served", ![c].chan = <<>>]
    /\ UNCHANGED <<unpublished, pending, armed, drops>>

(* eventsHandler subscribes before it answers.                             *)
Subscribe(c) ==
    /\ page[c].conn = "connecting"
    /\ page' = [page EXCEPT ![c].conn = "served", ![c].chan = <<>>]
    /\ UNCHANGED <<unpublished, pending, armed, drops>>

OpenedQuietly(c) ==
    /\ page[c].conn = "served"
    /\ page' = [page EXCEPT ![c].conn = "open", ![c].ever = TRUE]
    /\ UNCHANGED <<unpublished, pending, armed, drops>>

(* onopen: on any connection but the first everything is fetched again.    *)
Opened(c) ==
    /\ page[c].conn = "served"
    /\ page' = [page EXCEPT ![c].conn = "open", ![c].ever = TRUE,
                            ![c].due = IF page[c].ever THEN Topics ELSE @,
                            ![c].missed = IF page[c].ever THEN {} ELSE @,
                            ![c].skipped = IF page[c].ever THEN {} ELSE @]
    /\ UNCHANGED <<unpublished, pending, armed, drops>>

(* The handler takes a set of topics and writes an event for each.         *)
Deliver(c) ==
    /\ page[c].conn = "open"
    /\ page[c].chan # <<>>
    /\ page' = [page EXCEPT ![c].chan = Tail(@), ![c].due = @ \cup Head(page[c].chan)]
    /\ UNCHANGED <<unpublished, pending, armed, drops>>

(* The page fetches one part.                                              *)
Fetch(c, t) ==
    /\ t \in page[c].due
    /\ page' = [page EXCEPT ![c].due = @ \ {t}, ![c].stale = @ \ {t},
                            ![c].missed = @ \ {t}, ![c].skipped = @ \ {t}]
    /\ UNCHANGED <<unpublished, pending, armed, drops>>

(* What a page that loses its connection had in its channel is gone.       *)
Lost(p) == [p EXCEPT !.conn = IF @ = "closed" THEN @ ELSE "connecting", !.chan = <<>>,
                     !.missed = IF p.ever THEN @
                                ELSE @ \cup UNION {p.chan[i] : i \in DOMAIN p.chan}]

(* The network fails; the handler unsubscribes and the page reconnects.    *)
Drop(c) ==
    /\ drops < MaxDrops
    /\ Subscribed(c)
    /\ drops' = drops + 1
    /\ page' = [page EXCEPT ![c] = Lost(@)]
    /\ UNCHANGED <<unpublished, pending, armed>>

(* The process dies: publications that were due or gathered are forgotten. *)
Restart ==
    /\ drops < MaxDrops
    /\ drops' = drops + 1
    /\ unpublished' = {}
    /\ pending' = {}
    /\ armed' = FALSE
    /\ page' = [c \in Pages |-> LET p == Lost(page[c]) IN
                   [p EXCEPT !.missed = IF p.conn = "closed" \/ p.ever THEN @
                                        ELSE @ \cup pending \cup unpublished]]

Next ==
    \/ \E t \in Topics : Change(t)
    \/ \E T \in SUBSET unpublished : Publish(T)
    \/ Flush
    \/ Restart
    \/ \E c \in Pages : \/ OpenPage(c) \/ ClosePage(c) \/ Subscribe(c) \/ Opened(c)
                        \/ Deliver(c) \/ Drop(c)
                        \/ \E t \in Topics : Fetch(c, t)

Spec == Init /\ [][Next]_vars

(* A publisher goes on to its Publish, the timer fires, an open page keeps *)
(* connecting, reading and fetching.                                       *)
FairSpec ==
    /\ Spec
    /\ \A t \in Topics : WF_vars(\E T \in SUBSET unpublished : t \in T /\ Publish(T))
    /\ WF_vars(Flush)
    /\ \A c \in Pages :
          /\ WF_vars(Subscribe(c))
          /\ WF_vars(Opened(c))
          /\ WF_vars(Deliver(c))
          /\ \A t \in Topics : WF_vars(Fetch(c, t))

-----------------------------------------------------------------------------
(* Properties.                                                             *)

(* The news of t has not reached page c yet, but will.                     *)
OnItsWay(c, t) ==
    \/ t \in unpublished
    \/ t \in pending /\ armed
    \/ t \in Buffered(c)
    \/ t \in page[c].due
    \/ page[c].conn # "open" /\ page[c].ever

(* Publish, flush, eventsHandler and onopen: an open page that shows old   *)
(* data will hear of it, over lost connections and restarts too, unless    *)
(* the topic was sent when the page could not take it.                     *)
StalePartsAreAnnounced ==
    \A c \in Pages : page[c].stale \subseteq
        {t \in Topics : OnItsWay(c, t)} \cup page[c].missed \cup page[c].skipped

(* flush: what a page shows catches up with the data as long as the page   *)
(* is open and its channel takes the topics.                               *)
PagesCatchUp ==
    \A c \in Pages, t \in Topics :
        t \in page[c].stale ~>
            t \notin page[c].stale \ (page[c].missed \cup page[c].skipped)
=============================================================================
