------------------------------- MODULE Links -------------------------------
(***************************************************************************)
(* Permanent links (internal/repo/token.go, the link operations of         *)
(* internal/library/service.go, GET /f/{token} of                          *)
(* internal/api/handler/link.go).  A link is looked up and, if there is    *)
(* none, inserted in a second statement; nothing makes it unique per item. *)
(***************************************************************************)
EXTENDS FiniteSets

CONSTANTS Items,        \* media items
          Tokens,       \* addresses that can be generated
          Clients,      \* concurrent requests (bound)
          NoItem        \* the item of a token that has no row

ASSUME LinkConstants == NoItem \notin Items

VARIABLES
    token,      \* the table tokens: the item of each
    item,       \* the items: "here", "gone" from the disk, or "none" without a row
    given,      \* the item of every address that was ever answered
    revoked,    \* addresses given out before their item's link was revoked
    client      \* a request in progress

vars == <<token, item, given, revoked, client>>

(* since: the item's link has been revoked, or its row deleted, since the  *)
(* request looked it up.                                                   *)
ClientState == [pc : {"idle", "look", "insert", "done", "find", "serve", "served", "refused"},
                item : Items \cup {NoItem}, token : SUBSET Tokens, since : BOOLEAN]
NoRequest == [pc |-> "idle", item |-> NoItem, token |-> {}, since |-> FALSE]

LinksTypeOK ==
    /\ token \in [Tokens -> Items \cup {NoItem}]
    /\ item \in [Items -> {"here", "gone", "none"}]
    /\ given \in [Tokens -> Items \cup {NoItem}]
    /\ revoked \subseteq Tokens
    /\ client \in [Clients -> ClientState]

Init ==
    /\ token = [t \in Tokens |-> NoItem]
    /\ item \in [Items -> {"here", "none"}]
    /\ given = [t \in Tokens |-> NoItem]
    /\ revoked = {}
    /\ client = [c \in Clients |-> NoRequest]

(* uuid: never generated before, not even for a row that has gone.         *)
Fresh == {t \in Tokens : token[t] = NoItem /\ given[t] = NoItem
                         /\ \A c \in Clients : t \notin client[c].token}
Of(i) == {t \in Tokens : token[t] = i}

(* The tokens T go; requests for item i have been overtaken.               *)
Withdraw(i, T) ==
    /\ token' = [t \in Tokens |-> IF t \in T THEN NoItem ELSE token[t]]
    /\ client' = [c \in Clients |-> IF client[c].item = i THEN [client[c] EXCEPT !.since = TRUE]
                                    ELSE client[c]]

-----------------------------------------------------------------------------
(* CreateLink.                                                             *)

CreateLink(c) ==
    /\ client[c].pc = "idle"
    /\ \E i \in Items : client' = [client EXCEPT ![c] = [NoRequest EXCEPT !.pc = "look",
                                                                          !.item = i]]
    /\ UNCHANGED <<token, item, given, revoked>>

(* getByItemID: any of the item's tokens.                                  *)
LookUp(c) ==
    /\ client[c].pc = "look"
    /\ IF Of(client[c].item) = {}
       THEN client' = [client EXCEPT ![c].pc = "insert", ![c].since = FALSE]
       ELSE \E t \in Of(client[c].item) :
               client' = [client EXCEPT ![c].pc = "done", ![c].since = FALSE,
                                        ![c].token = {t}]
    /\ UNCHANGED <<token, item, given, revoked>>

(* The foreign key refuses an item without a row.                          *)
Insert(c) ==
    /\ client[c].pc = "insert"
    /\ IF item[client[c].item] = "none"
       THEN client' = [client EXCEPT ![c].pc = "refused"] /\ UNCHANGED token
       ELSE \E t \in Fresh :
               /\ token' = [token EXCEPT ![t] = client[c].item]
               /\ client' = [client EXCEPT ![c].pc = "done", ![c].since = FALSE,
                                           ![c].token = {t}]
    /\ UNCHANGED <<item, given, revoked>>

(* The address is answered.                                                *)
Answer(c) ==
    /\ client[c].pc = "done"
    /\ given' = [t \in Tokens |-> IF t \in client[c].token THEN client[c].item ELSE given[t]]
    /\ client' = [client EXCEPT ![c] = NoRequest]
    /\ UNCHANGED <<token, item, revoked>>

RevokeOne(i) ==
    /\ \E t \in Of(i) : Withdraw(i, {t})
    /\ revoked' = revoked \cup {t \in Tokens : given[t] = i}
    /\ UNCHANGED <<item, given>>

(* RevokeLink: one DELETE by item; without a row, ErrNoLink.               *)
RevokeLink(i) ==
    /\ Of(i) # {}
    /\ Withdraw(i, Of(i))
    /\ revoked' = revoked \cup {t \in Tokens : given[t] = i}
    /\ UNCHANGED <<item, given>>

-----------------------------------------------------------------------------
(* Resolve: the token, then its item.                                      *)

Resolve(c) ==
    /\ client[c].pc = "idle"
    /\ \E t \in Tokens : /\ given[t] # NoItem
                         /\ client' = [client EXCEPT ![c] = [NoRequest EXCEPT !.pc = "find",
                                                                              !.token = {t}]]
    /\ UNCHANGED <<token, item, given, revoked>>

FindToken(c) ==
    /\ client[c].pc = "find"
    /\ \E t \in client[c].token :
          client' = [client EXCEPT ![c].pc = IF token[t] = NoItem THEN "refused" ELSE "serve",
                                   ![c].item = token[t], ![c].since = FALSE]
    /\ UNCHANGED <<token, item, given, revoked>>

(* AvailableItem: an item whose file is gone is refused.                   *)
Serve(c) ==
    /\ client[c].pc = "serve"
    /\ client' = [client EXCEPT ![c].pc = IF item[client[c].item] = "here" THEN "served"
                                                                           ELSE "refused"]
    /\ UNCHANGED <<token, item, given, revoked>>

Leave(c) ==
    /\ client[c].pc \in {"served", "refused"}
    /\ client' = [client EXCEPT ![c] = NoRequest]
    /\ UNCHANGED <<token, item, given, revoked>>

-----------------------------------------------------------------------------
(* The library: files go and come back, rows are deleted with their tokens.*)

FileChanges(i) ==
    /\ item[i] # "none"
    /\ item' = [item EXCEPT ![i] = IF @ = "here" THEN "gone" ELSE "here"]
    /\ UNCHANGED <<token, given, revoked, client>>

DropItem(i) ==
    /\ item[i] # "none"
    /\ item' = [item EXCEPT ![i] = "none"]
    /\ Withdraw(i, Of(i))
    /\ UNCHANGED <<given, revoked>>

Next ==
    \/ \E c \in Clients : \/ CreateLink(c) \/ LookUp(c) \/ Insert(c) \/ Answer(c)
                          \/ Resolve(c) \/ FindToken(c) \/ Serve(c) \/ Leave(c)
    \/ \E i \in Items : RevokeLink(i) \/ FileChanges(i) \/ DropItem(i)

Spec == Init /\ [][Next]_vars

-----------------------------------------------------------------------------
(* Properties.                                                             *)

(* token.go:51: once a link is revoked no address given out before works   *)
(* any more, however many requests raced to insert one; a link that is     *)
(* about to be answered works, and one that is being served leads to its   *)
(* item, unless a revocation or deletion has overtaken the request.        *)
RevokedLinksStayDead ==
    /\ \A t \in revoked : token[t] = NoItem
    /\ \A c \in Clients : client[c].pc \in {"done", "served"} /\ ~client[c].since =>
          \A t \in client[c].token : token[t] = client[c].item
=============================================================================
