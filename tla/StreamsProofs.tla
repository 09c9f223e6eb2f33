---------------------------- MODULE StreamsProofs ----------------------------
(***************************************************************************)
(* The invariants of the four components of MCStreams, for any number of   *)
(* items, addresses, requests, pages, topics, files and workers, any sizes *)
(* of the channels and pipes, and any base, window and cap of the retries. *)
(*                                                                         *)
(* - Links: an address that was answered leads to the item it was answered *)
(*   for or nowhere (GivenKeepsItem), and so does one a request is about   *)
(*   to answer (ClientInOrder).  A revocation therefore finds every        *)
(*   address given out for its item among the rows it deletes.             *)
(* - EventHub: a topic that is gathered has a timer, and a page has no     *)
(*   channel before it is connected and no data before it is open.         *)
(* - Fetch: FilesConserved says who holds each file that was printed, and  *)
(*   FailuresReported that a reader that stopped early and a process that  *)
(*   was killed are told of before the channel is closed.                  *)
(* - RetryBackoff: the age of a row's first failure is at least the sum of *)
(*   the waits since (InWindow), in the table and in every worker's copy;  *)
(*   the sum goes through the powers of two, which the provers know as     *)
(*   numbers of subsets only (PowerDoubles).                               *)
(***************************************************************************)
EXTENDS MCStreams, FiniteSetTheorems, TLAPS

-----------------------------------------------------------------------------
(* Links.                                                                  *)

(* An address keeps the item it was given out for.                         *)
GivenKeepsItem == \A t \in Tokens : given[t] # NoItem => token[t] \in {NoItem, given[t]}

RevokedAreDead == \A t \in revoked : given[t] # NoItem /\ token[t] = NoItem

ClientInOrder(me) ==
    /\ me.pc \in {"look", "insert", "done"} => me.item \in Items
    /\ me.pc = "done" => \A t \in me.token : /\ token[t] \in {NoItem, me.item}
                                             /\ given[t] \in {NoItem, me.item}
    /\ me.pc \in {"done", "serve", "served"} /\ ~me.since =>
          \A t \in me.token : token[t] = me.item

(* A request works with at most one address.                               *)
OneAddress == \A c \in Clients : \A t, u \in client[c].token : t = u

(* Two requests that are about to answer one address do so for one item.   *)
AnswersAgree ==
    \A c, d \in Clients : client[c].pc = "done" /\ client[d].pc = "done"
                            /\ client[c].token \cap client[d].token # {}
                         => client[c].item = client[d].item

LinkInv ==
    /\ LinksTypeOK /\ GivenKeepsItem /\ RevokedAreDead /\ AnswersAgree /\ OneAddress
    /\ \A c \in Clients : ClientInOrder(client[c])

-----------------------------------------------------------------------------
(* A step of one request that leaves the tables and the addresses alone.   *)
LEMMA RequestStep ==
    ASSUME LinkInv, NEW c \in Clients, NEW me \in ClientState,
           client' = [client EXCEPT ![c] = me], ClientInOrder(me),
           me.pc = "done" => \A t \in me.token : token[t] = me.item,
           \A t, u \in me.token : t = u,
           UNCHANGED <<token, item, given, revoked>>
    PROVE  LinkInv'
<1>1. client'[c] = me /\ \A d \in Clients \ {c} : client'[d] = client[d]
  BY DEF LinkInv, LinksTypeOK
<1>2. LinksTypeOK'
  BY DEF LinkInv, LinksTypeOK
<1>3. GivenKeepsItem' /\ RevokedAreDead'
  BY DEF LinkInv, GivenKeepsItem, RevokedAreDead
<1>4. \A d \in Clients : ClientInOrder(client[d])'
  BY <1>1 DEF LinkInv, ClientInOrder
<1>5. AnswersAgree'
  <2>1. ASSUME NEW d \in Clients \ {c}, client[d].pc = "done", me.pc = "done",
               NEW t \in client[d].token \cap me.token
        PROVE  client[d].item = me.item
    <3>1. me.item \in Items /\ token[t] = me.item
      BY <2>1 DEF ClientInOrder
    <3>2. token[t] \in {NoItem, client[d].item}
      BY <2>1 DEF LinkInv, ClientInOrder
    <3> QED BY <3>1, <3>2, LinkConstants
  <2> QED BY <2>1, <1>1 DEF LinkInv, AnswersAgree
<1>6. OneAddress'
  BY <1>1 DEF LinkInv, OneAddress
<1> QED BY <1>2, <1>3, <1>4, <1>5, <1>6 DEF LinkInv

(* A fresh address becomes the row of an item; the request that inserted   *)
(* it goes on to answer it.                                                *)
LEMMA InsertStep ==
    ASSUME LinkInv, NEW c \in Clients, client[c].pc = "insert", NEW t \in Fresh,
           token' = [token EXCEPT ![t] = client[c].item],
           client' = [client EXCEPT ![c] = [client[c] EXCEPT !.pc = "done", !.since = FALSE,
                                                             !.token = {t}]],
           UNCHANGED <<item, given, revoked>>
    PROVE  LinkInv'
<1> DEFINE me == [client[c] EXCEPT !.pc = "done", !.since = FALSE, !.token = {t}]
<1>1. /\ t \in Tokens /\ token[t] = NoItem /\ given[t] = NoItem
      /\ \A d \in Clients : t \notin client[d].token
  BY DEF Fresh
<1>2. client[c] \in ClientState /\ client[c].item \in Items
  BY DEF LinkInv, LinksTypeOK, ClientInOrder
<1>3. me \in ClientState /\ me.pc = "done" /\ me.item = client[c].item /\ me.token = {t}
  BY <1>1, <1>2 DEF ClientState
<1> HIDE DEF me
<1>4. client' = [client EXCEPT ![c] = me]
  BY DEF me
<1>5. LinksTypeOK'
  BY <1>1, <1>2, <1>3, <1>4 DEF LinkInv, LinksTypeOK
<1>6. token'[t] = client[c].item /\ \A u \in Tokens \ {t} : token'[u] = token[u]
  BY <1>1 DEF LinkInv, LinksTypeOK
<1>7. GivenKeepsItem' /\ RevokedAreDead'
  BY <1>1, <1>6 DEF LinkInv, LinksTypeOK, GivenKeepsItem, RevokedAreDead
<1>8. client'[c] = me /\ \A d \in Clients \ {c} : client'[d] = client[d]
  BY <1>4 DEF LinkInv, LinksTypeOK
<1>9. ClientInOrder(client[c])'
  BY <1>1, <1>2, <1>3, <1>6, <1>8 DEF ClientInOrder
<1>10. ASSUME NEW d \in Clients \ {c} PROVE ClientInOrder(client[d])'
  <2>1. client[d].token \subseteq Tokens \ {t}
    BY <1>1 DEF LinkInv, LinksTypeOK, ClientState
  <2> QED BY <2>1, <1>6, <1>8 DEF LinkInv, ClientInOrder
<1>11. AnswersAgree'
  BY <1>1, <1>3, <1>8 DEF LinkInv, AnswersAgree
<1>12. OneAddress'
  BY <1>3, <1>8 DEF LinkInv, OneAddress
<1> QED BY <1>5, <1>7, <1>9, <1>10, <1>11, <1>12 DEF LinkInv

(* An address is answered.                                                 *)
LEMMA AnswerStep ==
    ASSUME LinkInv, NEW c \in Clients, Answer(c)
    PROVE  LinkInv'
<1> DEFINE i == client[c].item
           T == client[c].token
<1>1. /\ client[c] \in ClientState /\ i \in Items /\ T \subseteq Tokens /\ i # NoItem
      /\ \A t \in T : token[t] \in {NoItem, i} /\ given[t] \in {NoItem, i}
  BY LinkConstants DEF LinkInv, LinksTypeOK, ClientState, ClientInOrder, Answer
<1>2. /\ given' = [t \in Tokens |-> IF t \in T THEN i ELSE given[t]]
      /\ client' = [client EXCEPT ![c] = NoRequest]
      /\ UNCHANGED <<token, item, revoked>>
  BY DEF Answer
<1> HIDE DEF i, T
<1>3. NoRequest \in ClientState
  BY DEF NoRequest, ClientState
<1>4. LinksTypeOK'
  BY <1>1, <1>2, <1>3 DEF LinkInv, LinksTypeOK
<1>5. GivenKeepsItem' /\ RevokedAreDead'
  BY <1>1, <1>2 DEF LinkInv, LinksTypeOK, GivenKeepsItem, RevokedAreDead
<1>6. client'[c] = NoRequest /\ \A d \in Clients \ {c} : client'[d] = client[d]
  BY <1>2 DEF LinkInv, LinksTypeOK
<1>7. ClientInOrder(client[c])'
  BY <1>6 DEF ClientInOrder, NoRequest
<1>8. ASSUME NEW d \in Clients \ {c} PROVE ClientInOrder(client[d])'
  <2>1. ClientInOrder(client[d]) /\ client[d].token \subseteq Tokens
    BY DEF LinkInv, LinksTypeOK, ClientState
  <2>2. ASSUME client[d].pc = "done", NEW t \in client[d].token
        PROVE  given'[t] \in {NoItem, client[d].item}
    <3>1. CASE t \notin T
      BY <2>1, <2>2, <3>1, <1>2 DEF ClientInOrder
    <3>2. CASE t \in T
      <4>1. client[d].item = i
        BY <2>2, <3>2 DEF LinkInv, AnswersAgree, Answer, T, i
      <4> QED BY <2>1, <2>2, <3>2, <4>1, <1>2
    <3> QED BY <3>1, <3>2
  <2> QED BY <2>1, <2>2, <1>2, <1>6 DEF ClientInOrder
<1>9. AnswersAgree'
  BY <1>6 DEF LinkInv, AnswersAgree, NoRequest
<1>10. OneAddress'
  BY <1>6 DEF LinkInv, OneAddress, NoRequest
<1> QED BY <1>4, <1>5, <1>7, <1>8, <1>9, <1>10 DEF LinkInv

(* Rows of item i go, and requests for it are told.                        *)
LEMMA WithdrawStep ==
    ASSUME LinkInv, NEW i \in Items, Withdraw(i, Of(i)), UNCHANGED given,
           revoked' \in {revoked, revoked \cup {t \in Tokens : given[t] = i}},
           item' \in [Items -> {"here", "gone", "none"}]
    PROVE  LinkInv'
<1>1. /\ token' = [t \in Tokens |-> IF token[t] = i THEN NoItem ELSE token[t]]
      /\ client' = [c \in Clients |-> IF client[c].item = i
                                      THEN [client[c] EXCEPT !.since = TRUE] ELSE client[c]]
  BY DEF Withdraw, Of
<1>2. ASSUME NEW c \in Clients
      PROVE  /\ client[c] \in ClientState /\ client'[c] \in ClientState
             /\ client'[c].pc = client[c].pc /\ client'[c].item = client[c].item
             /\ client'[c].token = client[c].token /\ client[c].token \subseteq Tokens
             /\ client'[c].since <=> client[c].since \/ client[c].item = i
  <2>1. client[c] \in ClientState
    BY DEF LinkInv, LinksTypeOK
  <2>2. CASE client[c].item = i
    BY <1>1, <2>1, <2>2 DEF ClientState
  <2>3. CASE client[c].item # i
    BY <1>1, <2>1, <2>3 DEF ClientState
  <2> QED BY <2>2, <2>3
<1>3. LinksTypeOK'
  <2>1. client' \in [Clients -> ClientState]
    BY <1>1, <1>2
  <2>2. token' \in [Tokens -> Items \cup {NoItem}]
    BY <1>1 DEF LinkInv, LinksTypeOK
  <2> QED BY <2>1, <2>2 DEF LinkInv, LinksTypeOK
<1>4. GivenKeepsItem'
  BY <1>1 DEF LinkInv, GivenKeepsItem
<1>5. RevokedAreDead'
  <2>1. ASSUME NEW t \in Tokens, given[t] = i PROVE token'[t] = NoItem
    BY <1>1, <2>1, LinkConstants DEF LinkInv, GivenKeepsItem
  <2> QED BY <1>1, <2>1, LinkConstants DEF LinkInv, LinksTypeOK, RevokedAreDead
<1>6. ASSUME NEW c \in Clients PROVE ClientInOrder(client[c])'
  <2>1. ClientInOrder(client[c]) /\ client[c].token \subseteq Tokens
    BY <1>2 DEF LinkInv
  <2> QED BY <1>1, <1>2, <2>1 DEF ClientInOrder
<1>7. AnswersAgree' /\ OneAddress'
  BY <1>2 DEF LinkInv, AnswersAgree, OneAddress
<1> QED BY <1>3, <1>4, <1>5, <1>6, <1>7 DEF LinkInv

(* A file goes or comes back: nothing else changes.                        *)
LEMMA FileStep ==
    ASSUME LinkInv, NEW i \in Items, FileChanges(i)
    PROVE  LinkInv'
<1>1. item' \in [Items -> {"here", "gone", "none"}] /\ UNCHANGED <<token, given, revoked, client>>
  BY DEF LinkInv, LinksTypeOK, FileChanges
<1> QED
  BY <1>1 DEF LinkInv, LinksTypeOK, GivenKeepsItem, RevokedAreDead, AnswersAgree, OneAddress,
                    ClientInOrder

-----------------------------------------------------------------------------
LEMMA RequestKeeps ==
    ASSUME LinkInv, NEW c \in Clients,
           \/ CreateLink(c) \/ LookUp(c) \/ Insert(c) \/ Answer(c)
           \/ Resolve(c) \/ FindToken(c) \/ Serve(c) \/ Leave(c)
    PROVE  LinkInv'
<1>0. /\ client[c] \in ClientState /\ ClientInOrder(client[c])
      /\ \A t, u \in client[c].token : t = u
  BY DEF LinkInv, LinksTypeOK, OneAddress
<1>1. CASE CreateLink(c)
  <2>1. PICK i \in Items :
          client' = [client EXCEPT ![c] = [NoRequest EXCEPT !.pc = "look", !.item = i]]
    BY <1>1 DEF CreateLink
  <2> DEFINE me == [NoRequest EXCEPT !.pc = "look", !.item = i]
  <2>2. me \in ClientState /\ me.pc = "look" /\ me.item = i /\ me.token = {}
    BY DEF ClientState, NoRequest
  <2> HIDE DEF me
  <2>3. ClientInOrder(me) BY <2>2 DEF ClientInOrder
  <2>4. client' = [client EXCEPT ![c] = me] BY <2>1 DEF me
  <2> QED BY <1>1, <2>2, <2>3, <2>4, RequestStep DEF CreateLink
<1>2. CASE LookUp(c)
  <2>1. CASE Of(client[c].item) = {}
    <3> DEFINE me == [client[c] EXCEPT !.pc = "insert", !.since = FALSE]
    <3>1. /\ me \in ClientState /\ me.pc = "insert" /\ me.item = client[c].item
          /\ me.token = client[c].token
      BY <1>0 DEF ClientState
    <3>2. client' = [client EXCEPT ![c] = me] /\ UNCHANGED <<token, item, given, revoked>>
      BY <1>2, <2>1 DEF LookUp
    <3> HIDE DEF me
    <3>3. ClientInOrder(me) BY <1>0, <1>2, <3>1 DEF ClientInOrder, LookUp
    <3>4. me.pc # "done" /\ \A t, u \in me.token : t = u
      BY <1>0, <3>1
    <3> QED BY <3>1, <3>2, <3>3, <3>4, RequestStep
  <2>2. CASE Of(client[c].item) # {}
    <3>1. PICK t \in Of(client[c].item) :
            client' = [client EXCEPT ![c] = [client[c] EXCEPT !.pc = "done", !.since = FALSE,
                                                              !.token = {t}]]
      BY <1>2, <2>2 DEF LookUp
    <3> DEFINE me == [client[c] EXCEPT !.pc = "done", !.since = FALSE, !.token = {t}]
    <3>2. t \in Tokens /\ token[t] = client[c].item /\ client[c].item \in Items
      BY <1>0, <1>2 DEF Of, LookUp, ClientInOrder
    <3>3. /\ me \in ClientState /\ me.pc = "done" /\ me.item = client[c].item
          /\ me.token = {t} /\ ~me.since
      BY <1>0, <3>2 DEF ClientState
    <3> HIDE DEF me
    <3>4. given[t] \in {NoItem, me.item}
      BY <3>2, <3>3, LinkConstants DEF LinkInv, LinksTypeOK, GivenKeepsItem
    <3>5. ClientInOrder(me) BY <3>2, <3>3, <3>4 DEF ClientInOrder
    <3>6. client' = [client EXCEPT ![c] = me] BY <3>1 DEF me
    <3> QED BY <1>2, <3>2, <3>3, <3>5, <3>6, RequestStep DEF LookUp
  <2> QED BY <2>1, <2>2
<1>3. CASE Insert(c)
  <2>1. CASE item[client[c].item] = "none"
    <3> DEFINE me == [client[c] EXCEPT !.pc = "refused"]
    <3>1. me \in ClientState /\ me.pc = "refused" /\ me.token = client[c].token
      BY <1>0 DEF ClientState
    <3>2. client' = [client EXCEPT ![c] = me] /\ UNCHANGED <<token, item, given, revoked>>
      BY <1>3, <2>1 DEF Insert
    <3> HIDE DEF me
    <3>3. ClientInOrder(me) BY <3>1 DEF ClientInOrder
    <3>4. me.pc # "done" /\ \A t, u \in me.token : t = u
      BY <1>0, <3>1
    <3> QED BY <3>1, <3>2, <3>3, <3>4, RequestStep
  <2>2. CASE item[client[c].item] # "none"
    <3>1. PICK t \in Fresh :
            /\ token' = [token EXCEPT ![t] = client[c].item]
            /\ client' = [client EXCEPT ![c] = [client[c] EXCEPT !.pc = "done", !.since = FALSE,
                                                                 !.token = {t}]]
      BY <1>3, <2>2 DEF Insert
    <3> QED BY <1>3, <3>1, InsertStep DEF Insert
  <2> QED BY <2>1, <2>2
<1>4. CASE Answer(c)
  BY <1>4, AnswerStep
<1>5. CASE Resolve(c)
  <2>1. PICK t \in Tokens :
          client' = [client EXCEPT ![c] = [NoRequest EXCEPT !.pc = "find", !.token = {t}]]
    BY <1>5 DEF Resolve
  <2> DEFINE me == [NoRequest EXCEPT !.pc = "find", !.token = {t}]
  <2>2. me \in ClientState /\ me.pc = "find" /\ me.token = {t}
    BY DEF ClientState, NoRequest
  <2> HIDE DEF me
  <2>3. ClientInOrder(me) BY <2>2 DEF ClientInOrder
  <2>4. client' = [client EXCEPT ![c] = me] BY <2>1 DEF me
  <2> QED BY <1>5, <2>2, <2>3, <2>4, RequestStep DEF Resolve
<1>6. CASE FindToken(c)
  <2>1. PICK t \in client[c].token :
          client' = [client EXCEPT ![c] = [client[c] EXCEPT
                !.pc = IF token[t] = NoItem THEN "refused" ELSE "serve",
                !.item = token[t], !.since = FALSE]]
    BY <1>6 DEF FindToken
  <2> DEFINE pc == IF token[t] = NoItem THEN "refused" ELSE "serve"
             me == [client[c] EXCEPT !.pc = pc, !.item = token[t], !.since = FALSE]
  <2>2. pc \in {"refused", "serve"} OBVIOUS
  <2>3. token[t] \in Items \cup {NoItem}
    BY <1>0 DEF LinkInv, LinksTypeOK, ClientState
  <2>4. client' = [client EXCEPT ![c] = me] BY <2>1
  <2> HIDE DEF pc
  <2>5. /\ me \in ClientState /\ me.pc = pc /\ me.item = token[t]
        /\ me.token = client[c].token
    BY <1>0, <2>2, <2>3 DEF ClientState
  <2> HIDE DEF me
  <2>6. \A u \in client[c].token : u = t
    BY <1>6 DEF LinkInv, OneAddress, FindToken
  <2>7. ClientInOrder(me) BY <2>2, <2>5, <2>6 DEF ClientInOrder
  <2> QED BY <1>0, <1>6, <2>2, <2>4, <2>5, <2>7, RequestStep DEF FindToken
<1>7. CASE Serve(c)
  <2> DEFINE pc == IF item[client[c].item] = "here" THEN "served" ELSE "refused"
             me == [client[c] EXCEPT !.pc = pc]
  <2>1. pc \in {"served", "refused"} OBVIOUS
  <2>2. client' = [client EXCEPT ![c] = me] BY <1>7 DEF Serve
  <2> HIDE DEF pc
  <2>3. /\ me \in ClientState /\ me.pc = pc /\ me.item = client[c].item
        /\ me.token = client[c].token /\ me.since = client[c].since
    BY <1>0, <2>1 DEF ClientState
  <2> HIDE DEF me
  <2>4. ClientInOrder(me) BY <1>0, <1>7, <2>1, <2>3 DEF ClientInOrder, Serve
  <2>5. me.pc # "done" /\ \A t, u \in me.token : t = u
    BY <1>0, <2>1, <2>3
  <2> QED BY <1>7, <2>2, <2>3, <2>4, <2>5, RequestStep DEF Serve
<1>8. CASE Leave(c)
  <2>1. NoRequest \in ClientState /\ NoRequest.pc = "idle" /\ NoRequest.token = {}
    BY DEF NoRequest, ClientState
  <2>2. ClientInOrder(NoRequest) BY <2>1 DEF ClientInOrder
  <2> QED BY <1>8, <2>1, <2>2, RequestStep DEF Leave
<1> QED BY <1>1, <1>2, <1>3, <1>4, <1>5, <1>6, <1>7, <1>8

LEMMA LinkInvHolds == Spec => []LinkInv
<1>1. Init => LinkInv
  <2> SUFFICES ASSUME Init PROVE LinkInv
    OBVIOUS
  <2>1. /\ NoRequest \in ClientState /\ NoRequest.pc = "idle" /\ NoRequest.token = {}
        /\ \A c \in Clients : client[c] = NoRequest
    BY DEF Init, NoRequest, ClientState
  <2>2. LinksTypeOK
    BY <2>1 DEF Init, LinksTypeOK
  <2> QED
    BY <2>1, <2>2 DEF Init, LinkInv, GivenKeepsItem, RevokedAreDead, AnswersAgree, OneAddress,
                      ClientInOrder
<1>2. LinkInv /\ [Next]_vars => LinkInv'
  <2> SUFFICES ASSUME LinkInv, [Next]_vars PROVE LinkInv'
    OBVIOUS
  <2>1. ASSUME NEW c \in Clients,
               \/ CreateLink(c) \/ LookUp(c) \/ Insert(c) \/ Answer(c)
               \/ Resolve(c) \/ FindToken(c) \/ Serve(c) \/ Leave(c)
        PROVE  LinkInv'
    BY <2>1, RequestKeeps
  <2>2. ASSUME NEW i \in Items, RevokeLink(i) PROVE LinkInv'
    BY <2>2, WithdrawStep DEF RevokeLink, LinkInv, LinksTypeOK
  <2>3. ASSUME NEW i \in Items, DropItem(i) PROVE LinkInv'
    BY <2>3, WithdrawStep DEF DropItem, LinkInv, LinksTypeOK
  <2>4. ASSUME NEW i \in Items, FileChanges(i) PROVE LinkInv'
    BY <2>4, FileStep
  <2>5. CASE UNCHANGED vars
    BY <2>5 DEF vars, LinkInv, LinksTypeOK, GivenKeepsItem, RevokedAreDead, AnswersAgree,
                OneAddress, ClientInOrder
  <2> QED BY <2>1, <2>2, <2>3, <2>4, <2>5 DEF Next
<1> QED BY <1>1, <1>2, PTL DEF Spec

(* token.go: once a link is revoked no address given out before works any  *)
(* more, whoever raced to insert one; an address that is answered or       *)
(* served leads to its item unless a revocation has overtaken the request. *)
THEOREM RevocationHolds == Spec => []RevokedLinksStayDead
<1>1. LinkInv => RevokedLinksStayDead
  BY DEF LinkInv, RevokedAreDead, ClientInOrder, RevokedLinksStayDead
<1> QED BY <1>1, LinkInvHolds, PTL

-----------------------------------------------------------------------------
(* EventHub.                                                               *)

(* A page that is not connected has no channel, and one that is not open   *)
(* shows nothing; a timer runs for what is gathered.                       *)
PageInOrder(p) ==
    /\ p.conn = "closed" => p.stale = {}
    /\ p.conn \in {"closed", "connecting"} => p.chan = <<>>

HubInv ==
    /\ H!HubTypeOK /\ StalePartsAreAnnounced
    /\ pending # {} => armed
    /\ \A c \in Pages : PageInOrder(page[c])

LEMMA AppendHolds ==
    ASSUME NEW S, NEW s \in Seq(S), NEW e \in S
    PROVE  /\ Append(s, e) \in Seq(S) /\ Len(Append(s, e)) = Len(s) + 1
           /\ \A i \in DOMAIN s : i \in DOMAIN Append(s, e) /\ Append(s, e)[i] = s[i]
           /\ Len(s) + 1 \in DOMAIN Append(s, e) /\ Append(s, e)[Len(s) + 1] = e
OBVIOUS

LEMMA TailHolds ==
    ASSUME NEW S, NEW s \in Seq(S), s # <<>>
    PROVE  /\ Tail(s) \in Seq(S) /\ Len(Tail(s)) = Len(s) - 1 /\ Head(s) \in S
           /\ \A i \in DOMAIN s : \/ s[i] = Head(s)
                                  \/ \E k \in DOMAIN Tail(s) : Tail(s)[k] = s[i]
<1>1. ASSUME NEW i \in DOMAIN s, i # 1
      PROVE  i - 1 \in DOMAIN Tail(s) /\ Tail(s)[i - 1] = s[i]
  BY <1>1
<1> QED
  BY <1>1

LEMMA BufferedTypes ==
    ASSUME NEW s \in Seq(SUBSET Topics)
    PROVE  UNION {s[i] : i \in DOMAIN s} \subseteq Topics
OBVIOUS

(* What a flush, or the loss of a connection, does to a page.              *)
LEMMA SentPage ==
    ASSUME NEW p \in H!PageState, NEW T \in SUBSET Topics, Len(p.chan) <= ChannelCap
    PROVE  /\ H!Sent(p, T) \in H!PageState /\ Len(H!Sent(p, T).chan) <= ChannelCap
           /\ \A f \in {"conn", "due", "ever", "stale"} : H!Sent(p, T)[f] = p[f]
           /\ p.missed \subseteq H!Sent(p, T).missed
           /\ p.skipped \subseteq H!Sent(p, T).skipped
           /\ \A i \in DOMAIN p.chan : /\ i \in DOMAIN H!Sent(p, T).chan
                                       /\ H!Sent(p, T).chan[i] = p.chan[i]
           /\ p.conn \in {"closed", "connecting"} => H!Sent(p, T).chan = p.chan
           /\ \/ p.conn = "closed"
              \/ p.conn = "connecting" /\ p.ever
              \/ T \subseteq H!Sent(p, T).missed
              \/ T \subseteq H!Sent(p, T).skipped
              \/ \E i \in DOMAIN H!Sent(p, T).chan : H!Sent(p, T).chan[i] = T
<1>0. ChannelCap \in Nat /\ Len(p.chan) \in Nat /\ p.chan \in Seq(SUBSET Topics)
  BY InstanceConstants DEF H!HubConstants, H!PageState
<1>1. CASE p.conn \notin {"served", "open"}
  BY <1>1 DEF H!Sent, H!PageState
<1>2. CASE p.conn \in {"served", "open"} /\ Len(p.chan) < ChannelCap
  <2>1. /\ Append(p.chan, T) \in Seq(SUBSET Topics) /\ Len(Append(p.chan, T)) <= ChannelCap
        /\ \A i \in DOMAIN p.chan : /\ i \in DOMAIN Append(p.chan, T)
                                    /\ Append(p.chan, T)[i] = p.chan[i]
        /\ \E i \in DOMAIN Append(p.chan, T) : Append(p.chan, T)[i] = T
    BY <1>0, <1>2, AppendHolds
  <2>2. H!Sent(p, T) = [p EXCEPT !.chan = Append(p.chan, T)]
    BY <1>2 DEF H!Sent
  <2> DEFINE q == Append(p.chan, T)
  <2> HIDE DEF q
  <2> QED
    BY <1>2, <2>1, <2>2 DEF H!PageState, q
<1>3. CASE p.conn \in {"served", "open"} /\ ~(Len(p.chan) < ChannelCap)
  BY <1>3 DEF H!Sent, H!PageState
<1> QED
  BY <1>1, <1>2, <1>3

LEMMA LostPage ==
    ASSUME NEW p \in H!PageState
    PROVE  /\ H!Lost(p) \in H!PageState /\ H!Lost(p).chan = <<>>
           /\ \A f \in {"due", "ever", "stale", "skipped"} : H!Lost(p)[f] = p[f]
           /\ H!Lost(p).conn = IF p.conn = "closed" THEN "closed" ELSE "connecting"
           /\ p.missed \subseteq H!Lost(p).missed
           /\ ~p.ever => UNION {p.chan[i] : i \in DOMAIN p.chan} \subseteq H!Lost(p).missed
<1>1. p.chan \in Seq(SUBSET Topics)
  BY DEF H!PageState
<1> DEFINE all == UNION {p.chan[i] : i \in DOMAIN p.chan}
<1>2. all \subseteq Topics
  BY <1>1, BufferedTypes
<1> DEFINE conn   == IF p.conn = "closed" THEN "closed" ELSE "connecting"
           missed == IF p.ever THEN p.missed ELSE p.missed \cup all
<1>3. H!Lost(p) = [p EXCEPT !.conn = conn, !.chan = <<>>, !.missed = missed]
  BY DEF H!Lost, H!PageState
<1>4. missed \subseteq Topics /\ p.missed \subseteq missed /\ (~p.ever => all \subseteq missed)
  BY <1>2 DEF H!PageState
<1>5. /\ <<>> \in Seq(SUBSET Topics)
      /\ conn \in {"closed", "connecting", "served", "open"}
  OBVIOUS
<1> HIDE DEF conn, missed, all
<1>6. H!Lost(p) \in H!PageState
  BY <1>3, <1>4, <1>5 DEF H!PageState
<1>7. /\ H!Lost(p).chan = <<>> /\ H!Lost(p).conn = conn /\ H!Lost(p).missed = missed
      /\ \A f \in {"due", "ever", "stale", "skipped"} : H!Lost(p)[f] = p[f]
  BY <1>3 DEF H!PageState
<1> QED
  BY <1>4, <1>6, <1>7 DEF conn, all

(* The invariant, for one page.                                            *)
Announced(c) ==
    page[c].stale \subseteq
        {t \in Topics : H!OnItsWay(c, t)} \cup page[c].missed \cup page[c].skipped
PageInv(c) ==
    /\ page[c] \in H!PageState /\ Len(page[c].chan) <= ChannelCap
    /\ PageInOrder(page[c]) /\ Announced(c)

LEMMA ByPages ==
    /\ HubInv => \A c \in Pages : PageInv(c)
    /\ HubInv' <=> /\ unpublished' \subseteq Topics /\ pending' \subseteq Topics
                   /\ armed' \in BOOLEAN /\ drops' \in Nat /\ (pending' # {} => armed')
                   /\ page' \in [Pages -> H!PageState]
                   /\ \A c \in Pages : PageInv(c)'
BY DEF HubInv, H!HubTypeOK, PageInv, Announced, StalePartsAreAnnounced, H!StalePartsAreAnnounced

LEMMA HubStep ==
    ASSUME HubInv, H!Next
    PROVE  HubInv'
<1>1. /\ unpublished \subseteq Topics /\ pending \subseteq Topics
      /\ armed \in BOOLEAN /\ drops \in Nat /\ (pending # {} => armed)
      /\ page \in [Pages -> H!PageState]
      /\ \A c \in Pages : PageInv(c)
  BY ByPages DEF HubInv, H!HubTypeOK
<1>2. ASSUME NEW c \in Pages, page' = [page EXCEPT ![c] = page'[c]],
             unpublished' = unpublished, pending' = pending, armed' = armed, drops' \in Nat,
             PageInv(c)'
      PROVE  HubInv'
  <2>1. ASSUME NEW d \in Pages
        PROVE  PageInv(d)'
    <3>1. CASE d = c
      BY <1>2, <3>1
    <3>2. CASE d # c
      <4>1. page'[d] = page[d]
        BY <1>1, <1>2, <3>2
      <4> QED
        BY <1>1, <1>2, <4>1 DEF PageInv, PageInOrder, Announced, H!OnItsWay, H!Buffered
    <3> QED
      BY <3>1, <3>2
  <2>2. page' \in [Pages -> H!PageState]
    BY <1>1, <1>2 DEF PageInv
  <2> QED
    BY <1>1, <1>2, <2>1, <2>2, ByPages
<1>3. ASSUME NEW t \in Topics, H!Change(t)
      PROVE  HubInv'
  <2>1. ASSUME NEW c \in Pages
        PROVE  PageInv(c)'
    <3> DEFINE stale == IF page[c].conn = "closed" THEN {} ELSE page[c].stale \cup {t}
    <3>1. page'[c] = [page[c] EXCEPT !.stale = stale]
      BY <1>1, <1>3 DEF H!Change
    <3>2. PageInv(c) /\ stale \subseteq Topics
      BY <1>1 DEF H!PageState
    <3>3. page[c].conn = "closed" => stale = {}
      OBVIOUS
    <3>4. stale \subseteq page[c].stale \cup {t}
      OBVIOUS
    <3> HIDE DEF stale
    <3>5. /\ page'[c] \in H!PageState /\ page'[c].stale = stale
          /\ page'[c].conn = page[c].conn /\ page'[c].chan = page[c].chan
          /\ page'[c].due = page[c].due /\ page'[c].ever = page[c].ever
          /\ page'[c].missed = page[c].missed /\ page'[c].skipped = page[c].skipped
      BY <3>1, <3>2 DEF PageInv, H!PageState
    <3>6. H!Buffered(c)' = H!Buffered(c)
      BY <3>5 DEF H!Buffered
    <3>7. Announced(c)'
      BY <1>3, <3>2, <3>4, <3>5, <3>6 DEF H!Change, PageInv, Announced, H!OnItsWay
    <3> QED
      BY <3>2, <3>3, <3>5, <3>7 DEF PageInv, PageInOrder
  <2>2. page' \in [Pages -> H!PageState]
    BY <1>3, <2>1 DEF H!Change, PageInv
  <2> QED
    BY <1>1, <1>3, <2>1, <2>2, ByPages DEF H!Change
<1>4. ASSUME NEW T \in SUBSET unpublished, H!Publish(T)
      PROVE  HubInv'
  <2>1. \A c \in Pages : PageInv(c)'
    BY <1>1, <1>4 DEF H!Publish, PageInv, PageInOrder, Announced, H!OnItsWay, H!Buffered
  <2> QED
    BY <1>1, <1>4, <2>1, ByPages DEF H!Publish
<1>5. ASSUME H!Flush
      PROVE  HubInv'
  <2>1. ASSUME NEW c \in Pages
        PROVE  PageInv(c)'
    <3>1. page'[c] = H!Sent(page[c], pending)
      BY <1>1, <1>5 DEF H!Flush
    <3>2. PageInv(c)
      BY <1>1
    <3>3. /\ page'[c] \in H!PageState /\ Len(page'[c].chan) <= ChannelCap
          /\ \A f \in {"conn", "due", "ever", "stale"} : page'[c][f] = page[c][f]
          /\ page[c].missed \subseteq page'[c].missed
          /\ page[c].skipped \subseteq page'[c].skipped
          /\ \A i \in DOMAIN page[c].chan : /\ i \in DOMAIN page'[c].chan
                                            /\ page'[c].chan[i] = page[c].chan[i]
          /\ page[c].conn \in {"closed", "connecting"} => page'[c].chan = page[c].chan
          /\ \/ page[c].conn = "closed"
             \/ page[c].conn = "connecting" /\ page[c].ever
             \/ pending \subseteq page'[c].missed
             \/ pending \subseteq page'[c].skipped
             \/ \E i \in DOMAIN page'[c].chan : page'[c].chan[i] = pending
      BY <1>1, <3>1, <3>2, SentPage DEF PageInv
    <3>4. PageInOrder(page'[c])
      BY <3>2, <3>3 DEF PageInv, PageInOrder
    <3>5. page'[c].stale = page[c].stale /\ page'[c].conn = page[c].conn
          /\ page'[c].ever = page[c].ever /\ page'[c].due = page[c].due
      BY <3>3
    <3>6. H!Buffered(c) \subseteq H!Buffered(c)'
      BY <3>3 DEF H!Buffered
    <3>7. \/ page[c].stale = {}
          \/ page'[c].conn # "open" /\ page'[c].ever
          \/ pending \subseteq page'[c].missed \cup page'[c].skipped \cup H!Buffered(c)'
      BY <3>2, <3>3, <3>5 DEF PageInv, PageInOrder, H!Buffered
    <3>8. Announced(c)'
      BY <1>5, <3>2, <3>3, <3>5, <3>6, <3>7 DEF H!Flush, PageInv, Announced, H!OnItsWay
    <3> QED
      BY <3>3, <3>4, <3>8 DEF PageInv
  <2>2. page' \in [Pages -> H!PageState]
    BY <1>5, <2>1 DEF H!Flush, PageInv
  <2> QED
    BY <1>1, <1>5, <2>1, <2>2, ByPages DEF H!Flush
<1>6. ASSUME H!Restart
      PROVE  HubInv'
  <2>1. ASSUME NEW c \in Pages
        PROVE  PageInv(c)'
    <3> DEFINE p == H!Lost(page[c])
               missed == IF p.conn = "closed" \/ p.ever THEN p.missed
                         ELSE p.missed \cup pending \cup unpublished
    <3>1. page'[c] = [p EXCEPT !.missed = missed]
      BY <1>1, <1>6 DEF H!Restart
    <3>2. PageInv(c) /\ page[c] \in H!PageState
      BY <1>1
    <3>3. /\ p \in H!PageState /\ p.chan = <<>>
          /\ \A f \in {"due", "ever", "stale", "skipped"} : p[f] = page[c][f]
          /\ p.conn = IF page[c].conn = "closed" THEN "closed" ELSE "connecting"
          /\ page[c].missed \subseteq p.missed
          /\ ~page[c].ever => H!Buffered(c) \subseteq p.missed
      BY <3>2, LostPage DEF H!Buffered
    <3> HIDE DEF p
    <3>4. missed \subseteq Topics /\ p.missed \subseteq missed
      BY <1>1, <3>3 DEF H!PageState
    <3>5. p.conn = "closed" \/ p.ever \/ pending \cup unpublished \subseteq missed
      OBVIOUS
    <3> HIDE DEF missed
    <3>6. /\ page'[c] \in H!PageState /\ page'[c].missed = missed
          /\ page'[c].conn = p.conn /\ page'[c].chan = <<>> /\ page'[c].due = p.due
          /\ page'[c].ever = p.ever /\ page'[c].stale = p.stale /\ page'[c].skipped = p.skipped
      BY <3>1, <3>3, <3>4 DEF H!PageState
    <3>7. PageInOrder(page'[c]) /\ Len(page'[c].chan) <= ChannelCap
      BY <3>2, <3>3, <3>6, InstanceConstants DEF PageInv, PageInOrder, H!HubConstants
    <3>8. Announced(c)'
      BY <1>1, <3>2, <3>3, <3>4, <3>5, <3>6 DEF PageInv, PageInOrder, Announced, H!OnItsWay
    <3> QED
      BY <3>6, <3>7, <3>8 DEF PageInv
  <2>2. page' \in [Pages -> H!PageState]
    BY <1>6, <2>1 DEF H!Restart, PageInv
  <2>3. unpublished' = {} /\ pending' = {} /\ armed' = FALSE /\ drops' \in Nat
    BY <1>1, <1>6 DEF H!Restart
  <2> QED
    BY <2>1, <2>2, <2>3, ByPages
<1>7. ASSUME NEW c \in Pages, H!OpenPage(c) \/ H!ClosePage(c)
      PROVE  HubInv'
  <2>1. page'[c] \in {H!NoPage, [H!NoPage EXCEPT !.conn = "connecting"]}
    BY <1>1, <1>7 DEF H!OpenPage, H!ClosePage
  <2>2. /\ page'[c] \in H!PageState /\ page'[c].chan = <<>> /\ page'[c].stale = {}
    <3>1. H!NoPage \in H!PageState
      BY DEF H!NoPage, H!PageState
    <3>2. [H!NoPage EXCEPT !.conn = "connecting"] \in H!PageState
      BY <3>1 DEF H!PageState
    <3>3. \A p \in {H!NoPage, [H!NoPage EXCEPT !.conn = "connecting"]} :
             p.chan = <<>> /\ p.stale = {}
      BY DEF H!NoPage
    <3> QED
      BY <2>1, <3>1, <3>2, <3>3
  <2>3. PageInv(c)'
    BY <2>2, InstanceConstants DEF PageInv, PageInOrder, Announced, H!HubConstants
  <2> QED
    BY <1>1, <1>2, <1>7, <2>3 DEF H!OpenPage, H!ClosePage
<1>8. ASSUME NEW c \in Pages, H!Subscribe(c)
      PROVE  HubInv'
  <2>1. page'[c] = [page[c] EXCEPT !.conn = "served", !.chan = <<>>]
    BY <1>1, <1>8 DEF H!Subscribe
  <2>2. PageInv(c) /\ page[c].chan = <<>> /\ page[c].conn = "connecting"
    BY <1>1, <1>8 DEF H!Subscribe, PageInv, PageInOrder
  <2>3. /\ page'[c] \in H!PageState /\ page'[c].chan = <<>> /\ page'[c].conn = "served"
        /\ page'[c].due = page[c].due /\ page'[c].ever = page[c].ever
        /\ page'[c].stale = page[c].stale
        /\ page'[c].missed = page[c].missed /\ page'[c].skipped = page[c].skipped
    BY <2>1, <2>2 DEF PageInv, H!PageState
  <2>4. H!Buffered(c)' = H!Buffered(c)
    BY <2>2, <2>3 DEF H!Buffered
  <2>5. Announced(c)'
    BY <1>8, <2>2, <2>3, <2>4 DEF H!Subscribe, PageInv, Announced, H!OnItsWay
  <2>6. PageInv(c)'
    BY <2>2, <2>3, <2>5 DEF PageInv, PageInOrder
  <2> QED
    BY <1>1, <1>2, <1>8, <2>6 DEF H!Subscribe
<1>9. ASSUME NEW c \in Pages, H!Opened(c)
      PROVE  HubInv'
  <2>1. page'[c] = [page[c] EXCEPT !.conn = "open", !.ever = TRUE,
                        !.due = IF page[c].ever THEN Topics ELSE @,
                        !.missed = IF page[c].ever THEN {} ELSE @,
                        !.skipped = IF page[c].ever THEN {} ELSE @]
    BY <1>1, <1>9 DEF H!Opened
  <2>2. PageInv(c) /\ page[c].conn = "served"
    BY <1>1, <1>9 DEF H!Opened
  <2>3. page[c] \in H!PageState
    BY <2>2 DEF PageInv
  <2>4. CASE page[c].ever
    <3>1. page'[c] = [page[c] EXCEPT !.conn = "open", !.ever = TRUE, !.due = Topics,
                                     !.missed = {}, !.skipped = {}]
      BY <2>1, <2>4
    <3>2. /\ page'[c] \in H!PageState /\ page'[c].due = Topics /\ page'[c].conn = "open"
          /\ page'[c].chan = page[c].chan /\ page'[c].stale \subseteq Topics
      BY <2>3, <3>1 DEF H!PageState
    <3>3. PageInv(c)'
      BY <2>2, <3>2 DEF PageInv, PageInOrder, Announced, H!OnItsWay
    <3> QED
      BY <1>1, <1>2, <1>9, <3>3 DEF H!Opened
  <2>5. CASE ~page[c].ever
    <3>1. page'[c] = [page[c] EXCEPT !.conn = "open", !.ever = TRUE]
      BY <2>1, <2>3, <2>5 DEF H!PageState
    <3>2. /\ page'[c] \in H!PageState /\ page'[c].due = page[c].due
          /\ page'[c].conn = "open" /\ page'[c].stale = page[c].stale
          /\ page'[c].chan = page[c].chan
          /\ page'[c].missed = page[c].missed /\ page'[c].skipped = page[c].skipped
      BY <2>3, <3>1 DEF H!PageState
    <3>3. H!Buffered(c)' = H!Buffered(c)
      BY <3>2 DEF H!Buffered
    <3>4. Announced(c)'
      BY <1>9, <2>2, <2>5, <3>2, <3>3 DEF H!Opened, PageInv, Announced, H!OnItsWay
    <3>5. PageInv(c)'
      BY <2>2, <3>2, <3>4 DEF PageInv, PageInOrder
    <3> QED
      BY <1>1, <1>2, <1>9, <3>5 DEF H!Opened
  <2> QED
    BY <2>4, <2>5
<1>10. ASSUME NEW c \in Pages, H!Deliver(c)
       PROVE  HubInv'
  <2>1. page'[c] = [page[c] EXCEPT !.chan = Tail(page[c].chan),
                                   !.due = page[c].due \cup Head(page[c].chan)]
    BY <1>1, <1>10 DEF H!Deliver
  <2>2. /\ PageInv(c) /\ page[c].conn = "open" /\ page[c].chan # <<>>
        /\ page[c].chan \in Seq(SUBSET Topics)
    BY <1>1, <1>10 DEF H!Deliver, PageInv, H!PageState
  <2> DEFINE h == Head(page[c].chan)
             r == Tail(page[c].chan)
  <2>3. /\ r \in Seq(SUBSET Topics) /\ Len(r) = Len(page[c].chan) - 1 /\ h \in SUBSET Topics
        /\ H!Buffered(c) \subseteq h \cup UNION {r[i] : i \in DOMAIN r}
    BY <2>2, TailHolds DEF H!Buffered
  <2> HIDE DEF h, r
  <2>4. /\ page'[c] \in H!PageState /\ page'[c].chan = r /\ page'[c].due = page[c].due \cup h
        /\ \A f \in {"conn", "ever", "stale", "missed", "skipped"} : page'[c][f] = page[c][f]
    BY <2>1, <2>2, <2>3 DEF PageInv, H!PageState, h, r
  <2>5. Len(page'[c].chan) <= ChannelCap
    BY <2>2, <2>3, <2>4, InstanceConstants DEF PageInv, H!HubConstants
  <2>6. H!Buffered(c)' = UNION {r[i] : i \in DOMAIN r}
    BY <2>4 DEF H!Buffered
  <2>7. PageInv(c)'
    BY <1>10, <2>2, <2>3, <2>4, <2>5, <2>6
    DEF H!Deliver, PageInv, PageInOrder, Announced, H!OnItsWay
  <2> QED
    BY <1>1, <1>2, <1>10, <2>7 DEF H!Deliver
<1>11. ASSUME NEW c \in Pages, NEW t \in Topics, H!Fetch(c, t)
       PROVE  HubInv'
  <2>1. page'[c] = [page[c] EXCEPT !.due = @ \ {t}, !.stale = @ \ {t},
                                   !.missed = @ \ {t}, !.skipped = @ \ {t}]
    BY <1>1, <1>11 DEF H!Fetch
  <2>2. PageInv(c)
    BY <1>1
  <2>3. /\ page'[c] \in H!PageState
        /\ page'[c].due = page[c].due \ {t} /\ page'[c].stale = page[c].stale \ {t}
        /\ page'[c].missed = page[c].missed \ {t} /\ page'[c].skipped = page[c].skipped \ {t}
        /\ page'[c].conn = page[c].conn /\ page'[c].ever = page[c].ever
        /\ page'[c].chan = page[c].chan
    <3>1. page[c] \in H!PageState
      BY <2>2 DEF PageInv
    <3> DEFINE due     == page[c].due \ {t}
               stale   == page[c].stale \ {t}
               missed  == page[c].missed \ {t}
               skipped == page[c].skipped \ {t}
    <3>2. page'[c] = [page[c] EXCEPT !.due = due, !.stale = stale, !.missed = missed,
                                     !.skipped = skipped]
      BY <2>1, <3>1 DEF H!PageState
    <3>3. /\ due \subseteq Topics /\ stale \subseteq Topics
          /\ missed \subseteq Topics /\ skipped \subseteq Topics
      BY <3>1 DEF H!PageState
    <3> HIDE DEF due, stale, missed, skipped
    <3>4. /\ page'[c] \in H!PageState
          /\ page'[c].due = due /\ page'[c].stale = stale
          /\ page'[c].missed = missed /\ page'[c].skipped = skipped
          /\ page'[c].conn = page[c].conn /\ page'[c].ever = page[c].ever
          /\ page'[c].chan = page[c].chan
      BY <3>1, <3>2, <3>3 DEF H!PageState
    <3> QED
      BY <3>4 DEF due, stale, missed, skipped
  <2>4. Announced(c)'
    BY <1>11, <2>2, <2>3 DEF H!Fetch, PageInv, Announced, H!OnItsWay, H!Buffered
  <2>5. PageInv(c)'
    BY <2>2, <2>3, <2>4 DEF PageInv, PageInOrder
  <2> QED
    BY <1>1, <1>2, <1>11, <2>5 DEF H!Fetch
<1>12. ASSUME NEW c \in Pages, H!Drop(c)
       PROVE  HubInv'
  <2>1. page'[c] = H!Lost(page[c])
    BY <1>1, <1>12 DEF H!Drop
  <2>2. PageInv(c) /\ page[c].conn \in {"served", "open"} /\ page[c] \in H!PageState
    BY <1>1, <1>12 DEF H!Drop, H!Subscribed
  <2>3. /\ page'[c] \in H!PageState /\ page'[c].chan = <<>> /\ page'[c].conn = "connecting"
        /\ page'[c].due = page[c].due /\ page'[c].ever = page[c].ever
        /\ page'[c].stale = page[c].stale /\ page'[c].skipped = page[c].skipped
        /\ page[c].missed \subseteq page'[c].missed
        /\ ~page[c].ever => H!Buffered(c) \subseteq page'[c].missed
    BY <2>1, <2>2, LostPage DEF H!Buffered
  <2>4. PageInv(c)'
    BY <1>12, <2>2, <2>3, InstanceConstants
    DEF H!Drop, PageInv, PageInOrder, Announced, H!OnItsWay, H!HubConstants
  <2>5. drops' \in Nat
    BY <1>1, <1>12 DEF H!Drop
  <2> QED
    BY <1>1, <1>2, <1>12, <2>4, <2>5 DEF H!Drop
<1> QED
  BY <1>3, <1>4, <1>5, <1>6, <1>7, <1>8, <1>9, <1>10, <1>11, <1>12 DEF H!Next

(* An open page that shows old data will hear of it, or the topic was sent *)
(* when the page could not take it: through lost connections, restarts and *)
(* any number of pages, topics and publishers (Publish, flush,             *)
(* eventsHandler, onopen).                                                 *)
THEOREM StalePartsAlwaysAnnounced == H!Spec => []StalePartsAreAnnounced
<1>1. H!Init => HubInv
  <2> SUFFICES ASSUME H!Init
               PROVE  HubInv
    OBVIOUS
  <2>1. /\ H!NoPage \in H!PageState /\ H!NoPage.stale = {} /\ H!NoPage.chan = <<>>
        /\ ChannelCap \in Nat
    BY InstanceConstants DEF H!NoPage, H!PageState, H!HubConstants
  <2>2. ASSUME NEW c \in Pages
        PROVE  page[c] = H!NoPage
    BY DEF H!Init
  <2>3. StalePartsAreAnnounced
    BY <2>1, <2>2 DEF StalePartsAreAnnounced, H!StalePartsAreAnnounced
  <2>4. H!HubTypeOK
    <3>1. page \in [Pages -> H!PageState]
      BY <2>1 DEF H!Init
    <3>2. \A c \in Pages : Len(page[c].chan) <= ChannelCap
      BY <2>1, <2>2
    <3> QED
      BY <3>1, <3>2 DEF H!Init, H!HubTypeOK
  <2>5. \A c \in Pages : PageInOrder(page[c])
    BY <2>1, <2>2 DEF PageInOrder
  <2> QED
    BY <2>3, <2>4, <2>5 DEF H!Init, HubInv
<1>2. HubInv /\ [H!Next]_H!vars => HubInv'
  <2>1. ASSUME HubInv, UNCHANGED H!vars
        PROVE  HubInv'
    BY <2>1 DEF HubInv, H!HubTypeOK, StalePartsAreAnnounced, H!StalePartsAreAnnounced,
                H!OnItsWay, H!Buffered, H!vars
  <2> QED
    BY <2>1, HubStep
<1>3. HubInv => StalePartsAreAnnounced
  BY DEF HubInv
<1> QED
  BY <1>1, <1>2, <1>3, PTL DEF H!Spec

-----------------------------------------------------------------------------
(* Fetch.                                                                  *)

(* The files in a pipe or a channel.                                       *)
FilesAt(s) == {i \in DOMAIN s : s[i] = "file"}
FilesIn(s) == Cardinality(FilesAt(s))
One(e)     == IF e = "file" THEN 1 ELSE 0

LEMMA FilesInType ==
    ASSUME NEW S, NEW s \in Seq(S)
    PROVE  IsFiniteSet(FilesAt(s)) /\ FilesIn(s) \in Nat
<1>1. DOMAIN s = 1 .. Len(s) /\ Len(s) \in Nat
  OBVIOUS
<1>2. IsFiniteSet(1 .. Len(s))
  BY <1>1, FS_Interval
<1>3. FilesAt(s) \in SUBSET (1 .. Len(s))
  BY <1>1 DEF FilesAt
<1> QED
  BY <1>2, <1>3, FS_Subset, FS_CardinalityType DEF FilesIn

LEMMA FilesInNone == FilesIn(<<>>) = 0
<1>1. FilesAt(<<>>) = {}
  BY DEF FilesAt
<1> QED
  BY <1>1, FS_EmptySet DEF FilesIn

LEMMA FilesInAppend ==
    ASSUME NEW S, NEW s \in Seq(S), NEW e \in S
    PROVE  FilesIn(Append(s, e)) = FilesIn(s) + One(e)
<1>1. IsFiniteSet(FilesAt(s)) /\ FilesIn(s) \in Nat
  BY FilesInType
<1>2. CASE e = "file"
  <2>1. FilesAt(Append(s, e)) = FilesAt(s) \cup {Len(s) + 1}
    BY <1>2 DEF FilesAt
  <2>2. Len(s) + 1 \notin FilesAt(s)
    BY DEF FilesAt
  <2> QED
    BY <1>1, <1>2, <2>1, <2>2, FS_AddElement DEF FilesIn, One
<1>3. CASE e # "file"
  <2>1. FilesAt(Append(s, e)) = FilesAt(s)
    BY <1>3 DEF FilesAt
  <2> QED
    BY <1>1, <1>3, <2>1 DEF FilesIn, One
<1> QED
  BY <1>2, <1>3

LEMMA FilesInTail ==
    ASSUME NEW S, NEW s \in Seq(S), s # <<>>
    PROVE  FilesIn(s) = FilesIn(Tail(s)) + One(Head(s))
<1>1. /\ Tail(s) \in Seq(S) /\ Len(Tail(s)) = Len(s) - 1 /\ Len(s) \in Nat \ {0}
      /\ \A i \in 1 .. Len(s) - 1 : Tail(s)[i] = s[i + 1]
  OBVIOUS
<1>2. IsFiniteSet(FilesAt(s)) /\ IsFiniteSet(FilesAt(Tail(s))) /\ FilesIn(Tail(s)) \in Nat
  BY <1>1, FilesInType
<1> DEFINE rest == FilesAt(s) \ {1}
           next == [i \in FilesAt(Tail(s)) |-> i + 1]
<1>3. next \in Surjection(FilesAt(Tail(s)), rest) /\ next \in Injection(FilesAt(Tail(s)), rest)
  <2>1. ASSUME NEW i \in FilesAt(Tail(s))
        PROVE  next[i] \in rest /\ next[i] = i + 1 /\ i \in Nat
    BY <1>1 DEF FilesAt
  <2>2. ASSUME NEW i \in rest
        PROVE  i - 1 \in FilesAt(Tail(s)) /\ next[i - 1] = i
    BY <1>1 DEF FilesAt
  <2>3. next \in [FilesAt(Tail(s)) -> rest]
    BY <2>1
  <2> HIDE DEF next, rest
  <2>4. \A i, j \in FilesAt(Tail(s)) : next[i] = next[j] => i = j
    BY <2>1
  <2> QED
    BY <2>2, <2>3, <2>4 DEF Surjection, Injection, IsInjective
<1>4. Cardinality(rest) = FilesIn(Tail(s))
  BY <1>2, <1>3, FS_Surjection DEF FilesIn
<1>5. Cardinality(rest) = IF 1 \in FilesAt(s) THEN FilesIn(s) - 1 ELSE FilesIn(s)
  BY <1>2, FS_RemoveElement DEF FilesIn
<1>6. FilesIn(s) \in Nat
  BY FilesInType
<1>7. 1 \in FilesAt(s) <=> Head(s) = "file"
  BY <1>1 DEF FilesAt
<1> QED
  BY <1>2, <1>4, <1>5, <1>6, <1>7 DEF One

(* What the run has reported, or will.                                     *)
ErrorIn(s) == \E i \in DOMAIN s : s[i] = "error"

LEMMA ErrorInAppend ==
    ASSUME NEW S, NEW s \in Seq(S), NEW e \in S
    PROVE  /\ ErrorIn(s) => ErrorIn(Append(s, e))
           /\ e = "error" => ErrorIn(Append(s, e))
<1>1. ASSUME NEW i \in DOMAIN s
      PROVE  i \in DOMAIN Append(s, e) /\ Append(s, e)[i] = s[i]
  OBVIOUS
<1>2. Len(s) + 1 \in DOMAIN Append(s, e) /\ Append(s, e)[Len(s) + 1] = e
  OBVIOUS
<1> QED
  BY <1>1, <1>2 DEF ErrorIn

LEMMA ErrorInTail ==
    ASSUME NEW S, NEW s \in Seq(S), s # <<>>, ErrorIn(s)
    PROVE  Head(s) = "error" \/ ErrorIn(Tail(s))
<1>1. PICK i \in DOMAIN s : s[i] = "error"
  BY DEF ErrorIn
<1>2. CASE i = 1
  BY <1>1, <1>2
<1>3. CASE i # 1
  <2>1. i - 1 \in DOMAIN Tail(s) /\ Tail(s)[i - 1] = s[i]
    BY <1>3
  <2> QED
    BY <1>1, <2>1 DEF ErrorIn
<1> QED
  BY <1>2, <1>3

(* Who holds the files: the pipe and the reader all that were printed, the *)
(* reader's hand, the channel and the pool all that were read, unless the  *)
(* job was cancelled.                                                      *)
InHand == IF reader.pc = "send" THEN 1 ELSE 0
Readers == [pc : {"scan", "send", "fail", "end"}, files : Nat]
Taken   == [received : Nat, landed : Nat, told : BOOLEAN,
            verdict : {"none", "done", "failed", "cancelled"}]
FetchShape ==
    /\ child \in {"new", "running", "killed", "ok", "bad"}
    /\ main \in {"wait", "log", "report", "closed"}
    /\ made \in Nat /\ stdout \in Seq(F!Lines) /\ ch \in Seq(F!Events)
    /\ reader \in Readers /\ cancelled \in BOOLEAN /\ expired \in BOOLEAN
    /\ pool \in Taken

FilesConserved ==
    /\ made = FilesIn(stdout) + reader.files
    /\ ~cancelled => reader.files = InHand + FilesIn(ch) + pool.received

(* A reader that stopped early, and a process that was killed by its       *)
(* deadline, are reported before the channel is closed.                    *)
Reported == pool.told \/ ErrorIn(ch)
FailuresReported ==
    /\ reader.pc = "end" => (stdout = <<>> /\ F!Ended) \/ Reported
    /\ child = "killed" => expired \/ cancelled
    /\ main # "wait" => reader.pc = "end" /\ F!Ended
    /\ main = "closed" /\ child = "killed" => cancelled \/ Reported
    /\ pool.verdict # "none" => main = "closed" /\ ch = <<>>
    /\ pool.verdict \in {"done", "failed"} => ~cancelled

NotStarted ==
    child = "new" => /\ made = 0 /\ stdout = <<>> /\ ch = <<>> /\ main = "wait"
                     /\ reader = [pc |-> "scan", files |-> 0]
                     /\ pool.received = 0 /\ pool.verdict = "none"

FetchInv == FetchShape /\ FilesConserved /\ FailuresReported /\ NotStarted

LEMMA FetchSettles == FetchInv => SilenceMeansComplete
<1> SUFFICES ASSUME FetchInv, pool.verdict \in {"done", "failed"}, ~pool.told
             PROVE  child # "killed" /\ pool.received = made
  BY DEF SilenceMeansComplete, F!SilenceMeansComplete
<1>1. ch = <<>> /\ main = "closed" /\ ~cancelled
  BY DEF FetchInv, FailuresReported
<1>2. ~Reported
  BY <1>1 DEF Reported, ErrorIn
<1>3. reader.pc = "end" /\ stdout = <<>> /\ child # "killed"
  BY <1>1, <1>2 DEF FetchInv, FailuresReported
<1>4. made = reader.files /\ reader.files = pool.received
  <2>1. /\ made = FilesIn(stdout) + reader.files
        /\ reader.files = InHand + FilesIn(ch) + pool.received
        /\ reader.files \in Nat /\ pool.received \in Nat
    BY <1>1 DEF FetchInv, FilesConserved, FetchShape, Readers, Taken
  <2>2. FilesIn(stdout) = 0 /\ FilesIn(ch) = 0 /\ InHand = 0
    BY <1>1, <1>3, FilesInNone DEF InHand
  <2> QED
    BY <2>1, <2>2
<1> QED
  BY <1>3, <1>4

LEMMA ProcessSteps ==
    ASSUME FetchInv,
           \/ F!Start \/ F!StartFails \/ F!Complain \/ F!Kill
           \/ \E line \in F!Lines : F!PrintLine(line)
           \/ \E code \in {"ok", "bad"} : F!Exit(code)
    PROVE  FetchInv'
<1> USE DEF FetchInv, FetchShape, FilesConserved, FailuresReported, NotStarted,
            F!Running, F!Ended, Reported, InHand
<1>1. CASE F!Start
  BY <1>1 DEF F!Start
<1>2. CASE F!StartFails
  <2>1. <<"error">> = Append(<<>>, "error") /\ <<>> \in Seq(F!Events) /\ "error" \in F!Events
    BY DEF F!Events
  <2>2. /\ <<"error">> \in Seq(F!Events) /\ ErrorIn(<<"error">>)
        /\ FilesIn(<<"error">>) = FilesIn(<<>>) + One("error")
    <3>1. /\ FilesIn(Append(<<>>, "error")) = FilesIn(<<>>) + One("error")
          /\ ErrorIn(Append(<<>>, "error"))
      BY <2>1, FilesInAppend, ErrorInAppend
    <3>2. Append(<<>>, "error") \in Seq(F!Events)
      BY <2>1
    <3> QED
      BY <2>1, <3>1, <3>2
  <2>3. ch' = <<"error">> /\ UNCHANGED <<made, stdout, cancelled, expired, pool>>
        /\ child' = "bad" /\ main' = "closed" /\ reader' = [pc |-> "end", files |-> 0]
    BY <1>2 DEF F!StartFails
  <2>4. ErrorIn(ch)' /\ FilesIn(ch)' = 0 /\ FilesIn(stdout)' = 0
    BY <1>2, <2>2, <2>3, FilesInNone DEF F!StartFails, One
  <2>5. reader' \in Readers /\ reader'.files = 0 /\ reader'.pc = "end" /\ InHand' = 0
    BY <2>3 DEF Readers
  <2>6. made = 0 /\ pool.received = 0 /\ pool.verdict = "none"
    BY <1>2 DEF F!StartFails
  <2>7. FetchShape'
    BY <2>2, <2>3, <2>5
  <2>8. FilesConserved'
    BY <2>3, <2>4, <2>5, <2>6
  <2>9. FailuresReported' /\ NotStarted'
    BY <2>3, <2>4, <2>5, <2>6
  <2> QED
    BY <2>7, <2>8, <2>9
<1>3. CASE F!Complain
  BY <1>3 DEF F!Complain
<1>4. CASE F!Kill
  BY <1>4 DEF F!Kill
<1>5. ASSUME NEW line \in F!Lines, F!PrintLine(line)
      PROVE  FetchInv'
  <2>1. /\ stdout' = Append(stdout, line) /\ stdout' \in Seq(F!Lines)
        /\ UNCHANGED <<child, reader, main, ch, cancelled, expired, pool>>
        /\ made' = made + One(line) /\ child = "running"
    BY <1>5 DEF F!PrintLine, One
  <2>2. FilesIn(stdout)' = FilesIn(stdout) + One(line) /\ FilesIn(stdout) \in Nat
    BY <2>1, FilesInAppend, FilesInType
  <2>3. One(line) \in Nat
    BY DEF One
  <2>4. FetchShape' /\ FilesConserved'
    BY <2>1, <2>2, <2>3 DEF Readers
  <2> QED
    BY <2>1, <2>4
<1>6. ASSUME NEW code \in {"ok", "bad"}, F!Exit(code)
      PROVE  FetchInv'
  BY <1>6 DEF F!Exit
<1> QED
  BY <1>1, <1>2, <1>3, <1>4, <1>5, <1>6

LEMMA ReaderSteps ==
    ASSUME FetchInv, F!ReadLine \/ F!ReadEnd \/ F!SendRead \/ F!ReadError \/ F!ReadErrorEnd
    PROVE  FetchInv'
<1> USE DEF FetchInv, FetchShape, FilesConserved, FailuresReported, NotStarted,
            F!Running, F!Ended, Reported, InHand
<1>0. FilesIn(ch) \in Nat /\ FilesIn(stdout) \in Nat
  BY FilesInType
<1>1. CASE F!ReadLine
  <2> DEFINE head == Head(stdout)
  <2>1. /\ Tail(stdout) \in Seq(F!Lines) /\ head \in F!Lines /\ stdout # <<>>
        /\ reader.pc = "scan"
    BY <1>1 DEF F!ReadLine
  <2>2. /\ reader'.files = reader.files + One(head) /\ reader'.pc = F!Steps[head]
        /\ reader' = [pc |-> reader'.pc, files |-> reader'.files]
        /\ stdout' = Tail(stdout)
        /\ UNCHANGED <<child, made, main, ch, cancelled, expired, pool>>
    BY <1>1 DEF F!ReadLine, One
  <2>3. FilesIn(stdout) = FilesIn(stdout)' + One(head) /\ FilesIn(stdout)' \in Nat
    BY <2>1, <2>2, FilesInTail, FilesInType
  <2> HIDE DEF head
  <2>4. reader'.pc \in {"scan", "send", "fail"} /\ (reader'.pc = "send" <=> head = "file")
    BY <2>1, <2>2 DEF F!Steps, F!Lines
  <2>5. reader' \in Readers
    BY <2>2, <2>4 DEF One, Readers
  <2>6. FilesConserved'
    <3>1. made' = FilesIn(stdout)' + reader'.files
      BY <2>2, <2>3 DEF One, Readers
    <3>2. InHand = 0 /\ InHand' = One(head)
      BY <2>1, <2>4 DEF One
    <3>3. ~cancelled => reader'.files = InHand' + FilesIn(ch)' + pool'.received
      BY <1>0, <2>2, <3>2 DEF One, Readers, Taken
    <3> QED
      BY <2>2, <3>1, <3>3
  <2> QED
    BY <2>1, <2>2, <2>4, <2>5, <2>6
<1>2. CASE F!ReadEnd
  <2>1. /\ reader.pc = "scan" /\ stdout = <<>> /\ F!Ended
        /\ reader' = [reader EXCEPT !.pc = "end"]
        /\ UNCHANGED <<child, made, stdout, main, ch, cancelled, expired, pool>>
    BY <1>2 DEF F!ReadEnd
  <2>2. reader' \in Readers /\ reader'.files = reader.files /\ reader'.pc = "end"
    BY <2>1 DEF Readers
  <2> QED
    BY <2>1, <2>2
<1>3. CASE F!SendRead
  <2> DEFINE e == IF reader.pc = "send" THEN "file" ELSE "error"
  <2>1. /\ reader.pc \in {"send", "fail"} /\ ch' = Append(ch, e)
        /\ reader' = [reader EXCEPT !.pc = IF reader.pc = "send" THEN "scan" ELSE "end"]
        /\ UNCHANGED <<child, made, stdout, main, cancelled, expired, pool>>
    BY <1>3 DEF F!SendRead
  <2>2. e \in F!Events /\ One(e) = InHand /\ (e = "error" <=> reader.pc = "fail")
    BY <2>1 DEF F!Events, One
  <2> HIDE DEF e
  <2>3. /\ ch' \in Seq(F!Events) /\ FilesIn(ch)' = FilesIn(ch) + InHand
        /\ ErrorIn(ch) => ErrorIn(ch)'
        /\ reader.pc = "fail" => ErrorIn(ch)'
    BY <2>1, <2>2, FilesInAppend, ErrorInAppend
  <2>4. /\ reader' \in Readers /\ reader'.files = reader.files
        /\ reader'.pc = IF reader.pc = "send" THEN "scan" ELSE "end"
    BY <2>1 DEF Readers
  <2>5. child # "new" /\ main = "wait" /\ pool.verdict = "none"
    BY <2>1
  <2> QED
    BY <1>0, <2>1, <2>3, <2>4, <2>5
<1>4. CASE F!ReadError \/ F!ReadErrorEnd
  BY <1>4 DEF F!ReadError, F!ReadErrorEnd
<1> QED
  BY <1>1, <1>2, <1>3, <1>4

LEMMA RunSteps ==
    ASSUME FetchInv, F!Wait \/ F!SendLog \/ F!Report \/ F!Expire \/ F!CancelJob
    PROVE  FetchInv'
<1> USE DEF FetchInv, FetchShape, FilesConserved, FailuresReported, NotStarted,
            F!Running, F!Ended, Reported, InHand
<1>0. FilesIn(ch) \in Nat
  BY FilesInType
<1>1. CASE F!Wait
  BY <1>1 DEF F!Wait
<1>2. CASE F!SendLog
  <2>1. "log" \in F!Events /\ One("log") = 0
    BY DEF F!Events, One
  <2>2. /\ ch' = Append(ch, "log") /\ ch' \in Seq(F!Events) /\ FilesIn(ch)' = FilesIn(ch)
        /\ ErrorIn(ch) => ErrorIn(ch)'
    BY <1>0, <1>2, <2>1, FilesInAppend, ErrorInAppend DEF F!SendLog
  <2> QED
    BY <1>2, <2>2 DEF F!SendLog
<1>3. CASE F!Report
  <2>1. "error" \in F!Events /\ One("error") = 0
    BY DEF F!Events, One
  <2>2. Append(ch, "error") \in Seq(F!Events)
    BY <2>1
  <2>3. /\ ch' \in Seq(F!Events) /\ FilesIn(ch)' = FilesIn(ch)
        /\ ErrorIn(ch) => ErrorIn(ch)'
        /\ F!Failed => ErrorIn(ch)'
    <3>1. /\ FilesIn(Append(ch, "error")) = FilesIn(ch) + One("error")
          /\ ErrorIn(Append(ch, "error"))
      BY <2>1, FilesInAppend, ErrorInAppend
    <3>2. CASE F!Failed
      <4>1. ch' = Append(ch, "error")
        BY <1>3, <3>2 DEF F!Report
      <4> QED
        BY <1>0, <2>1, <2>2, <3>1, <4>1
    <3>3. CASE ~F!Failed
      <4>1. ch' = ch
        BY <1>3, <3>3 DEF F!Report
      <4> QED
        BY <3>3, <4>1
    <3> QED
      BY <3>2, <3>3
  <2>4. child = "killed" => F!Failed \/ cancelled
    BY DEF F!Failed
  <2> QED
    BY <1>3, <2>3, <2>4 DEF F!Report
<1>4. CASE F!Expire \/ F!CancelJob
  BY <1>4 DEF F!Expire, F!CancelJob
<1> QED
  BY <1>1, <1>2, <1>3, <1>4

LEMMA TakeEventStep ==
    ASSUME FetchInv, F!TakeEvent
    PROVE  FetchInv'
<1> DEFINE head == Head(ch)
<1>1. /\ ch # <<>> /\ ch' = Tail(ch) /\ pool.verdict = "none" /\ ch' \in Seq(F!Events)
      /\ UNCHANGED <<child, made, stdout, reader, main, cancelled, expired>>
  BY DEF F!TakeEvent, FetchInv, FetchShape
<1>2. /\ FilesIn(ch) = FilesIn(ch)' + One(head) /\ FilesIn(ch)' \in Nat
      /\ ErrorIn(ch) => head = "error" \/ ErrorIn(ch)'
  BY <1>1, FilesInTail, FilesInType, ErrorInTail DEF FetchInv, FetchShape
<1>3. pool \in Taken
  BY DEF FetchInv, FetchShape
<1>4. \/ head = "log" /\ pool' = pool
      \/ head = "error" /\ pool' = [pool EXCEPT !.told = TRUE]
      \/ head = "file" /\ cancelled /\ pool' = pool
      \/ /\ head = "file"
         /\ \E landed \in {0, 1} :
               pool' = [pool EXCEPT !.received = pool.received + 1,
                                    !.landed = pool.landed + landed]
  BY <1>3 DEF F!TakeEvent, Taken
<1> HIDE DEF head
<1>5. /\ pool' \in Taken /\ pool'.verdict = pool.verdict
      /\ pool.told => pool'.told
      /\ head = "error" => pool'.told
      /\ ~cancelled => pool'.received = pool.received + One(head)
  <2>1. CASE pool' = pool /\ (head = "log" \/ (cancelled /\ head = "file"))
    BY <1>3, <2>1 DEF One, Taken
  <2>2. CASE head = "error" /\ pool' = [pool EXCEPT !.told = TRUE]
    <3>1. pool' \in Taken
      BY <1>3, <2>2 DEF Taken
    <3>2. pool'.told = TRUE /\ pool'.verdict = pool.verdict /\ pool'.received = pool.received
      BY <1>3, <2>2 DEF Taken
    <3>3. One(head) = 0 /\ pool.received \in Nat
      BY <1>3, <2>2 DEF One, Taken
    <3> QED
      BY <3>1, <3>2, <3>3
  <2>3. CASE /\ head = "file"
             /\ \E landed \in {0, 1} :
                   pool' = [pool EXCEPT !.received = pool.received + 1,
                                        !.landed = pool.landed + landed]
    <3>1. PICK landed \in {0, 1} :
              pool' = [pool EXCEPT !.received = pool.received + 1,
                                   !.landed = pool.landed + landed]
      BY <2>3
    <3>2. pool.received + 1 \in Nat /\ pool.landed + landed \in Nat
      BY <1>3 DEF Taken
    <3> QED
      BY <1>3, <2>3, <3>1, <3>2 DEF One, Taken
  <2> QED
    BY <1>4, <2>1, <2>2, <2>3
<1>6. Reported => Reported'
  BY <1>2, <1>5 DEF Reported
<1>7. FetchShape'
  BY <1>1, <1>5 DEF FetchInv, FetchShape
<1>8. FilesConserved'
  <2>1. made' = FilesIn(stdout)' + reader'.files
    BY <1>1 DEF FetchInv, FilesConserved
  <2>2. ASSUME ~cancelled
        PROVE  reader'.files = InHand' + FilesIn(ch)' + pool'.received
    <3>1. reader.files = InHand + FilesIn(ch) + pool.received /\ InHand' = InHand
      BY <1>1, <2>2 DEF FetchInv, FilesConserved, InHand
    <3>2. InHand \in Nat /\ One(head) \in Nat /\ pool.received \in Nat
      BY <1>3 DEF InHand, One, Taken
    <3> QED
      BY <1>1, <1>2, <1>5, <2>2, <3>1, <3>2
  <2> QED
    BY <1>1, <2>1, <2>2 DEF FilesConserved
<1>9. FailuresReported' /\ NotStarted'
  BY <1>1, <1>5, <1>6 DEF FetchInv, FailuresReported, NotStarted, F!Ended
<1> QED
  BY <1>7, <1>8, <1>9 DEF FetchInv

LEMMA DecideStep ==
    ASSUME FetchInv, F!Decide
    PROVE  FetchInv'
<1>1. /\ main = "closed" /\ ch = <<>> /\ pool.verdict = "none"
      /\ UNCHANGED <<child, made, stdout, reader, main, ch, cancelled, expired>>
  BY DEF F!Decide, F!Deciding
<1>2. PICK v \in {"done", "failed", "cancelled"} :
          pool' = [pool EXCEPT !.verdict = v] /\ (v # "cancelled" => ~cancelled)
  BY DEF F!Decide
<1>3. pool \in Taken
  BY DEF FetchInv, FetchShape
<1>4. /\ pool' \in Taken /\ pool'.verdict = v
      /\ pool'.received = pool.received /\ pool'.told = pool.told
  BY <1>2, <1>3 DEF Taken
<1>5. child # "new"
  BY <1>1 DEF FetchInv, NotStarted
<1> QED
  BY <1>1, <1>2, <1>4, <1>5
     DEF FetchInv, FetchShape, FilesConserved, FailuresReported, NotStarted, Reported, InHand,
         F!Ended

(* A run that told no error and was not cancelled lost nothing: yt-dlp     *)
(* ended by itself and every file it finished reached the pool, for any    *)
(* number of files and any sizes of pipes and channel, and whenever the    *)
(* deadline passes (ytdlp.go:54, 121, 165).                                *)
THEOREM SilenceAlwaysComplete == F!Spec => []SilenceMeansComplete
<1>1. F!Init => FetchInv
  <2> SUFFICES ASSUME F!Init PROVE FetchInv
    OBVIOUS
  <2>1. /\ child = "new" /\ main = "wait" /\ made = 0 /\ stdout = <<>> /\ ch = <<>>
        /\ ~cancelled /\ ~expired /\ cancelled \in BOOLEAN /\ expired \in BOOLEAN
    BY DEF F!Init
  <2>2. reader = [pc |-> "scan", files |-> 0] /\ reader \in Readers /\ InHand = 0
    BY DEF F!Init, Readers, InHand
  <2>3. pool \in Taken /\ pool.received = 0 /\ pool.verdict = "none"
    BY DEF F!Init, Taken
  <2>4. FilesIn(stdout) = 0 /\ FilesIn(ch) = 0
    BY <2>1, FilesInNone
  <2> QED
    BY <2>1, <2>2, <2>3, <2>4 DEF FetchInv, FetchShape, FilesConserved, FailuresReported,
                                  NotStarted, F!Ended
<1>2. FetchInv /\ [F!Next]_F!vars => FetchInv'
  <2>1. ASSUME FetchInv, UNCHANGED F!vars
        PROVE  FetchInv'
    BY <2>1 DEF FetchInv, FetchShape, FilesConserved, FailuresReported, NotStarted,
                InHand, F!Ended, Reported, F!vars
  <2> QED
    BY <2>1, ProcessSteps, ReaderSteps, RunSteps, TakeEventStep, DecideStep DEF F!Next
<1> QED
  BY <1>1, <1>2, FetchSettles, PTL DEF F!Spec
-----------------------------------------------------------------------------
(* RetryBackoff.                                                           *)

(* The power of two is known to the provers as the number of the subsets   *)
(* of a set only.                                                          *)
LEMMA SubsetsOfInterval ==
    ASSUME NEW n \in Nat
    PROVE  /\ IsFiniteSet(1..n) /\ IsFiniteSet(SUBSET (1..n))
           /\ Cardinality(SUBSET (1..n)) = 2^n
           /\ 2^n \in Nat
<1>1. IsFiniteSet(1..n) /\ Cardinality(1..n) = n
  <2>1. /\ IsFiniteSet(1..n)
        /\ Cardinality(1..n) = IF 1 > n THEN 0 ELSE n-1+1
    BY FS_Interval
  <2>2. QED
    BY <2>1
<1>2. IsFiniteSet(SUBSET (1..n)) /\ Cardinality(SUBSET (1..n)) = 2^n
  BY <1>1, FS_SUBSET
<1>3. QED
  BY <1>1, <1>2, FS_CardinalityType

LEMMA PowerOfZero == 2^0 = 1
<1>1. Cardinality(SUBSET (1..0)) = 2^0
  BY SubsetsOfInterval
<1>2. SUBSET (1..0) = {{}}
  OBVIOUS
<1>3. QED
  BY <1>1, <1>2, FS_Singleton

(* The subsets with n + 1 are as many as those without it.                 *)
LEMMA PowerDoubles ==
    ASSUME NEW n \in Nat
    PROVE  2^(n + 1) = 2^n + 2^n
<1> DEFINE Without == SUBSET (1..n)
           With    == {T \cup {n + 1} : T \in Without}
           f       == [T \in Without |-> T \cup {n + 1}]
<1>1. IsFiniteSet(Without) /\ Cardinality(Without) = 2^n /\ 2^n \in Nat
  BY SubsetsOfInterval
<1>2. Cardinality(SUBSET (1..(n + 1))) = 2^(n + 1)
  <2>1. n + 1 \in Nat
    OBVIOUS
  <2>2. QED
    BY <2>1, SubsetsOfInterval
<1>3. f \in Bijection(Without, With)
  <2>1. f \in [Without -> With]
    OBVIOUS
  <2>2. \A T, U \in Without : f[T] = f[U] => T = U
    <3>1. SUFFICES ASSUME NEW T \in Without, NEW U \in Without,
                          T \cup {n + 1} = U \cup {n + 1}
                   PROVE  T = U
      OBVIOUS
    <3>2. n + 1 \notin T /\ n + 1 \notin U
      OBVIOUS
    <3>3. QED
      BY <3>1, <3>2
  <2>3. \A V \in With : \E T \in Without : f[T] = V
    OBVIOUS
  <2>4. QED
    BY <2>1, <2>2, <2>3 DEF Bijection, Injection, Surjection, IsInjective
<1>4. IsFiniteSet(With) /\ Cardinality(With) = 2^n
  <2>1. ExistsBijection(Without, With)
    BY <1>3 DEF ExistsBijection
  <2>2. QED
    BY <2>1, <1>1, FS_Bijection
<1>5. Without \cap With = {}
  OBVIOUS
<1>6. SUBSET (1..(n + 1)) = Without \cup With
  <2>1. ASSUME NEW T \in SUBSET (1..(n + 1))
        PROVE  T \in Without \cup With
    <3>1. CASE n + 1 \in T
      <4>1. T \ {n + 1} \in Without
        OBVIOUS
      <4>2. T = (T \ {n + 1}) \cup {n + 1}
        BY <3>1
      <4>3. QED
        BY <4>1, <4>2
    <3>2. CASE n + 1 \notin T
      BY <3>2
    <3>3. QED
      BY <3>1, <3>2
  <2>2. ASSUME NEW T \in Without
        PROVE  T \subseteq 1..(n + 1) /\ T \cup {n + 1} \subseteq 1..(n + 1)
    <3>1. \A i \in T : i \in 1..n
      OBVIOUS
    <3>2. 1..n \subseteq 1..(n + 1) /\ n + 1 \in 1..(n + 1)
      OBVIOUS
    <3>3. QED
      BY <3>1, <3>2
  <2>3. ASSUME NEW V \in Without \cup With
        PROVE  V \in SUBSET (1..(n + 1))
    <3>1. CASE V \in Without
      BY <2>2, <3>1
    <3>2. CASE V \in With
      <4>1. PICK T \in Without : V = T \cup {n + 1}
        BY <3>2
      <4>2. QED
        BY <2>2, <4>1
    <3>3. QED
      BY <3>1, <3>2
  <2>4. /\ \A T \in SUBSET (1..(n + 1)) : T \in Without \cup With
        /\ \A V \in Without \cup With : V \in SUBSET (1..(n + 1))
    BY <2>1, <2>3
  <2>5. QED
    BY <2>4 DEF Without, With
<1>7. Cardinality(SUBSET (1..(n + 1))) = Cardinality(Without) + Cardinality(With)
  <2>1. Cardinality({}) = 0
    BY FS_EmptySet
  <2>2. Cardinality(Without \cup With)
          = Cardinality(Without) + Cardinality(With) - Cardinality(Without \cap With)
    BY <1>1, <1>4, FS_Union
  <2>3. QED
    <3>1. Cardinality(SUBSET (1..(n + 1))) = Cardinality(Without \cup With)
      BY <1>6
    <3>2. Cardinality(Without \cap With) = 0
      BY <1>5, <2>1
    <3>3. Cardinality(Without) \in Nat /\ Cardinality(With) \in Nat
      BY <1>1, <1>4
    <3>4. QED
      BY <2>2, <3>1, <3>2, <3>3
<1>8. QED
  BY <1>1, <1>2, <1>4, <1>7

LEMMA PowerIsPositive ==
    ASSUME NEW n \in Nat
    PROVE  2^n \in Nat \ {0}
<1>1. CASE n = 0
  BY <1>1, PowerOfZero
<1>2. CASE n # 0
  <2>1. {} \in SUBSET (1..n)
    OBVIOUS
  <2>2. QED
    BY <2>1, SubsetsOfInterval, FS_EmptySet
<1>3. QED
  BY <1>1, <1>2

(* The constants.                                                          *)
LEMMA RetryConstantsHold ==
    /\ Base \in Nat /\ Window \in Nat /\ ShiftCap \in Nat /\ Never \notin Nat
    /\ MaxAttempts \in Nat \ {0}
    /\ R!Spent(MaxAttempts - 1) <= Window /\ Window < R!Spent(MaxAttempts)
BY InstanceConstants DEF R!RetryConstants

LEMMA UnitsStep ==
    ASSUME NEW n \in Nat
    PROVE  /\ R!Units(n) \in Nat
           /\ R!Units(n + 1) = R!Units(n) + 2^R!Smaller(n, ShiftCap)
           /\ 2^R!Smaller(n, ShiftCap) \in Nat
<1> DEFINE C == ShiftCap
<1>1. C \in Nat /\ C + 1 \in Nat
  BY RetryConstantsHold
<1>2. 2^n \in Nat \ {0} /\ 2^C \in Nat \ {0} /\ 2^(C + 1) \in Nat \ {0}
  BY <1>1, PowerIsPositive
<1>3. 2^(n + 1) = 2^n + 2^n /\ 2^(C + 1) = 2^C + 2^C
  BY <1>1, PowerDoubles
<1>4. CASE n <= C
  <2>1. R!Smaller(n, C) \in {n, C} /\ (n < C => R!Smaller(n, C) = n)
    BY DEF R!Smaller
  <2>2. 2^R!Smaller(n, C) = 2^n
    BY <1>1, <1>4, <2>1
  <2>3. R!Units(n) = 2^n - 1 /\ R!Units(n + 1) = 2^(n + 1) - 1
    BY <1>1, <1>4 DEF R!Units
  <2>4. QED
    BY <1>2, <1>3, <2>2, <2>3
<1>5. CASE n > C
  <2>1. 2^R!Smaller(n, C) = 2^C
    BY <1>1, <1>5 DEF R!Smaller
  <2>2. R!Units(n + 1) = 2^(C + 1) - 1 + (n - C) * 2^C
    <3>1. ~(n + 1 <= C + 1) /\ (n + 1) - C - 1 = n - C
      BY <1>1, <1>5
    <3>2. QED
      BY <3>1 DEF R!Units
  <2>3. R!Units(n) = 2^(C + 1) - 1 + (n - C - 1) * 2^C
    <3>1. CASE n = C + 1
      <4>1. R!Units(n) = 2^n - 1 /\ n - C - 1 = 0
        BY <1>1, <3>1 DEF R!Units
      <4>2. QED
        BY <1>1, <1>2, <3>1, <4>1
    <3>2. CASE n # C + 1
      <4>1. ~(n <= C + 1)
        BY <1>1, <1>5, <3>2
      <4>2. QED
        BY <4>1 DEF R!Units
    <3>3. QED
      BY <3>1, <3>2
  <2>4. \A a \in Nat, p \in Nat : (a + 1) * p = a * p + p /\ a * p \in Nat
    OBVIOUS
  <2>5. n - C - 1 \in Nat /\ n - C = (n - C - 1) + 1
    BY <1>1, <1>5
  <2>6. /\ (n - C) * 2^C = (n - C - 1) * 2^C + 2^C
        /\ (n - C - 1) * 2^C \in Nat
    BY <1>2, <2>4, <2>5
  <2>7. QED
    BY <1>2, <2>1, <2>2, <2>3, <2>6
<1>6. QED
  BY <1>1, <1>4, <1>5

LEMMA SpentStep ==
    ASSUME NEW n \in Nat
    PROVE  /\ R!Spent(n) \in Nat /\ R!Backoff(n) \in Nat
           /\ R!Spent(n + 1) = R!Spent(n) + R!Backoff(n)
<1> DEFINE u == R!Units(n)
           p == 2^R!Smaller(n, ShiftCap)
<1>1. u \in Nat /\ p \in Nat /\ R!Units(n + 1) = u + p
  BY UnitsStep
<1>2. \A b \in Nat, x \in Nat, y \in Nat :
          b * (x + y) = b * x + b * y /\ b * x \in Nat /\ b * y \in Nat
  OBVIOUS
<1>3. Base \in Nat
  BY RetryConstantsHold
<1>4. /\ Base * (u + p) = Base * u + Base * p
      /\ Base * u \in Nat /\ Base * p \in Nat
  BY <1>1, <1>2, <1>3
<1>5. /\ R!Spent(n) = Base * u
      /\ R!Spent(n + 1) = Base * (u + p)
      /\ R!Backoff(n) = Base * p
  BY <1>1 DEF R!Spent, R!Backoff
<1>6. QED
  BY <1>4, <1>5
(* What a copy of the row, or the row itself, says of the past.            *)
InWindow(r) ==
    /\ r.count = 0 <=> r.age = Never
    /\ r.status = "retrying" =>
          r.count > 0 /\ r.wait # Never /\ r.age + r.wait >= R!Spent(r.count)
    /\ r.status \in {"pending", "running"} /\ r.count > 0 => r.age >= R!Spent(r.count)
    /\ r.status \in {"pending", "running", "retrying"} =>
          r.count < MaxAttempts /\ R!Spent(r.count) <= Window

RetryInv ==
    /\ R!RetryTypeOK
    /\ InWindow(row)
    /\ \A w \in Workers : InWindow(worker[w])

LEMMA SpentOfZero == R!Spent(0) = 0 /\ R!Units(0) = 0
<1>1. 0 <= ShiftCap + 1 /\ Base * 0 = 0
  BY RetryConstantsHold
<1>2. R!Units(0) = 0
  BY <1>1, PowerOfZero DEF R!Units
<1>3. QED
  BY <1>1, <1>2 DEF R!Spent

LEMMA FreshInWindow == R!New \in R!RowState /\ InWindow(R!New)
                       /\ R!Idle \in R!RowState /\ InWindow(R!Idle)
<1>1. 0 < MaxAttempts /\ 0 <= Window /\ Never \notin Nat
  BY RetryConstantsHold
<1>2. QED
  BY <1>1, SpentOfZero DEF R!New, R!Idle, R!RowState, R!Statuses, InWindow

LEMMA RetryStart == R!Init => RetryInv
BY FreshInWindow DEF R!Init, RetryInv, R!RetryTypeOK

(* Time passes.                                                            *)
LEMMA OlderInWindow ==
    ASSUME NEW r \in R!RowState, InWindow(r)
    PROVE  R!Older(r) \in R!RowState /\ InWindow(R!Older(r))
<1> DEFINE s == R!Older(r)
           a == IF r.age = Never THEN Never ELSE R!Smaller(r.age + 1, Window + 1)
           d == IF r.wait \in {Never, 0} THEN r.wait ELSE r.wait - 1
<1>1. Window \in Nat /\ Never \notin Nat
  BY RetryConstantsHold
<1>2. /\ r.status \in R!Statuses /\ r.count \in Nat
      /\ r.age \in Nat \cup {Never} /\ r.wait \in Nat \cup {Never}
      /\ r.age # Never => r.age <= Window + 1
  BY <1>1 DEF R!RowState, R!Ages
<1>3. /\ a \in R!Ages \cup {Never} /\ d \in Nat \cup {Never}
      /\ a = Never <=> r.age = Never
      /\ d = Never <=> r.wait = Never
  BY <1>1, <1>2 DEF R!Ages, R!Smaller
<1>4. s = [status |-> r.status, count |-> r.count, age |-> a, wait |-> d]
  <2>1. r = [status |-> r.status, count |-> r.count, age |-> r.age, wait |-> r.wait]
    BY DEF R!RowState
  <2>2. s = [r EXCEPT !.age = a, !.wait = d]
    BY DEF R!Older
  <2> HIDE DEF s, a, d
  <2>3. QED
    BY <2>1, <2>2
<1>5. s \in R!RowState
  BY <1>2, <1>3, <1>4 DEF R!RowState
<1>6. R!Spent(r.count) \in Nat
  BY <1>2, SpentStep
<1>7. ASSUME r.status = "retrying"
      PROVE  r.count > 0 /\ d # Never /\ a + d >= R!Spent(r.count)
  <2>1. /\ r.count > 0 /\ r.wait # Never /\ r.age + r.wait >= R!Spent(r.count)
        /\ R!Spent(r.count) <= Window /\ r.age # Never
    BY <1>2, <1>7 DEF InWindow
  <2>2. r.age \in Nat /\ r.wait \in Nat
    BY <1>2, <2>1
  <2>3. d \in Nat /\ (d = r.wait - 1 \/ (d = 0 /\ r.wait = 0))
    BY <1>1, <2>2
  <2>4. a = r.age + 1 \/ a = Window + 1
    BY <2>1 DEF R!Smaller
  <2>5. QED
    BY <1>1, <1>6, <2>1, <2>2, <2>3, <2>4
<1>8. ASSUME r.status \in {"pending", "running"}, r.count > 0
      PROVE  a >= R!Spent(r.count)
  <2>1. /\ r.age >= R!Spent(r.count) /\ r.age # Never
        /\ R!Spent(r.count) <= Window
    BY <1>2, <1>8 DEF InWindow
  <2>2. r.age \in Nat
    BY <1>2, <2>1
  <2>3. a = r.age + 1 \/ a = Window + 1
    BY <2>1 DEF R!Smaller
  <2>4. QED
    BY <1>1, <1>6, <2>1, <2>2, <2>3
<1>9. InWindow(s)
  <2>1. /\ s.status = r.status /\ s.count = r.count /\ s.age = a /\ s.wait = d
    BY <1>4
  <2> HIDE DEF s, a, d
  <2>2. s.count = 0 <=> s.age = Never
    BY <1>3, <2>1 DEF InWindow
  <2>3. s.status \in {"pending", "running", "retrying"} =>
          s.count < MaxAttempts /\ R!Spent(s.count) <= Window
    BY <2>1 DEF InWindow
  <2>4. QED
    BY <1>7, <1>8, <2>1, <2>2, <2>3 DEF InWindow
<1>10. QED
  BY <1>5, <1>9

(* The first wait fits if any does.                                        *)
LEMMA FirstBackoffIsLeast ==
    ASSUME MaxAttempts > 1
    PROVE  R!Spent(MaxAttempts - 1) >= R!Backoff(0)
<1> DEFINE m == MaxAttempts - 2
<1>1. m \in Nat /\ m + 1 = MaxAttempts - 1 /\ Base \in Nat
  BY RetryConstantsHold
<1>2. R!Units(m) \in Nat /\ 2^R!Smaller(m, ShiftCap) \in Nat \ {0}
  <2>1. R!Smaller(m, ShiftCap) \in Nat
    BY <1>1, RetryConstantsHold DEF R!Smaller
  <2>2. QED
    BY <1>1, <2>1, UnitsStep, PowerIsPositive
<1>3. R!Units(m + 1) = R!Units(m) + 2^R!Smaller(m, ShiftCap)
  BY <1>1, UnitsStep
<1>4. R!Units(m + 1) \in Nat /\ R!Units(m + 1) >= 1
  BY <1>2, <1>3
<1>5. R!Backoff(0) = Base * 1
  <2>1. R!Smaller(0, ShiftCap) = 0
    BY RetryConstantsHold DEF R!Smaller
  <2>2. QED
    BY <2>1, PowerOfZero DEF R!Backoff
<1>6. \A b, u \in Nat : u >= 1 => b * u >= b * 1
  OBVIOUS
<1>7. Base * R!Units(m + 1) >= Base * 1
  BY <1>1, <1>4, <1>6
<1>8. R!Spent(MaxAttempts - 1) = Base * R!Units(m + 1)
  BY <1>1 DEF R!Spent
<1>9. QED
  BY <1>5, <1>7, <1>8

(* A failed attempt: the verdict is one that DownloadQueue allows, and     *)
(* what is written fits the window.                                        *)
LEMMA FailureInWindow ==
    ASSUME RetryInv, NEW w \in Workers, R!HandleFailure(w)
    PROVE  /\ row'.status \in R!Q!AfterFailure(worker[w].count)
           /\ row' \in R!RowState /\ InWindow(row')
           /\ worker' = [worker EXCEPT ![w] = R!Idle]
<1> DEFINE me == worker[w]
           n == me.count
           age == R!FirstFailed(me)
           wait == R!Backoff(n)
<1>1. /\ me \in R!RowState /\ InWindow(me) /\ me.status = "running"
  BY DEF RetryInv, R!RetryTypeOK, R!HandleFailure
<1>2. /\ Window \in Nat /\ Never \notin Nat /\ MaxAttempts \in Nat \ {0}
      /\ R!Spent(MaxAttempts - 1) <= Window /\ Window < R!Spent(MaxAttempts)
  BY RetryConstantsHold
<1>3. /\ n \in Nat /\ n < MaxAttempts
      /\ me.age \in Nat \cup {Never} /\ (me.age # Never => me.age <= Window + 1)
      /\ n = 0 <=> me.age = Never
      /\ n > 0 => me.age >= R!Spent(n)
  BY <1>1, <1>2 DEF InWindow, R!RowState, R!Ages
<1>4. /\ R!Spent(n) \in Nat /\ wait \in Nat
      /\ R!Spent(n + 1) = R!Spent(n) + wait
  BY <1>3, SpentStep
<1>5. age \in Nat /\ age <= Window + 1 /\ age >= R!Spent(n)
  <2>1. CASE n = 0
    BY <1>2, <1>3, <2>1, SpentOfZero DEF R!FirstFailed
  <2>2. CASE n # 0
    BY <1>2, <1>3, <2>2 DEF R!FirstFailed
  <2>3. QED
    BY <2>1, <2>2
<1>6. CASE age + wait > Window
  <2>1. /\ row' = [status |-> "failed", count |-> n + 1, age |-> age, wait |-> Never]
        /\ worker' = [worker EXCEPT ![w] = R!Idle]
    BY <1>6 DEF R!HandleFailure, R!Update
  <2>2. row' \in R!RowState
    BY <1>2, <1>3, <1>5, <2>1 DEF R!RowState, R!Statuses, R!Ages
  <2>3. InWindow(row')
    BY <1>2, <1>3, <1>5, <2>1 DEF InWindow
  <2>4. n = 0 => n + 1 >= MaxAttempts
    <3>1. SUFFICES ASSUME n = 0, MaxAttempts > 1
                   PROVE  FALSE
      BY <1>2, <1>3
    <3>2. age = 0
      BY <1>3, <3>1 DEF R!FirstFailed
    <3>3. R!Spent(MaxAttempts - 1) >= wait
      BY <3>1, FirstBackoffIsLeast
    <3>4. R!Spent(MaxAttempts - 1) \in Nat
      BY <1>2, SpentStep, MaxAttempts - 1 \in Nat
    <3>5. QED
      BY <1>2, <1>4, <1>6, <3>2, <3>3, <3>4
  <2>5. QED
    BY <2>1, <2>2, <2>3, <2>4 DEF R!Q!AfterFailure
<1>7. CASE ~(age + wait > Window)
  <2>1. /\ row' = [status |-> "retrying", count |-> n + 1, age |-> age, wait |-> wait]
        /\ worker' = [worker EXCEPT ![w] = R!Idle]
    BY <1>7 DEF R!HandleFailure, R!Update
  <2>2. row' \in R!RowState
    BY <1>2, <1>3, <1>4, <1>5, <2>1 DEF R!RowState, R!Statuses, R!Ages
  <2>3. age + wait >= R!Spent(n + 1) /\ R!Spent(n + 1) <= Window
    BY <1>2, <1>4, <1>5, <1>7
  <2>4. n + 1 # MaxAttempts
    BY <1>2, <1>4, <2>3
  <2>5. n + 1 < MaxAttempts
    BY <1>2, <1>3, <2>4
  <2>6. age # Never /\ wait # Never /\ n + 1 > 0
    BY <1>2, <1>3, <1>4, <1>5
  <2>7. InWindow(row')
    BY <2>1, <2>3, <2>5, <2>6, <1>3 DEF InWindow
  <2>8. QED
    BY <1>2, <1>3, <2>1, <2>2, <2>5, <2>7 DEF R!Q!AfterFailure
<1>8. QED
  BY <1>6, <1>7
(* A worker that drops its copy leaves Idle; whatever is written is in the *)
(* window if the copy it comes from is.                                    *)
LEMMA RetryStep == RetryInv /\ [R!Next]_R!vars => RetryInv'
<1> SUFFICES ASSUME RetryInv, [R!Next]_R!vars
             PROVE  RetryInv'
  OBVIOUS
<1>1. /\ row \in R!RowState /\ InWindow(row)
      /\ worker \in [Workers -> R!RowState] /\ \A w \in Workers : InWindow(worker[w])
  BY DEF RetryInv, R!RetryTypeOK
<1>2. /\ 0 < MaxAttempts /\ 0 <= Window /\ Never \notin Nat
  BY RetryConstantsHold
<1> USE FreshInWindow
<1>3. ASSUME NEW w \in Workers, R!Claim(w)
      PROVE  RetryInv'
  <2>1. /\ row.status = "pending" \/ (row.status = "retrying" /\ row.wait = 0)
        /\ row' = [row EXCEPT !.status = "running"]
        /\ worker' = [worker EXCEPT ![w] = row']
    BY <1>3 DEF R!Claim
  <2>2. /\ row' \in R!RowState
        /\ row'.status = "running" /\ row'.count = row.count
        /\ row'.age = row.age /\ row'.wait = row.wait
    BY <1>1, <2>1 DEF R!RowState, R!Statuses
  <2>3. row.count \in Nat /\ row.age \in Nat \cup {Never}
    BY <1>1 DEF R!RowState, R!Ages
  <2>4. row.count > 0 => row.age >= R!Spent(row.count)
    <3>1. CASE row.status = "pending"
      BY <1>1, <3>1 DEF InWindow
    <3>2. CASE row.status = "retrying" /\ row.wait = 0
      <4>1. row.count > 0 /\ row.age + row.wait >= R!Spent(row.count) /\ row.age # Never
        BY <1>1, <2>3, <3>2 DEF InWindow
      <4>2. row.age + 0 = row.age
        BY <2>3, <4>1
      <4>3. QED
        BY <3>2, <4>1, <4>2
    <3>3. QED
      BY <2>1, <3>1, <3>2
  <2>5. InWindow(row')
    BY <1>1, <2>1, <2>2, <2>4 DEF InWindow
  <2>6. QED
    BY <1>1, <2>1, <2>2, <2>5 DEF RetryInv, R!RetryTypeOK
<1>4. ASSUME NEW w \in Workers, R!HandleFailure(w)
      PROVE  RetryInv'
  <2>1. /\ row' \in R!RowState /\ InWindow(row')
        /\ worker' = [worker EXCEPT ![w] = R!Idle]
    BY <1>4, FailureInWindow
  <2>2. QED
    BY <1>1, <2>1 DEF RetryInv, R!RetryTypeOK
<1>5. ASSUME NEW w \in Workers, R!End(w)
      PROVE  RetryInv'
  <2>1. PICK s \in {"done", "cancelled"} :
          /\ row' = [worker[w] EXCEPT !.status = s]
          /\ worker' = [worker EXCEPT ![w] = R!Idle]
    BY <1>5 DEF R!End, R!Update
  <2>2. /\ row' \in R!RowState
        /\ row'.status = s /\ row'.count = worker[w].count
        /\ row'.age = worker[w].age /\ row'.wait = worker[w].wait
    BY <1>1, <2>1 DEF R!RowState, R!Statuses
  <2>3. InWindow(row')
    BY <1>1, <2>2 DEF InWindow
  <2>4. QED
    BY <1>1, <2>1, <2>2, <2>3 DEF RetryInv, R!RetryTypeOK
<1>6. ASSUME NEW w \in Workers, R!UpdateFails(w)
      PROVE  RetryInv'
  BY <1>1, <1>6 DEF R!UpdateFails, RetryInv, R!RetryTypeOK
<1>7. CASE R!Tick
  <2>1. row' = R!Older(row) /\ worker' = [w \in Workers |-> R!Older(worker[w])]
    BY <1>7 DEF R!Tick
  <2>2. row' \in R!RowState /\ InWindow(row')
    BY <1>1, <2>1, OlderInWindow
  <2>3. \A w \in Workers : R!Older(worker[w]) \in R!RowState /\ InWindow(R!Older(worker[w]))
    BY <1>1, OlderInWindow
  <2>4. QED
    BY <2>1, <2>2, <2>3 DEF RetryInv, R!RetryTypeOK
<1>8. CASE R!Cancel
  <2>1. row' = [row EXCEPT !.status = "cancelled", !.wait = Never] /\ worker' = worker
    BY <1>8 DEF R!Cancel
  <2>2. /\ row' \in R!RowState /\ row'.status = "cancelled"
        /\ row'.count = row.count /\ row'.age = row.age
    BY <1>1, <2>1 DEF R!RowState, R!Statuses
  <2>3. InWindow(row')
    BY <1>1, <2>2 DEF InWindow
  <2>4. QED
    BY <1>1, <2>1, <2>2, <2>3 DEF RetryInv, R!RetryTypeOK
<1>9. CASE R!Reset
  BY <1>1, <1>9 DEF R!Reset, RetryInv, R!RetryTypeOK
<1>10. CASE R!Restart
  <2>1. /\ worker' = [w \in Workers |-> R!Idle]
        /\ row' = row \/ (row.status = "running" /\ row' = [row EXCEPT !.status = "pending"])
    BY <1>10 DEF R!Restart
  <2>2. row' \in R!RowState /\ InWindow(row')
    <3>1. CASE row' = row
      BY <1>1, <3>1
    <3>2. CASE row.status = "running" /\ row' = [row EXCEPT !.status = "pending"]
      <4>1. /\ row' \in R!RowState /\ row'.status = "pending"
            /\ row'.count = row.count /\ row'.age = row.age
        BY <1>1, <3>2 DEF R!RowState, R!Statuses
      <4>2. QED
        BY <1>1, <3>2, <4>1 DEF InWindow
    <3>3. QED
      BY <2>1, <3>1, <3>2
  <2>3. QED
    BY <2>1, <2>2 DEF RetryInv, R!RetryTypeOK
<1>11. CASE UNCHANGED R!vars
  BY <1>1, <1>11 DEF R!vars, RetryInv, R!RetryTypeOK
<1>12. QED
  BY <1>3, <1>4, <1>5, <1>6, <1>7, <1>8, <1>9, <1>10, <1>11 DEF R!Next

(* handleFailure: its arithmetic on durations decides as the queue's model *)
(* has it decide, for every base, window and cap of the shift: the first   *)
(* failure is followed by a retry if one fits at all, and none is once the *)
(* backoffs have outgrown the window.                                      *)
THEOREM FailuresFollowWindow == R!Spec => VerdictsFollowWindow
<1>1. RetryInv /\ [R!Next]_R!vars =>
        [\A w \in Workers : R!HandleFailure(w) =>
            row'.status \in R!Q!AfterFailure(worker[w].count)]_R!vars
  BY FailureInWindow
<1>2. QED
  BY <1>1, RetryStart, RetryStep, PTL DEF R!Spec, VerdictsFollowWindow, R!VerdictsFollowWindow

(* ClaimNext, handleFailure: the backoffs a row that is still to be        *)
(* downloaded has behind it, since its first failure, fit in the window.   *)
THEOREM RetriesEndInTime == R!Spec => []R!BackoffsFitWindow
<1>1. RetryInv => R!BackoffsFitWindow
  BY DEF RetryInv, InWindow, R!BackoffsFitWindow
<1>2. QED
  BY <1>1, RetryStart, RetryStep, PTL DEF R!Spec
=============================================================================
