---------------------------- MODULE Conversation ----------------------------
(***************************************************************************)
(* One conversation and one client that has it open: messages are sent,    *)
(* edited and deleted (F38-F45), announced through Redis and the relay     *)
(* (F51-F53), and merged by the client with the history it fetches when    *)
(* its socket opens (F54, F55).                                            *)
(*                                                                         *)
(* A send's created_at is fixed when its transaction begins and its id is  *)
(* minted later, so with several sends at once the two orders may differ:  *)
(* pages follow created_at, the client compares ids.  Beginning and        *)
(* minting touch nothing else, so every send starts past both, with any    *)
(* pairing of the orders; a request that fails is one that goes no         *)
(* further.                                                                *)
(***************************************************************************)
EXTENDS Naturals, FiniteSets, Sequences

CONSTANTS
  MaxMessage,  \* ids are 1 .. MaxMessage, in the order they are minted
  Loaded,      \* messages the client has loaded before its connection dropped
  MaxEdited,   \* bound on the messages that are edited or deleted
  Editors,     \* PATCH and DELETE requests; an edit's text is its request
  PageLimit,   \* limit of a history request
  MaxPages,    \* DEFAULT_MAX_PAGES of the catch-up
  MaxFeed,     \* bound on the events under way
  MaxConns,    \* bound on connections
  None

Messages == 1 .. MaxMessage
Walks == 1 .. MaxConns
Contents == {"first"} \cup Editors

ASSUME ConversationAssumption ==
  /\ MaxMessage \in Nat /\ Loaded \in 0 .. MaxMessage /\ MaxEdited \in 0 .. MaxMessage
  /\ MaxConns \in Nat /\ MaxFeed \in Nat
  /\ PageLimit \in Nat \ {0} /\ MaxPages \in Nat \ {0}
  /\ None \notin Contents \cup {"gone"}
  /\ "first" \notin Editors /\ "gone" \notin Editors

VARIABLES
  at,       \* created_at of each message
  stage,    \* each send: minted, stored, over
  content,  \* committed rows; None before the commit
  deleted,  \* rows with deleted_at
  rpc,      \* each edit or delete: idle, read, stored, over
  rop,      \* edit, delete
  rmsg,     \* its message
  feed,     \* events published and not yet broadcast by the relay
  conn,     \* the client's connection: down, open, joined
  conns,    \* connections so far, each with its catch-up
  shown,    \* the client's MessageMap: None, gone, or a content
  last,     \* lastMessageIdRef, 0 for null
  walk,     \* fetchMissedMessages, one per connection
  raced     \* history: messages whose events or pages did not come one by one

rows == <<at, stage, content, deleted>>
requests == <<rpc, rop, rmsg>>
client == <<conn, conns, shown, last>>
conversationVars == <<rows, requests, feed, client, walk, raced>>

NoWalk == [pc |-> "idle", since |-> 0, cursor |-> 0, pages |-> 0,
           got |-> [m \in Messages |-> None], want |-> {}, hidden |-> {}]

ConversationInit ==
  /\ at \in {f \in [Messages -> Messages] : \A k, m \in Messages : f[k] = f[m] => k = m}
  /\ stage = [m \in Messages |-> IF m <= Loaded THEN "over" ELSE "minted"]
  /\ content = [m \in Messages |-> IF m <= Loaded THEN "first" ELSE None]
  /\ deleted = {}
  /\ rpc = [e \in Editors |-> "idle"]
  /\ rop = [e \in Editors |-> "edit"]
  /\ rmsg = [e \in Editors |-> None]
  /\ feed = <<>>
  /\ conn = "down" /\ conns = 0
  /\ shown = content
  /\ last = Loaded
  /\ walk = [w \in Walks |-> NoWalk]
  /\ raced = {}

\* The rows a reader sees: committed, deleted_at null.
History == {m \in Messages : content[m] # None /\ m \notin deleted}

\* A send, edit or delete of m is under way.
Busy(m) ==
  \/ stage[m] = "stored"
  \/ \E e \in Editors : rmsg[e] = m /\ rpc[e] \in {"read", "stored"}

Walking == \E w \in Walks : walk[w].pc \in {"fetch", "merge"}

(***************************************************************************)
(* Events: publish_message_event and PubSubRelay                           *)
(***************************************************************************)
Events == [type : {"upsert", "deleted"}, id : Messages, content : Contents \cup {None}]
Upsert(m, c) == [type |-> "upsert", id |-> m, content |-> c]
Deleted(m) == [type |-> "deleted", id |-> m, content |-> None]

Publish(ev) == Len(feed) < MaxFeed /\ feed' = Append(feed, ev)

(***************************************************************************)
(* Sends: what _claim_and_persist_message does to the row                  *)
(***************************************************************************)
Store(m) ==
  /\ stage[m] = "minted"
  /\ stage' = [stage EXCEPT ![m] = "stored"]
  /\ content' = [content EXCEPT ![m] = "first"]
  /\ raced' = IF Walking THEN raced \cup {m} ELSE raced
  /\ UNCHANGED <<at, deleted, requests, feed, client, walk>>

\* publish_message_created.
AnnounceCreated(m) ==
  /\ stage[m] = "stored"
  /\ stage' = [stage EXCEPT ![m] = "over"]
  /\ Publish(Upsert(m, "first"))
  /\ UNCHANGED <<at, content, deleted, requests, client, walk, raced>>

(***************************************************************************)
(* edit_message, delete_message                                            *)
(***************************************************************************)
\* db.get, unlocked; the message is the caller's and not deleted.
Read(e, op, m) ==
  /\ rpc[e] = "idle"
  /\ m \in History
  /\ rpc' = [rpc EXCEPT ![e] = "read"]
  /\ rop' = [rop EXCEPT ![e] = op]
  /\ rmsg' = [rmsg EXCEPT ![e] = m]
  /\ raced' = IF Busy(m) THEN raced \cup {m} ELSE raced
  /\ UNCHANGED <<rows, feed, client, walk>>

\* Mutant: the whole object is written back, deleted_at included.
WriteWholeRow(e) ==
  /\ rpc[e] = "read"
  /\ rpc' = [rpc EXCEPT ![e] = "stored"]
  /\ content' = [content EXCEPT ![rmsg[e]] = IF rop[e] = "edit" THEN e ELSE @]
  /\ deleted' = IF rop[e] = "edit" THEN deleted \ {rmsg[e]} ELSE deleted \cup {rmsg[e]}
  /\ raced' = IF Walking THEN raced \cup {rmsg[e]} ELSE raced
  /\ UNCHANGED <<at, stage, rop, rmsg, feed, client, walk>>

\* flush and commit: the changed columns, by primary key.
Write(e) ==
  /\ rpc[e] = "read"
  /\ rpc' = [rpc EXCEPT ![e] = "stored"]
  /\ IF rop[e] = "edit"
       THEN content' = [content EXCEPT ![rmsg[e]] = e] /\ UNCHANGED deleted
       ELSE deleted' = deleted \cup {rmsg[e]} /\ UNCHANGED content
  /\ raced' = IF Walking THEN raced \cup {rmsg[e]} ELSE raced
  /\ UNCHANGED <<at, stage, rop, rmsg, feed, client, walk>>

Announcement(e) ==
  IF rop[e] = "edit" THEN Upsert(rmsg[e], e) ELSE Deleted(rmsg[e])

\* Mutant: published without waiting for the commit.
AnnounceEarly(e) ==
  /\ rpc[e] \in {"read", "stored"}
  /\ rpc' = [rpc EXCEPT ![e] = "over"]
  /\ Publish(Announcement(e))
  /\ UNCHANGED <<rows, rop, rmsg, client, walk, raced>>

\* publish_message_edited, publish_message_deleted.
Announce(e) ==
  /\ rpc[e] = "stored"
  /\ rpc' = [rpc EXCEPT ![e] = "over"]
  /\ Publish(Announcement(e))
  /\ UNCHANGED <<rows, rop, rmsg, client, walk, raced>>

(***************************************************************************)
(* The connection                                                          *)
(***************************************************************************)
\* handleOpen and onStatusChange('open'): the catch-up starts from the id
\* known now, and the join frame is sent.
Open ==
  /\ conn = "down" /\ conns < MaxConns
  /\ conn' = "open"
  /\ conns' = conns + 1
  /\ walk' = [walk EXCEPT ![conns + 1] =
       [NoWalk EXCEPT !.pc = "fetch", !.since = last, !.hidden = deleted,
          !.want = {m \in Messages : last # 0 /\ m > last /\ content[m] # None}]]
  /\ UNCHANGED <<rows, requests, feed, shown, last, raced>>

\* The server authorises the join and subscribes the connection.
Join ==
  /\ conn = "open"
  /\ conn' = "joined"
  /\ UNCHANGED <<rows, requests, feed, conns, shown, last, walk, raced>>

Drop ==
  /\ conn # "down"
  /\ conn' = "down"
  /\ UNCHANGED <<rows, requests, feed, conns, shown, last, walk, raced>>

\* Mutant: a frame about a known id is taken for a duplicate (F54).
DeliverNew ==
  /\ feed # <<>> /\ conn = "joined"
  /\ feed' = Tail(feed)
  /\ LET ev == Head(feed) IN
       /\ shown' = [shown EXCEPT ![ev.id] = IF ev.type = "deleted" THEN "gone"
                                           ELSE IF @ = None THEN ev.content ELSE @]
       /\ last' = IF ev.type = "upsert" /\ ev.id > last THEN ev.id ELSE last
  /\ UNCHANGED <<rows, requests, conn, conns, walk, raced>>

\* broadcast_to_topic to a connection that has joined, and applyFrame.
Deliver ==
  /\ feed # <<>> /\ conn = "joined"
  /\ feed' = Tail(feed)
  /\ LET ev == Head(feed) IN
       /\ shown' = [shown EXCEPT ![ev.id] = IF ev.type = "deleted" THEN "gone" ELSE ev.content]
       /\ last' = IF ev.type = "upsert" /\ ev.id > last THEN ev.id ELSE last
  /\ UNCHANGED <<rows, requests, conn, conns, walk, raced>>

\* The publish failed open, the relay was not subscribed, the socket had not
\* joined or broke: the client does not get the event.
Lose ==
  /\ feed # <<>>
  /\ feed' = Tail(feed)
  /\ raced' = raced \cup {Head(feed).id}
  /\ UNCHANGED <<rows, requests, client, walk>>

(***************************************************************************)
(* The catch-up: fetchMissedMessages over get_channel_message_history      *)
(***************************************************************************)
\* The rows after a keyset position, 0 for no cursor.
After(cursor) == {m \in History : cursor = 0 \/ at[m] < cursor}

\* ORDER BY created_at DESC LIMIT PageLimit.
Page(cursor) ==
  {m \in After(cursor) : Cardinality({k \in After(cursor) : at[k] > at[m]}) < PageLimit}

\* Mutant: the cursor is the extra row, and the predicate skips it.
NextCursorSkips(cursor) ==
  IF Page(cursor) = After(cursor) THEN 0
  ELSE CHOOSE c \in {at[m] : m \in After(cursor) \ Page(cursor)} :
         \A m \in After(cursor) \ Page(cursor) : at[m] <= c

\* Mutant: the next page begins with the row itself (<= for <).
NextCursorInclusive(cursor) ==
  IF Page(cursor) = After(cursor) THEN 0
  ELSE 1 + CHOOSE c \in {at[m] : m \in Page(cursor)} : \A m \in Page(cursor) : c <= at[m]

\* next_cursor: the page's last row, if an extra row came back.
NextCursor(cursor) ==
  IF Page(cursor) = After(cursor) THEN 0
  ELSE CHOOSE c \in {at[m] : m \in Page(cursor)} : \A m \in Page(cursor) : c <= at[m]

\* One GET and what the loop does with its items.
Fetch(w) ==
  LET wk == walk[w]
      page == Page(wk.cursor)
      known == \E m \in page : m <= wk.since
      next == NextCursor(wk.cursor)
      over == wk.since = 0 \/ known \/ next = 0
      more == ~over /\ wk.pages + 1 < MaxPages
  IN
  /\ wk.pc = "fetch"
  /\ walk' = [walk EXCEPT ![w] =
       [wk EXCEPT !.got = [m \in Messages |-> IF m \in page /\ m > wk.since
                                                THEN content[m] ELSE @[m]],
                  !.cursor = IF more THEN next ELSE 0,
                  !.pages = IF more THEN @ + 1 ELSE 0,
                  !.pc = IF more THEN "fetch" ELSE "merge",
                  !.want = IF over \/ more THEN @ ELSE {}]]
  /\ UNCHANGED <<rows, requests, feed, client, raced>>

\* upsertMessages and latestMessageId.
Merge(w) ==
  LET got == walk[w].got
      merged == [m \in Messages |-> IF got[m] # None THEN got[m] ELSE shown[m]]
  IN
  /\ walk[w].pc = "merge"
  /\ shown' = merged
  /\ last' = IF \A m \in Messages : got[m] = None THEN last
             ELSE CHOOSE m \in Messages :
                    merged[m] # None /\ \A k \in Messages : merged[k] # None => k <= m
  /\ walk' = [walk EXCEPT ![w] =
       [NoWalk EXCEPT !.pc = "over", !.since = walk[w].since, !.want = walk[w].want]]
  /\ UNCHANGED <<rows, requests, feed, conn, conns, raced>>

ConversationNext ==
  \/ \E m \in Messages : Store(m) \/ AnnounceCreated(m)
  \/ \E e \in Editors :
       \/ \E op \in {"edit", "delete"}, m \in 1 .. MaxEdited : Read(e, op, m)
       \/ Write(e) \/ Announce(e)
  \/ Open \/ Join \/ Drop \/ Deliver \/ Lose
  \/ \E w \in Walks : Fetch(w) \/ Merge(w)

ConversationSpec == ConversationInit /\ [][ConversationNext]_conversationVars

-----------------------------------------------------------------------------
Views == Contents \cup {None, "gone"}
WalkStates == [pc : {"idle", "fetch", "merge", "over"}, since : 0 .. MaxMessage,
               cursor : 0 .. MaxMessage, pages : 0 .. MaxPages,
               got : [Messages -> Contents \cup {None}],
               want : SUBSET Messages, hidden : SUBSET Messages]

\* Types of rows, requests, events and the client's state.
ConversationTypeOK ==
  /\ at \in [Messages -> Messages]
  /\ stage \in [Messages -> {"minted", "stored", "over"}]
  /\ content \in [Messages -> Contents \cup {None}]
  /\ deleted \subseteq Messages
  /\ rpc \in [Editors -> {"idle", "read", "stored", "over"}]
  /\ rop \in [Editors -> {"edit", "delete"}]
  /\ rmsg \in [Editors -> Messages \cup {None}]
  /\ feed \in Seq(Events) /\ Len(feed) <= MaxFeed
  /\ conn \in {"down", "open", "joined"} /\ conns \in 0 .. MaxConns
  /\ shown \in [Messages -> Views] /\ last \in 0 .. MaxMessage
  /\ walk \in [Walks -> WalkStates]
  /\ raced \subseteq Messages

\* F43, F44: a message whose deletion was committed when a catch-up began is on
\* none of its pages, whatever edits of it were under way (edit_message reads
\* the row before and writes it after the deletion).
DeletedNotServed ==
  \A w \in Walks : \A m \in walk[w].hidden : walk[w].got[m] = None

\* F55: when a catch-up that was not cut off is merged, the client holds every
\* message committed when it began and newer than its last id, although
\* messages are sent and deleted between the pages; unless one was deleted
\* meanwhile, or a known message has a later created_at and ended the walk.
CatchUpComplete ==
  \A w \in Walks : walk[w].pc = "over" =>
    \A m \in walk[w].want :
      \/ shown[m] # None \/ m \in deleted
      \/ \E k \in 1 .. walk[w].since : content[k] # None /\ at[k] > at[m]

\* F45, persist-then-publish: what the client shows was committed before, a
\* text by its edit, a deletion by its delete.
ShownWasCommitted ==
  \A m \in Messages :
    /\ shown[m] = "first" => content[m] # None
    /\ shown[m] = "gone" => m \in deleted
    /\ shown[m] \in Editors => rmsg[shown[m]] = m /\ rpc[shown[m]] \in {"stored", "over"}

View(m) == IF m \in deleted THEN "gone" ELSE content[m]

Quiet ==
  /\ conn = "joined" /\ feed = <<>> /\ ~Walking
  /\ \A m \in Messages : ~Busy(m)

\* F42, F43, F53: once nothing is under way the client shows every message as
\* it is stored, if the requests on it did not overlap with each other or with
\* a catch-up, and the client got all its events.
QuietViewIsCurrent ==
  Quiet => \A m \in Messages \ raced : shown[m] = View(m)
=============================================================================
