# Chatspace in TLA+

A verification development for the chatspace backend (`src/backend/app`): TLA+
models of the parts whose correctness depends on interleavings, failures and
ordering, the TLC configurations that check them, and TLAPS proofs of the
properties that matter most.

## 1. The system

Chatspace is an invite-only team chat. One or two stateless FastAPI instances
serve REST and WebSocket clients. Postgres (READ COMMITTED, one transaction per
request) is the truth; Redis holds idempotency claims, cached session verdicts,
presence counters and rate-limit windows, and carries events between instances
by pub/sub; an S3 store holds attachment bytes. Every `await` lets another task
or instance run.

| Component | State | Operations | Hard behaviour | What makes it correct |
|---|---|---|---|---|
| Message send (`services/messages.py`) | Redis claim per (sender, key), message rows, `attachments.message_id` | send to a channel or DM | retries in parallel, lost claim, crash, attachments wanted twice | one row per key, all answers the same, attachments whole, publish after commit, every request ends |
| Edit, delete, history | `messages.content`, `edited_at`, `deleted_at` | edit, delete, page | edit against delete, events out of order, pages while rows arrive | a deleted message is not served again; a quiet client shows what is stored |
| Sessions (`services/sessions.py`, `session_revocation.py`, `auth.py`, `core/deps.py`, `ws/auth.py`) | session rows, `users.is_active`, cached verdict per session | login, refresh, check, logout, delete, sweeps | stale cache fill, lost DEL, login against sweep, commit after the response | what is revoked stays revoked and is refused in the end; a failure never lets anyone in |
| Channel membership (`services/channels.py`) | `channel_members` rows with role and `joined_at` | join, leave, add, change role, remove, deactivate | row locks, snapshots, several departures at once | members always have an admin unless nobody is left; only admins manage |
| Presence (`services/presence.py`, `ws/router.py`) | counter with TTL, `users.last_seen`, presence events | connect, heartbeat, disconnect | several tabs and instances, crash, lost key | no lasting false online, last close recorded |
| System Admins (`services/admin_users.py`, `bootstrap.py`) | `users.is_active`, `is_system_admin` | deactivate, reactivate, bootstrap | two admins deactivate each other, instances starting together | one active System Admin remains |
| Invites, registration (`services/invites.py`, `api/auth.py`) | invite rows, user rows | issue, resend, revoke, redeem | redeem against revoke, resend, redeem | an invite makes at most one user, the link in the last mail works |
| Password reset (`services/password_reset.py`, `api/password.py`) | token rows | request, confirm | two requests, two confirmations | a new token closes the earlier ones, no token is closed without a use or a successor, a new password burns its token |
| Media (`services/media.py`, `media_sweep.py`) | attachment rows, stored bytes | upload, bind, sweep | sweep against bind, crash between bytes and row | a bound attachment has its bytes, no bytes without a row, orphans go |
| Relay (`ws/fanout.py`, `connection_manager.py`) | subscriptions | join, leave, broadcast | missed events, members removed while subscribed | with catch-up, each message is delivered |
| Rate limits (`core/rate_limit.py`, `ws/rate_limit.py`) | window counters | consume | limit reached at a window's edge, Redis down | never more than the limit |
| Browser client (`frontend/src`) | token, message list, socket | refresh, reconnect, merge | single-flight refresh, live and fetched messages | nothing lost or shown twice |

Interactions: deactivation runs channel succession and sweeps sessions;
password change and reset sweep sessions; every REST call and WebSocket ping
runs the session check; a send publishes to the relay; a WebSocket connection
drives presence; a send binds media that the sweep may delete.

`PROJECT.json` lists all components with their status, and under `hazards` each
place where the code is hard to test.

## 2. Modules

| Module | Models | State and actions |
|---|---|---|
| `MessageSend` | `send_channel_message`, `send_dm_message` and everything they call | `claim` is the Redis key, `rows` the committed messages, `bound`/`lock` the attachments and their row locks. One action per Redis command or SQL statement: `ResolveGet` … `ResolveLast` are the loop of `_resolve_existing_claim`, `Claim` … `Publish` the path of `_claim_and_persist_message`. |
| `SessionRevocation` | login, refresh, session check, all revocations | `sess` is the row (`flushed` before its commit), `cache` the Redis verdict. `CacheGet`, `DbRead`, `Fill`, `UserCheck` are the awaits of `require_auth`; `SweepSelect`, `SweepCommit`, `Invalidate` those of a sweep; `LoginCheck`, `LoginInsert`, `LoginCommit` those of a login. |
| `ChannelMembership` | all writers of `channel_members`, for one channel | `role` and `earlier` are the committed rows, `earlier` being their order by `joined_at`, in which a transaction that may insert a row holds its place from its start (`now()`); `lock` are the row locks, `pend` a transaction's writes. A `FOR UPDATE` is a snapshot (`Manage`, `SoleSnapshot`) and then one `LockRow` per row. |
| `Presence` | connect, heartbeat, disconnect of one user's sockets | `count` and `ttl` are the key; each Redis script, the database write and each publish is an action. The time of a disconnect is sampled (`TakeTime`) before it is written (`WriteLastSeen`), so that writes may land in another order than their samples; `fresh` and `lastSeen` say which times are later than the latest close. |
| `SystemAdmins` | `bootstrap.py` at start-up, deactivation and reactivation | `row` is the committed account, `boot` an instance's start-up. `BootCount`, `BootInsert`, `BootCommit`, `BootVerify` are the statements of the seeding; `ReadTarget`, `Snapshot`, `LockRow`, `Decide`, `Write`, `Commit` those of a request with the F27 guard, which locks the active System Admins in id order. |
| `Invites` | issue, resend, revoke and the registration that redeems an invite | `status` and `token` are the committed row, `draft` a users row not yet committed. `Insert` or `Rotate`, then `Mail`, then `Commit` are an issue or resend, whose mail is sent inside the transaction; `CheckIdentity`, `Redeem`, `InsertUser`, `CommitUser` a registration, which reads the invite without a lock, so that only the unique indexes on users stop a second one. |
| `PasswordReset` | the background job that issues a token and the confirmation | `state` is the committed token row. `Outstanding`, `Mark`, `Issue`, `Mail` are a job; `Find`, `Burn`, `WriteUser`, `Confirm` a confirmation. |
| `MediaLifecycle` | upload, binding by a send, orphan sweep | `stored` is the bucket, `row` the table, `lock` the row locks with their waiting order `ahead`. `Put`, `UploadCommit`, `UploadPurge` are an upload; `Scan`, `Pick`, `Recheck`, `Purge`, `Delete`, `SweepCommit` a sweep; `Validate`, `Pick`, `Bind`, `SendCommit` a send. |
| `Conversation` | store, edit, delete and their events, the relay, and the browser client that joins, catches up and merges, for one conversation and one client | `content`/`deleted` are the rows, `feed` the events under way, `shown` the client's list, `walk` a catch-up. `Read`, `Write`, `Announce` are an edit or delete; `Open`, `Join`, `Deliver`, `Lose`, `Drop` the connection; `Fetch` and `Merge` the client's pages. |
| `ExactlyOnce` | what a send promises, without Redis, locks or retries | `Store`, `Tell` and `Break` on the stored messages, the answers and the keys whose promise has ended. `MessageSend` implements it: `Once` maps `rows` to `stored`, the message a finished request names to `answer`, and every key that is not `Reliable` to `broken`. |
| `MC…` | small instances for TLC | |
| `…Proofs` | TLAPS proofs about the module of the same name; `RealtimeProofs` about `Presence` and `Conversation`, whose `Init`, `Next`, `Spec` and type invariant carry the module's name therefore | |

Modelling decisions that recur:

- A request is a process; a step is one await. Other processes run between any two steps.
- READ COMMITTED is modelled row by row: a blocked statement waits for the lock
  and re-checks the newest committed row, and never sees rows that were not in
  its snapshot.
- SQLAlchemy is modelled by what it sends: autoflush is off, a row is read once
  without a lock unless the code says `with_for_update`, a later flush writes
  the changed columns by primary key and looks at nothing else, and rows
  that are flushed together are written in the order of their classes.
- Faults are actions with a budget (`MaxFaults`): Redis errors, lost replies and
  lost keys, failed and unacknowledged commits, crashes and cancellations.
  The proofs hold for every budget.
- Variables marked *history* record what the properties talk about; no guard reads them
  except fault-free conditions in the properties themselves.
- Behind a choice `\E ok \in BOOLEAN` stand checks whose outcome the
  properties do not depend on (channel membership at send time, content length).

## 3. What the runs check

Runs that pass:

| Run | Instance | Shows |
|---|---|---|
| `MCSend` | 2 retries of one key, 1 send under another key, 2 attachments wanted by one retry and the other send, 3 probes, 2 rounds, 1 fault | `OneRowPerKey`, `AnswersAgree` (F40), `MediaWhole` (F39), `PublishedAreDurable`, `AbandonedNeedsFault` (a claim that blocks its key needs a fault), `EveryRequestEnds`, `StoresOnce` (the refinement of `ExactlyOnce`) |
| `MCSessionSafety` | 1 user, 2 sessions, 2 requests, 1 fault | `SweepIsComplete` (F16, F22, F25), `RevokedIsFinal`, `NeverGuessesActive` (ADR-0006), `DeactivatedShutOut` |
| `MCSessionLands` | 1 session, 2 requests, 1 fault, fairness | `RevocationLands`: a revocation takes effect although its DEL was lost or a slow reader filled in the old verdict |
| `MCChannelSafety` | 3 members, 2 of them admins, 2 requests leaving, removing, changing roles | `LockedDepartureCovered` (F36) |
| `MCChannelAccess` | 2 users from a new channel, all routes, 2 requests | `CallerStillAdmin` (F33, F37), `CollectingNoDeadlock` (no ring of requests that collect admin rows for the first time) |
| `MCPresence` | 3 connections, 2 instances, 3 faults, fairness | `NeverOvercounts`, `LastCloseRecorded` (F50), `NoLastingFalseOnline` (F49) |
| `MCSystemAdmins` | 3 System Admins and 1 user, 2 requests, 2 instances that start at any time | `AnAdminRemains` (F27, ADR-0009), `StartupKeepsAccounts` |
| `MCInvites` | 2 invites for one address, 2 usernames, 3 requests, 3 tokens | `RedeemedOnce` (F5, F7), `TokenWasMailed`, `LatestLinkWorks`, `NeverPendingAgain` |
| `MCPasswordReset` | 3 requests, 3 tokens | `EarlierSuperseded`, `ClosedForAReason` (F17), `TokenBurned` (F16) |
| `MCMedia` | 2 attachments, 2 sweeps, 1 send, batches of 2, 1 fault, fairness | `BoundHasBytes`, `NothingLeaks`, `OrphansGo` (F62) |
| `MCConversation` | 3 messages, 1 loaded before the connection dropped, 2 of them edited or deleted by 2 requests, pages of 1, 2 pages, 1 event under way, 1 connection | `DeletedNotServed` (F43, F44), `CatchUpComplete` (F55), `ShownWasCommitted` (F45), `QuietViewIsCurrent` (F42, F43, F53) |

The runs of `MessageSend`, `SessionRevocation`, `ChannelMembership`,
`Presence`, `Invites` and `Conversation` check the module's type invariant too; those of
`SystemAdmins`, `PasswordReset` and `MediaLifecycle` leave it to the proof.

Why the bounds suffice for what can happen:

- Send: two retries race for a claim and a third send competes for the
  attachments, the smallest instance with a lost claim, a lost attachment
  and a blocked lock at once (the second retry comes without attachments, so
  that nothing but the claim stops it).
- Sessions: with two sessions a password change has one to keep and one to sweep.
- Channels: with three members two admins can leave at once and someone is
  left to promote. Three requests, which the exception of `LockedDepartureCovered` needs, are too many
  for TLC to finish; the proof covers any number.
- Presence: three connections on two instances give a tab that stays while
  another instance crashes.
- System Admins: with three of them two requests can deactivate two others and meet
  in each other's locks; a third one can be reactivated meanwhile. Two
  instances race to seed the first.
- Invites: two registrations and a resend or revocation of one invite overlap,
  the second invite brings the address in conflict, and one username is free or taken.
- Password reset: two jobs and a confirmation overlap, and a third token
  comes after both.
- Media: two rows give two sweeps opposite orders of locking, and one of them a send.
- Conversation (for which the proofs cover all other sizes): a known message, a missed one and one that arrives while the client pages
  are enough for a page that moves under the cursor; two requests on one
  message overlap. One event in transit is enough, because relay
  and client handle one event at a time and the sender's publish may be delayed freely.

One fault already reaches every fault action, and a fault leads to all of its
consequences, since retries and later requests are unbounded by it.

One run ends in a violation (`PROJECT.json`, `findings`): `MCNoDepartureOrphans`
states the docstring of `services/channels.py` and F36. A member that is promoted
between the unlocked role read and the DELETE of its own leave skips succession
and leaves members without an admin. `LockedDepartureCovered` says how far the claim
holds: for every departure that took the locks, with the one exception below.

### Where the properties stop, and why

Each passing property excuses exactly what the code does not promise. The
models reach these behaviours; some differ from what a document says.

- `OneRowPerKey` excuses lost keys and unacknowledged commits: a commit that
  succeeded but raised releases the key (`messages.py:593`), and a retry inserts again (F40).
- `RevocationLands` instead of "a revoked sid fails within one request"
  (`session_revocation.py:26`): a fill that read before the revocation writes after its
  DEL and stays until its TTL.
- A login that checked `is_active` before a deactivation may commit after its
  sweep (F26). A login commits after its response, so an early request
  may cache `revoked` (F13).
- `LastCloseRecorded` says that a time later than the last close was written, not that it is
  still there: `handle_disconnect` samples `now()` before it awaits the UPDATE and the
  commit (`presence.py:318-320`). A tab closes, its disconnect samples and is delayed; a second
  tab connects, closes and writes; then the first one writes its earlier time over it,
  and that one stays, without any fault (`lastSeen = "late"` in `Presence`), although F50 has
  `last_seen` updated when the last connection closes.
- `NoLastingFalseOnline` speaks of the counter: the offline event of an old connection may be
  published after the online event of a new one (F49).
- `LockedDepartureCovered` excuses a departure that relied on an admin it had not
  locked. It takes three requests and the members d (the only admin), u and z: u's leave reads
  `member`; d's leave takes its snapshot of the admin rows, which is d alone, and waits; a role change
  makes u an admin and commits; d's leave gets its row, finds one admin and u as the
  earliest other member, an admin already, so that there is nothing to
  write and nothing is locked; u's leave deletes u, d's leave deletes d, and z stays without an admin.
- The locked admin rows of a channel can miss an admin added after the snapshot; a
  member is then promoted needlessly.
- `CollectingNoDeadlock` covers every call of `_lock_channel_admin_ids`, those of leave and deactivation
  included, and excuses one: the removal of an admin calls it a second time for the
  succession. Its docstring claims an "anti-deadlock ordering" (`channels.py:328-331`); but a
  removal that has snapshot the admin rows {2} and waits, while another request makes
  user 1 an admin, gets 2 and then, collecting again, wants 1. A third request that has locked 1
  and waits for 2 makes the ring. The model reaches it, and Postgres ends one of the two.
- Requests that lock rows in order still write other rows afterwards, so that
  Postgres's deadlock detector is needed (`Fail` in `ChannelMembership`, `Abort` in
  `SystemAdmins`). With three System Admins, two deactivations that
  read their targets as active before one was reactivated can deadlock,
  although the comment in `admin_users.py` excludes it.
- Invites: the docstring of `Invite` knows `pending -> accepted` and `pending -> revoked`. A
  revocation that read `pending` writes over `accepted`; the account
  stays. `RedeemedOnce` holds all the same.
- `LatestLinkWorks` excuses a mail whose transaction was rolled back afterwards.
- `EarlierSuperseded` says what a job sees: two jobs that run at once see neither the other's
  token, and both tokens stay open (F17, "only the most recently issued token
  is valid"). Two confirmations with one token may both succeed.
  Nothing is said of the order of the mails: they are sent after the commit, outside the
  transaction and with retries (`api/password.py:156-176`), so that the mail that arrives last may carry a token
  that a later job has closed.
- `BoundHasBytes` excuses `torn` rows: a sweep that rolls back after deleting
  bytes, as a deadlock victim or in a crash, brings the rows back, and a send may bind one.
- `QuietViewIsCurrent` excuses messages on which requests overlapped (`raced`):
  an edit racing a delete is announced after it and the client shows the
  message again, and a catch-up page read before an edit or delete overwrites its live event.
- `CatchUpComplete` excuses created_at and id orders that differ, which end the
  walk early, and speaks only of messages newer than the last known id: the client
  never asks for an older one. A message published between the
  history read and the join is not seen until the next reconnect.
- A join is authorised once: a member removed later keeps receiving until the socket closes.

### Deadlock and fairness

`MCSend`, `MCInvites`, `MCPasswordReset`, `MCMedia` and `MCConversation` turn
deadlock checking off: requests, tokens, uploads and messages are finite in number, and once they
are used up nothing is left to do. In the other runs the system never stops.

Safety properties assume no fairness. `EveryRequestEnds`, `RevocationLands`,
`NoLastingFalseOnline` and `OrphansGo` assume weak fairness of each handler's own next step:
the event loop runs every runnable task, and every lock wait ends, because the
holder's handler runs on or Postgres's deadlock detector or statement timeout
ends it (`BindTimeout`, `Deadlock`). Redis enforces its TTLs (`CacheExpire`, `TtlExpire`).
Cron starts the sweep again and again (`Scan`).
Clients, administrators and faults owe nothing: no fairness on arrivals, uploads, closing,
heartbeats, expiry of sessions or any fault.

## 4. What is proved

For every value of the constants, from one named assumption per module
(`SendAssumption`, `SessionAssumption`, `ChannelAssumption`, `PresenceAssumption`,
`ConversationAssumption`, `AdminAssumption`,
`InviteAssumption`, `ResetAssumption`, `MediaAssumption`: types of the constants; at least
two probes and one round; pages of at least one row and walks of at least one page; finitely many connections, users and attachments; a seeded account is an admin's):

- `MessageSendProofs`: `TypeCorrect`; `OneRowPerKeyHolds` and `AnswersAgreeHolds`
  from `ClaimInvariant`; `MediaWholeHolds` from `MediaInvariant`. The claim
  invariant says that while Redis keeps a key, a request between winning the
  claim and its end is the one the key names, and that a row of a reliable key
  is named by the key for ever; `OneRowPerKey` alone is not inductive, since it says
  nothing about requests that are about to commit. `PublishedAreDurableHolds` follows from it too.
  `AbandonedNeedsFaultHolds` counts, in `StrayInvariant`, the claims whose request neither holds
  them nor has written its row: no step adds one, except a fault, which adds one at most;
  the abandoned ones alone are not inductive, since a request whose
  claim was stranded by a lost reply ends later. `StoresOnceHolds` is the
  refinement `Spec => Once!Spec`, from the same invariant: a commit, reported or
  not, is a `Store` (`CommitStores`), a 200 or 201 a `Tell` (`AnswerTells`), a lost
  key a `Break` (`LossBreaks`), and every other step a stutter (`InvisibleStutters`).
- `SessionRevocationProofs`: `SessionTypeCorrect`; `NeverGuessesActiveHolds`,
  `DeactivatedShutOutHolds`, `RevokedIsFinalHolds` from `SessionInvariant`,
  which ties a cached or remembered `active` verdict to a session that was
  committed, and a request that has passed the user check to a user that was active
  when it began. `SweepIsCompleteHolds` from `DueInvariant`: what was live when a sweep's
  request began stays committed and its user's, so that the sweep selects it or finds it revoked.
- `ChannelMembershipProofs`: `ChannelTypeCorrect`; `CallerStillAdminHolds` and
  `CollectingNoDeadlockHolds` from `LockInvariant`: a row with a pending write is locked by its
  writer, the admins a request has collected are locked by it and still
  admins, and what a first collection has still to lock lies above what it holds (a leave or
  deactivation holds nothing before it collects). Of the rows that the members of
  a ring wait for, the last one (`LastRow`) has a holder that waits for a row above it.
  `LockedDepartureCoveredHolds`, an action property, needs four more invariants: which steps a route takes
  (`FlowInvariant`); that an insertion writes only a row that is not there, and a departure only its
  own row and promotions (`WritesInvariant`); that `joined_at` stays a strict partial order of the
  rows and inserting transactions, through inserts and deletes (`OrderedInvariant`), so
  that somebody is earliest if anybody remains (`EarliestExists`); and
  `CoveredInvariant`: from the choice of the successor to the commit a departure holds another admin's row, or has
  promoted somebody, or saw nobody, or relies on an admin it does not hold. That a request
  changes only its own state and no row another one has locked (`OnlyItself`,
  `LocksProtect`) reduces each to the steps of one request.
- `RealtimeProofs`, presence: `PresenceTypeCorrect`, `NeverOvercountsHolds`,
  `CounterExpiresHolds`, `LastCloseRecordedHolds`, from `FlagsInvariant` and
  `ValuesInvariant`. The last needs `Tidy`: until a time later than the latest close is
  written, some connection is still counted, or about to sample, or holds such a sample; that the counter
  does not exceed the counted connections makes one of them take it to zero. The count of connections moves by at most one per step
  (`OneStep`), except in a crash, where `PartRemoved` accounts for the ones lost.
- `RealtimeProofs`, conversation: `ConversationTypeOKHolds`. `ShownWasCommittedHolds` follows from where the client's
  texts come from: events (`EventsInvariant`) and fetched pages (`PagesInvariant`) carry only what was
  committed, which stays committed (`CommittedStays`).
  `DeletedNotServedHolds`: deletions stay, and no page holds a deleted row.
  `CatchUpCompleteHolds` rests on the keyset walk: a page holds the newest rows before its
  cursor (`PageIsNewest`), at least one if there are any (`PageShowsSome`), and the next cursor lies between the page and
  the rest (`NextCursorSeparates`); so a message that is wanted has been fetched, or lies
  beyond the cursor, or has a known message in front of it (`CoversInvariant`). The
  property alone says nothing of a walk that is under way.
  `QuietViewIsCurrentHolds`: of a message on which requests do not overlap (`OneByOneInvariant`) the last event
  under way carries the stored row, and if there is none the client shows it
  (`LatestInvariant`); pages fetched meanwhile are current (`PagesCurrentInvariant`).
  These invariants were checked with TLC before they were proved.
- `SystemAdminsProofs`: `AdminTypeCorrect`, `AnAdminRemainsHolds`,
  `StartupKeepsAccountsHolds` from `GuardInvariant`: what a request has
  collected it has locked and found active, so that a row it is about to
  deactivate is one of at least two (`AnotherOne`), and the other stays active while its lock is held.
- `InvitesProofs`: `InviteTypeCorrect`, `RedeemedOnceHolds`, `TokenWasMailedHolds`,
  `LatestLinkWorksHolds`, `NeverPendingAgainHolds` from `InviteInvariant`, whose parts say
  where each route can be and that an issue is alone with its row (`RoutesOK`), what has been mailed
  by whoever has the row to itself (`MailsOK`), that the unique index has let
  only one uncommitted user with an address through (`DraftsOK`), and how accounts and statuses agree (`AccountsOK`, `StatusOK`).
- `PasswordResetProofs`: `ResetTypeCorrect`, `EarlierSupersededHolds`, `ClosedForAReasonHolds`,
  `TokenBurnedHolds` from `ResetInvariant`: every token that existed when a
  job looked is used, marked by it or still to be marked, and the job marks no
  other (`JobsOK`); requests refer only to tokens that are committed (`RefsOK`).
- `MediaLifecycleProofs`: `MediaTypeCorrect`, `BoundHasBytesHolds`, `NothingLeaksHolds` from
  `MediaInvariant`: whoever is past the recheck of a row holds its lock and the
  row is unbound (`LocksOK`), an upload that is stored has its bytes (`UploadsOK`),
  what a sweep has purged is gone (`SweptOK`), and every row has its bytes
  unless a sweep that holds it has removed them or it is torn (`BytesOK`).

Every safety invariant, action property and refinement that a passing run checks is
also a theorem. Only model-checked are the four liveness properties, `EveryRequestEnds`, `RevocationLands`,
`NoLastingFalseOnline` and `OrphansGo`: fairness and `ENABLED` are beyond the prover.

## 5. Not modelled

Left for later, in this order:

1. A membership specification with atomic requests, implemented by
   `ChannelMembership` where that holds.
2. Refresh-token rotation in `refresh_session` with the client's single-flight
   refresh: two tabs that refresh at once.
3. A deactivation that locks the admin rows of several channels in turn.
4. Typing and member events of the relay, and a client in several conversations.

Not worth a model: rate limits, which are one atomic Redis script per
window and refuse without another effect; profile, search and listings, which read or
write one row in one statement; rendering and form state, validation of single fields,
hashing and JWT arithmetic, logging, metrics and health probes, which have no shared
state. Email delivery enters the models as an outcome: delivered, failed, or in doubt.
