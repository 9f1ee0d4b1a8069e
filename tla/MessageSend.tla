---------------------------- MODULE MessageSend ----------------------------
(***************************************************************************)
(* Idempotent message send: POST /v1/channels/{id}/messages and            *)
(* POST /v1/dms/{id}/messages of the chat backend (services/messages.py).  *)
(*                                                                         *)
(* A send carries an idempotency key.  Redis maps the key to the id of the *)
(* message it produces (SET NX with a TTL); Postgres holds the messages    *)
(* and the attachments.  Several requests with the same key run at once    *)
(* (client retries), each on its own server process, and every await is a  *)
(* point where the others may run: one action per Redis command or         *)
(* Postgres statement.                                                     *)
(*                                                                         *)
(* Abstractions: a message id is the request that generates it (the code   *)
(* calls generate_id once per request); a key stands for the pair          *)
(* (sender, Idempotency-Key); the channel-membership and DM-recipient      *)
(* gates are a free choice, since nothing here depends on why they refuse. *)
(***************************************************************************)
EXTENDS Naturals, FiniteSets

CONSTANTS
  Requests,     \* send requests, also the ids of the messages they generate
  Keys,         \* idempotency keys, each already scoped to its sender
  KeyOf,        \* the key each request carries
  Media,        \* uploaded attachments
  Wants,        \* the media_ids in each request's body
  OwnedBy,      \* the attachments uploaded by each key's sender
  None,         \* SQL NULL, a missing Redis key
  MaxAttempts,  \* _RESOLVE_MAX_ATTEMPTS
  MaxRounds,    \* _CLAIM_MAX_ROUNDS
  MaxFaults     \* how many faults may strike in one behaviour

ASSUME SendAssumption ==
  /\ KeyOf \in [Requests -> Keys]
  /\ Wants \in [Requests -> SUBSET Media]
  /\ OwnedBy \in [Keys -> SUBSET Media]
  /\ None \notin Requests
  /\ MaxAttempts \in Nat /\ MaxAttempts >= 2
  /\ MaxRounds \in Nat /\ MaxRounds >= 1
  /\ MaxFaults \in Nat

VARIABLES
  claim,      \* Redis: key -> claimed message id, or None
  rows,       \* Postgres: committed messages
  bound,      \* Postgres: attachments.message_id, committed
  lock,       \* Postgres: the transaction holding each attachment row lock
  pc,         \* where each request is in the code
  round,      \* claim round; 0 while the entry resolve runs
  probe,      \* `attempt` of the resolve loop
  seen,       \* the claimed id a resolve has read
  todo,       \* attachments the binding UPDATE has still to visit
  published,  \* message.created events put on the pub/sub topic
  faults,     \* faults so far
  lostKeys,   \* history: keys Redis lost or expired while they were claimed
  unsure      \* history: commits that took effect but reported an error

vars == <<claim, rows, bound, lock, pc, round, probe, seen, todo, published,
          faults, lostKeys, unsure>>

Final == {"created", "replayed", "refused", "timeout", "error", "crashed"}
InTransaction == {"bind", "commit", "rollback"}
\* From winning the claim until the claim is either kept or released.
Holding == InTransaction \cup {"release"}
Resolving == {"get", "row", "backoff", "last"}
Steps == {"idle", "gate", "media", "claim", "publish"}
             \cup Resolving \cup Holding \cup Final

Init ==
  /\ claim = [k \in Keys |-> None]
  /\ rows = {}
  /\ bound = [m \in Media |-> None]
  /\ lock = [m \in Media |-> None]
  /\ pc = [r \in Requests |-> "idle"]
  /\ round = [r \in Requests |-> 0]
  /\ probe = [r \in Requests |-> 0]
  /\ seen = [r \in Requests |-> None]
  /\ todo = [r \in Requests |-> {}]
  /\ published = {}
  /\ faults = 0
  /\ lostKeys = {}
  /\ unsure = {}

Goto(r, step) == pc' = [pc EXCEPT ![r] = step]
Unlocked(r) == [m \in Media |-> IF lock[m] = r THEN None ELSE lock[m]]

redisVars == <<claim, lostKeys>>
dbVars == <<rows, bound, lock, unsure>>
loopVars == <<round, probe, seen, todo>>

(***************************************************************************)
(* send_channel_message / send_dm_message: both begin by resolving a claim *)
(* that may already exist.                                                 *)
(***************************************************************************)
Arrive(r) ==
  /\ pc[r] = "idle"
  /\ Goto(r, "get")
  /\ UNCHANGED <<redisVars, dbVars, loopVars, published, faults>>

\* _resolve_existing_claim returns None: the entry call goes on to validate,
\* the claim loop starts its next round or gives up with a 503.
NothingClaimed(r) ==
  \/ /\ round[r] = 0
     /\ Goto(r, "gate")
     /\ UNCHANGED round
  \/ /\ round[r] \in 1 .. MaxRounds - 1
     /\ Goto(r, "claim")
     /\ round' = [round EXCEPT ![r] = @ + 1]
  \/ /\ round[r] = MaxRounds
     /\ Goto(r, "timeout")
     /\ UNCHANGED round

\* _resolve_existing_claim, first GET of the key.
ResolveGet(r) ==
  /\ pc[r] = "get"
  /\ \/ /\ claim[KeyOf[r]] = None
        /\ NothingClaimed(r)
        /\ UNCHANGED seen
     \/ /\ claim[KeyOf[r]] # None
        /\ seen' = [seen EXCEPT ![r] = claim[KeyOf[r]]]
        /\ Goto(r, "row")
        /\ UNCHANGED round
  /\ UNCHANGED <<redisVars, dbVars, probe, todo, published, faults>>

\* ... the fast path: the claimed row may be visible already; otherwise the
\* connection is given back and the backoff loop starts.
ResolveRow(r) ==
  /\ pc[r] = "row"
  /\ \/ seen[r] \in rows /\ Goto(r, "replayed") /\ UNCHANGED probe
     \/ seen[r] \notin rows /\ Goto(r, "backoff") /\ probe' = [probe EXCEPT ![r] = 1]
  /\ UNCHANGED <<redisVars, dbVars, round, seen, todo, published, faults>>

\* Mutant: one probe too many.
ProbeOnceMore(r) ==
  /\ pc[r] = "backoff"
  /\ claim[KeyOf[r]] # None
  /\ seen' = [seen EXCEPT ![r] = claim[KeyOf[r]]]
  /\ IF probe[r] < MaxAttempts
       THEN probe' = [probe EXCEPT ![r] = @ + 1] /\ UNCHANGED pc
       ELSE Goto(r, "last") /\ UNCHANGED probe
  /\ UNCHANGED <<redisVars, dbVars, round, todo, published, faults>>

\* Mutant: probes for as long as the key is claimed.
ProbeForever(r) ==
  /\ pc[r] = "backoff"
  /\ claim[KeyOf[r]] = None
  /\ NothingClaimed(r)
  /\ UNCHANGED <<redisVars, dbVars, probe, seen, todo, published, faults>>

\* ... one iteration: sleep, then a Redis-only probe.
ResolveProbe(r) ==
  /\ pc[r] = "backoff"
  /\ \/ /\ claim[KeyOf[r]] = None
        /\ NothingClaimed(r)
        /\ UNCHANGED <<probe, seen>>
     \/ /\ claim[KeyOf[r]] # None
        /\ seen' = [seen EXCEPT ![r] = claim[KeyOf[r]]]
        /\ IF probe[r] < MaxAttempts - 1
             THEN probe' = [probe EXCEPT ![r] = @ + 1] /\ UNCHANGED pc
             ELSE Goto(r, "last") /\ UNCHANGED probe
        /\ UNCHANGED round
  /\ UNCHANGED <<redisVars, dbVars, todo, published, faults>>

\* Mutant: answers with the claimed id although its row is not there.
ResolveUnread(r) ==
  /\ pc[r] = "last"
  /\ Goto(r, "replayed")
  /\ UNCHANGED <<redisVars, dbVars, loopVars, published, faults>>

\* ... the final attempt reads Postgres once more, then fails closed.
ResolveLast(r) ==
  /\ pc[r] = "last"
  /\ Goto(r, IF seen[r] \in rows THEN "replayed" ELSE "timeout")
  /\ UNCHANGED <<redisVars, dbVars, loopVars, published, faults>>

\* ensure_channel_and_membership, or _reject_self_dm and
\* _ensure_active_recipient_exists, then is_valid_content.
Gate(r) ==
  /\ pc[r] = "gate"
  /\ \E ok \in BOOLEAN : Goto(r, IF ok THEN "media" ELSE "refused")
  /\ UNCHANGED <<redisVars, dbVars, loopVars, published, faults>>

\* _validate_and_load_media, the early and not load-bearing check.
ValidateMedia(r) ==
  /\ pc[r] = "media"
  /\ IF \A m \in Wants[r] : m \in OwnedBy[KeyOf[r]] /\ bound[m] = None
       THEN Goto(r, "claim") /\ round' = [round EXCEPT ![r] = 1]
       ELSE Goto(r, "refused") /\ UNCHANGED round
  /\ UNCHANGED <<redisVars, dbVars, probe, seen, todo, published, faults>>

(***************************************************************************)
(* _claim_and_persist_message                                              *)
(***************************************************************************)
\* Mutant: SET without NX.
ClaimOverwrites(r) ==
  /\ pc[r] = "claim"
  /\ claim' = [claim EXCEPT ![KeyOf[r]] = r]
  /\ todo' = [todo EXCEPT ![r] = Wants[r]]
  /\ Goto(r, "bind")
  /\ UNCHANGED <<dbVars, round, probe, seen, published, faults, lostKeys>>

\* _claim_idempotency_key: SET NX EX.  The winner inserts (flush; invisible
\* to the others until it commits), the loser resolves.
Claim(r) ==
  /\ pc[r] = "claim"
  /\ \/ /\ claim[KeyOf[r]] = None
        /\ claim' = [claim EXCEPT ![KeyOf[r]] = r]
        /\ todo' = [todo EXCEPT ![r] = Wants[r]]
        /\ Goto(r, "bind")
     \/ /\ claim[KeyOf[r]] # None
        /\ Goto(r, "get")
        /\ UNCHANGED <<claim, todo>>
  /\ UNCHANGED <<dbVars, round, probe, seen, published, faults, lostKeys>>

\* _bind_media_atomically: the conditional UPDATE visits one row.  It waits
\* for a row another transaction has locked, re-checks the predicate, and
\* skips a row that no longer matches.
BindRow(r, m) ==
  /\ pc[r] = "bind"
  /\ m \in todo[r]
  /\ lock[m] = None
  /\ todo' = [todo EXCEPT ![r] = @ \ {m}]
  /\ lock' = IF bound[m] = None /\ m \in OwnedBy[KeyOf[r]]
               THEN [lock EXCEPT ![m] = r] ELSE lock
  /\ UNCHANGED <<redisVars, rows, bound, unsure, pc, round, probe, seen,
                 published, faults>>

\* Mutant: the rowcount is not compared.
BindUnchecked(r) ==
  /\ pc[r] = "bind"
  /\ todo[r] = {}
  /\ Goto(r, "commit")
  /\ UNCHANGED <<redisVars, dbVars, loopVars, published, faults>>

\* ... rowcount is compared with the number of requested media ids.
BindCheck(r) ==
  /\ pc[r] = "bind"
  /\ todo[r] = {}
  /\ Goto(r, IF \A m \in Wants[r] : lock[m] = r THEN "commit" ELSE "rollback")
  /\ UNCHANGED <<redisVars, dbVars, loopVars, published, faults>>

\* ... a blocked UPDATE is ended by the deadlock detector or by the bounded
\* statement_timeout.
BindTimeout(r) ==
  /\ pc[r] = "bind"
  /\ \E m \in todo[r] : lock[m] \notin {None, r}
  /\ Goto(r, "rollback")
  /\ UNCHANGED <<redisVars, dbVars, loopVars, published, faults>>

\* What a commit makes durable.
Persist(r) ==
  /\ rows' = rows \cup {r}
  /\ bound' = [m \in Media |-> IF lock[m] = r THEN r ELSE bound[m]]
  /\ lock' = Unlocked(r)

Commit(r) ==
  /\ pc[r] = "commit"
  /\ Persist(r)
  /\ Goto(r, "publish")
  /\ UNCHANGED <<redisVars, loopVars, published, faults, unsure>>

\* Mutant: the error path forgets the claim.
RollbackOnly(r) ==
  /\ pc[r] = "rollback"
  /\ lock' = Unlocked(r)
  /\ Goto(r, "error")
  /\ UNCHANGED <<redisVars, rows, bound, unsure, loopVars, published, faults>>

\* `except Exception`: roll back ...
Rollback(r) ==
  /\ pc[r] = "rollback"
  /\ lock' = Unlocked(r)
  /\ Goto(r, "release")
  /\ UNCHANGED <<redisVars, rows, bound, unsure, loopVars, published, faults>>

\* ... then _release_idempotency_key, an unconditional DEL, and re-raise.
Release(r) ==
  /\ pc[r] = "release"
  /\ claim' = [claim EXCEPT ![KeyOf[r]] = None]
  /\ Goto(r, "error")
  /\ UNCHANGED <<dbVars, loopVars, published, faults, lostKeys>>

\* Mutant: publishes before the commit.
PublishEarly(r) ==
  /\ pc[r] \in {"commit", "publish"}
  /\ published' = published \cup {r}
  /\ Goto(r, IF pc[r] = "publish" THEN "created" ELSE "commit")
  /\ UNCHANGED <<redisVars, dbVars, loopVars, faults>>

\* publish_message_created fails open: the event may not reach Redis.
Publish(r) ==
  /\ pc[r] = "publish"
  /\ published' \in {published, published \cup {r}}
  /\ Goto(r, "created")
  /\ UNCHANGED <<redisVars, dbVars, loopVars, faults>>

(***************************************************************************)
(* Faults                                                                  *)
(***************************************************************************)
Fault == faults < MaxFaults /\ faults' = faults + 1

\* Redis loses a claimed key: restart without persistence, eviction, or the
\* 24 hour TTL.
KeyLost(k) ==
  /\ Fault
  /\ claim[k] # None
  /\ claim' = [claim EXCEPT ![k] = None]
  /\ lostKeys' = lostKeys \cup {k}
  /\ UNCHANGED <<dbVars, pc, loopVars, published>>

\* A GET, or the SET before it took effect, fails: the request ends in a 500.
\* A failing DEL leaves the claim in place.
RedisError(r) ==
  /\ Fault
  /\ pc[r] \in {"get", "backoff", "claim", "release"}
  /\ Goto(r, "error")
  /\ UNCHANGED <<redisVars, dbVars, loopVars, published>>

\* The SET NX took effect but its reply was lost: the client either raises, or
\* retries the command and is told that the key (its own) is taken.
ClaimReplyLost(r) ==
  /\ Fault
  /\ pc[r] = "claim"
  /\ claim[KeyOf[r]] = None
  /\ claim' = [claim EXCEPT ![KeyOf[r]] = r]
  /\ \E step \in {"error", "get"} : Goto(r, step)
  /\ UNCHANGED <<dbVars, loopVars, published, lostKeys>>

\* The flush, the UPDATE or the commit fails and nothing becomes durable.
DbError(r) ==
  /\ Fault
  /\ pc[r] \in {"bind", "commit"}
  /\ Goto(r, "rollback")
  /\ UNCHANGED <<redisVars, dbVars, loopVars, published>>

\* The connection breaks after the server committed and before it said so:
\* db.commit() raises and the code treats the send as failed.
CommitUnsure(r) ==
  /\ Fault
  /\ pc[r] = "commit"
  /\ Persist(r)
  /\ unsure' = unsure \cup {r}
  /\ Goto(r, "rollback")
  /\ UNCHANGED <<redisVars, loopVars, published>>

\* The process dies, or the task is cancelled (CancelledError is not an
\* Exception, so the except clause does not run); Postgres rolls back.
Crash(r) ==
  /\ Fault
  /\ pc[r] \notin Final \cup {"idle"}
  /\ lock' = Unlocked(r)
  /\ Goto(r, "crashed")
  /\ UNCHANGED <<redisVars, rows, bound, unsure, loopVars, published>>

-----------------------------------------------------------------------------
\* A step of the request handler itself.
Step(r) ==
  \/ ResolveGet(r) \/ ResolveRow(r) \/ ResolveProbe(r) \/ ResolveLast(r)
  \/ Gate(r) \/ ValidateMedia(r) \/ Claim(r)
  \/ \E m \in Media : BindRow(r, m)
  \/ BindCheck(r) \/ BindTimeout(r)
  \/ Commit(r) \/ Rollback(r) \/ Release(r) \/ Publish(r)

FaultStep(r) ==
  \/ RedisError(r) \/ ClaimReplyLost(r) \/ DbError(r) \/ CommitUnsure(r)
  \/ Crash(r)

Next ==
  \/ \E r \in Requests : Arrive(r) \/ Step(r) \/ FaultStep(r)
  \/ \E k \in Keys : KeyLost(k)

Spec == Init /\ [][Next]_vars

\* The event loop runs every runnable task and Postgres ends every wait, so
\* each request keeps moving; clients and faults owe nothing.
FairSpec == Spec /\ \A r \in Requests : WF_vars(Step(r))
-----------------------------------------------------------------------------
TypeOK ==
  /\ claim \in [Keys -> Requests \cup {None}]
  /\ rows \subseteq Requests
  /\ bound \in [Media -> Requests \cup {None}]
  /\ lock \in [Media -> Requests \cup {None}]
  /\ pc \in [Requests -> Steps]
  /\ round \in [Requests -> 0 .. MaxRounds]
  /\ probe \in [Requests -> 0 .. MaxAttempts - 1]
  /\ seen \in [Requests -> Requests \cup {None}]
  /\ todo \in [Requests -> SUBSET Media]
  /\ published \subseteq Requests
  /\ faults \in 0 .. MaxFaults
  /\ lostKeys \subseteq Keys
  /\ unsure \subseteq Requests

\* Keys whose claim Redis kept and whose commits all reported their outcome.
Reliable(k) == k \notin lostKeys /\ \A r \in unsure : KeyOf[r] # k

\* F40, `_claim_and_persist_message`: however requests with the same key
\* interleave, and whatever else fails, at most one of them leaves a row,
\* unless Redis lost the key or a commit failed without saying so.
OneRowPerKey ==
  \A r, q \in rows : KeyOf[r] = KeyOf[q] /\ Reliable(KeyOf[r]) => r = q

Answered(r) == pc[r] \in {"created", "replayed"}
Answer(r) == IF pc[r] = "created" THEN r ELSE seen[r]

\* F40: a 201 or 200 always names a committed message of the caller's own
\* key, and all answers to a reliable key name the same one.
AnswersAgree ==
  \A r \in Requests : Answered(r) =>
    /\ Answer(r) \in rows
    /\ KeyOf[Answer(r)] = KeyOf[r]
    /\ \A q \in Requests :
         Answered(q) /\ KeyOf[q] = KeyOf[r] /\ Reliable(KeyOf[r])
           => Answer(q) = Answer(r)

\* F39, `_bind_media_atomically`: a committed message owns every attachment
\* it asked for, and an attachment belongs to a committed message of its
\* uploader; no crash, lost race or rollback leaves a partial binding.
MediaWhole ==
  /\ \A r \in rows : \A m \in Wants[r] : bound[m] = r
  /\ \A m \in Media : bound[m] # None =>
       /\ bound[m] \in rows
       /\ m \in Wants[bound[m]] \cap OwnedBy[KeyOf[bound[m]]]

\* Persist-then-publish: message.created is only ever sent for a row that is
\* already durable, by the request that wrote it.
PublishedAreDurable == published \subseteq rows

\* Module docstring, point 4: a claim pointing at a row that will never exist
\* (it blocks the key with 503s until its TTL) is left behind by a fault,
\* never by an ordinary failure such as a lost race for an attachment; one
\* fault leaves at most one.
Abandoned == {k \in Keys : claim[k] # None /\ claim[k] \notin rows
                                          /\ pc[claim[k]] \in Final}
AbandonedNeedsFault == Cardinality(Abandoned) <= faults

\* The promise of module ExactlyOnce: a row is stored by its commit, an answer
\* is given by the last step of a send, a key breaks when it is not Reliable.
Once == INSTANCE ExactlyOnce WITH
  stored <- rows,
  answer <- [r \in Requests |-> IF Answered(r) THEN Answer(r) ELSE None],
  broken <- {k \in Keys : ~Reliable(k)}

\* F40 as a refinement, `_claim_and_persist_message` and
\* `_resolve_existing_claim`: every step of every interleaving stores the one
\* message of its key, answers one request with it, ends the promise for a
\* key, or is invisible to callers; rows and answers are never taken back.
StoresOnce == Once!Spec

\* The resolve and claim loops are bounded and every lock wait ends: each
\* request that arrives is answered, whatever the others do.
EveryRequestEnds == \A r \in Requests : pc[r] # "idle" ~> pc[r] \in Final
=============================================================================
