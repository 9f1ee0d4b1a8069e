------------------------- MODULE SessionRevocation -------------------------
(***************************************************************************)
(* Revocable sessions: login, refresh, the per-request session check with  *)
(* its Redis cache, and every operation that revokes sessions (logout,     *)
(* DELETE /auth/sessions/{id}, password change and reset, deactivation).   *)
(*                                                                         *)
(* Postgres holds the truth (sessions.revoked_at, users.is_active); Redis  *)
(* caches a per-session verdict for a short TTL.  A request is a worker    *)
(* that runs one await at a time, so a cache fill, a revocation and a      *)
(* login can overlap in every way the server processes allow.              *)
(*                                                                         *)
(* Abstractions: credentials and tokens are valid (a wrong one fails       *)
(* before any of this state is touched); refresh-token rotation is left    *)
(* out; a WebSocket connect or ping runs the same check as a request.      *)
(***************************************************************************)
EXTENDS Naturals, FiniteSets

CONSTANTS
  Users,
  Sessions,   \* session ids, fixed in advance
  OwnerOf,    \* the user each session belongs to
  Workers,    \* concurrently served requests
  None,
  MaxFaults   \* how many Redis or commit failures may strike

ASSUME SessionAssumption ==
  /\ OwnerOf \in [Sessions -> Users]
  /\ None \notin Sessions
  /\ MaxFaults \in Nat

VARIABLES
  active,   \* users.is_active
  sess,     \* the session row: absent, flushed (login not committed), live,
            \* revoked, or gone (the login's commit failed)
  expired,  \* sessions whose expires_at has passed
  cache,    \* Redis: session_revocation_key -> none, active, revoked
  pc, op,   \* where each worker is, and in which route
  sid,      \* the session a worker authenticates with or creates
  target,   \* the user whose sessions the worker's route is about
  sweep,    \* sessions the worker is revoking or still has to invalidate
  faults,
  shut,     \* history: workers whose request began with the user inactive
  due       \* history: the target's live sessions when a sweep's request began

dbVars == <<active, sess, expired>>
history == <<shut, due>>
vars == <<dbVars, cache, pc, op, sid, target, sweep, faults, history>>

Checking == {"cacheGet", "dbFill", "dbOnly", "fillActive", "fillRevoked", "user"}
Answered == {"accepted", "denied", "refreshed", "done"}
Sweeping == {"select", "sweepCommit", "invalidate"}
Steps == {"idle", "revoke", "insert", "teardown", "refreshUser", "refreshWrite"}
             \cup Checking \cup Sweeping \cup Answered
\* Routes that need a session, and the steps they take once it was accepted.
Authenticated == {"use", "revoke", "change", "refresh"}
Sweepers == {"change", "reset", "deactivate"}
Authorised == {"accepted", "revoke", "refreshWrite", "refreshed"} \cup Sweeping

Init ==
  /\ active = [u \in Users |-> TRUE]
  /\ sess = [s \in Sessions |-> "absent"]
  /\ expired = {}
  /\ cache = [s \in Sessions |-> "none"]
  /\ pc = [w \in Workers |-> "idle"]
  /\ op = [w \in Workers |-> "none"]
  /\ sid = [w \in Workers |-> None]
  /\ target = [w \in Workers |-> None]
  /\ sweep = [w \in Workers |-> {}]
  /\ faults = 0
  /\ shut = {}
  /\ due = [w \in Workers |-> {}]

Goto(w, step) == pc' = [pc EXCEPT ![w] = step]
Fault == faults < MaxFaults /\ faults' = faults + 1
Mine(u) == {s \in Sessions : OwnerOf[s] = u}

\* A worker picks up a request of route o; its history flags are set from what
\* was true when the request began.
Begin(w, o, s, u, step) ==
  /\ pc[w] = "idle"
  /\ Goto(w, step)
  /\ op' = [op EXCEPT ![w] = o]
  /\ sid' = [sid EXCEPT ![w] = s]
  /\ target' = [target EXCEPT ![w] = u]
  /\ shut' = IF active[u] THEN shut ELSE shut \cup {w}
  /\ due' = [due EXCEPT ![w] =
               IF o \in Sweepers THEN {x \in Mine(u) : sess[x] = "live"} ELSE {}]

\* The request has been answered; the worker is free again.
Done(w) ==
  /\ pc[w] \in Answered
  /\ Goto(w, "idle")
  /\ op' = [op EXCEPT ![w] = "none"]
  /\ sid' = [sid EXCEPT ![w] = None]
  /\ target' = [target EXCEPT ![w] = None]
  /\ sweep' = [sweep EXCEPT ![w] = {}]
  /\ shut' = shut \ {w}
  /\ due' = [due EXCEPT ![w] = {}]
  /\ UNCHANGED <<dbVars, cache, faults>>

(***************************************************************************)
(* require_auth / authenticate_connect / revalidate_connection             *)
(***************************************************************************)
\* A client that has been given session s uses it: for a plain request or a
\* socket ("use"), to revoke session t ("revoke": logout when t = s), or to
\* change the password ("change").
Request(w, o, s, t) ==
  /\ sess[s] \in {"flushed", "live", "revoked", "gone"}
  /\ o \in {"use", "change"} => t = s
  /\ Begin(w, o, s, OwnerOf[s], "cacheGet")
  /\ sweep' = [sweep EXCEPT ![w] = IF o = "revoke" THEN {t} ELSE {}]
  /\ UNCHANGED <<dbVars, cache, faults>>

\* is_session_active, the cache read.
CacheGet(w) ==
  /\ pc[w] = "cacheGet"
  /\ Goto(w, CASE cache[sid[w]] = "active" -> "user"
               [] cache[sid[w]] = "revoked" -> "denied"
               [] OTHER -> "dbFill")
  /\ UNCHANGED <<dbVars, cache, op, sid, target, sweep, faults, history>>

\* Mutant: a Redis error counts as "not revoked".
CacheErrorIsActive(w) ==
  /\ Fault
  /\ pc[w] = "cacheGet"
  /\ Goto(w, "user")
  /\ UNCHANGED <<dbVars, cache, op, sid, target, sweep, history>>

\* ... Redis fails closed: the verdict comes from Postgres and is not cached.
CacheGetFails(w) ==
  /\ Fault
  /\ pc[w] = "cacheGet"
  /\ Goto(w, "dbOnly")
  /\ UNCHANGED <<dbVars, cache, op, sid, target, sweep, history>>

\* _read_session_active_from_db: a row that is missing or not yet committed
\* reads as inactive.
DbRead(w) ==
  /\ pc[w] \in {"dbFill", "dbOnly"}
  /\ LET live == sess[sid[w]] = "live" /\ sid[w] \notin expired
     IN Goto(w, CASE pc[w] = "dbFill" /\ live -> "fillActive"
                  [] pc[w] = "dbFill" /\ ~live -> "fillRevoked"
                  [] pc[w] = "dbOnly" /\ live -> "user"
                  [] pc[w] = "dbOnly" /\ ~live -> "denied")
  /\ UNCHANGED <<dbVars, cache, op, sid, target, sweep, faults, history>>

\* Mutant: writes a value the cache read does not know.
FillUnknown(w) ==
  /\ pc[w] \in {"fillActive", "fillRevoked"}
  /\ cache' = [cache EXCEPT ![sid[w]] = IF pc[w] = "fillActive" THEN "live" ELSE "revoked"]
  /\ Goto(w, IF pc[w] = "fillActive" THEN "user" ELSE "denied")
  /\ UNCHANGED <<dbVars, op, sid, target, sweep, faults, history>>

\* _write_cache: repopulates with the verdict read a moment ago.
Fill(w) ==
  /\ pc[w] \in {"fillActive", "fillRevoked"}
  /\ cache' = [cache EXCEPT ![sid[w]] = IF pc[w] = "fillActive" THEN "active" ELSE "revoked"]
  /\ Goto(w, IF pc[w] = "fillActive" THEN "user" ELSE "denied")
  /\ UNCHANGED <<dbVars, op, sid, target, sweep, faults, history>>

\* ... and fails open.
FillFails(w) ==
  /\ Fault
  /\ pc[w] \in {"fillActive", "fillRevoked"}
  /\ Goto(w, IF pc[w] = "fillActive" THEN "user" ELSE "denied")
  /\ UNCHANGED <<dbVars, cache, op, sid, target, sweep, history>>

\* Mutant: trusts the session verdict for the user too.
UserUnchecked(w) ==
  /\ pc[w] = "user"
  /\ \/ op[w] = "use" /\ Goto(w, "accepted")
     \/ op[w] = "revoke" /\ Goto(w, "revoke")
     \/ op[w] = "change" /\ Goto(w, "select")
  /\ UNCHANGED <<dbVars, cache, op, sid, target, sweep, faults, history>>

\* users.is_active, read uncached from Postgres on every request; then the
\* route itself.
UserCheck(w) ==
  /\ pc[w] = "user"
  /\ \/ ~active[OwnerOf[sid[w]]] /\ Goto(w, "denied")
     \/ /\ active[OwnerOf[sid[w]]]
        /\ \/ op[w] = "use" /\ Goto(w, "accepted")
           \/ op[w] = "revoke" /\ Goto(w, "revoke")
           \/ op[w] = "change" /\ Goto(w, "select")
  /\ UNCHANGED <<dbVars, cache, op, sid, target, sweep, faults, history>>

(***************************************************************************)
(* Revocation: commit first, then bust the cache                           *)
(***************************************************************************)
\* revoke_session and db.commit(), for logout and delete_session; a session
\* that is missing is a 404, another user's a 403.
Revoke(w) ==
  /\ pc[w] = "revoke"
  /\ \E t \in sweep[w] :
       IF sess[t] \in {"live", "revoked"} /\ OwnerOf[t] = OwnerOf[sid[w]]
         THEN /\ sess' = [sess EXCEPT ![t] = "revoked"]
              /\ Goto(w, "invalidate")
         ELSE /\ Goto(w, "done")
              /\ UNCHANGED sess
  /\ UNCHANGED <<active, expired, cache, op, sid, target, sweep, faults, history>>

\* Mutant: leaves out sessions past their expires_at, which a refresh already
\* under way may still extend.
SweepUnexpired(w) ==
  /\ pc[w] = "select"
  /\ sweep' = [sweep EXCEPT ![w] =
                 {s \in Mine(target[w]) \ expired : sess[s] = "live" /\ s # sid[w]}]
  /\ Goto(w, "sweepCommit")
  /\ UNCHANGED <<dbVars, cache, op, sid, target, faults, history>>

\* revoke_sessions_for_user selects the committed, unrevoked sessions; a
\* password change keeps the session it came from.
SweepSelect(w) ==
  /\ pc[w] = "select"
  /\ sweep' = [sweep EXCEPT ![w] =
                 {s \in Mine(target[w]) : sess[s] = "live" /\ s # sid[w]}]
  /\ Goto(w, "sweepCommit")
  /\ UNCHANGED <<dbVars, cache, op, sid, target, faults, history>>

\* The commit of change_password, confirm_password_reset or deactivate_user.
SweepCommit(w) ==
  /\ pc[w] = "sweepCommit"
  /\ sess' = [s \in Sessions |-> IF s \in sweep[w] THEN "revoked" ELSE sess[s]]
  /\ active' = IF op[w] = "deactivate" THEN [active EXCEPT ![target[w]] = FALSE] ELSE active
  /\ Goto(w, "invalidate")
  /\ UNCHANGED <<expired, cache, op, sid, target, sweep, faults, history>>

\* invalidate_session_cache, one DEL after another.
Invalidate(w, s) ==
  /\ pc[w] = "invalidate"
  /\ s \in sweep[w]
  /\ cache' = [cache EXCEPT ![s] = "none"]
  /\ sweep' = [sweep EXCEPT ![w] = @ \ {s}]
  /\ UNCHANGED <<dbVars, pc, op, sid, target, faults, history>>

\* ... each fails open: the cached verdict survives.
InvalidateFails(w, s) ==
  /\ Fault
  /\ pc[w] = "invalidate"
  /\ s \in sweep[w]
  /\ sweep' = [sweep EXCEPT ![w] = @ \ {s}]
  /\ UNCHANGED <<dbVars, cache, pc, op, sid, target, history>>

Invalidated(w) ==
  /\ pc[w] = "invalidate"
  /\ sweep[w] = {}
  /\ Goto(w, "done")
  /\ UNCHANGED <<dbVars, cache, op, sid, target, sweep, faults, history>>

(***************************************************************************)
(* Routes that do not begin with a session                                 *)
(***************************************************************************)
\* authenticate_and_login reads the user row and checks is_active; s is the
\* session it goes on to create.
LoginCheck(w, s) ==
  /\ sess[s] = "absent"
  /\ \A v \in Workers : sid[v] # s
  /\ active[OwnerOf[s]]
  /\ Begin(w, "login", s, OwnerOf[s], "insert")
  /\ UNCHANGED <<dbVars, cache, sweep, faults>>

\* create_session flushes the row and the route answers 200; the commit is
\* left to get_db_session's teardown, which the framework runs after the
\* response has been sent.
LoginInsert(w) ==
  /\ pc[w] = "insert"
  /\ sess' = [sess EXCEPT ![sid[w]] = "flushed"]
  /\ Goto(w, "teardown")
  /\ UNCHANGED <<active, expired, cache, op, sid, target, sweep, faults, history>>

LoginCommit(w) ==
  /\ pc[w] = "teardown"
  /\ sess' = [sess EXCEPT ![sid[w]] = "live"]
  /\ Goto(w, "done")
  /\ UNCHANGED <<active, expired, cache, op, sid, target, sweep, faults, history>>

LoginCommitFails(w) ==
  /\ Fault
  /\ pc[w] = "teardown"
  /\ sess' = [sess EXCEPT ![sid[w]] = "gone"]
  /\ Goto(w, "done")
  /\ UNCHANGED <<active, expired, cache, op, sid, target, sweep, history>>

\* refresh_session: the session row by token hash ...
RefreshRead(w, s) ==
  /\ sess[s] \in {"flushed", "live", "revoked", "gone"}
  /\ Begin(w, "refresh", s, OwnerOf[s],
           IF sess[s] = "live" /\ s \notin expired THEN "refreshUser" ELSE "denied")
  /\ UNCHANGED <<dbVars, cache, sweep, faults>>

\* ... the owner's is_active ...
RefreshUser(w) ==
  /\ pc[w] = "refreshUser"
  /\ Goto(w, IF active[target[w]] THEN "refreshWrite" ELSE "denied")
  /\ UNCHANGED <<dbVars, cache, op, sid, target, sweep, faults, history>>

\* Mutant: writes back the whole row it read, revoked_at included.
RefreshWritesRow(w) ==
  /\ pc[w] = "refreshWrite"
  /\ expired' = expired \ {sid[w]}
  /\ sess' = [sess EXCEPT ![sid[w]] = "live"]
  /\ Goto(w, "refreshed")
  /\ UNCHANGED <<active, cache, op, sid, target, sweep, faults, history>>

\* ... and the UPDATE of the changed columns only: token hash, last_used_at,
\* expires_at.
RefreshWrite(w) ==
  /\ pc[w] = "refreshWrite"
  /\ expired' = expired \ {sid[w]}
  /\ Goto(w, "refreshed")
  /\ UNCHANGED <<active, sess, cache, op, sid, target, sweep, faults, history>>

\* confirm_password_reset: authenticated by the mailed token, sweeps all.
PasswordReset(w, u) ==
  /\ Begin(w, "reset", None, u, "select")
  /\ UNCHANGED <<dbVars, cache, sweep, faults>>

\* deactivate_user_route loads the target; an inactive one is a no-op.
Deactivate(w, u) ==
  /\ Begin(w, "deactivate", None, u, IF active[u] THEN "select" ELSE "done")
  /\ UNCHANGED <<dbVars, cache, sweep, faults>>

\* reactivate_user_route, read and commit.
Reactivate(u) ==
  /\ ~active[u]
  /\ active' = [active EXCEPT ![u] = TRUE]
  /\ shut' = {w \in shut : target[w] # u}
  /\ UNCHANGED <<sess, expired, cache, pc, op, sid, target, sweep, faults, due>>

\* Time: a session passes its expires_at, a cache entry its TTL.
Expire(s) ==
  /\ sess[s] = "live"
  /\ s \notin expired
  /\ expired' = expired \cup {s}
  /\ UNCHANGED <<active, sess, cache, pc, op, sid, target, sweep, faults, history>>

\* Mutant: active verdicts are cached without a TTL.
OnlyRevokedExpires(s) ==
  /\ cache[s] = "revoked"
  /\ cache' = [cache EXCEPT ![s] = "none"]
  /\ UNCHANGED <<dbVars, pc, op, sid, target, sweep, faults, history>>

CacheExpire(s) ==
  /\ cache[s] # "none"
  /\ cache' = [cache EXCEPT ![s] = "none"]
  /\ UNCHANGED <<dbVars, pc, op, sid, target, sweep, faults, history>>

-----------------------------------------------------------------------------
Step(w) ==
  \/ Done(w) \/ CacheGet(w) \/ DbRead(w) \/ Fill(w) \/ UserCheck(w)
  \/ Revoke(w) \/ SweepSelect(w) \/ SweepCommit(w)
  \/ \E s \in Sessions : Invalidate(w, s)
  \/ Invalidated(w)
  \/ LoginInsert(w) \/ LoginCommit(w) \/ RefreshUser(w) \/ RefreshWrite(w)

Arrival(w) ==
  \/ \E s, t \in Sessions : \E o \in {"use", "revoke", "change"} : Request(w, o, s, t)
  \/ \E s \in Sessions : LoginCheck(w, s) \/ RefreshRead(w, s)
  \/ \E u \in Users : PasswordReset(w, u) \/ Deactivate(w, u)

FaultStep(w) ==
  \/ CacheGetFails(w) \/ FillFails(w) \/ LoginCommitFails(w)
  \/ \E s \in Sessions : InvalidateFails(w, s)

Next ==
  \/ \E w \in Workers : Arrival(w) \/ Step(w) \/ FaultStep(w)
  \/ \E u \in Users : Reactivate(u)
  \/ \E s \in Sessions : Expire(s) \/ CacheExpire(s)

Spec == Init /\ [][Next]_vars

\* Requests in progress keep running and Redis enforces its TTL; nobody has to
\* send a request, reactivate a user or let a session expire.
FairSpec ==
  /\ Spec
  /\ \A w \in Workers : WF_vars(Step(w))
  /\ \A s \in Sessions : WF_vars(CacheExpire(s))
-----------------------------------------------------------------------------
TypeOK ==
  /\ active \in [Users -> BOOLEAN]
  /\ sess \in [Sessions -> {"absent", "flushed", "live", "revoked", "gone"}]
  /\ expired \subseteq Sessions
  /\ cache \in [Sessions -> {"none", "active", "revoked"}]
  /\ pc \in [Workers -> Steps]
  /\ op \in [Workers -> Authenticated \cup {"none", "login", "reset", "deactivate"}]
  /\ sid \in [Workers -> Sessions \cup {None}]
  /\ target \in [Workers -> Users \cup {None}]
  /\ sweep \in [Workers -> SUBSET Sessions]
  /\ faults \in 0 .. MaxFaults
  /\ shut \subseteq Workers
  /\ due \in [Workers -> SUBSET Sessions]

\* ADR-0006, `is_session_active` "never guesses active": whatever Redis does,
\* only a session whose login committed is ever let through.
NeverGuessesActive ==
  \A w \in Workers : op[w] \in Authenticated /\ pc[w] \in Authorised
                       => sess[sid[w]] \in {"live", "revoked"}

\* F25, `require_auth`: a request or refresh that begins after its user's
\* deactivation committed is refused, however stale the cache is, unless the
\* user is reactivated meanwhile.
DeactivatedShutOut ==
  \A w \in shut : op[w] \in Authenticated => pc[w] \notin Authorised

\* `revoke_session`, `revoke_sessions_for_user`: no overlapping login, refresh
\* or sweep ever brings a revoked session back.
NoneRestored == \A s \in Sessions : sess[s] = "revoked" => sess'[s] = "revoked"
RevokedIsFinal == [][NoneRestored]_vars

\* F16, F22, F25: once a password change, reset or deactivation has committed,
\* every session that was live when the request began is revoked, except the
\* one a password change came from.
SweepIsComplete ==
  \A w \in Workers :
    pc[w] = "invalidate" /\ op[w] \in Sweepers
      => \A s \in due[w] \ {sid[w]} : sess[s] = "revoked"

\* ADR-0006: the cache cannot keep a revoked session alive: after its
\* revocation commits there is a time from which it is never again cached as
\* active, even if the DEL is lost or a slow reader fills in an old verdict.
RevocationLands ==
  \A s \in Sessions : sess[s] = "revoked" ~> [](cache[s] # "active")
=============================================================================
