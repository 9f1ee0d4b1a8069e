---------------------------- MODULE SystemAdmins ----------------------------
(***************************************************************************)
(* System Admin accounts: the bootstrap every instance runs before it      *)
(* serves (F8, F9), and deactivation and reactivation with the guard that  *)
(* keeps the last active System Admin (F27).                               *)
(*                                                                         *)
(* Each request is a Postgres transaction at READ COMMITTED, one step per  *)
(* statement; row holds the committed users.  What a deactivation does to  *)
(* channels and sessions is in ChannelMembership and SessionRevocation.    *)
(* The administrators beside the seeded one are flagged in the database,   *)
(* no route does it: Admins is a constant.                                 *)
(***************************************************************************)
EXTENDS Naturals, FiniteSets

CONSTANTS
  Users,      \* user ids; their order is the order of the row locks
  Admins,     \* users whose is_system_admin is set
  Instances,  \* server processes
  SeedOf,     \* the admin each instance's BOOTSTRAP_ADMIN_* names
  Requests,   \* concurrently served requests
  None

ASSUME AdminAssumption ==
  /\ Users \subseteq Nat /\ IsFiniteSet(Users)
  /\ Admins \subseteq Users
  /\ SeedOf \in [Instances -> Admins]
  /\ None \notin Requests

VARIABLES
  row,     \* users.is_active of the committed row, or absent
  boot,    \* where each instance is in its start-up
  lock,    \* the request holding each user's row lock
  pc, op, target,
  todo,    \* admin rows a FOR UPDATE has still to lock
  held     \* admin rows it has locked and found active

request == <<pc, op, target, todo, held>>
vars == <<row, boot, lock, request>>

Active == {a \in Admins : row[a] = "active"}
Empty == \A u \in Users : row[u] = "absent"
Serving == \E i \in Instances : boot[i] = "up"

\* A new workspace, or one that was left with an administrator.
Init ==
  /\ row \in [Users -> {"absent", "active", "inactive"}]
  /\ Empty \/ Active # {}
  /\ boot = [i \in Instances |-> "down"]
  /\ lock = [u \in Users |-> None]
  /\ pc = [r \in Requests |-> "idle"]
  /\ op = [r \in Requests |-> "none"]
  /\ target = [r \in Requests |-> None]
  /\ todo = [r \in Requests |-> {}]
  /\ held = [r \in Requests |-> {}]

(***************************************************************************)
(* ensure_system_admin_bootstrapped                                        *)
(***************************************************************************)
\* Mutant: seeds whenever its admin is not active, replacing the row.
BootReseeds(i) ==
  /\ boot[i] = "down"
  /\ boot' = [boot EXCEPT ![i] =
                IF row[SeedOf[i]] # "active" THEN "inserted" ELSE "verify"]
  /\ UNCHANGED <<row, lock, request>>

\* The count of users; the seeded password is refused when it is too weak.
BootCount(i) ==
  /\ boot[i] = "down"
  /\ \E next \in (IF Empty THEN {"insert", "refused"} ELSE {"verify"}) :
       boot' = [boot EXCEPT ![i] = next]
  /\ UNCHANGED <<row, lock, request>>

\* The INSERT waits for another instance's uncommitted one of the same user;
\* a unique violation means another instance came first.
BootInsert(i) ==
  /\ boot[i] = "insert"
  /\ \A j \in Instances : SeedOf[j] = SeedOf[i] => boot[j] # "inserted"
  /\ boot' = [boot EXCEPT ![i] =
                IF row[SeedOf[i]] = "absent" THEN "inserted" ELSE "verify"]
  /\ UNCHANGED <<row, lock, request>>

\* The last check passes, since the transaction sees its own row; COMMIT.
BootCommit(i) ==
  /\ boot[i] = "inserted"
  /\ row' = [row EXCEPT ![SeedOf[i]] = "active"]
  /\ boot' = [boot EXCEPT ![i] = "up"]
  /\ UNCHANGED <<lock, request>>

\* _active_system_admin_exists, or BootstrapError.
BootVerify(i) ==
  /\ boot[i] = "verify"
  /\ boot' = [boot EXCEPT ![i] = IF Active # {} THEN "up" ELSE "refused"]
  /\ UNCHANGED <<row, lock, request>>

\* The process ends, in whatever state, and is started again.
BootAgain(i) ==
  /\ boot[i] # "down"
  /\ boot' = [boot EXCEPT ![i] = "down"]
  /\ UNCHANGED <<row, lock, request>>

\* An invited user registers; registration never makes a System Admin.
Register(u) ==
  /\ Serving
  /\ u \notin Admins /\ row[u] = "absent"
  /\ row' = [row EXCEPT ![u] = "active"]
  /\ UNCHANGED <<boot, lock, request>>

(***************************************************************************)
(* deactivate_user_route, reactivate_user_route                            *)
(***************************************************************************)
Goto(r, step) == pc' = [pc EXCEPT ![r] = step]

\* The answer: the transaction is over and its locks are free.
End(r) ==
  /\ Goto(r, "idle")
  /\ lock' = [u \in Users |-> IF lock[u] = r THEN None ELSE lock[u]]
  /\ op' = [op EXCEPT ![r] = "none"]
  /\ target' = [target EXCEPT ![r] = None]
  /\ todo' = [todo EXCEPT ![r] = {}]
  /\ held' = [held EXCEPT ![r] = {}]

\* The step that follows once the target was read as active or not.
AfterRead(o, t, active) ==
  IF o = "deactivate"
    THEN IF ~active THEN "idle" ELSE IF t \in Admins THEN "snapshot" ELSE "write"
    ELSE IF active THEN "idle" ELSE "write"

\* require_system_admin reads the caller; a target that is the caller is not
\* read again, the session already holds the row.
Begin(r, o, c, t) ==
  /\ Serving /\ pc[r] = "idle"
  /\ c \in Admins /\ row[c] = "active"
  /\ row[t] # "absent"
  /\ c = t => o = "deactivate"   \* the caller is active: nothing to reactivate
  /\ Goto(r, IF c = t THEN AfterRead(o, t, TRUE) ELSE "read")
  /\ op' = [op EXCEPT ![r] = o]
  /\ target' = [target EXCEPT ![r] = t]
  /\ UNCHANGED <<row, boot, lock, todo, held>>

\* _get_user_or_404, without a lock; then the early returns.
ReadTarget(r) ==
  /\ pc[r] = "read"
  /\ LET step == AfterRead(op[r], target[r], row[target[r]] = "active") IN
       IF step = "idle"
         THEN End(r)
         ELSE Goto(r, step) /\ UNCHANGED <<lock, op, target, todo, held>>
  /\ UNCHANGED <<row, boot>>

\* _lock_and_count_active_system_admins: the rows its SELECT sees ...
Snapshot(r) ==
  /\ pc[r] = "snapshot"
  /\ todo' = [todo EXCEPT ![r] = Active]
  /\ held' = [held EXCEPT ![r] = {}]
  /\ Goto(r, "lock")
  /\ UNCHANGED <<row, boot, lock, op, target>>

\* Mutant: counts a row that was deactivated while it waited for the lock.
LockUnchecked(r) ==
  /\ pc[r] = "lock"
  /\ \E a \in todo[r] :
       /\ \A b \in todo[r] : a <= b
       /\ lock[a] \in {None, r}
       /\ lock' = [lock EXCEPT ![a] = r]
       /\ held' = [held EXCEPT ![r] = @ \cup {a}]
       /\ todo' = [todo EXCEPT ![r] = @ \ {a}]
  /\ UNCHANGED <<row, boot, pc, op, target>>

\* ... and FOR UPDATE, in id order: wait for the row, lock it, and count it if
\* the newest version still qualifies.
LockRow(r) ==
  /\ pc[r] = "lock"
  /\ \E a \in todo[r] :
       /\ \A b \in todo[r] : a <= b
       /\ lock[a] \in {None, r}
       /\ lock' = [lock EXCEPT ![a] = r]
       /\ held' = [held EXCEPT ![r] = IF row[a] = "active" THEN @ \cup {a} ELSE @]
       /\ todo' = [todo EXCEPT ![r] = @ \ {a}]
  /\ UNCHANGED <<row, boot, pc, op, target>>

\* LAST_ACTIVE_SYSTEM_ADMIN: rollback and 409; or on to the succession.
Decide(r) ==
  /\ pc[r] = "lock" /\ todo[r] = {}
  /\ IF Cardinality(held[r]) <= 1
       THEN End(r)
       ELSE Goto(r, "write") /\ UNCHANGED <<lock, op, target, todo, held>>
  /\ UNCHANGED <<row, boot>>

\* The UPDATE of is_active by primary key, whatever the row holds by now.
Write(r) ==
  /\ pc[r] = "write"
  /\ lock[target[r]] \in {None, r}
  /\ lock' = [lock EXCEPT ![target[r]] = r]
  /\ Goto(r, "commit")
  /\ UNCHANGED <<row, boot, op, target, todo, held>>

\* db.commit() ends the transaction; the sessions follow (SessionRevocation).
Commit(r) ==
  /\ pc[r] = "commit"
  /\ row' = [row EXCEPT ![target[r]] =
               IF op[r] = "deactivate" THEN "inactive" ELSE "active"]
  /\ End(r)
  /\ UNCHANGED boot

\* A failing statement or commit, or the end of the process, rolls back.
Abort(r) ==
  /\ pc[r] # "idle"
  /\ End(r)
  /\ UNCHANGED <<row, boot>>

Progress(r) ==
  ReadTarget(r) \/ Snapshot(r) \/ LockRow(r) \/ Decide(r) \/ Write(r) \/ Commit(r)
Startup(i) == BootCount(i) \/ BootInsert(i) \/ BootCommit(i) \/ BootVerify(i)

Next ==
  \/ \E i \in Instances : Startup(i) \/ BootAgain(i)
  \/ \E u \in Users : Register(u)
  \/ \E r \in Requests :
       \/ \E o \in {"deactivate", "reactivate"}, c, t \in Users : Begin(r, o, c, t)
       \/ Progress(r)
       \/ Abort(r)

Spec == Init /\ [][Next]_vars

-----------------------------------------------------------------------------
\* Types of the account state of users.is_active, the row locks and the requests.
TypeOK ==
  /\ row \in [Users -> {"absent", "active", "inactive"}]
  /\ boot \in [Instances -> {"down", "insert", "inserted", "verify", "up", "refused"}]
  /\ lock \in [Users -> Requests \cup {None}]
  /\ pc \in [Requests -> {"idle", "read", "snapshot", "lock", "write", "commit"}]
  /\ op \in [Requests -> {"none", "deactivate", "reactivate"}]
  /\ target \in [Requests -> Users \cup {None}]
  /\ todo \in [Requests -> SUBSET Admins]
  /\ held \in [Requests -> SUBSET Admins]

\* F27 and ADR-0009: whatever requests overlap, whichever instances start,
\* a workspace with users, and one that is served, has an active System Admin.
AnAdminRemains == Serving \/ ~Empty => Active # {}

\* ADR-0009: starting instances, together or again, creates the first System
\* Admin but changes no account that exists: one that was deactivated stays so.
StartupKeepsAccounts ==
  [][\A u \in Users : row[u] # "absent" /\ boot' # boot => row'[u] = row[u]]_vars
=============================================================================
