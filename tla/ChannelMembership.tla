------------------------- MODULE ChannelMembership -------------------------
(***************************************************************************)
(* Membership of one channel (services/channels.py): join, leave, add,     *)
(* change role, remove, and the sole-admin succession that leaving,        *)
(* removal and deactivation run.                                           *)
(*                                                                         *)
(* Each request is one Postgres transaction at READ COMMITTED.  A plain    *)
(* SELECT reads the committed rows; SELECT ... FOR UPDATE takes a snapshot *)
(* and then visits its rows in user_id order, waiting for each row lock    *)
(* and re-checking the row it finds; UPDATE, DELETE and INSERT wait for    *)
(* the lock or unique-key entry of the row they touch.  Every such step is *)
(* an action, so transactions interleave statement by statement.           *)
(*                                                                         *)
(* joined_at is now(), the start of the inserting transaction, so rows may *)
(* be committed out of its order.                                          *)
(*                                                                         *)
(* Abstractions: one channel, which exists; joined_at is only compared, so *)
(* `earlier` holds, of each row and of each transaction that may insert    *)
(* one, the rows and transactions before it; all users exist.              *)
(***************************************************************************)
EXTENDS Integers, FiniteSets

CONSTANTS
  Users,      \* user ids; their order is the lock order
  StartRole,  \* the member rows to begin with: the creator's, or those that
  StartJoined, \* earlier requests left; and their joined_at
  IsPrivate,  \* channels.is_private
  Txns,       \* concurrent requests
  Routes,     \* the routes these requests call
  None

Departures == {"leave", "remove"}
Managing == {"add", "change", "remove"}
Inserting == {"join", "add"}
Stamps == Users \cup Txns

ASSUME ChannelAssumption ==
  /\ Users \subseteq Nat /\ IsFiniteSet(Users)
  /\ StartRole \in [Users -> {"none", "member", "admin"}]
  /\ StartJoined \in [Users -> Nat]
  /\ IsPrivate \in BOOLEAN
  /\ Routes \subseteq Departures \cup Managing \cup {"join", "deactivate"}
  /\ None \notin Users /\ None \notin Txns /\ Users \cap Txns = {}

VARIABLES
  role,    \* committed channel_members rows: none, member, admin
  earlier, \* the rows and inserting transactions with an earlier joined_at
  active,  \* users with is_active
  lock,    \* the transaction holding each member row
  pc, op,  \* where each transaction is, and its route
  caller, dep,  \* who asks, and the user it is about
  want,    \* the role in an add or change-role request
  todo,    \* snapshot rows the FOR UPDATE has still to visit
  got,     \* admin ids the FOR UPDATE returned
  pend,    \* uncommitted writes
  saw,     \* history: the other members when a departure last read the rows
  relied   \* history: the successor a departure found to be an admin already

args == <<op, caller, dep, want>>
seen == <<saw, relied>>
vars == <<role, earlier, active, lock, pc, args, todo, got, pend, seen>>

Admins == {u \in Users : role[u] = "admin"}
Members == {u \in Users : role[u] # "none"}
Roles == {"member", "admin"}
NoWrites == [u \in Users |-> "keep"]

\* create_channel has inserted the channel with its creator as admin, and
\* earlier requests may have changed the members since.
Init ==
  /\ role = StartRole
  /\ earlier = [x \in Stamps |-> IF x \in Members
                  THEN {v \in Members : StartJoined[v] < StartJoined[x]} ELSE {}]
  /\ active = Users
  /\ lock = [u \in Users |-> None]
  /\ pc = [t \in Txns |-> "idle"]
  /\ op = [t \in Txns |-> "none"]
  /\ caller = [t \in Txns |-> None]
  /\ dep = [t \in Txns |-> None]
  /\ want = [t \in Txns |-> "member"]
  /\ todo = [t \in Txns |-> {}]
  /\ got = [t \in Txns |-> {}]
  /\ pend = [t \in Txns |-> NoWrites]
  /\ saw = [t \in Txns |-> {}]
  /\ relied = [t \in Txns |-> {}]

Goto(t, step) == pc' = [pc EXCEPT ![t] = step]
MayLock(t, u) == lock[u] \in {None, t}

\* A transaction starts: route o, asked by c about d, with role r.
Begin(t, o, c, d, r, step) ==
  /\ pc[t] = "idle"
  /\ o \in Routes
  /\ Goto(t, step)
  /\ op' = [op EXCEPT ![t] = o]
  /\ caller' = [caller EXCEPT ![t] = c]
  /\ dep' = [dep EXCEPT ![t] = d]
  /\ want' = [want EXCEPT ![t] = r]
  /\ earlier' = IF o \in Inserting
       THEN [earlier EXCEPT ![t] = Members \cup {v \in Txns : op[v] \in Inserting}]
       ELSE earlier

\* The transaction ends; its locks go and its slot is free again.
EndTxn(t) ==
  /\ lock' = [u \in Users |-> IF lock[u] = t THEN None ELSE lock[u]]
  /\ Goto(t, "idle")
  /\ op' = [op EXCEPT ![t] = "none"]
  /\ caller' = [caller EXCEPT ![t] = None]
  /\ dep' = [dep EXCEPT ![t] = None]
  /\ want' = [want EXCEPT ![t] = "member"]
  /\ todo' = [todo EXCEPT ![t] = {}]
  /\ got' = [got EXCEPT ![t] = {}]
  /\ pend' = [pend EXCEPT ![t] = NoWrites]
  /\ saw' = [saw EXCEPT ![t] = {}]
  /\ relied' = [relied EXCEPT ![t] = {}]

\* These rows or transactions are gone.
Forget(S) ==
  earlier' = [x \in Stamps |-> IF x \in S THEN {} ELSE earlier[x] \ S]

\* An early return, a rollback, or an error: nothing was written.
Abandon(t) == EndTxn(t) /\ Forget({t}) /\ UNCHANGED <<role, active>>

(***************************************************************************)
(* The routes, up to their first row lock                                  *)
(***************************************************************************)
\* join_public_channel: an existing membership, or a private channel, returns
\* at once and writes nothing.
Join(t, u) ==
  /\ u \in active
  /\ ~IsPrivate
  /\ role[u] = "none"
  /\ Begin(t, "join", u, u, "member", "insert")
  /\ UNCHANGED <<role, active, lock, todo, got, pend, seen>>

\* leave_channel reads the caller's membership without a lock; only one read
\* as admin runs the succession.
Leave(t, u) ==
  /\ u \in active
  /\ role[u] # "none"
  /\ Begin(t, "leave", u, u, "member", IF role[u] = "admin" THEN "succession" ELSE "delete")
  /\ saw' = [saw EXCEPT ![t] = Members \ {u}]
  /\ UNCHANGED <<role, active, lock, todo, got, pend, relied>>

\* add_channel_member, change_member_role and remove_channel_member begin with
\* _lock_channel_admin_ids, whose snapshot is the committed admin rows.
Manage(t, o, c, d, r) ==
  /\ o \in Managing
  /\ o = "remove" => r = "member"
  /\ c \in active
  /\ Begin(t, o, c, d, r, "lockAdmins")
  /\ todo' = [todo EXCEPT ![t] = Admins]
  /\ UNCHANGED <<role, active, lock, got, pend, seen>>

\* deactivate_user: an inactive target is a no-op.
Deactivate(t, u) ==
  /\ u \in active
  /\ Begin(t, "deactivate", None, u, "member", "succession")
  /\ UNCHANGED <<role, active, lock, todo, got, pend, seen>>

\* reactivate_user_route: one read and one commit.
Reactivate(u) ==
  /\ u \in Users \ active
  /\ active' = active \cup {u}
  /\ UNCHANGED <<role, earlier, lock, pc, args, todo, got, pend, seen>>

(***************************************************************************)
(* _lock_channel_admin_ids                                                 *)
(***************************************************************************)
\* Mutant: no FOR UPDATE.
ReadRow(t) ==
  /\ pc[t] \in {"lockAdmins", "lockSole"}
  /\ \E u \in todo[t] :
       /\ todo' = [todo EXCEPT ![t] = @ \ {u}]
       /\ got' = IF role[u] = "admin" THEN [got EXCEPT ![t] = @ \cup {u}] ELSE got
  /\ UNCHANGED <<role, earlier, active, lock, pc, args, pend, seen>>

\* Mutant: no ORDER BY.
LockRowUnordered(t) ==
  /\ pc[t] \in {"lockAdmins", "lockSole"}
  /\ \E u \in todo[t] :
       /\ MayLock(t, u)
       /\ todo' = [todo EXCEPT ![t] = @ \ {u}]
       /\ lock' = IF role[u] # "none" THEN [lock EXCEPT ![u] = t] ELSE lock
       /\ got' = IF role[u] = "admin" THEN [got EXCEPT ![t] = @ \cup {u}] ELSE got
  /\ UNCHANGED <<role, earlier, active, pc, args, pend, seen>>

\* Mutant: counts the rows of the snapshot, whatever became of them during
\* the wait.
LockRowUnchecked(t) ==
  /\ pc[t] \in {"lockAdmins", "lockSole"}
  /\ \E u \in todo[t] :
       /\ \A v \in todo[t] : u <= v
       /\ MayLock(t, u)
       /\ todo' = [todo EXCEPT ![t] = @ \ {u}]
       /\ lock' = IF role[u] # "none" THEN [lock EXCEPT ![u] = t] ELSE lock
       /\ got' = [got EXCEPT ![t] = @ \cup {u}]
  /\ UNCHANGED <<role, earlier, active, pc, args, pend, seen>>

\* The next row in user_id order: wait for its lock, lock its latest version,
\* and return it only if that is still an admin row.
LockRow(t) ==
  /\ pc[t] \in {"lockAdmins", "lockSole"}
  /\ \E u \in todo[t] :
       /\ \A v \in todo[t] : u <= v
       /\ MayLock(t, u)
       /\ todo' = [todo EXCEPT ![t] = @ \ {u}]
       /\ lock' = IF role[u] # "none" THEN [lock EXCEPT ![u] = t] ELSE lock
       /\ got' = IF role[u] = "admin" THEN [got EXCEPT ![t] = @ \cup {u}] ELSE got
  /\ UNCHANGED <<role, earlier, active, pc, args, pend, seen>>

\* The caller must be among the locked admins (409 if there are none, 403
\* otherwise); then the target's membership is read.
CheckCaller(t) ==
  /\ pc[t] = "lockAdmins"
  /\ todo[t] = {}
  /\ IF caller[t] \notin got[t]
       THEN Abandon(t)
       ELSE LET r == role[dep[t]] IN
            \/ /\ op[t] = "add" /\ r = "none" /\ Goto(t, "insert")
               /\ UNCHANGED <<role, earlier, active, lock, args, todo, got, pend, seen>>
            \/ /\ op[t] = "change" /\ r \notin {"none", want[t]} /\ Goto(t, "update")
               /\ UNCHANGED <<role, earlier, active, lock, args, todo, got, pend, seen>>
            \/ /\ op[t] = "remove" /\ r # "none"
               /\ Goto(t, IF r = "admin" THEN "succession" ELSE "delete")
               /\ saw' = [saw EXCEPT ![t] = Members \ {dep[t]}]
               /\ UNCHANGED <<role, earlier, active, lock, args, todo, got, pend, relied>>
            \/ /\ \/ op[t] = "add" /\ r # "none"
                  \/ op[t] = "change" /\ r \in {"none", want[t]}
                  \/ op[t] = "remove" /\ r = "none"
               /\ Abandon(t)

(***************************************************************************)
(* run_sole_admin_succession                                               *)
(***************************************************************************)
AfterSuccession(t) == IF op[t] = "deactivate" THEN "commit" ELSE "delete"

\* The channels the departing user admins, read without a lock ...
Succession(t) ==
  /\ pc[t] = "succession"
  /\ Goto(t, IF role[dep[t]] = "admin" THEN "snapshot" ELSE AfterSuccession(t))
  /\ UNCHANGED <<role, earlier, active, lock, args, todo, got, pend, seen>>

\* ... then _lock_channel_admin_ids.
SoleSnapshot(t) ==
  /\ pc[t] = "snapshot"
  /\ todo' = [todo EXCEPT ![t] = Admins]
  /\ got' = [got EXCEPT ![t] = {}]
  /\ Goto(t, "lockSole")
  /\ UNCHANGED <<role, earlier, active, lock, args, pend, seen>>

\* The remaining member with the earliest joined_at.
Remaining(t) == Members \ {dep[t]}
Earliest(t, u) == u \in Remaining(t) /\ Remaining(t) \cap earlier[u] = {}

\* With exactly one locked admin, the earliest other member is promoted: the
\* UPDATE waits for its row, and a row deleted meanwhile is a StaleDataError
\* (500, rollback).  A member read as admin already needs no UPDATE.
PickSuccessor(t) ==
  /\ pc[t] = "lockSole"
  /\ todo[t] = {}
  /\ LET first == {u \in Users : Cardinality(got[t]) = 1 /\ Earliest(t, u)}
         successor == first \ Admins
     IN /\ todo' = [todo EXCEPT ![t] = successor]
        /\ relied' = [relied EXCEPT ![t] = first \cap Admins]
        /\ Goto(t, IF successor # {} THEN "promote" ELSE AfterSuccession(t))
  /\ saw' = [saw EXCEPT ![t] = Remaining(t)]
  /\ UNCHANGED <<role, earlier, active, lock, args, got, pend>>

Write(t, u, r) ==
  /\ lock' = [lock EXCEPT ![u] = t]
  /\ pend' = [pend EXCEPT ![t][u] = r]

Promote(t) ==
  /\ pc[t] = "promote"
  /\ \E u \in todo[t] :
       /\ MayLock(t, u)
       /\ \/ role[u] = "none" /\ Abandon(t)
          \/ /\ role[u] # "none"
             /\ Write(t, u, "admin")
             /\ todo' = [todo EXCEPT ![t] = {}]
             /\ Goto(t, AfterSuccession(t))
             /\ UNCHANGED <<role, earlier, active, args, got, seen>>

(***************************************************************************)
(* The writes, and the commit                                              *)
(***************************************************************************)
\* db.delete(membership): deleting a row that is already gone is no error.
Delete(t) ==
  /\ pc[t] = "delete"
  /\ MayLock(t, dep[t])
  /\ IF role[dep[t]] = "none" THEN UNCHANGED <<lock, pend>> ELSE Write(t, dep[t], "none")
  /\ Goto(t, "commit")
  /\ UNCHANGED <<role, earlier, active, args, todo, got, seen>>

\* INSERT: waits for an uncommitted duplicate; IntegrityError rolls back and
\* answers "already a member".
Insert(t) ==
  /\ pc[t] = "insert"
  /\ MayLock(t, dep[t])
  /\ \/ role[dep[t]] # "none" /\ Abandon(t)
     \/ /\ role[dep[t]] = "none"
        /\ Write(t, dep[t], want[t])
        /\ Goto(t, "commit")
        /\ UNCHANGED <<role, earlier, active, args, todo, got, seen>>

\* UPDATE role: a row deleted meanwhile is a StaleDataError.
Update(t) ==
  /\ pc[t] = "update"
  /\ MayLock(t, dep[t])
  /\ \/ role[dep[t]] = "none" /\ Abandon(t)
     \/ /\ role[dep[t]] # "none"
        /\ Write(t, dep[t], want[t])
        /\ Goto(t, "commit")
        /\ UNCHANGED <<role, earlier, active, args, todo, got, seen>>

\* The rows by joined_at after t's commit: an inserted row takes the place of
\* its transaction.
Reorder(t) ==
  IF op[t] \in Inserting
    THEN earlier' = [x \in Stamps |->
           LET old == earlier[IF x = dep[t] THEN t ELSE x]
           IN IF x = t THEN {} ELSE IF t \in old THEN (old \ {t}) \cup {dep[t]} ELSE old]
    ELSE Forget({u \in Users : role'[u] = "none"})

\* Mutant: stores the rows it did not write as well.
CommitEveryRow(t) ==
  /\ pc[t] = "commit"
  /\ role' = pend[t]
  /\ EndTxn(t)
  /\ Forget({t})
  /\ UNCHANGED active

Commit(t) ==
  /\ pc[t] = "commit"
  /\ role' = [u \in Users |-> IF pend[t][u] = "keep" THEN role[u] ELSE pend[t][u]]
  /\ Reorder(t)
  /\ active' = IF op[t] = "deactivate" THEN active \ {dep[t]} ELSE active
  /\ EndTxn(t)

\* The request fails before its commit: statement or lock timeout, deadlock
\* victim, lost connection, process crash.  Postgres rolls back.
Fail(t) ==
  /\ pc[t] # "idle"
  /\ Abandon(t)

-----------------------------------------------------------------------------
Step(t) ==
  \/ LockRow(t) \/ CheckCaller(t)
  \/ Succession(t) \/ SoleSnapshot(t) \/ PickSuccessor(t) \/ Promote(t)
  \/ Delete(t) \/ Insert(t) \/ Update(t) \/ Commit(t)

Arrival(t) ==
  \/ \E u \in Users : Join(t, u) \/ Leave(t, u) \/ Deactivate(t, u)
  \/ \E o \in Managing, c, d \in Users, r \in Roles : Manage(t, o, c, d, r)

Next ==
  \/ \E t \in Txns : Arrival(t) \/ Step(t) \/ Fail(t)
  \/ \E u \in Users : Reactivate(u)

Spec == Init /\ [][Next]_vars
-----------------------------------------------------------------------------
Steps == {"idle", "insert", "delete", "update", "lockAdmins", "lockSole",
          "succession", "snapshot", "promote", "commit"}

TypeOK ==
  /\ role \in [Users -> Roles \cup {"none"}]
  /\ earlier \in [Stamps -> SUBSET Stamps]
  /\ active \subseteq Users
  /\ lock \in [Users -> Txns \cup {None}]
  /\ pc \in [Txns -> Steps]
  /\ op \in [Txns -> Managing \cup {"none", "join", "leave", "deactivate"}]
  /\ caller \in [Txns -> Users \cup {None}]
  /\ dep \in [Txns -> Users \cup {None}]
  /\ want \in [Txns -> Roles]
  /\ todo \in [Txns -> SUBSET Users]
  /\ got \in [Txns -> SUBSET Users]
  /\ pend \in [Txns -> [Users -> Roles \cup {"none", "keep"}]]
  /\ saw \in [Txns -> SUBSET Users]
  /\ relied \in [Txns -> SUBSET Users]

\* F33, F37: add, role change and removal take effect only while the caller is
\* an admin; the row locks keep it so from the check to the commit, whoever
\* demotes or removes the caller meanwhile.
CallerStillAdmin ==
  \A t \in Txns : op[t] \in Managing /\ pc[t] \in {"insert", "update", "delete", "commit"}
                    => role[caller[t]] = "admin"

\* The commit of a departure leaves the channel without an admin although a
\* member it had seen is still there.  (Someone who joins while the only member
\* leaves is as if joining afterwards: F37 allows that.)
Commits(t) == pc[t] = "commit" /\ pc'[t] = "idle"
Orphans(t) ==
  /\ Commits(t) /\ op[t] \in Departures
  /\ Admins # {} /\ Admins' = {} /\ Members' \cap saw[t] # {}

\* F36: of several admins leaving or removed at once, the last one finds itself
\* alone and promotes a successor who is still there.  A departure that ran
\* under the admin locks orphans the channel in one case only: the earliest
\* other member, promoted while it waited for its own row, was an admin it had
\* not locked, and has left or been demoted since.
LockedDepartureCovered ==
  [][\A t \in Txns : got[t] # {} /\ Orphans(t)
       => got[t] = {dep[t]} /\ relied[t] # {} /\ relied[t] \cap Admins = {}]_vars

\* t waits for a row v holds: the next one of its FOR UPDATE, or the one it
\* writes.
WaitsFor(t, v) ==
  \E u \in Users :
    /\ lock[u] = v /\ v # t
    /\ \/ pc[t] \in {"lockAdmins", "lockSole", "promote"} /\ u \in todo[t]
                                            /\ \A x \in todo[t] : u <= x
       \/ pc[t] \in {"delete", "insert", "update"} /\ u = dep[t]

\* Requests that wait for one another, each for a row another one holds.
Ring(S) == S # {} /\ \A t \in S : \E v \in S : WaitsFor(t, v)

\* Requests inside _lock_channel_admin_ids; a removal of an admin calls it a
\* second time, for the succession, while it holds the rows of the first.
Collecting == {t \in Txns : pc[t] \in {"lockAdmins", "lockSole"}}
CollectsAgain(t) == op[t] = "remove" /\ pc[t] = "lockSole"

\* _lock_channel_admin_ids, "anti-deadlock ordering": the user_id order keeps
\* requests that collect the admin rows, those of leave and deactivation
\* included, from waiting for one another in a ring of any length, unless one of
\* them collects for the second time: a row made admin since its first time may
\* come before rows it holds.
CollectingNoDeadlock ==
  \A S \in SUBSET Collecting : Ring(S) => \E t \in S : CollectsAgain(t)

\* channels.py, module docstring: concurrent departures can never "both observe
\* 'I'm the sole admin' and both attempt (or skip) succession".
NoDepartureOrphans == [][\A t \in Txns : ~Orphans(t)]_vars
=============================================================================
