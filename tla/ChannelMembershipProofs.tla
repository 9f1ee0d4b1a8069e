---------------------- MODULE ChannelMembershipProofs ----------------------
(***************************************************************************)
(* Proofs about ChannelMembership for any users, members to begin with and *)
(* number of concurrent requests.  They rest on LockInv: what a request    *)
(* has locked nobody else changes, and while it first collects the admin   *)
(* rows it holds only rows before those still to visit.  The succession    *)
(* needs more: which rows each route writes, that joined_at orders the     *)
(* members, and whom a departure leaves behind.                            *)
(***************************************************************************)
EXTENDS ChannelMembership, FiniteSetTheorems, WellFoundedInduction, TLAPS

\* The types of the variables the locking is about.
Shapes ==
  /\ role \in [Users -> Roles \cup {"none"}]
  /\ lock \in [Users -> Txns \cup {None}]
  /\ pc \in [Txns -> Steps]
  /\ op \in [Txns -> Managing \cup {"none", "join", "leave", "deactivate"}]
  /\ caller \in [Txns -> Users \cup {None}]
  /\ dep \in [Txns -> Users \cup {None}]
  /\ want \in [Txns -> Roles]
  /\ todo \in [Txns -> SUBSET Users]
  /\ got \in [Txns -> SUBSET Users]
  /\ pend \in [Txns -> [Users -> Roles \cup {"none", "keep"}]]
  /\ \A t \in Txns : pc[t] # "idle" => dep[t] \in Users

\* A request that is not running, or a leave or deactivation that has still to
\* collect, holds nothing; one that only writes holds what it writes.
Held ==
  \A t \in Txns :
    /\ pc[t] = "idle" => /\ op[t] = "none" /\ got[t] = {}
                         /\ \A u \in Users : lock[u] # t
    /\ pc[t] = "lockAdmins" => op[t] \in Managing
    /\ pc[t] \in {"succession", "snapshot"} /\ op[t] # "remove"
         => \A u \in Users : lock[u] # t
    /\ \A u \in Users : pend[t][u] # "keep" => lock[u] = t

\* The admin rows collected so far, and after the check the caller's, are
\* locked and still admin rows.
Checked ==
  \A t \in Txns :
    /\ pc[t] = "lockAdmins" => \A u \in got[t] : lock[u] = t /\ role[u] = "admin"
    /\ op[t] \in Managing /\ pc[t] # "lockAdmins"
         => /\ caller[t] \in Users
            /\ lock[caller[t]] = t /\ role[caller[t]] = "admin"

\* A request that collects the admin rows for the first time holds only rows
\* before those it has still to visit.
Ascending ==
  \A t \in Txns : pc[t] \in {"lockAdmins", "lockSole"} /\ ~CollectsAgain(t) =>
    \A u \in Users, v \in todo[t] : lock[u] = t => u < v

LockInv == Shapes /\ Held /\ Checked /\ Ascending

-----------------------------------------------------------------------------
\* Ending without a commit keeps the types ...
LEMMA AbandonShapes ==
  ASSUME Shapes, NEW t \in Txns, Abandon(t) PROVE Shapes'
BY ChannelAssumption
   DEF Shapes, Abandon, EndTxn, Goto, Steps, Roles, NoWrites

\* ... and so does writing a row.
LEMMA WriteShapes ==
  ASSUME Shapes, NEW t \in Txns, NEW u \in Users,
         NEW r \in Roles \cup {"none"}, Write(t, u, r)
  PROVE  /\ lock' \in [Users -> Txns \cup {None}]
         /\ pend' \in [Txns -> [Users -> Roles \cup {"none", "keep"}]]
<1>1. [pend[t] EXCEPT ![u] = r] \in [Users -> Roles \cup {"none", "keep"}]
  BY DEF Shapes
<1>2. pend' = [pend EXCEPT ![t] = [pend[t] EXCEPT ![u] = r]]
  BY DEF Write, Shapes
<1>3. QED
  BY <1>1, <1>2 DEF Write, Shapes

\* The variables of the argument keep their types.
LEMMA ShapesInvariant == Spec => []Shapes
<1> USE ChannelAssumption
<1>1. Init => Shapes
  BY DEF Init, Shapes, NoWrites, Roles, Steps
<1>2. Shapes /\ [Next]_vars => Shapes'
  <2> SUFFICES ASSUME Shapes, [Next]_vars PROVE Shapes'
    OBVIOUS
  <2> USE DEF Shapes, Goto, args, seen, Steps, Roles, Managing, NoWrites
  <2>1. ASSUME NEW t \in Txns, LockRow(t) PROVE Shapes'
    BY <2>1 DEF LockRow, MayLock
  <2>2. ASSUME NEW t \in Txns, CheckCaller(t) PROVE Shapes'
    <3>1. CASE Abandon(t)
      BY <3>1, AbandonShapes
    <3>2. CASE ~Abandon(t)
      BY <2>2, <3>2 DEF CheckCaller
    <3>3. QED
      BY <3>1, <3>2
  <2>3. ASSUME NEW t \in Txns, Succession(t) PROVE Shapes'
    BY <2>3 DEF Succession, AfterSuccession
  <2>4. ASSUME NEW t \in Txns, SoleSnapshot(t) PROVE Shapes'
    BY <2>4 DEF SoleSnapshot, Admins
  <2>5. ASSUME NEW t \in Txns, PickSuccessor(t) PROVE Shapes'
    BY <2>5 DEF PickSuccessor, AfterSuccession
  <2>6. ASSUME NEW t \in Txns, Promote(t) PROVE Shapes'
    <3>1. CASE Abandon(t)
      BY <3>1, AbandonShapes
    <3>2. CASE ~Abandon(t)
      <4>1. PICK u \in Users : Write(t, u, "admin")
        BY <2>6, <3>2 DEF Promote
      <4>2. QED
        BY <2>6, <3>2, <4>1, WriteShapes DEF Promote, AfterSuccession
    <3>3. QED
      BY <3>1, <3>2
  <2>7. ASSUME NEW t \in Txns, Delete(t) PROVE Shapes'
    <3>1. dep[t] \in Users
      BY <2>7 DEF Delete
    <3>2. CASE Write(t, dep[t], "none")
      BY <2>7, <3>1, <3>2, WriteShapes DEF Delete
    <3>3. CASE UNCHANGED <<lock, pend>>
      BY <2>7, <3>3 DEF Delete
    <3>4. QED
      BY <2>7, <3>2, <3>3 DEF Delete
  <2>8. ASSUME NEW t \in Txns, Insert(t) PROVE Shapes'
    <3>1. CASE Abandon(t)
      BY <3>1, AbandonShapes
    <3>2. CASE ~Abandon(t)
      <4>1. dep[t] \in Users /\ Write(t, dep[t], want[t])
        BY <2>8, <3>2 DEF Insert
      <4>2. QED
        BY <2>8, <3>2, <4>1, WriteShapes DEF Insert
    <3>3. QED
      BY <3>1, <3>2
  <2>9. ASSUME NEW t \in Txns, Update(t) PROVE Shapes'
    <3>1. CASE Abandon(t)
      BY <3>1, AbandonShapes
    <3>2. CASE ~Abandon(t)
      <4>1. dep[t] \in Users /\ Write(t, dep[t], want[t])
        BY <2>9, <3>2 DEF Update
      <4>2. QED
        BY <2>9, <3>2, <4>1, WriteShapes DEF Update
    <3>3. QED
      BY <3>1, <3>2
  <2>10. ASSUME NEW t \in Txns, Commit(t) PROVE Shapes'
    BY <2>10 DEF Commit, EndTxn
  <2>11. ASSUME NEW t \in Txns, Fail(t) PROVE Shapes'
    BY <2>11, AbandonShapes DEF Fail
  <2>12. ASSUME NEW t \in Txns, NEW u \in Users, Join(t, u) PROVE Shapes'
    BY <2>12 DEF Join, Begin
  <2>13. ASSUME NEW t \in Txns, NEW u \in Users, Leave(t, u) PROVE Shapes'
    BY <2>13 DEF Leave, Begin
  <2>14. ASSUME NEW t \in Txns, NEW u \in Users, Deactivate(t, u) PROVE Shapes'
    BY <2>14 DEF Deactivate, Begin
  <2>15. ASSUME NEW t \in Txns, NEW o \in Managing, NEW c \in Users,
             NEW d \in Users, NEW r \in Roles, Manage(t, o, c, d, r) PROVE Shapes'
    BY <2>15 DEF Manage, Begin, Admins
  <2>16. ASSUME NEW u \in Users, Reactivate(u) PROVE Shapes'
    BY <2>16 DEF Reactivate
  <2>17. CASE UNCHANGED vars
    BY <2>17 DEF vars
  <2> HIDE DEF Shapes, Goto, args, seen, Steps, Roles, Managing, NoWrites
  <2>18. QED
    BY <2>1, <2>2, <2>3, <2>4, <2>5, <2>6, <2>7, <2>8, <2>9, <2>10,
       <2>11, <2>12, <2>13, <2>14, <2>15, <2>16, <2>17
       DEF Next, Step, Arrival
<1>3. QED
  BY <1>1, <1>2, PTL DEF Spec

\* Ending without a commit keeps the invariant: only the locks of the request
\* itself go ...
LEMMA AbandonLocks ==
  ASSUME LockInv, Shapes', NEW t \in Txns, Abandon(t) PROVE LockInv'
BY ChannelAssumption
   DEF LockInv, Shapes, Held, Checked, Ascending, CollectsAgain, Abandon, EndTxn, Goto, NoWrites,
       Managing

\* ... and so does a write, which waits for a row somebody else holds.
LEMMA WriteLocks ==
  ASSUME LockInv, Shapes', NEW t \in Txns, NEW u \in Users,
         NEW r \in Roles \cup {"none"}, NEW step \in {"delete", "commit"},
         pc[t] \notin {"idle", "lockAdmins"},
         MayLock(t, u), Write(t, u, r), Goto(t, step),
         \A v \in Txns \ {t} : todo'[v] = todo[v],
         UNCHANGED <<role, args, got>>
  PROVE  LockInv'
<1> USE ChannelAssumption DEF LockInv, Shapes, Goto, args
<1>1. /\ lock' = [lock EXCEPT ![u] = t]
      /\ \A v \in Txns, x \in Users :
           pend'[v][x] = IF v = t /\ x = u THEN r ELSE pend[v][x]
      /\ \A v \in Txns : pc'[v] = IF v = t THEN step ELSE pc[v]
  BY DEF Write
<1>2. \A x \in Users : lock[x] # lock'[x] => x = u /\ lock[x] = None /\ lock'[x] = t
  BY <1>1 DEF MayLock
<1>3. Held'
  BY <1>1, <1>2 DEF Held
<1>4. Checked'
  BY <1>1, <1>2 DEF Checked
<1>5. Ascending'
  BY <1>1, <1>2 DEF Ascending, CollectsAgain
<1>6. QED
  BY <1>3, <1>4, <1>5

\* The strengthened invariant.
THEOREM LockInvariant == Spec => []LockInv
<1> USE ChannelAssumption
<1>1. Init => LockInv
  BY DEF Init, LockInv, Shapes, Held, Checked, Ascending, CollectsAgain, NoWrites, Roles, Steps, Managing
<1>2. Shapes /\ Shapes' /\ LockInv /\ [Next]_vars => LockInv'
  <2> SUFFICES ASSUME Shapes, Shapes', LockInv, [Next]_vars PROVE LockInv'
    OBVIOUS
  <2> USE DEF LockInv, Shapes, Held, Checked, Ascending, CollectsAgain, Goto, args, seen, Managing, NoWrites
  <2>1. ASSUME NEW t \in Txns, LockRow(t) PROVE LockInv'
    BY <2>1 DEF LockRow, MayLock
  <2>2. ASSUME NEW t \in Txns, CheckCaller(t) PROVE LockInv'
    <3>1. CASE Abandon(t)
      BY <3>1, AbandonLocks
    <3>2. CASE ~Abandon(t)
      <4>1. /\ caller[t] \in got[t] /\ pc[t] = "lockAdmins"
            /\ pc'[t] \notin {"idle", "lockAdmins"}
            /\ pc'[t] \in {"succession", "snapshot"} => op'[t] = "remove"
            /\ \A v \in Txns \ {t} : pc'[v] = pc[v]
            /\ UNCHANGED <<role, lock, args, todo, got, pend>>
        BY <2>2, <3>2 DEF CheckCaller
      <4>2. Held'
        BY <4>1
      <4>3. Ascending'
        <5>1. \A v \in Txns \ {t} : pc'[v] = pc[v] /\ op'[v] = op[v]
          BY <4>1
        <5>3. pc'[t] # "lockSole"
          BY <2>2, <3>2 DEF CheckCaller
        <5> HIDE DEF Shapes, Held, Checked
        <5>2. QED
          BY <4>1, <5>1, <5>3
      <4>4. caller[t] \in Users /\ lock[caller[t]] = t /\ role[caller[t]] = "admin"
        <5>1. got[t] \in SUBSET Users
          OBVIOUS
        <5>2. \A u \in got[t] : lock[u] = t /\ role[u] = "admin"
          BY <4>1
        <5>3. QED
          BY <4>1, <5>1, <5>2
      <4>5. Checked'
        BY <4>1, <4>4
      <4>6. QED
        BY <4>2, <4>3, <4>5
    <3>3. QED
      BY <3>1, <3>2
  <2>3. ASSUME NEW t \in Txns, Succession(t) PROVE LockInv'
    BY <2>3 DEF Succession, AfterSuccession
  <2>4. ASSUME NEW t \in Txns, SoleSnapshot(t) PROVE LockInv'
    BY <2>4 DEF SoleSnapshot, Admins
  <2>5. ASSUME NEW t \in Txns, PickSuccessor(t) PROVE LockInv'
    BY <2>5 DEF PickSuccessor, AfterSuccession
  <2>6. ASSUME NEW t \in Txns, Promote(t) PROVE LockInv'
    <3>1. CASE Abandon(t)
      BY <3>1, AbandonLocks
    <3>2. CASE ~Abandon(t)
      <4>1. PICK u \in Users : MayLock(t, u) /\ Write(t, u, "admin")
        <5>1. \E u \in todo[t] : MayLock(t, u) /\ Write(t, u, "admin")
          BY <2>6, <3>2 DEF Promote
        <5>2. todo[t] \in SUBSET Users
          OBVIOUS
        <5>3. QED
          BY <5>1, <5>2
      <4>2. /\ pc[t] \notin {"idle", "lockAdmins"} /\ Goto(t, AfterSuccession(t))
            /\ \A v \in Txns \ {t} : todo'[v] = todo[v]
            /\ UNCHANGED <<role, args, got>>
        BY <2>6, <3>2 DEF Promote
      <4>3. AfterSuccession(t) \in {"delete", "commit"}
        BY DEF AfterSuccession
      <4>4. QED
        BY <4>1, <4>2, <4>3, WriteLocks DEF Roles
    <3>3. QED
      BY <3>1, <3>2
  <2>7. ASSUME NEW t \in Txns, Delete(t) PROVE LockInv'
    <3>1. /\ dep[t] \in Users /\ MayLock(t, dep[t])
          /\ pc[t] \notin {"idle", "lockAdmins"} /\ Goto(t, "commit")
          /\ UNCHANGED <<role, args, got, todo>>
      BY <2>7 DEF Delete
    <3>2. CASE Write(t, dep[t], "none")
      <4> HIDE DEF LockInv, Shapes, Held, Checked, Ascending, Goto
      <4> QED BY <3>1, <3>2, WriteLocks
    <3>3. CASE UNCHANGED <<lock, pend>>
      BY <3>1, <3>3
    <3>4. QED
      BY <2>7, <3>2, <3>3 DEF Delete
  <2>8. ASSUME NEW t \in Txns, Insert(t) PROVE LockInv'
    <3>1. CASE Abandon(t)
      BY <3>1, AbandonLocks
    <3>2. CASE ~Abandon(t)
      <4>1. /\ dep[t] \in Users /\ MayLock(t, dep[t]) /\ Write(t, dep[t], want[t])
            /\ pc[t] \notin {"idle", "lockAdmins"} /\ Goto(t, "commit")
            /\ UNCHANGED <<role, args, got, todo>>
        BY <2>8, <3>2 DEF Insert
      <4>2. want[t] \in Roles \cup {"none"}
        OBVIOUS
      <4> HIDE DEF LockInv, Shapes, Held, Checked, Ascending, Goto
      <4>3. QED
        BY <4>1, <4>2, WriteLocks
    <3>3. QED
      BY <3>1, <3>2
  <2>9. ASSUME NEW t \in Txns, Update(t) PROVE LockInv'
    <3>1. CASE Abandon(t)
      BY <3>1, AbandonLocks
    <3>2. CASE ~Abandon(t)
      <4>1. /\ dep[t] \in Users /\ MayLock(t, dep[t]) /\ Write(t, dep[t], want[t])
            /\ pc[t] \notin {"idle", "lockAdmins"} /\ Goto(t, "commit")
            /\ UNCHANGED <<role, args, got, todo>>
        BY <2>9, <3>2 DEF Update
      <4>2. want[t] \in Roles \cup {"none"}
        OBVIOUS
      <4> HIDE DEF LockInv, Shapes, Held, Checked, Ascending, Goto
      <4>3. QED
        BY <4>1, <4>2, WriteLocks
    <3>3. QED
      BY <3>1, <3>2
  <2>10. ASSUME NEW t \in Txns, Commit(t) PROVE LockInv'
    BY <2>10 DEF Commit, EndTxn
  <2>11. ASSUME NEW t \in Txns, Fail(t) PROVE LockInv'
    BY <2>11, AbandonLocks DEF Fail
  <2>12. ASSUME NEW t \in Txns, NEW u \in Users, Join(t, u) PROVE LockInv'
    BY <2>12 DEF Join, Begin
  <2>13. ASSUME NEW t \in Txns, NEW u \in Users, Leave(t, u) PROVE LockInv'
    BY <2>13 DEF Leave, Begin
  <2>14. ASSUME NEW t \in Txns, NEW u \in Users, Deactivate(t, u) PROVE LockInv'
    BY <2>14 DEF Deactivate, Begin
  <2>15. ASSUME NEW t \in Txns, NEW o \in Managing, NEW c \in Users,
             NEW d \in Users, NEW r \in Roles, Manage(t, o, c, d, r) PROVE LockInv'
    BY <2>15 DEF Manage, Begin, Admins
  <2>16. ASSUME NEW u \in Users, Reactivate(u) PROVE LockInv'
    BY <2>16 DEF Reactivate
  <2>17. CASE UNCHANGED vars
    BY <2>17 DEF vars
  <2> HIDE DEF LockInv, Shapes, Held, Checked, Ascending, Goto, args, seen, Managing, NoWrites
  <2>18. QED
    BY <2>1, <2>2, <2>3, <2>4, <2>5, <2>6, <2>7, <2>8, <2>9, <2>10,
       <2>11, <2>12, <2>13, <2>14, <2>15, <2>16, <2>17
       DEF Next, Step, Arrival
<1>3. QED
  BY <1>1, <1>2, ShapesInvariant, PTL DEF Spec

\* F33, F37: whoever demotes or removes the caller meanwhile, add, role change
\* and removal commit only while the caller is an admin.
THEOREM CallerStillAdminHolds == Spec => []CallerStillAdmin
<1>1. LockInv => CallerStillAdmin
  BY DEF LockInv, Checked, CallerStillAdmin
<1>2. QED
  BY <1>1, LockInvariant, PTL

\* A non-empty set of numbers has a least element.
LEMMA LeastNumber ==
  ASSUME NEW S \in SUBSET Nat, S # {} PROVE \E n \in S : \A m \in S : n <= m
<1>1. PICK n \in S : \A m \in S : <<m, n>> \notin OpToRel(<, Nat)
  BY NatLessThanWellFounded, WFMin
<1>2. \A m \in S : ~(m < n)
  BY <1>1 DEF OpToRel
<1>3. QED
  BY <1>2

\* A non-empty set has a member of the least size.
LEMMA LeastSized ==
  ASSUME NEW S, S # {}, NEW size, \A u \in S : size[u] \in Nat
  PROVE  \E u \in S : \A w \in S : size[u] <= size[w]
<1> DEFINE Sizes == {size[u] : u \in S}
<1>1. Sizes \in SUBSET Nat /\ Sizes # {}
  OBVIOUS
<1>2. PICK n \in Sizes : \A m \in Sizes : n <= m
  <2> HIDE DEF Sizes
  <2> QED BY <1>1, LeastNumber
<1>3. PICK u \in S : n = size[u]
  OBVIOUS
<1> QED BY <1>2, <1>3

\* Of some rows, the last one in user_id order: fewest rows come after it.
LEMMA LastRow ==
  ASSUME NEW W \in SUBSET Users, W # {} PROVE \E x \in W : \A y \in W : ~(x < y)
<1> USE ChannelAssumption
<1> DEFINE after(u) == {v \in Users : u < v}
<1>1. \A u \in Users : IsFiniteSet(after(u)) /\ Cardinality(after(u)) \in Nat
  BY FS_Subset, FS_CardinalityType
<1>2. PICK x \in W : \A y \in W : Cardinality(after(x)) <= Cardinality(after(y))
  <2> DEFINE size == [u \in W |-> Cardinality(after(u))]
  <2>1. \A u \in W : size[u] \in Nat
    BY <1>1
  <2> HIDE DEF size
  <2>2. \E x \in W : \A y \in W : size[x] <= size[y]
    BY <2>1, LeastSized
  <2> QED BY <2>2 DEF size
<1>3. ASSUME NEW y \in W, x < y PROVE FALSE
  <2>1. x \in Users /\ y \in Users
    OBVIOUS
  <2>2. after(y) \subseteq after(x) /\ y \in after(x) /\ y \notin after(y)
    <3>1. \A v \in Users : y < v => x < v
      BY <1>3, <2>1
    <3>2. ~(y < y)
      BY <2>1
    <3> QED BY <1>3, <2>1, <3>1, <3>2, Zenon
  <2>3. IsFiniteSet(after(x)) /\ Cardinality(after(x)) \in Nat /\ Cardinality(after(y)) \in Nat
    BY <1>1, <2>1
  <2>4. Cardinality(after(x)) <= Cardinality(after(y))
    BY <1>2
  <2> HIDE DEF after
  <2>5. Cardinality(after(y)) < Cardinality(after(x))
    BY <2>2, <2>3, FS_Subset
  <2> QED BY <2>3, <2>4, <2>5
<1> QED BY <1>3

\* _lock_channel_admin_ids: in a ring of requests that all collect for the first
\* time, the last row somebody waits for is held by one that waits for a later
\* row.
THEOREM CollectingNoDeadlockHolds == Spec => []CollectingNoDeadlock
<1>1. ASSUME LockInv PROVE CollectingNoDeadlock
  <2> SUFFICES ASSUME NEW S \in SUBSET Collecting, Ring(S), \A t \in S : ~CollectsAgain(t)
               PROVE FALSE
    BY DEF CollectingNoDeadlock
  <2> DEFINE Awaited(t) == {u \in Users : lock[u] \in S /\ u \in todo[t]}
             W == UNION {Awaited(t) : t \in S}
  <2>1. ASSUME NEW t \in S PROVE Awaited(t) # {}
    <3>1. PICK v \in S : WaitsFor(t, v)
      BY DEF Ring
    <3>2. pc[t] \in {"lockAdmins", "lockSole"}
      BY DEF Collecting
    <3>3. QED
      BY <3>1, <3>2 DEF WaitsFor
  <2>2. W \in SUBSET Users /\ W # {}
    BY <2>1 DEF Ring
  <2>3. PICK x \in W : \A y \in W : ~(x < y)
    <3> HIDE DEF W
    <3>1. QED
      BY <2>2, LastRow
  <2>4. lock[x] \in S /\ x \in Users
    OBVIOUS
  <2>5. PICK y \in Users : lock[y] \in S /\ y \in todo[lock[x]]
    BY <2>1, <2>4
  <2>6. y \in W
    BY <2>4, <2>5
  <2>7. x < y
    <3>1. pc[lock[x]] \in {"lockAdmins", "lockSole"} /\ ~CollectsAgain(lock[x]) /\ lock[x] \in Txns
      BY <2>4 DEF Collecting
    <3>2. QED
      BY <1>1, <2>4, <2>5, <3>1 DEF LockInv, Ascending
  <2>8. QED
    BY <2>3, <2>6, <2>7
<1>2. QED
  BY <1>1, LockInvariant, PTL

-----------------------------------------------------------------------------
\* The types of the other variables.
Others ==
  /\ earlier \in [Stamps -> SUBSET Stamps]
  /\ active \subseteq Users
  /\ saw \in [Txns -> SUBSET Users]
  /\ relied \in [Txns -> SUBSET Users]

LEMMA AbandonOthers ==
  ASSUME Others, NEW t \in Txns, Abandon(t) PROVE Others'
<1>1. earlier' \in [Stamps -> SUBSET Stamps]
  BY DEF Others, Abandon, Forget
<1>2. QED
  BY <1>1 DEF Others, Abandon, EndTxn

LEMMA OthersInvariant == Spec => []Others
<1> USE ChannelAssumption
<1>1. Init => Others
  BY DEF Init, Others, Members, Stamps
<1>2. Shapes /\ Others /\ [Next]_vars => Others'
  <2> SUFFICES ASSUME Shapes, Others, [Next]_vars PROVE Others'
    OBVIOUS
  <2> USE DEF args, seen
  <2>0. Members \subseteq Users /\ Admins \subseteq Users
    BY DEF Members, Admins
  <2>1. ASSUME NEW t \in Txns, LockRow(t) PROVE Others'
    BY <2>1 DEF LockRow, Others
  <2>2. ASSUME NEW t \in Txns, CheckCaller(t) PROVE Others'
    <3>1. CASE Abandon(t)
      BY <3>1, AbandonOthers
    <3>2. CASE ~Abandon(t)
      <4>1. /\ UNCHANGED <<earlier, active, relied>>
            /\ saw' = saw \/ saw' = [saw EXCEPT ![t] = Members \ {dep[t]}]
        BY <2>2, <3>2 DEF CheckCaller
      <4>2. Members \ {dep[t]} \in SUBSET Users
        BY <2>0
      <4>3. saw' \in [Txns -> SUBSET Users]
        BY <4>1, <4>2 DEF Others
      <4>4. QED
        BY <4>1, <4>3 DEF Others, Stamps
    <3>3. QED
      BY <3>1, <3>2
  <2>3. ASSUME NEW t \in Txns, Succession(t) \/ SoleSnapshot(t) PROVE Others'
    BY <2>3 DEF Succession, SoleSnapshot, Others
  <2>4. ASSUME NEW t \in Txns, PickSuccessor(t) PROVE Others'
    BY <2>0, <2>4 DEF PickSuccessor, Remaining, Others
  <2>5. ASSUME NEW t \in Txns, Promote(t) PROVE Others'
    <3>1. CASE Abandon(t)
      BY <3>1, AbandonOthers
    <3>2. CASE ~Abandon(t)
      BY <2>5, <3>2 DEF Promote, Others
    <3>3. QED
      BY <3>1, <3>2
  <2>6. ASSUME NEW t \in Txns, Delete(t) PROVE Others'
    BY <2>6 DEF Delete, Others
  <2>7. ASSUME NEW t \in Txns, Insert(t) \/ Update(t) PROVE Others'
    <3>1. CASE Abandon(t)
      BY <3>1, AbandonOthers
    <3>2. CASE ~Abandon(t)
      BY <2>7, <3>2 DEF Insert, Update, Others
    <3>3. QED
      BY <3>1, <3>2
  <2>8. ASSUME NEW t \in Txns, Commit(t) PROVE Others'
    <3>1. dep[t] \in Users
      BY <2>8 DEF Commit, Shapes
    <3>2. earlier' \in [Stamps -> SUBSET Stamps]
      <4>1. CASE op[t] \in Inserting
        <5> DEFINE old(x) == earlier[IF x = dep[t] THEN t ELSE x]
                   new(x) == IF x = t THEN {}
                             ELSE IF t \in old(x) THEN (old(x) \ {t}) \cup {dep[t]} ELSE old(x)
        <5>1. earlier' = [x \in Stamps |-> new(x)]
          BY <2>8, <4>1 DEF Commit, Reorder
        <5>2. \A x \in Stamps : old(x) \in SUBSET Stamps
          BY <3>1 DEF Others, Stamps
        <5>3. dep[t] \in Stamps
          BY <3>1 DEF Stamps
        <5>4. \A x \in Stamps : new(x) \in SUBSET Stamps
          <6> HIDE DEF old
          <6> QED BY <5>2, <5>3
        <5> HIDE DEF new
        <5>5. QED
          BY <5>1, <5>4
      <4>2. CASE op[t] \notin Inserting
        <5>1. PICK S : Forget(S)
          BY <2>8, <4>2 DEF Commit, Reorder
        <5>2. QED
          BY <5>1 DEF Forget, Others
      <4>3. QED
        BY <4>1, <4>2
    <3>3. QED
      BY <2>8, <3>2 DEF Commit, EndTxn, Others
  <2>9. ASSUME NEW t \in Txns, Fail(t) PROVE Others'
    BY <2>9, AbandonOthers DEF Fail
  <2>10. ASSUME NEW t \in Txns, NEW o, NEW c, NEW d, NEW r, NEW s, Begin(t, o, c, d, r, s)
         PROVE  earlier' \in [Stamps -> SUBSET Stamps]
    BY <2>0, <2>10 DEF Begin, Others, Stamps
  <2>11. ASSUME NEW t \in Txns, NEW u \in Users, Join(t, u) \/ Leave(t, u) \/ Deactivate(t, u)
         PROVE  Others'
    <3>1. earlier' \in [Stamps -> SUBSET Stamps]
      BY <2>10, <2>11 DEF Join, Leave, Deactivate
    <3>2. /\ UNCHANGED <<active, relied>>
          /\ saw' = saw \/ saw' = [saw EXCEPT ![t] = Members \ {u}]
      BY <2>11 DEF Join, Leave, Deactivate
    <3>3. Members \ {u} \in SUBSET Users
      BY <2>0
    <3>4. saw' \in [Txns -> SUBSET Users]
      BY <3>2, <3>3 DEF Others
    <3>5. QED
      BY <3>1, <3>2, <3>4 DEF Others, Stamps
  <2>12. ASSUME NEW t \in Txns, NEW o \in Managing, NEW c \in Users,
             NEW d \in Users, NEW r \in Roles, Manage(t, o, c, d, r) PROVE Others'
    BY <2>10, <2>12 DEF Manage, Others
  <2>13. ASSUME NEW u \in Users, Reactivate(u) PROVE Others'
    BY <2>13 DEF Reactivate, Others
  <2>14. CASE UNCHANGED vars
    BY <2>14 DEF vars, Others
  <2>15. QED
    BY <2>1, <2>2, <2>3, <2>4, <2>5, <2>6, <2>7, <2>8, <2>9, <2>11, <2>12, <2>13, <2>14
       DEF Next, Step, Arrival
<1>3. QED
  BY <1>1, <1>2, ShapesInvariant, PTL DEF Spec

\* Rows, locks, requests and the joined_at order keep their types.
THEOREM ChannelTypeCorrect == Spec => []TypeOK
<1>1. Shapes /\ Others => TypeOK
  BY DEF Shapes, Others, TypeOK
<1>2. QED
  BY <1>1, ShapesInvariant, OthersInvariant, PTL

-----------------------------------------------------------------------------
\* A request changes only its own state ...
Acts(t) == Arrival(t) \/ Step(t) \/ Fail(t)

LEMMA OnlyItself ==
  ASSUME Shapes, Others, NEW t \in Txns, Acts(t), NEW v \in Txns \ {t}
  PROVE  /\ pc'[v] = pc[v] /\ op'[v] = op[v] /\ caller'[v] = caller[v] /\ dep'[v] = dep[v]
         /\ todo'[v] = todo[v] /\ got'[v] = got[v] /\ pend'[v] = pend[v]
         /\ saw'[v] = saw[v] /\ relied'[v] = relied[v]
<1> DEFINE Same == /\ pc'[v] = pc[v] /\ op'[v] = op[v] /\ caller'[v] = caller[v] /\ dep'[v] = dep[v]
                   /\ todo'[v] = todo[v] /\ got'[v] = got[v] /\ pend'[v] = pend[v]
                   /\ saw'[v] = saw[v] /\ relied'[v] = relied[v]
<1> USE DEF Shapes, Others, Goto, Write, args, seen
<1>1. ASSUME EndTxn(t) PROVE Same
  BY <1>1 DEF EndTxn
<1>2. CASE Abandon(t) \/ Fail(t) \/ Commit(t)
  BY <1>1, <1>2 DEF Abandon, Fail, Commit
<1>3. CASE LockRow(t)
  BY <1>3 DEF LockRow
<1>4. CASE CheckCaller(t)
  BY <1>2, <1>4 DEF CheckCaller
<1>5. CASE Succession(t) \/ SoleSnapshot(t)
  BY <1>5 DEF Succession, SoleSnapshot
<1>6. CASE PickSuccessor(t)
  BY <1>6 DEF PickSuccessor
<1>7. CASE Promote(t)
  BY <1>2, <1>7 DEF Promote
<1>8. CASE Delete(t)
  BY <1>8 DEF Delete
<1>9. CASE Insert(t)
  BY <1>2, <1>9 DEF Insert
<1>10. CASE Update(t)
  BY <1>2, <1>10 DEF Update
<1>11. ASSUME NEW u \in Users, Join(t, u) \/ Leave(t, u) \/ Deactivate(t, u) PROVE Same
  BY <1>11 DEF Join, Leave, Deactivate, Begin
<1>12. ASSUME NEW o \in Managing, NEW c \in Users, NEW d \in Users, NEW r \in Roles,
              Manage(t, o, c, d, r) PROVE Same
  BY <1>12 DEF Manage, Begin
<1>13. QED
  BY <1>2, <1>3, <1>4, <1>5, <1>6, <1>7, <1>8, <1>9, <1>10, <1>11, <1>12
     DEF Acts, Step, Arrival

\* ... and no row that another one has locked.
LEMMA LocksProtect ==
  ASSUME LockInv, NEW t \in Txns, Acts(t), NEW v \in Txns \ {t}, NEW u \in Users, lock[u] = v
  PROVE  lock'[u] = v /\ role'[u] = role[u]
<1> DEFINE Same == lock'[u] = v /\ role'[u] = role[u]
<1> USE ChannelAssumption DEF LockInv, Shapes, Write, args, seen, MayLock
<1>1. ASSUME EndTxn(t) PROVE lock'[u] = v
  BY <1>1 DEF EndTxn
<1>2. CASE Abandon(t) \/ Fail(t)
  BY <1>1, <1>2 DEF Abandon, Fail
<1>3. CASE Commit(t)
  BY <1>1, <1>3 DEF Commit, Held
<1>4. CASE LockRow(t)
  BY <1>4 DEF LockRow
<1>5. CASE CheckCaller(t)
  BY <1>2, <1>5 DEF CheckCaller
<1>6. CASE Succession(t) \/ SoleSnapshot(t) \/ PickSuccessor(t)
  BY <1>6 DEF Succession, SoleSnapshot, PickSuccessor
<1>7. CASE Promote(t)
  BY <1>2, <1>7 DEF Promote
<1>8. CASE Delete(t)
  BY <1>8 DEF Delete
<1>9. CASE Insert(t)
  BY <1>2, <1>9 DEF Insert
<1>10. CASE Update(t)
  BY <1>2, <1>10 DEF Update
<1>11. CASE UNCHANGED <<role, lock>>
  BY <1>11
<1>12. QED
  BY <1>2, <1>3, <1>4, <1>5, <1>6, <1>7, <1>8, <1>9, <1>10, <1>11
     DEF Acts, Step, Arrival, Join, Leave, Deactivate, Manage

-----------------------------------------------------------------------------
\* What a request that is not running has left, and which steps each route
\* takes.
FlowOf(t) ==
  /\ pc[t] = "idle" => op[t] = "none" /\ relied[t] = {} /\ \A u \in Users : pend[t][u] = "keep"
  /\ op[t] \in Inserting => pc[t] \in {"lockAdmins", "insert", "commit"}
  /\ op[t] \in Departures => pc[t] \notin {"idle", "insert", "update"}
  /\ op[t] = "leave" /\ pc[t] \in {"succession", "snapshot"} => got[t] = {}
  /\ pc[t] = "promote" => dep[t] \notin todo[t]

Flow == \A t \in Txns : FlowOf(t)

LEMMA FlowInvariant == Spec => []Flow
<1> USE ChannelAssumption
<1>1. Init => Flow
  BY DEF Init, Flow, FlowOf, NoWrites, Inserting, Departures
<1>2. LockInv /\ Others /\ Flow /\ [Next]_vars => Flow'
  <2> SUFFICES ASSUME LockInv, Others, Flow, [Next]_vars PROVE Flow'
    OBVIOUS
  <2>0. Shapes
    BY DEF LockInv
  <2>1. ASSUME NEW t \in Txns, Acts(t), FlowOf(t)' PROVE Flow'
    <3>1. ASSUME NEW v \in Txns \ {t} PROVE FlowOf(v)'
      BY <2>0, <2>1, OnlyItself DEF Flow, FlowOf
    <3>2. QED
      BY <2>1, <3>1 DEF Flow
  <2>2. ASSUME NEW t \in Txns, Acts(t) PROVE FlowOf(t)'
    <3>0. FlowOf(t)
      BY DEF Flow
    <3> USE DEF LockInv, Shapes, Others, FlowOf, Goto, Write, args, seen, Inserting, Departures
    <3>1. ASSUME EndTxn(t) PROVE FlowOf(t)'
      BY <3>1 DEF EndTxn, NoWrites
    <3>2. CASE Abandon(t) \/ Fail(t) \/ Commit(t)
      BY <3>1, <3>2 DEF Abandon, Fail, Commit
    <3>3. CASE LockRow(t)
      BY <3>0, <3>3 DEF LockRow
    <3>4. CASE CheckCaller(t)
      BY <3>0, <3>2, <3>4 DEF CheckCaller
    <3>5. CASE Succession(t)
      BY <3>0, <3>5 DEF Succession, AfterSuccession
    <3>6. CASE SoleSnapshot(t)
      BY <3>0, <3>6 DEF SoleSnapshot
    <3>7. CASE PickSuccessor(t)
      BY <3>0, <3>7 DEF PickSuccessor, AfterSuccession, Earliest, Remaining
    <3>8. CASE Promote(t)
      BY <3>0, <3>2, <3>8 DEF Promote, AfterSuccession
    <3>9. CASE Delete(t)
      BY <3>0, <3>9 DEF Delete
    <3>10. CASE Insert(t)
      BY <3>0, <3>2, <3>10 DEF Insert
    <3>11. CASE Update(t)
      BY <3>0, <3>2, <3>11 DEF Update
    <3>12. ASSUME NEW u \in Users, Join(t, u) \/ Leave(t, u) \/ Deactivate(t, u)
           PROVE  FlowOf(t)'
      BY <3>0, <3>12 DEF Join, Leave, Deactivate, Begin, Held
    <3>13. ASSUME NEW o \in Managing, NEW c \in Users, NEW d \in Users, NEW r \in Roles,
                  Manage(t, o, c, d, r) PROVE FlowOf(t)'
      BY <3>0, <3>13 DEF Manage, Begin, Managing
    <3>14. QED
      BY <2>2, <3>2, <3>3, <3>4, <3>5, <3>6, <3>7, <3>8, <3>9, <3>10, <3>11, <3>12, <3>13
         DEF Acts, Step, Arrival
  <2>3. CASE UNCHANGED <<pc, args, todo, got, pend, seen>>
    BY <2>3 DEF Flow, FlowOf, args, seen
  <2>4. QED
    BY <2>1, <2>2, <2>3 DEF Next, Acts, Reactivate, vars
<1>3. QED
  BY <1>1, <1>2, LockInvariant, OthersInvariant, PTL DEF Spec

\* What each route writes: an insertion the one row it is about, which is not
\* there yet; a departure that row, and promotions.
WritesOf(t) ==
  /\ op[t] \in Inserting =>
       /\ \A u \in Users \ {dep[t]} : pend[t][u] = "keep"
       /\ pc[t] = "commit" => role[dep[t]] = "none" /\ pend[t][dep[t]] \in Roles
  /\ op[t] \in Departures =>
       /\ \A u \in Users \ {dep[t]} : pend[t][u] \in {"keep", "admin"}
       /\ dep[t] \notin relied[t]

Writes == \A t \in Txns : WritesOf(t)

LEMMA WritesInvariant == Spec => []Writes
<1> USE ChannelAssumption
<1>1. Init => Writes
  BY DEF Init, Writes, WritesOf, Inserting, Departures
<1>2. LockInv /\ Others /\ Flow /\ Writes /\ [Next]_vars => Writes'
  <2> SUFFICES ASSUME LockInv, Others, Flow, Writes, [Next]_vars PROVE Writes'
    OBVIOUS
  <2>0. Shapes
    BY DEF LockInv
  <2>1. ASSUME NEW t \in Txns, Acts(t), WritesOf(t)' PROVE Writes'
    <3>1. ASSUME NEW v \in Txns \ {t} PROVE WritesOf(v)'
      <4>1. WritesOf(v)
        BY DEF Writes
      <4>2. ASSUME op[v] \in Inserting, pc[v] = "commit" PROVE role'[dep[v]] = role[dep[v]]
        <5>1. dep[v] \in Users /\ pend[v][dep[v]] # "keep"
          <6>1. dep[v] \in Users
            BY <2>0, <4>2 DEF Shapes
          <6>2. pend[v][dep[v]] \in Roles
            BY <4>1, <4>2 DEF WritesOf
          <6>3. QED
            BY <6>1, <6>2 DEF Roles
        <5>2. lock[dep[v]] = v
          <6>1. \A u \in Users : pend[v][u] # "keep" => lock[u] = v
            BY DEF LockInv, Held
          <6>2. QED
            BY <5>1, <6>1
        <5>3. QED
          BY <2>1, <5>1, <5>2, LocksProtect
      <4>3. QED
        BY <2>0, <2>1, <4>1, <4>2, OnlyItself DEF WritesOf
    <3>2. QED
      BY <2>1, <3>1 DEF Writes
  <2>2. ASSUME NEW t \in Txns, Acts(t) PROVE WritesOf(t)'
    <3>0. WritesOf(t) /\ FlowOf(t)
      BY DEF Writes, Flow
    <3> USE DEF LockInv, Shapes, Others, WritesOf, Goto, args, seen, Inserting, Departures
    <3>1. ASSUME EndTxn(t) PROVE WritesOf(t)'
      BY <3>1 DEF EndTxn
    <3>2. CASE Abandon(t) \/ Fail(t) \/ Commit(t)
      BY <3>1, <3>2 DEF Abandon, Fail, Commit
    <3>3. CASE LockRow(t)
      BY <3>0, <3>3 DEF LockRow
    <3>4. CASE CheckCaller(t)
      BY <3>0, <3>2, <3>4 DEF CheckCaller
    <3>5. CASE Succession(t)
      BY <3>0, <3>5 DEF Succession, AfterSuccession, FlowOf
    <3>6. CASE SoleSnapshot(t)
      BY <3>0, <3>6 DEF SoleSnapshot
    <3>7. CASE PickSuccessor(t)
      BY <3>0, <3>7 DEF PickSuccessor, AfterSuccession, Earliest, Remaining, FlowOf
    <3>8. ASSUME NEW u \in Users, NEW r, NEW s, Write(t, u, r), Goto(t, s),
                 UNCHANGED <<role, args, relied>>,
                 op[t] \in Inserting => u = dep[t] /\ role[u] = "none" /\ r \in Roles,
                 op[t] \in Departures => u = dep[t] \/ r = "admin"
          PROVE  WritesOf(t)'
      <4>1. \A x \in Users : pend'[t][x] = IF x = u THEN r ELSE pend[t][x]
        BY <3>8 DEF Write
      <4>2. op' = op /\ dep' = dep /\ relied' = relied /\ role' = role
        BY <3>8
      <4> HIDE DEF LockInv, Shapes, Others
      <4>3. ASSUME op[t] \in Inserting
            PROVE  /\ \A x \in Users \ {dep[t]} : pend'[t][x] = "keep"
                   /\ role[dep[t]] = "none" /\ pend'[t][dep[t]] \in Roles
        BY <3>0, <3>8, <4>1, <4>3
      <4>4. ASSUME op[t] \in Departures
            PROVE  /\ \A x \in Users \ {dep[t]} : pend'[t][x] \in {"keep", "admin"}
                   /\ dep[t] \notin relied[t]
        BY <3>0, <3>8, <4>1, <4>4
      <4>5. QED
        BY <4>2, <4>3, <4>4 DEF Roles
    <3>9. CASE Promote(t)
      <4>1. CASE Abandon(t)
        BY <3>2, <4>1
      <4>2. CASE ~Abandon(t)
        <5>1. PICK u \in Users : Write(t, u, "admin")
          BY <3>9, <4>2 DEF Promote
        <5>2. op[t] \notin Inserting /\ Goto(t, AfterSuccession(t))
              /\ UNCHANGED <<role, args, relied>>
          BY <3>0, <3>9, <4>2 DEF Promote, FlowOf
        <5>3. QED
          BY <3>8, <5>1, <5>2
      <4>3. QED
        BY <4>1, <4>2
    <3>10. CASE Delete(t)
      <4>1. /\ dep[t] \in Users /\ op[t] \notin Inserting /\ Goto(t, "commit")
            /\ UNCHANGED <<role, args, relied>>
        BY <3>0, <3>10 DEF Delete, FlowOf
      <4>2. CASE Write(t, dep[t], "none")
        BY <3>8, <4>1, <4>2
      <4>3. CASE UNCHANGED pend
        BY <3>0, <4>1, <4>3
      <4>4. QED
        BY <3>10, <4>2, <4>3 DEF Delete
    <3>11. CASE Insert(t) \/ Update(t)
      <4>1. CASE Abandon(t)
        BY <3>2, <4>1
      <4>2. CASE ~Abandon(t)
        <5>1. /\ dep[t] \in Users /\ want[t] \in Roles /\ Goto(t, "commit")
              /\ Write(t, dep[t], want[t]) /\ UNCHANGED <<role, args, relied>>
          BY <3>11, <4>2 DEF Insert, Update
        <5>2. op[t] \in Inserting => role[dep[t]] = "none"
          BY <3>0, <3>11, <4>2 DEF Insert, Update, FlowOf
        <5>3. QED
          BY <3>8, <5>1, <5>2
      <4>3. QED
        BY <4>1, <4>2
    <3>12. ASSUME NEW o, NEW c, NEW d, NEW r, NEW s, Begin(t, o, c, d, r, s), s # "commit",
                  UNCHANGED <<pend, relied>>
           PROVE  WritesOf(t)'
      <4>1. \A x \in Users : pend'[t][x] = "keep"
        BY <3>0, <3>12 DEF Begin, FlowOf
      <4>2. relied'[t] = {} /\ pc'[t] # "commit"
        BY <3>0, <3>12 DEF Begin, FlowOf
      <4>3. QED
        BY <4>1, <4>2
    <3>13. ASSUME NEW u \in Users, Join(t, u) \/ Leave(t, u) \/ Deactivate(t, u)
           PROVE  WritesOf(t)'
      <4>1. UNCHANGED <<pend, relied>>
        BY <3>13 DEF Join, Leave, Deactivate
      <4>2. CASE Join(t, u)
        BY <3>12, <4>1, <4>2 DEF Join
      <4>3. CASE Leave(t, u)
        BY <3>12, <4>1, <4>3 DEF Leave
      <4>4. CASE Deactivate(t, u)
        BY <3>12, <4>1, <4>4 DEF Deactivate
      <4>5. QED
        BY <3>13, <4>2, <4>3, <4>4
    <3>14. ASSUME NEW o \in Managing, NEW c \in Users, NEW d \in Users, NEW r \in Roles,
                  Manage(t, o, c, d, r) PROVE WritesOf(t)'
      BY <3>12, <3>14 DEF Manage
    <3>15. QED
      BY <2>2, <3>2, <3>3, <3>4, <3>5, <3>6, <3>7, <3>9, <3>10, <3>11, <3>13, <3>14
         DEF Acts, Step, Arrival
  <2>3. CASE UNCHANGED <<role, pc, args, pend, seen>>
    BY <2>3 DEF Writes, WritesOf, args, seen
  <2>4. QED
    BY <2>1, <2>2, <2>3 DEF Next, Acts, Reactivate, vars
<1>3. QED
  BY <1>1, <1>2, LockInvariant, OthersInvariant, FlowInvariant, PTL DEF Spec

-----------------------------------------------------------------------------
\* joined_at orders the rows and the transactions that may insert one.
Stamped == Members \cup {t \in Txns : op[t] \in Inserting}

Ordered ==
  \A x \in Stamps :
    /\ earlier[x] \subseteq Stamped /\ x \notin earlier[x]
    /\ x \notin Stamped => earlier[x] = {}
    /\ \A y \in earlier[x] : earlier[y] \subseteq earlier[x]

\* Without some rows or transactions it is still an order of the others.
LEMMA ForgetOrdered ==
  ASSUME Others, Ordered, NEW S, Forget(S), Stamped \ S \subseteq Stamped',
         \A x \in Stamps \ Stamped' : x \in S \/ x \notin Stamped
  PROVE  Ordered'
<1> SUFFICES ASSUME NEW x \in Stamps
             PROVE  /\ earlier'[x] \subseteq Stamped' /\ x \notin earlier'[x]
                    /\ x \notin Stamped' => earlier'[x] = {}
                    /\ \A y \in earlier'[x] : earlier'[y] \subseteq earlier'[x]
  BY DEF Ordered, Stamps
<1> HIDE DEF Stamped, Stamps
<1>1. \A z \in Stamps : earlier'[z] = IF z \in S THEN {} ELSE earlier[z] \ S
  BY DEF Forget
<1>2. \A z \in Stamps : /\ earlier[z] \subseteq Stamped /\ z \notin earlier[z]
                        /\ z \notin Stamped => earlier[z] = {}
                        /\ earlier[z] \subseteq Stamps
                        /\ \A y \in earlier[z] : earlier[y] \subseteq earlier[z]
  BY DEF Ordered, Others
<1>3. earlier'[x] \subseteq earlier[x] \ S
  BY <1>1
<1>4. earlier'[x] \subseteq Stamped' /\ x \notin earlier'[x]
  BY <1>2, <1>3
<1>5. x \notin Stamped' => earlier'[x] = {}
  BY <1>1, <1>2
<1>6. ASSUME NEW y \in earlier'[x] PROVE earlier'[y] \subseteq earlier'[x]
  <2>0. x \notin S
    <3>1. x \in S => earlier'[x] = {}
      BY <1>1
    <3>2. QED
      BY <1>6, <3>1
  <2>1. y \in earlier[x] /\ y \notin S /\ y \in Stamps
    BY <1>2, <1>3, <1>6
  <2>2. earlier'[x] = earlier[x] \ S /\ earlier'[y] = earlier[y] \ S
    BY <1>1, <2>0, <2>1
  <2>3. earlier[y] \subseteq earlier[x]
    BY <1>2, <2>1
  <2>4. QED
    BY <2>2, <2>3
<1>7. QED
  BY <1>4, <1>5, <1>6

\* A transaction that may insert a row comes after everything that is there.
LEMMA BeginOrdered ==
  ASSUME Shapes, Held, Others, Ordered, UNCHANGED role,
         NEW t \in Txns, NEW o, NEW c, NEW d, NEW r, NEW s, Begin(t, o, c, d, r, s)
  PROVE  Ordered'
<1> USE ChannelAssumption
<1> SUFFICES ASSUME NEW x \in Stamps
             PROVE  /\ earlier'[x] \subseteq Stamped' /\ x \notin earlier'[x]
                    /\ x \notin Stamped' => earlier'[x] = {}
                    /\ \A y \in earlier'[x] : earlier'[y] \subseteq earlier'[x]
  BY DEF Ordered, Stamps
<1>0. op[t] = "none" /\ t \in Stamps /\ Members \subseteq Users
  BY DEF Held, Begin, Stamps, Members
<1>1. t \notin Stamped
  BY <1>0 DEF Stamped, Inserting
<1>2. Stamped' = IF o \in Inserting THEN Stamped \cup {t} ELSE Stamped
  BY <1>0 DEF Stamped, Members, Begin, Shapes, Inserting
<1>3. \A z \in Stamps : earlier'[z] = IF o \in Inserting /\ z = t THEN Stamped ELSE earlier[z]
  BY <1>0 DEF Begin, Others, Stamped
<1>4. \A z \in Stamps : /\ earlier[z] \subseteq Stamped /\ z \notin earlier[z]
                        /\ z \notin Stamped => earlier[z] = {}
                        /\ \A y \in earlier[z] : earlier[y] \subseteq earlier[z]
  BY DEF Ordered
<1>5. Stamped \subseteq Stamps
  BY <1>0 DEF Stamped, Stamps
<1> HIDE DEF Stamped, Stamps
<1>6. earlier'[x] \subseteq Stamped /\ x \notin earlier'[x]
  BY <1>1, <1>3, <1>4
<1>7. x \notin Stamped' => earlier'[x] = {}
  BY <1>2, <1>3, <1>4
<1>8. ASSUME NEW y \in earlier'[x] PROVE earlier'[y] \subseteq earlier'[x]
  <2>1. y \in Stamped /\ y \in Stamps /\ y # t
    BY <1>1, <1>5, <1>6, <1>8
  <2>2. earlier'[y] = earlier[y] /\ earlier[y] \subseteq Stamped
    BY <1>3, <1>4, <2>1
  <2>3. QED
    BY <1>3, <1>4, <1>8, <2>2
<1>9. QED
  BY <1>2, <1>6, <1>7, <1>8

\* An inserted row takes the place of its transaction.
LEMMA InsertOrdered ==
  ASSUME Shapes, Others, Writes, Ordered, NEW t \in Txns, Commit(t), op[t] \in Inserting
  PROVE  Ordered'
<1> USE ChannelAssumption
<1> SUFFICES ASSUME NEW x \in Stamps
             PROVE  /\ earlier'[x] \subseteq Stamped' /\ x \notin earlier'[x]
                    /\ x \notin Stamped' => earlier'[x] = {}
                    /\ \A y \in earlier'[x] : earlier'[y] \subseteq earlier'[x]
  BY DEF Ordered, Stamps
<1> DEFINE d == dep[t]
           old(z) == earlier[IF z = d THEN t ELSE z]
<1>0. d \in Users /\ d # t /\ t \in Stamps /\ d \in Stamps
  BY DEF Commit, Shapes, Stamps
<1>1. WritesOf(t) /\ pc[t] = "commit"
  BY DEF Writes, Commit
<1>2. role[d] = "none" /\ pend[t][d] \in Roles /\ \A u \in Users \ {d} : pend[t][u] = "keep"
  BY <1>1 DEF WritesOf
<1>3. Members' = Members \cup {d}
  BY <1>0, <1>2 DEF Members, Commit, Roles
<1>4. {v \in Txns : op'[v] \in Inserting} = {v \in Txns : op[v] \in Inserting} \ {t}
  BY DEF Commit, EndTxn, Shapes, Inserting
<1>5. Stamped' = (Stamped \ {t}) \cup {d} /\ d \notin Stamped /\ t \in Stamped
  <2>1. t \notin Members /\ d \notin Members /\ d \notin Txns
    BY <1>0, <1>2 DEF Members
  <2>2. QED
    BY <1>0, <1>3, <1>4, <2>1 DEF Stamped
<1>6. \A z \in Stamps :
        earlier'[z] = IF z = t THEN {} ELSE IF t \in old(z) THEN (old(z) \ {t}) \cup {d} ELSE old(z)
  BY DEF Commit, Reorder
<1>7. \A z \in Stamps : /\ earlier[z] \subseteq Stamped /\ z \notin earlier[z]
                        /\ z \notin Stamped => earlier[z] = {}
                        /\ earlier[z] \subseteq Stamps
                        /\ \A y \in earlier[z] : earlier[y] \subseteq earlier[z]
  BY DEF Ordered, Others
<1> HIDE DEF d, Stamped, Stamps
<1>8. earlier'[x] \subseteq Stamped'
  <2>1. old(x) \subseteq Stamped
    BY <1>0, <1>7
  <2> HIDE DEF old
  <2>2. earlier'[x] \subseteq (old(x) \ {t}) \cup {d}
    BY <1>6
  <2>3. QED
    BY <1>5, <2>1, <2>2
<1>9. x \notin earlier'[x]
  <2>1. CASE x = d
    <3>1. t \notin earlier[t] /\ d \notin earlier[t]
      BY <1>0, <1>5, <1>7
    <3>2. earlier'[d] = earlier[t]
      BY <1>0, <1>6, <3>1
    <3>3. QED
      BY <2>1, <3>1, <3>2
  <2>2. CASE x # d
    <3>1. x \notin earlier[x]
      BY <1>7
    <3>2. earlier'[x] \subseteq earlier[x] \cup {d}
      BY <1>6, <2>2
    <3>3. QED
      BY <2>2, <3>1, <3>2
  <2>3. QED
    BY <2>1, <2>2
<1>10. x \notin Stamped' => earlier'[x] = {}
  <2>1. x \notin Stamped' => x = t \/ (x # d /\ x \notin Stamped)
    BY <1>5
  <2>2. QED
    BY <1>6, <1>7, <2>1
<1>11. ASSUME NEW y \in earlier'[x] PROVE earlier'[y] \subseteq earlier'[x]
  <2> DEFINE b == IF x = d THEN t ELSE x
             a == IF y = d THEN t ELSE y
  <2>1. x # t
    <3>1. earlier'[t] = {}
      BY <1>0, <1>6
    <3>2. QED
      BY <1>11, <3>1
  <2>2. /\ b \in Stamps
        /\ earlier'[x] = IF t \in earlier[b] THEN (earlier[b] \ {t}) \cup {d} ELSE earlier[b]
    BY <1>0, <1>6, <2>1
  <2>3. earlier[b] \subseteq Stamps /\ d \notin earlier[b]
    BY <1>5, <1>7, <2>2
  <2> HIDE DEF b
  <2>4. y # t /\ y \in Stamps
    BY <1>0, <1>11, <2>2, <2>3
  <2>5. a \in earlier[b]
    <3>1. CASE y = d
      BY <1>11, <2>2, <2>3, <3>1
    <3>2. CASE y # d
      BY <1>11, <2>2, <3>2
    <3>3. QED
      BY <3>1, <3>2
  <2>6. earlier[a] \subseteq earlier[b]
    BY <1>7, <2>2, <2>5
  <2>7. /\ earlier'[x] = IF t \in earlier[b] THEN (earlier[b] \ {t}) \cup {d} ELSE earlier[b]
        /\ earlier'[y] = IF t \in earlier[a] THEN (earlier[a] \ {t}) \cup {d} ELSE earlier[a]
    BY <1>6, <2>4, <2>2
  <2> HIDE DEF a
  <2>8. QED
    BY <2>6, <2>7
<1>12. QED
  BY <1>8, <1>9, <1>10, <1>11

LEMMA OrderedInvariant == Spec => []Ordered
<1> USE ChannelAssumption
<1>1. Init => Ordered
  <2> SUFFICES ASSUME Init, NEW x \in Stamps
               PROVE  /\ earlier[x] \subseteq Stamped /\ x \notin earlier[x]
                      /\ x \notin Stamped => earlier[x] = {}
                      /\ \A y \in earlier[x] : earlier[y] \subseteq earlier[x]
    BY DEF Ordered
  <2>1. Members \subseteq Users /\ Members \subseteq Stamped /\ Members \subseteq Stamps
    BY DEF Members, Stamped, Stamps
  <2>2. \A z \in Stamps : earlier[z] = IF z \in Members
           THEN {v \in Members : StartJoined[v] < StartJoined[z]} ELSE {}
    BY DEF Init
  <2>3. \A u \in Users : StartJoined[u] \in Nat
    OBVIOUS
  <2> HIDE DEF Members, Stamped, Stamps
  <2>4. earlier[x] \subseteq Members /\ x \notin earlier[x]
    <3>1. earlier[x] \subseteq Members
      BY <2>2
    <3>2. x \in Members => ~(StartJoined[x] < StartJoined[x])
      BY <2>1, <2>3
    <3>3. QED
      BY <2>2, <3>1, <3>2
  <2>5. ASSUME NEW y \in earlier[x], NEW z \in earlier[y] PROVE z \in earlier[x]
    <3>1. x \in Members /\ y \in Members /\ StartJoined[y] < StartJoined[x]
      BY <2>2, <2>5
    <3>2. z \in Members /\ StartJoined[z] < StartJoined[y]
      BY <2>1, <2>2, <2>5, <3>1
    <3>3. StartJoined[z] < StartJoined[x]
      BY <2>1, <2>3, <3>1, <3>2
    <3>4. QED
      BY <2>2, <3>1, <3>2, <3>3
  <2>6. QED
    BY <2>1, <2>2, <2>4, <2>5
<1>2. LockInv /\ Others /\ Writes /\ Ordered /\ [Next]_vars => Ordered'
  <2> SUFFICES ASSUME LockInv, Others, Writes, Ordered, [Next]_vars PROVE Ordered'
    OBVIOUS
  <2>0. Shapes /\ Held
    BY DEF LockInv
  <2>1. CASE UNCHANGED <<role, earlier, op>>
    BY <2>1 DEF Ordered, Stamped, Members, Stamps
  <2>2. ASSUME NEW t \in Txns, Abandon(t) PROVE Ordered'
    <3>1. Stamped' = Stamped \ {t}
      BY <2>0, <2>2 DEF Stamped, Members, Abandon, EndTxn, Shapes, Inserting
    <3>2. Forget({t})
      BY <2>2 DEF Abandon
    <3>3. QED
      BY <3>1, <3>2, ForgetOrdered
  <2>3. ASSUME NEW t \in Txns, Commit(t) PROVE Ordered'
    <3>1. CASE op[t] \in Inserting
      BY <2>0, <2>3, <3>1, InsertOrdered
    <3>2. CASE op[t] \notin Inserting
      <4> DEFINE S == {u \in Users : role'[u] = "none"}
      <4>1. Forget(S)
        BY <2>3, <3>2 DEF Commit, Reorder
      <4>2. Members' = Users \ S
        BY DEF Members
      <4>3. {v \in Txns : op'[v] \in Inserting} = {v \in Txns : op[v] \in Inserting}
        BY <2>0, <2>3, <3>2 DEF Commit, EndTxn, Shapes, Inserting
      <4>4. Members \subseteq Users /\ S \subseteq Users
        BY DEF Members
      <4> HIDE DEF S
      <4>5. Stamped \ S \subseteq Stamped'
        BY <4>2, <4>3, <4>4 DEF Stamped
      <4>6. \A x \in Stamps \ Stamped' : x \in S \/ x \notin Stamped
        BY <4>2, <4>3, <4>4 DEF Stamped, Stamps
      <4>7. QED
        BY <4>1, <4>5, <4>6, ForgetOrdered
    <3>3. QED
      BY <3>1, <3>2
  <2>4. ASSUME NEW t \in Txns, NEW o, NEW c, NEW d, NEW r, NEW s,
               Begin(t, o, c, d, r, s), UNCHANGED role PROVE Ordered'
    BY <2>0, <2>4, BeginOrdered
  <2>5. ASSUME NEW t \in Txns, Arrival(t) PROVE Ordered'
    BY <2>4, <2>5 DEF Arrival, Join, Leave, Deactivate, Manage
  <2>6. ASSUME NEW t \in Txns, Step(t) PROVE Ordered'
    <3>1. \/ Abandon(t) \/ Commit(t) \/ UNCHANGED <<role, earlier, op>>
      BY <2>6 DEF Step, LockRow, CheckCaller, Succession, SoleSnapshot, PickSuccessor, Promote,
                  Delete, Insert, Update, args
    <3>2. QED
      BY <2>1, <2>2, <2>3, <3>1
  <2>7. QED
    BY <2>1, <2>2, <2>5, <2>6 DEF Next, Fail, Reactivate, vars, args
<1>3. QED
  BY <1>1, <1>2, LockInvariant, OthersInvariant, WritesInvariant, PTL DEF Spec

-----------------------------------------------------------------------------
\* The query for the successor returns somebody if anybody remains.
LEMMA EarliestExists ==
  ASSUME Shapes, Others, Ordered, NEW t \in Txns, Remaining(t) # {}
  PROVE  \E u \in Users : Earliest(t, u)
<1> USE ChannelAssumption
<1> DEFINE before(u) == Remaining(t) \cap earlier[u]
<1>1. Remaining(t) \subseteq Users /\ IsFiniteSet(Remaining(t)) /\ Users \subseteq Stamps
  <2>1. Remaining(t) \subseteq Users
    BY DEF Remaining, Members
  <2>2. QED
    BY <2>1, FS_Subset DEF Stamps
<1>2. \A u \in Remaining(t) : IsFiniteSet(before(u)) /\ Cardinality(before(u)) \in Nat
  BY <1>1, FS_Subset, FS_CardinalityType
<1>3. PICK u \in Remaining(t) : \A w \in Remaining(t) :
        Cardinality(before(u)) <= Cardinality(before(w))
  <2> DEFINE size == [u \in Remaining(t) |-> Cardinality(before(u))]
  <2>1. \A u \in Remaining(t) : size[u] \in Nat
    BY <1>2
  <2> HIDE DEF size
  <2>2. \E u \in Remaining(t) : \A w \in Remaining(t) : size[u] <= size[w]
    BY <2>1, LeastSized
  <2> QED BY <2>2 DEF size
<1>4. ASSUME NEW w \in before(u) PROVE FALSE
  <2>1. /\ w \in Remaining(t) /\ w \in earlier[u] /\ w \notin earlier[w]
        /\ earlier[w] \subseteq earlier[u]
    BY <1>1, <1>4 DEF Ordered
  <2>2. before(w) \subseteq before(u) /\ w \in before(u) /\ w \notin before(w)
    BY <2>1
  <2>3. IsFiniteSet(before(u)) /\ Cardinality(before(u)) \in Nat /\ Cardinality(before(w)) \in Nat
    BY <1>2, <2>1
  <2>4. Cardinality(before(u)) <= Cardinality(before(w))
    BY <1>3, <2>1
  <2> HIDE DEF before
  <2>5. Cardinality(before(w)) < Cardinality(before(u))
    BY <2>2, <2>3, FS_Subset
  <2>6. QED
    BY <2>3, <2>4, <2>5
<1>5. QED
  BY <1>1, <1>4 DEF Earliest

-----------------------------------------------------------------------------
\* A departure that holds admin rows leaves an admin behind, one of those it
\* holds or the successor it promotes; or nobody; or it relies on a successor
\* it does not hold.
Stays(t) ==
  \/ \E a \in Users \ {dep[t]} : lock[a] = t /\ role[a] = "admin"
  \/ \E a \in Users \ {dep[t]} : pend[t][a] = "admin"

CoveredOf(t) ==
  /\ pc[t] = "lockSole" => \A u \in got[t] : lock[u] = t /\ role[u] = "admin"
  /\ op[t] \in Departures /\ pc[t] \in {"promote", "delete", "commit"} /\ got[t] # {} =>
       \/ Stays(t)
       \/ got[t] = {dep[t]} /\ (saw[t] = {} \/ relied[t] # {} \/ pc[t] = "promote")

Covered == \A t \in Txns : CoveredOf(t)

\* The requests of others do not change that.
LEMMA OthersKeepCovered ==
  ASSUME LockInv, Others, NEW t \in Txns, Acts(t), NEW v \in Txns \ {t}, CoveredOf(v)
  PROVE  CoveredOf(v)'
<1>0. Shapes
  BY DEF LockInv
<1>1. /\ pc'[v] = pc[v] /\ op'[v] = op[v] /\ dep'[v] = dep[v] /\ got'[v] = got[v]
      /\ pend'[v] = pend[v] /\ saw'[v] = saw[v] /\ relied'[v] = relied[v]
  BY <1>0, OnlyItself
<1>2. \A u \in Users : lock[u] = v => lock'[u] = v /\ role'[u] = role[u]
  BY LocksProtect
<1>3. got[v] \subseteq Users
  BY <1>0 DEF Shapes
<1>4. Stays(v) => Stays(v)'
  BY <1>1, <1>2 DEF Stays
<1>5. pc'[v] = "lockSole" => \A u \in got'[v] : lock'[u] = v /\ role'[u] = "admin"
  BY <1>1, <1>2, <1>3 DEF CoveredOf
<1>6. QED
  BY <1>1, <1>4, <1>5 DEF CoveredOf

\* The choice of the successor leaves somebody: an admin row it holds besides
\* the departing user's, the member it promotes, or an admin it relies on.
LEMMA SuccessionCovers ==
  ASSUME LockInv, Others, Ordered, NEW t \in Txns, CoveredOf(t), PickSuccessor(t)
  PROVE  CoveredOf(t)'
<1> DEFINE first == {u \in Users : Cardinality(got[t]) = 1 /\ Earliest(t, u)}
<1>0. Shapes /\ pc[t] = "lockSole"
  BY DEF LockInv, PickSuccessor
<1>1. /\ pc'[t] = IF first \ Admins # {} THEN "promote" ELSE AfterSuccession(t)
      /\ saw'[t] = Remaining(t) /\ relied'[t] = first \cap Admins
      /\ UNCHANGED <<role, lock, op, dep, got, pend>>
  BY <1>0 DEF PickSuccessor, Goto, Shapes, Others, args
<1>2. pc'[t] # "lockSole"
  BY <1>1 DEF AfterSuccession
<1>3. got[t] \subseteq Users /\ \A u \in got[t] : lock[u] = t /\ role[u] = "admin"
  BY <1>0 DEF CoveredOf, Shapes
<1>4. CASE \E a \in got[t] : a # dep[t]
  <2>1. Stays(t)'
    BY <1>1, <1>3, <1>4 DEF Stays
  <2>2. QED
    BY <1>2, <2>1 DEF CoveredOf
<1>5. CASE got[t] = {dep[t]}
  <2>1. Cardinality(got[t]) = 1
    BY <1>5, FS_Singleton
  <2>2. CASE Remaining(t) = {}
    BY <1>1, <1>2, <1>5, <2>2 DEF CoveredOf
  <2>3. CASE Remaining(t) # {}
    <3>1. first # {}
      BY <1>0, <2>1, <2>3, EarliestExists
    <3> HIDE DEF first
    <3>2. relied'[t] # {} \/ pc'[t] = "promote"
      BY <1>1, <3>1
    <3>3. QED
      BY <1>1, <1>2, <1>5, <3>2 DEF CoveredOf
  <2>4. QED
    BY <2>2, <2>3
<1>6. CASE got[t] = {}
  BY <1>1, <1>2, <1>6 DEF CoveredOf
<1>7. QED
  BY <1>4, <1>5, <1>6

LEMMA CoveredInvariant == Spec => []Covered
<1> USE ChannelAssumption
<1>1. Init => Covered
  BY DEF Init, Covered, CoveredOf
<1>2. LockInv /\ Others /\ Flow /\ Ordered /\ Covered /\ [Next]_vars => Covered'
  <2> SUFFICES ASSUME LockInv, Others, Flow, Ordered, Covered, [Next]_vars PROVE Covered'
    OBVIOUS
  <2>0. Shapes
    BY DEF LockInv
  <2>1. ASSUME NEW t \in Txns, Acts(t), CoveredOf(t)' PROVE Covered'
    <3>1. ASSUME NEW v \in Txns \ {t} PROVE CoveredOf(v)'
      BY <2>1, OthersKeepCovered DEF Covered
    <3>2. QED
      BY <2>1, <3>1 DEF Covered
  <2>2. ASSUME NEW t \in Txns, Acts(t) PROVE CoveredOf(t)'
    <3>0. CoveredOf(t) /\ FlowOf(t)
      BY DEF Covered, Flow
    <3>1. ASSUME op[t] \in Managing, pc[t] # "lockAdmins", role[dep[t]] # "admin",
                 UNCHANGED <<role, lock, dep>>
          PROVE  Stays(t)'
      <4>1. caller[t] \in Users /\ lock[caller[t]] = t /\ role[caller[t]] = "admin"
        BY <3>1 DEF LockInv, Checked
      <4>2. QED
        BY <3>1, <4>1 DEF Stays
    <3>2. ASSUME EndTxn(t) PROVE CoveredOf(t)'
      <4>1. pc'[t] = "idle"
        BY <2>0, <3>2 DEF EndTxn, Goto, Shapes
      <4>2. QED
        BY <4>1 DEF CoveredOf
    <3>3. CASE Abandon(t) \/ Fail(t) \/ Commit(t)
      BY <3>2, <3>3 DEF Abandon, Fail, Commit
    <3>4. CASE LockRow(t)
      <4>1. /\ pc[t] \in {"lockAdmins", "lockSole"} /\ UNCHANGED <<role, pc>>
            /\ \E u \in todo[t] :
                 /\ lock' = IF role[u] # "none" THEN [lock EXCEPT ![u] = t] ELSE lock
                 /\ got' = IF role[u] = "admin" THEN [got EXCEPT ![t] = @ \cup {u}] ELSE got
        BY <3>4 DEF LockRow
      <4>2. PICK u \in Users :
              /\ lock' = IF role[u] # "none" THEN [lock EXCEPT ![u] = t] ELSE lock
              /\ got' = IF role[u] = "admin" THEN [got EXCEPT ![t] = @ \cup {u}] ELSE got
        BY <2>0, <4>1 DEF Shapes
      <4>3. ASSUME pc[t] = "lockSole", NEW w \in got'[t] PROVE lock'[w] = t /\ role[w] = "admin"
        <5>1. CASE w \in got[t]
          BY <2>0, <3>0, <4>2, <4>3, <5>1 DEF Shapes, CoveredOf
        <5>2. CASE w \notin got[t]
          <6>1. role[u] = "admin" /\ w = u
            BY <2>0, <4>2, <4>3, <5>2 DEF Shapes
          <6>2. QED
            BY <2>0, <4>2, <6>1 DEF Shapes
        <5>3. QED
          BY <5>1, <5>2
      <4>4. QED
        BY <4>1, <4>3 DEF CoveredOf
    <3>5. CASE CheckCaller(t) /\ ~Abandon(t)
      <4>1. /\ pc'[t] \notin {"lockSole", "promote", "commit"}
            /\ UNCHANGED <<role, lock, op, dep, got>>
            /\ caller[t] \in got[t] /\ pc[t] = "lockAdmins"
            /\ op[t] \in Departures /\ pc'[t] = "delete" => role[dep[t]] # "admin"
        BY <2>0, <3>5 DEF CheckCaller, Goto, Shapes, args, Departures
      <4>2. lock[caller[t]] = t /\ role[caller[t]] = "admin" /\ caller[t] \in Users
        <5>1. \A u \in got[t] : lock[u] = t /\ role[u] = "admin"
          BY <4>1 DEF LockInv, Checked
        <5>2. QED
          BY <2>0, <4>1, <5>1 DEF Shapes
      <4>3. op[t] \in Departures /\ pc'[t] = "delete" => Stays(t)'
        BY <4>1, <4>2 DEF Stays
      <4>4. QED
        BY <4>1, <4>3 DEF CoveredOf
    <3>6. CASE Succession(t)
      <4>1. /\ pc'[t] \notin {"lockSole", "promote"} /\ pc[t] = "succession"
            /\ UNCHANGED <<role, lock, op, dep, got>>
            /\ pc'[t] \in {"delete", "commit"} => role[dep[t]] # "admin"
        BY <2>0, <3>6 DEF Succession, AfterSuccession, Goto, Shapes, args
      <4>2. op[t] \in Departures /\ got[t] # {} => op[t] \in Managing
        BY <3>0, <4>1 DEF FlowOf, Departures, Managing
      <4>3. QED
        BY <3>1, <4>1, <4>2 DEF CoveredOf
    <3>7. CASE SoleSnapshot(t)
      <4>1. pc'[t] = "lockSole" /\ got'[t] = {}
        BY <2>0, <3>7 DEF SoleSnapshot, Goto, Shapes
      <4>2. QED
        BY <4>1 DEF CoveredOf
    <3>8. CASE PickSuccessor(t)
      BY <3>0, <3>8, SuccessionCovers
    <3>9. CASE Promote(t) /\ ~Abandon(t)
      <4>1. /\ pc'[t] \in {"delete", "commit"} /\ pc[t] = "promote" /\ dep' = dep
            /\ \E u \in todo[t] : Write(t, u, "admin")
        BY <2>0, <3>9 DEF Promote, AfterSuccession, Goto, Shapes, args
      <4>2. PICK u \in Users \ {dep[t]} : Write(t, u, "admin")
        BY <2>0, <3>0, <4>1 DEF FlowOf, Shapes
      <4>3. pend'[t][u] = "admin"
        BY <2>0, <4>2 DEF Write, Shapes
      <4>4. Stays(t)'
        BY <4>1, <4>2, <4>3 DEF Stays
      <4>5. QED
        BY <4>1, <4>4 DEF CoveredOf
    <3>10. CASE Delete(t)
      <4>1. /\ pc[t] = "delete" /\ pc'[t] = "commit" /\ dep[t] \in Users
            /\ UNCHANGED <<role, op, dep, got, saw, relied>>
            /\ UNCHANGED <<lock, pend>> \/ Write(t, dep[t], "none")
        BY <2>0, <3>10 DEF Delete, Goto, Shapes, args, seen
      <4>2. \A a \in Users \ {dep[t]} : lock'[a] = lock[a] /\ pend'[t][a] = pend[t][a]
        BY <2>0, <4>1 DEF Write, Shapes
      <4>3. Stays(t) => Stays(t)'
        BY <4>1, <4>2 DEF Stays
      <4>4. QED
        BY <3>0, <4>1, <4>3 DEF CoveredOf
    <3>11. CASE (Insert(t) \/ Update(t)) /\ ~Abandon(t)
      <4>1. pc[t] \in {"insert", "update"} /\ pc'[t] = "commit" /\ op' = op
        BY <2>0, <3>11 DEF Insert, Update, Goto, Shapes, args
      <4>2. op[t] \notin Departures
        BY <3>0, <4>1 DEF FlowOf
      <4>3. QED
        BY <4>1, <4>2 DEF CoveredOf
    <3>12. CASE Arrival(t)
      <4>1. pc[t] = "idle" /\ pc'[t] # "lockSole" /\ got' = got
        BY <2>0, <3>12
           DEF Arrival, Join, Leave, Deactivate, Manage, Begin, Goto, Shapes
      <4>2. got[t] = {}
        BY <4>1 DEF LockInv, Held
      <4>3. QED
        BY <4>1, <4>2 DEF CoveredOf
    <3>13. QED
      BY <2>2, <3>3, <3>4, <3>5, <3>6, <3>7, <3>8, <3>9, <3>10, <3>11, <3>12 DEF Acts, Step
  <2>3. CASE UNCHANGED <<role, lock, pc, args, got, pend, seen>>
    BY <2>3 DEF Covered, CoveredOf, Stays, args, seen
  <2>4. QED
    BY <2>1, <2>2, <2>3 DEF Next, Acts, Reactivate, vars
<1>3. QED
  BY <1>1, <1>2, LockInvariant, OthersInvariant, FlowInvariant, OrderedInvariant, PTL DEF Spec

\* F36: whatever other requests do meanwhile, a departure under the admin locks
\* leaves an admin to the members it saw, unless the successor it relied on was
\* an admin it had not locked and who is one no longer.
THEOREM LockedDepartureCoveredHolds == Spec => LockedDepartureCovered
<1> USE ChannelAssumption
<1>1. ASSUME LockInv, Others, Writes, Covered, [Next]_vars, NEW t \in Txns,
             got[t] # {}, Orphans(t)
      PROVE  got[t] = {dep[t]} /\ relied[t] # {} /\ relied[t] \cap Admins = {}
  <2>0. Shapes /\ WritesOf(t) /\ CoveredOf(t)
    BY <1>1 DEF LockInv, Writes, Covered
  <2>1. /\ pc[t] = "commit" /\ pc'[t] = "idle" /\ op[t] \in Departures
        /\ Admins # {} /\ Admins' = {} /\ Members' \cap saw[t] # {}
    BY <1>1 DEF Orphans, Commits
  <2>2. PICK v \in Txns : Acts(v)
    BY <1>1, <2>1 DEF Next, Acts, Reactivate, vars
  <2>3. v = t
    BY <1>1, <2>0, <2>1, <2>2, OnlyItself
  <2>4. role' # role
    BY <2>1 DEF Admins
  <2>5. Commit(t)
    BY <2>1, <2>2, <2>3, <2>4
       DEF Acts, Arrival, Join, Leave, Deactivate, Manage, Begin, Step, LockRow, CheckCaller,
           Succession, SoleSnapshot, PickSuccessor, Promote, Delete, Insert, Update, Fail, Abandon
  <2>6. \A a \in Users \ {dep[t]} :
          role[a] = "admin" \/ pend[t][a] = "admin" => role'[a] = "admin"
    BY <2>0, <2>1, <2>5 DEF Commit, WritesOf
  <2>7. \A a \in Users \ {dep[t]} : role[a] # "admin" /\ pend[t][a] # "admin"
    BY <2>1, <2>6 DEF Admins
  <2>8. ~Stays(t)
    BY <2>7 DEF Stays
  <2>9. got[t] = {dep[t]} /\ relied[t] # {}
    BY <1>1, <2>0, <2>1, <2>8 DEF CoveredOf
  <2>10. relied[t] \cap Admins = {}
    <3>1. dep[t] \notin relied[t]
      BY <2>0, <2>1 DEF WritesOf
    <3>2. QED
      BY <2>7, <3>1 DEF Admins
  <2>11. QED
    BY <2>9, <2>10
<1>2. LockInv /\ Others /\ Writes /\ Covered /\ [Next]_vars =>
        [\A t \in Txns : got[t] # {} /\ Orphans(t)
           => got[t] = {dep[t]} /\ relied[t] # {} /\ relied[t] \cap Admins = {}]_vars
  BY <1>1
<1>3. QED
  BY <1>2, LockInvariant, OthersInvariant, WritesInvariant, CoveredInvariant, PTL
     DEF Spec, LockedDepartureCovered
=============================================================================
