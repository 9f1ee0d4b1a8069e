------------------------- MODULE SystemAdminsProofs -------------------------
(***************************************************************************)
(* The last active System Admin can not be deactivated, for any number of  *)
(* administrators, requests and instances.                                 *)
(***************************************************************************)
EXTENDS SystemAdmins, FiniteSetTheorems, TLAPS

\* The rows a request has counted are locked by it and active; a deactivation
\* of an admin that has passed the guard has counted another one; no target is
\* an absent row, and neither is a seeded row that is not committed present.
GuardInv ==
  /\ TypeOK
  /\ AnAdminRemains
  /\ \A r \in Requests : \A a \in held[r] : lock[a] = r /\ row[a] = "active"
  /\ \A r \in Requests : pc[r] # "idle" =>
       /\ target[r] \in Users /\ op[r] # "none"
       /\ row[target[r]] # "absent"
  /\ \A r \in Requests : pc[r] = "commit" => lock[target[r]] = r
  /\ \A r \in Requests :
       pc[r] \in {"write", "commit"} /\ op[r] = "deactivate" /\ target[r] \in Admins
         => \E b \in held[r] : b # target[r]
  /\ \A r \in Requests : pc[r] = "idle" => held[r] = {} /\ \A u \in Users : lock[u] # r
  /\ \A i \in Instances : boot[i] = "inserted" =>
       /\ row[SeedOf[i]] = "absent"
       /\ \A j \in Instances : boot[j] = "inserted" /\ SeedOf[j] = SeedOf[i] => j = i

\* More than one element leaves one beside any given one.
LEMMA AnotherOne ==
  ASSUME NEW S, IsFiniteSet(S), Cardinality(S) > 1, NEW x
  PROVE  \E b \in S : b # x
<1>1. SUFFICES ASSUME \A b \in S : b = x PROVE FALSE
  OBVIOUS
<1>2. S \subseteq {x}
  BY <1>1
<1>3. IsFiniteSet({x}) /\ Cardinality({x}) = 1
  BY FS_Singleton
<1>4. Cardinality(S) <= 1
  BY <1>2, <1>3, FS_Subset
<1>5. Cardinality(S) \in Nat
  BY FS_CardinalityType
<1> QED BY <1>4, <1>5

\* Once a request has ended, none of its locks and counts is left.
LEMMA EndPreserves ==
  ASSUME GuardInv, NEW r \in Requests, End(r), row' = row, boot' = boot
  PROVE  GuardInv'
<1> USE AdminAssumption DEF GuardInv, TypeOK
<1>1. TypeOK'
  BY DEF End, Goto
<1>2. AnAdminRemains'
  BY DEF AnAdminRemains, Serving, Empty, Active
<1>3. (\A s \in Requests : \A a \in held[s] : lock[a] = s /\ row[a] = "active")'
  BY DEF End, Goto
<1>4. (\A s \in Requests : pc[s] # "idle" =>
       /\ target[s] \in Users /\ op[s] # "none" /\ row[target[s]] # "absent")'
  BY DEF End, Goto
<1>5. (\A s \in Requests : pc[s] = "commit" => lock[target[s]] = s)'
  BY DEF End, Goto
<1>6. (\A s \in Requests :
       pc[s] \in {"write", "commit"} /\ op[s] = "deactivate" /\ target[s] \in Admins
         => \E b \in held[s] : b # target[s])'
  BY DEF End, Goto
<1>7. (\A s \in Requests : pc[s] = "idle" => held[s] = {} /\ \A u \in Users : lock[u] # s)'
  BY DEF End, Goto
<1> QED BY <1>1, <1>2, <1>3, <1>4, <1>5, <1>6, <1>7

\* GuardInv holds at the start and is kept by every step: a deactivation that
\* passed the guard commits while another admin's row is locked and active.
THEOREM GuardInvariant == Spec => []GuardInv
<1>1. Init => GuardInv
  BY AdminAssumption DEF Init, GuardInv, TypeOK, AnAdminRemains, Serving, Empty, Active
<1>2. GuardInv /\ [Next]_vars => GuardInv'
  <2> SUFFICES ASSUME GuardInv, [Next]_vars PROVE GuardInv'
    OBVIOUS
  <2> USE AdminAssumption
  <2>1. ASSUME NEW i \in Instances, Startup(i) \/ BootAgain(i) PROVE GuardInv'
    <3>1. SeedOf[i] \in Users /\ SeedOf[i] \in Admins
      OBVIOUS
    <3>2. CASE BootCommit(i)
      <4>1. /\ boot[i] = "inserted"
            /\ row' = [row EXCEPT ![SeedOf[i]] = "active"]
            /\ boot' = [boot EXCEPT ![i] = "up"]
            /\ UNCHANGED <<lock, pc, op, target, todo, held>>
        BY <3>2 DEF BootCommit, request
      <4>2. TypeOK'
        BY <4>1, <3>1 DEF GuardInv, TypeOK
      <4>3. row'[SeedOf[i]] = "active" /\ \A u \in Users : row[u] # "absent" => row'[u] = row[u]
        BY <4>1, <3>1 DEF GuardInv, TypeOK
      <4>4. AnAdminRemains'
        BY <4>3, <3>1 DEF AnAdminRemains, Active
      <4>5. \A j \in Instances : boot'[j] = "inserted" =>
              /\ row'[SeedOf[j]] = "absent"
              /\ \A k \in Instances : boot'[k] = "inserted" /\ SeedOf[k] = SeedOf[j] => k = j
        <5> SUFFICES ASSUME NEW j \in Instances, boot'[j] = "inserted"
                     PROVE  /\ row'[SeedOf[j]] = "absent"
                            /\ \A k \in Instances :
                                 boot'[k] = "inserted" /\ SeedOf[k] = SeedOf[j] => k = j
          OBVIOUS
        <5>1. j # i /\ boot[j] = "inserted"
          BY <4>1 DEF GuardInv, TypeOK
        <5>2. SeedOf[j] # SeedOf[i] /\ SeedOf[j] \in Users /\ row[SeedOf[j]] = "absent"
          BY <4>1, <5>1 DEF GuardInv
        <5>3. \A k \in Instances : boot'[k] = "inserted" => boot[k] = "inserted"
          BY <4>1 DEF GuardInv, TypeOK
        <5>4. row'[SeedOf[j]] = "absent"
          BY <4>1, <5>2 DEF GuardInv, TypeOK
        <5> QED BY <5>1, <5>3, <5>4 DEF GuardInv
      <4>6. \A s \in Requests : \A a \in held[s] : row[a] = "active" => row'[a] = "active"
        BY <4>3 DEF GuardInv, TypeOK
      <4> QED BY <4>1, <4>2, <4>3, <4>4, <4>5, <4>6 DEF GuardInv
    <3>3. CASE BootCount(i) \/ BootInsert(i) \/ BootVerify(i) \/ BootAgain(i)
      <4>1. UNCHANGED <<row, lock, pc, op, target, todo, held>>
        BY <3>3 DEF BootCount, BootInsert, BootVerify, BootAgain, request
      <4>2. TypeOK'
        BY <3>3, <4>1 DEF GuardInv, TypeOK, BootCount, BootInsert, BootVerify, BootAgain
      <4>3. boot'[i] = "up" => Active # {}
        BY <3>3 DEF GuardInv, TypeOK, BootCount, BootInsert, BootVerify, BootAgain
      <4>4. \A j \in Instances : j # i => boot'[j] = boot[j]
        BY <3>3 DEF GuardInv, TypeOK, BootCount, BootInsert, BootVerify, BootAgain
      <4>5. AnAdminRemains'
        BY <4>1, <4>3, <4>4 DEF GuardInv, AnAdminRemains, Serving, Empty, Active
      <4>6. boot'[i] = "inserted" => /\ row[SeedOf[i]] = "absent"
                                     /\ \A j \in Instances : SeedOf[j] = SeedOf[i] => boot[j] # "inserted"
        BY <3>3 DEF GuardInv, TypeOK, BootCount, BootInsert, BootVerify, BootAgain
      <4>7. \A j \in Instances : boot'[j] = "inserted" =>
              /\ row'[SeedOf[j]] = "absent"
              /\ \A k \in Instances : boot'[k] = "inserted" /\ SeedOf[k] = SeedOf[j] => k = j
        BY <4>1, <4>4, <4>6 DEF GuardInv
      <4> QED BY <4>1, <4>2, <4>5, <4>7 DEF GuardInv
    <3> QED BY <2>1, <3>2, <3>3 DEF Startup
  <2>2. ASSUME NEW u \in Users, Register(u) PROVE GuardInv'
    BY <2>2 DEF GuardInv, TypeOK, Register, AnAdminRemains, Serving, Empty, Active, request
  <2>3. ASSUME NEW r \in Requests, NEW o \in {"deactivate", "reactivate"},
               NEW c \in Users, NEW t \in Users, Begin(r, o, c, t)
        PROVE GuardInv'
    <3>1. o = "deactivate" /\ t \in Admins => pc'[r] \notin {"write", "commit", "idle"}
      BY <2>3 DEF GuardInv, TypeOK, Begin, Goto, AfterRead
    <3>2. pc'[r] \in {"read", "snapshot", "write"}
      BY <2>3 DEF GuardInv, TypeOK, Begin, Goto, AfterRead
    <3>3. /\ pc[r] = "idle" /\ row[t] # "absent"
          /\ op' = [op EXCEPT ![r] = o] /\ target' = [target EXCEPT ![r] = t]
          /\ UNCHANGED <<row, boot, lock, todo, held>>
      BY <2>3 DEF Begin
    <3>4. \A s \in Requests : s # r => pc'[s] = pc[s] /\ op'[s] = op[s] /\ target'[s] = target[s]
      BY <2>3 DEF GuardInv, TypeOK, Begin, Goto
    <3>5. op'[r] = o /\ target'[r] = t
      BY <3>3 DEF GuardInv, TypeOK
    <3>6. pc' \in [Requests -> {"idle", "read", "snapshot", "lock", "write", "commit"}]
      BY <2>3, <3>2 DEF GuardInv, TypeOK, Begin, Goto
    <3>7. TypeOK'
      BY <3>3, <3>6 DEF GuardInv, TypeOK
    <3>8. AnAdminRemains'
      BY <3>3 DEF GuardInv, AnAdminRemains, Serving, Empty, Active
    <3> QED BY <3>1, <3>2, <3>3, <3>4, <3>5, <3>7, <3>8 DEF GuardInv
  <2>4. ASSUME NEW r \in Requests, ReadTarget(r) PROVE GuardInv'
    <3> DEFINE step == AfterRead(op[r], target[r], row[target[r]] = "active")
    <3>1. CASE step = "idle"
      BY <2>4, <3>1, EndPreserves DEF ReadTarget
    <3>2. CASE step # "idle"
      <4>1. step \in {"snapshot", "write"}
        BY <3>2 DEF AfterRead
      <4>2. op[r] = "deactivate" /\ target[r] \in Admins => step = "snapshot"
        BY <3>2 DEF AfterRead
      <4>3. pc' = [pc EXCEPT ![r] = step] /\ UNCHANGED <<row, boot, lock, op, target, todo, held>>
        BY <2>4, <3>2 DEF ReadTarget, Goto
      <4> HIDE DEF step
      <4>4. pc[r] = "read"
        BY <2>4 DEF ReadTarget
      <4> QED BY <4>1, <4>2, <4>3, <4>4 DEF GuardInv, TypeOK, AnAdminRemains, Serving, Empty, Active
    <3> QED BY <3>1, <3>2
  <2>5. ASSUME NEW r \in Requests, Snapshot(r) PROVE GuardInv'
    BY <2>5 DEF GuardInv, TypeOK, Snapshot, Goto, AnAdminRemains, Serving, Empty, Active
  <2>6. ASSUME NEW r \in Requests, LockRow(r) PROVE GuardInv'
    BY <2>6 DEF GuardInv, TypeOK, LockRow, AnAdminRemains, Serving, Empty, Active
  <2>7. ASSUME NEW r \in Requests, Decide(r) PROVE GuardInv'
    <3>1. CASE Cardinality(held[r]) <= 1
      BY <2>7, <3>1, EndPreserves DEF Decide
    <3>2. CASE ~(Cardinality(held[r]) <= 1)
      <4>1. IsFiniteSet(held[r])
        BY FS_Subset DEF GuardInv, TypeOK
      <4>2. Cardinality(held[r]) \in Nat
        BY <4>1, FS_CardinalityType
      <4>3. Cardinality(held[r]) > 1
        BY <3>2, <4>2
      <4>4. \E b \in held[r] : b # target[r]
        BY <4>1, <4>3, AnotherOne
      <4>5. pc[r] = "lock" /\ pc' = [pc EXCEPT ![r] = "write"]
            /\ UNCHANGED <<row, boot, lock, op, target, todo, held>>
        BY <2>7, <3>2 DEF Decide, Goto
      <4> QED BY <4>4, <4>5 DEF GuardInv, TypeOK, AnAdminRemains, Serving, Empty, Active
    <3> QED BY <3>1, <3>2
  <2>8. ASSUME NEW r \in Requests, Write(r) PROVE GuardInv'
    BY <2>8 DEF GuardInv, TypeOK, Write, Goto, AnAdminRemains, Serving, Empty, Active
  <2>9. ASSUME NEW r \in Requests, Commit(r) PROVE GuardInv'
    <3> DEFINE t == target[r]
               to == IF op[r] = "deactivate" THEN "inactive" ELSE "active"
    <3>1. /\ pc[r] = "commit" /\ row' = [row EXCEPT ![t] = to] /\ boot' = boot
          /\ pc' = [pc EXCEPT ![r] = "idle"]
          /\ lock' = [u \in Users |-> IF lock[u] = r THEN None ELSE lock[u]]
          /\ op' = [op EXCEPT ![r] = "none"]
          /\ target' = [target EXCEPT ![r] = None]
          /\ todo' = [todo EXCEPT ![r] = {}]
          /\ held' = [held EXCEPT ![r] = {}]
      BY <2>9 DEF Commit, End, Goto
    <3>2. t \in Users /\ row[t] # "absent" /\ lock[t] = r
      BY <3>1 DEF GuardInv
    <3>3. TypeOK'
      BY <3>1, <3>2 DEF GuardInv, TypeOK
    <3>4. Active' # {}
      <4>1. CASE to = "active" \/ t \notin Admins
        <5>0. ~Empty
          BY <3>2 DEF Empty
        <5>a. Active # {}
          BY <5>0 DEF GuardInv, AnAdminRemains
        <5>1. PICK a \in Admins : row[a] = "active"
          BY <5>a, Zenon DEF Active
        <5>2. CASE a = t
          BY <3>1, <3>2, <4>1, <5>1, <5>2 DEF GuardInv, TypeOK, Active
        <5>3. CASE a # t
          BY <3>1, <5>1, <5>3 DEF GuardInv, TypeOK, Active
        <5> QED BY <5>2, <5>3
      <4>2. CASE to = "inactive" /\ t \in Admins
        <5>1. PICK b \in held[r] : b # t
          BY <3>1, <4>2 DEF GuardInv
        <5>2. b \in Admins /\ row[b] = "active"
          BY <5>1 DEF GuardInv, TypeOK
        <5> QED BY <3>1, <5>1, <5>2 DEF GuardInv, TypeOK, Active
      <4> QED BY <4>1, <4>2
    <3>5. \A s \in Requests : \A a \in held'[s] : lock'[a] = s /\ row'[a] = "active"
      BY <3>1, <3>2 DEF GuardInv, TypeOK
    <3>6. \A u \in Users : row[u] # "absent" <=> row'[u] # "absent"
      BY <3>1, <3>2 DEF GuardInv, TypeOK
    <3>7. \A s \in Requests \ {r} : pc'[s] = pc[s] /\ op'[s] = op[s] /\ target'[s] = target[s]
                                    /\ held'[s] = held[s]
      BY <3>1 DEF GuardInv, TypeOK
    <3>8. pc'[r] = "idle" /\ held'[r] = {} /\ \A u \in Users : lock'[u] # r
      BY <3>1 DEF GuardInv, TypeOK
    <3>9. \A s \in Requests \ {r} : \A u \in Users : lock'[u] = s <=> lock[u] = s
      BY <3>1 DEF GuardInv, TypeOK
    <3>10. \A j \in Instances : boot'[j] = "inserted" => row'[SeedOf[j]] = "absent"
      BY <3>1, <3>6 DEF GuardInv, TypeOK
    <3> HIDE DEF t, to
    <3>11. \A s \in Requests : pc'[s] # "idle" =>
             /\ target'[s] \in Users /\ op'[s] # "none" /\ row'[target'[s]] # "absent"
      <4> TAKE s \in Requests
      <4> HAVE pc'[s] # "idle"
      <4>1. s # r
        BY <3>8
      <4>2. pc'[s] = pc[s] /\ op'[s] = op[s] /\ target'[s] = target[s]
        BY <3>7, <4>1
      <4>3. target[s] \in Users /\ op[s] # "none" /\ row[target[s]] # "absent"
        BY <4>2 DEF GuardInv
      <4> QED BY <3>6, <4>2, <4>3
    <3>12. \A s \in Requests : pc'[s] = "commit" => lock'[target'[s]] = s
      <4> TAKE s \in Requests
      <4> HAVE pc'[s] = "commit"
      <4>1. s # r
        BY <3>8
      <4>2. pc'[s] = pc[s] /\ target'[s] = target[s]
        BY <3>7, <4>1
      <4>3. target[s] \in Users /\ lock[target[s]] = s
        BY <4>2 DEF GuardInv
      <4> QED BY <3>9, <4>1, <4>2, <4>3
    <3>13. \A s \in Requests :
             pc'[s] \in {"write", "commit"} /\ op'[s] = "deactivate" /\ target'[s] \in Admins
               => \E b \in held'[s] : b # target'[s]
      BY <3>7, <3>8 DEF GuardInv
    <3>14. \A s \in Requests :
             pc'[s] = "idle" => held'[s] = {} /\ \A u \in Users : lock'[u] # s
      BY <3>7, <3>8, <3>9 DEF GuardInv
    <3>15. AnAdminRemains'
      BY <3>4 DEF AnAdminRemains
    <3> QED BY <3>1, <3>3, <3>5, <3>10, <3>11, <3>12, <3>13, <3>14, <3>15 DEF GuardInv
  <2>10. ASSUME NEW r \in Requests, Abort(r) PROVE GuardInv'
    BY <2>10, EndPreserves DEF Abort
  <2>11. CASE UNCHANGED vars
    BY <2>11 DEF GuardInv, TypeOK, vars, request, AnAdminRemains, Serving, Empty, Active
  <2> QED BY <2>1, <2>2, <2>3, <2>4, <2>5, <2>6, <2>7, <2>8, <2>9, <2>10, <2>11 DEF Next, Progress
<1> QED BY <1>1, <1>2, PTL DEF Spec

\* Type correctness of the account model.
THEOREM AdminTypeCorrect == Spec => []TypeOK
<1>1. GuardInv => TypeOK
  BY DEF GuardInv
<1> QED BY <1>1, GuardInvariant, PTL

\* F27, ADR-0009: with any number of administrators deactivating each other
\* and instances starting, a workspace keeps an active System Admin.
THEOREM AnAdminRemainsHolds == Spec => []AnAdminRemains
<1>1. GuardInv => AnAdminRemains
  BY DEF GuardInv
<1> QED BY <1>1, GuardInvariant, PTL

\* Bootstrap never touches an account that exists.
THEOREM StartupKeepsAccountsHolds == Spec => StartupKeepsAccounts
<1>1. GuardInv /\ [Next]_vars =>
        [\A u \in Users : row[u] # "absent" /\ boot' # boot => row'[u] = row[u]]_vars
  <2> SUFFICES ASSUME GuardInv, [Next]_vars, NEW u \in Users, row[u] # "absent", boot' # boot
               PROVE  row'[u] = row[u]
    OBVIOUS
  <2>1. PICK i \in Instances : Startup(i) \/ BootAgain(i)
    BY DEF Next, Register, Begin, Progress, ReadTarget, Snapshot, LockRow, Decide, Write, Commit,
       Abort, vars
  <2> QED BY <2>1, AdminAssumption DEF GuardInv, TypeOK, Startup, BootAgain, BootCount, BootInsert, BootCommit,
         BootVerify
<1> QED BY <1>1, GuardInvariant, PTL DEF Spec, StartupKeepsAccounts
=============================================================================
