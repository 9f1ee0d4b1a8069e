------------------------- MODULE MessageSendProofs -------------------------
(***************************************************************************)
(* Proofs about MessageSend for any requests, keys, attachments and bounds. *)
(*                                                                         *)
(* OneRowPerKey is not inductive: that a second row cannot appear depends  *)
(* on where the claim points while a request is between winning it and     *)
(* committing.  ClaimInv is the strengthening: under a reliable key, the   *)
(* request that holds the claim and the row that was written are both what *)
(* the Redis key names, so they are one.  MediaInv does the same for the   *)
(* attachment rows a transaction has locked.                               *)
(***************************************************************************)
EXTENDS MessageSend, FiniteSetTheorems, TLAPS

\* A claim, and what a resolve has read of it, belongs to the same key.
OwnKey ==
  /\ \A k \in Keys : claim[k] # None => KeyOf[claim[k]] = k
  /\ \A r \in Requests : seen[r] # None => KeyOf[seen[r]] = KeyOf[r]

\* Where a request that has written a row can be.
Written ==
  /\ \A r \in rows : pc[r] \in {"publish", "created", "crashed"} \/ r \in unsure
  /\ \A r \in Requests : pc[r] \in {"publish", "created"} => r \in rows
  /\ \A r \in Requests : pc[r] = "replayed" => seen[r] \in rows

\* The claim of a reliable key names its holder and its row.
ClaimNames ==
  \A r \in Requests : Reliable(KeyOf[r]) /\ (r \in rows \/ pc[r] \in Holding)
                        => claim[KeyOf[r]] = r

ClaimInv == OwnKey /\ Written /\ ClaimNames

\* Row locks: taken on unbound attachments the request asked for and its
\* sender uploaded, and held only inside the transaction.
LocksSound ==
  \A m \in Media : lock[m] # None =>
    /\ pc[lock[m]] \in InTransaction
    /\ bound[m] = None
    /\ m \in Wants[lock[m]] \cap OwnedBy[KeyOf[lock[m]]]

\* rowcount = len(media_ids) has been checked by the time of the commit.
CommitReady ==
  \A r \in Requests :
    /\ pc[r] = "bind" => todo[r] \subseteq Wants[r]
    /\ pc[r] = "commit" => \A m \in Wants[r] : lock[m] = r

MediaInv == LocksSound /\ CommitReady /\ MediaWhole

-----------------------------------------------------------------------------
\* The variables keep their types: each is a function over its declared domain
\* and the loop counters never pass the code's bounds.
THEOREM TypeCorrect == Spec => []TypeOK
<1> USE SendAssumption
<1>1. Init => TypeOK
  BY DEF Init, TypeOK, Steps
<1>2. TypeOK /\ [Next]_vars => TypeOK'
  <2> SUFFICES ASSUME TypeOK, [Next]_vars PROVE TypeOK'
    OBVIOUS
  <2> USE DEF TypeOK, redisVars, dbVars, loopVars, Goto, Steps, Resolving,
          Holding, InTransaction, Final
  <2>1. ASSUME NEW r \in Requests, Arrive(r) PROVE TypeOK'
    BY <2>1 DEF Arrive
  <2>2. ASSUME NEW r \in Requests, ResolveGet(r) PROVE TypeOK'
    BY <2>2 DEF ResolveGet, NothingClaimed
  <2>3. ASSUME NEW r \in Requests, ResolveRow(r) PROVE TypeOK'
    BY <2>3 DEF ResolveRow
  <2>4. ASSUME NEW r \in Requests, ResolveProbe(r) PROVE TypeOK'
    BY <2>4 DEF ResolveProbe, NothingClaimed
  <2>5. ASSUME NEW r \in Requests, ResolveLast(r) PROVE TypeOK'
    BY <2>5 DEF ResolveLast
  <2>6. ASSUME NEW r \in Requests, Gate(r) PROVE TypeOK'
    BY <2>6 DEF Gate
  <2>7. ASSUME NEW r \in Requests, ValidateMedia(r) PROVE TypeOK'
    BY <2>7 DEF ValidateMedia
  <2>8. ASSUME NEW r \in Requests, Claim(r) PROVE TypeOK'
    BY <2>8 DEF Claim
  <2>9. ASSUME NEW r \in Requests, NEW m \in Media, BindRow(r, m) PROVE TypeOK'
    BY <2>9 DEF BindRow
  <2>10. ASSUME NEW r \in Requests, BindCheck(r) PROVE TypeOK'
    BY <2>10 DEF BindCheck
  <2>11. ASSUME NEW r \in Requests, BindTimeout(r) PROVE TypeOK'
    BY <2>11 DEF BindTimeout
  <2>12. ASSUME NEW r \in Requests, Commit(r) PROVE TypeOK'
    BY <2>12 DEF Commit, Persist, Unlocked
  <2>13. ASSUME NEW r \in Requests, Rollback(r) PROVE TypeOK'
    BY <2>13 DEF Rollback, Unlocked
  <2>14. ASSUME NEW r \in Requests, Release(r) PROVE TypeOK'
    BY <2>14 DEF Release
  <2>15. ASSUME NEW r \in Requests, Publish(r) PROVE TypeOK'
    BY <2>15 DEF Publish
  <2>16. ASSUME NEW r \in Requests, RedisError(r) PROVE TypeOK'
    BY <2>16 DEF RedisError, Fault
  <2>17. ASSUME NEW r \in Requests, ClaimReplyLost(r) PROVE TypeOK'
    BY <2>17 DEF ClaimReplyLost, Fault
  <2>18. ASSUME NEW r \in Requests, DbError(r) PROVE TypeOK'
    BY <2>18 DEF DbError, Fault
  <2>19. ASSUME NEW r \in Requests, CommitUnsure(r) PROVE TypeOK'
    BY <2>19 DEF CommitUnsure, Persist, Unlocked, Fault
  <2>20. ASSUME NEW r \in Requests, Crash(r) PROVE TypeOK'
    BY <2>20 DEF Crash, Unlocked, Fault
  <2>21. ASSUME NEW k \in Keys, KeyLost(k) PROVE TypeOK'
    BY <2>21 DEF KeyLost, Fault
  <2>22. CASE UNCHANGED vars
    BY <2>22 DEF vars
  <2>23. QED
    BY <2>1, <2>2, <2>3, <2>4, <2>5, <2>6, <2>7, <2>8, <2>9, <2>10, <2>11,
       <2>12, <2>13, <2>14, <2>15, <2>16, <2>17, <2>18, <2>19, <2>20, <2>21,
       <2>22 DEF Next, Step, FaultStep
<1>3. QED
  BY <1>1, <1>2, PTL DEF Spec
\* The strengthened invariant behind OneRowPerKey and AnswersAgree.
THEOREM ClaimInvariant == Spec => []ClaimInv
<1> USE SendAssumption
<1>1. Init => ClaimInv
  BY DEF Init, ClaimInv, OwnKey, Written, ClaimNames, Holding, InTransaction
<1>2. TypeOK /\ TypeOK' /\ ClaimInv /\ [Next]_vars => ClaimInv'
  <2> SUFFICES ASSUME TypeOK, TypeOK', ClaimInv, [Next]_vars PROVE ClaimInv'
    OBVIOUS
  <2> USE DEF TypeOK, ClaimInv, OwnKey, Written, ClaimNames, Reliable,
          redisVars, dbVars, loopVars, Goto, Holding, InTransaction, Final
  <2>1. ASSUME NEW r \in Requests, Arrive(r) PROVE ClaimInv'
    BY <2>1 DEF Arrive
  <2>2. ASSUME NEW r \in Requests, ResolveGet(r) PROVE ClaimInv'
    BY <2>2 DEF ResolveGet, NothingClaimed
  <2>3. ASSUME NEW r \in Requests, ResolveRow(r) PROVE ClaimInv'
    BY <2>3 DEF ResolveRow
  <2>4. ASSUME NEW r \in Requests, ResolveProbe(r) PROVE ClaimInv'
    BY <2>4 DEF ResolveProbe, NothingClaimed
  <2>5. ASSUME NEW r \in Requests, ResolveLast(r) PROVE ClaimInv'
    BY <2>5 DEF ResolveLast
  <2>6. ASSUME NEW r \in Requests, Gate(r) PROVE ClaimInv'
    BY <2>6 DEF Gate
  <2>7. ASSUME NEW r \in Requests, ValidateMedia(r) PROVE ClaimInv'
    BY <2>7 DEF ValidateMedia
  <2>8. ASSUME NEW r \in Requests, Claim(r) PROVE ClaimInv'
    BY <2>8 DEF Claim
  <2>9. ASSUME NEW r \in Requests, NEW m \in Media, BindRow(r, m) PROVE ClaimInv'
    BY <2>9 DEF BindRow
  <2>10. ASSUME NEW r \in Requests, BindCheck(r) PROVE ClaimInv'
    BY <2>10 DEF BindCheck
  <2>11. ASSUME NEW r \in Requests, BindTimeout(r) PROVE ClaimInv'
    BY <2>11 DEF BindTimeout
  <2>12. ASSUME NEW r \in Requests, Commit(r) PROVE ClaimInv'
    BY <2>12 DEF Commit, Persist, Unlocked
  <2>13. ASSUME NEW r \in Requests, Rollback(r) PROVE ClaimInv'
    BY <2>13 DEF Rollback, Unlocked
  <2>14. ASSUME NEW r \in Requests, Release(r) PROVE ClaimInv'
    BY <2>14 DEF Release
  <2>15. ASSUME NEW r \in Requests, Publish(r) PROVE ClaimInv'
    BY <2>15 DEF Publish
  <2>16. ASSUME NEW r \in Requests, RedisError(r) PROVE ClaimInv'
    BY <2>16 DEF RedisError
  <2>17. ASSUME NEW r \in Requests, ClaimReplyLost(r) PROVE ClaimInv'
    BY <2>17 DEF ClaimReplyLost
  <2>18. ASSUME NEW r \in Requests, DbError(r) PROVE ClaimInv'
    BY <2>18 DEF DbError
  <2>19. ASSUME NEW r \in Requests, CommitUnsure(r) PROVE ClaimInv'
    BY <2>19 DEF CommitUnsure, Persist, Unlocked
  <2>20. ASSUME NEW r \in Requests, Crash(r) PROVE ClaimInv'
    BY <2>20 DEF Crash, Unlocked
  <2>21. ASSUME NEW k \in Keys, KeyLost(k) PROVE ClaimInv'
    BY <2>21 DEF KeyLost
  <2>22. CASE UNCHANGED vars
    BY <2>22 DEF vars
  <2>23. QED
    BY <2>1, <2>2, <2>3, <2>4, <2>5, <2>6, <2>7, <2>8, <2>9, <2>10, <2>11, <2>12, <2>13, <2>14, <2>15, <2>16, <2>17, <2>18, <2>19, <2>20, <2>21, <2>22 DEF Next, Step, FaultStep
<1>3. QED
  BY <1>1, <1>2, TypeCorrect, PTL DEF Spec
\* F40 for any number of requests, keys and faults: two committed rows never
\* share a reliable key, because the claim would have to name both.
THEOREM OneRowPerKeyHolds == Spec => []OneRowPerKey
<1>1. TypeOK /\ ClaimInv => OneRowPerKey
  BY DEF TypeOK, ClaimInv, ClaimNames, OneRowPerKey
<1>2. QED
  BY <1>1, TypeCorrect, ClaimInvariant, PTL

\* Every 200 or 201 names a durable message of the caller's key, and all of a
\* reliable key's answers name the same message.
THEOREM AnswersAgreeHolds == Spec => []AnswersAgree
<1> USE SendAssumption
<1>1. TypeOK /\ ClaimInv => AnswersAgree
  <2> SUFFICES ASSUME TypeOK, ClaimInv, NEW r \in Requests, Answered(r)
               PROVE  /\ Answer(r) \in rows
                      /\ KeyOf[Answer(r)] = KeyOf[r]
                      /\ \A q \in Requests :
                           Answered(q) /\ KeyOf[q] = KeyOf[r] /\ Reliable(KeyOf[r])
                             => Answer(q) = Answer(r)
    BY DEF AnswersAgree
  <2>1. \A q \in Requests : Answered(q) => Answer(q) \in rows /\ KeyOf[Answer(q)] = KeyOf[q]
    BY DEF TypeOK, ClaimInv, OwnKey, Written, Answered, Answer
  <2>2. OneRowPerKey
    BY DEF TypeOK, ClaimInv, ClaimNames, OneRowPerKey
  <2>3. QED
    BY <2>1, <2>2 DEF OneRowPerKey
<1>2. QED
  BY <1>1, TypeCorrect, ClaimInvariant, PTL

\* Persist-then-publish for any number of requests: a published message is
\* durable, because publishing follows the commit and no row goes away.
THEOREM PublishedAreDurableHolds == Spec => []PublishedAreDurable
<1>1. Init => PublishedAreDurable
  BY DEF Init, PublishedAreDurable
<1>2. ClaimInv /\ PublishedAreDurable /\ [Next]_vars => PublishedAreDurable'
  <2> SUFFICES ASSUME ClaimInv, PublishedAreDurable, [Next]_vars PROVE PublishedAreDurable'
    OBVIOUS
  <2> USE DEF PublishedAreDurable, dbVars
  <2>1. ASSUME NEW r \in Requests, Publish(r) PROVE PublishedAreDurable'
    BY <2>1 DEF Publish, ClaimInv, Written
  <2>2. CASE rows \subseteq rows' /\ UNCHANGED published
    BY <2>2
  <2>3. ASSUME NEW r \in Requests, Step(r) PROVE PublishedAreDurable'
    BY <2>1, <2>2, <2>3 DEF Step, ResolveGet, ResolveRow, ResolveProbe, ResolveLast, Gate,
       ValidateMedia, Claim, BindRow, BindCheck, BindTimeout, Commit, Persist, Rollback, Release
  <2>4. ASSUME NEW r \in Requests, FaultStep(r) \/ Arrive(r) PROVE PublishedAreDurable'
    BY <2>2, <2>4 DEF FaultStep, Arrive, RedisError, ClaimReplyLost, DbError, CommitUnsure,
       Persist, Crash
  <2>5. QED
    BY <2>2, <2>3, <2>4 DEF Next, KeyLost, vars
<1>3. QED
  BY <1>1, <1>2, ClaimInvariant, PTL DEF Spec

\* Claims whose request neither holds them nor has written the row they promise.
Stray == {k \in Keys : claim[k] # None /\ claim[k] \notin rows /\ pc[claim[k]] \notin Holding}
StraysPaid == IsFiniteSet(Stray) /\ Cardinality(Stray) <= faults

\* A step that adds no stray claim, or one for a fault, keeps the account.
LEMMA StraysCounted ==
  ASSUME StraysPaid, faults \in Nat, NEW k,
         \/ Stray' \subseteq Stray /\ faults' \in {faults, faults + 1}
         \/ Stray' \subseteq Stray \cup {k} /\ faults' = faults + 1
  PROVE  StraysPaid'
<1> DEFINE More == Stray \cup {k}
<1>1. IsFiniteSet(Stray) /\ Cardinality(Stray) <= faults /\ Cardinality(Stray) \in Nat
  BY FS_CardinalityType DEF StraysPaid
<1>2. IsFiniteSet(More) /\ Cardinality(More) <= Cardinality(Stray) + 1 /\ Cardinality(More) \in Nat
  <2>1. /\ IsFiniteSet(More)
        /\ Cardinality(More) = IF k \in Stray THEN Cardinality(Stray) ELSE Cardinality(Stray) + 1
    BY <1>1, FS_AddElement
  <2> QED BY <1>1, <2>1
<1>3. CASE Stray' \subseteq Stray /\ faults' \in {faults, faults + 1}
  <2>1. IsFiniteSet(Stray') /\ Cardinality(Stray') <= Cardinality(Stray) /\ Cardinality(Stray') \in Nat
    BY <1>1, <1>3, FS_Subset, FS_CardinalityType
  <2> QED BY <1>1, <1>3, <2>1 DEF StraysPaid
<1>4. CASE Stray' \subseteq More /\ faults' = faults + 1
  <2> HIDE DEF More
  <2>1. IsFiniteSet(Stray') /\ Cardinality(Stray') <= Cardinality(More) /\ Cardinality(Stray') \in Nat
    BY <1>2, <1>4, FS_Subset, FS_CardinalityType
  <2> QED BY <1>1, <1>2, <1>4, <2>1 DEF StraysPaid
<1> QED BY <1>3, <1>4

\* Each stray claim has cost a fault: a lost reply to the SET, a failed DEL, or a
\* crash while the claim was held.
THEOREM StrayInvariant == Spec => []StraysPaid
<1> USE SendAssumption
<1>1. Init => StraysPaid
  <2> SUFFICES ASSUME Init PROVE StraysPaid
    OBVIOUS
  <2>1. Stray = {}
    BY DEF Init, Stray
  <2> QED BY <2>1, FS_EmptySet DEF StraysPaid, Init
<1>2. TypeOK /\ ClaimInv /\ StraysPaid /\ [Next]_vars => StraysPaid'
  <2> SUFFICES ASSUME TypeOK, ClaimInv, StraysPaid, [Next]_vars PROVE StraysPaid'
    OBVIOUS
  <2> USE DEF TypeOK, ClaimInv, OwnKey, redisVars, dbVars, loopVars, Goto
  <2>0. faults \in Nat
    OBVIOUS
  \* A request that does not hold a claim moves on, holding none.
  <2> DEFINE Free(r) == /\ pc[r] \notin Holding
                        /\ \A q \in Requests : q # r => pc'[q] = pc[q]
                        /\ UNCHANGED <<claim, rows>>
  <2>1. ASSUME NEW r \in Requests, Free(r) PROVE Stray' \subseteq Stray
    BY <2>1 DEF Stray
  <2>2. ASSUME NEW r \in Requests,
               \/ Arrive(r) \/ ResolveGet(r) \/ ResolveRow(r) \/ ResolveProbe(r)
               \/ ResolveLast(r) \/ Gate(r) \/ ValidateMedia(r) \/ Publish(r)
        PROVE  Free(r) /\ faults' = faults
    BY <2>2 DEF Arrive, ResolveGet, ResolveRow, ResolveProbe, ResolveLast, Gate,
       ValidateMedia, Publish, NothingClaimed, Holding, InTransaction
  \* A holder stays one, or has written its row.
  <2>3. ASSUME NEW r \in Requests, UNCHANGED claim, rows \subseteq rows',
               \A q \in Requests : q # r => pc'[q] = pc[q],
               pc'[r] \in Holding \/ r \in rows'
        PROVE  Stray' \subseteq Stray
    BY <2>3 DEF Stray
  <2>4. ASSUME NEW r \in Requests, Claim(r) PROVE Stray' \subseteq Stray /\ faults' = faults
    BY <2>4 DEF Claim, Stray, Holding, InTransaction
  <2>5. ASSUME NEW r \in Requests,
               \/ \E m \in Media : BindRow(r, m)
               \/ BindCheck(r) \/ BindTimeout(r) \/ Commit(r) \/ Rollback(r)
        PROVE  Stray' \subseteq Stray /\ faults' = faults
    <3>1. /\ UNCHANGED <<claim, faults>> /\ rows \subseteq rows'
          /\ \A q \in Requests : q # r => pc'[q] = pc[q]
          /\ pc'[r] \in Holding \/ r \in rows'
      BY <2>5 DEF BindRow, BindCheck, BindTimeout, Commit, Persist, Rollback, Holding, InTransaction
    <3>2. QED
      BY <2>3, <3>1
  <2>6. ASSUME NEW r \in Requests, Release(r) PROVE Stray' \subseteq Stray /\ faults' = faults
    BY <2>6 DEF Release, Stray, Holding, InTransaction
  \* A fault strands the claims that name its request, which are of one key.
  <2>7. ASSUME NEW r \in Requests, rows \subseteq rows',
               \A q \in Requests : q # r => pc'[q] = pc[q],
               \A k \in Keys : claim'[k] # claim[k] => claim'[k] = r /\ k = KeyOf[r]
        PROVE  Stray' \subseteq Stray \cup {KeyOf[r]}
    <3> SUFFICES ASSUME NEW k \in Keys, k \in Stray', k # KeyOf[r] PROVE k \in Stray
      BY DEF Stray
    <3>1. claim'[k] = claim[k] /\ claim[k] \in Requests /\ KeyOf[claim[k]] = k
      BY <2>7 DEF Stray
    <3>2. claim[k] # r /\ pc'[claim[k]] = pc[claim[k]]
      BY <2>7, <3>1
    <3>3. QED
      BY <2>7, <3>1, <3>2 DEF Stray
  <2>8. ASSUME NEW r \in Requests, FaultStep(r)
        PROVE  Stray' \subseteq Stray \cup {KeyOf[r]} /\ faults' = faults + 1
    <3>1. /\ rows \subseteq rows' /\ faults' = faults + 1
          /\ \A q \in Requests : q # r => pc'[q] = pc[q]
      BY <2>8 DEF FaultStep, Fault, RedisError, ClaimReplyLost, DbError, CommitUnsure,
         Persist, Crash
    <3>2. \A k \in Keys : claim'[k] # claim[k] => claim'[k] = r /\ k = KeyOf[r]
      BY <2>8 DEF FaultStep, RedisError, ClaimReplyLost, DbError, CommitUnsure, Crash
    <3>3. QED
      BY <2>7, <3>1, <3>2
  <2>9. ASSUME NEW k \in Keys, KeyLost(k) PROVE Stray' \subseteq Stray /\ faults' = faults + 1
    BY <2>9 DEF KeyLost, Fault, Stray
  <2>10. CASE UNCHANGED vars
    <3>1. Stray' \subseteq Stray /\ faults' = faults
      BY <2>10 DEF vars, Stray
    <3>2. QED
      BY <2>0, <3>1, StraysCounted
  <2>11. ASSUME NEW r \in Requests, Arrive(r) \/ Step(r)
         PROVE  Stray' \subseteq Stray /\ faults' = faults
    <3> HIDE DEF Free, TypeOK, ClaimInv, Goto
    <3>1. QED
      BY <2>1, <2>2, <2>4, <2>5, <2>6, <2>11 DEF Step
  <2>12. ASSUME NEW r \in Requests, Arrive(r) \/ Step(r) PROVE StraysPaid'
    BY <2>0, <2>11, <2>12, StraysCounted
  <2>13. ASSUME NEW r \in Requests, FaultStep(r) PROVE StraysPaid'
    BY <2>0, <2>8, <2>13, StraysCounted
  <2>14. ASSUME NEW k \in Keys, KeyLost(k) PROVE StraysPaid'
    BY <2>0, <2>9, <2>14, StraysCounted
  <2>15. QED
    BY <2>10, <2>12, <2>13, <2>14 DEF Next
<1>3. QED
  BY <1>1, <1>2, TypeCorrect, ClaimInvariant, PTL DEF Spec

\* Module docstring, point 4, for any number of requests: claims that block their
\* key for good are at most as many as the faults so far, so without a fault
\* there is none.
THEOREM AbandonedNeedsFaultHolds == Spec => []AbandonedNeedsFault
<1> USE SendAssumption
<1>1. TypeOK /\ StraysPaid => AbandonedNeedsFault
  <2> SUFFICES ASSUME TypeOK, StraysPaid PROVE AbandonedNeedsFault
    OBVIOUS
  <2>1. Abandoned \subseteq Stray
    BY DEF Abandoned, Stray, Final, Holding, InTransaction
  <2>2. /\ Cardinality(Abandoned) <= Cardinality(Stray) /\ Cardinality(Stray) <= faults
        /\ Cardinality(Abandoned) \in Nat /\ Cardinality(Stray) \in Nat
    BY <2>1, FS_Subset, FS_CardinalityType DEF StraysPaid
  <2>3. QED
    BY <2>2 DEF AbandonedNeedsFault, TypeOK
<1>2. QED
  BY <1>1, TypeCorrect, StrayInvariant, PTL

\* The strengthened invariant behind MediaWhole.
THEOREM MediaInvariant == Spec => []MediaInv
<1> USE SendAssumption
<1>1. Init => MediaInv
  BY DEF Init, MediaInv, LocksSound, CommitReady, MediaWhole
<1>2. TypeOK /\ TypeOK' /\ MediaInv /\ [Next]_vars => MediaInv'
  <2> SUFFICES ASSUME TypeOK, TypeOK', MediaInv, [Next]_vars PROVE MediaInv'
    OBVIOUS
  \* Steps outside the transaction only move the program counter.
  <2> DEFINE Outside(r) == /\ pc[r] \notin InTransaction
                           /\ pc' \in {[pc EXCEPT ![r] = s] : s \in Steps \ InTransaction}
                           /\ UNCHANGED <<rows, bound, lock, todo>>
  <2>0. ASSUME NEW r \in Requests, Outside(r) PROVE MediaInv'
    <3>1. \A q \in Requests : /\ pc[q] \in InTransaction => pc'[q] = pc[q]
                              /\ pc'[q] \in InTransaction => pc'[q] = pc[q]
      BY <2>0 DEF TypeOK
    <3>2. LocksSound'
      BY <2>0, <3>1 DEF TypeOK, MediaInv, LocksSound
    <3>3. CommitReady'
      BY <2>0, <3>1 DEF TypeOK, MediaInv, CommitReady, InTransaction
    <3>4. MediaWhole'
      BY <2>0 DEF MediaInv, MediaWhole
    <3>5. QED
      BY <3>2, <3>3, <3>4 DEF MediaInv
  <2>a. ASSUME NEW r \in Requests, ResolveGet(r) PROVE Outside(r)
    BY <2>a DEF ResolveGet, NothingClaimed, TypeOK, redisVars, dbVars, Goto,
           Steps, Resolving, InTransaction
  <2>b. ASSUME NEW r \in Requests, ResolveProbe(r) PROVE Outside(r)
    <3>1. pc[r] = "backoff" /\ UNCHANGED <<rows, bound, lock, todo>>
      BY <2>b DEF ResolveProbe, dbVars
    <3>2. CASE UNCHANGED pc
      <4>1. pc' = [pc EXCEPT ![r] = "backoff"]
        BY <3>1, <3>2 DEF TypeOK
      <4>2. QED
        BY <3>1, <4>1 DEF Steps, Resolving, InTransaction
    <3>3. CASE pc' # pc
      BY <2>b, <3>1, <3>3 DEF ResolveProbe, NothingClaimed, Goto, Steps,
             Resolving, Final, InTransaction
    <3>4. QED
      BY <3>2, <3>3
  <2> HIDE DEF Outside
  <2> USE DEF TypeOK, MediaInv, LocksSound, CommitReady, MediaWhole,
          redisVars, dbVars, loopVars, Goto, InTransaction, Final
  <2>1. ASSUME NEW r \in Requests, Arrive(r) PROVE MediaInv'
    BY <2>1 DEF Arrive
  <2>2. ASSUME NEW r \in Requests, ResolveGet(r) PROVE MediaInv'
    BY <2>0, <2>a, <2>2
  <2>3. ASSUME NEW r \in Requests, ResolveRow(r) PROVE MediaInv'
    BY <2>3 DEF ResolveRow
  <2>4. ASSUME NEW r \in Requests, ResolveProbe(r) PROVE MediaInv'
    BY <2>0, <2>b, <2>4
  <2>5. ASSUME NEW r \in Requests, ResolveLast(r) PROVE MediaInv'
    BY <2>5 DEF ResolveLast
  <2>6. ASSUME NEW r \in Requests, Gate(r) PROVE MediaInv'
    BY <2>6 DEF Gate
  <2>7. ASSUME NEW r \in Requests, ValidateMedia(r) PROVE MediaInv'
    BY <2>7 DEF ValidateMedia
  <2>8. ASSUME NEW r \in Requests, Claim(r) PROVE MediaInv'
    BY <2>8 DEF Claim
  <2>9. ASSUME NEW r \in Requests, NEW m \in Media, BindRow(r, m) PROVE MediaInv'
    BY <2>9 DEF BindRow
  <2>10. ASSUME NEW r \in Requests, BindCheck(r) PROVE MediaInv'
    BY <2>10 DEF BindCheck
  <2>11. ASSUME NEW r \in Requests, BindTimeout(r) PROVE MediaInv'
    BY <2>11 DEF BindTimeout
  <2>12. ASSUME NEW r \in Requests, Commit(r) PROVE MediaInv'
    BY <2>12 DEF Commit, Persist, Unlocked
  <2>13. ASSUME NEW r \in Requests, Rollback(r) PROVE MediaInv'
    BY <2>13 DEF Rollback, Unlocked
  <2>14. ASSUME NEW r \in Requests, Release(r) PROVE MediaInv'
    BY <2>14 DEF Release
  <2>15. ASSUME NEW r \in Requests, Publish(r) PROVE MediaInv'
    BY <2>15 DEF Publish
  <2>16. ASSUME NEW r \in Requests, RedisError(r) PROVE MediaInv'
    BY <2>16 DEF RedisError
  <2>17. ASSUME NEW r \in Requests, ClaimReplyLost(r) PROVE MediaInv'
    BY <2>17 DEF ClaimReplyLost
  <2>18. ASSUME NEW r \in Requests, DbError(r) PROVE MediaInv'
    BY <2>18 DEF DbError
  <2>19. ASSUME NEW r \in Requests, CommitUnsure(r) PROVE MediaInv'
    BY <2>19 DEF CommitUnsure, Persist, Unlocked
  <2>20. ASSUME NEW r \in Requests, Crash(r) PROVE MediaInv'
    BY <2>20 DEF Crash, Unlocked
  <2>21. ASSUME NEW k \in Keys, KeyLost(k) PROVE MediaInv'
    BY <2>21 DEF KeyLost
  <2>22. CASE UNCHANGED vars
    BY <2>22 DEF vars
  <2>23. QED
    BY <2>1, <2>2, <2>3, <2>4, <2>5, <2>6, <2>7, <2>8, <2>9, <2>10, <2>11,
       <2>12, <2>13, <2>14, <2>15, <2>16, <2>17, <2>18, <2>19, <2>20, <2>21,
       <2>22 DEF Next, Step, FaultStep
<1>3. QED
  BY <1>1, <1>2, TypeCorrect, PTL DEF Spec

\* F39 for any requests and attachments: no partial and no double binding.
THEOREM MediaWholeHolds == Spec => []MediaWhole
<1>1. MediaInv => MediaWhole
  BY DEF MediaInv
<1>2. QED
  BY <1>1, MediaInvariant, PTL

-----------------------------------------------------------------------------
(***************************************************************************)
(* The refinement.  A step of a request is one of four things to a caller: *)
(* invisible, the commit, the answer, or (a fault) the end of the promise. *)
(***************************************************************************)
Given == [r \in Requests |-> IF Answered(r) THEN Answer(r) ELSE None]
Broken == {k \in Keys : ~Reliable(k)}

\* Request r moves without committing, answering or losing a key.
Invisible(r) ==
  /\ ~Answered(r) /\ ~Answered(r)'
  /\ \A q \in Requests \ {r} : pc'[q] = pc[q] /\ seen'[q] = seen[q]
  /\ UNCHANGED <<rows, lostKeys, unsure>>

\* Such a step is a stutter of ExactlyOnce.
LEMMA InvisibleStutters ==
  ASSUME NEW r \in Requests, Invisible(r)
  PROVE  UNCHANGED Once!vars
<1>1. Given' = Given
  BY DEF Given, Invisible, Answered, Answer
<1>2. Broken' = Broken
  BY DEF Broken, Invisible, Reliable
<1>3. QED
  BY <1>1, <1>2 DEF Invisible, Once!vars, Given, Broken

\* The last step of a send, an ExactlyOnce!Tell: it names a row of its key.
LEMMA AnswerTells ==
  ASSUME NEW r \in Requests, NEW m \in rows, rows \subseteq Requests,
         ~Answered(r), Answered(r)', Answer(r)' = m, KeyOf[m] = KeyOf[r],
         \A q \in Requests \ {r} : pc'[q] = pc[q] /\ seen'[q] = seen[q],
         UNCHANGED <<rows, lostKeys, unsure>>
  PROVE  Once!Next
<1>1. Given[r] = None /\ Given' = [Given EXCEPT ![r] = m]
  BY DEF Given, Answered, Answer
<1>2. Broken' = Broken
  BY DEF Broken, Reliable
<1>3. Once!Tell(r, m)
  BY <1>1, <1>2 DEF Once!Tell, Given, Broken
<1>4. QED
  BY <1>3 DEF Once!Next

\* A commit, an ExactlyOnce!Store, whether or not it is reported: the claim of
\* a reliable key names both r and any row of that key.
LEMMA CommitStores ==
  ASSUME TypeOK, ClaimInv, NEW r \in Requests, pc[r] = "commit",
         rows' = rows \cup {r}, unsure' \in {unsure, unsure \cup {r}},
         pc' = [pc EXCEPT ![r] = "publish"] \/ pc' = [pc EXCEPT ![r] = "rollback"],
         UNCHANGED <<seen, lostKeys>>
  PROVE  Once!Next
<1>1. \A q \in rows : KeyOf[q] = KeyOf[r] => KeyOf[r] \in Broken \/ q = r
  BY SendAssumption DEF TypeOK, ClaimInv, ClaimNames, Holding, InTransaction, Broken
<1>2. r \in rows => KeyOf[r] \in Broken
  BY SendAssumption DEF TypeOK, ClaimInv, Written, Broken, Reliable
<1>3. Given' = Given
  BY DEF TypeOK, Given, Answered, Answer
<1>4. Broken' \in {Broken, Broken \cup {KeyOf[r]}}
  BY SendAssumption DEF TypeOK, Broken, Reliable
<1>5. Once!Store(r)
  BY <1>1, <1>2, <1>3, <1>4 DEF Once!Store, Given, Broken
<1>6. QED
  BY <1>5 DEF Once!Next

\* Losing a claimed key, an ExactlyOnce!Break.
LEMMA LossBreaks ==
  ASSUME NEW k \in Keys, KeyLost(k)
  PROVE  Once!Next
<1>1. Given' = Given
  BY DEF KeyLost, loopVars, Given, Answered, Answer
<1>2. Broken' = Broken \cup {k}
  BY DEF KeyLost, dbVars, Broken, Reliable
<1>3. Once!Break(k)
  BY <1>1, <1>2 DEF Once!Break, KeyLost, dbVars, Given, Broken
<1>4. QED
  BY <1>3 DEF Once!Next

\* F40 as a refinement: for any requests, keys and faults, every behaviour of
\* the code's Redis and Postgres steps is a behaviour of ExactlyOnce.
THEOREM StoresOnceHolds == Spec => StoresOnce
<1> USE SendAssumption
<1>1. Init => Once!Init
  BY DEF Init, Once!Init, Answered, Reliable
<1>2. TypeOK /\ TypeOK' /\ ClaimInv /\ ClaimInv' /\ [Next]_vars
        => [Once!Next]_Once!vars
  <2> SUFFICES ASSUME TypeOK, TypeOK', ClaimInv, ClaimInv', [Next]_vars
               PROVE  Once!Next \/ UNCHANGED Once!vars
    OBVIOUS
  <2> USE DEF redisVars, dbVars, loopVars, Goto
  <2>1. ASSUME NEW r \in Requests, Arrive(r) PROVE Invisible(r)
    BY <2>1 DEF Arrive, TypeOK, Invisible, Answered, Final
  <2>2. ASSUME NEW r \in Requests, ResolveGet(r) PROVE Invisible(r)
    BY <2>2 DEF ResolveGet, NothingClaimed, TypeOK, Invisible, Answered, Final
  <2>3. ASSUME NEW r \in Requests, ResolveProbe(r) PROVE Invisible(r)
    BY <2>3 DEF ResolveProbe, NothingClaimed, TypeOK, Invisible, Answered, Final
  <2>4. ASSUME NEW r \in Requests, Gate(r) PROVE Invisible(r)
    BY <2>4 DEF Gate, TypeOK, Invisible, Answered, Final
  <2>5. ASSUME NEW r \in Requests, ValidateMedia(r) PROVE Invisible(r)
    BY <2>5 DEF ValidateMedia, TypeOK, Invisible, Answered, Final
  <2>6. ASSUME NEW r \in Requests, Claim(r) PROVE Invisible(r)
    BY <2>6 DEF Claim, TypeOK, Invisible, Answered, Final
  <2>7. ASSUME NEW r \in Requests, BindCheck(r) PROVE Invisible(r)
    BY <2>7 DEF BindCheck, TypeOK, Invisible, Answered, Final
  <2>8. ASSUME NEW r \in Requests, BindTimeout(r) PROVE Invisible(r)
    BY <2>8 DEF BindTimeout, TypeOK, Invisible, Answered, Final
  <2>9. ASSUME NEW r \in Requests, Rollback(r) PROVE Invisible(r)
    BY <2>9 DEF Rollback, TypeOK, Invisible, Answered, Final
  <2>10. ASSUME NEW r \in Requests, Release(r) PROVE Invisible(r)
    BY <2>10 DEF Release, TypeOK, Invisible, Answered, Final
  <2>11. ASSUME NEW r \in Requests, RedisError(r) PROVE Invisible(r)
    BY <2>11 DEF RedisError, TypeOK, Invisible, Answered, Final
  <2>12. ASSUME NEW r \in Requests, ClaimReplyLost(r) PROVE Invisible(r)
    BY <2>12 DEF ClaimReplyLost, TypeOK, Invisible, Answered, Final
  <2>13. ASSUME NEW r \in Requests, DbError(r) PROVE Invisible(r)
    BY <2>13 DEF DbError, TypeOK, Invisible, Answered, Final
  <2>14. ASSUME NEW r \in Requests, Crash(r) PROVE Invisible(r)
    BY <2>14 DEF Crash, TypeOK, Invisible, Answered, Final
  <2>15. ASSUME NEW r \in Requests, NEW m \in Media, BindRow(r, m)
         PROVE  Invisible(r)
    BY <2>15 DEF BindRow, Invisible, Answered
  <2>16. ASSUME NEW r \in Requests, ResolveRow(r)
         PROVE  Once!Next \/ Invisible(r)
    <3>1. CASE seen[r] \in rows
      <4>1. KeyOf[seen[r]] = KeyOf[r] /\ rows \subseteq Requests
        BY <3>1 DEF TypeOK, ClaimInv, OwnKey
      <4>2. /\ ~Answered(r) /\ Answered(r)' /\ Answer(r)' = seen[r]
            /\ \A q \in Requests \ {r} : pc'[q] = pc[q] /\ seen'[q] = seen[q]
            /\ UNCHANGED <<rows, lostKeys, unsure>>
        BY <2>16, <3>1 DEF ResolveRow, TypeOK, Answered, Answer
      <4>3. QED
        BY <3>1, <4>1, <4>2, AnswerTells
    <3>2. CASE seen[r] \notin rows
      BY <2>16, <3>2 DEF ResolveRow, TypeOK, Invisible, Answered
    <3>3. QED
      BY <3>1, <3>2
  <2>17. ASSUME NEW r \in Requests, ResolveLast(r)
         PROVE  Once!Next \/ Invisible(r)
    <3>1. CASE seen[r] \in rows
      <4>1. KeyOf[seen[r]] = KeyOf[r] /\ rows \subseteq Requests
        BY <3>1 DEF TypeOK, ClaimInv, OwnKey
      <4>2. /\ ~Answered(r) /\ Answered(r)' /\ Answer(r)' = seen[r]
            /\ \A q \in Requests \ {r} : pc'[q] = pc[q] /\ seen'[q] = seen[q]
            /\ UNCHANGED <<rows, lostKeys, unsure>>
        BY <2>17, <3>1 DEF ResolveLast, TypeOK, Answered, Answer
      <4>3. QED
        BY <3>1, <4>1, <4>2, AnswerTells
    <3>2. CASE seen[r] \notin rows
      BY <2>17, <3>2 DEF ResolveLast, TypeOK, Invisible, Answered
    <3>3. QED
      BY <3>1, <3>2
  <2>18. ASSUME NEW r \in Requests, Publish(r) PROVE Once!Next
    <3>1. r \in rows /\ rows \subseteq Requests
      BY <2>18 DEF Publish, TypeOK, ClaimInv, Written
    <3>2. /\ ~Answered(r) /\ Answered(r)' /\ Answer(r)' = r
          /\ \A q \in Requests \ {r} : pc'[q] = pc[q] /\ seen'[q] = seen[q]
          /\ UNCHANGED <<rows, lostKeys, unsure>>
      BY <2>18 DEF Publish, TypeOK, Answered, Answer
    <3>3. QED
      BY <3>1, <3>2, AnswerTells
  <2>19. ASSUME NEW r \in Requests, Commit(r) PROVE Once!Next
    BY <2>19, CommitStores DEF Commit, Persist
  <2>20. ASSUME NEW r \in Requests, CommitUnsure(r) PROVE Once!Next
    BY <2>20, CommitStores DEF CommitUnsure, Persist
  <2>21. ASSUME NEW k \in Keys, KeyLost(k) PROVE Once!Next
    BY <2>21, LossBreaks
  <2>22. CASE UNCHANGED vars
    BY <2>22 DEF vars, Once!vars, Answered, Answer, Reliable
  <2>23. QED
    BY <2>1, <2>2, <2>3, <2>4, <2>5, <2>6, <2>7, <2>8, <2>9, <2>10, <2>11,
       <2>12, <2>13, <2>14, <2>15, <2>16, <2>17, <2>18, <2>19, <2>20, <2>21,
       <2>22, InvisibleStutters DEF Next, Step, FaultStep
<1>3. QED
  BY <1>1, <1>2, TypeCorrect, ClaimInvariant, PTL DEF Spec, StoresOnce, Once!Spec
=============================================================================
