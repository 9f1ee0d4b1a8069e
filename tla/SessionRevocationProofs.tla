---------------------- MODULE SessionRevocationProofs ----------------------
(***************************************************************************)
(* Proofs about SessionRevocation for any users, sessions and number of    *)
(* concurrent requests.  The properties rest on SessionInv: every verdict  *)
(* on its way through the check, in the cache or in a worker's hands, is   *)
(* about a session whose login has committed, and a login is alone with    *)
(* the session it creates.                                                 *)
(***************************************************************************)
EXTENDS SessionRevocation, TLAPS

Committed(s) == sess[s] \in {"live", "revoked"}

\* Which route a worker can be in at each step, and with which arguments.
RouteOK ==
  \A w \in Workers :
    /\ pc[w] = "idle" => op[w] = "none" /\ w \notin shut /\ sid[w] = None
    /\ pc[w] \in Checking \cup {"accepted", "revoke"} => op[w] \in {"use", "revoke", "change"}
    /\ pc[w] \in {"refreshUser", "refreshWrite", "refreshed"} => op[w] = "refresh"
    /\ pc[w] \in {"insert", "teardown"} => op[w] = "login" /\ sid[w] \in Sessions
    /\ pc[w] \in {"select", "sweepCommit"} => op[w] \in Sweepers
    /\ op[w] \in Authenticated => sid[w] \in Sessions /\ target[w] = OwnerOf[sid[w]]
    /\ op[w] \in {"reset", "deactivate"} => target[w] \in Users

\* Every positive verdict is about a committed session.
VerdictsOK ==
  /\ \A s \in Sessions : cache[s] = "active" => Committed(s)
  /\ \A w \in Workers : /\ op[w] \in Authenticated
                         /\ pc[w] \in Authorised \cup {"fillActive", "user", "refreshUser"}
                         => Committed(sid[w])
  /\ \A w \in Workers : pc[w] = "sweepCommit" => \A s \in sweep[w] : Committed(s)

\* A login owns the row it inserts until it commits.
LoginsOK ==
  /\ \A w \in Workers : pc[w] = "insert" => sess[sid[w]] = "absent"
  /\ \A w \in Workers : pc[w] = "teardown" => sess[sid[w]] = "flushed"
  /\ \A w, v \in Workers : /\ pc[w] \in {"insert", "teardown"}
                            /\ pc[v] \in {"insert", "teardown"}
                            /\ sid[w] = sid[v]
                            => w = v

\* A request that began while its user was inactive has not been let through,
\* and the user is still inactive.
ShutOK ==
  \A w \in shut : op[w] \in Authenticated =>
    /\ pc[w] \notin Authorised
    /\ ~active[target[w]]

SessionInv == RouteOK /\ VerdictsOK /\ LoginsOK /\ ShutOK

-----------------------------------------------------------------------------
\* The variables keep their types.
THEOREM SessionTypeCorrect == Spec => []TypeOK
<1> USE SessionAssumption
<1>1. Init => TypeOK
  BY DEF Init, TypeOK, Steps
<1>2. TypeOK /\ [Next]_vars => TypeOK'
  <2> SUFFICES ASSUME TypeOK, [Next]_vars PROVE TypeOK'
    OBVIOUS
  <2> USE DEF TypeOK, dbVars, history, Goto, Steps, Checking, Sweeping, Answered,
          Authenticated
  <2>1. ASSUME NEW w \in Workers, Done(w) PROVE TypeOK'
    BY <2>1 DEF Done
  <2>2. ASSUME NEW w \in Workers, CacheGet(w) PROVE TypeOK'
    BY <2>2 DEF CacheGet
  <2>3. ASSUME NEW w \in Workers, DbRead(w) PROVE TypeOK'
    BY <2>3 DEF DbRead
  <2>4. ASSUME NEW w \in Workers, Fill(w) PROVE TypeOK'
    BY <2>4 DEF Fill
  <2>5. ASSUME NEW w \in Workers, UserCheck(w) PROVE TypeOK'
    BY <2>5 DEF UserCheck
  <2>6. ASSUME NEW w \in Workers, Revoke(w) PROVE TypeOK'
    BY <2>6 DEF Revoke
  <2>7. ASSUME NEW w \in Workers, SweepSelect(w) PROVE TypeOK'
    BY <2>7 DEF SweepSelect, Mine
  <2>8. ASSUME NEW w \in Workers, SweepCommit(w) PROVE TypeOK'
    BY <2>8 DEF SweepCommit, Mine
  <2>9. ASSUME NEW w \in Workers, NEW s \in Sessions, Invalidate(w, s) PROVE TypeOK'
    BY <2>9 DEF Invalidate
  <2>10. ASSUME NEW w \in Workers, Invalidated(w) PROVE TypeOK'
    BY <2>10 DEF Invalidated
  <2>11. ASSUME NEW w \in Workers, LoginInsert(w) PROVE TypeOK'
    BY <2>11 DEF LoginInsert
  <2>12. ASSUME NEW w \in Workers, LoginCommit(w) PROVE TypeOK'
    BY <2>12 DEF LoginCommit
  <2>13. ASSUME NEW w \in Workers, RefreshUser(w) PROVE TypeOK'
    BY <2>13 DEF RefreshUser
  <2>14. ASSUME NEW w \in Workers, RefreshWrite(w) PROVE TypeOK'
    BY <2>14 DEF RefreshWrite
  <2>15. ASSUME NEW w \in Workers, NEW s \in Sessions, NEW t \in Sessions,
             NEW o \in {"use", "revoke", "change"}, Request(w, o, s, t) PROVE TypeOK'
    BY <2>15 DEF Request, Begin, Mine
  <2>16. ASSUME NEW w \in Workers, NEW s \in Sessions, LoginCheck(w, s) PROVE TypeOK'
    BY <2>16 DEF LoginCheck, Begin, Mine
  <2>17. ASSUME NEW w \in Workers, NEW s \in Sessions, RefreshRead(w, s) PROVE TypeOK'
    BY <2>17 DEF RefreshRead, Begin, Mine
  <2>18. ASSUME NEW w \in Workers, NEW u \in Users, PasswordReset(w, u) PROVE TypeOK'
    BY <2>18 DEF PasswordReset, Begin, Mine
  <2>19. ASSUME NEW w \in Workers, NEW u \in Users, Deactivate(w, u) PROVE TypeOK'
    BY <2>19 DEF Deactivate, Begin, Mine
  <2>20. ASSUME NEW w \in Workers, CacheGetFails(w) PROVE TypeOK'
    BY <2>20 DEF CacheGetFails, Fault
  <2>21. ASSUME NEW w \in Workers, FillFails(w) PROVE TypeOK'
    BY <2>21 DEF FillFails, Fault
  <2>22. ASSUME NEW w \in Workers, LoginCommitFails(w) PROVE TypeOK'
    <3>1. faults' \in 0 .. MaxFaults
      BY <2>22 DEF LoginCommitFails, Fault
    <3>2. QED
      BY <2>22, <3>1 DEF LoginCommitFails
  <2>23. ASSUME NEW w \in Workers, NEW s \in Sessions, InvalidateFails(w, s) PROVE TypeOK'
    BY <2>23 DEF InvalidateFails, Fault
  <2>24. ASSUME NEW u \in Users, Reactivate(u) PROVE TypeOK'
    BY <2>24 DEF Reactivate
  <2>25. ASSUME NEW s \in Sessions, Expire(s) PROVE TypeOK'
    BY <2>25 DEF Expire
  <2>26. ASSUME NEW s \in Sessions, CacheExpire(s) PROVE TypeOK'
    BY <2>26 DEF CacheExpire
  <2>27. CASE UNCHANGED vars
    BY <2>27 DEF vars
  <2>28. QED
    BY <2>1, <2>2, <2>3, <2>4, <2>5, <2>6, <2>7, <2>8, <2>9, <2>10,
       <2>11, <2>12, <2>13, <2>14, <2>15, <2>16, <2>17, <2>18, <2>19, <2>20,
       <2>21, <2>22, <2>23, <2>24, <2>25, <2>26, <2>27
       DEF Next, Step, Arrival, FaultStep
<1>3. QED
  BY <1>1, <1>2, PTL DEF Spec

\* The strengthened invariant.
THEOREM SessionInvariant == Spec => []SessionInv
<1> USE SessionAssumption
<1>1. Init => SessionInv
  BY DEF Init, SessionInv, RouteOK, VerdictsOK, LoginsOK, ShutOK, Checking,
         Authorised, Sweeping, Authenticated
<1>2. TypeOK /\ TypeOK' /\ SessionInv /\ [Next]_vars => SessionInv'
  <2> SUFFICES ASSUME TypeOK, TypeOK', SessionInv, [Next]_vars PROVE SessionInv'
    OBVIOUS
  <2> USE DEF TypeOK, SessionInv, RouteOK, VerdictsOK, LoginsOK, ShutOK, Committed,
          dbVars, history, Goto, Checking, Sweeping, Answered, Authenticated,
          Authorised, Sweepers
  <2>1. ASSUME NEW w \in Workers, Done(w) PROVE SessionInv'
    BY <2>1 DEF Done
  <2>2. ASSUME NEW w \in Workers, CacheGet(w) PROVE SessionInv'
    BY <2>2 DEF CacheGet
  <2>3. ASSUME NEW w \in Workers, DbRead(w) PROVE SessionInv'
    BY <2>3 DEF DbRead
  <2>4. ASSUME NEW w \in Workers, Fill(w) PROVE SessionInv'
    BY <2>4 DEF Fill
  <2>5. ASSUME NEW w \in Workers, UserCheck(w) PROVE SessionInv'
    BY <2>5 DEF UserCheck
  <2>6. ASSUME NEW w \in Workers, Revoke(w) PROVE SessionInv'
    BY <2>6 DEF Revoke
  <2>7. ASSUME NEW w \in Workers, SweepSelect(w) PROVE SessionInv'
    BY <2>7 DEF SweepSelect, Mine
  <2>8. ASSUME NEW w \in Workers, SweepCommit(w) PROVE SessionInv'
    BY <2>8 DEF SweepCommit, Mine
  <2>9. ASSUME NEW w \in Workers, NEW s \in Sessions, Invalidate(w, s) PROVE SessionInv'
    BY <2>9 DEF Invalidate
  <2>10. ASSUME NEW w \in Workers, Invalidated(w) PROVE SessionInv'
    BY <2>10 DEF Invalidated
  <2>11. ASSUME NEW w \in Workers, LoginInsert(w) PROVE SessionInv'
    BY <2>11 DEF LoginInsert
  <2>12. ASSUME NEW w \in Workers, LoginCommit(w) PROVE SessionInv'
    BY <2>12 DEF LoginCommit
  <2>13. ASSUME NEW w \in Workers, RefreshUser(w) PROVE SessionInv'
    BY <2>13 DEF RefreshUser
  <2>14. ASSUME NEW w \in Workers, RefreshWrite(w) PROVE SessionInv'
    BY <2>14 DEF RefreshWrite
  <2>15. ASSUME NEW w \in Workers, NEW s \in Sessions, NEW t \in Sessions,
             NEW o \in {"use", "revoke", "change"}, Request(w, o, s, t) PROVE SessionInv'
    BY <2>15 DEF Request, Begin, Mine
  <2>16. ASSUME NEW w \in Workers, NEW s \in Sessions, LoginCheck(w, s) PROVE SessionInv'
    BY <2>16 DEF LoginCheck, Begin, Mine
  <2>17. ASSUME NEW w \in Workers, NEW s \in Sessions, RefreshRead(w, s) PROVE SessionInv'
    BY <2>17 DEF RefreshRead, Begin, Mine
  <2>18. ASSUME NEW w \in Workers, NEW u \in Users, PasswordReset(w, u) PROVE SessionInv'
    BY <2>18 DEF PasswordReset, Begin, Mine
  <2>19. ASSUME NEW w \in Workers, NEW u \in Users, Deactivate(w, u) PROVE SessionInv'
    BY <2>19 DEF Deactivate, Begin, Mine
  <2>20. ASSUME NEW w \in Workers, CacheGetFails(w) PROVE SessionInv'
    BY <2>20 DEF CacheGetFails, Fault
  <2>21. ASSUME NEW w \in Workers, FillFails(w) PROVE SessionInv'
    BY <2>21 DEF FillFails, Fault
  <2>22. ASSUME NEW w \in Workers, LoginCommitFails(w) PROVE SessionInv'
    BY <2>22 DEF LoginCommitFails, Fault
  <2>23. ASSUME NEW w \in Workers, NEW s \in Sessions, InvalidateFails(w, s) PROVE SessionInv'
    BY <2>23 DEF InvalidateFails, Fault
  <2>24. ASSUME NEW u \in Users, Reactivate(u) PROVE SessionInv'
    BY <2>24 DEF Reactivate
  <2>25. ASSUME NEW s \in Sessions, Expire(s) PROVE SessionInv'
    BY <2>25 DEF Expire
  <2>26. ASSUME NEW s \in Sessions, CacheExpire(s) PROVE SessionInv'
    BY <2>26 DEF CacheExpire
  <2>27. CASE UNCHANGED vars
    BY <2>27 DEF vars
  <2> HIDE DEF SessionInv, TypeOK
  <2>28. ASSUME NEW w \in Workers, Step(w) PROVE SessionInv'
    BY <2>28, <2>1, <2>2, <2>3, <2>4, <2>5, <2>6, <2>7, <2>8, <2>9, <2>10,
       <2>11, <2>12, <2>13, <2>14 DEF Step
  <2>29. ASSUME NEW w \in Workers, Arrival(w) PROVE SessionInv'
    BY <2>29, <2>15, <2>16, <2>17, <2>18, <2>19 DEF Arrival
  <2>30. ASSUME NEW w \in Workers, FaultStep(w) PROVE SessionInv'
    BY <2>30, <2>20, <2>21, <2>22, <2>23 DEF FaultStep
  <2>31. QED
    BY <2>24, <2>25, <2>26, <2>27, <2>28, <2>29, <2>30 DEF Next
<1>3. QED
  BY <1>1, <1>2, SessionTypeCorrect, PTL DEF Spec

\* ADR-0006 for any number of sessions and requests, Redis failing at will:
\* only committed sessions are let through.
THEOREM NeverGuessesActiveHolds == Spec => []NeverGuessesActive
<1>1. SessionInv => NeverGuessesActive
  BY DEF SessionInv, VerdictsOK, Committed, NeverGuessesActive
<1>2. QED
  BY <1>1, SessionInvariant, PTL

\* F25: deactivation shuts its user out of every request and refresh that
\* begins later, without relying on the cache.
THEOREM DeactivatedShutOutHolds == Spec => []DeactivatedShutOut
<1>1. SessionInv => DeactivatedShutOut
  BY DEF SessionInv, ShutOK, DeactivatedShutOut
<1>2. QED
  BY <1>1, SessionInvariant, PTL

\* No step of any route takes a session out of the revoked state.
THEOREM RevokedIsFinalHolds == Spec => RevokedIsFinal
<1> USE SessionAssumption
<1>1. TypeOK /\ SessionInv /\ [Next]_vars => [NoneRestored]_vars
  <2> SUFFICES ASSUME TypeOK, SessionInv, [Next]_vars PROVE [NoneRestored]_vars
    OBVIOUS
  <2>1. CASE UNCHANGED sess
    BY <2>1 DEF TypeOK, NoneRestored
  <2>2. ASSUME NEW w \in Workers, Revoke(w) PROVE NoneRestored
    BY <2>2 DEF Revoke, TypeOK, NoneRestored
  <2>3. ASSUME NEW w \in Workers, SweepCommit(w) PROVE NoneRestored
    BY <2>3 DEF SweepCommit, TypeOK, NoneRestored
  <2>4. ASSUME NEW w \in Workers, LoginInsert(w) PROVE NoneRestored
    BY <2>4 DEF LoginInsert, TypeOK, SessionInv, LoginsOK, NoneRestored
  <2>5. ASSUME NEW w \in Workers, LoginCommit(w) \/ LoginCommitFails(w) PROVE NoneRestored
    BY <2>5 DEF LoginCommit, LoginCommitFails, TypeOK, SessionInv,
           LoginsOK, NoneRestored
  <2>6. QED
    BY <2>1, <2>2, <2>3, <2>4, <2>5 DEF Next, Step, Arrival, FaultStep, vars, dbVars,
       Done, CacheGet, DbRead, Fill, UserCheck, SweepSelect, Invalidate, Invalidated,
       RefreshUser, RefreshWrite, Request, LoginCheck, RefreshRead, PasswordReset,
       Deactivate, CacheGetFails, FillFails, InvalidateFails, Reactivate, Expire,
       CacheExpire
<1>2. QED
  BY <1>1, SessionTypeCorrect, SessionInvariant, PTL DEF Spec, RevokedIsFinal

\* Between its beginning and its commit a sweep loses no session that was due:
\* what was live then stays committed and its user's, so that it is selected or
\* has been revoked by somebody else.
DueOK ==
  \A w \in Workers :
    /\ pc[w] = "revoke" => op[w] = "revoke"
    /\ op[w] \in Sweepers => \A s \in due[w] : Committed(s) /\ OwnerOf[s] = target[w]
    /\ pc[w] = "sweepCommit" =>
         \A s \in due[w] \ {sid[w]} : sess[s] = "revoked" \/ s \in sweep[w]

\* The strengthened invariant behind SweepIsComplete.
THEOREM DueInvariant == Spec => [](DueOK /\ SweepIsComplete)
<1> USE SessionAssumption
<1> DEFINE Inv == DueOK /\ SweepIsComplete
<1>1. Init => Inv
  BY DEF Init, DueOK, SweepIsComplete, Sweepers
<1>2. TypeOK /\ TypeOK' /\ SessionInv /\ Inv /\ [Next]_vars => Inv'
  <2> SUFFICES ASSUME TypeOK, TypeOK', SessionInv, Inv, [Next]_vars PROVE Inv'
    OBVIOUS
  <2> USE DEF TypeOK, DueOK, SweepIsComplete, Committed, Sweepers, dbVars, history, Goto
  \* Nothing but a worker's own place moves.
  <2> DEFINE Moves(w) == /\ pc'[w] \notin {"revoke", "sweepCommit", "invalidate"}
                         /\ \A v \in Workers : v # w => pc'[v] = pc[v]
                         /\ UNCHANGED <<sess, op, sid, target, sweep, due>>
  <2>0. ASSUME NEW w \in Workers, Moves(w) PROVE Inv'
    BY <2>0
  <2>1. ASSUME NEW w \in Workers, Done(w) PROVE Inv'
    BY <2>1 DEF Done, Answered
  <2>2. ASSUME NEW w \in Workers, CacheGet(w) \/ CacheGetFails(w) PROVE Moves(w)
    BY <2>2 DEF CacheGet, CacheGetFails
  <2>3. ASSUME NEW w \in Workers, DbRead(w) PROVE Moves(w)
    BY <2>3 DEF DbRead
  <2>4. ASSUME NEW w \in Workers, Fill(w) \/ FillFails(w) PROVE Moves(w)
    BY <2>4 DEF Fill, FillFails
  <2>5. ASSUME NEW w \in Workers, UserCheck(w) PROVE Inv'
    BY <2>5 DEF UserCheck
  <2>6. ASSUME NEW w \in Workers, Revoke(w) PROVE Inv'
    BY <2>6 DEF Revoke
  <2>7. ASSUME NEW w \in Workers, SweepSelect(w) PROVE Inv'
    BY <2>7 DEF SweepSelect, Mine, SessionInv, RouteOK
  <2>8. ASSUME NEW w \in Workers, SweepCommit(w) PROVE Inv'
    <3>1. \A s \in Sessions : Committed(s) => Committed(s)'
      BY <2>8 DEF SweepCommit
    <3>2. \A s \in Sessions : sess[s] = "revoked" \/ s \in sweep[w] => sess'[s] = "revoked"
      BY <2>8 DEF SweepCommit
    <3>3. DueOK'
      BY <2>8, <3>1, <3>2 DEF SweepCommit
    <3>4. SweepIsComplete'
      BY <2>8, <3>2 DEF SweepCommit
    <3>5. QED
      BY <3>3, <3>4
  <2>9. ASSUME NEW w \in Workers, NEW s \in Sessions, Invalidate(w, s) \/ InvalidateFails(w, s)
        PROVE Inv'
    BY <2>9 DEF Invalidate, InvalidateFails
  <2>10. ASSUME NEW w \in Workers, Invalidated(w) PROVE Moves(w)
    BY <2>10 DEF Invalidated
  <2>11. ASSUME NEW w \in Workers, LoginInsert(w) PROVE Inv'
    BY <2>11 DEF LoginInsert, SessionInv, LoginsOK
  <2>12. ASSUME NEW w \in Workers, LoginCommit(w) \/ LoginCommitFails(w) PROVE Inv'
    BY <2>12 DEF LoginCommit, LoginCommitFails, SessionInv, LoginsOK
  <2>13. ASSUME NEW w \in Workers, RefreshUser(w) \/ RefreshWrite(w) PROVE Moves(w)
    BY <2>13 DEF RefreshUser, RefreshWrite
  <2>14. ASSUME NEW w \in Workers, NEW s \in Sessions, NEW t \in Sessions,
             NEW o \in {"use", "revoke", "change"}, Request(w, o, s, t) PROVE Inv'
    BY <2>14 DEF Request, Begin, Mine
  <2>15. ASSUME NEW w \in Workers, NEW s \in Sessions, LoginCheck(w, s) PROVE Inv'
    BY <2>15 DEF LoginCheck, Begin, Mine
  <2>16. ASSUME NEW w \in Workers, NEW s \in Sessions, RefreshRead(w, s) PROVE Inv'
    BY <2>16 DEF RefreshRead, Begin, Mine
  <2>17. ASSUME NEW w \in Workers, NEW u \in Users, PasswordReset(w, u) PROVE Inv'
    BY <2>17 DEF PasswordReset, Begin, Mine
  <2>18. ASSUME NEW w \in Workers, NEW u \in Users, Deactivate(w, u) PROVE Inv'
    BY <2>18 DEF Deactivate, Begin, Mine
  <2>19. CASE UNCHANGED <<sess, pc, op, sid, target, sweep, due>>
    BY <2>19
  <2>20. ASSUME NEW w \in Workers, Arrival(w) PROVE Inv'
    BY <2>20, <2>14, <2>15, <2>16, <2>17, <2>18 DEF Arrival
  <2>21. ASSUME NEW w \in Workers, Step(w) PROVE Inv'
    BY <2>21, <2>0, <2>1, <2>2, <2>3, <2>4, <2>5, <2>6, <2>7, <2>8, <2>9, <2>10, <2>11,
       <2>12, <2>13 DEF Step
  <2>22. ASSUME NEW w \in Workers, FaultStep(w) PROVE Inv'
    BY <2>22, <2>0, <2>2, <2>4, <2>9, <2>12 DEF FaultStep
  <2>23. QED
    <3>1. CASE \E u \in Users : Reactivate(u)
      BY <2>19, <3>1 DEF Reactivate
    <3>2. CASE \E s \in Sessions : Expire(s) \/ CacheExpire(s)
      BY <2>19, <3>2 DEF Expire, CacheExpire
    <3>3. CASE UNCHANGED vars
      BY <2>19, <3>3 DEF vars
    <3>4. QED
      BY <2>20, <2>21, <2>22, <3>1, <3>2, <3>3 DEF Next
<1>3. QED
  BY <1>1, <1>2, SessionTypeCorrect, SessionInvariant, PTL DEF Spec

\* F16, F22, F25 for any number of sessions and overlapping requests: a committed
\* sweep has revoked every session that was live when its request began.
THEOREM SweepIsCompleteHolds == Spec => []SweepIsComplete
BY DueInvariant, PTL
=============================================================================
