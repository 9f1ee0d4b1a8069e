------------------------ MODULE PasswordResetProofs ------------------------
(***************************************************************************)
(* Reset tokens for any number of jobs and confirmations and any number of *)
(* tokens.                                                                 *)
(***************************************************************************)
EXTENDS PasswordReset, TLAPS

\* Each job that has not committed holds an id of its own that no row has yet,
\* and accounts for the tokens that existed when it looked: closed already,
\* marked, or still to be marked; and it marks none but those.
JobsOK ==
  \A r \in Requests : pc[r] = "mark" =>
    /\ tok[r] \in 1 .. minted /\ state[tok[r]] = "none"
    /\ \A q \in Requests : pc[q] = "mark" /\ tok[q] = tok[r] => q = r
    /\ \A o \in older[tok[r]] : state[o] = "used" \/ o \in todo[r] \cup marked[r]
    /\ todo[r] \cup marked[r] \subseteq older[tok[r]]

\* What requests refer to is committed, and only minted ids are.
RefsOK ==
  /\ \A r \in Requests : todo[r] \cup marked[r] \subseteq Committed
  /\ \A r \in Requests : pc[r] \in {"burn", "user", "commit"} => tok[r] \in mailed
  /\ \A r \in Requests : pc[r] = "mail" => tok[r] \in Committed
  /\ \A r \in Requests : pc[r] # "mark" => todo[r] = {} /\ marked[r] = {}
  /\ \A t \in Committed : t <= minted
  /\ \A t \in Tokens : older[t] \subseteq Committed

ResetInv ==
  /\ TypeOK /\ JobsOK /\ RefsOK
  /\ EarlierSuperseded /\ ClosedForAReason /\ TokenBurned

\* A request that ends drops what it held and nothing else.
LEMMA EndKeepsInv ==
  ASSUME ResetInv, NEW r \in Requests, End(r),
         UNCHANGED <<state, expired, password, minted, history>>,
         mailed' = mailed \/ (pc[r] = "mail" /\ mailed' = mailed \cup {tok[r]})
  PROVE  ResetInv'
<1> USE ResetAssumption DEF ResetInv
<1>1. /\ pc' = [pc EXCEPT ![r] = "idle"] /\ op' = [op EXCEPT ![r] = "none"]
      /\ tok' = [tok EXCEPT ![r] = 0]
      /\ todo' = [todo EXCEPT ![r] = {}] /\ marked' = [marked EXCEPT ![r] = {}]
      /\ lock' = [t \in Tokens |-> IF lock[t] = r THEN None ELSE lock[t]]
      /\ userLock' = IF userLock = r THEN None ELSE userLock
  BY DEF End, Close, Goto
<1>2. Committed' = Committed /\ mailed \subseteq mailed' /\ mailed' \subseteq Committed
  BY DEF Committed, TypeOK, RefsOK
<1>3. TypeOK'
  BY <1>1, <1>2 DEF TypeOK, Tokens, history
<1>4. JobsOK'
  BY <1>1 DEF TypeOK, JobsOK, history
<1>5. RefsOK'
  BY <1>1, <1>2 DEF TypeOK, RefsOK, history
<1>6. EarlierSuperseded' /\ ClosedForAReason' /\ TokenBurned'
  BY <1>2 DEF EarlierSuperseded, ClosedForAReason, TokenBurned, history
<1> QED BY <1>3, <1>4, <1>5, <1>6

\* A job looks for outstanding tokens: its id is new, and every token there is
\* is closed or on its list.
LEMMA OutstandingKeepsInv ==
  ASSUME ResetInv, NEW r \in Requests, Outstanding(r)
  PROVE  ResetInv'
<1> USE ResetAssumption DEF ResetInv
<1> DEFINE n == minted + 1
<1>1. /\ pc[r] = "idle" /\ n \in Tokens
      /\ minted' = n
      /\ pc' = [pc EXCEPT ![r] = "mark"] /\ op' = [op EXCEPT ![r] = "issue"]
      /\ tok' = [tok EXCEPT ![r] = n]
      /\ todo' = [todo EXCEPT ![r] = {t \in Tokens : state[t] = "open"}]
      /\ older' = [older EXCEPT ![n] = Committed]
      /\ UNCHANGED <<state, expired, lock, userLock, password, marked, mailed, consumed>>
  BY DEF Outstanding, Goto, TypeOK, Tokens
<1>2. Committed' = Committed /\ Committed \subseteq Tokens /\ n \notin Committed
  BY <1>1 DEF Committed, RefsOK, TypeOK, Tokens
<1>3. TypeOK'
  BY <1>1, <1>2 DEF TypeOK, Tokens
<1>4. \A o \in Committed : state[o] = "used" \/ o \in todo'[r]
  BY <1>1 DEF Committed, TypeOK
<1>5. \A q \in Requests : q # r /\ pc[q] = "mark" => tok[q] # n
  BY <1>1 DEF JobsOK, TypeOK
<1>6. state[n] = "none" /\ n \in 1 .. minted'
  BY <1>1, <1>2 DEF Committed, TypeOK, Tokens
<1>7. JobsOK'
  <2> SUFFICES ASSUME NEW q \in Requests, pc'[q] = "mark"
               PROVE  /\ tok'[q] \in 1 .. minted' /\ state[tok'[q]] = "none"
                      /\ \A p \in Requests : pc'[p] = "mark" /\ tok'[p] = tok'[q] => p = q
                      /\ \A o \in older'[tok'[q]] :
                           state[o] = "used" \/ o \in todo'[q] \cup marked'[q]
                      /\ todo'[q] \cup marked'[q] \subseteq older'[tok'[q]]
    BY <1>1 DEF JobsOK
  <2>1. CASE q = r
    <3>1. todo'[r] \cup marked'[r] \subseteq older'[n]
      BY <1>1 DEF RefsOK, TypeOK, Committed
    <3> QED BY <2>1, <3>1, <1>1, <1>4, <1>5, <1>6 DEF TypeOK
  <2>2. CASE q # r
    <3>1. pc[q] = "mark" /\ tok'[q] = tok[q] /\ tok[q] # n /\ tok[q] \in Tokens
      BY <2>2, <1>1, <1>5 DEF TypeOK, JobsOK, Tokens
    <3>2. older'[tok[q]] = older[tok[q]] /\ todo'[q] = todo[q] /\ marked'[q] = marked[q]
      BY <2>2, <3>1, <1>1 DEF TypeOK
    <3>3. \A p \in Requests : pc'[p] = "mark" /\ tok'[p] = tok'[q] => p = q
      BY <2>2, <3>1, <1>1 DEF TypeOK, JobsOK
    <3> QED BY <3>1, <3>2, <3>3, <1>1 DEF JobsOK, TypeOK
  <2> QED BY <2>1, <2>2
<1>8. RefsOK'
  <2>1. \A q \in Requests : todo'[q] \cup marked'[q] \subseteq Committed
    BY <1>1 DEF RefsOK, TypeOK, Committed
  <2>2. \A t \in Committed : t <= minted'
    BY <1>1, <1>2 DEF RefsOK, TypeOK, Tokens
  <2>3. \A t \in Tokens : older'[t] \subseteq Committed
    BY <1>1 DEF RefsOK, TypeOK
  <2>4. \A q \in Requests : pc'[q] \in {"burn", "user", "commit", "mail"} =>
          pc'[q] = pc[q] /\ tok'[q] = tok[q]
    BY <1>1 DEF TypeOK
  <2>5. \A q \in Requests : pc'[q] # "mark" => todo'[q] = {} /\ marked'[q] = {}
    BY <1>1 DEF RefsOK, TypeOK
  <2> QED BY <2>1, <2>2, <2>3, <2>4, <2>5, <1>1, <1>2 DEF RefsOK
<1>9. EarlierSuperseded' /\ ClosedForAReason' /\ TokenBurned'
  BY <1>1, <1>2 DEF EarlierSuperseded, ClosedForAReason, TokenBurned, TypeOK
<1> QED BY <1>3, <1>7, <1>8, <1>9

\* A job commits: what it listed is closed, in the place of its own token.
LEMMA IssueKeepsInv ==
  ASSUME ResetInv, NEW r \in Requests, Issue(r)
  PROVE  ResetInv'
<1> USE ResetAssumption DEF ResetInv
<1>1. /\ pc[r] = "mark" /\ todo[r] = {}
      /\ state' = [t \in Tokens |-> IF t \in marked[r] THEN "used"
                                    ELSE IF t = tok[r] THEN "open" ELSE state[t]]
      /\ pc' = [pc EXCEPT ![r] = "mail"]
      /\ lock' = [t \in Tokens |-> IF lock[t] = r THEN None ELSE lock[t]]
      /\ userLock' = IF userLock = r THEN None ELSE userLock
      /\ todo' = [todo EXCEPT ![r] = {}] /\ marked' = [marked EXCEPT ![r] = {}]
      /\ UNCHANGED <<expired, password, op, tok, minted, mailed, consumed, older>>
  BY DEF Issue, Close, Goto
<1>2. /\ tok[r] \in Tokens /\ tok[r] \in 1 .. minted /\ state[tok[r]] = "none"
      /\ tok[r] \notin Committed /\ marked[r] \subseteq Committed
  BY <1>1 DEF JobsOK, RefsOK, TypeOK, Tokens, Committed
<1>3. /\ state'[tok[r]] = "open"
      /\ \A t \in Tokens : state[t] = "used" => state'[t] = "used"
      /\ \A t \in marked[r] : state'[t] = "used"
      /\ \A t \in Tokens : t # tok[r] => (state'[t] = "none" <=> state[t] = "none")
      /\ state' \in [Tokens -> {"none", "open", "used"}]
  BY <1>1, <1>2 DEF TypeOK, Committed
<1>4. Committed' = Committed \cup {tok[r]}
  BY <1>2, <1>3 DEF Committed, TypeOK
<1>5. TypeOK'
  <2>1. lock' \in [Tokens -> Requests \cup {None}] /\ userLock' \in Requests \cup {None}
    BY <1>1 DEF TypeOK
  <2>2. mailed' \subseteq Committed'
    BY <1>1, <1>2, <1>4 DEF TypeOK, Tokens
  <2>3. pc' \in [Requests -> {"idle", "mark", "mail", "burn", "user", "commit"}]
    BY <1>1 DEF TypeOK
  <2>4. todo' \in [Requests -> SUBSET Tokens] /\ marked' \in [Requests -> SUBSET Tokens]
    BY <1>1 DEF TypeOK
  <2> QED BY <2>1, <2>2, <2>3, <2>4, <1>1, <1>3 DEF TypeOK
<1>6. JobsOK'
  <2> SUFFICES ASSUME NEW q \in Requests, pc'[q] = "mark"
               PROVE  /\ tok[q] \in 1 .. minted /\ state'[tok[q]] = "none"
                      /\ \A p \in Requests : pc'[p] = "mark" /\ tok[p] = tok[q] => p = q
                      /\ \A o \in older[tok[q]] :
                           state'[o] = "used" \/ o \in todo'[q] \cup marked'[q]
                      /\ todo'[q] \cup marked'[q] \subseteq older[tok[q]]
    BY <1>1 DEF JobsOK
  <2>1. q # r /\ pc[q] = "mark" /\ tok[q] # tok[r] /\ tok[q] \in Tokens
    BY <1>1, <1>2 DEF JobsOK, TypeOK, Tokens
  <2>2. todo'[q] = todo[q] /\ marked'[q] = marked[q]
    BY <2>1, <1>1 DEF TypeOK
  <2>3. older[tok[q]] \subseteq Tokens
    BY <2>1 DEF TypeOK
  <2>4. state[tok[q]] = "none" /\ state'[tok[q]] = "none"
    BY <2>1, <1>3 DEF JobsOK
  <2>5. \A p \in Requests : pc'[p] = "mark" => pc[p] = "mark"
    BY <1>1 DEF TypeOK
  <2> QED BY <2>1, <2>2, <2>3, <2>4, <2>5, <1>3 DEF JobsOK
<1>7. RefsOK'
  BY <1>1, <1>2, <1>4 DEF RefsOK, TypeOK, Tokens
<1>8. EarlierSuperseded'
  <2>1. \A o \in older[tok[r]] : state'[o] = "used"
    BY <1>1, <1>2, <1>3 DEF JobsOK, TypeOK
  <2>2. \A t \in Committed : \A o \in older[t] : state'[o] = "used"
    BY <1>3 DEF EarlierSuperseded, TypeOK, Committed
  <2> QED BY <2>1, <2>2, <1>1, <1>4 DEF EarlierSuperseded
<1>9. ClosedForAReason'
  <2>1. marked[r] \subseteq older[tok[r]]
    BY <1>1 DEF JobsOK
  <2>2. ASSUME NEW t \in Committed', state'[t] = "used"
        PROVE  t \in consumed' \/ \E n \in Committed' : t \in older'[n]
    <3>1. CASE t \in marked[r]
      BY <2>1, <3>1, <1>1, <1>4
    <3>2. CASE t \notin marked[r]
      <4>1. state[t] = "used" /\ t \in Committed
        BY <2>2, <3>2, <1>1, <1>3, <1>4 DEF Committed, TypeOK
      <4> QED BY <4>1, <1>1, <1>4 DEF ClosedForAReason
    <3> QED BY <3>1, <3>2
  <2> QED BY <2>2 DEF ClosedForAReason
<1>10. TokenBurned'
  BY <1>1, <1>3 DEF TokenBurned, TypeOK, Tokens
<1> QED BY <1>5, <1>6, <1>7, <1>8, <1>9, <1>10

\* A confirmation commits: a token that was mailed is used, and only that.
LEMMA ConfirmKeepsInv ==
  ASSUME ResetInv, NEW r \in Requests, Confirm(r)
  PROVE  ResetInv'
<1> USE ResetAssumption DEF ResetInv
<1>1. /\ pc[r] = "commit"
      /\ state' = [state EXCEPT ![tok[r]] = "used"]
      /\ password' = tok[r]
      /\ consumed' = consumed \cup {tok[r]}
      /\ pc' = [pc EXCEPT ![r] = "idle"] /\ op' = [op EXCEPT ![r] = "none"]
      /\ tok' = [tok EXCEPT ![r] = 0]
      /\ todo' = [todo EXCEPT ![r] = {}] /\ marked' = [marked EXCEPT ![r] = {}]
      /\ lock' = [t \in Tokens |-> IF lock[t] = r THEN None ELSE lock[t]]
      /\ userLock' = IF userLock = r THEN None ELSE userLock
      /\ UNCHANGED <<expired, minted, mailed, older>>
  BY DEF Confirm, End, Close, Goto
<1>2. tok[r] \in mailed /\ tok[r] \in Committed /\ tok[r] \in Tokens
  BY <1>1 DEF RefsOK, TypeOK, Committed
<1>3. Committed' = Committed
  BY <1>1, <1>2 DEF Committed, TypeOK
<1>4. /\ \A t \in Tokens : state[t] = "used" => state'[t] = "used"
      /\ \A t \in Tokens : state[t] = "none" => state'[t] = "none"
      /\ state' \in [Tokens -> {"none", "open", "used"}]
  BY <1>1, <1>2 DEF TypeOK, Committed
<1>5. TypeOK'
  <2>1. lock' \in [Tokens -> Requests \cup {None}] /\ userLock' \in Requests \cup {None}
    BY <1>1 DEF TypeOK
  <2>2. /\ mailed' \subseteq Committed' /\ password' \in 0 .. MaxToken
        /\ consumed' \subseteq Tokens
    BY <1>1, <1>2, <1>3 DEF TypeOK
  <2>3. /\ pc' \in [Requests -> {"idle", "mark", "mail", "burn", "user", "commit"}]
        /\ op' \in [Requests -> {"none", "issue", "confirm"}]
        /\ tok' \in [Requests -> 0 .. MaxToken]
    BY <1>1 DEF TypeOK
  <2>4. todo' \in [Requests -> SUBSET Tokens] /\ marked' \in [Requests -> SUBSET Tokens]
    BY <1>1 DEF TypeOK
  <2> QED BY <2>1, <2>2, <2>3, <2>4, <1>1, <1>4 DEF TypeOK
<1>6. JobsOK'
  <2>1. \A q \in Requests : pc'[q] = "mark" =>
          q # r /\ pc[q] = "mark" /\ tok'[q] = tok[q] /\ todo'[q] = todo[q] /\ marked'[q] = marked[q]
    BY <1>1 DEF TypeOK
  <2>2. \A q \in Requests : pc[q] = "mark" => tok[q] \in Tokens /\ older[tok[q]] \subseteq Tokens
    BY DEF JobsOK, TypeOK, Tokens
  <2> QED BY <2>1, <2>2, <1>1, <1>4 DEF JobsOK
<1>7. RefsOK'
  BY <1>1, <1>3 DEF RefsOK, TypeOK
<1>8. EarlierSuperseded'
  BY <1>1, <1>3, <1>4 DEF EarlierSuperseded, TypeOK, Committed
<1>9. ClosedForAReason'
  BY <1>1, <1>2, <1>3 DEF ClosedForAReason, TypeOK, Committed
<1>10. TokenBurned'
  BY <1>1, <1>2 DEF TokenBurned, TypeOK
<1> QED BY <1>5, <1>6, <1>7, <1>8, <1>9, <1>10

\* The inductive invariant: it holds at the start and every step keeps it.
THEOREM ResetInvariant == Spec => []ResetInv
<1>1. Init => ResetInv
  BY ResetAssumption DEF Init, ResetInv, TypeOK, JobsOK, RefsOK, Committed,
     EarlierSuperseded, ClosedForAReason, TokenBurned
<1>2. ResetInv /\ [Next]_vars => ResetInv'
  <2> SUFFICES ASSUME ResetInv, [Next]_vars PROVE ResetInv'
    OBVIOUS
  <2> USE ResetAssumption
  <2>1. ASSUME NEW r \in Requests, Mark(r) PROVE ResetInv'
    <3>1. PICK t \in todo[r] :
            /\ lock' = [lock EXCEPT ![t] = r]
            /\ marked' = [marked EXCEPT ![r] = @ \cup {t}]
            /\ todo' = [todo EXCEPT ![r] = @ \ {t}]
      BY <2>1 DEF Mark
    <3>2. UNCHANGED <<state, expired, userLock, password, pc, op, tok, minted, mailed,
                      consumed, older>>
      BY <2>1 DEF Mark, history
    <3>3. t \in Committed /\ t \in Tokens /\ Committed' = Committed
      BY <3>2 DEF ResetInv, RefsOK, Committed
    <3>4. \A q \in Requests : todo'[q] \cup marked'[q] = todo[q] \cup marked[q]
      BY <3>1 DEF ResetInv, TypeOK
    <3>5. TypeOK'
      BY <3>1, <3>2, <3>3 DEF ResetInv, TypeOK, Tokens
    <3>6. JobsOK' /\ RefsOK'
      BY <3>2, <3>3, <3>4 DEF ResetInv, JobsOK, RefsOK
    <3> QED BY <3>2, <3>3, <3>5, <3>6 DEF ResetInv, EarlierSuperseded, ClosedForAReason, TokenBurned
  <2>2. ASSUME NEW r \in Requests, NEW d \in BOOLEAN, Mail(r, d) PROVE ResetInv'
    BY <2>2, EndKeepsInv DEF Mail
  <2>3. ASSUME NEW r \in Requests, NEW t \in Tokens, Find(r, t) PROVE ResetInv'
    <3>1. Committed' = Committed
      BY <2>3 DEF Find, Committed
    <3> QED BY <2>3, <3>1 DEF Find, Goto, history, ResetInv, TypeOK, Tokens, JobsOK, RefsOK,
              EarlierSuperseded, ClosedForAReason, TokenBurned
  <2>4. ASSUME NEW r \in Requests, Burn(r) PROVE ResetInv'
    <3>1. tok[r] \in Tokens /\ Committed' = Committed
      BY <2>4 DEF Burn, Committed, ResetInv, RefsOK, TypeOK
    <3> QED BY <2>4, <3>1 DEF Burn, Goto, history, ResetInv, TypeOK, Tokens, JobsOK, RefsOK,
              EarlierSuperseded, ClosedForAReason, TokenBurned
  <2>5. ASSUME NEW r \in Requests, WriteUser(r) PROVE ResetInv'
    <3>1. Committed' = Committed
      BY <2>5 DEF WriteUser, Committed
    <3> QED BY <2>5, <3>1 DEF WriteUser, Goto, history, ResetInv, TypeOK, Tokens, JobsOK, RefsOK,
              EarlierSuperseded, ClosedForAReason, TokenBurned
  <2>6. ASSUME NEW r \in Requests, Abort(r) PROVE ResetInv'
    BY <2>6, EndKeepsInv DEF Abort
  <2>7. ASSUME NEW t \in Tokens, Expire(t) PROVE ResetInv'
    <3>1. Committed' = Committed
      BY <2>7 DEF Expire, Committed
    <3> QED BY <2>7, <3>1 DEF Expire, request, history, ResetInv, TypeOK, JobsOK, RefsOK,
              EarlierSuperseded, ClosedForAReason, TokenBurned
  <2>8. CASE UNCHANGED vars
    <3>1. Committed' = Committed
      BY <2>8 DEF vars, Committed
    <3> QED BY <2>8, <3>1 DEF vars, request, history, ResetInv, TypeOK, JobsOK, RefsOK,
              EarlierSuperseded, ClosedForAReason, TokenBurned
  <2> QED BY <2>1, <2>2, <2>3, <2>4, <2>5, <2>6, <2>7, <2>8,
             OutstandingKeepsInv, IssueKeepsInv, ConfirmKeepsInv
             DEF Next, Job, Confirmation
<1> QED BY <1>1, <1>2, PTL DEF Spec

\* Types hold for any number of requests and tokens.
THEOREM ResetTypeCorrect == Spec => []TypeOK
<1>1. ResetInv => TypeOK
  BY DEF ResetInv
<1> QED BY <1>1, ResetInvariant, PTL

\* F17: the tokens a job found are closed once its own is issued, however jobs
\* and confirmations interleave.
THEOREM EarlierSupersededHolds == Spec => []EarlierSuperseded
<1>1. ResetInv => EarlierSuperseded
  BY DEF ResetInv
<1> QED BY <1>1, ResetInvariant, PTL

\* F15 to F17: a token is closed only by its use or by a token issued in its
\* place, whatever failed.
THEOREM ClosedForAReasonHolds == Spec => []ClosedForAReason
<1>1. ResetInv => ClosedForAReason
  BY DEF ResetInv
<1> QED BY <1>1, ResetInvariant, PTL

\* F16: the password changes only together with a mailed token being used.
THEOREM TokenBurnedHolds == Spec => []TokenBurned
<1>1. ResetInv => TokenBurned
  BY DEF ResetInv
<1> QED BY <1>1, ResetInvariant, PTL
=============================================================================
