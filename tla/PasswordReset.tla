--------------------------- MODULE PasswordReset ---------------------------
(***************************************************************************)
(* Password reset tokens of one user (F15 to F17): the background jobs     *)
(* that issue them and the confirmations that use them, statement by       *)
(* statement at READ COMMITTED.                                            *)
(*                                                                         *)
(* A job marks the tokens it read as outstanding, inserts its own, commits *)
(* and mails the link.  A confirmation reads its token without a lock and  *)
(* writes token and password in one transaction.  Both write by primary    *)
(* key and look at the row no second time.  The sessions a confirmation    *)
(* revokes are in SessionRevocation.                                       *)
(***************************************************************************)
EXTENDS Naturals

CONSTANTS
  Requests,  \* jobs and confirmations that may run at once
  MaxToken,  \* bound on the tokens issued
  None

Tokens == 1 .. MaxToken    \* in id order: ids grow with time

ASSUME ResetAssumption == MaxToken \in Nat /\ None \notin Requests

VARIABLES
  state,     \* of each committed token row: none, open (used_at null), used
  expired,   \* tokens past expires_at
  lock,      \* the request holding each token's row lock
  userLock,  \* and the user's
  password,  \* the token whose confirmation set the password, 0 at first
  pc, op,
  tok,       \* the token a request presents or inserts
  todo,      \* outstanding tokens a job has still to mark
  marked,    \* tokens it has marked, uncommitted
  minted,    \* number of tokens minted
  mailed,    \* tokens whose link was delivered
  consumed,  \* history: tokens a confirmation used
  older      \* history: the tokens that existed when each one's job began

request == <<pc, op, tok, todo, marked>>
history == <<consumed, older>>
vars == <<state, expired, lock, userLock, password, request, minted, mailed, history>>

Committed == {t \in Tokens : state[t] # "none"}

Init ==
  /\ state = [t \in Tokens |-> "none"]
  /\ expired = {}
  /\ lock = [t \in Tokens |-> None]
  /\ userLock = None
  /\ password = 0
  /\ pc = [r \in Requests |-> "idle"]
  /\ op = [r \in Requests |-> "none"]
  /\ tok = [r \in Requests |-> 0]
  /\ todo = [r \in Requests |-> {}]
  /\ marked = [r \in Requests |-> {}]
  /\ minted = 0
  /\ mailed = {}
  /\ consumed = {}
  /\ older = [t \in Tokens |-> {}]

Goto(r, step) == pc' = [pc EXCEPT ![r] = step]

\* COMMIT or ROLLBACK frees the locks; the request goes on at step.
Close(r, step) ==
  /\ Goto(r, step)
  /\ lock' = [t \in Tokens |-> IF lock[t] = r THEN None ELSE lock[t]]
  /\ userLock' = IF userLock = r THEN None ELSE userLock
  /\ todo' = [todo EXCEPT ![r] = {}]
  /\ marked' = [marked EXCEPT ![r] = {}]

\* The same, and nothing follows.
End(r) ==
  /\ Close(r, "idle")
  /\ op' = [op EXCEPT ![r] = "none"]
  /\ tok' = [tok EXCEPT ![r] = 0]

(***************************************************************************)
(* _process_password_reset_request                                         *)
(***************************************************************************)
\* The user is found; invalidate_outstanding_reset_tokens selects.  The new
\* token's number stands for its id and is reserved here.
Outstanding(r) ==
  /\ pc[r] = "idle" /\ minted < MaxToken
  /\ minted' = minted + 1
  /\ op' = [op EXCEPT ![r] = "issue"]
  /\ tok' = [tok EXCEPT ![r] = minted + 1]
  /\ todo' = [todo EXCEPT ![r] = {t \in Tokens : state[t] = "open"}]
  /\ older' = [older EXCEPT ![minted + 1] = Committed]
  /\ Goto(r, "mark")
  /\ UNCHANGED <<state, expired, lock, userLock, password, marked, mailed, consumed>>

\* Mutant: passes over rows that someone has locked.
MarkSkipsLocked(r) ==
  /\ pc[r] = "mark"
  /\ \E t \in todo[r] :
       /\ \A u \in todo[r] : t <= u
       /\ todo' = [todo EXCEPT ![r] = @ \ {t}]
       /\ IF lock[t] = None
            THEN /\ lock' = [lock EXCEPT ![t] = r]
                 /\ marked' = [marked EXCEPT ![r] = @ \cup {t}]
            ELSE UNCHANGED <<lock, marked>>
  /\ UNCHANGED <<state, expired, userLock, password, pc, op, tok, minted, mailed, history>>

\* Mutant: every UPDATE is committed on its own.
MarkCommits(r) ==
  /\ pc[r] = "mark"
  /\ \E t \in todo[r] :
       /\ \A u \in todo[r] : t <= u
       /\ lock[t] = None
       /\ state' = [state EXCEPT ![t] = "used"]
       /\ todo' = [todo EXCEPT ![r] = @ \ {t}]
  /\ UNCHANGED <<expired, lock, userLock, password, pc, op, tok, marked, minted, mailed, history>>

\* Its flush: one UPDATE a row, in id order, each waiting for the row lock.
Mark(r) ==
  /\ pc[r] = "mark"
  /\ \E t \in todo[r] :
       /\ \A u \in todo[r] : t <= u
       /\ lock[t] = None
       /\ lock' = [lock EXCEPT ![t] = r]
       /\ marked' = [marked EXCEPT ![r] = @ \cup {t}]
       /\ todo' = [todo EXCEPT ![r] = @ \ {t}]
  /\ UNCHANGED <<state, expired, userLock, password, pc, op, tok, minted, mailed, history>>

\* create_password_reset_token inserts, and the job commits.
Issue(r) ==
  /\ pc[r] = "mark" /\ todo[r] = {}
  /\ state' = [t \in Tokens |-> IF t \in marked[r] THEN "used"
                                ELSE IF t = tok[r] THEN "open" ELSE state[t]]
  /\ Close(r, "mail")
  /\ UNCHANGED <<expired, password, op, tok, minted, mailed, consumed, older>>

\* send_password_reset_email; a failure is only logged.
Mail(r, delivered) ==
  /\ pc[r] = "mail"
  /\ mailed' = IF delivered THEN mailed \cup {tok[r]} ELSE mailed
  /\ End(r)
  /\ UNCHANGED <<state, expired, password, minted, history>>

(***************************************************************************)
(* confirm_password_reset                                                  *)
(***************************************************************************)
\* find_valid_reset_token, else 410; a password the policy refuses ends here.
Find(r, t) ==
  /\ pc[r] = "idle"
  /\ t \in mailed \ expired /\ state[t] = "open"
  /\ op' = [op EXCEPT ![r] = "confirm"]
  /\ tok' = [tok EXCEPT ![r] = t]
  /\ Goto(r, "burn")
  /\ UNCHANGED <<state, expired, lock, userLock, password, todo, marked, minted, mailed, history>>

\* The flush: mark_reset_token_used ...
Burn(r) ==
  /\ pc[r] = "burn"
  /\ lock[tok[r]] = None
  /\ lock' = [lock EXCEPT ![tok[r]] = r]
  /\ Goto(r, "user")
  /\ UNCHANGED <<state, expired, userLock, password, op, tok, todo, marked, minted, mailed, history>>

\* ... and the user's new hash.
WriteUser(r) ==
  /\ pc[r] = "user"
  /\ userLock = None
  /\ userLock' = r
  /\ Goto(r, "commit")
  /\ UNCHANGED <<state, expired, lock, password, op, tok, todo, marked, minted, mailed, history>>

\* Mutant: the token is not part of the transaction that sets the password.
ConfirmPasswordOnly(r) ==
  /\ pc[r] = "commit"
  /\ password' = tok[r]
  /\ End(r)
  /\ UNCHANGED <<state, expired, minted, mailed, history>>

Confirm(r) ==
  /\ pc[r] = "commit"
  /\ state' = [state EXCEPT ![tok[r]] = "used"]
  /\ password' = tok[r]
  /\ consumed' = consumed \cup {tok[r]}
  /\ End(r)
  /\ UNCHANGED <<expired, minted, mailed, older>>

(***************************************************************************)
(* Environment                                                             *)
(***************************************************************************)
\* A failing statement or COMMIT, a crash, before the mail or without it.
Abort(r) ==
  /\ pc[r] # "idle"
  /\ End(r)
  /\ UNCHANGED <<state, expired, password, minted, mailed, history>>

Expire(t) ==
  /\ state[t] # "none" /\ t \notin expired
  /\ expired' = expired \cup {t}
  /\ UNCHANGED <<state, lock, userLock, password, request, minted, mailed, history>>

Job(r) == Outstanding(r) \/ Mark(r) \/ Issue(r) \/ \E d \in BOOLEAN : Mail(r, d)
Confirmation(r) ==
  (\E t \in Tokens : Find(r, t)) \/ Burn(r) \/ WriteUser(r) \/ Confirm(r)

Next ==
  \/ \E r \in Requests : Job(r) \/ Confirmation(r) \/ Abort(r)
  \/ \E t \in Tokens : Expire(t)

Spec == Init /\ [][Next]_vars

-----------------------------------------------------------------------------
\* Types of the token rows and of the requests; only committed tokens are mailed.
TypeOK ==
  /\ state \in [Tokens -> {"none", "open", "used"}]
  /\ expired \subseteq Tokens
  /\ lock \in [Tokens -> Requests \cup {None}]
  /\ userLock \in Requests \cup {None}
  /\ password \in 0 .. MaxToken
  /\ pc \in [Requests -> {"idle", "mark", "mail", "burn", "user", "commit"}]
  /\ op \in [Requests -> {"none", "issue", "confirm"}]
  /\ tok \in [Requests -> 0 .. MaxToken]
  /\ todo \in [Requests -> SUBSET Tokens]
  /\ marked \in [Requests -> SUBSET Tokens]
  /\ minted \in 0 .. MaxToken
  /\ mailed \subseteq Committed
  /\ consumed \subseteq Tokens
  /\ older \in [Tokens -> SUBSET Tokens]

\* F17: once a token is issued, every token that existed when its job looked
\* is closed for good, whatever other jobs and confirmations are doing.
EarlierSuperseded ==
  \A t \in Committed : \A o \in older[t] : state[o] = "used"

\* F15 to F17: a token is closed only because a confirmation used it, or because
\* a job that began after it was committed has issued a token in its place.  A
\* job that fails between marking and inserting leaves the earlier links alone.
ClosedForAReason ==
  \A t \in Committed : state[t] = "used"
    => t \in consumed \/ \E n \in Committed : t \in older[n]

\* F16: the password was changed only together with its token being used, in
\* whatever state a crash left things.
TokenBurned == password # 0 => state[password] = "used" /\ password \in mailed
=============================================================================
