------------------------------ MODULE Invites ------------------------------
(***************************************************************************)
(* Invites (F1, F5, F7): issue, resend, revoke, and the registration that  *)
(* redeems one, statement by statement at READ COMMITTED.                  *)
(*                                                                         *)
(* Issue and resend send their mail inside the transaction, after the      *)
(* INSERT or UPDATE and before COMMIT.  SQLAlchemy reads an invite once,   *)
(* without a lock, and later writes the changed columns by primary key;    *)
(* whatever the row holds by then is not looked at again.                  *)
(***************************************************************************)
EXTENDS Naturals, FiniteSets

CONSTANTS
  InviteIds,  \* rows of the invites table that are or may come to exist
  EmailOf,    \* the address each is for; several may be for one address
  Names,      \* usernames people choose
  Requests,   \* concurrently served requests
  MaxToken,   \* bound on the tokens minted
  None

ASSUME InviteAssumption ==
  MaxToken \in Nat /\ None \notin Requests /\ None \notin InviteIds

VARIABLES
  status,    \* invites.status of the committed row; none: there is no row
  token,     \* the token whose hash the row holds; 0: no row
  expired,   \* expires_at has passed
  lock,      \* the request holding the row lock
  accounts,  \* committed users, with the invite each came from
  pc, op, inv,
  tok,       \* the token a request has minted
  draft,     \* the users row it is about to insert, or has inserted uncommitted
  minted,    \* number of tokens minted
  mailed,    \* tokens that reached the mail server
  latest,    \* the last of them for each invite
  doubtful   \* invites whose last mail was followed by a rollback

request == <<pc, op, inv, tok, draft>>
mail == <<minted, mailed, latest, doubtful>>
vars == <<status, token, expired, lock, accounts, request, mail>>

Account == [email : {EmailOf[i] : i \in InviteIds}, name : Names, via : InviteIds]
NoAccount == [email |-> None, name |-> None, via |-> None]

Taken(a, as) == \E b \in as : b.email = a.email \/ b.name = a.name
Inserted == {draft[r] : r \in {s \in Requests : op[s] = "register" /\ pc[s] = "commit"}}

\* Some invites were issued, mailed, and are pending.
Init ==
  /\ status \in [InviteIds -> {"none", "pending"}]
  /\ \E start \in [InviteIds -> 0 .. MaxToken] :
       /\ \A i \in InviteIds : start[i] = 0 <=> status[i] = "none"
       /\ \A i, j \in InviteIds : start[i] = start[j] /\ start[i] # 0 => i = j
       /\ token = start /\ latest = start
       /\ mailed = {start[i] : i \in InviteIds} \ {0}
       /\ minted = Cardinality(mailed)
       /\ \A n \in mailed : n <= minted
  /\ expired = [i \in InviteIds |-> FALSE]
  /\ lock = [i \in InviteIds |-> None]
  /\ accounts = {}
  /\ pc = [r \in Requests |-> "idle"]
  /\ op = [r \in Requests |-> "none"]
  /\ inv = [r \in Requests |-> None]
  /\ tok = [r \in Requests |-> 0]
  /\ draft = [r \in Requests |-> NoAccount]
  /\ doubtful = [i \in InviteIds |-> FALSE]

(***************************************************************************)
(* Transactions                                                            *)
(***************************************************************************)
Goto(r, step) == pc' = [pc EXCEPT ![r] = step]

\* The answer, after COMMIT or ROLLBACK: the row lock is free.
End(r) ==
  /\ Goto(r, "idle")
  /\ lock' = [i \in InviteIds |-> IF lock[i] = r THEN None ELSE lock[i]]
  /\ op' = [op EXCEPT ![r] = "none"]
  /\ inv' = [inv EXCEPT ![r] = None]
  /\ tok' = [tok EXCEPT ![r] = 0]
  /\ draft' = [draft EXCEPT ![r] = NoAccount]

Enter(r, o, step, i) ==
  /\ pc[r] = "idle"
  /\ Goto(r, step)
  /\ op' = [op EXCEPT ![r] = o]
  /\ inv' = [inv EXCEPT ![r] = i]

\* The lock an UPDATE of the row takes, once nobody else has it.
TakeLock(r) ==
  /\ lock[inv[r]] \in {None, r}
  /\ lock' = [lock EXCEPT ![inv[r]] = r]

\* generate_raw_invite_token
Mint(r) ==
  /\ minted < MaxToken
  /\ minted' = minted + 1
  /\ tok' = [tok EXCEPT ![r] = minted + 1]

(***************************************************************************)
(* issue_invite, resend_invite, revoke_invite_route                        *)
(***************************************************************************)
\* is_email_registered, else 409; the id of the new row is fresh.
Issue(r, i) ==
  /\ status[i] = "none"
  /\ \A s \in Requests : inv[s] # i
  /\ \A a \in accounts : a.email # EmailOf[i]
  /\ Enter(r, "issue", "insert", i)
  /\ UNCHANGED <<status, token, expired, lock, accounts, tok, draft, mail>>

\* create_invite: the row is flushed and nobody else sees it.
Insert(r) ==
  /\ pc[r] = "insert"
  /\ Mint(r)
  /\ Goto(r, "mail")
  /\ UNCHANGED <<status, token, expired, lock, accounts, op, inv, draft, mailed, latest, doubtful>>

\* _get_invite_or_404; an invite that is not pending is answered 409.
Resend(r, i) ==
  /\ status[i] = "pending"
  /\ Enter(r, "resend", "rotate", i)
  /\ UNCHANGED <<status, token, expired, lock, accounts, tok, draft, mail>>

\* Mutant: without the flush, so that the row is not locked before the mail.
RotateUnflushed(r) ==
  /\ pc[r] = "rotate"
  /\ Mint(r)
  /\ Goto(r, "mail")
  /\ UNCHANGED <<status, token, expired, lock, accounts, op, inv, draft, mailed, latest, doubtful>>

\* rotate_invite_token: the UPDATE of token_hash and expires_at.
Rotate(r) ==
  /\ pc[r] = "rotate"
  /\ TakeLock(r)
  /\ Mint(r)
  /\ Goto(r, "mail")
  /\ UNCHANGED <<status, token, expired, accounts, op, inv, draft, mailed, latest, doubtful>>

\* The token's link reaches the mail server.
Delivered(r) ==
  /\ mailed' = mailed \cup {tok[r]}
  /\ latest' = [latest EXCEPT ![inv[r]] = tok[r]]
  /\ UNCHANGED minted

\* send_invite_email within its attempts.
Mail(r) ==
  /\ pc[r] = "mail"
  /\ Delivered(r)
  /\ Goto(r, "commit")
  /\ UNCHANGED <<status, token, expired, lock, accounts, op, inv, tok, draft, doubtful>>

\* Mutant: an EmailDeliveryError is not answered with a rollback.
MailFailureIgnored(r) ==
  /\ pc[r] = "mail"
  /\ Goto(r, "commit")
  /\ UNCHANGED <<status, token, expired, lock, accounts, op, inv, tok, draft, mail>>

\* EmailDeliveryError: rollback and 502.
MailFails(r) ==
  /\ pc[r] = "mail"
  /\ End(r)
  /\ UNCHANGED <<status, token, expired, accounts, mail>>

\* An attempt that timed out had been accepted by the mail server; rollback.
MailUnsure(r) ==
  /\ pc[r] = "mail"
  /\ Delivered(r)
  /\ doubtful' = [doubtful EXCEPT ![inv[r]] = TRUE]
  /\ End(r)
  /\ UNCHANGED <<status, token, expired, accounts>>

\* Mutant: the whole row is written back as it was read, pending.
CommitWritesRow(r) ==
  /\ pc[r] = "commit" /\ op[r] \in {"issue", "resend"}
  /\ status' = [status EXCEPT ![inv[r]] = "pending"]
  /\ token' = [token EXCEPT ![inv[r]] = tok[r]]
  /\ expired' = [expired EXCEPT ![inv[r]] = FALSE]
  /\ doubtful' = [doubtful EXCEPT ![inv[r]] = FALSE]
  /\ End(r)
  /\ UNCHANGED <<accounts, minted, mailed, latest>>

\* COMMIT of an issue or resend; only an issue writes the status.
Commit(r) ==
  /\ pc[r] = "commit" /\ op[r] \in {"issue", "resend"}
  /\ status' = [status EXCEPT ![inv[r]] = IF op[r] = "issue" THEN "pending" ELSE @]
  /\ token' = [token EXCEPT ![inv[r]] = tok[r]]
  /\ expired' = [expired EXCEPT ![inv[r]] = FALSE]
  /\ doubtful' = [doubtful EXCEPT ![inv[r]] = FALSE]
  /\ End(r)
  /\ UNCHANGED <<accounts, minted, mailed, latest>>

\* An accepted invite is answered 409; one revoked before is left as it is.
RevokeRead(r, i) ==
  /\ status[i] = "pending"
  /\ Enter(r, "revoke", "revoke", i)
  /\ UNCHANGED <<status, token, expired, lock, accounts, tok, draft, mail>>

\* revoke_invite: its UPDATE waits for the row, and COMMIT follows at once.
Revoke(r) ==
  /\ pc[r] = "revoke"
  /\ lock[inv[r]] \in {None, r}
  /\ status' = [status EXCEPT ![inv[r]] = "revoked"]
  /\ End(r)
  /\ UNCHANGED <<token, expired, accounts, mail>>

(***************************************************************************)
(* register                                                                *)
(***************************************************************************)
\* Mutant: takes the email from the request body.
RegisterTypedEmail(r, i, n) ==
  /\ token[i] \in mailed
  /\ status[i] = "pending" /\ ~expired[i]
  /\ Enter(r, "register", "identity", i)
  /\ draft' = [draft EXCEPT ![r] = [email |-> n, name |-> n, via |-> i]]
  /\ UNCHANGED <<status, token, expired, lock, accounts, tok, mail>>

\* find_valid_invite_by_token with a link that was mailed, else 410.
Register(r, i, n) ==
  /\ token[i] \in mailed
  /\ status[i] = "pending" /\ ~expired[i]
  /\ Enter(r, "register", "identity", i)
  /\ draft' = [draft EXCEPT ![r] = [email |-> EmailOf[i], name |-> n, via |-> i]]
  /\ UNCHANGED <<status, token, expired, lock, accounts, tok, mail>>

\* The password or a field is refused with 422, a taken identity with 409.
CheckIdentity(r) ==
  /\ pc[r] = "identity"
  /\ \/ End(r)
     \/ /\ ~Taken(draft[r], accounts)
        /\ Goto(r, "redeem")
        /\ UNCHANGED <<lock, op, inv, tok, draft>>
  /\ UNCHANGED <<status, token, expired, accounts, mail>>

\* redeem_invite and flush: first the UPDATE of the invite ...
Redeem(r) ==
  /\ pc[r] = "redeem"
  /\ TakeLock(r)
  /\ Goto(r, "user")
  /\ UNCHANGED <<status, token, expired, accounts, op, inv, tok, draft, mail>>

\* Mutant: the unique indexes are missing.
InsertUnchecked(r) ==
  /\ pc[r] = "user"
  /\ Goto(r, "commit")
  /\ UNCHANGED <<status, token, expired, lock, accounts, op, inv, tok, draft, mail>>

\* ... then the INSERT of the user: it waits for an uncommitted row with its
\* email or username, and a unique violation rolls everything back.
InsertUser(r) ==
  /\ pc[r] = "user"
  /\ ~Taken(draft[r], Inserted)
  /\ IF Taken(draft[r], accounts)
       THEN End(r)
       ELSE Goto(r, "commit") /\ UNCHANGED <<lock, op, inv, tok, draft>>
  /\ UNCHANGED <<status, token, expired, accounts, mail>>

\* The invite accepted and the user inserted, in one COMMIT.
CommitUser(r) ==
  /\ pc[r] = "commit" /\ op[r] = "register"
  /\ status' = [status EXCEPT ![inv[r]] = "accepted"]
  /\ accounts' = accounts \cup {draft[r]}
  /\ End(r)
  /\ UNCHANGED <<token, expired, mail>>

(***************************************************************************)
(* Environment                                                             *)
(***************************************************************************)
\* A failing statement or COMMIT, a crash: rollback, after the mail or before.
Abort(r) ==
  /\ pc[r] # "idle"
  /\ doubtful' = IF pc[r] = "commit" /\ op[r] \in {"issue", "resend"}
                   THEN [doubtful EXCEPT ![inv[r]] = TRUE] ELSE doubtful
  /\ End(r)
  /\ UNCHANGED <<status, token, expired, accounts, minted, mailed, latest>>

Expire(i) ==
  /\ status[i] # "none" /\ ~expired[i]
  /\ expired' = [expired EXCEPT ![i] = TRUE]
  /\ UNCHANGED <<status, token, lock, accounts, request, mail>>

Begin(r) ==
  \E i \in InviteIds :
    \/ Issue(r, i) \/ Resend(r, i) \/ RevokeRead(r, i)
    \/ \E n \in Names : Register(r, i, n)
Send(r) == Insert(r) \/ Rotate(r) \/ Mail(r) \/ MailFails(r) \/ MailUnsure(r) \/ Commit(r)
Redemption(r) == CheckIdentity(r) \/ Redeem(r) \/ InsertUser(r) \/ CommitUser(r)

Next ==
  \/ \E r \in Requests : Begin(r) \/ Send(r) \/ Revoke(r) \/ Redemption(r) \/ Abort(r)
  \/ \E i \in InviteIds : Expire(i)

Spec == Init /\ [][Next]_vars

-----------------------------------------------------------------------------
\* Types of the invite rows, the users, the requests and the mails.
TypeOK ==
  /\ status \in [InviteIds -> {"none", "pending", "accepted", "revoked"}]
  /\ token \in [InviteIds -> 0 .. MaxToken]
  /\ expired \in [InviteIds -> BOOLEAN]
  /\ lock \in [InviteIds -> Requests \cup {None}]
  /\ accounts \in SUBSET Account
  /\ pc \in [Requests -> {"idle", "insert", "rotate", "mail", "revoke", "identity",
                          "redeem", "user", "commit"}]
  /\ op \in [Requests -> {"none", "issue", "resend", "revoke", "register"}]
  /\ inv \in [Requests -> InviteIds \cup {None}]
  /\ tok \in [Requests -> 0 .. MaxToken]
  /\ draft \in [Requests -> Account \cup {NoAccount}]
  /\ minted \in 0 .. MaxToken
  /\ mailed \in SUBSET (1 .. MaxToken)
  /\ latest \in [InviteIds -> 0 .. MaxToken]
  /\ doubtful \in [InviteIds -> BOOLEAN]

\* F5, F7, single use: an invite that is redeemed by several registrations at
\* once, or revoked or resent during one, makes at most one user; it is
\* accepted only if it made one, and it is not pending any more when it did.
RedeemedOnce ==
  \A i \in InviteIds :
    /\ \A a, b \in accounts : a.via = i /\ b.via = i => a = b
    /\ status[i] = "accepted" => \E a \in accounts : a.via = i
    /\ status[i] \in {"none", "pending"} => \A a \in accounts : a.via # i

\* Invite's docstring, "there is no transition back to pending": not even by a
\* resend that read the row before a revocation or a redemption.
NeverPendingAgain ==
  [][\A i \in InviteIds : status[i] \in {"accepted", "revoked"} => status'[i] # "pending"]_vars

\* "Never leave a dangling, never-delivered invite": the token of a committed
\* row has been mailed.
TokenWasMailed == \A i \in InviteIds : status[i] # "none" => token[i] \in mailed

\* rotate_invite_token: with resends racing, the link in the last mail is the
\* one that works, unless a mail went out whose transaction was rolled back.
LatestLinkWorks ==
  \A i \in InviteIds :
    /\ ~doubtful[i]
    /\ \A r \in Requests : inv[r] = i /\ pc[r] = "commit" => op[r] = "register"
    => latest[i] = token[i]
=============================================================================
