--------------------------- MODULE InvitesProofs ---------------------------
(***************************************************************************)
(* Invites for any number of invites, registrations, resends and           *)
(* revocations at once.                                                    *)
(***************************************************************************)
EXTENDS Invites, FiniteSetTheorems, TLAPS

\* A mail of the request's invite went out or is about to; its commit follows.
Sending(r) == op[r] \in {"issue", "resend"} /\ pc[r] \in {"mail", "commit"}

\* Where each route can be; an issue has its row to itself, any other route a
\* committed row.
RoutesOK ==
  \A r \in Requests :
    /\ op[r] = "none" => pc[r] = "idle" /\ inv[r] = None
    /\ op[r] # "none" => inv[r] \in InviteIds
    /\ op[r] = "issue" => /\ pc[r] \in {"insert", "mail", "commit"}
                          /\ status[inv[r]] = "none"
                          /\ \A q \in Requests : inv[q] = inv[r] => q = r
    /\ op[r] = "resend" => pc[r] \in {"rotate", "mail", "commit"}
    /\ op[r] = "revoke" => pc[r] = "revoke"
    /\ op[r] = "register" => pc[r] \in {"identity", "redeem", "user", "commit"}
    /\ op[r] \in {"resend", "revoke", "register"} => status[inv[r]] # "none"

\* Whoever sends a mail has the row to itself until it commits, and the mail
\* sent last is its own.
MailsOK ==
  \A r \in Requests : Sending(r) =>
    /\ tok[r] \in 1 .. MaxToken
    /\ op[r] = "resend" => lock[inv[r]] = r
    /\ pc[r] = "commit" => tok[r] \in mailed /\ latest[inv[r]] = tok[r]

\* A registration's user is the invited one, and the unique index has let only
\* one row with an address through.
DraftsOK ==
  \A r \in Requests : op[r] = "register" =>
    /\ draft[r] \in Account /\ draft[r].email = EmailOf[inv[r]] /\ draft[r].via = inv[r]
    /\ pc[r] = "commit" =>
         /\ \A a \in accounts : a.email # draft[r].email
         /\ \A q \in Requests : op[q] = "register" /\ pc[q] = "commit"
                                  /\ draft[q].email = draft[r].email => q = r

\* An address has one user, and each user the address of its invite.
AccountsOK ==
  \A a \in accounts :
    /\ a.email = EmailOf[a.via] /\ a.via \in InviteIds
    /\ \A b \in accounts : b.email = a.email => b = a

StatusOK ==
  \A i \in InviteIds :
    /\ status[i] = "accepted" => \E a \in accounts : a.via = i
    /\ status[i] \in {"none", "pending"} => \A a \in accounts : a.via # i

InviteInv ==
  /\ TypeOK /\ RoutesOK /\ MailsOK /\ DraftsOK /\ AccountsOK /\ StatusOK
  /\ TokenWasMailed /\ LatestLinkWorks

\* What End does, spelled out.
LEMMA EndIs ==
  ASSUME TypeOK, NEW r \in Requests, End(r)
  PROVE  /\ pc'[r] = "idle" /\ op'[r] = "none" /\ inv'[r] = None
         /\ \A q \in Requests \ {r} :
              /\ pc'[q] = pc[q] /\ op'[q] = op[q] /\ inv'[q] = inv[q]
              /\ tok'[q] = tok[q] /\ draft'[q] = draft[q]
         /\ \A i \in InviteIds : \A q \in Requests \ {r} : lock[i] = q => lock'[i] = q
         /\ lock' \in [InviteIds -> Requests \cup {None}]
         /\ pc' \in [Requests -> {"idle", "insert", "rotate", "mail", "revoke", "identity",
                                  "redeem", "user", "commit"}]
         /\ op' \in [Requests -> {"none", "issue", "resend", "revoke", "register"}]
         /\ inv' \in [Requests -> InviteIds \cup {None}]
         /\ tok' \in [Requests -> 0 .. MaxToken]
         /\ draft' \in [Requests -> Account \cup {NoAccount}]
<1> USE InviteAssumption DEF TypeOK, End, Goto
<1>1. /\ pc'[r] = "idle" /\ op'[r] = "none" /\ inv'[r] = None
      /\ \A q \in Requests \ {r} :
           /\ pc'[q] = pc[q] /\ op'[q] = op[q] /\ inv'[q] = inv[q]
           /\ tok'[q] = tok[q] /\ draft'[q] = draft[q]
  OBVIOUS
<1>2. /\ \A i \in InviteIds : \A q \in Requests \ {r} : lock[i] = q => lock'[i] = q
      /\ lock' \in [InviteIds -> Requests \cup {None}]
  OBVIOUS
<1>3. /\ pc' \in [Requests -> {"idle", "insert", "rotate", "mail", "revoke", "identity",
                               "redeem", "user", "commit"}]
      /\ op' \in [Requests -> {"none", "issue", "resend", "revoke", "register"}]
      /\ inv' \in [Requests -> InviteIds \cup {None}]
      /\ tok' \in [Requests -> 0 .. MaxToken]
      /\ draft' \in [Requests -> Account \cup {NoAccount}]
  OBVIOUS
<1> QED BY <1>1, <1>2, <1>3

\* A request that ends without a write keeps the invariant, if it marks an
\* invite whose mail it leaves behind as doubtful.
LEMMA EndKeepsInv ==
  ASSUME InviteInv, NEW r \in Requests, End(r),
         UNCHANGED <<status, token, expired, accounts, minted>>,
         mailed' \in SUBSET (1 .. MaxToken), mailed \subseteq mailed',
         latest' \in [InviteIds -> 0 .. MaxToken], doubtful' \in [InviteIds -> BOOLEAN],
         \A i \in InviteIds :
           \/ /\ latest'[i] = latest[i] /\ doubtful'[i] = doubtful[i]
              /\ ~(inv[r] = i /\ pc[r] = "commit" /\ op[r] # "register")
           \/ doubtful'[i] /\ i = inv[r] /\ Sending(r)
  PROVE  InviteInv'
<1> USE InviteAssumption DEF InviteInv
<1> DEFINE Others == Requests \ {r}
<1>1. /\ pc'[r] = "idle" /\ op'[r] = "none" /\ inv'[r] = None
      /\ \A q \in Others :
           /\ pc'[q] = pc[q] /\ op'[q] = op[q] /\ inv'[q] = inv[q]
           /\ tok'[q] = tok[q] /\ draft'[q] = draft[q]
      /\ \A i \in InviteIds : \A q \in Others : lock[i] = q => lock'[i] = q
  BY EndIs
<1>2. TypeOK'
  BY EndIs DEF TypeOK
<1>3. RoutesOK'
  BY <1>1 DEF RoutesOK, TypeOK
<1>4. MailsOK'
  <2> SUFFICES ASSUME NEW q \in Requests, Sending(q)'
               PROVE  /\ tok'[q] \in 1 .. MaxToken
                      /\ op'[q] = "resend" => lock'[inv'[q]] = q
                      /\ pc'[q] = "commit" => tok'[q] \in mailed' /\ latest'[inv'[q]] = tok'[q]
    BY DEF MailsOK
  <2>1. q \in Others /\ Sending(q)
    BY <1>1 DEF Sending
  <2>2. inv[q] \in InviteIds /\ op[q] # "none"
    BY <2>1 DEF RoutesOK, Sending
  <2>3. pc[q] = "commit" => latest'[inv[q]] = latest[inv[q]]
    <3>1. SUFFICES ASSUME inv[q] = inv[r], Sending(r) PROVE FALSE
      BY <2>2
    <3>2. op[q] = "issue" \/ op[r] = "issue" => q = r
      BY <2>1, <3>1 DEF RoutesOK
    <3>3. op[q] = "resend" /\ op[r] = "resend" => lock[inv[q]] = q /\ lock[inv[q]] = r
      BY <2>1, <3>1 DEF MailsOK
    <3> QED BY <2>1, <3>1, <3>2, <3>3 DEF Sending
  <2> QED BY <1>1, <2>1, <2>2, <2>3 DEF MailsOK
<1>5. DraftsOK'
  BY <1>1 DEF DraftsOK
<1>6. AccountsOK' /\ StatusOK'
  BY DEF AccountsOK, StatusOK
<1>7. TokenWasMailed'
  BY DEF TokenWasMailed
<1>8. LatestLinkWorks'
  BY <1>1 DEF LatestLinkWorks
<1> QED BY <1>2, <1>3, <1>4, <1>5, <1>6, <1>7, <1>8

\* A route begins on invite i.
LEMMA EnterKeepsInv ==
  ASSUME InviteInv, NEW r \in Requests, NEW i \in InviteIds,
         Issue(r, i) \/ Resend(r, i) \/ RevokeRead(r, i) \/ \E n \in Names : Register(r, i, n)
  PROVE  InviteInv'
<1> USE InviteAssumption DEF InviteInv
<1>1. PICK o \in {"issue", "resend", "revoke", "register"}, step \in
             {"insert", "rotate", "revoke", "identity"} :
        /\ pc[r] = "idle" /\ Goto(r, step)
        /\ op' = [op EXCEPT ![r] = o] /\ inv' = [inv EXCEPT ![r] = i]
        /\ o = "issue" => step = "insert" /\ status[i] = "none" /\ \A q \in Requests : inv[q] # i
        /\ o = "resend" => step = "rotate"
        /\ o = "revoke" => step = "revoke"
        /\ o = "register" => step = "identity"
        /\ o # "issue" => status[i] = "pending"
  BY DEF Issue, Resend, RevokeRead, Register, Enter
<1>2. UNCHANGED <<status, token, expired, lock, accounts, tok, minted, mailed, latest, doubtful>>
  BY DEF Issue, Resend, RevokeRead, Register, mail
<1>3. \A q \in Requests \ {r} : draft'[q] = draft[q]
  BY DEF Issue, Resend, RevokeRead, Register, TypeOK
<1>4. draft' \in [Requests -> Account \cup {NoAccount}]
  <2>1. ASSUME NEW n \in Names, Register(r, i, n) PROVE draft' \in [Requests -> Account \cup {NoAccount}]
    <3>1. [email |-> EmailOf[i], name |-> n, via |-> i] \in Account
      BY DEF Account
    <3> QED BY <2>1, <3>1 DEF Register, TypeOK
  <2> QED BY <2>1 DEF Issue, Resend, RevokeRead, TypeOK
<1>5. o = "register" =>
        draft'[r] \in Account /\ draft'[r].email = EmailOf[i] /\ draft'[r].via = i
  <2>1. SUFFICES ASSUME o = "register" PROVE
           draft'[r] \in Account /\ draft'[r].email = EmailOf[i] /\ draft'[r].via = i
    OBVIOUS
  <2>2. op'[r] = "register"
    BY <1>1, <2>1 DEF TypeOK
  <2>3. PICK n \in Names : Register(r, i, n)
    BY <2>2 DEF Issue, Resend, RevokeRead, Enter, TypeOK
  <2> QED BY <2>3 DEF Register, TypeOK, Account
<1>6. /\ pc'[r] = step /\ op'[r] = o /\ inv'[r] = i
      /\ \A q \in Requests \ {r} : pc'[q] = pc[q] /\ op'[q] = op[q] /\ inv'[q] = inv[q]
  BY <1>1 DEF Goto, TypeOK
<1>7. TypeOK'
  BY <1>1, <1>2, <1>4 DEF TypeOK, Goto
<1>9. RoutesOK'
  <2>1. \A q \in Requests \ {r} : op[q] = "issue" => inv[q] # i
    BY <1>1 DEF RoutesOK
  <2> QED BY <1>1, <1>2, <1>6, <2>1 DEF RoutesOK
<1>10. MailsOK'
  BY <1>2, <1>6 DEF MailsOK, Sending
<1>11. DraftsOK'
  BY <1>1, <1>2, <1>3, <1>5, <1>6 DEF DraftsOK
<1>12. AccountsOK' /\ StatusOK' /\ TokenWasMailed'
  BY <1>2 DEF AccountsOK, StatusOK, TokenWasMailed
<1>13. LatestLinkWorks'
  <2>1. pc[r] = "idle"
    BY <1>1
  <2> QED BY <1>2, <1>6, <2>1 DEF LatestLinkWorks
<1> QED BY <1>7, <1>9, <1>10, <1>11, <1>12, <1>13

\* A request moves on to step without writing a row; what it owns may change.
LEMMA MoveKeepsRoutes ==
  ASSUME InviteInv, NEW r \in Requests, NEW step, Goto(r, step),
         UNCHANGED <<status, accounts, op, inv, draft>>,
         op[r] = "issue" => step \in {"insert", "mail", "commit"},
         op[r] = "resend" => step \in {"rotate", "mail", "commit"},
         op[r] = "register" => step \in {"identity", "redeem", "user"},
         op[r] \in {"issue", "resend", "register"}
  PROVE  /\ RoutesOK' /\ DraftsOK' /\ AccountsOK' /\ StatusOK'
         /\ pc'[r] = step /\ \A q \in Requests \ {r} : pc'[q] = pc[q]
<1> USE DEF InviteInv
<1>1. pc'[r] = step /\ \A q \in Requests \ {r} : pc'[q] = pc[q]
  BY DEF Goto, TypeOK
<1>2. RoutesOK'
  BY <1>1 DEF RoutesOK
<1>3. DraftsOK'
  BY <1>1 DEF DraftsOK
<1>4. AccountsOK' /\ StatusOK'
  BY DEF AccountsOK, StatusOK
<1> QED BY <1>1, <1>2, <1>3, <1>4

\* create_invite and rotate_invite_token.
LEMMA MintKeepsInv ==
  ASSUME InviteInv, NEW r \in Requests, Insert(r) \/ Rotate(r)
  PROVE  InviteInv'
<1> USE InviteAssumption DEF InviteInv
<1>1. /\ pc[r] \in {"insert", "rotate"} /\ Goto(r, "mail") /\ Mint(r)
      /\ UNCHANGED <<status, token, expired, accounts, op, inv, draft, mailed, latest, doubtful>>
  BY DEF Insert, Rotate
<1>2. \/ op[r] = "issue" /\ lock' = lock
      \/ /\ op[r] = "resend" /\ inv[r] \in InviteIds
         /\ lock[inv[r]] \in {None, r} /\ lock' = [lock EXCEPT ![inv[r]] = r]
  BY DEF Insert, Rotate, TakeLock, RoutesOK, TypeOK
<1>3. /\ RoutesOK' /\ DraftsOK' /\ AccountsOK' /\ StatusOK'
      /\ pc'[r] = "mail" /\ \A q \in Requests \ {r} : pc'[q] = pc[q]
  BY <1>1, <1>2, MoveKeepsRoutes
<1>4. /\ minted + 1 \in 1 .. MaxToken /\ minted' = minted + 1
      /\ tok'[r] = minted + 1 /\ \A q \in Requests \ {r} : tok'[q] = tok[q]
      /\ tok' \in [Requests -> 0 .. MaxToken]
  BY <1>1 DEF Mint, TypeOK
<1>5. TypeOK'
  <2>1. lock' \in [InviteIds -> Requests \cup {None}]
    BY <1>2 DEF TypeOK
  <2>2. pc' \in [Requests -> {"idle", "insert", "rotate", "mail", "revoke", "identity",
                            "redeem", "user", "commit"}]
    BY <1>1 DEF TypeOK, Goto
  <2>3. minted' \in 0 .. MaxToken
    BY <1>4
  <2> QED BY <1>1, <1>4, <2>1, <2>2, <2>3 DEF TypeOK
<1>6. MailsOK'
  <2> SUFFICES ASSUME NEW q \in Requests, Sending(q)'
               PROVE  /\ tok'[q] \in 1 .. MaxToken
                      /\ op'[q] = "resend" => lock'[inv'[q]] = q
                      /\ pc'[q] = "commit" => tok'[q] \in mailed' /\ latest'[inv'[q]] = tok'[q]
    BY DEF MailsOK
  <2>1. CASE q = r
    BY <1>1, <1>2, <1>3, <1>4, <2>1 DEF TypeOK
  <2>2. CASE q # r
    <3>1. Sending(q)
      BY <1>1, <1>3, <2>2 DEF Sending
    <3>2. op[q] = "resend" => lock[inv[q]] = q /\ inv[q] \in InviteIds
      BY <3>1 DEF MailsOK, RoutesOK
    <3>3. op[q] = "resend" => lock'[inv[q]] = q
      <4>1. SUFFICES ASSUME op[q] = "resend" PROVE lock'[inv[q]] = q
        OBVIOUS
      <4>2. CASE lock' = lock
        BY <3>2, <4>1, <4>2
      <4>3. CASE lock[inv[r]] \in {None, r} /\ lock' = [lock EXCEPT ![inv[r]] = r]
        <5>1. lock[inv[q]] \notin {None, r}
          BY <2>2, <3>2, <4>1
        <5>2. inv[q] # inv[r]
          BY <4>3, <5>1
        <5> QED BY <3>2, <4>1, <4>3, <5>2 DEF TypeOK
      <4> QED BY <1>2, <4>2, <4>3
    <3> QED BY <1>1, <1>3, <1>4, <2>2, <3>1, <3>3 DEF MailsOK
  <2> QED BY <2>1, <2>2
<1>7. TokenWasMailed'
  BY <1>1 DEF TokenWasMailed
<1>8. LatestLinkWorks'
  BY <1>1, <1>3 DEF LatestLinkWorks
<1> QED BY <1>3, <1>5, <1>6, <1>7, <1>8

\* The mail goes out: only this request is sending one for its invite.
LEMMA MailKeepsInv ==
  ASSUME InviteInv, NEW r \in Requests, Mail(r)
  PROVE  InviteInv'
<1> USE InviteAssumption DEF InviteInv
<1>1. /\ pc[r] = "mail" /\ Goto(r, "commit") /\ op[r] \in {"issue", "resend"}
      /\ inv[r] \in InviteIds /\ Sending(r)
      /\ mailed' = mailed \cup {tok[r]} /\ latest' = [latest EXCEPT ![inv[r]] = tok[r]]
      /\ UNCHANGED <<status, token, expired, lock, accounts, op, inv, tok, draft, doubtful, minted>>
  BY DEF Mail, Delivered, RoutesOK, TypeOK, Sending
<1>2. tok[r] \in 1 .. MaxToken
  BY <1>1 DEF MailsOK
<1>3. /\ RoutesOK' /\ DraftsOK' /\ AccountsOK' /\ StatusOK'
      /\ pc'[r] = "commit" /\ \A q \in Requests \ {r} : pc'[q] = pc[q]
  BY <1>1, MoveKeepsRoutes
<1>4. TypeOK'
  BY <1>1, <1>2 DEF TypeOK, Goto
<1>5. /\ latest'[inv[r]] = tok[r]
      /\ \A i \in InviteIds : i # inv[r] => latest'[i] = latest[i]
  BY <1>1 DEF TypeOK
<1>6. MailsOK'
  <2> SUFFICES ASSUME NEW q \in Requests \ {r}, Sending(q), pc[q] = "commit"
               PROVE  latest'[inv[q]] = latest[inv[q]]
    BY <1>1, <1>2, <1>3, <1>5 DEF MailsOK, Sending
  <2>1. inv[q] \in InviteIds /\ op[q] \in {"issue", "resend"}
    BY DEF RoutesOK, Sending
  <2>2. inv[q] # inv[r]
    <3>1. SUFFICES ASSUME inv[q] = inv[r] PROVE FALSE
      OBVIOUS
    <3>2. op[q] # "issue" /\ op[r] # "issue"
      BY <3>1 DEF RoutesOK
    <3>3. lock[inv[q]] = q /\ lock[inv[r]] = r
      BY <1>1, <2>1, <3>2 DEF MailsOK
    <3> QED BY <3>1, <3>3
  <2> QED BY <1>5, <2>1, <2>2
<1>7. TokenWasMailed'
  BY <1>1 DEF TokenWasMailed
<1>8. LatestLinkWorks'
  BY <1>1, <1>3, <1>5 DEF LatestLinkWorks
<1> QED BY <1>3, <1>4, <1>6, <1>7, <1>8

\* A request that ends takes nothing from another one that is sending.
LEMMA EndKeepsMails ==
  ASSUME InviteInv, NEW r \in Requests, End(r), UNCHANGED <<mailed, latest>>
  PROVE  MailsOK'
<1> USE InviteAssumption DEF InviteInv
<1> SUFFICES ASSUME NEW q \in Requests, Sending(q)'
             PROVE  /\ tok'[q] \in 1 .. MaxToken
                    /\ op'[q] = "resend" => lock'[inv'[q]] = q
                    /\ pc'[q] = "commit" => tok'[q] \in mailed' /\ latest'[inv'[q]] = tok'[q]
  BY DEF MailsOK
<1>1. q # r /\ Sending(q)
  BY EndIs DEF Sending
<1>2. inv[q] \in InviteIds
  BY <1>1 DEF RoutesOK, Sending
<1> QED BY <1>1, <1>2, EndIs DEF MailsOK

\* COMMIT of an issue or a resend.
LEMMA CommitKeepsInv ==
  ASSUME InviteInv, NEW r \in Requests, Commit(r)
  PROVE  InviteInv'
<1> USE InviteAssumption DEF InviteInv
<1> DEFINE i == inv[r]
<1>1. /\ Sending(r) /\ pc[r] = "commit" /\ i \in InviteIds /\ End(r)
      /\ tok[r] \in 1 .. MaxToken /\ tok[r] \in mailed /\ latest[i] = tok[r]
      /\ UNCHANGED <<accounts, minted, mailed, latest>>
  BY DEF Commit, Sending, RoutesOK, MailsOK
<1>2. /\ token' = [token EXCEPT ![i] = tok[r]] /\ token'[i] = tok[r]
      /\ \A j \in InviteIds : j # i => /\ status'[j] = status[j] /\ token'[j] = token[j]
                                       /\ doubtful'[j] = doubtful[j]
  BY <1>1 DEF Commit, TypeOK
<1>3. \/ op[r] = "issue" /\ status[i] = "none" /\ status'[i] = "pending"
      \/ op[r] = "resend" /\ status'[i] = status[i] /\ status[i] # "none"
  BY <1>1 DEF Commit, Sending, RoutesOK, TypeOK
<1>4. TypeOK'
  <2>1. /\ status' \in [InviteIds -> {"none", "pending", "accepted", "revoked"}]
        /\ token' \in [InviteIds -> 0 .. MaxToken]
        /\ expired' \in [InviteIds -> BOOLEAN] /\ doubtful' \in [InviteIds -> BOOLEAN]
    BY <1>1 DEF Commit, TypeOK
  <2> QED BY <1>1, <2>1, EndIs DEF TypeOK
<1>5. RoutesOK'
  BY <1>1, <1>2, <1>3, EndIs DEF RoutesOK
<1>6. MailsOK'
  BY <1>1, EndKeepsMails
<1>7. DraftsOK'
  BY <1>1, EndIs DEF DraftsOK
<1>8. AccountsOK' /\ StatusOK'
  BY <1>1, <1>2, <1>3 DEF AccountsOK, StatusOK
<1>9. TokenWasMailed'
  BY <1>1, <1>2 DEF TokenWasMailed
<1>10. LatestLinkWorks'
  BY <1>1, <1>2, EndIs DEF LatestLinkWorks
<1> QED BY <1>4, <1>5, <1>6, <1>7, <1>8, <1>9, <1>10

\* The writes that end an invite: a revocation, and a redemption with its user.
LEMMA FinalKeepsInv ==
  ASSUME InviteInv, NEW r \in Requests, Revoke(r) \/ CommitUser(r)
  PROVE  InviteInv'
<1> USE InviteAssumption DEF InviteInv
<1> DEFINE i == inv[r]
<1>1. /\ op[r] \in {"revoke", "register"} /\ i \in InviteIds /\ End(r) /\ status[i] # "none"
      /\ op[r] = "revoke" => pc[r] = "revoke"
      /\ UNCHANGED <<token, expired, minted, mailed, latest, doubtful>>
  BY DEF Revoke, CommitUser, RoutesOK, TypeOK, mail
<1>2. \/ op[r] = "revoke" /\ accounts' = accounts /\ status' = [status EXCEPT ![i] = "revoked"]
      \/ /\ op[r] = "register" /\ pc[r] = "commit" /\ accounts' = accounts \cup {draft[r]}
         /\ status' = [status EXCEPT ![i] = "accepted"]
  BY DEF Revoke, CommitUser, RoutesOK, TypeOK
<1>3. /\ status'[i] \in {"revoked", "accepted"}
      /\ \A j \in InviteIds : j # i => status'[j] = status[j]
  BY <1>1, <1>2 DEF TypeOK
<1>4. TypeOK'
  <2>1. status' \in [InviteIds -> {"none", "pending", "accepted", "revoked"}]
    BY <1>2 DEF TypeOK
  <2>2. accounts' \in SUBSET Account
    BY <1>2 DEF TypeOK, DraftsOK
  <2> QED BY <1>1, <2>1, <2>2, EndIs DEF TypeOK
<1>5. RoutesOK'
  BY <1>1, <1>3, EndIs DEF RoutesOK
<1>6. MailsOK'
  BY <1>1, EndKeepsMails
<1>7. op[r] = "register" /\ pc[r] = "commit" =>
        /\ draft[r].email = EmailOf[i] /\ draft[r].via = i
        /\ \A a \in accounts : a.email # draft[r].email
        /\ \A q \in Requests \ {r} :
             op[q] = "register" /\ pc[q] = "commit" => draft[q].email # draft[r].email
  BY DEF DraftsOK
<1>8. DraftsOK'
  <2>1. \A q \in Requests \ {r} : op[q] = "register" /\ pc[q] = "commit" =>
          \A a \in accounts' : a.email # draft[q].email
    BY <1>2, <1>7 DEF DraftsOK
  <2> QED BY <1>1, <2>1, EndIs DEF DraftsOK
<1>9. AccountsOK'
  BY <1>1, <1>2, <1>7 DEF AccountsOK
<1>10. StatusOK'
  BY <1>1, <1>2, <1>3, <1>7 DEF StatusOK, TypeOK
<1>11. TokenWasMailed'
  BY <1>1, <1>3 DEF TokenWasMailed
<1>12. LatestLinkWorks'
  BY <1>1, EndIs DEF LatestLinkWorks
<1> QED BY <1>4, <1>5, <1>6, <1>8, <1>9, <1>10, <1>11, <1>12

\* check_identity_not_taken, redeem_invite and the INSERT of the user.
LEMMA RegistrationKeepsInv ==
  ASSUME InviteInv, NEW r \in Requests, CheckIdentity(r) \/ Redeem(r) \/ InsertUser(r)
  PROVE  InviteInv'
<1> USE InviteAssumption DEF InviteInv
<1>1. /\ op[r] = "register" /\ inv[r] \in InviteIds
      /\ pc[r] \in {"identity", "redeem", "user"}
      /\ UNCHANGED <<status, token, expired, accounts, minted, mailed, latest, doubtful>>
  BY DEF CheckIdentity, Redeem, InsertUser, RoutesOK, TypeOK, mail
<1>2. CASE End(r)
  <2>1. /\ mailed' \in SUBSET (1 .. MaxToken) /\ latest' \in [InviteIds -> 0 .. MaxToken]
        /\ doubtful' \in [InviteIds -> BOOLEAN]
    BY <1>1 DEF TypeOK
  <2> QED BY <1>1, <1>2, <2>1, EndKeepsInv
<1>3. CASE ~End(r)
  <2>1. PICK step \in {"redeem", "user", "commit"} :
          /\ Goto(r, step)
          /\ step = "commit" => ~Taken(draft[r], Inserted) /\ ~Taken(draft[r], accounts)
    BY <1>3 DEF CheckIdentity, Redeem, InsertUser
  <2>2. UNCHANGED <<op, inv, tok, draft>>
    BY <1>3 DEF CheckIdentity, Redeem, InsertUser
  <2>3. pc'[r] = step /\ \A q \in Requests \ {r} : pc'[q] = pc[q]
    BY <2>1 DEF Goto, TypeOK
  <2>4. \/ lock' = lock
        \/ lock[inv[r]] \in {None, r} /\ lock' = [lock EXCEPT ![inv[r]] = r]
    BY <1>3 DEF CheckIdentity, Redeem, InsertUser, TakeLock
  <2>5. TypeOK'
    <3>1. lock' \in [InviteIds -> Requests \cup {None}]
      BY <2>4 DEF TypeOK
    <3>2. pc' \in [Requests -> {"idle", "insert", "rotate", "mail", "revoke", "identity",
                              "redeem", "user", "commit"}]
      BY <2>1 DEF TypeOK, Goto
    <3> QED BY <1>1, <2>2, <3>1, <3>2 DEF TypeOK
  <2>6. RoutesOK'
    BY <1>1, <2>2, <2>3 DEF RoutesOK
  <2>7. MailsOK'
    <3> SUFFICES ASSUME NEW q \in Requests, Sending(q), op[q] = "resend"
                 PROVE  lock'[inv[q]] = q
      BY <1>1, <2>2, <2>3 DEF MailsOK, Sending
    <3>1. lock[inv[q]] = q /\ inv[q] \in InviteIds /\ q # r
      BY <1>1 DEF MailsOK, RoutesOK
    <3> QED BY <2>4, <3>1 DEF TypeOK
  <2>8. DraftsOK'
    <3>1. CASE step # "commit"
      BY <1>1, <2>2, <2>3, <3>1 DEF DraftsOK
    <3>2. CASE step = "commit"
      <4>1. \A a \in accounts : a.email # draft[r].email
        BY <2>1, <3>2 DEF Taken
      <4>2. \A q \in Requests : op[q] = "register" /\ pc[q] = "commit" =>
              draft[q].email # draft[r].email
        BY <2>1, <3>2 DEF Taken, Inserted
      <4> QED BY <1>1, <2>2, <2>3, <4>1, <4>2 DEF DraftsOK
    <3> QED BY <3>1, <3>2
  <2>9. AccountsOK' /\ StatusOK' /\ TokenWasMailed'
    BY <1>1 DEF AccountsOK, StatusOK, TokenWasMailed
  <2>10. LatestLinkWorks'
    BY <1>1, <2>2, <2>3 DEF LatestLinkWorks
  <2> QED BY <2>5, <2>6, <2>7, <2>8, <2>9, <2>10
<1> QED BY <1>2, <1>3

\* A request that gives up: its mail failed, may have gone out, or it aborted.
LEMMA GiveUpKeepsInv ==
  ASSUME InviteInv, NEW r \in Requests, MailFails(r) \/ MailUnsure(r) \/ Abort(r)
  PROVE  InviteInv'
<1> USE InviteAssumption DEF InviteInv
<1>1. End(r) /\ UNCHANGED <<status, token, expired, accounts, minted>>
  BY DEF MailFails, MailUnsure, Abort, Delivered, mail
<1>2. CASE MailFails(r) \/ MailUnsure(r)
  <2>1. pc[r] = "mail" /\ Sending(r) /\ tok[r] \in 1 .. MaxToken /\ inv[r] \in InviteIds
    BY <1>2 DEF MailFails, MailUnsure, RoutesOK, MailsOK, Sending, TypeOK
  <2>2. CASE MailFails(r)
    BY <1>1, <2>1, <2>2, EndKeepsInv DEF MailFails, mail, TypeOK
  <2>3. CASE MailUnsure(r)
    <3>1. /\ mailed' = mailed \cup {tok[r]}
          /\ latest' = [latest EXCEPT ![inv[r]] = tok[r]]
          /\ doubtful' = [doubtful EXCEPT ![inv[r]] = TRUE]
      BY <2>3 DEF MailUnsure, Delivered
    <3>2. /\ mailed' \in SUBSET (1 .. MaxToken) /\ mailed \subseteq mailed'
          /\ latest' \in [InviteIds -> 0 .. MaxToken] /\ doubtful' \in [InviteIds -> BOOLEAN]
      BY <2>1, <3>1 DEF TypeOK
    <3>3. \A i \in InviteIds :
            \/ i # inv[r] /\ latest'[i] = latest[i] /\ doubtful'[i] = doubtful[i]
            \/ i = inv[r] /\ doubtful'[i]
      BY <2>1, <3>1 DEF TypeOK
    <3> QED BY <1>1, <2>1, <3>2, <3>3, EndKeepsInv
  <2> QED BY <1>2, <2>2, <2>3
<1>3. CASE Abort(r)
  <2>1. mailed' = mailed /\ latest' = latest
    BY <1>3 DEF Abort
  <2>2. mailed' \in SUBSET (1 .. MaxToken) /\ latest' \in [InviteIds -> 0 .. MaxToken]
    BY <2>1 DEF TypeOK
  <2>3. CASE pc[r] = "commit" /\ op[r] \in {"issue", "resend"}
    <3>1. inv[r] \in InviteIds /\ doubtful' = [doubtful EXCEPT ![inv[r]] = TRUE] /\ Sending(r)
      BY <1>3, <2>3 DEF Abort, RoutesOK, Sending
    <3>2. doubtful' \in [InviteIds -> BOOLEAN]
      BY <3>1 DEF TypeOK
    <3>3. \A i \in InviteIds :
            \/ i # inv[r] /\ doubtful'[i] = doubtful[i]
            \/ i = inv[r] /\ doubtful'[i]
      BY <3>1 DEF TypeOK
    <3> QED BY <1>1, <2>1, <2>2, <3>1, <3>2, <3>3, EndKeepsInv
  <2>4. CASE ~(pc[r] = "commit" /\ op[r] \in {"issue", "resend"})
    <3>1. doubtful' = doubtful /\ doubtful' \in [InviteIds -> BOOLEAN]
      BY <1>3, <2>4 DEF Abort, TypeOK
    <3>2. ~(pc[r] = "commit" /\ op[r] # "register")
      BY <2>4 DEF RoutesOK, TypeOK
    <3> QED BY <1>1, <2>1, <2>2, <3>1, <3>2, EndKeepsInv
  <2> QED BY <2>3, <2>4
<1> QED BY <1>2, <1>3

\* A clock step, and no step at all.
LEMMA ExpireKeepsInv ==
  ASSUME InviteInv, UNCHANGED vars \/ \E i \in InviteIds : Expire(i)
  PROVE  InviteInv'
<1> USE DEF InviteInv
<1>1. /\ UNCHANGED <<status, token, lock, accounts, pc, op, inv, tok, draft>>
      /\ UNCHANGED <<minted, mailed, latest, doubtful>>
      /\ expired' \in [InviteIds -> BOOLEAN]
  BY DEF vars, Expire, request, mail, TypeOK
<1>2. TypeOK'
  BY <1>1 DEF TypeOK
<1>3. RoutesOK' /\ MailsOK' /\ DraftsOK'
  BY <1>1 DEF RoutesOK, MailsOK, DraftsOK, Sending
<1>4. AccountsOK' /\ StatusOK' /\ TokenWasMailed' /\ LatestLinkWorks'
  BY <1>1 DEF AccountsOK, StatusOK, TokenWasMailed, LatestLinkWorks
<1> QED BY <1>2, <1>3, <1>4

\* The invites issued before the model starts are pending and mailed.
LEMMA InitInv == Init => InviteInv
<1> SUFFICES ASSUME Init PROVE InviteInv
  OBVIOUS
<1> USE InviteAssumption DEF InviteInv
<1>1. PICK start \in [InviteIds -> 0 .. MaxToken] :
        /\ \A i \in InviteIds : start[i] = 0 <=> status[i] = "none"
        /\ token = start /\ latest = start
        /\ mailed = {start[i] : i \in InviteIds} \ {0} /\ minted = Cardinality(mailed)
  BY DEF Init
<1>2. mailed \in SUBSET (1 .. MaxToken)
  BY <1>1
<1>3. minted \in 0 .. MaxToken
  <2>1. IsFiniteSet(1 .. MaxToken) /\ Cardinality(1 .. MaxToken) = MaxToken
    BY FS_Interval
  <2>2. Cardinality(mailed) \in Nat /\ Cardinality(mailed) <= MaxToken
    BY <1>2, <2>1, FS_Subset, FS_CardinalityType
  <2> QED BY <1>1, <2>2
<1>4. TypeOK
  BY <1>1, <1>2, <1>3 DEF Init, TypeOK
<1>5. RoutesOK /\ MailsOK /\ DraftsOK
  BY DEF Init, RoutesOK, MailsOK, DraftsOK, Sending
<1>6. AccountsOK /\ StatusOK
  BY DEF Init, AccountsOK, StatusOK
<1>7. TokenWasMailed /\ LatestLinkWorks
  BY <1>1 DEF TokenWasMailed, LatestLinkWorks
<1> QED BY <1>4, <1>5, <1>6, <1>7

LEMMA NextKeepsInv == InviteInv /\ [Next]_vars => InviteInv'
<1> SUFFICES ASSUME InviteInv, [Next]_vars PROVE InviteInv'
  OBVIOUS
<1>1. CASE UNCHANGED vars \/ \E i \in InviteIds : Expire(i)
  BY <1>1, ExpireKeepsInv
<1>2. ASSUME NEW r \in Requests, Begin(r) PROVE InviteInv'
  BY <1>2, EnterKeepsInv DEF Begin
<1>3. ASSUME NEW r \in Requests, Send(r) PROVE InviteInv'
  BY <1>3, MintKeepsInv, MailKeepsInv, GiveUpKeepsInv, CommitKeepsInv DEF Send
<1>4. ASSUME NEW r \in Requests, Redemption(r) \/ Revoke(r) PROVE InviteInv'
  BY <1>4, RegistrationKeepsInv, FinalKeepsInv DEF Redemption
<1>5. ASSUME NEW r \in Requests, Abort(r) PROVE InviteInv'
  BY <1>5, GiveUpKeepsInv
<1> QED BY <1>1, <1>2, <1>3, <1>4, <1>5 DEF Next

\* The inductive invariant: who may be where, the resend that has mailed a token
\* still holds its row, an address has one user.
THEOREM InviteInvariant == Spec => []InviteInv
BY InitInv, NextKeepsInv, PTL DEF Spec

\* Invite rows, users, requests and mails keep their types.
THEOREM InviteTypeCorrect == Spec => []TypeOK
<1>1. InviteInv => TypeOK
  BY DEF InviteInv
<1> QED BY <1>1, InviteInvariant, PTL

\* redeem_invite under any number of registrations, resends and revocations of
\* one invite: one user at most, since the unique index on the address lets one
\* through and the invite's acceptance commits with it.
THEOREM RedeemedOnceHolds == Spec => []RedeemedOnce
<1>1. InviteInv => RedeemedOnce
  <2> SUFFICES ASSUME InviteInv, NEW i \in InviteIds
               PROVE  /\ \A a, b \in accounts : a.via = i /\ b.via = i => a = b
                      /\ status[i] = "accepted" => \E a \in accounts : a.via = i
                      /\ status[i] \in {"none", "pending"} => \A a \in accounts : a.via # i
    BY DEF RedeemedOnce
  <2>1. \A a, b \in accounts : a.via = i /\ b.via = i => a = b
    BY DEF InviteInv, AccountsOK
  <2> QED BY <2>1 DEF InviteInv, StatusOK
<1> QED BY <1>1, InviteInvariant, PTL

\* issue_invite and resend_invite: the token of a committed row was mailed.
THEOREM TokenWasMailedHolds == Spec => []TokenWasMailed
<1>1. InviteInv => TokenWasMailed
  BY DEF InviteInv
<1> QED BY <1>1, InviteInvariant, PTL

\* resend_invite: the row lock held from the UPDATE to the COMMIT makes the order
\* of the mails the order of the commits.
THEOREM LatestLinkWorksHolds == Spec => []LatestLinkWorks
<1>1. InviteInv => LatestLinkWorks
  BY DEF InviteInv
<1> QED BY <1>1, InviteInvariant, PTL

\* Invite.status: only an issue writes pending, and its row is new.
THEOREM NeverPendingAgainHolds == Spec => NeverPendingAgain
<1> DEFINE Kept == \A i \in InviteIds :
                     status[i] \in {"accepted", "revoked"} => status'[i] # "pending"
<1>1. InviteInv /\ [Next]_vars => [Kept]_vars
  <2> SUFFICES ASSUME InviteInv, Next PROVE Kept
    OBVIOUS
  <2>1. CASE status' = status
    BY <2>1
  <2>2. ASSUME NEW r \in Requests, Commit(r) PROVE Kept
    BY <2>2 DEF Commit, InviteInv, RoutesOK, TypeOK
  <2>3. ASSUME NEW r \in Requests, Revoke(r) \/ CommitUser(r) PROVE Kept
    BY <2>3 DEF Revoke, CommitUser, InviteInv, TypeOK
  <2>4. \/ status' = status
        \/ \E r \in Requests : Commit(r) \/ Revoke(r) \/ CommitUser(r)
    BY DEF Next, Begin, Send, Redemption, Issue, Resend, RevokeRead, Register, Insert, Rotate,
           Mail, MailFails, MailUnsure, CheckIdentity, Redeem, InsertUser, Abort, Expire
  <2> QED BY <2>1, <2>2, <2>3, <2>4
<1> QED BY <1>1, InviteInvariant, PTL DEF Spec, NeverPendingAgain
=============================================================================
