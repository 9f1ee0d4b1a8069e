---------------------------- MODULE ExactlyOnce ----------------------------
(***************************************************************************)
(* What a send promises its callers (F40): of the requests that carry one  *)
(* idempotency key at most one stores its message, and every answer names  *)
(* the stored one.  The promise for a key ends when the key breaks: Redis  *)
(* lost it, or a commit took effect and reported a failure.  Whatever has  *)
(* been stored or answered by then stays as it is.                         *)
(*                                                                         *)
(* MessageSend implements this specification (MessageSend!StoresOnce).     *)
(***************************************************************************)
CONSTANTS Requests, Keys, KeyOf, None

VARIABLES
  stored,  \* messages stored for good; each is named by its request
  answer,  \* the message each request's 200 or 201 names, or None
  broken   \* keys the promise no longer holds for

vars == <<stored, answer, broken>>

Init ==
  /\ stored = {}
  /\ answer = [r \in Requests |-> None]
  /\ broken = {}

\* A message is stored; the key is unused or broken.  The request may never
\* learn of it, which breaks the key.
Store(r) ==
  /\ \A q \in stored : KeyOf[q] = KeyOf[r] => KeyOf[r] \in broken
  /\ stored' = stored \cup {r}
  /\ broken' \in {broken, broken \cup {KeyOf[r]}}
  /\ UNCHANGED answer

\* A request is told, once, of a stored message of its own key.
Tell(r, m) ==
  /\ answer[r] = None
  /\ m \in stored
  /\ KeyOf[m] = KeyOf[r]
  /\ answer' = [answer EXCEPT ![r] = m]
  /\ UNCHANGED <<stored, broken>>

Break(k) ==
  /\ broken' = broken \cup {k}
  /\ UNCHANGED <<stored, answer>>

Next ==
  \/ \E r \in Requests : Store(r) \/ \E m \in Requests : Tell(r, m)
  \/ \E k \in Keys : Break(k)

Spec == Init /\ [][Next]_vars
=============================================================================
