--------------------------- MODULE MediaLifecycle ---------------------------
(***************************************************************************)
(* Attachments from upload to message or sweep (F57, F62): the object      *)
(* store and the attachments table, which no transaction spans.            *)
(*                                                                         *)
(* An upload stores the bytes and then commits an unbound row; a send      *)
(* binds rows to its message; the sweep, started by cron, removes unbound  *)
(* rows past their TTL, bytes first.  Sweep and send lock rows one by one, *)
(* in the order their scans return them, which no ORDER BY fixes.          *)
(***************************************************************************)
EXTENDS Naturals, FiniteSets

CONSTANTS
  Media,      \* attachment ids
  Sweeps,     \* sweep processes that may overlap
  Sends,      \* message sends that bind attachments
  BatchSize,  \* DEFAULT_BATCH_SIZE
  MaxFaults,  \* bound on the failures of store, database and processes
  None

Procs == Sweeps \cup Sends

ASSUME MediaAssumption ==
  /\ IsFiniteSet(Media)
  /\ BatchSize \in Nat \ {0} /\ MaxFaults \in Nat
  /\ None \notin Procs /\ None \notin Media
  /\ Sweeps \cap Sends = {}

VARIABLES
  stored,  \* media whose bytes are in the object store
  row,     \* committed attachments row: none, unbound, bound
  aged,    \* rows older than the TTL
  upload,  \* each upload: new, stored, purge, over
  lock,    \* row locks
  pc,
  todo,    \* rows a sweep or send has still to visit
  cur,     \* the one it is at
  ahead,   \* processes that asked for that row's lock before it
  done,    \* rows a sweep has deleted or a send has bound, uncommitted
  faults,
  torn,    \* history: rows that stayed although their bytes were deleted
  leaked   \* history: bytes that a failure left without a row

process == <<pc, todo, cur, ahead, done>>
vars == <<stored, row, aged, upload, lock, process, faults, torn, leaked>>

Orphans == {m \in Media : row[m] = "unbound" /\ m \in aged}

Init ==
  /\ stored = {} /\ aged = {}
  /\ row = [m \in Media |-> "none"]
  /\ upload = [m \in Media |-> "new"]
  /\ lock = [m \in Media |-> None]
  /\ pc = [p \in Procs |-> "idle"]
  /\ todo = [p \in Procs |-> {}]
  /\ cur = [p \in Procs |-> None]
  /\ ahead = [p \in Procs |-> {}]
  /\ done = [p \in Procs |-> {}]
  /\ faults = 0
  /\ torn = {} /\ leaked = {}

Fault == faults < MaxFaults /\ faults' = faults + 1

(***************************************************************************)
(* upload_media                                                            *)
(***************************************************************************)
UploadGoes(m, step) == upload' = [upload EXCEPT ![m] = step]

\* Kind, size, type or content is refused, before anything is stored.
Reject(m) ==
  /\ upload[m] = "new"
  /\ UploadGoes(m, "over")
  /\ UNCHANGED <<stored, row, aged, lock, process, faults, torn, leaked>>

\* put_object.
Put(m) ==
  /\ upload[m] = "new"
  /\ stored' = stored \cup {m}
  /\ UploadGoes(m, "stored")
  /\ UNCHANGED <<row, aged, lock, process, faults, torn, leaked>>

\* MediaStorageError, 503; a request that timed out may have stored the bytes.
PutFails(m, kept) ==
  /\ upload[m] = "new" /\ Fault
  /\ stored' = IF kept THEN stored \cup {m} ELSE stored
  /\ leaked' = IF kept THEN leaked \cup {m} ELSE leaked
  /\ UploadGoes(m, "over")
  /\ UNCHANGED <<row, aged, lock, process, torn>>

\* The row is committed, unbound.
UploadCommit(m) ==
  /\ upload[m] = "stored"
  /\ row' = [row EXCEPT ![m] = "unbound"]
  /\ UploadGoes(m, "over")
  /\ UNCHANGED <<stored, aged, lock, process, faults, torn, leaked>>

\* The commit raises; if it was durable all the same, purging tears the row.
UploadCommitFails(m, durable) ==
  /\ upload[m] = "stored" /\ Fault
  /\ row' = IF durable THEN [row EXCEPT ![m] = "unbound"] ELSE row
  /\ torn' = IF durable THEN torn \cup {m} ELSE torn
  /\ UploadGoes(m, "purge")
  /\ UNCHANGED <<stored, aged, lock, process, leaked>>

\* rollback and delete_object.
UploadPurge(m) ==
  /\ upload[m] = "purge"
  /\ stored' = stored \ {m}
  /\ UploadGoes(m, "over")
  /\ UNCHANGED <<row, aged, lock, process, faults, torn, leaked>>

\* The cleanup fails and is logged, or the process ends before it.
UploadLeaks(m) ==
  /\ upload[m] \in {"stored", "purge"} /\ Fault
  /\ leaked' = leaked \cup {m}
  /\ UploadGoes(m, "over")
  /\ UNCHANGED <<stored, row, aged, lock, process, torn>>

Upload(m) ==
  \/ Reject(m) \/ Put(m) \/ UploadCommit(m) \/ UploadPurge(m) \/ UploadLeaks(m)
  \/ \E b \in BOOLEAN : PutFails(m, b) \/ UploadCommitFails(m, b)

\* DEFAULT_ORPHAN_TTL has passed.
Age(m) ==
  /\ row[m] # "none" /\ m \notin aged
  /\ aged' = aged \cup {m}
  /\ UNCHANGED <<stored, row, upload, lock, process, faults, torn, leaked>>

(***************************************************************************)
(* Row visits of sweep and send                                            *)
(***************************************************************************)
Goto(p, step) == pc' = [pc EXCEPT ![p] = step]

\* The next row of the loop or scan.
Pick(p) ==
  /\ pc[p] = "pick"
  /\ \E m \in todo[p] :
       /\ cur' = [cur EXCEPT ![p] = m]
       /\ ahead' = [ahead EXCEPT ![p] = {q \in Procs : pc[q] = "visit" /\ cur[q] = m}]
       /\ todo' = [todo EXCEPT ![p] = @ \ {m}]
  /\ Goto(p, "visit")
  /\ UNCHANGED <<stored, row, aged, upload, lock, done, faults, torn, leaked>>

\* Row locks are granted in the order they are asked for.
TakeLock(p) ==
  /\ lock[cur[p]] = None /\ ahead[p] = {}
  /\ lock' = [lock EXCEPT ![cur[p]] = p]

Waits(p, q) == pc[p] = "visit" /\ row[cur[p]] = "unbound" /\ lock[cur[p]] = q

\* The end of a transaction.
Close(p, step) ==
  /\ Goto(p, step)
  /\ lock' = [m \in Media |-> IF lock[m] = p THEN None ELSE lock[m]]
  /\ todo' = [todo EXCEPT ![p] = {}]
  /\ cur' = [cur EXCEPT ![p] = None]
  /\ ahead' = [q \in Procs |-> IF q = p THEN {} ELSE ahead[q] \ {p}]
  /\ done' = [done EXCEPT ![p] = {}]

(***************************************************************************)
(* sweep_orphaned_media                                                    *)
(***************************************************************************)
\* The candidates, at most a batch of them.
Scan(s) ==
  /\ pc[s] = "idle" /\ Orphans # {}
  /\ \E batch \in SUBSET Orphans :
       /\ batch # {} /\ Cardinality(batch) <= BatchSize
       /\ batch = Orphans \/ Cardinality(batch) = BatchSize
       /\ todo' = [todo EXCEPT ![s] = batch]
  /\ Goto(s, "pick")
  /\ UNCHANGED <<stored, row, aged, upload, lock, cur, ahead, done, faults, torn, leaked>>

\* Mutant: without the re-check.
RecheckNothing(s) ==
  /\ pc[s] = "visit"
  /\ Goto(s, "purge")
  /\ UNCHANGED <<stored, row, aged, upload, lock, todo, cur, ahead, done, faults, torn, leaked>>

\* SELECT ... FOR UPDATE: a row bound or deleted meanwhile is skipped.
Recheck(s) ==
  /\ pc[s] = "visit"
  /\ IF row[cur[s]] = "unbound"
       THEN TakeLock(s) /\ Goto(s, "purge")
       ELSE Goto(s, "pick") /\ UNCHANGED lock
  /\ UNCHANGED <<stored, row, aged, upload, todo, cur, ahead, done, faults, torn, leaked>>

\* delete_object.
Purge(s) ==
  /\ pc[s] = "purge"
  /\ stored' = stored \ {cur[s]}
  /\ Goto(s, "delete")
  /\ UNCHANGED <<row, aged, upload, lock, todo, cur, ahead, done, faults, torn, leaked>>

\* Mutant: a row whose bytes could not be deleted is deleted all the same.
PurgeFailureIgnored(s, removed) ==
  /\ pc[s] = "purge" /\ Fault
  /\ Goto(s, "delete")
  /\ UNCHANGED <<stored, row, aged, upload, lock, todo, cur, ahead, done, torn, leaked>>

\* MediaStorageError: the row is retained, locked until the end of the batch;
\* a request that timed out may have deleted the bytes.
PurgeFails(s, removed) ==
  /\ pc[s] = "purge" /\ Fault
  /\ stored' = IF removed THEN stored \ {cur[s]} ELSE stored
  /\ torn' = IF removed THEN torn \cup {cur[s]} ELSE torn
  /\ Goto(s, "pick")
  /\ UNCHANGED <<row, aged, upload, lock, todo, cur, ahead, done, leaked>>

\* DELETE ... WHERE message_id IS NULL, uncommitted.
Delete(s) ==
  /\ pc[s] = "delete"
  /\ done' = [done EXCEPT ![s] = @ \cup {cur[s]}]
  /\ Goto(s, "pick")
  /\ UNCHANGED <<stored, row, aged, upload, lock, todo, cur, ahead, faults, torn, leaked>>

\* Mutant: the session is closed without a commit.
SweepNoCommit(s) ==
  /\ pc[s] = "pick" /\ todo[s] = {}
  /\ Close(s, "idle")
  /\ UNCHANGED <<stored, row, aged, upload, faults, torn, leaked>>

\* One commit for the batch.
SweepCommit(s) ==
  /\ pc[s] = "pick" /\ todo[s] = {}
  /\ row' = [m \in Media |-> IF m \in done[s] THEN "none" ELSE row[m]]
  /\ Close(s, "idle")
  /\ UNCHANGED <<stored, aged, upload, faults, torn, leaked>>

\* Rollback: the rows of the purged bytes are back.
SweepRollback(s) ==
  /\ torn' = torn \cup done[s] \cup (IF pc[s] = "delete" THEN {cur[s]} ELSE {})
  /\ Close(s, "idle")
  /\ UNCHANGED <<stored, row, aged, upload, leaked>>

(***************************************************************************)
(* _validate_and_load_media, _bind_media_atomically, and the send's commit *)
(***************************************************************************)
Validate(b) ==
  /\ pc[b] = "idle"
  /\ \E media \in SUBSET Media \ {{}} :
       /\ \A m \in media : row[m] = "unbound"
       /\ todo' = [todo EXCEPT ![b] = media]
  /\ Goto(b, "pick")
  /\ UNCHANGED <<stored, row, aged, upload, lock, cur, ahead, done, faults, torn, leaked>>

\* The conditional UPDATE of one row; one that does not match means 422.
Bind(b) ==
  /\ pc[b] = "visit"
  /\ IF row[cur[b]] = "unbound"
       THEN /\ TakeLock(b)
            /\ done' = [done EXCEPT ![b] = @ \cup {cur[b]}]
            /\ Goto(b, "pick")
            /\ UNCHANGED <<todo, cur, ahead>>
       ELSE Close(b, "over")
  /\ UNCHANGED <<stored, row, aged, upload, faults, torn, leaked>>

SendCommit(b) ==
  /\ pc[b] = "pick" /\ todo[b] = {}
  /\ row' = [m \in Media |-> IF m \in done[b] THEN "bound" ELSE row[m]]
  /\ Close(b, "over")
  /\ UNCHANGED <<stored, aged, upload, faults, torn, leaked>>

SendRollback(b) ==
  /\ Close(b, "over")
  /\ UNCHANGED <<stored, row, aged, upload, torn, leaked>>

(***************************************************************************)
(* Failures                                                                *)
(***************************************************************************)
Rollback(p) == IF p \in Sweeps THEN SweepRollback(p) ELSE SendRollback(p)

\* A process ends, or its statement or commit fails.
Abort(p) ==
  /\ pc[p] \notin {"idle", "over"}
  /\ Fault
  /\ Rollback(p)

\* Postgres ends one of the transactions that wait for each other.
Deadlock(p) ==
  /\ \E cycle \in SUBSET Procs :
       p \in cycle /\ \A q \in cycle : \E h \in cycle : Waits(q, h)
  /\ Rollback(p)
  /\ UNCHANGED faults

SweepStep(s) == Pick(s) \/ Recheck(s) \/ Purge(s) \/ Delete(s) \/ SweepCommit(s)
SendStep(b) == Pick(b) \/ Bind(b) \/ SendCommit(b)

Next ==
  \/ \E m \in Media : Upload(m) \/ Age(m)
  \/ \E s \in Sweeps : \/ Scan(s) \/ SweepStep(s)
                       \/ \E removed \in BOOLEAN : PurgeFails(s, removed)
  \/ \E b \in Sends : Validate(b) \/ SendStep(b)
  \/ \E p \in Procs : Abort(p) \/ Deadlock(p)

Spec == Init /\ [][Next]_vars

\* Cron starts the sweep again and again, what runs goes on, and Postgres
\* breaks deadlocks.
FairSpec ==
  /\ Spec
  /\ \A s \in Sweeps : WF_vars(Scan(s)) /\ WF_vars(SweepStep(s)) /\ WF_vars(Deadlock(s))
  /\ \A b \in Sends : WF_vars(SendStep(b))

-----------------------------------------------------------------------------
\* Types of the object store, the rows and the processes.
TypeOK ==
  /\ stored \subseteq Media /\ aged \subseteq Media
  /\ row \in [Media -> {"none", "unbound", "bound"}]
  /\ upload \in [Media -> {"new", "stored", "purge", "over"}]
  /\ lock \in [Media -> Procs \cup {None}]
  /\ pc \in [Procs -> {"idle", "pick", "visit", "purge", "delete", "over"}]
  /\ todo \in [Procs -> SUBSET Media]
  /\ cur \in [Procs -> Media \cup {None}]
  /\ ahead \in [Procs -> SUBSET Procs]
  /\ done \in [Procs -> SUBSET Media]
  /\ faults \in 0 .. MaxFaults
  /\ torn \subseteq Media /\ leaked \subseteq Media

\* "Race safety" in sweep_orphaned_media: however sweeps and sends overlap, an
\* attachment bound to a message has its bytes, unless its row came back after
\* the bytes were deleted.
BoundHasBytes == \A m \in Media : row[m] = "bound" => m \in stored \cup torn

\* "Ordering" in media_sweep: no step but a failed upload's leaves bytes in the
\* bucket that no row and no running upload accounts for.
NothingLeaks ==
  \A m \in stored \ leaked : row[m] # "none" \/ upload[m] \in {"stored", "purge"}

\* F62: orphaned media are cleaned up, through store outages, crashes and
\* deadlocks, as long as these end; or a late send still binds them.
OrphansGo == \A m \in Media : (m \in Orphans) ~> (m \notin Orphans)
=============================================================================
