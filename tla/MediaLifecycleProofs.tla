------------------------ MODULE MediaLifecycleProofs ------------------------
(***************************************************************************)
(* MediaLifecycle for any number of attachments, overlapping sweeps, sends *)
(* and failures.                                                           *)
(***************************************************************************)
EXTENDS MediaLifecycle, TLAPS

\* The sweep has deleted the bytes, and the row only in its own transaction.
Gone(s, m) == m \in done[s] \/ (pc[s] = "delete" /\ cur[s] = m)

\* A row a process has deleted or bound, or whose bytes it is deleting, is
\* locked by it and still unbound to everybody else.
LocksOK ==
  \A p \in Procs :
    /\ pc[p] = "visit" => cur[p] \in Media
    /\ p \in Sweeps /\ pc[p] \in {"purge", "delete"} =>
         cur[p] \in Media /\ lock[cur[p]] = p /\ row[cur[p]] = "unbound"
    /\ \A m \in done[p] : lock[m] = p /\ row[m] = "unbound"

\* Where an upload is says what exists of it.
UploadsOK ==
  \A m \in Media :
    /\ upload[m] = "new" => m \notin stored /\ row[m] = "none"
    /\ upload[m] = "stored" => m \in stored /\ row[m] = "none"
    /\ upload[m] = "purge" => row[m] = "none" \/ m \in torn

SweptOK == \A s \in Sweeps : \A m \in Media : Gone(s, m) => m \notin stored

\* An unbound row without bytes is locked by the sweep that deleted them, or
\* came back.
BytesOK ==
  \A m \in Media : row[m] = "unbound" =>
    m \in stored \cup torn \/ \E s \in Sweeps : lock[m] = s /\ Gone(s, m)

MediaInv ==
  /\ TypeOK /\ LocksOK /\ UploadsOK /\ SweptOK /\ BytesOK
  /\ BoundHasBytes /\ NothingLeaks

\* What the end of a transaction does, spelled out.
LEMMA CloseIs ==
  ASSUME TypeOK, NEW p \in Procs, NEW step \in {"idle", "over"}, Close(p, step)
  PROVE  /\ pc'[p] = step /\ done'[p] = {}
         /\ \A q \in Procs \ {p} : pc'[q] = pc[q] /\ cur'[q] = cur[q] /\ done'[q] = done[q]
         /\ \A m \in Media : \A q \in Procs \ {p} : lock[m] = q => lock'[m] = q
         /\ lock' \in [Media -> Procs \cup {None}]
         /\ pc' \in [Procs -> {"idle", "pick", "visit", "purge", "delete", "over"}]
         /\ todo' \in [Procs -> SUBSET Media]
         /\ cur' \in [Procs -> Media \cup {None}]
         /\ ahead' \in [Procs -> SUBSET Procs]
         /\ done' \in [Procs -> SUBSET Media]
<1> USE MediaAssumption DEF TypeOK, Close, Goto
<1>1. /\ pc'[p] = step /\ done'[p] = {}
      /\ \A q \in Procs \ {p} : pc'[q] = pc[q] /\ cur'[q] = cur[q] /\ done'[q] = done[q]
  OBVIOUS
<1>2. /\ \A m \in Media : \A q \in Procs \ {p} : lock[m] = q => lock'[m] = q
      /\ lock' \in [Media -> Procs \cup {None}]
  OBVIOUS
<1>3. /\ pc' \in [Procs -> {"idle", "pick", "visit", "purge", "delete", "over"}]
      /\ todo' \in [Procs -> SUBSET Media]
      /\ cur' \in [Procs -> Media \cup {None}]
      /\ done' \in [Procs -> SUBSET Media]
  OBVIOUS
<1>4. ahead' \in [Procs -> SUBSET Procs]
  OBVIOUS
<1> QED BY <1>1, <1>2, <1>3, <1>4

LEMMA FaultType ==
  ASSUME TypeOK, Fault
  PROVE  faults' \in 0 .. MaxFaults
BY MediaAssumption DEF TypeOK, Fault

\* An upload's own steps, and time.
LEMMA UploadKeepsInv ==
  ASSUME MediaInv, NEW m \in Media, Upload(m) \/ Age(m)
  PROVE  MediaInv'
<1> USE MediaAssumption DEF MediaInv
<1>1. UNCHANGED <<lock, pc, todo, cur, ahead, done>>
  BY DEF Upload, Age, Reject, Put, PutFails, UploadCommit, UploadCommitFails, UploadPurge, UploadLeaks,
         process
<1>2. faults' \in 0 .. MaxFaults
  BY FaultType DEF Upload, Age, Reject, Put, PutFails, UploadCommit, UploadCommitFails, UploadPurge,
                   UploadLeaks, TypeOK
<1> USE DEF Gone
<1>3. CASE Put(m)
  <2>1. /\ stored' = stored \cup {m} /\ upload' = [upload EXCEPT ![m] = "stored"]
        /\ upload[m] = "new" /\ UNCHANGED <<row, aged, torn, leaked>>
    BY <1>3 DEF Put, UploadGoes
  <2>2. TypeOK'
    BY <1>1, <1>2, <2>1 DEF TypeOK
  <2>3. LocksOK' /\ UploadsOK'
    BY <1>1, <2>1 DEF LocksOK, UploadsOK, TypeOK
  <2>4. \A s \in Sweeps : ~Gone(s, m)
    BY <2>1 DEF LocksOK, UploadsOK, Procs
  <2>5. SweptOK' /\ BytesOK'
    BY <1>1, <2>1, <2>4 DEF SweptOK, BytesOK
  <2>6. BoundHasBytes' /\ NothingLeaks'
    BY <2>1 DEF BoundHasBytes, NothingLeaks, TypeOK
  <2> QED BY <2>2, <2>3, <2>5, <2>6
<1>4. ASSUME NEW kept \in BOOLEAN, PutFails(m, kept) PROVE MediaInv'
  <2>1. /\ upload' = [upload EXCEPT ![m] = "over"] /\ upload[m] = "new"
        /\ UNCHANGED <<row, aged, torn>>
        /\ \/ stored' = stored \cup {m} /\ leaked' = leaked \cup {m}
           \/ stored' = stored /\ leaked' = leaked
    BY <1>4 DEF PutFails, UploadGoes
  <2>2. TypeOK'
    BY <1>1, <1>2, <2>1 DEF TypeOK
  <2>3. LocksOK' /\ UploadsOK'
    BY <1>1, <2>1 DEF LocksOK, UploadsOK, TypeOK
  <2>4. \A s \in Sweeps : ~Gone(s, m)
    BY <2>1 DEF LocksOK, UploadsOK, Procs
  <2>5. SweptOK' /\ BytesOK'
    BY <1>1, <2>1, <2>4 DEF SweptOK, BytesOK
  <2>6. BoundHasBytes' /\ NothingLeaks'
    BY <2>1 DEF BoundHasBytes, NothingLeaks, TypeOK, UploadsOK
  <2> QED BY <2>2, <2>3, <2>5, <2>6
<1>5. CASE UploadCommit(m)
  <2>1. /\ upload' = [upload EXCEPT ![m] = "over"] /\ upload[m] = "stored"
        /\ row' = [row EXCEPT ![m] = "unbound"]
        /\ UNCHANGED <<stored, aged, torn, leaked>>
    BY <1>5 DEF UploadCommit, UploadGoes
  <2>2. TypeOK'
    BY <1>1, <1>2, <2>1 DEF TypeOK
  <2>3. LocksOK' /\ UploadsOK'
    BY <1>1, <2>1 DEF LocksOK, UploadsOK, TypeOK
  <2>4. SweptOK' /\ BytesOK'
    BY <1>1, <2>1 DEF SweptOK, BytesOK, UploadsOK, TypeOK
  <2>5. BoundHasBytes' /\ NothingLeaks'
    BY <2>1 DEF BoundHasBytes, NothingLeaks, TypeOK, UploadsOK
  <2> QED BY <2>2, <2>3, <2>4, <2>5
<1>6. ASSUME NEW durable \in BOOLEAN, UploadCommitFails(m, durable) PROVE MediaInv'
  <2>1. /\ upload' = [upload EXCEPT ![m] = "purge"] /\ upload[m] = "stored"
        /\ UNCHANGED <<stored, aged, leaked>>
        /\ \/ row' = [row EXCEPT ![m] = "unbound"] /\ torn' = torn \cup {m}
           \/ row' = row /\ torn' = torn
    BY <1>6 DEF UploadCommitFails, UploadGoes
  <2>2. TypeOK'
    BY <1>1, <1>2, <2>1 DEF TypeOK
  <2>3. LocksOK' /\ UploadsOK'
    BY <1>1, <2>1 DEF LocksOK, UploadsOK, TypeOK
  <2>4. SweptOK' /\ BytesOK'
    BY <1>1, <2>1 DEF SweptOK, BytesOK, TypeOK
  <2>5. BoundHasBytes' /\ NothingLeaks'
    BY <2>1 DEF BoundHasBytes, NothingLeaks, TypeOK
  <2> QED BY <2>2, <2>3, <2>4, <2>5
<1>7. CASE UploadPurge(m)
  <2>1. /\ stored' = stored \ {m} /\ upload' = [upload EXCEPT ![m] = "over"]
        /\ upload[m] = "purge" /\ UNCHANGED <<row, aged, torn, leaked>>
    BY <1>7 DEF UploadPurge, UploadGoes
  <2>2. TypeOK'
    BY <1>1, <1>2, <2>1 DEF TypeOK
  <2>3. LocksOK' /\ UploadsOK'
    BY <1>1, <2>1 DEF LocksOK, UploadsOK, TypeOK
  <2>4. SweptOK' /\ BytesOK'
    BY <1>1, <2>1 DEF SweptOK, BytesOK, UploadsOK
  <2>5. BoundHasBytes' /\ NothingLeaks'
    BY <2>1 DEF BoundHasBytes, NothingLeaks, TypeOK, UploadsOK
  <2> QED BY <2>2, <2>3, <2>4, <2>5
<1>8. CASE UploadLeaks(m) \/ Age(m) \/ Reject(m)
  <2>1. /\ UNCHANGED <<stored, row, torn>> /\ aged' \subseteq Media
        /\ \/ upload' = upload /\ leaked' = leaked
           \/ /\ upload' = [upload EXCEPT ![m] = "over"] /\ leaked' = leaked
              /\ upload[m] = "new"
           \/ upload' = [upload EXCEPT ![m] = "over"] /\ leaked' = leaked \cup {m}
    BY <1>8 DEF UploadLeaks, Age, Reject, UploadGoes, TypeOK
  <2>2. TypeOK'
    BY <1>1, <1>2, <2>1 DEF TypeOK
  <2>3. LocksOK' /\ UploadsOK'
    BY <1>1, <2>1 DEF LocksOK, UploadsOK, TypeOK
  <2>4. SweptOK' /\ BytesOK'
    BY <1>1, <2>1 DEF SweptOK, BytesOK
  <2>5. BoundHasBytes' /\ NothingLeaks'
    BY <2>1 DEF BoundHasBytes, NothingLeaks, TypeOK, UploadsOK
  <2> QED BY <2>2, <2>3, <2>4, <2>5
<1> QED BY <1>3, <1>4, <1>5, <1>6, <1>7, <1>8 DEF Upload

\* Reads and row visits: a process sets out, picks a row, takes its lock.
LEMMA VisitKeepsInv ==
  ASSUME MediaInv, NEW p \in Procs, Pick(p) \/ (p \in Sweeps /\ (Scan(p) \/ Recheck(p)))
                                    \/ (p \in Sends /\ Validate(p))
  PROVE  MediaInv'
<1> USE MediaAssumption DEF MediaInv
<1>1. UNCHANGED <<stored, row, aged, upload, done, faults, torn, leaked>>
  BY DEF Pick, Scan, Recheck, Validate
<1>2. PICK step \in {"pick", "visit", "purge"} : Goto(p, step) /\ pc[p] # "delete"
  BY DEF Pick, Scan, Recheck, Validate
<1>3. pc'[p] = step /\ \A q \in Procs \ {p} : pc'[q] = pc[q]
  BY <1>2 DEF Goto, TypeOK
<1>4. /\ cur' \in [Procs -> Media \cup {None}]
      /\ \A q \in Procs \ {p} : cur'[q] = cur[q]
      /\ step = "visit" => cur'[p] \in Media
  <2>1. CASE Pick(p)
    BY <2>1 DEF Pick, TypeOK
  <2>2. CASE ~Pick(p)
    BY <1>2, <1>3, <2>2 DEF Scan, Recheck, Validate, Goto, TypeOK
  <2> QED BY <2>1, <2>2
<1>5. \/ lock' = lock /\ step # "purge"
      \/ /\ p \in Sweeps /\ cur[p] \in Media /\ lock[cur[p]] = None /\ row[cur[p]] = "unbound"
         /\ lock' = [lock EXCEPT ![cur[p]] = p] /\ cur' = cur
  <2>1. CASE p \in Sweeps /\ Recheck(p)
    BY <1>2, <1>3, <2>1 DEF Recheck, TakeLock, LocksOK, Goto, TypeOK
  <2>2. CASE ~(p \in Sweeps /\ Recheck(p))
    BY <1>2, <1>3, <2>2 DEF Pick, Scan, Validate, Goto, TypeOK
  <2> QED BY <2>1, <2>2
<1>6. todo' \in [Procs -> SUBSET Media] /\ ahead' \in [Procs -> SUBSET Procs]
  <2>1. CASE Pick(p)
    BY <2>1 DEF Pick, TypeOK
  <2>2. CASE ~Pick(p)
    BY <2>2 DEF Scan, Recheck, Validate, Orphans, TypeOK
  <2> QED BY <2>1, <2>2
<1>7. TypeOK'
  <2>1. lock' \in [Media -> Procs \cup {None}]
    BY <1>5 DEF TypeOK
  <2>2. pc' \in [Procs -> {"idle", "pick", "visit", "purge", "delete", "over"}]
    BY <1>2 DEF Goto, TypeOK
  <2> QED BY <1>1, <1>4, <1>6, <2>1, <2>2 DEF TypeOK
<1>8. \A m \in Media : \A q \in Procs : lock[m] = q => lock'[m] = q
  BY <1>5 DEF TypeOK
<1>9. LocksOK'
  <2> SUFFICES ASSUME NEW q \in Procs
               PROVE  /\ pc'[q] = "visit" => cur'[q] \in Media
                      /\ q \in Sweeps /\ pc'[q] \in {"purge", "delete"} =>
                           /\ cur'[q] \in Media /\ lock'[cur'[q]] = q
                           /\ row'[cur'[q]] = "unbound"
                      /\ \A m \in done'[q] : lock'[m] = q /\ row'[m] = "unbound"
    BY DEF LocksOK
  <2>1. \A m \in done'[q] : lock'[m] = q /\ row'[m] = "unbound"
    BY <1>1, <1>8 DEF LocksOK, TypeOK
  <2>2. CASE q = p
    BY <1>1, <1>3, <1>4, <1>5, <2>1, <2>2 DEF TypeOK
  <2>3. CASE q # p
    BY <1>1, <1>3, <1>4, <1>8, <2>1, <2>3 DEF LocksOK
  <2> QED BY <2>2, <2>3
<1>10. UploadsOK' /\ BoundHasBytes' /\ NothingLeaks'
  BY <1>1 DEF UploadsOK, BoundHasBytes, NothingLeaks
<1>11. \A s \in Sweeps : \A m \in Media : Gone(s, m)' <=> Gone(s, m)
  <2> TAKE s \in Sweeps
  <2> TAKE m \in Media
  <2>1. (pc'[s] = "delete" /\ cur'[s] = m) <=> (pc[s] = "delete" /\ cur[s] = m)
    BY <1>2, <1>3, <1>4 DEF Procs
  <2>2. done' = done
    BY <1>1
  <2> QED BY <2>1, <2>2 DEF Gone
<1>12. SweptOK' /\ BytesOK'
  BY <1>1, <1>8, <1>11 DEF SweptOK, BytesOK, Procs
<1> QED BY <1>7, <1>9, <1>10, <1>12

\* delete_object on a row the sweep has locked, with either outcome.
LEMMA PurgeKeepsInv ==
  ASSUME MediaInv, NEW s \in Sweeps, Purge(s) \/ \E removed \in BOOLEAN : PurgeFails(s, removed)
  PROVE  MediaInv'
<1> USE MediaAssumption DEF MediaInv
<1> DEFINE m == cur[s]
<1>1. /\ s \in Procs /\ pc[s] = "purge" /\ m \in Media /\ lock[m] = s /\ row[m] = "unbound"
      /\ UNCHANGED <<row, aged, upload, lock, todo, cur, ahead, done, leaked>>
  BY DEF Purge, PurgeFails, LocksOK, Procs
<1>2. \/ stored' = stored \ {m} /\ torn' = torn /\ Goto(s, "delete")
      \/ stored' = stored \ {m} /\ torn' = torn \cup {m} /\ Goto(s, "pick")
      \/ stored' = stored /\ torn' = torn /\ Goto(s, "pick")
  BY DEF Purge, PurgeFails
<1>3. faults' \in 0 .. MaxFaults
  BY FaultType DEF Purge, PurgeFails, TypeOK
<1>4. TypeOK'
  <2>1. pc' \in [Procs -> {"idle", "pick", "visit", "purge", "delete", "over"}]
    BY <1>2 DEF Goto, TypeOK
  <2>2. stored' \subseteq Media /\ torn' \subseteq Media
    BY <1>1, <1>2 DEF TypeOK
  <2> QED BY <1>1, <1>3, <2>1, <2>2 DEF TypeOK
<1>5. /\ \A q \in Procs \ {s} : pc'[q] = pc[q]
      /\ pc'[s] \in {"delete", "pick"}
      /\ pc'[s] = "delete" => m \notin stored'
  BY <1>1, <1>2 DEF Goto, TypeOK
<1>6. LocksOK'
  BY <1>1, <1>5 DEF LocksOK
<1>7. UploadsOK'
  BY <1>1, <1>2 DEF UploadsOK
<1>8. \A t \in Sweeps, n \in Media : Gone(t, n)' <=> Gone(t, n) \/ (t = s /\ n = m /\ pc'[s] = "delete")
  BY <1>1, <1>5 DEF Gone, Procs
<1>9. SweptOK'
  BY <1>2, <1>5, <1>8 DEF SweptOK
<1>10. BytesOK'
  <2> SUFFICES ASSUME NEW n \in Media, row[n] = "unbound"
               PROVE  n \in stored' \cup torn' \/ \E t \in Sweeps : lock[n] = t /\ Gone(t, n)'
    BY <1>1 DEF BytesOK
  <2>1. CASE n = m
    <3>1. CASE stored' = stored /\ torn' = torn
      BY <1>8, <2>1, <3>1 DEF BytesOK
    <3>2. CASE torn' = torn \cup {m}
      BY <2>1, <3>2
    <3>3. CASE Goto(s, "delete")
      <4>1. pc'[s] = "delete"
        BY <1>1, <3>3 DEF Goto, TypeOK
      <4> QED BY <1>1, <1>8, <2>1, <4>1
    <3> QED BY <1>2, <3>1, <3>2, <3>3
  <2>2. CASE n # m
    BY <1>2, <1>8, <2>2 DEF BytesOK
  <2> QED BY <2>1, <2>2
<1>11. BoundHasBytes' /\ NothingLeaks'
  BY <1>1, <1>2 DEF BoundHasBytes, NothingLeaks
<1> QED BY <1>4, <1>6, <1>7, <1>9, <1>10, <1>11

\* The DELETE of a swept row and the UPDATE of a bound one, uncommitted.
LEMMA WriteKeepsInv ==
  ASSUME MediaInv, NEW p \in Procs,
         (p \in Sweeps /\ Delete(p)) \/ (p \in Sends /\ Bind(p) /\ row[cur[p]] = "unbound")
  PROVE  MediaInv'
<1> USE MediaAssumption DEF MediaInv
<1> DEFINE m == cur[p]
<1>1. /\ m \in Media /\ row[m] = "unbound" /\ Goto(p, "pick")
      /\ done' = [done EXCEPT ![p] = @ \cup {m}]
      /\ UNCHANGED <<stored, row, aged, upload, todo, cur, ahead, faults, torn, leaked>>
  BY DEF Delete, Bind, LocksOK
<1>2. \/ p \in Sweeps /\ pc[p] = "delete" /\ lock[m] = p /\ lock' = lock
      \/ p \in Sends /\ lock[m] = None /\ lock' = [lock EXCEPT ![m] = p]
  BY DEF Delete, Bind, LocksOK, TakeLock
<1>3. /\ lock'[m] = p /\ \A n \in Media : \A q \in Procs : lock[n] = q => lock'[n] = q
      /\ lock' \in [Media -> Procs \cup {None}]
  BY <1>1, <1>2 DEF TypeOK
<1>4. /\ pc'[p] = "pick" /\ done'[p] = done[p] \cup {m}
      /\ \A q \in Procs \ {p} : pc'[q] = pc[q] /\ done'[q] = done[q]
      /\ pc' \in [Procs -> {"idle", "pick", "visit", "purge", "delete", "over"}]
      /\ done' \in [Procs -> SUBSET Media]
  BY <1>1 DEF Goto, TypeOK
<1>5. TypeOK'
  BY <1>1, <1>3, <1>4 DEF TypeOK
<1>6. LocksOK'
  <2> SUFFICES ASSUME NEW q \in Procs
               PROVE  /\ pc'[q] = "visit" => cur'[q] \in Media
                      /\ q \in Sweeps /\ pc'[q] \in {"purge", "delete"} =>
                           /\ cur'[q] \in Media /\ lock'[cur'[q]] = q
                           /\ row'[cur'[q]] = "unbound"
                      /\ \A n \in done'[q] : lock'[n] = q /\ row'[n] = "unbound"
    BY DEF LocksOK
  <2>1. \A n \in done[q] : lock'[n] = q /\ row'[n] = "unbound"
    BY <1>1, <1>3 DEF LocksOK, TypeOK
  <2>2. CASE q = p
    BY <1>1, <1>3, <1>4, <2>1, <2>2
  <2>3. CASE q # p
    BY <1>1, <1>3, <1>4, <2>1, <2>3 DEF LocksOK
  <2> QED BY <2>2, <2>3
<1>7. UploadsOK' /\ BoundHasBytes' /\ NothingLeaks'
  BY <1>1 DEF UploadsOK, BoundHasBytes, NothingLeaks
<1>8. \A s \in Sweeps, n \in Media : Gone(s, n)' <=> Gone(s, n)
  <2> TAKE s \in Sweeps, n \in Media
  <2>1. CASE s = p
    <3>1. pc[s] = "delete"
      BY <1>2, <2>1
    <3> QED BY <1>1, <1>4, <2>1, <3>1 DEF Gone
  <2>2. CASE s # p
    BY <1>1, <1>4, <2>2 DEF Gone, Procs
  <2> QED BY <2>1, <2>2
<1>9. SweptOK' /\ BytesOK'
  BY <1>1, <1>3, <1>8 DEF SweptOK, BytesOK, Procs
<1> QED BY <1>5, <1>6, <1>7, <1>9

\* A transaction ends with a commit: the rows it wrote are its own.
LEMMA CommitKeepsInv ==
  ASSUME MediaInv, NEW p \in Procs,
         (p \in Sweeps /\ SweepCommit(p)) \/ (p \in Sends /\ SendCommit(p))
  PROVE  MediaInv'
<1> USE MediaAssumption DEF MediaInv
<1>1. PICK step \in {"idle", "over"}, to \in {"none", "bound"} :
        /\ Close(p, step)
        /\ row' = [m \in Media |-> IF m \in done[p] THEN to ELSE row[m]]
        /\ pc[p] = "pick"
        /\ to = "none" => p \in Sweeps
        /\ to = "bound" => p \in Sends
  BY DEF SweepCommit, SendCommit
<1>2. UNCHANGED <<stored, aged, upload, faults, torn, leaked>>
  BY DEF SweepCommit, SendCommit
<1>3. /\ pc'[p] = step /\ done'[p] = {}
      /\ \A q \in Procs \ {p} : pc'[q] = pc[q] /\ cur'[q] = cur[q] /\ done'[q] = done[q]
      /\ \A m \in Media : \A q \in Procs \ {p} : lock[m] = q => lock'[m] = q
  BY <1>1, CloseIs
<1>4. \A m \in Media : row'[m] = IF m \in done[p] THEN to ELSE row[m]
  BY <1>1
<1>5. TypeOK'
  <2>1. row' \in [Media -> {"none", "unbound", "bound"}]
    BY <1>1 DEF TypeOK
  <2> QED BY <1>1, <1>2, <2>1, CloseIs DEF TypeOK
<1>6. \A m \in done[p] : m \in Media /\ lock[m] = p /\ row[m] = "unbound"
  BY DEF LocksOK, TypeOK
<1>7. LocksOK'
  <2> SUFFICES ASSUME NEW q \in Procs \ {p}
               PROVE  /\ pc'[q] = "visit" => cur'[q] \in Media
                      /\ q \in Sweeps /\ pc'[q] \in {"purge", "delete"} =>
                           /\ cur'[q] \in Media /\ lock'[cur'[q]] = q
                           /\ row'[cur'[q]] = "unbound"
                      /\ \A m \in done'[q] : lock'[m] = q /\ row'[m] = "unbound"
    BY <1>3 DEF LocksOK
  <2>1. \A m \in Media : lock[m] = q => m \notin done[p] /\ row'[m] = row[m] /\ lock'[m] = q
    BY <1>3, <1>4, <1>6
  <2> QED BY <1>3, <2>1 DEF LocksOK, TypeOK
<1>8. UploadsOK'
  BY <1>2, <1>4, <1>6 DEF UploadsOK
<1>9. \A s \in Sweeps \ {p}, m \in Media : Gone(s, m)' <=> Gone(s, m)
  BY <1>3 DEF Gone, Procs
<1>10. SweptOK'
  <2>1. p \in Sweeps => \A m \in Media : ~Gone(p, m)'
    BY <1>3 DEF Gone
  <2> QED BY <1>2, <1>9, <2>1 DEF SweptOK
<1>11. BytesOK'
  <2> SUFFICES ASSUME NEW m \in Media, row'[m] = "unbound", m \notin stored \cup torn
               PROVE  \E s \in Sweeps : lock'[m] = s /\ Gone(s, m)'
    BY <1>2 DEF BytesOK
  <2>1. m \notin done[p] /\ row[m] = "unbound"
    BY <1>4
  <2>2. PICK s \in Sweeps : lock[m] = s /\ Gone(s, m)
    BY <2>1 DEF BytesOK
  <2>3. s # p
    BY <1>1, <2>1, <2>2 DEF Gone
  <2> QED BY <1>3, <1>9, <2>2, <2>3 DEF Procs
<1>12. \A m \in done[p] : to = "bound" => m \in stored \cup torn
  BY <1>1, <1>6 DEF BytesOK
<1>13. \A m \in done[p] : to = "none" => m \notin stored
  <2> SUFFICES ASSUME NEW m \in done[p], to = "none" PROVE m \notin stored
    OBVIOUS
  <2>1. p \in Sweeps /\ m \in Media
    BY <1>1, <1>6
  <2>2. Gone(p, m)
    BY DEF Gone
  <2> QED BY <2>1, <2>2 DEF SweptOK
<1>14. BoundHasBytes'
  BY <1>2, <1>4, <1>12 DEF BoundHasBytes
<1>15. NothingLeaks'
  BY <1>2, <1>4, <1>13 DEF NothingLeaks, TypeOK
<1> QED BY <1>5, <1>7, <1>8, <1>10, <1>11, <1>14, <1>15

\* A transaction ends with a rollback: the rows a sweep deleted are back, torn.
LEMMA RollbackKeepsInv ==
  ASSUME MediaInv, NEW p \in Procs, NEW step \in {"idle", "over"}, Close(p, step),
         UNCHANGED <<stored, row, aged, upload, leaked>>, faults' \in 0 .. MaxFaults,
         torn' \subseteq Media, torn \subseteq torn',
         p \in Sweeps => \A m \in Media : Gone(p, m) => m \in torn'
  PROVE  MediaInv'
<1> USE MediaAssumption DEF MediaInv
<1>1. /\ pc'[p] = step /\ done'[p] = {}
      /\ \A q \in Procs \ {p} : pc'[q] = pc[q] /\ cur'[q] = cur[q] /\ done'[q] = done[q]
      /\ \A m \in Media : \A q \in Procs \ {p} : lock[m] = q => lock'[m] = q
  BY CloseIs
<1>2. TypeOK'
  BY CloseIs DEF TypeOK
<1>3. LocksOK'
  BY <1>1 DEF LocksOK, TypeOK
<1>4. UploadsOK' /\ BoundHasBytes' /\ NothingLeaks'
  BY DEF UploadsOK, BoundHasBytes, NothingLeaks
<1>5. \A s \in Sweeps \ {p}, m \in Media : Gone(s, m)' <=> Gone(s, m)
  BY <1>1 DEF Gone, Procs
<1>6. SweptOK'
  <2>1. p \in Sweeps => \A m \in Media : ~Gone(p, m)'
    BY <1>1 DEF Gone
  <2> QED BY <1>5, <2>1 DEF SweptOK
<1>7. BytesOK'
  <2> SUFFICES ASSUME NEW m \in Media, row[m] = "unbound", m \notin stored \cup torn'
               PROVE  \E s \in Sweeps : lock'[m] = s /\ Gone(s, m)'
    BY DEF BytesOK
  <2>1. PICK s \in Sweeps : lock[m] = s /\ Gone(s, m)
    BY DEF BytesOK
  <2>2. s # p
    BY <2>1
  <2> QED BY <1>1, <1>5, <2>1, <2>2 DEF Procs
<1> QED BY <1>2, <1>3, <1>4, <1>6, <1>7

LEMMA EndKeepsInv ==
  ASSUME MediaInv, NEW p \in Procs,
         \/ Abort(p) \/ Deadlock(p)
         \/ p \in Sends /\ Bind(p) /\ row[cur[p]] # "unbound"
  PROVE  MediaInv'
<1> USE MediaAssumption DEF MediaInv
<1>1. faults' \in 0 .. MaxFaults
  BY FaultType DEF Abort, Deadlock, Bind, TypeOK
<1>2. CASE p \in Sweeps
  <2>1. SweepRollback(p)
    BY <1>2 DEF Abort, Deadlock, Rollback
  <2>2. /\ Close(p, "idle") /\ UNCHANGED <<stored, row, aged, upload, leaked>>
        /\ torn' = torn \cup done[p] \cup (IF pc[p] = "delete" THEN {cur[p]} ELSE {})
    BY <2>1 DEF SweepRollback
  <2>3. torn' \subseteq Media
    BY <1>2, <2>2 DEF TypeOK, LocksOK
  <2>4. \A m \in Media : Gone(p, m) => m \in torn'
    BY <2>2 DEF Gone
  <2> QED BY <1>1, <2>2, <2>3, <2>4, RollbackKeepsInv
<1>3. CASE p \notin Sweeps
  <2>1. Close(p, "over") /\ UNCHANGED <<stored, row, aged, upload, torn, leaked>>
    BY <1>3 DEF Abort, Deadlock, Rollback, SendRollback, Bind
  <2>2. torn' \subseteq Media
    BY <2>1 DEF TypeOK
  <2> QED BY <1>1, <1>3, <2>1, <2>2, RollbackKeepsInv
<1> QED BY <1>2, <1>3

LEMMA InitInv == Init => MediaInv
<1> SUFFICES ASSUME Init PROVE MediaInv
  OBVIOUS
<1> USE MediaAssumption DEF Init
<1>1. TypeOK
  BY DEF TypeOK
<1>2. LocksOK /\ UploadsOK /\ SweptOK /\ BytesOK
  BY DEF LocksOK, UploadsOK, SweptOK, BytesOK, Gone, Procs
<1>3. BoundHasBytes /\ NothingLeaks
  BY DEF BoundHasBytes, NothingLeaks
<1> QED BY <1>1, <1>2, <1>3 DEF MediaInv

LEMMA NextKeepsInv == MediaInv /\ [Next]_vars => MediaInv'
<1> SUFFICES ASSUME MediaInv, [Next]_vars PROVE MediaInv'
  OBVIOUS
<1>1. ASSUME NEW m \in Media, Upload(m) \/ Age(m) PROVE MediaInv'
  BY <1>1, UploadKeepsInv
<1>2. ASSUME NEW s \in Sweeps,
             Scan(s) \/ SweepStep(s) \/ \E removed \in BOOLEAN : PurgeFails(s, removed)
      PROVE  MediaInv'
  <2>1. s \in Procs
    BY DEF Procs
  <2>2. CASE Scan(s) \/ Pick(s) \/ Recheck(s)
    BY <2>1, <2>2, VisitKeepsInv
  <2>3. CASE Purge(s) \/ \E removed \in BOOLEAN : PurgeFails(s, removed)
    BY <2>3, PurgeKeepsInv
  <2>4. CASE Delete(s)
    BY <2>1, <2>4, WriteKeepsInv
  <2>5. CASE SweepCommit(s)
    BY <2>1, <2>5, CommitKeepsInv
  <2> QED BY <1>2, <2>2, <2>3, <2>4, <2>5 DEF SweepStep
<1>3. ASSUME NEW b \in Sends, Validate(b) \/ SendStep(b) PROVE MediaInv'
  <2>1. b \in Procs
    BY DEF Procs
  <2>2. CASE Validate(b) \/ Pick(b)
    BY <2>1, <2>2, VisitKeepsInv
  <2>3. CASE Bind(b)
    BY <2>1, <2>3, WriteKeepsInv, EndKeepsInv
  <2>4. CASE SendCommit(b)
    BY <2>1, <2>4, CommitKeepsInv
  <2> QED BY <1>3, <2>2, <2>3, <2>4 DEF SendStep
<1>4. ASSUME NEW p \in Procs, Abort(p) \/ Deadlock(p) PROVE MediaInv'
  BY <1>4, EndKeepsInv
<1>5. CASE UNCHANGED vars
  <2>1. TypeOK' /\ LocksOK' /\ UploadsOK'
    BY <1>5 DEF MediaInv, vars, process, TypeOK, LocksOK, UploadsOK
  <2>2. SweptOK' /\ BytesOK' /\ BoundHasBytes' /\ NothingLeaks'
    BY <1>5 DEF MediaInv, vars, process, SweptOK, BytesOK, Gone, BoundHasBytes, NothingLeaks
  <2> QED BY <2>1, <2>2 DEF MediaInv
<1> QED BY <1>1, <1>2, <1>3, <1>4, <1>5 DEF Next

\* The inductive invariant: bytes that are gone under a living row are covered by
\* the lock of the sweep that deleted them, or on record as torn.
THEOREM MediaInvariant == Spec => []MediaInv
BY InitInv, NextKeepsInv, PTL DEF Spec

\* Object store, attachment rows and processes keep their types.
THEOREM MediaTypeCorrect == Spec => []TypeOK
<1>1. MediaInv => TypeOK
  BY DEF MediaInv
<1> QED BY <1>1, MediaInvariant, PTL

\* sweep_orphaned_media against _bind_media_atomically: the row lock of the
\* re-check keeps a send from binding a row whose bytes the sweep has deleted.
THEOREM BoundHasBytesHolds == Spec => []BoundHasBytes
<1>1. MediaInv => BoundHasBytes
  BY DEF MediaInv
<1> QED BY <1>1, MediaInvariant, PTL

\* upload_media and the sweep: the row of stored bytes goes only after the bytes.
THEOREM NothingLeaksHolds == Spec => []NothingLeaks
<1>1. MediaInv => NothingLeaks
  BY DEF MediaInv
<1> QED BY <1>1, MediaInvariant, PTL
=============================================================================
