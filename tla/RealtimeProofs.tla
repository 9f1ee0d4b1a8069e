--------------------------- MODULE RealtimeProofs ---------------------------
(***************************************************************************)
(* Proofs about the two models of the real-time path: Presence, for any    *)
(* finite number of connections, any instances and any number of faults,   *)
(* and Conversation, for any number of messages, requests, pages, events   *)
(* under way and connections.                                              *)
(***************************************************************************)
EXTENDS Presence, Conversation, FiniteSetTheorems, SequenceTheorems,
        WellFoundedInduction, TLAPS

-----------------------------------------------------------------------------
\* Presence.
\* A connection that has still to sample the time of its disconnect, or has
\* sampled one later than the latest close and has still to write it.
ToRecord(c) ==
  \/ pc[c] \in {"announce", "open", "closing", "lastSeen"}
  \/ pc[c] = "stamp" /\ c \in fresh

\* While nothing but the key was lost: no unit is left behind; until a time
\* later than the latest close is written, some connection has it to write; and
\* one that still has its farewell to publish follows every announcement.
Tidy ==
  ~rough =>
    /\ leaked = 0
    /\ lastSeen = "old" => \E c \in Conns : ToRecord(c)
    /\ announced = "online" => \E c \in Conns : pc[c] # "closed"

-----------------------------------------------------------------------------
\* The counted connections are finite in number.
LEMMA CountedFinite ==
  /\ IsFiniteSet(Counted) /\ Cardinality(Counted) \in Nat
  /\ IsFiniteSet(Counted') /\ Cardinality(Counted') \in Nat
<1>1. Counted \subseteq Conns /\ Counted' \subseteq Conns
  BY DEF Counted
<1>2. QED
  BY <1>1, PresenceAssumption, FS_Subset, FS_CardinalityType

\* The types, the flags apart from the rest.
Flags == ttl \in BOOLEAN /\ rough \in BOOLEAN
Values ==
  /\ count \in Nat
  /\ pc \in [Conns -> Steps]
  /\ announced \in {"none", "online", "offline"}
  /\ fresh \subseteq Conns
  /\ lastSeen \in {"old", "new", "late"}
  /\ leaked \in Nat
  /\ faults \in 0 .. MaxFaults

LEMMA FlagsInvariant == PresenceSpec => []Flags
<1>1. PresenceInit => Flags
  BY Zenon DEF PresenceInit, Flags
<1>2. Flags /\ [PresenceNext]_presenceVars => Flags'
  <2> SUFFICES ASSUME Flags, [PresenceNext]_presenceVars PROVE Flags'
    OBVIOUS
  <2> USE DEF Flags
  <2>1. ASSUME NEW c \in Conns, Accept(c) \/ Step(c) \/ Heartbeat(c) \/ Close(c)
        PROVE Flags'
    BY <2>1, Zenon DEF Accept, Step, Connect, PublishOnline, Disconnect, TakeTime, WriteLastSeen,
                PublishOffline, Heartbeat, Close
  <2>2. ASSUME NEW c \in Conns, FaultStep(c) PROVE Flags'
    BY <2>2, Zenon DEF FaultStep, ConnectFails, ConnectAborted, DisconnectFails, StepLost,
                RoughFault, Fault
  <2>3. ASSUME NEW i \in Instances, Crash(i) PROVE Flags'
    BY <2>3, Zenon DEF Crash, RoughFault, Fault
  <2>4. CASE TtlExpire \/ KeyLost \/ UNCHANGED presenceVars
    BY <2>4, Zenon DEF TtlExpire, KeyLost, Fault, presenceVars
  <2>5. QED
    BY <2>1, <2>2, <2>3, <2>4 DEF PresenceNext
<1>3. QED
  BY <1>1, <1>2, PTL DEF PresenceSpec

LEMMA ValuesInvariant == PresenceSpec => []Values
<1> USE PresenceAssumption
<1>1. PresenceInit => Values
  BY DEF PresenceInit, Values, Steps
<1>2. Values /\ [PresenceNext]_presenceVars => Values'
  <2> SUFFICES ASSUME Values, [PresenceNext]_presenceVars PROVE Values'
    OBVIOUS
  <2> USE DEF Values, Goto, Steps
  <2>1. ASSUME NEW c \in Conns, Accept(c) \/ Step(c) \/ Heartbeat(c) \/ Close(c)
        PROVE Values'
    BY <2>1 DEF Accept, Step, Connect, PublishOnline, Disconnect, TakeTime, WriteLastSeen,
                PublishOffline, Heartbeat, Close
  <2>2. ASSUME NEW c \in Conns, ConnectFails(c) PROVE Values'
    BY <2>2 DEF ConnectFails, RoughFault, Fault
  <2>3. ASSUME NEW c \in Conns, ConnectAborted(c) \/ DisconnectFails(c) \/ StepLost(c)
        PROVE Values'
    BY <2>3 DEF ConnectAborted, DisconnectFails, StepLost, RoughFault, Fault
  <2>4. ASSUME NEW i \in Instances, Crash(i) PROVE Values'
    <3> DEFINE dead == {c \in Present : InstanceOf[c] = i}
    <3>1. IsFiniteSet(dead \cap Counted)
      BY CountedFinite, FS_Subset, dead \cap Counted \subseteq Counted
    <3>2. Cardinality(dead \cap Counted) \in Nat
      BY <3>1, FS_CardinalityType
    <3>3. leaked' \in Nat
      BY <2>4, <3>2 DEF Crash
    <3>4. /\ faults' \in 0 .. MaxFaults /\ count' = count /\ announced' = announced
          /\ fresh' \subseteq Conns /\ lastSeen' = lastSeen
      BY <2>4 DEF Crash, RoughFault, Fault
    <3>5. pc' = [c \in Conns |-> IF c \in dead THEN "closed" ELSE pc[c]]
      BY <2>4 DEF Crash
    <3>6. pc' \in [Conns -> Steps]
      BY <3>5
    <3>7. QED
      BY <3>3, <3>4, <3>6
  <2>5. CASE TtlExpire
    BY <2>5 DEF TtlExpire
  <2>6. CASE KeyLost
    BY <2>6 DEF KeyLost, Fault
  <2>7. CASE UNCHANGED presenceVars
    BY <2>7 DEF presenceVars
  <2>8. QED
    BY <2>1, <2>2, <2>3, <2>4, <2>5, <2>6, <2>7 DEF PresenceNext, FaultStep
<1>3. QED
  BY <1>1, <1>2, PTL DEF PresenceSpec

\* The variables keep their types.
THEOREM PresenceTypeCorrect == PresenceSpec => []PresenceTypeOK
<1>1. Flags /\ Values => PresenceTypeOK
  BY Zenon DEF Flags, Values, PresenceTypeOK
<1>2. QED
  BY <1>1, FlagsInvariant, ValuesInvariant, PTL

\* How a step of one connection changes the number of counted ones.
LEMMA OneStep ==
  ASSUME Values, NEW c \in Conns, NEW step \in Steps, Goto(c, step)
  PROVE  LET counting == {"announce", "open", "closing"} IN
         /\ pc[c] \notin counting /\ step \in counting
              => Cardinality(Counted') = Cardinality(Counted) + 1
         /\ pc[c] \in counting /\ step \notin counting
              => Cardinality(Counted') = Cardinality(Counted) - 1
         /\ (pc[c] \in counting <=> step \in counting) => Counted' = Counted
<1> DEFINE counting == {"announce", "open", "closing"}
<1>1. CASE pc[c] \notin counting /\ step \in counting
  <2>1. Counted' = Counted \cup {c} /\ c \notin Counted
    BY <1>1 DEF Values, Goto, Counted
  <2>2. QED
    BY <1>1, <2>1, CountedFinite, FS_AddElement
<1>2. CASE pc[c] \in counting /\ step \notin counting
  <2>1. Counted' = Counted \ {c} /\ c \in Counted
    BY <1>2 DEF Values, Goto, Counted
  <2>2. QED
    BY <1>2, <2>1, CountedFinite, FS_RemoveElement
<1>3. CASE pc[c] \in counting <=> step \in counting
  BY <1>3 DEF Values, Goto, Counted
<1>4. QED
  BY <1>1, <1>2, <1>3

\* A counter that does not exceed the counted connections keeps one of them.
LEMMA SomeCounted ==
  ASSUME count \in Nat \ {0}, leaked = 0, NeverOvercounts
  PROVE  \E c \in Conns : pc[c] \in {"announce", "open", "closing"}
<1>1. Cardinality(Counted) # 0
  BY CountedFinite DEF NeverOvercounts
<1>2. Counted # {}
  BY <1>1, FS_EmptySet
<1>3. QED
  BY <1>2 DEF Counted

\* The same after a step.
LEMMA SomeCountedNext ==
  ASSUME count' \in Nat \ {0}, leaked' = 0, NeverOvercounts'
  PROVE  \E c \in Conns : pc'[c] \in {"announce", "open", "closing"}
<1>1. Cardinality(Counted') # 0
  BY CountedFinite DEF NeverOvercounts
<1>2. Counted' # {}
  BY <1>1, FS_EmptySet
<1>3. QED
  BY <1>2 DEF Counted

\* Taking a part away from a finite set takes its members off the count.
LEMMA PartRemoved ==
  ASSUME NEW S, NEW T, IsFiniteSet(S), T \subseteq S
  PROVE  /\ Cardinality(T) \in Nat
         /\ Cardinality(S) = Cardinality(S \ T) + Cardinality(T)
<1>1. IsFiniteSet(T) /\ S \cap T = T
  BY FS_Subset
<1>2. Cardinality(S) \in Nat /\ Cardinality(T) \in Nat
  BY <1>1, FS_CardinalityType
<1>3. Cardinality(S \ T) = Cardinality(S) - Cardinality(S \cap T)
  BY FS_Difference
<1>4. Cardinality(S \ T) = Cardinality(S) - Cardinality(T)
  BY <1>1, <1>3, Zenon
<1>5. QED
  BY <1>2, <1>4

\* The counter is bounded: losing units only ever lowers it.
THEOREM NeverOvercountsHolds == PresenceSpec => []NeverOvercounts
<1> USE PresenceAssumption
<1>1. PresenceInit => NeverOvercounts
  BY CountedFinite DEF PresenceInit, NeverOvercounts
<1>2. Values /\ NeverOvercounts /\ [PresenceNext]_presenceVars => NeverOvercounts'
  <2> SUFFICES ASSUME Values, NeverOvercounts, [PresenceNext]_presenceVars PROVE NeverOvercounts'
    OBVIOUS
  <2>n. PICK n \in Nat : n = Cardinality(Counted)
    BY CountedFinite
  <2>m. PICK m \in Nat : m = Cardinality(Counted')
    BY CountedFinite
  <2>0. count \in Nat /\ leaked \in Nat /\ count <= n + leaked
    BY <2>n DEF NeverOvercounts, Values
  <2>1. SUFFICES count' <= m + leaked'
    BY <2>m DEF NeverOvercounts
  <2>a. ASSUME NEW c \in Conns, NEW step \in Steps, Goto(c, step)
        PROVE  LET counting == {"announce", "open", "closing"} IN
               /\ pc[c] \notin counting /\ step \in counting => m = n + 1
               /\ pc[c] \in counting /\ step \notin counting => m = n - 1
               /\ (pc[c] \in counting <=> step \in counting) => m = n
    BY <2>a, <2>n, <2>m, OneStep
  <2>2. ASSUME NEW c \in Conns, Accept(c) PROVE count' <= m + leaked'
    BY <2>0, <2>2, <2>a DEF Accept, Steps
  <2>3. ASSUME NEW c \in Conns, Connect(c) PROVE count' <= m + leaked'
    <3>1. m = n + 1
      <4>1. CASE count' = 1
        BY <2>3, <2>a, <4>1 DEF Connect, Steps
      <4>2. CASE count' # 1
        BY <2>3, <2>a, <4>2 DEF Connect, Steps
      <4>3. QED
        BY <4>1, <4>2
    <3>2. QED
      BY <2>0, <2>3, <3>1 DEF Connect
  <2>4. ASSUME NEW c \in Conns, PublishOnline(c) PROVE count' <= m + leaked'
    BY <2>0, <2>4, <2>a DEF PublishOnline, Steps
  <2>5. ASSUME NEW c \in Conns, Heartbeat(c) PROVE count' <= m + leaked'
    <3>1. m = n
      BY <2>5, <2>n, <2>m DEF Heartbeat, Counted
    <3>2. n # 0
      <4>1. Counted # {}
        BY <2>5 DEF Heartbeat, Counted
      <4>2. QED
        BY <4>1, <2>n, CountedFinite, FS_EmptySet
    <3>3. QED
      BY <2>0, <2>5, <3>1, <3>2 DEF Heartbeat
  <2>6. ASSUME NEW c \in Conns, Close(c) PROVE count' <= m + leaked'
    BY <2>0, <2>6, <2>a DEF Close, Steps
  <2>7. ASSUME NEW c \in Conns, Disconnect(c) PROVE count' <= m + leaked'
    <3>1. /\ count' = (IF count <= 1 THEN 0 ELSE count - 1)
          /\ leaked' = (IF count' = 0 THEN 0 ELSE leaked)
      BY <2>7, Zenon DEF Disconnect
    <3>2. m = n - 1
      <4>1. CASE count' = 0
        BY <2>7, <2>a, <4>1 DEF Disconnect, Steps
      <4>2. CASE count' # 0
        BY <2>7, <2>a, <4>2 DEF Disconnect, Steps
      <4>3. QED
        BY <4>1, <4>2
    <3>3. QED
      BY <2>0, <3>1, <3>2
  <2>8. ASSUME NEW c \in Conns, TakeTime(c) \/ WriteLastSeen(c) \/ PublishOffline(c)
        PROVE count' <= m + leaked'
    BY <2>0, <2>8, <2>a DEF TakeTime, WriteLastSeen, PublishOffline, Steps
  <2>9. ASSUME NEW c \in Conns, ConnectFails(c) PROVE count' <= m + leaked'
    <3>1. m = n + 1
      BY <2>9, <2>a DEF ConnectFails, Steps
    <3>2. QED
      BY <2>0, <2>9, <3>1 DEF ConnectFails
  <2>10. ASSUME NEW c \in Conns, ConnectAborted(c) \/ StepLost(c)
         PROVE count' <= m + leaked'
    BY <2>0, <2>10, <2>a DEF ConnectAborted, StepLost, Steps
  <2>11. ASSUME NEW c \in Conns, DisconnectFails(c) PROVE count' <= m + leaked'
    <3>1. m = n - 1
      BY <2>11, <2>a DEF DisconnectFails, Steps
    <3>2. QED
      BY <2>0, <2>11, <3>1 DEF DisconnectFails
  <2>12. ASSUME NEW i \in Instances, Crash(i) PROVE count' <= m + leaked'
    <3> DEFINE dead == {c \in Present : InstanceOf[c] = i}
               lost == dead \cap Counted
    <3>1. Counted' = Counted \ lost
      BY <2>12 DEF Crash, Counted, Present, Values
    <3>2. lost \subseteq Counted
      OBVIOUS
    <3>4. leaked' = (IF count = 0 THEN 0 ELSE leaked + Cardinality(lost)) /\ count' = count
      BY <2>12 DEF Crash
    <3> HIDE DEF dead, lost
    <3>3. n = m + Cardinality(lost) /\ Cardinality(lost) \in Nat
      BY <3>1, <3>2, <2>n, <2>m, CountedFinite, PartRemoved
    <3>5. CASE count = 0
      <4>1. leaked' = 0 /\ count' = 0
        BY <3>4, <3>5
      <4>2. QED
        BY <4>1
    <3>6. CASE count # 0
      BY <2>0, <3>3, <3>4, <3>6
    <3>7. QED
      BY <3>5, <3>6
  <2>13. CASE TtlExpire \/ KeyLost
    BY <2>0, <2>13 DEF TtlExpire, KeyLost
  <2>14. CASE UNCHANGED presenceVars
    <3>1. m = n
      BY <2>14, <2>n, <2>m DEF presenceVars, Counted
    <3>2. QED
      BY <2>0, <2>14, <3>1 DEF presenceVars
  <2>15. QED
    BY <2>2, <2>3, <2>4, <2>5, <2>6, <2>7, <2>8, <2>9, <2>10, <2>11, <2>12, <2>13, <2>14
       DEF PresenceNext, Step, FaultStep
<1>3. QED
  BY <1>1, <1>2, ValuesInvariant, PTL DEF PresenceSpec

\* The TTL backstop: every script that leaves a counter leaves it with a TTL.
THEOREM CounterExpiresHolds == PresenceSpec => []CounterExpires
<1>1. PresenceInit => CounterExpires
  BY DEF PresenceInit, CounterExpires
<1>2. Values /\ CounterExpires /\ [PresenceNext]_presenceVars => CounterExpires'
  <2> SUFFICES ASSUME Values, CounterExpires, [PresenceNext]_presenceVars PROVE CounterExpires'
    OBVIOUS
  <2> USE DEF Values, CounterExpires
  <2>1. ASSUME NEW c \in Conns,
               \/ Accept(c) \/ PublishOnline(c) \/ Close(c)
               \/ TakeTime(c) \/ WriteLastSeen(c) \/ PublishOffline(c)
               \/ ConnectAborted(c) \/ DisconnectFails(c) \/ StepLost(c)
        PROVE CounterExpires'
    BY <2>1 DEF Accept, PublishOnline, Close, TakeTime, WriteLastSeen, PublishOffline,
                ConnectAborted, DisconnectFails, StepLost
  <2>2. ASSUME NEW c \in Conns, Connect(c) \/ Heartbeat(c) PROVE CounterExpires'
    BY <2>2, Zenon DEF Connect, Heartbeat
  <2>3. ASSUME NEW c \in Conns, Disconnect(c) PROVE CounterExpires'
    <3>1. /\ count' = (IF count <= 1 THEN 0 ELSE count - 1)
          /\ ttl' = (ttl /\ count' # 0)
      BY <2>3, Zenon DEF Disconnect
    <3>2. CASE count <= 1
      BY <3>1, <3>2
    <3>3. CASE ~(count <= 1)
      <4>1. count' # 0 /\ count > 0
        BY <3>1, <3>3
      <4>2. QED
        BY <3>1, <4>1, Zenon
    <3>4. QED
      BY <3>2, <3>3
  <2>4. ASSUME NEW c \in Conns, ConnectFails(c) PROVE CounterExpires'
    <3>1. PICK times \in 0 .. 2 : count' = count + times /\ ttl' = (ttl \/ times > 0)
      BY <2>4, Zenon DEF ConnectFails
    <3>2. CASE times = 0
      <4>1. count' = count /\ ~(times > 0)
        BY <3>1, <3>2
      <4>2. QED
        BY <3>1, <4>1, Zenon
    <3>3. CASE times # 0
      <4>1. times > 0
        BY <3>3
      <4>2. QED
        BY <3>1, <4>1, Zenon
    <3>4. QED
      BY <3>2, <3>3
  <2>5. ASSUME NEW i \in Instances, Crash(i) PROVE CounterExpires'
    BY <2>5 DEF Crash
  <2>6. CASE TtlExpire \/ KeyLost \/ UNCHANGED presenceVars
    BY <2>6 DEF TtlExpire, KeyLost, presenceVars
  <2>7. QED
    BY <2>1, <2>2, <2>3, <2>4, <2>5, <2>6 DEF PresenceNext, Step, FaultStep
<1>3. QED
  BY <1>1, <1>2, ValuesInvariant, PTL DEF PresenceSpec

\* F50: whatever connects and disconnects overlapped, a time later than the last
\* close has been written to last_seen and the user is announced offline, unless
\* a fault other than the loss of the key struck.
THEOREM LastCloseRecordedHolds == PresenceSpec => []LastCloseRecorded
<1>1. PresenceInit => Tidy
  BY DEF PresenceInit, Tidy
<1>2. Values /\ NeverOvercounts /\ NeverOvercounts' /\ Tidy /\ [PresenceNext]_presenceVars => Tidy'
  <2> SUFFICES ASSUME Values, NeverOvercounts, NeverOvercounts', Tidy, [PresenceNext]_presenceVars,
                      ~rough'
               PROVE  Tidy'
    BY DEF Tidy
  <2> USE DEF Values, Goto
  <2>1. ASSUME NEW c \in Conns, Accept(c) \/ Connect(c) \/ PublishOnline(c)
                                  \/ Heartbeat(c)
        PROVE Tidy'
    BY <2>1 DEF Tidy, ToRecord, Accept, Connect, PublishOnline, Heartbeat
  <2>2. ASSUME NEW c \in Conns, Close(c) \/ TakeTime(c) \/ PublishOffline(c) PROVE Tidy'
    BY <2>2 DEF Tidy, ToRecord, Close, TakeTime, PublishOffline
  <2>8. ASSUME NEW c \in Conns, WriteLastSeen(c) PROVE Tidy'
    BY <2>8 DEF Tidy, ToRecord, WriteLastSeen
  <2>3. ASSUME NEW c \in Conns, Disconnect(c) PROVE Tidy'
    <3>1. /\ pc[c] = "closing" /\ announced' = announced /\ rough' = rough
          /\ fresh' = fresh /\ lastSeen' = lastSeen
          /\ count' = (IF count <= 1 THEN 0 ELSE count - 1)
          /\ leaked' = (IF count' = 0 THEN 0 ELSE leaked)
          /\ pc' = [pc EXCEPT ![c] = IF count' = 0 THEN "lastSeen" ELSE "closed"]
      BY <2>3, Zenon DEF Disconnect
    <3>2. leaked' = 0 /\ count' \in Nat
      BY <3>1 DEF Tidy
    <3>3. CASE count' = 0
      BY <3>1, <3>2, <3>3 DEF Tidy, ToRecord
    <3>4. CASE count' # 0
      <4>1. \E d \in Conns : pc'[d] \in {"announce", "open", "closing"}
        BY <3>2, <3>4, SomeCountedNext
      <4>2. QED
        BY <3>2, <4>1 DEF Tidy, ToRecord
    <3>5. QED
      BY <3>3, <3>4
  <2>4. ASSUME NEW c \in Conns, FaultStep(c) PROVE FALSE
    BY <2>4 DEF FaultStep, ConnectFails, ConnectAborted, DisconnectFails, StepLost,
                RoughFault
  <2>5. ASSUME NEW i \in Instances, Crash(i) PROVE FALSE
    BY <2>5 DEF Crash, RoughFault
  <2>6. CASE TtlExpire \/ KeyLost \/ UNCHANGED presenceVars
    BY <2>6 DEF Tidy, ToRecord, TtlExpire, KeyLost, presenceVars
  <2>7. QED
    BY <2>1, <2>2, <2>3, <2>4, <2>5, <2>6, <2>8 DEF PresenceNext, Step
<1>3. Values /\ NeverOvercounts /\ Tidy => LastCloseRecorded
  <2> SUFFICES ASSUME Values, NeverOvercounts, Tidy, ~rough, Present = {}
               PROVE  lastSeen # "old" /\ announced # "online" /\ count = 0
    BY DEF LastCloseRecorded
  <2>1. \A c \in Conns : pc[c] = "closed"
    BY DEF Present
  <2>2. lastSeen # "old" /\ announced # "online" /\ leaked = 0
    BY <2>1 DEF Tidy, ToRecord
  <2>3. count = 0
    BY <2>1, <2>2, SomeCounted DEF Values
  <2>4. QED
    BY <2>2, <2>3
<1>4. QED
  BY <1>1, <1>2, <1>3, ValuesInvariant, NeverOvercountsHolds, PTL DEF PresenceSpec

-----------------------------------------------------------------------------
\* Conversation.  Its invariant, in the layers in which it is proved.

\* The text c of message m was committed, by the send or by the edit c.
Committed(m, c) ==
  /\ content[m] # None
  /\ c \in Editors => rmsg[c] = m /\ rpc[c] \in {"stored", "over"}

\* A row exists from the send's commit on, and before any request on it; its
\* text and its deletion were committed.
Stored ==
  /\ \A m \in Messages : /\ stage[m] = "minted" <=> content[m] = None
                         /\ content[m] # None => Committed(m, content[m])
                         /\ m \in deleted => content[m] # None
  /\ \A e \in Editors : rpc[e] # "idle" =>
       /\ rmsg[e] \in Messages /\ content[rmsg[e]] # None
       /\ rpc[e] = "stored" /\ rop[e] = "delete" => rmsg[e] \in deleted

\* So was what an event under way, a fetched page, and the client say.
EventsCommitted ==
  \A i \in 1 .. Len(feed) :
    /\ feed[i].type = "upsert" => feed[i].content # None /\ Committed(feed[i].id, feed[i].content)
    /\ feed[i].type = "deleted" => feed[i].id \in deleted

PagesCommitted ==
  \A w \in Walks, m \in Messages : walk[w].got[m] # None => Committed(m, walk[w].got[m])

ShownCommitted ==
  \A m \in Messages :
    /\ shown[m] \in Contents => Committed(m, shown[m])
    /\ shown[m] = "gone" => m \in deleted

\* What was deleted when a catch-up began stays deleted.
Hidden == \A w \in Walks : walk[w].hidden \subseteq deleted

\* Where a catch-up stands with a message it is to bring: it was deleted, or
\* is among the fetched (and then the shown) ones, or is on a later page, or
\* has a known message in front of it, where the walk ends.
Reached(w, m) ==
  \/ m \in deleted
  \/ IF walk[w].pc = "over" THEN shown[m] # None ELSE walk[w].got[m] # None
  \/ walk[w].pc = "fetch" /\ (walk[w].cursor = 0 \/ at[m] < walk[w].cursor)
  \/ \E k \in 1 .. walk[w].since : content[k] # None /\ at[k] > at[m]

Covers ==
  \A w \in Walks : \A m \in walk[w].want :
    content[m] # None /\ walk[w].since # 0 /\ m > walk[w].since /\ Reached(w, m)

\* The requests on a message that is not raced come one by one, so the one
\* that has stored its change is about to announce the row as it is.
Active(e) == rpc[e] \in {"read", "stored"}

OneByOne ==
  \A m \in Messages \ raced :
    /\ stage[m] = "stored" => content[m] = "first" /\ m \notin deleted
    /\ \A e \in Editors : rmsg[e] = m /\ Active(e) =>
         /\ stage[m] # "stored"
         /\ \A f \in Editors : rmsg[f] = m /\ Active(f) => f = e
         /\ rpc[e] = "read" => m \notin deleted
         /\ rpc[e] = "stored" /\ rop[e] = "edit" => content[m] = e /\ m \notin deleted

\* Its pages show the row as it is ...
PagesCurrent ==
  \A w \in Walks : walk[w].pc \in {"fetch", "merge"} =>
    \A m \in Messages \ raced : walk[w].got[m] # None => walk[w].got[m] = View(m)

\* ... and, unless it is still to be announced, so does the last event about
\* it that is under way or, if there is none, the client.
Unannounced(m) ==
  stage[m] = "stored" \/ \E e \in Editors : rmsg[e] = m /\ rpc[e] = "stored"

EventView(ev) == IF ev.type = "deleted" THEN "gone" ELSE ev.content

Latest(m) ==
  /\ \A i \in 1 .. Len(feed) :
       feed[i].id = m /\ (\A j \in i + 1 .. Len(feed) : feed[j].id # m)
         => EventView(feed[i]) = View(m)
  /\ (\A i \in 1 .. Len(feed) : feed[i].id # m) => shown[m] = View(m)

LatestCurrent == \A m \in Messages \ raced : ~Unannounced(m) => Latest(m)

-----------------------------------------------------------------------------
\* A nonempty set of naturals has a least element, and a bounded one a
\* greatest.
LEMMA LeastNat ==
  ASSUME NEW S, S \subseteq Nat, S # {} PROVE \E x \in S : \A y \in S : x <= y
<1>1. PICK x \in S : \A y \in S : <<y, x>> \notin OpToRel(<, Nat)
  BY NatLessThanWellFounded, WFMin
<1>2. \A y \in S : ~(y < x)
  BY <1>1 DEF OpToRel
<1>3. QED
  BY <1>2

LEMMA GreatestBelow ==
  ASSUME NEW n \in Nat, NEW S, S \subseteq 0 .. n, S # {}
  PROVE \E x \in S : \A y \in S : y <= x
<1> DEFINE D == {n - x : x \in S}
<1>1. \A x \in S : x \in Nat /\ n - x \in Nat
  OBVIOUS
<1>2. D \subseteq Nat
  BY <1>1
<1>3. D # {}
  <2>1. PICK x : x \in S
    OBVIOUS
  <2>2. n - x \in D
    BY <2>1
  <2>3. QED
    BY <2>2
<1>4. PICK d \in D : \A y \in D : d <= y
  <2> HIDE DEF D
  <2> QED BY <1>2, <1>3, LeastNat
<1>5. PICK x \in S : d = n - x
  OBVIOUS
<1>6. \A y \in S : n - x <= n - y
  BY <1>4, <1>5
<1>7. QED
  BY <1>1, <1>6

-----------------------------------------------------------------------------
\* The keyset walk.  What a page shows is newer than what it leaves for later,
\* and a page shows something if there is anything to show.
LEMMA PageIsNewest ==
  ASSUME at \in [Messages -> Messages], NEW c \in 0 .. MaxMessage,
         NEW p \in Page(c), NEW m \in After(c) \ Page(c)
  PROVE  at[m] < at[p]
<1> USE ConversationAssumption DEF Messages
<1> DEFINE Newer(k) == {x \in After(c) : at[x] > at[k]}
<1>1. /\ After(c) \subseteq Messages /\ p \in After(c) /\ m \in After(c)
      /\ \A x \in After(c) : at[x] \in Nat
  <2>1. After(c) \subseteq Messages
    BY DEF After, History
  <2>2. p \in After(c)
    BY DEF Page
  <2>3. \A x \in Messages : at[x] \in Nat
    OBVIOUS
  <2>4. QED
    BY <2>1, <2>2, <2>3
<1>2. \A k : IsFiniteSet(Newer(k)) /\ Cardinality(Newer(k)) \in Nat
  <2>1. IsFiniteSet(Messages)
    BY FS_Interval
  <2>2. \A k : Newer(k) \in SUBSET Messages
    BY <1>1
  <2>3. QED
    BY <2>1, <2>2, FS_Subset, FS_CardinalityType
<1>3. Cardinality(Newer(p)) < PageLimit /\ ~(Cardinality(Newer(m)) < PageLimit)
  BY DEF Page
<1>4. SUFFICES ASSUME at[p] <= at[m] PROVE FALSE
  BY <1>1
<1>5. Newer(m) \in SUBSET Newer(p)
  BY <1>1, <1>4
<1>6. Cardinality(Newer(m)) <= Cardinality(Newer(p))
  <2> HIDE DEF Newer
  <2> QED BY <1>2, <1>5, FS_Subset
<1>7. QED
  <2> HIDE DEF Newer
  <2> QED BY <1>2, <1>3, <1>6

LEMMA PageShowsSome ==
  ASSUME at \in [Messages -> Messages], NEW c \in 0 .. MaxMessage, After(c) # {}
  PROVE  Page(c) # {}
<1> USE ConversationAssumption DEF Messages
<1> DEFINE S == {at[x] : x \in After(c)}
<1>1. After(c) \subseteq Messages /\ \A x \in After(c) : at[x] \in 0 .. MaxMessage
  <2>1. After(c) \subseteq Messages
    BY DEF After, History
  <2>2. \A x \in Messages : at[x] \in 0 .. MaxMessage
    OBVIOUS
  <2>3. QED
    BY <2>1, <2>2
<1>2. S \subseteq 0 .. MaxMessage /\ S # {}
  BY <1>1, SMTT(30)
<1>3. PICK g \in S : \A y \in S : y <= g
  <2> HIDE DEF S
  <2> QED BY <1>2, GreatestBelow
<1>4. PICK x \in After(c) : g = at[x]
  OBVIOUS
<1>5. {k \in After(c) : at[k] > at[x]} = {}
  <2>1. ASSUME NEW k \in After(c) PROVE ~(at[k] > at[x])
    <3>1. at[k] \in Nat /\ at[x] \in Nat
      BY <1>1
    <3>2. at[k] <= at[x]
      BY <1>3, <1>4, SMTT(30)
    <3>3. QED
      BY <3>1, <3>2
  <2>2. \A k \in After(c) : ~(at[k] > at[x])
    BY <2>1
  <2> HIDE DEF S
  <2>3. QED
    BY <2>2, Zenon
<1>6. Cardinality({k \in After(c) : at[k] > at[x]}) < PageLimit
  <2>1. Cardinality({}) < PageLimit
    BY FS_EmptySet
  <2>2. QED
    BY <1>5, <2>1
<1>7. QED
  BY <1>6 DEF Page

\* next_cursor lies between the page and the rows after it.
LEMMA NextCursorSeparates ==
  ASSUME at \in [Messages -> Messages], NEW c \in 0 .. MaxMessage
  PROVE  /\ NextCursor(c) \in 0 .. MaxMessage
         /\ \A m \in After(c) \ Page(c) : NextCursor(c) # 0 /\ at[m] < NextCursor(c)
<1> USE ConversationAssumption DEF Messages
<1>1. CASE Page(c) = After(c)
  BY <1>1 DEF NextCursor
<1>2. CASE Page(c) # After(c)
  <2> DEFINE S == {at[m] : m \in Page(c)}
  <2>1. Page(c) \subseteq Messages /\ Page(c) \subseteq After(c)
    BY DEF Page, After, History
  <2>2. Page(c) # {}
    BY <1>2, <2>1, PageShowsSome
  <2>3. S \subseteq 1 .. MaxMessage /\ S # {}
    BY <2>1, <2>2, SMTT(30)
  <2>4. PICK g \in S : \A y \in S : g <= y
    <3> HIDE DEF S
    <3>1. S \subseteq Nat
      BY <2>3
    <3>2. QED
      BY <2>3, <3>1, LeastNat
  <2>5. \A m \in Page(c) : g <= at[m]
    BY <2>4
  <2>6. NextCursor(c) = CHOOSE x \in S : \A m \in Page(c) : x <= at[m]
    BY <1>2 DEF NextCursor
  <2>7. NextCursor(c) \in S
    <3> HIDE DEF S
    <3> QED BY <2>4, <2>5, <2>6
  <2>8. PICK p \in Page(c) : NextCursor(c) = at[p]
    BY <2>7
  <2>9. \A m \in After(c) \ Page(c) : at[m] < NextCursor(c)
    BY <2>8, PageIsNewest
  <2>10. NextCursor(c) \in 1 .. MaxMessage
    <3> HIDE DEF S
    <3> QED BY <2>3, <2>7
  <2>11. QED
    BY <2>9, <2>10
<1>3. QED
  BY <1>1, <1>2

-----------------------------------------------------------------------------
\* An event that is published joins the feed as its last one ...
LEMMA PublishAppends ==
  ASSUME feed \in Seq(Events), Len(feed) <= MaxFeed, NEW ev \in Events, Publish(ev)
  PROVE  /\ feed' \in Seq(Events) /\ Len(feed') = Len(feed) + 1 /\ Len(feed') <= MaxFeed
         /\ Len(feed) \in Nat
         /\ \A i \in 1 .. Len(feed) : feed'[i] = feed[i]
         /\ feed'[Len(feed) + 1] = ev
<1>1. /\ feed' = Append(feed, ev) /\ Len(feed) < MaxFeed /\ Len(feed) \in Nat
      /\ MaxFeed \in Nat
  BY ConversationAssumption, LenProperties DEF Publish
<1>2. QED
  BY <1>1, AppendProperties

\* ... and one that is delivered or lost leaves it as its first.
LEMMA FirstLeaves ==
  ASSUME feed \in Seq(Events), Len(feed) <= MaxFeed, feed # <<>>, feed' = Tail(feed)
  PROVE  /\ Len(feed) \in Nat \ {0} /\ Head(feed) = feed[1] /\ feed[1] \in Events
         /\ feed' \in Seq(Events) /\ Len(feed') = Len(feed) - 1 /\ Len(feed') <= MaxFeed
         /\ \A i \in 1 .. Len(feed') : feed'[i] = feed[i + 1]
<1>1. Len(feed) \in Nat \ {0}
  BY LenProperties, EmptySeq
<1>2. Head(feed) = feed[1] /\ feed[1] \in Events
  BY <1>1, ElementOfSeq
<1>3. QED
  BY <1>1, <1>2, HeadTailProperties, ConversationAssumption

\* What an event says of its message's view.
LEMMA EventTypes ==
  ASSUME NEW ev \in Events
  PROVE  /\ ev.id \in Messages /\ ev.type \in {"upsert", "deleted"}
         /\ ev.content \in Contents \cup {None}
BY DEF Events

LEMMA AnnouncementTypes ==
  ASSUME ConversationTypeOK, NEW e \in Editors, rmsg[e] \in Messages
  PROVE  Announcement(e) \in Events
<1>1. rop[e] \in {"edit", "delete"}
  BY DEF ConversationTypeOK
<1>2. QED
  BY <1>1 DEF Announcement, Events, Upsert, Deleted, Contents

\* One record per walk: its fields and what Fetch and Merge make of them.
LEMMA WalkTypes ==
  ASSUME NEW wk \in WalkStates
  PROVE  /\ wk.pc \in {"idle", "fetch", "merge", "over"}
         /\ wk.since \in 0 .. MaxMessage /\ wk.cursor \in 0 .. MaxMessage
         /\ wk.pages \in 0 .. MaxPages /\ wk.got \in [Messages -> Contents \cup {None}]
         /\ wk.want \in SUBSET Messages /\ wk.hidden \in SUBSET Messages
BY DEF WalkStates

LEMMA NoWalkType == NoWalk \in WalkStates
<1>1. [m \in Messages |-> None] \in [Messages -> Contents \cup {None}]
  OBVIOUS
<1>2. 0 \in 0 .. MaxMessage /\ 0 \in 0 .. MaxPages
  BY ConversationAssumption
<1>3. QED
  BY <1>1, <1>2 DEF NoWalk, WalkStates

LEMMA OpenWalk ==
  ASSUME ConversationTypeOK, Open
  PROVE  /\ conns + 1 \in Walks /\ walk'[conns + 1] \in WalkStates
         /\ \A v \in Walks \ {conns + 1} : walk'[v] = walk[v]
         /\ walk' \in [Walks -> WalkStates]
         /\ walk'[conns + 1].pc = "fetch" /\ walk'[conns + 1].since = last
         /\ walk'[conns + 1].cursor = 0
         /\ walk'[conns + 1].got = [m \in Messages |-> None]
         /\ walk'[conns + 1].hidden = deleted
         /\ walk'[conns + 1].want =
              {m \in Messages : last # 0 /\ m > last /\ content[m] # None}
<1> USE ConversationAssumption
<1> DEFINE W == {m \in Messages : last # 0 /\ m > last /\ content[m] # None}
           rec == [NoWalk EXCEPT !.pc = "fetch", !.since = last, !.hidden = deleted, !.want = W]
<1>1. walk \in [Walks -> WalkStates] /\ last \in 0 .. MaxMessage /\ deleted \in SUBSET Messages
  BY DEF ConversationTypeOK
<1>2. conns + 1 \in Walks /\ walk' = [walk EXCEPT ![conns + 1] = rec]
  BY DEF Open, Walks, ConversationTypeOK
<1>3. rec \in WalkStates
  <2>1. W \in SUBSET Messages
    OBVIOUS
  <2> HIDE DEF W
  <2>2. QED
    BY <1>1, <2>1, NoWalkType DEF WalkStates
<1>4. /\ rec.pc = "fetch" /\ rec.since = last /\ rec.cursor = 0
      /\ rec.got = [m \in Messages |-> None] /\ rec.hidden = deleted /\ rec.want = W
  BY DEF NoWalk
<1> HIDE DEF rec, W
<1>5. walk'[conns + 1] = rec /\ \A v \in Walks \ {conns + 1} : walk'[v] = walk[v]
  BY <1>1, <1>2
<1>6. walk' \in [Walks -> WalkStates]
  BY <1>1, <1>2, <1>3
<1>7. QED
  BY <1>2, <1>3, <1>4, <1>5, <1>6 DEF W

\* Whether a walk goes on after the page it is at.
Over(w) ==
  \/ walk[w].since = 0
  \/ \E m \in Page(walk[w].cursor) : m <= walk[w].since
  \/ NextCursor(walk[w].cursor) = 0
More(w) == ~Over(w) /\ walk[w].pages + 1 < MaxPages

LEMMA FetchWalk ==
  ASSUME ConversationTypeOK, NEW w \in Walks, Fetch(w)
  PROVE  /\ walk[w].pc = "fetch"
         /\ walk' \in [Walks -> WalkStates]
         /\ \A v \in Walks \ {w} : walk'[v] = walk[v]
         /\ walk'[w].since = walk[w].since /\ walk'[w].hidden = walk[w].hidden
         /\ walk'[w].pc = IF More(w) THEN "fetch" ELSE "merge"
         /\ walk'[w].cursor = IF More(w) THEN NextCursor(walk[w].cursor) ELSE 0
         /\ walk'[w].want = IF Over(w) \/ More(w) THEN walk[w].want ELSE {}
         /\ \A m \in Messages : walk'[w].got[m] =
              IF m \in Page(walk[w].cursor) /\ m > walk[w].since
                THEN content[m] ELSE walk[w].got[m]
<1> USE ConversationAssumption
<1> DEFINE wk == walk[w]
           G == [m \in Messages |-> IF m \in Page(wk.cursor) /\ m > wk.since
                                      THEN content[m] ELSE wk.got[m]]
           P == IF More(w) THEN "fetch" ELSE "merge"
           C == IF More(w) THEN NextCursor(wk.cursor) ELSE 0
           N == IF More(w) THEN wk.pages + 1 ELSE 0
           W == IF Over(w) \/ More(w) THEN wk.want ELSE {}
           rec == [wk EXCEPT !.got = G, !.cursor = C, !.pages = N, !.pc = P, !.want = W]
<1>1. walk \in [Walks -> WalkStates] /\ wk \in WalkStates
  BY DEF ConversationTypeOK
<1>2. walk' = [walk EXCEPT ![w] = rec] /\ wk.pc = "fetch"
  BY DEF Fetch, More, Over
<1>3. G \in [Messages -> Contents \cup {None}]
  <2>1. content \in [Messages -> Contents \cup {None}]
    BY DEF ConversationTypeOK
  <2>2. wk.got \in [Messages -> Contents \cup {None}]
    BY <1>1, WalkTypes
  <2> HIDE DEF wk
  <2>3. QED
    BY <2>1, <2>2
<1>4. C \in 0 .. MaxMessage
  <2>1. wk.cursor \in 0 .. MaxMessage /\ at \in [Messages -> Messages]
    BY <1>1, WalkTypes DEF ConversationTypeOK
  <2>2. QED
    BY <2>1, NextCursorSeparates
<1>5. N \in 0 .. MaxPages
  BY <1>1, WalkTypes DEF More
<1>6. W \in SUBSET Messages
  BY <1>1, WalkTypes
<1>7. P \in {"fetch", "merge"} /\ \A m \in Messages : G[m] =
        IF m \in Page(wk.cursor) /\ m > wk.since THEN content[m] ELSE wk.got[m]
  OBVIOUS
<1>8. /\ rec \in WalkStates
      /\ rec.since = wk.since /\ rec.hidden = wk.hidden
      /\ rec.pc = P /\ rec.cursor = C /\ rec.want = W /\ rec.got = G
  <2> HIDE DEF wk, G, P, C, N, W
  <2> QED BY <1>1, <1>3, <1>4, <1>5, <1>6, <1>7 DEF WalkStates
<1>9. /\ walk' \in [Walks -> WalkStates] /\ walk'[w] = rec
      /\ \A v \in Walks \ {w} : walk'[v] = walk[v]
  <2> HIDE DEF rec
  <2> QED BY <1>1, <1>2, <1>8
<1>10. QED
  BY <1>2, <1>7, <1>8, <1>9

LEMMA MergeWalk ==
  ASSUME ConversationTypeOK, NEW w \in Walks, Merge(w)
  PROVE  /\ walk[w].pc = "merge"
         /\ walk' \in [Walks -> WalkStates]
         /\ \A v \in Walks \ {w} : walk'[v] = walk[v]
         /\ walk'[w].since = walk[w].since /\ walk'[w].want = walk[w].want
         /\ walk'[w].pc = "over" /\ walk'[w].hidden = {}
         /\ walk'[w].got = [m \in Messages |-> None]
<1> USE ConversationAssumption
<1> DEFINE rec == [NoWalk EXCEPT !.pc = "over", !.since = walk[w].since, !.want = walk[w].want]
<1>1. walk \in [Walks -> WalkStates] /\ walk[w] \in WalkStates
  BY DEF ConversationTypeOK
<1>2. walk' = [walk EXCEPT ![w] = rec] /\ walk[w].pc = "merge"
  BY DEF Merge
<1>3. rec \in WalkStates
  <2>1. walk[w].since \in 0 .. MaxMessage /\ walk[w].want \in SUBSET Messages
    BY <1>1, WalkTypes
  <2>2. QED
    BY <2>1, NoWalkType DEF WalkStates
<1>4. /\ rec.pc = "over" /\ rec.since = walk[w].since /\ rec.want = walk[w].want
      /\ rec.hidden = {} /\ rec.got = [m \in Messages |-> None]
  BY DEF NoWalk
<1> HIDE DEF rec
<1>5. QED
  BY <1>1, <1>2, <1>3, <1>4

-----------------------------------------------------------------------------
\* The types, with the message of every request that has read one.
Typed ==
  /\ ConversationTypeOK
  /\ \A e \in Editors : rpc[e] # "idle" => rmsg[e] \in Messages

\* Every step keeps these types, and an edit or delete its message once read.
THEOREM TypedInvariant == ConversationSpec => []Typed
<1> USE ConversationAssumption
<1>1. ConversationInit => Typed
  <2> SUFFICES ASSUME ConversationInit PROVE Typed
    OBVIOUS
  <2>1. walk \in [Walks -> WalkStates]
    BY NoWalkType DEF ConversationInit
  <2>2. feed \in Seq(Events) /\ Len(feed) <= MaxFeed
    BY EmptySeq DEF ConversationInit
  <2>3. content \in [Messages -> Contents \cup {None}] /\ shown = content
    BY DEF ConversationInit, Contents
  <2>4. shown \in [Messages -> Views]
    BY <2>3 DEF Views
  <2>5. last \in 0 .. MaxMessage /\ conns \in 0 .. MaxConns
    BY DEF ConversationInit
  <2>6. QED
    BY <2>1, <2>2, <2>3, <2>4, <2>5 DEF ConversationInit, Typed, ConversationTypeOK
<1>2. Typed /\ [ConversationNext]_conversationVars => Typed'
  <2> SUFFICES ASSUME Typed, [ConversationNext]_conversationVars PROVE Typed'
    OBVIOUS
  <2> USE DEF Typed, rows, requests, client
  <2>0. ConversationTypeOK
    OBVIOUS
  <2>1. ASSUME NEW m \in Messages, Store(m) PROVE Typed'
    BY <2>1 DEF Store, ConversationTypeOK, Contents
  <2>2. ASSUME NEW m \in Messages, AnnounceCreated(m) PROVE Typed'
    <3>1. Upsert(m, "first") \in Events
      BY DEF Upsert, Events, Contents
    <3>2. feed' \in Seq(Events) /\ Len(feed') <= MaxFeed
      BY <2>2, <3>1, PublishAppends DEF AnnounceCreated, ConversationTypeOK
    <3>3. QED
      BY <2>2, <3>2 DEF AnnounceCreated, ConversationTypeOK
  <2>3. ASSUME NEW e \in Editors, NEW o \in {"edit", "delete"}, NEW m \in 1 .. MaxEdited,
               Read(e, o, m) PROVE Typed'
    <3>1. m \in Messages
      BY DEF Messages
    <3>2. QED
      BY <2>3, <3>1 DEF Read, ConversationTypeOK
  <2>4. ASSUME NEW e \in Editors, Write(e) PROVE Typed'
    <3>1. rmsg[e] \in Messages
      BY <2>4 DEF Write
    <3>2. QED
      BY <2>4, <3>1 DEF Write, ConversationTypeOK, Contents
  <2>5. ASSUME NEW e \in Editors, Announce(e) PROVE Typed'
    <3>1. rmsg[e] \in Messages
      BY <2>5 DEF Announce
    <3>2. Announcement(e) \in Events
      BY <2>0, <3>1, AnnouncementTypes
    <3>3. feed' \in Seq(Events) /\ Len(feed') <= MaxFeed
      BY <2>5, <3>2, PublishAppends DEF Announce, ConversationTypeOK
    <3>4. QED
      BY <2>5, <3>1, <3>3 DEF Announce, ConversationTypeOK
  <2>6. CASE Open
    <3>1. walk' \in [Walks -> WalkStates]
      BY <2>0, <2>6, OpenWalk
    <3>2. conns' \in 0 .. MaxConns
      BY <2>6 DEF Open, ConversationTypeOK
    <3>3. QED
      BY <2>6, <3>1, <3>2 DEF Open, ConversationTypeOK
  <2>7. CASE Join
    BY <2>7 DEF Join, ConversationTypeOK
  <2>8. CASE Drop
    BY <2>8 DEF Drop, ConversationTypeOK
  <2>9. CASE Deliver
    <3>1. /\ feed[1] = Head(feed) /\ feed[1] \in Events
          /\ feed' \in Seq(Events) /\ Len(feed') <= MaxFeed
      BY <2>9, FirstLeaves DEF Deliver, ConversationTypeOK
    <3>2. Head(feed).id \in Messages /\ Head(feed).content \in Views
      BY <3>1, EventTypes DEF Views
    <3>3. shown' \in [Messages -> Views]
      BY <2>9, <3>2 DEF Deliver, ConversationTypeOK, Views
    <3>4. last' \in 0 .. MaxMessage
      BY <2>9, <3>2 DEF Deliver, ConversationTypeOK, Messages
    <3>5. QED
      BY <2>9, <3>1, <3>3, <3>4 DEF Deliver, ConversationTypeOK
  <2>10. CASE Lose
    <3>1. /\ feed[1] = Head(feed) /\ feed[1] \in Events
          /\ feed' \in Seq(Events) /\ Len(feed') <= MaxFeed
      BY <2>10, FirstLeaves DEF Lose, ConversationTypeOK
    <3>2. Head(feed).id \in Messages
      BY <3>1, EventTypes
    <3>3. QED
      BY <2>10, <3>1, <3>2 DEF Lose, ConversationTypeOK
  <2>11. ASSUME NEW w \in Walks, Fetch(w) PROVE Typed'
    <3>1. walk' \in [Walks -> WalkStates]
      BY <2>0, <2>11, FetchWalk
    <3>2. QED
      BY <2>11, <3>1 DEF Fetch, ConversationTypeOK
  <2>12. ASSUME NEW w \in Walks, Merge(w) PROVE Typed'
    <3>1. walk' \in [Walks -> WalkStates]
      BY <2>0, <2>12, MergeWalk
    <3>2. walk[w].got \in [Messages -> Contents \cup {None}]
      BY WalkTypes DEF ConversationTypeOK
    <3> DEFINE merged == [m \in Messages |->
                 IF walk[w].got[m] # None THEN walk[w].got[m] ELSE shown[m]]
    <3>3. merged \in [Messages -> Views]
      BY <3>2 DEF ConversationTypeOK, Views
    <3>4. last' \in 0 .. MaxMessage
      <4>1. CASE \A m \in Messages : walk[w].got[m] = None
        BY <2>12, <4>1 DEF Merge, ConversationTypeOK
      <4>2. CASE \E m \in Messages : walk[w].got[m] # None
        <5> DEFINE S == {m \in Messages : merged[m] # None}
        <5>1. S # {} /\ S \subseteq 0 .. MaxMessage
          BY <4>2 DEF Messages
        <5>2. PICK g \in S : \A k \in S : k <= g
          BY <5>1, GreatestBelow
        <5>3. g \in Messages /\ merged[g] # None /\ \A k \in Messages : merged[k] # None => k <= g
          BY <5>2
        <5>4. last' = CHOOSE m \in Messages :
                        merged[m] # None /\ \A k \in Messages : merged[k] # None => k <= m
          BY <2>12, <4>2 DEF Merge
        <5> HIDE DEF merged
        <5>5. last' \in Messages
          BY <5>3, <5>4
        <5>6. QED
          BY <5>5 DEF Messages
      <4>3. QED
        BY <4>1, <4>2
    <3>5. shown' = merged
      BY <2>12 DEF Merge
    <3> HIDE DEF merged
    <3>6. QED
      BY <2>12, <3>1, <3>3, <3>4, <3>5 DEF Merge, ConversationTypeOK
  <2>13. CASE UNCHANGED conversationVars
    BY <2>13 DEF conversationVars, ConversationTypeOK
  <2>14. QED
    BY <2>1, <2>2, <2>3, <2>4, <2>5, <2>6, <2>7, <2>8, <2>9, <2>10, <2>11, <2>12, <2>13
       DEF ConversationNext
<1>3. QED
  BY <1>1, <1>2, PTL DEF ConversationSpec

\* Rows, requests, events and the client's state keep their types.
THEOREM ConversationTypeOKHolds == ConversationSpec => []ConversationTypeOK
<1>1. Typed => ConversationTypeOK
  BY DEF Typed
<1>2. QED
  BY <1>1, TypedInvariant, PTL

-----------------------------------------------------------------------------
\* Rows, deletions and finished requests stay.
LEMMA RowsGrow ==
  ASSUME Typed, [ConversationNext]_conversationVars
  PROVE  /\ \A m \in Messages : content[m] # None => content'[m] # None
         /\ deleted \subseteq deleted'
         /\ \A e \in Editors : rpc[e] \in {"stored", "over"} =>
              rpc'[e] \in {"stored", "over"} /\ rmsg'[e] = rmsg[e]
         /\ at' = at
<1> DEFINE Grow == /\ \A m \in Messages : content[m] # None => content'[m] # None
                   /\ deleted \subseteq deleted'
                   /\ \A e \in Editors : rpc[e] \in {"stored", "over"} =>
                        rpc'[e] \in {"stored", "over"} /\ rmsg'[e] = rmsg[e]
                   /\ at' = at
<1> USE DEF rows, requests, client
<1>0. /\ content \in [Messages -> Contents \cup {None}]
      /\ rpc \in [Editors -> {"idle", "read", "stored", "over"}]
      /\ rmsg \in [Editors -> Messages \cup {None}]
      /\ None \notin Contents
  BY ConversationAssumption DEF Typed, ConversationTypeOK
<1>1. ASSUME NEW m \in Messages, Store(m) PROVE Grow
  BY <1>0, <1>1 DEF Store, Contents
<1>2. ASSUME NEW m \in Messages, AnnounceCreated(m) PROVE Grow
  BY <1>2 DEF AnnounceCreated
<1>3. ASSUME NEW e \in Editors, NEW o, NEW m, Read(e, o, m) PROVE Grow
  BY <1>0, <1>3 DEF Read
<1>4. ASSUME NEW e \in Editors, Write(e) PROVE Grow
  BY <1>0, <1>4 DEF Write, Contents
<1>5. ASSUME NEW e \in Editors, Announce(e) PROVE Grow
  BY <1>0, <1>5 DEF Announce
<1>6. CASE UNCHANGED <<rows, requests>>
  BY <1>6
<1>7. QED
  BY <1>1, <1>2, <1>3, <1>4, <1>5, <1>6
     DEF ConversationNext, conversationVars, Open, Join, Drop, Deliver, Lose, Fetch, Merge

\* What was committed is still committed after the step.
CommittedNext(m, c) ==
  /\ content'[m] # None
  /\ c \in Editors => rmsg'[c] = m /\ rpc'[c] \in {"stored", "over"}

LEMMA CommittedStays ==
  ASSUME Typed, [ConversationNext]_conversationVars
  PROVE  \A m \in Messages : \A c : Committed(m, c) => CommittedNext(m, c)
BY RowsGrow DEF Committed, CommittedNext

\* The row of each message, and the message of each request.
LEMMA StoredInvariant == ConversationSpec => []Stored
<1> USE ConversationAssumption
<1>1. ConversationInit => Stored
  BY DEF ConversationInit, Stored, Committed, Contents
<1>2. Typed /\ Stored /\ [ConversationNext]_conversationVars => Stored'
  <2> SUFFICES ASSUME Typed, Stored, [ConversationNext]_conversationVars PROVE Stored'
    OBVIOUS
  <2> USE DEF rows, requests, client
  <2>0. /\ content \in [Messages -> Contents \cup {None}]
        /\ stage \in [Messages -> {"minted", "stored", "over"}]
        /\ rpc \in [Editors -> {"idle", "read", "stored", "over"}]
        /\ rop \in [Editors -> {"edit", "delete"}]
        /\ rmsg \in [Editors -> Messages \cup {None}]
        /\ \A e \in Editors : rpc[e] # "idle" => rmsg[e] \in Messages
        /\ None \notin Contents /\ "first" \in Contents
        /\ \A e \in Editors : e \in Contents
    BY DEF Typed, ConversationTypeOK, Contents
  <2>1. ASSUME NEW m \in Messages, Store(m) PROVE Stored'
    BY <2>0, <2>1 DEF Store, Stored, Committed
  <2>2. ASSUME NEW m \in Messages, AnnounceCreated(m) PROVE Stored'
    BY <2>0, <2>2 DEF AnnounceCreated, Stored, Committed
  <2>3. ASSUME NEW e \in Editors, NEW o \in {"edit", "delete"}, NEW m \in 1 .. MaxEdited,
               Read(e, o, m) PROVE Stored'
    BY <2>0, <2>3 DEF Read, History, Stored, Committed
  <2>4. ASSUME NEW e \in Editors, Write(e) PROVE Stored'
    BY <2>0, <2>4 DEF Write, Stored, Committed
  <2>5. ASSUME NEW e \in Editors, Announce(e) PROVE Stored'
    BY <2>0, <2>5 DEF Announce, Stored, Committed
  <2>6. CASE UNCHANGED <<rows, requests>>
    BY <2>6 DEF Stored, Committed
  <2>7. QED
    BY <2>1, <2>2, <2>3, <2>4, <2>5, <2>6
       DEF ConversationNext, conversationVars, Open, Join, Drop, Deliver, Lose, Fetch, Merge
<1>3. QED
  BY <1>1, <1>2, TypedInvariant, PTL DEF ConversationSpec

\* An event published or under way reports something that was committed.
LEMMA EventsInvariant == ConversationSpec => []EventsCommitted
<1> USE ConversationAssumption
<1> DEFINE Good(ev) ==
      /\ ev.type = "upsert" => ev.content # None /\ Committed(ev.id, ev.content)
      /\ ev.type = "deleted" => ev.id \in deleted
<1>1. ConversationInit => EventsCommitted
  BY EmptySeq DEF ConversationInit, EventsCommitted
<1>2. Typed /\ Stored /\ Stored' /\ EventsCommitted /\ [ConversationNext]_conversationVars
        => EventsCommitted'
  <2> SUFFICES ASSUME Typed, Stored, Stored', EventsCommitted,
                      [ConversationNext]_conversationVars
               PROVE  EventsCommitted'
    OBVIOUS
  <2> USE DEF rows, requests, client
  <2>0. /\ feed \in Seq(Events) /\ Len(feed) <= MaxFeed /\ Len(feed) \in Nat
        /\ \A i \in 1 .. Len(feed) : feed[i] \in Events /\ feed[i].id \in Messages
        /\ content \in [Messages -> Contents \cup {None}]
        /\ None \notin Contents /\ "first" \in Contents /\ "first" \notin Editors
        /\ \A e \in Editors : e \in Contents
    BY ElementOfSeq, EventTypes, LenProperties DEF Typed, ConversationTypeOK, Contents
  <2>1. \A i \in 1 .. Len(feed) : Good(feed[i]) /\ feed[i].id \in Messages
    BY <2>0 DEF EventsCommitted
  <2>2. ASSUME NEW ev, Good(ev), ev.id \in Messages
        PROVE  /\ ev.type = "upsert" => ev.content # None /\ CommittedNext(ev.id, ev.content)
               /\ ev.type = "deleted" => ev.id \in deleted'
    BY <2>2, CommittedStays, RowsGrow
  <2>3. \A i \in 1 .. Len(feed) :
          /\ feed[i].type = "upsert"
               => feed[i].content # None /\ CommittedNext(feed[i].id, feed[i].content)
          /\ feed[i].type = "deleted" => feed[i].id \in deleted'
    BY <2>1, <2>2
  <2>4. ASSUME NEW m \in Messages, AnnounceCreated(m) PROVE EventsCommitted'
    <3>1. Good(Upsert(m, "first")) /\ Upsert(m, "first").id = m
      BY <2>0, <2>4 DEF AnnounceCreated, Upsert, Stored, Committed
    <3>2. Upsert(m, "first") \in Events
      BY <2>0 DEF Upsert, Events
    <3>3. /\ Len(feed') = Len(feed) + 1 /\ feed'[Len(feed) + 1] = Upsert(m, "first")
          /\ \A i \in 1 .. Len(feed) : feed'[i] = feed[i]
      BY <2>0, <2>4, <3>2, PublishAppends DEF AnnounceCreated
    <3>4. QED
      BY <2>0, <2>2, <2>3, <3>1, <3>3 DEF EventsCommitted, Committed, CommittedNext
  <2>5. ASSUME NEW e \in Editors, Announce(e) PROVE EventsCommitted'
    <3>1. rmsg[e] \in Messages
      BY <2>5 DEF Announce, Typed
    <3>2. Good(Announcement(e)) /\ Announcement(e).id = rmsg[e]
      BY <2>0, <2>5, <3>1 DEF Announce, Announcement, Upsert, Deleted, Stored, Committed,
                              Typed, ConversationTypeOK
    <3>3. Announcement(e) \in Events
      BY <3>1, AnnouncementTypes DEF Typed
    <3>4. /\ Len(feed') = Len(feed) + 1 /\ feed'[Len(feed) + 1] = Announcement(e)
          /\ \A i \in 1 .. Len(feed) : feed'[i] = feed[i]
      BY <2>0, <2>5, <3>3, PublishAppends DEF Announce
    <3>5. /\ Announcement(e).type = "upsert"
               => Announcement(e).content # None
                  /\ CommittedNext(Announcement(e).id, Announcement(e).content)
          /\ Announcement(e).type = "deleted" => Announcement(e).id \in deleted'
      BY <2>2, <3>1, <3>2
    <3>6. QED
      BY <2>0, <2>3, <3>4, <3>5 DEF EventsCommitted, Committed, CommittedNext
  <2>6. CASE Deliver \/ Lose
    <3>1. /\ Len(feed') = Len(feed) - 1
          /\ \A i \in 1 .. Len(feed') : feed'[i] = feed[i + 1]
      BY <2>0, <2>6, FirstLeaves DEF Deliver, Lose
    <3>2. QED
      BY <2>0, <2>3, <3>1 DEF EventsCommitted, Committed, CommittedNext
  <2>7. CASE UNCHANGED feed
    BY <2>3, <2>7 DEF EventsCommitted, Committed, CommittedNext
  <2>8. QED
    BY <2>4, <2>5, <2>6, <2>7
       DEF ConversationNext, conversationVars, Store, Read, Write, Open, Join, Drop, Fetch, Merge
<1>3. QED
  BY <1>1, <1>2, TypedInvariant, StoredInvariant, PTL DEF ConversationSpec

\* So does a page the client has fetched ...
LEMMA PagesInvariant == ConversationSpec => []PagesCommitted
<1> USE ConversationAssumption
<1>1. ConversationInit => PagesCommitted
  BY DEF ConversationInit, PagesCommitted, NoWalk
<1>2. Typed /\ Stored /\ PagesCommitted /\ [ConversationNext]_conversationVars
        => PagesCommitted'
  <2> SUFFICES ASSUME Typed, Stored, PagesCommitted, [ConversationNext]_conversationVars
               PROVE  PagesCommitted'
    OBVIOUS
  <2> USE DEF rows, requests, client
  <2>0. ConversationTypeOK
    BY DEF Typed
  <2>1. \A w \in Walks, m \in Messages :
          walk[w].got[m] # None => CommittedNext(m, walk[w].got[m])
    BY CommittedStays DEF PagesCommitted
  <2>2. \A m \in Messages : content[m] # None => CommittedNext(m, content[m])
    BY CommittedStays DEF Stored
  <2>3. CASE Open
    <3>1. \A v \in Walks, m \in Messages :
            walk'[v].got[m] # None => walk'[v].got[m] = walk[v].got[m]
      BY <2>0, <2>3, OpenWalk
    <3>2. QED
      BY <2>1, <3>1 DEF PagesCommitted, Committed, CommittedNext
  <2>4. ASSUME NEW w \in Walks, Fetch(w) PROVE PagesCommitted'
    <3>1. \A v \in Walks, m \in Messages : walk'[v].got[m] \in {walk[v].got[m], content[m]}
      BY <2>0, <2>4, FetchWalk
    <3>2. QED
      BY <2>1, <2>2, <3>1 DEF PagesCommitted, Committed, CommittedNext
  <2>5. ASSUME NEW w \in Walks, Merge(w) PROVE PagesCommitted'
    <3>1. \A v \in Walks, m \in Messages :
            walk'[v].got[m] # None => walk'[v].got[m] = walk[v].got[m]
      BY <2>0, <2>5, MergeWalk
    <3>2. QED
      BY <2>1, <3>1 DEF PagesCommitted, Committed, CommittedNext
  <2>6. CASE UNCHANGED walk
    BY <2>1, <2>6 DEF PagesCommitted, Committed, CommittedNext
  <2>7. QED
    BY <2>3, <2>4, <2>5, <2>6
       DEF ConversationNext, conversationVars, Store, AnnounceCreated, Read, Write, Announce,
           Join, Drop, Deliver, Lose
<1>3. QED
  BY <1>1, <1>2, TypedInvariant, StoredInvariant, PTL DEF ConversationSpec

\* ... and therefore everything the client shows.
LEMMA ShownInvariant == ConversationSpec => []ShownCommitted
<1> USE ConversationAssumption
<1>1. ConversationInit => ShownCommitted
  BY DEF ConversationInit, ShownCommitted, Committed, Contents
<1>2. Typed /\ EventsCommitted /\ PagesCommitted /\ ShownCommitted
        /\ [ConversationNext]_conversationVars => ShownCommitted'
  <2> SUFFICES ASSUME Typed, EventsCommitted, PagesCommitted, ShownCommitted,
                      [ConversationNext]_conversationVars
               PROVE  ShownCommitted'
    OBVIOUS
  <2> USE DEF rows, requests, client
  <2>0. /\ ConversationTypeOK /\ shown \in [Messages -> Views]
        /\ "gone" \notin Contents /\ None \notin Contents /\ None # "gone"
    BY DEF Typed, ConversationTypeOK, Contents
  <2>1. \A m \in Messages : /\ shown[m] \in Contents => CommittedNext(m, shown[m])
                            /\ shown[m] = "gone" => m \in deleted'
    BY CommittedStays, RowsGrow DEF ShownCommitted
  <2>2. CASE Deliver
    <3> DEFINE ev == Head(feed)
    <3>1. Len(feed) \in Nat \ {0} /\ ev = feed[1] /\ feed[1] \in Events
      BY <2>0, <2>2, FirstLeaves DEF Deliver, ConversationTypeOK
    <3>2. /\ ev.type = "upsert" => ev.content # None /\ Committed(ev.id, ev.content)
          /\ ev.type = "deleted" => ev.id \in deleted
          /\ ev.id \in Messages /\ ev.type \in {"upsert", "deleted"}
      BY <3>1, EventTypes DEF EventsCommitted
    <3>3. shown' = [shown EXCEPT ![ev.id] = IF ev.type = "deleted" THEN "gone" ELSE ev.content]
      BY <2>2 DEF Deliver
    <3>4. /\ ev.type = "upsert" => CommittedNext(ev.id, ev.content)
          /\ ev.type = "deleted" => ev.id \in deleted'
      BY <3>2, CommittedStays, RowsGrow
    <3>5. ev.type = "upsert" => ev.content \in Contents
      BY <3>1, <3>2, EventTypes
    <3> HIDE DEF ev
    <3>6. QED
      BY <2>0, <2>1, <3>2, <3>3, <3>4, <3>5 DEF ShownCommitted, Committed, CommittedNext
  <2>3. ASSUME NEW w \in Walks, Merge(w) PROVE ShownCommitted'
    <3>1. /\ walk[w].got \in [Messages -> Contents \cup {None}]
          /\ \A m \in Messages :
               shown'[m] = IF walk[w].got[m] # None THEN walk[w].got[m] ELSE shown[m]
      BY <2>3, WalkTypes DEF Merge, Typed, ConversationTypeOK
    <3>2. \A m \in Messages : walk[w].got[m] # None => CommittedNext(m, walk[w].got[m])
      BY CommittedStays DEF PagesCommitted
    <3>3. QED
      BY <2>0, <2>1, <3>1, <3>2 DEF ShownCommitted, Committed, CommittedNext
  <2>4. CASE UNCHANGED shown
    BY <2>1, <2>4 DEF ShownCommitted, Committed, CommittedNext
  <2>5. QED
    BY <2>2, <2>3, <2>4
       DEF ConversationNext, conversationVars, Store, AnnounceCreated, Read, Write, Announce,
           Open, Join, Drop, Lose, Fetch
<1>3. QED
  BY <1>1, <1>2, TypedInvariant, EventsInvariant, PagesInvariant, PTL DEF ConversationSpec

\* F45, persist-then-publish: the client never shows a text or a deletion that
\* was not committed, whether it came by an event or by a page.
THEOREM ShownWasCommittedHolds == ConversationSpec => []ShownWasCommitted
<1>1. ShownCommitted => ShownWasCommitted
  BY DEF ShownCommitted, ShownWasCommitted, Committed, Contents
<1>2. QED
  BY <1>1, ShownInvariant, PTL

-----------------------------------------------------------------------------
\* F43, F44: a catch-up never returns a message whose deletion was committed
\* when it began.
THEOREM DeletedNotServedHolds == ConversationSpec => []DeletedNotServed
<1> USE ConversationAssumption
<1>1. ConversationInit => Hidden /\ DeletedNotServed
  BY DEF ConversationInit, Hidden, DeletedNotServed, NoWalk
<1>2. Typed /\ Hidden /\ DeletedNotServed /\ [ConversationNext]_conversationVars
        => Hidden' /\ DeletedNotServed'
  <2> SUFFICES ASSUME Typed, Hidden, DeletedNotServed, [ConversationNext]_conversationVars
               PROVE  Hidden' /\ DeletedNotServed'
    OBVIOUS
  <2>0. /\ ConversationTypeOK /\ deleted \in SUBSET Messages
        /\ \A w \in Walks : walk[w].hidden \in SUBSET Messages
    BY WalkTypes DEF Typed, ConversationTypeOK
  <2>1. \A w \in Walks : walk[w].hidden \subseteq deleted'
    BY RowsGrow DEF Hidden
  <2>2. CASE Open
    <3>1. deleted' = deleted
      BY <2>2 DEF Open, rows
    <3>2. QED
      BY <2>0, <2>1, <2>2, <3>1, OpenWalk DEF Hidden, DeletedNotServed
  <2>3. ASSUME NEW w \in Walks, Fetch(w) PROVE Hidden' /\ DeletedNotServed'
    <3>1. \A m \in walk[w].hidden : m \in Messages /\ m \notin Page(walk[w].cursor)
      BY <2>0 DEF Hidden, Page, After, History
    <3>2. \A v \in Walks : walk'[v].hidden = walk[v].hidden
      BY <2>0, <2>3, FetchWalk
    <3>3. \A v \in Walks : \A m \in walk[v].hidden : walk'[v].got[m] = walk[v].got[m]
      BY <2>0, <2>3, <3>1, FetchWalk
    <3>4. QED
      BY <2>1, <3>2, <3>3 DEF Hidden, DeletedNotServed
  <2>4. ASSUME NEW w \in Walks, Merge(w) PROVE Hidden' /\ DeletedNotServed'
    BY <2>0, <2>1, <2>4, MergeWalk DEF Hidden, DeletedNotServed
  <2>5. CASE UNCHANGED walk
    BY <2>1, <2>5 DEF Hidden, DeletedNotServed
  <2>6. QED
    BY <2>2, <2>3, <2>4, <2>5
       DEF ConversationNext, conversationVars, Store, AnnounceCreated, Read, Write, Announce,
           Join, Drop, Deliver, Lose
<1>3. QED
  BY <1>1, <1>2, TypedInvariant, PTL DEF ConversationSpec

-----------------------------------------------------------------------------
\* A message the client shows, as a text or as a tombstone, stays.
LEMMA ShownStays ==
  ASSUME Typed, EventsCommitted, [ConversationNext]_conversationVars
  PROVE  \A m \in Messages : shown[m] # None => shown'[m] # None
<1>1. shown \in [Messages -> Views] /\ None # "gone"
  BY ConversationAssumption DEF Typed, ConversationTypeOK
<1>2. CASE Deliver
  <2>1. /\ Len(feed) \in Nat \ {0} /\ Head(feed) = feed[1] /\ feed[1] \in Events
    BY <1>2, FirstLeaves DEF Deliver, Typed, ConversationTypeOK
  <2>2. /\ Head(feed).id \in Messages /\ Head(feed).type \in {"upsert", "deleted"}
        /\ Head(feed).type = "upsert" => Head(feed).content # None
    BY <2>1, EventTypes DEF EventsCommitted
  <2>3. QED
    BY <1>1, <1>2, <2>2 DEF Deliver
<1>3. ASSUME NEW w \in Walks, Merge(w) PROVE \A m \in Messages : shown[m] # None => shown'[m] # None
  BY <1>3 DEF Merge
<1>4. CASE UNCHANGED shown
  BY <1>4
<1>5. QED
  BY <1>2, <1>3, <1>4
     DEF ConversationNext, conversationVars, rows, requests, client, Store, AnnounceCreated,
         Read, Write, Announce, Open, Join, Drop, Lose, Fetch

\* A walk that does not move keeps what it has reached.
LEMMA ReachedStays ==
  ASSUME Typed, EventsCommitted, [ConversationNext]_conversationVars,
         NEW w \in Walks, NEW m \in Messages, walk'[w] = walk[w], Reached(w, m)
  PROVE  Reached(w, m)'
<1>1. walk[w].since \in 0 .. MaxMessage
  BY WalkTypes DEF Typed, ConversationTypeOK
<1>2. \A k \in 1 .. walk[w].since : k \in Messages
  BY <1>1, ConversationAssumption DEF Messages
<1>3. QED
  BY <1>2, ShownStays, RowsGrow DEF Reached

\* One page: a wanted message is on it, or left for the next one, or has a
\* known message in front of it.
LEMMA FetchReaches ==
  ASSUME Typed, Stored, [ConversationNext]_conversationVars, NEW w \in Walks, Fetch(w),
         NEW m \in walk'[w].want, content[m] # None, walk[w].since # 0,
         m > walk[w].since, Reached(w, m)
  PROVE  Reached(w, m)'
<1> USE ConversationAssumption
<1> DEFINE c == walk[w].cursor
<1>1. /\ ConversationTypeOK /\ m \in Messages /\ m \in walk[w].want
      /\ c \in 0 .. MaxMessage /\ walk[w].since \in 0 .. MaxMessage
      /\ at \in [Messages -> Messages]
  BY FetchWalk, WalkTypes DEF Typed, ConversationTypeOK
<1>2. /\ walk'[w].since = walk[w].since /\ walk[w].pc = "fetch"
      /\ walk'[w].pc = IF More(w) THEN "fetch" ELSE "merge"
      /\ walk'[w].cursor = IF More(w) THEN NextCursor(c) ELSE 0
      /\ walk'[w].want = IF Over(w) \/ More(w) THEN walk[w].want ELSE {}
      /\ walk'[w].got[m] = IF m \in Page(c) /\ m > walk[w].since
                             THEN content[m] ELSE walk[w].got[m]
  BY <1>1, FetchWalk
<1>3. UNCHANGED <<at, content, deleted, shown>>
  BY DEF Fetch, rows, client
<1>4. CASE m \in deleted
  BY <1>3, <1>4 DEF Reached
<1>5. CASE \E k \in 1 .. walk[w].since : content[k] # None /\ at[k] > at[m]
  BY <1>2, <1>3, <1>5 DEF Reached
<1>6. CASE walk[w].got[m] # None
  BY <1>2, <1>6 DEF Reached
<1>7. CASE m \notin deleted /\ (c = 0 \/ at[m] < c)
  <2>1. m \in After(c)
    BY <1>1, <1>7 DEF After, History
  <2>2. CASE m \in Page(c)
    BY <1>2, <2>2 DEF Reached
  <2>3. CASE m \notin Page(c)
    <3>1. NextCursor(c) # 0 /\ at[m] < NextCursor(c)
      BY <1>1, <2>1, <2>3, NextCursorSeparates
    <3>2. CASE More(w)
      BY <1>2, <1>3, <3>1, <3>2 DEF Reached
    <3>3. CASE ~More(w)
      <4>1. PICK k \in Page(c) : k <= walk[w].since
        BY <1>2, <3>1, <3>3 DEF Over
      <4>2. k \in Messages /\ content[k] # None
        BY DEF Page, After, History
      <4>3. at[m] < at[k]
        BY <1>1, <2>1, <2>3, <4>1, PageIsNewest
      <4>4. k \in 1 .. walk[w].since /\ at[k] > at[m]
        BY <1>1, <4>1, <4>2, <4>3 DEF Messages
      <4>5. QED
        BY <1>2, <1>3, <4>2, <4>4 DEF Reached
    <3>4. QED
      BY <3>2, <3>3
  <2>4. QED
    BY <2>2, <2>3
<1>8. QED
  BY <1>2, <1>4, <1>5, <1>6, <1>7 DEF Reached

LEMMA CoversInvariant == ConversationSpec => []Covers
<1> USE ConversationAssumption
<1>1. ConversationInit => Covers
  BY DEF ConversationInit, Covers, NoWalk
<1>2. Typed /\ Stored /\ EventsCommitted /\ Covers /\ [ConversationNext]_conversationVars
        => Covers'
  <2> SUFFICES ASSUME Typed, Stored, EventsCommitted, Covers,
                      [ConversationNext]_conversationVars,
                      NEW w \in Walks, NEW m \in walk'[w].want
               PROVE  (/\ content[m] # None /\ walk[w].since # 0 /\ m > walk[w].since
                       /\ Reached(w, m))'
    BY DEF Covers
  <2>0. /\ ConversationTypeOK
        /\ walk[w].want \subseteq Messages
    BY WalkTypes DEF Typed, ConversationTypeOK
  <2>1. ASSUME walk'[w] = walk[w]
        PROVE  (content[m] # None /\ walk[w].since # 0 /\ m > walk[w].since /\ Reached(w, m))'
    <3>1. m \in Messages /\ content[m] # None /\ Reached(w, m)
      BY <2>0, <2>1 DEF Covers
    <3>2. walk[w].since # 0 /\ m > walk[w].since
      BY <2>1 DEF Covers
    <3>3. content'[m] # None
      BY <3>1, RowsGrow
    <3>4. Reached(w, m)'
      BY <2>1, <3>1, ReachedStays
    <3>5. QED
      BY <2>1, <3>2, <3>3, <3>4
  <2>2. CASE Open
    <3>1. CASE w # conns + 1
      BY <2>0, <2>1, <2>2, <3>1, OpenWalk
    <3>2. CASE w = conns + 1
      <4>1. /\ m \in Messages /\ last # 0 /\ m > last /\ content[m] # None
            /\ walk'[w].pc = "fetch" /\ walk'[w].since = last /\ walk'[w].cursor = 0
        BY <2>0, <2>2, <3>2, OpenWalk
      <4>2. UNCHANGED content
        BY <2>2 DEF Open, rows
      <4>3. QED
        BY <4>1, <4>2 DEF Reached
    <3>3. QED
      BY <3>1, <3>2
  <2>3. ASSUME NEW v \in Walks, Fetch(v)
        PROVE  (content[m] # None /\ walk[w].since # 0 /\ m > walk[w].since /\ Reached(w, m))'
    <3>1. CASE w # v
      BY <2>0, <2>1, <2>3, <3>1, FetchWalk
    <3>2. CASE w = v
      <4>1. m \in walk[w].want /\ walk'[w].since = walk[w].since
        BY <2>0, <2>3, <3>2, FetchWalk
      <4>2. content[m] # None /\ walk[w].since # 0 /\ m > walk[w].since /\ Reached(w, m)
        BY <4>1 DEF Covers
      <4>3. Reached(w, m)'
        BY <2>3, <3>2, <4>2, FetchReaches
      <4>4. UNCHANGED content
        BY <2>3 DEF Fetch, rows
      <4>5. QED
        BY <4>1, <4>2, <4>3, <4>4
    <3>3. QED
      BY <3>1, <3>2
  <2>4. ASSUME NEW v \in Walks, Merge(v)
        PROVE  (content[m] # None /\ walk[w].since # 0 /\ m > walk[w].since /\ Reached(w, m))'
    <3>1. CASE w # v
      BY <2>0, <2>1, <2>4, <3>1, MergeWalk
    <3>2. CASE w = v
      <4>1. /\ m \in walk[w].want /\ m \in Messages /\ walk'[w].since = walk[w].since
            /\ walk[w].pc = "merge" /\ walk'[w].pc = "over"
        BY <2>0, <2>4, <3>2, MergeWalk
      <4>2. content[m] # None /\ walk[w].since # 0 /\ m > walk[w].since /\ Reached(w, m)
        BY <4>1 DEF Covers
      <4>3. /\ UNCHANGED <<at, content, deleted>>
            /\ shown'[m] = IF walk[w].got[m] # None THEN walk[w].got[m] ELSE shown[m]
        BY <2>4, <3>2, <4>1 DEF Merge, rows
      <4>4. Reached(w, m)'
        BY <4>1, <4>2, <4>3 DEF Reached
      <4>5. QED
        BY <4>1, <4>2, <4>3, <4>4
    <3>3. QED
      BY <3>1, <3>2
  <2>5. CASE UNCHANGED walk
    BY <2>1, <2>5
  <2>6. QED
    BY <2>2, <2>3, <2>4, <2>5
       DEF ConversationNext, conversationVars, Store, AnnounceCreated, Read, Write, Announce,
           Join, Drop, Deliver, Lose
<1>3. QED
  BY <1>1, <1>2, TypedInvariant, StoredInvariant, EventsInvariant, PTL DEF ConversationSpec

\* F55: a catch-up that was not cut off leaves the client with every message it
\* had missed, however many pages it walked and whatever was sent, edited and
\* deleted between them.
THEOREM CatchUpCompleteHolds == ConversationSpec => []CatchUpComplete
<1>1. Covers => CatchUpComplete
  BY DEF Covers, CatchUpComplete, Reached
<1>2. QED
  BY <1>1, CoversInvariant, PTL

-----------------------------------------------------------------------------
\* Requests on a message that is not raced come one by one.
LEMMA OneByOneInvariant == ConversationSpec => []OneByOne
<1> USE ConversationAssumption
<1>1. ConversationInit => OneByOne
  BY DEF ConversationInit, OneByOne, Active
<1>2. Typed /\ Stored /\ OneByOne /\ [ConversationNext]_conversationVars => OneByOne'
  <2> SUFFICES ASSUME Typed, Stored, OneByOne, [ConversationNext]_conversationVars
               PROVE  OneByOne'
    OBVIOUS
  <2> USE DEF rows, requests, client
  <2>0. /\ content \in [Messages -> Contents \cup {None}]
        /\ stage \in [Messages -> {"minted", "stored", "over"}]
        /\ rpc \in [Editors -> {"idle", "read", "stored", "over"}]
        /\ rop \in [Editors -> {"edit", "delete"}]
        /\ rmsg \in [Editors -> Messages \cup {None}]
        /\ \A e \in Editors : rpc[e] # "idle" => rmsg[e] \in Messages /\ content[rmsg[e]] # None
        /\ \A m \in Messages : stage[m] = "minted" => content[m] = None /\ m \notin deleted
    BY DEF Typed, ConversationTypeOK, Stored
  <2>1. ASSUME NEW m \in Messages, Store(m) PROVE OneByOne'
    BY <2>0, <2>1 DEF Store, OneByOne, Active
  <2>2. ASSUME NEW m \in Messages, AnnounceCreated(m) PROVE OneByOne'
    BY <2>0, <2>2 DEF AnnounceCreated, OneByOne, Active
  <2>3. ASSUME NEW e \in Editors, NEW o \in {"edit", "delete"}, NEW m \in 1 .. MaxEdited,
               Read(e, o, m) PROVE OneByOne'
    BY <2>0, <2>3 DEF Read, History, Busy, OneByOne, Active
  <2>4. ASSUME NEW e \in Editors, Write(e) PROVE OneByOne'
    <3>1. CASE rop[e] = "edit"
      BY <2>0, <2>4, <3>1 DEF Write, OneByOne, Active
    <3>2. CASE rop[e] # "edit"
      BY <2>0, <2>4, <3>2 DEF Write, OneByOne, Active
    <3>3. QED
      BY <3>1, <3>2
  <2>5. ASSUME NEW e \in Editors, Announce(e) PROVE OneByOne'
    BY <2>0, <2>5 DEF Announce, OneByOne, Active
  <2>6. CASE UNCHANGED <<rows, requests>> /\ raced \subseteq raced'
    BY <2>6 DEF OneByOne, Active
  <2>7. QED
    BY <2>1, <2>2, <2>3, <2>4, <2>5, <2>6
       DEF ConversationNext, conversationVars, Open, Join, Drop, Deliver, Lose, Fetch, Merge
<1>3. QED
  BY <1>1, <1>2, TypedInvariant, StoredInvariant, PTL DEF ConversationSpec

\* The pages of a running catch-up show the rows as they are, unless a request
\* wrote one meanwhile.
LEMMA PagesCurrentInvariant == ConversationSpec => []PagesCurrent
<1> USE ConversationAssumption
<1>1. ConversationInit => PagesCurrent
  BY DEF ConversationInit, PagesCurrent, NoWalk
<1>2. Typed /\ PagesCurrent /\ [ConversationNext]_conversationVars => PagesCurrent'
  <2> SUFFICES ASSUME Typed, PagesCurrent, [ConversationNext]_conversationVars
               PROVE  PagesCurrent'
    OBVIOUS
  <2> USE DEF rows, requests, client
  <2>0. /\ ConversationTypeOK
        /\ content \in [Messages -> Contents \cup {None}]
        /\ \A e \in Editors : rpc[e] # "idle" => rmsg[e] \in Messages
    BY DEF Typed, ConversationTypeOK
  <2>1. ASSUME NEW m \in Messages, Store(m) PROVE PagesCurrent'
    BY <2>0, <2>1 DEF Store, PagesCurrent, Walking, View
  <2>2. ASSUME NEW e \in Editors, Write(e) PROVE PagesCurrent'
    BY <2>0, <2>2 DEF Write, PagesCurrent, Walking, View
  <2>3. CASE Open
    <3>1. \A v \in Walks, m \in Messages :
            walk'[v].got[m] # None => walk'[v] = walk[v]
      BY <2>0, <2>3, OpenWalk
    <3>2. UNCHANGED <<content, deleted, raced>>
      BY <2>3 DEF Open
    <3>3. QED
      BY <3>1, <3>2 DEF PagesCurrent, View
  <2>4. ASSUME NEW w \in Walks, Fetch(w) PROVE PagesCurrent'
    <3>1. /\ walk[w].pc = "fetch" /\ \A v \in Walks \ {w} : walk'[v] = walk[v]
          /\ \A m \in Messages : \/ walk'[w].got[m] = walk[w].got[m]
                                 \/ /\ m \in Page(walk[w].cursor)
                                    /\ walk'[w].got[m] = content[m]
      BY <2>0, <2>4, FetchWalk
    <3>2. UNCHANGED <<content, deleted, raced>>
      BY <2>4 DEF Fetch
    <3>3. \A m \in Page(walk[w].cursor) : View(m) = content[m]
      BY DEF Page, After, History, View
    <3>4. QED
      BY <3>1, <3>2, <3>3 DEF PagesCurrent, View
  <2>5. ASSUME NEW w \in Walks, Merge(w) PROVE PagesCurrent'
    <3>1. \A v \in Walks, m \in Messages :
            walk'[v].got[m] # None => walk'[v] = walk[v]
      BY <2>0, <2>5, MergeWalk
    <3>2. UNCHANGED <<content, deleted, raced>>
      BY <2>5 DEF Merge
    <3>3. QED
      BY <3>1, <3>2 DEF PagesCurrent, View
  <2>6. CASE UNCHANGED <<walk, content, deleted>> /\ raced \subseteq raced'
    BY <2>6 DEF PagesCurrent, View
  <2>7. QED
    BY <2>1, <2>2, <2>3, <2>4, <2>5, <2>6
       DEF ConversationNext, conversationVars, AnnounceCreated, Read, Announce,
           Join, Drop, Deliver, Lose
<1>3. QED
  BY <1>1, <1>2, TypedInvariant, PTL DEF ConversationSpec

-----------------------------------------------------------------------------
\* The latest event about m stays the latest when another one is published ...
LEMMA LatestAppend ==
  ASSUME Typed, NEW ev \in Events, Publish(ev), UNCHANGED <<content, deleted, shown>>,
         NEW m \in Messages,
         ev.id = m => EventView(ev) = View(m),
         ev.id # m => Latest(m)
  PROVE  Latest(m)'
<1>1. /\ Len(feed') = Len(feed) + 1 /\ Len(feed) \in Nat
      /\ \A i \in 1 .. Len(feed) : feed'[i] = feed[i]
      /\ feed'[Len(feed) + 1] = ev
  BY PublishAppends DEF Typed, ConversationTypeOK
<1>2. View(m)' = View(m)
  BY DEF View
<1>3. CASE ev.id = m
  <2>1. ASSUME NEW i \in 1 .. Len(feed'), \A j \in i + 1 .. Len(feed') : feed'[j].id # m
        PROVE  feed'[i] = ev
    <3>1. i = Len(feed) + 1
      BY <1>1, <1>3, <2>1
    <3>2. QED
      BY <1>1, <3>1
  <2>2. ~\A i \in 1 .. Len(feed') : feed'[i].id # m
    BY <1>1, <1>3
  <2>3. QED
    BY <1>2, <1>3, <2>1, <2>2 DEF Latest, EventView
<1>4. CASE ev.id # m
  <2>1. ASSUME NEW i \in 1 .. Len(feed'), feed'[i].id = m,
               \A j \in i + 1 .. Len(feed') : feed'[j].id # m
        PROVE  EventView(feed'[i]) = View(m)
    <3>1. i \in 1 .. Len(feed) /\ feed'[i] = feed[i]
      BY <1>1, <1>4, <2>1
    <3>2. \A j \in i + 1 .. Len(feed) : feed[j].id # m
      BY <1>1, <2>1
    <3>3. QED
      BY <1>4, <2>1, <3>1, <3>2 DEF Latest
  <2>2. (\A i \in 1 .. Len(feed') : feed'[i].id # m) => \A i \in 1 .. Len(feed) : feed[i].id # m
    BY <1>1
  <2>3. QED
    BY <1>2, <1>4, <2>1, <2>2 DEF Latest, EventView
<1>5. QED
  BY <1>3, <1>4

\* ... and when the first one is delivered, or is about another message.
LEMMA LatestTail ==
  ASSUME Typed, feed # <<>>, feed' = Tail(feed), UNCHANGED <<content, deleted>>,
         NEW m \in Messages, Latest(m),
         shown'[m] = IF Head(feed).id = m THEN EventView(Head(feed)) ELSE shown[m]
  PROVE  Latest(m)'
<1>1. /\ Len(feed) \in Nat \ {0} /\ Head(feed) = feed[1]
      /\ Len(feed') = Len(feed) - 1
      /\ \A i \in 1 .. Len(feed') : feed'[i] = feed[i + 1]
  BY FirstLeaves DEF Typed, ConversationTypeOK
<1>2. View(m)' = View(m)
  BY DEF View
<1>3. ASSUME NEW i \in 1 .. Len(feed'), feed'[i].id = m,
             \A j \in i + 1 .. Len(feed') : feed'[j].id # m
      PROVE  EventView(feed'[i]) = View(m)
  <2>1. i + 1 \in 1 .. Len(feed) /\ feed[i + 1] = feed'[i]
    BY <1>1
  <2>2. ASSUME NEW j \in (i + 1) + 1 .. Len(feed) PROVE feed[j].id # m
    <3>1. j - 1 \in i + 1 .. Len(feed') /\ feed'[j - 1] = feed[j]
      BY <1>1, <2>2
    <3>2. QED
      BY <1>3, <3>1
  <2>3. QED
    BY <1>3, <2>1, <2>2 DEF Latest
<1>4. ASSUME \A i \in 1 .. Len(feed') : feed'[i].id # m PROVE shown'[m] = View(m)
  <2>1. ASSUME NEW j \in 2 .. Len(feed) PROVE feed[j].id # m
    <3>1. j - 1 \in 1 .. Len(feed') /\ feed'[j - 1] = feed[j]
      BY <1>1, <2>1
    <3>2. QED
      BY <1>4, <3>1
  <2>2. CASE feed[1].id = m
    <3>1. 1 \in 1 .. Len(feed) /\ \A j \in 1 + 1 .. Len(feed) : feed[j].id # m
      BY <1>1, <2>1
    <3>2. QED
      BY <1>1, <2>2, <3>1 DEF Latest
  <2>3. CASE feed[1].id # m
    <3>1. \A j \in 1 .. Len(feed) : feed[j].id # m
      BY <1>1, <2>1, <2>3
    <3>2. QED
      BY <1>1, <2>3, <3>1 DEF Latest
  <2>4. QED
    BY <2>2, <2>3
<1>5. QED
  BY <1>2, <1>3, <1>4 DEF Latest, EventView

\* For a message that is not raced, the last event under way carries the row;
\* if none is, the client shows it.
LEMMA LatestInvariant == ConversationSpec => []LatestCurrent
<1> USE ConversationAssumption
<1>1. ConversationInit => LatestCurrent
  <2> SUFFICES ASSUME ConversationInit PROVE LatestCurrent
    OBVIOUS
  <2>1. Len(feed) = 0
    BY EmptySeq DEF ConversationInit
  <2>2. QED
    BY <2>1 DEF ConversationInit, LatestCurrent, Latest, View
<1>2. Typed /\ Stored /\ OneByOne /\ PagesCurrent /\ LatestCurrent
        /\ [ConversationNext]_conversationVars => LatestCurrent'
  <2> SUFFICES ASSUME Typed, Stored, OneByOne, PagesCurrent, LatestCurrent,
                      [ConversationNext]_conversationVars,
                      NEW m \in Messages, m \notin raced', ~Unannounced(m)'
               PROVE  Latest(m)'
    BY DEF LatestCurrent
  <2> USE DEF rows, requests, client
  <2>0. /\ content \in [Messages -> Contents \cup {None}]
        /\ stage \in [Messages -> {"minted", "stored", "over"}]
        /\ rpc \in [Editors -> {"idle", "read", "stored", "over"}]
        /\ rop \in [Editors -> {"edit", "delete"}]
        /\ rmsg \in [Editors -> Messages \cup {None}]
        /\ \A e \in Editors : rpc[e] # "idle" => rmsg[e] \in Messages
    BY DEF Typed, ConversationTypeOK
  <2>1. ASSUME UNCHANGED <<content, deleted, feed, shown>>, ~Unannounced(m), m \notin raced
        PROVE  Latest(m)'
    <3>1. Latest(m)
      BY <2>1 DEF LatestCurrent
    <3>2. View(m)' = View(m)
      BY <2>1 DEF View
    <3>3. QED
      BY <2>1, <3>1, <3>2 DEF Latest, EventView
  <2>2. ASSUME NEW k \in Messages, Store(k) PROVE Latest(m)'
    <3>1. k # m /\ ~Unannounced(m) /\ m \notin raced
      BY <2>0, <2>2 DEF Store, Unannounced
    <3>2. Latest(m)
      BY <3>1 DEF LatestCurrent
    <3>3. View(m)' = View(m) /\ UNCHANGED <<feed, shown>>
      BY <2>0, <2>2, <3>1 DEF Store, View
    <3>4. QED
      BY <3>2, <3>3 DEF Latest, EventView
  <2>3. ASSUME NEW k \in Messages, AnnounceCreated(k) PROVE Latest(m)'
    <3>1. /\ Upsert(k, "first") \in Events /\ Upsert(k, "first").id = k
          /\ EventView(Upsert(k, "first")) = "first"
      BY DEF Upsert, Events, Contents, EventView
    <3>2. m \notin raced /\ (k # m => ~Unannounced(m))
      BY <2>0, <2>3 DEF AnnounceCreated, Unannounced
    <3>3. k = m => View(m) = "first"
      BY <2>3, <3>2 DEF AnnounceCreated, OneByOne, View
    <3>4. k # m => Latest(m)
      BY <3>2 DEF LatestCurrent
    <3>5. Publish(Upsert(k, "first")) /\ UNCHANGED <<content, deleted, shown>>
      BY <2>3 DEF AnnounceCreated
    <3>6. QED
      BY <3>1, <3>3, <3>4, <3>5, LatestAppend
  <2>4. ASSUME NEW e \in Editors, NEW o \in {"edit", "delete"}, NEW k \in 1 .. MaxEdited,
               Read(e, o, k) PROVE Latest(m)'
    <3>1. m \notin raced /\ ~Unannounced(m)
      BY <2>0, <2>4 DEF Read, Unannounced
    <3>2. QED
      BY <2>1, <2>4, <3>1 DEF Read
  <2>5. ASSUME NEW e \in Editors, Write(e) PROVE Latest(m)'
    <3>1. rmsg[e] # m
      BY <2>0, <2>5 DEF Write, Unannounced
    <3>2. ~Unannounced(m) /\ m \notin raced
      BY <2>0, <2>5, <3>1 DEF Write, Unannounced
    <3>3. Latest(m)
      BY <3>2 DEF LatestCurrent
    <3>4. View(m)' = View(m) /\ UNCHANGED <<feed, shown>>
      BY <2>0, <2>5, <3>1 DEF Write, View
    <3>5. QED
      BY <3>3, <3>4 DEF Latest, EventView
  <2>6. ASSUME NEW e \in Editors, Announce(e) PROVE Latest(m)'
    <3>1. rmsg[e] \in Messages /\ rpc[e] = "stored"
      BY <2>0, <2>6 DEF Announce
    <3>2. Announcement(e) \in Events
      BY <3>1, AnnouncementTypes DEF Typed
    <3>3. /\ Announcement(e).id = rmsg[e]
          /\ EventView(Announcement(e)) = IF rop[e] = "edit" THEN e ELSE "gone"
      BY DEF Announcement, Upsert, Deleted, EventView
    <3>4. m \notin raced /\ (rmsg[e] # m => ~Unannounced(m))
      BY <2>0, <2>6 DEF Announce, Unannounced
    <3>5. rmsg[e] = m => View(m) = IF rop[e] = "edit" THEN e ELSE "gone"
      <4>1. rop[e] = "edit" /\ rmsg[e] = m => content[m] = e /\ m \notin deleted
        BY <3>1, <3>4 DEF OneByOne, Active
      <4>2. rop[e] # "edit" /\ rmsg[e] = m => m \in deleted
        BY <2>0, <3>1 DEF Stored
      <4>3. QED
        BY <4>1, <4>2 DEF View
    <3>6. rmsg[e] # m => Latest(m)
      BY <3>4 DEF LatestCurrent
    <3>7. Publish(Announcement(e)) /\ UNCHANGED <<content, deleted, shown>>
      BY <2>6 DEF Announce
    <3>8. QED
      BY <3>2, <3>3, <3>5, <3>6, <3>7, LatestAppend
  <2>7. CASE Deliver
    <3>1. m \notin raced /\ ~Unannounced(m)
      BY <2>7 DEF Deliver, Unannounced
    <3>2. feed # <<>> /\ feed' = Tail(feed) /\ UNCHANGED <<content, deleted>>
      BY <2>7 DEF Deliver
    <3>3. Head(feed).id \in Messages /\ shown \in [Messages -> Views]
      BY <3>2, FirstLeaves, EventTypes DEF Typed, ConversationTypeOK
    <3>4. shown'[m] = IF Head(feed).id = m THEN EventView(Head(feed)) ELSE shown[m]
      BY <2>7, <3>3 DEF Deliver, EventView
    <3>5. QED
      BY <3>1, <3>2, <3>4, LatestTail DEF LatestCurrent
  <2>8. CASE Lose
    <3>1. m \notin raced /\ Head(feed).id # m /\ ~Unannounced(m)
      BY <2>8 DEF Lose, Unannounced
    <3>2. feed # <<>> /\ feed' = Tail(feed) /\ UNCHANGED <<content, deleted, shown>>
      BY <2>8 DEF Lose
    <3>3. QED
      BY <3>1, <3>2, LatestTail DEF LatestCurrent
  <2>9. ASSUME NEW w \in Walks, Merge(w) PROVE Latest(m)'
    <3>1. m \notin raced /\ ~Unannounced(m) /\ UNCHANGED <<content, deleted, feed>>
      BY <2>9 DEF Merge, Unannounced
    <3>2. Latest(m) /\ View(m)' = View(m)
      BY <3>1 DEF LatestCurrent, View
    <3>3. walk[w].got[m] # None => walk[w].got[m] = View(m)
      BY <2>9, <3>1 DEF Merge, PagesCurrent
    <3>4. shown'[m] = shown[m] \/ shown'[m] = View(m)
      BY <2>9, <3>3 DEF Merge
    <3>5. QED
      BY <3>1, <3>2, <3>4 DEF Latest, EventView
  <2>10. CASE UNCHANGED <<rows, requests, feed, shown, raced>>
    <3>1. m \notin raced /\ ~Unannounced(m)
      BY <2>10 DEF Unannounced
    <3>2. QED
      BY <2>1, <2>10, <3>1
  <2>11. QED
    BY <2>2, <2>3, <2>4, <2>5, <2>6, <2>7, <2>8, <2>9, <2>10
       DEF ConversationNext, conversationVars, Open, Join, Drop, Fetch
<1>3. QED
  BY <1>1, <1>2, TypedInvariant, StoredInvariant, OneByOneInvariant, PagesCurrentInvariant, PTL
     DEF ConversationSpec

\* F42, F43, F53: when nothing is under way, the client shows what is stored,
\* for any number of messages, requests and connections.
THEOREM QuietViewIsCurrentHolds == ConversationSpec => []QuietViewIsCurrent
<1>1. ASSUME Typed, LatestCurrent PROVE QuietViewIsCurrent
  <2> SUFFICES ASSUME Quiet, NEW m \in Messages \ raced PROVE shown[m] = View(m)
    BY DEF QuietViewIsCurrent
  <2>1. ~Unannounced(m)
    BY DEF Quiet, Busy, Unannounced
  <2>2. Len(feed) = 0
    BY EmptySeq DEF Quiet
  <2>3. QED
    BY <1>1, <2>1, <2>2 DEF LatestCurrent, Latest
<1>2. QED
  BY <1>1, TypedInvariant, LatestInvariant, PTL
=============================================================================
