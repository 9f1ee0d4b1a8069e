------------------------------ MODULE Presence ------------------------------
(***************************************************************************)
(* Presence of one user (services/presence.py, driven by ws/router.py): a  *)
(* Redis counter of the user's WebSocket connections over all tabs and app *)
(* instances, with a TTL that heartbeats renew; presence events on the     *)
(* transitions; users.last_seen, written by the disconnect that takes the  *)
(* counter to zero.                                                        *)
(*                                                                         *)
(* One action per Redis script, clock reading, database write or publish   *)
(* of a connection.                                                        *)
(* A key that is missing reads as zero.                                    *)
(*                                                                         *)
(* Abstractions: presence_ttl_seconds exceeds ws_heartbeat_timeout_seconds *)
(* (config.py), so the TTL runs out only when no connection is left to     *)
(* renew it; a key lost while heartbeats fail is KeyLost.  Times, the ones *)
(* that disconnects have sampled and not yet written and the stored one,   *)
(* are reduced to whether they are later than the user's latest close.     *)
(***************************************************************************)
EXTENDS Integers, FiniteSets

CONSTANTS
  Conns,       \* connection slots (tabs), each reused after it closes
  Instances,   \* app instances
  InstanceOf,  \* the instance each slot connects to
  MaxFaults

ASSUME PresenceAssumption ==
  /\ IsFiniteSet(Conns)
  /\ InstanceOf \in [Conns -> Instances]
  /\ MaxFaults \in Nat

VARIABLES
  count,     \* presence_connection_count_key; 0 when the key is missing
  ttl,       \* whether the key carries a TTL
  pc,        \* where each connection is
  announced, \* the latest presence event on the topic
  fresh,     \* disconnects whose sampled time is later than the latest close
  lastSeen,  \* users.last_seen: "new", later than the latest close; "old", no
             \* such time was written yet; "late", one was, but an earlier
             \* sample was written over it
  leaked,    \* history: counter units whose connection is gone
  rough,     \* history: a fault other than the loss of the key
  faults

presenceVars == <<count, ttl, pc, announced, fresh, lastSeen, leaked, rough, faults>>

Steps ==
  {"closed", "connecting", "announce", "open", "closing", "lastSeen", "stamp", "farewell"}
\* Connections whose increment is done and whose decrement is not.
Counted == {c \in Conns : pc[c] \in {"announce", "open", "closing"}}
Present == {c \in Conns : pc[c] # "closed"}

PresenceInit ==
  /\ count = 0
  /\ ttl = FALSE
  /\ pc = [c \in Conns |-> "closed"]
  /\ announced = "none"
  /\ fresh = {}
  /\ lastSeen = "new"
  /\ leaked = 0
  /\ rough = FALSE
  /\ faults = 0

Goto(c, step) == pc' = [pc EXCEPT ![c] = step]
Fault == faults < MaxFaults /\ faults' = faults + 1
RoughFault == Fault /\ rough' = TRUE

(***************************************************************************)
(* websocket_endpoint                                                      *)
(***************************************************************************)
\* The socket is authenticated, accepted and registered.
Accept(c) ==
  /\ pc[c] = "closed"
  /\ Goto(c, "connecting")
  /\ UNCHANGED <<count, ttl, announced, fresh, lastSeen, leaked, rough, faults>>

\* handle_connect: INCR and EXPIRE in one script; the first connection
\* announces the user.
Connect(c) ==
  /\ pc[c] = "connecting"
  /\ count' = count + 1
  /\ ttl' = TRUE
  /\ Goto(c, IF count' = 1 THEN "announce" ELSE "open")
  /\ UNCHANGED <<announced, fresh, lastSeen, leaked, rough, faults>>

PublishOnline(c) ==
  /\ pc[c] = "announce"
  /\ announced' = "online"
  /\ Goto(c, "open")
  /\ UNCHANGED <<count, ttl, fresh, lastSeen, leaked, rough, faults>>

\* Mutant: every heartbeat counts, not only the one that finds no key.
HeartbeatCounts(c) ==
  /\ pc[c] = "open"
  /\ count < 2 * Cardinality(Conns)
  /\ count' = count + 1
  /\ ttl' = TRUE
  /\ UNCHANGED <<pc, announced, fresh, lastSeen, leaked, rough, faults>>

\* handle_heartbeat: a missing key is counted again, a present one only has
\* its TTL renewed.
Heartbeat(c) ==
  /\ pc[c] = "open"
  /\ count' = IF count = 0 THEN 1 ELSE count
  /\ ttl' = TRUE
  /\ UNCHANGED <<pc, announced, fresh, lastSeen, leaked, rough, faults>>

\* The client closes, stops pinging, fails revalidation or floods; or the
\* server drains.  The finally block runs.
Close(c) ==
  /\ pc[c] = "open"
  /\ Goto(c, "closing")
  /\ fresh' = {}
  /\ lastSeen' = "old"
  /\ UNCHANGED <<count, ttl, announced, leaked, rough, faults>>

\* Mutant: DECR without the floor.
DisconnectNoFloor(c) ==
  /\ pc[c] = "closing"
  /\ count' = count - 1
  /\ leaked' = IF count' = 0 THEN 0 ELSE leaked
  /\ Goto(c, IF count' <= 0 THEN "lastSeen" ELSE "closed")
  /\ UNCHANGED <<ttl, announced, fresh, lastSeen, rough, faults>>

\* Mutant: the counter is written back without KEEPTTL.
DisconnectDropsTtl(c) ==
  /\ pc[c] = "closing"
  /\ count' = IF count <= 1 THEN 0 ELSE count - 1
  /\ ttl' = FALSE
  /\ leaked' = IF count' = 0 THEN 0 ELSE leaked
  /\ Goto(c, IF count' = 0 THEN "lastSeen" ELSE "closed")
  /\ UNCHANGED <<announced, fresh, lastSeen, rough, faults>>

\* Mutant: a missing key is taken for a disconnect already handled.
DisconnectSkipsMissing(c) ==
  /\ pc[c] = "closing"
  /\ count' = IF count <= 1 THEN 0 ELSE count - 1
  /\ ttl' = (ttl /\ count' # 0)
  /\ leaked' = IF count' = 0 THEN 0 ELSE leaked
  /\ Goto(c, IF count = 1 THEN "lastSeen" ELSE "closed")
  /\ UNCHANGED <<announced, fresh, lastSeen, rough, faults>>

\* handle_disconnect: decrement, floored at zero (DEL), keeping the TTL.
Disconnect(c) ==
  /\ pc[c] = "closing"
  /\ count' = IF count <= 1 THEN 0 ELSE count - 1
  /\ ttl' = (ttl /\ count' # 0)
  /\ leaked' = IF count' = 0 THEN 0 ELSE leaked
  /\ Goto(c, IF count' = 0 THEN "lastSeen" ELSE "closed")
  /\ UNCHANGED <<announced, fresh, lastSeen, rough, faults>>

\* ... only at zero: now() is sampled, ...
TakeTime(c) ==
  /\ pc[c] = "lastSeen"
  /\ fresh' = fresh \cup {c}
  /\ Goto(c, "stamp")
  /\ UNCHANGED <<count, ttl, announced, lastSeen, leaked, rough, faults>>

\* ... users.last_seen is set to the sample, whatever was written meanwhile,
\* and committed, ...
WriteLastSeen(c) ==
  /\ pc[c] = "stamp"
  /\ lastSeen' = IF c \in fresh THEN "new" ELSE IF lastSeen = "old" THEN "old" ELSE "late"
  /\ fresh' = fresh \ {c}
  /\ Goto(c, "farewell")
  /\ UNCHANGED <<count, ttl, announced, leaked, rough, faults>>

\* ... and the offline event is published.
PublishOffline(c) ==
  /\ pc[c] = "farewell"
  /\ announced' = "offline"
  /\ Goto(c, "closed")
  /\ UNCHANGED <<count, ttl, fresh, lastSeen, leaked, rough, faults>>

\* The TTL runs out once no connection is left to renew it.
TtlExpire ==
  /\ count > 0 /\ ttl
  /\ Counted = {}
  /\ count' = 0 /\ ttl' = FALSE /\ leaked' = 0
  /\ UNCHANGED <<pc, announced, fresh, lastSeen, rough, faults>>

(***************************************************************************)
(* Faults                                                                  *)
(***************************************************************************)
\* Redis restarts or evicts the key, or heartbeats fail for a whole TTL.
KeyLost ==
  /\ Fault
  /\ count > 0
  /\ count' = 0 /\ ttl' = FALSE /\ leaked' = 0
  /\ UNCHANGED <<pc, announced, fresh, lastSeen, rough>>

\* The connect script errors, before or after it took effect; or the client
\* library sends it again after a lost reply.
ConnectFails(c) ==
  /\ RoughFault
  /\ pc[c] = "connecting"
  /\ \E times \in 0 .. 2 :
       /\ count' = count + times
       /\ ttl' = (ttl \/ times > 0)
       /\ leaked' = leaked + (IF times = 2 THEN 1 ELSE 0)
  /\ Goto(c, "open")
  /\ UNCHANGED <<announced, fresh, lastSeen>>

\* handle_connect ends in another exception or is cancelled before the
\* increment; the finally block decrements all the same.
ConnectAborted(c) ==
  /\ RoughFault
  /\ pc[c] = "connecting"
  /\ Goto(c, "closing")
  /\ fresh' = {}
  /\ lastSeen' = "old"
  /\ UNCHANGED <<count, ttl, announced, leaked>>

\* The decrement errors: it fails open to "this was the last connection".
DisconnectFails(c) ==
  /\ RoughFault
  /\ pc[c] = "closing"
  /\ leaked' = IF count = 0 THEN 0 ELSE leaked + 1
  /\ Goto(c, "lastSeen")
  /\ UNCHANGED <<count, ttl, announced, fresh, lastSeen>>

\* A publish fails open, or the last_seen UPDATE raises.
StepLost(c) ==
  /\ RoughFault
  /\ \/ pc[c] = "announce" /\ Goto(c, "open")
     \/ pc[c] \in {"stamp", "farewell"} /\ Goto(c, "closed")
  /\ fresh' = fresh \ {c}
  /\ UNCHANGED <<count, ttl, announced, lastSeen, leaked>>

\* An instance dies: its connections end without their finally blocks.
Crash(i) ==
  /\ RoughFault
  /\ LET dead == {c \in Present : InstanceOf[c] = i}
     IN /\ dead # {}
        /\ pc' = [c \in Conns |-> IF c \in dead THEN "closed" ELSE pc[c]]
        /\ leaked' = IF count = 0 THEN 0 ELSE leaked + Cardinality(dead \cap Counted)
        /\ fresh' = fresh \ dead
  /\ UNCHANGED <<count, ttl, announced, lastSeen>>

-----------------------------------------------------------------------------
Step(c) ==
  \/ Connect(c) \/ PublishOnline(c) \/ Disconnect(c)
  \/ TakeTime(c) \/ WriteLastSeen(c) \/ PublishOffline(c)

FaultStep(c) ==
  \/ ConnectFails(c) \/ ConnectAborted(c) \/ DisconnectFails(c) \/ StepLost(c)

PresenceNext ==
  \/ \E c \in Conns : Accept(c) \/ Step(c) \/ Heartbeat(c) \/ Close(c) \/ FaultStep(c)
  \/ \E i \in Instances : Crash(i)
  \/ TtlExpire \/ KeyLost

PresenceSpec == PresenceInit /\ [][PresenceNext]_presenceVars

\* Handlers in progress keep running and Redis enforces the TTL; clients owe
\* nothing.
FairSpec == PresenceSpec /\ WF_presenceVars(TtlExpire) /\ \A c \in Conns : WF_presenceVars(Step(c))
-----------------------------------------------------------------------------
PresenceTypeOK ==
  /\ count \in Nat
  /\ ttl \in BOOLEAN
  /\ pc \in [Conns -> Steps]
  /\ announced \in {"none", "online", "offline"}
  /\ fresh \subseteq Conns
  /\ lastSeen \in {"old", "new", "late"}
  /\ leaked \in Nat
  /\ rough \in BOOLEAN
  /\ faults \in 0 .. MaxFaults

\* Module docstring, "only ever fails toward undercounting": the counter never
\* exceeds the connections counted in it by more than the units that crashes,
\* failed decrements and repeated increments left behind; losing the key
\* only lowers it, and takes those units with it.
NeverOvercounts == count <= Cardinality(Counted) + leaked

\* The crash backstop: a counter that is not zero always carries a TTL.
CounterExpires == count > 0 => ttl

\* F50: with no fault but the loss of the key, once the last connection is
\* closed the user is announced offline and a time later than that close has
\* been written to last_seen, whatever connects and disconnects overlapped.
\* The write of an earlier disconnect may have replaced it since ("late").
LastCloseRecorded ==
  ~rough /\ Present = {} => lastSeen # "old" /\ announced # "online" /\ count = 0

\* F49: a user without connections does not stay counted as online, whatever
\* failed before.
NoLastingFalseOnline == Present = {} ~> count = 0 \/ Present # {}
=============================================================================
