--------------------------- MODULE Objects_proofs ---------------------------
(***************************************************************************)
(* Proofs about managed transitions (ManagedTransition, which Objects      *)
(* extends), the callbacks libobs makes, signal hubs and signal managers   *)
(* (SignalHub) and displays (PreviewDisplay), about saves of the replay    *)
(* buffer (ReplaySave), filters (ObjectFilters) and settings               *)
(* (ObjectSettings), as the instances of Objects, and what follows for all *)
(* of the objects side by side.                                            *)
(***************************************************************************)
EXTENDS SceneGraph_proofs

-----------------------------------------------------------------------------
(* Managed transitions, for any threads and sources and any number of      *)
(* begins and forced stops                                                 *)

(* What the instances take for granted of the constants. *)
Instance ==
    /\ MaxBegins \in Nat /\ MaxForces \in Nat /\ IsFiniteSet(Threads)
    /\ None \notin Threads /\ None \notin Begins

Waiting == {"wait", "waitOk", "waitTimeout"}

Types ==
    /\ current \in Sources \cup {None} /\ inFlight \in Sources \cup {None}
    /\ completion \in Begins \cup {None}
    /\ operation \in Threads \cup {None}
    /\ pc \in [Threads -> Steps]
    /\ arg \in [Threads -> Sources \cup {None}]
    /\ receiver \in [Threads -> Begins \cup {None}]
    /\ begun \in 0..MaxBegins /\ forced \in 0..MaxForces
    /\ target \in [Begins -> Sources \cup {None}]
    /\ queue \in [Begins -> Nat]
    /\ active \in Begins \cup {None}
    /\ shown \in Sources \cup {None}
    /\ stopping \in Nat
    /\ \A t \in Threads : pc[t] \in Waiting => receiver[t] \in Begins

LockIsHeld == \A t \in Threads : pc[t] \notin Waiting \cup {"idle"} <=> operation = t

(* Where an operation has seen, or made, the transition inactive; nobody   *)
(* can start one while it has the mutex.                                   *)
Settled == {"setChecked", "setDone", "beginReconcile", "reconcileCommit",
            "beginReady", "beginStart", "beginRejected", "forceDone"}

Owned(b) == inFlight = target[b] \/ (inFlight = None /\ current = target[b])

Destinations ==
    /\ active # None => Owned(active)
    /\ \A t \in Threads :
          /\ pc[t] \in Settled => active = None
          /\ pc[t] \in {"setDone", "forceDone"} => shown = arg[t]
          /\ pc[t] = "beginStart" => begun \in Begins /\ Owned(begun)

(* Every begin and every forced stop accounts for one signal: it is still  *)
(* to come or it is out.                                                   *)
Running == IF active = None THEN 0 ELSE 1
Starting == IF \E t \in Threads : pc[t] = "beginStart" THEN 1 ELSE 0
Forcing == IF \E t \in Threads : pc[t] \in {"force", "forceCall"} THEN 1 ELSE 0

Signals ==
    /\ stopping + Running + Starting <= begun
    /\ \A b \in Begins : queue[b] + stopping + Running + Starting + Forcing <= begun + forced

(* Calls that follow one another and do not fail: what is in flight has a  *)
(* subscription that knows of its end, and libobs shows it once it ended.  *)
Told(c) == c # None /\ c <= begun /\ (active = None => queue[c] + stopping > 0)

Alone ==
    /\ \A t, u \in Threads : pc[t] # "idle" /\ pc[u] # "idle" => t = u
    /\ \A t \in Threads : pc[t] = "forceCall" /\ inFlight # None => arg[t] = inFlight
    /\ inFlight # None =>
          \/ \E t \in Threads : pc[t] = "beginRejected"
          \/ \E t \in Threads : pc[t] = "beginStart" /\ completion # None /\ completion <= begun
          \/ /\ \/ \E t \in Threads : pc[t] = "waitOk"
                \/ \E t \in Threads : pc[t] \in {"wait", "waitTimeout"} /\ Told(receiver[t])
                \/ (\A t \in Threads : pc[t] \notin Waiting) /\ Told(completion)
             /\ \/ active # None
                \/ shown = inFlight
                \/ \E t \in Threads : pc[t] = "setDone"

Inv ==
    /\ Types /\ undisturbed \in BOOLEAN
    /\ LockIsHeld /\ Destinations /\ Signals
    /\ undisturbed => Alone
Step(t) == StartOperation(t) \/ ContinueOperation(t) \/ CallFails(t)

-----------------------------------------------------------------------------
(* One step of one thread, one part of the invariant after the other. *)

LEMMA StepTypes ==
    ASSUME Instance, Types, Destinations,
           NEW t \in Threads, Step(t)
    PROVE  Types'
<1> USE DEF Types, Goto, Return, rust, native, Instance, Steps, Waiting, Begins
<1>1. ASSUME NEW src \in Sources, NEW to \in {"set", "begin"}, CallWith(t, src, to)
      PROVE  Types'
  BY <1>1 DEF CallWith, Call
<1>2. CASE ForceStop(t)
  BY <1>2 DEF ForceStop, Call
<1>3. CASE Reconcile(t)
  BY <1>3 DEF Reconcile, Call
<1>4. CASE SetCheck(t)
  BY <1>4 DEF SetCheck
<1>5. CASE SetNative(t)
  BY <1>5 DEF SetNative
<1>6. CASE SetCommit(t)
  BY <1>6 DEF SetCommit
<1>7. CASE ReconcileCheck(t)
  <2>1. /\ \E x \in {"beginReconcile", "reconcileCommit", "beginIdle", "idle"} : pc' = [pc EXCEPT ![t] = x]
        /\ operation' \in {operation, None}
        /\ UNCHANGED <<rust, arg, receiver, begun, forced, target, queue, native>>
    <3> HIDE DEF Types, Instance
    <3> QED
      BY <1>7 DEF ReconcileCheck
  <2> QED
    BY <2>1
<1>8. CASE ReconcileCommit(t)
  BY <1>8 DEF ReconcileCommit, CommitInFlight
<1>9. CASE BeginCheck(t)
  BY <1>9 DEF BeginCheck
<1>10. CASE BeginSubscribe(t)
  BY <1>10 DEF BeginSubscribe
<1>11. CASE BeginStart(t)
  BY <1>11 DEF BeginStart, Destinations
<1>12. CASE BeginRejected(t)
  BY <1>12 DEF BeginRejected
<1>13. CASE WaitTake(t)
  BY <1>13 DEF WaitTake
<1>14. CASE WaitReceive(t)
  <2>1. receiver[t] \in Begins /\ queue[receiver[t]] \in Nat
    BY <1>14 DEF WaitReceive
  <2>2. CASE queue[receiver[t]] > 0 /\ queue' = [queue EXCEPT ![receiver[t]] = @ - 1]
    <3>1. queue[receiver[t]] - 1 \in Nat
      BY <2>1, <2>2
    <3> QED
      BY <1>14, <2>1, <2>2, <3>1 DEF WaitReceive
  <2>3. CASE UNCHANGED queue
    BY <1>14, <2>3 DEF WaitReceive
  <2> QED
    BY <1>14, <2>2, <2>3 DEF WaitReceive
<1>15. CASE WaitOk(t)
  BY <1>15 DEF WaitOk, CommitInFlight
<1>16. CASE WaitTimeout(t)
  BY <1>16 DEF WaitTimeout
<1>17. CASE ForceRead(t)
  BY <1>17 DEF ForceRead
<1>18. CASE ForceCall(t)
  BY <1>18 DEF ForceCall, Published
<1>19. CASE ForceCommit(t)
  BY <1>19 DEF ForceCommit
<1>20. CASE CallFails(t)
  BY <1>20 DEF CallFails
<1> QED
  BY <1>1, <1>2, <1>3, <1>4, <1>5, <1>6, <1>7, <1>8, <1>9, <1>10, <1>11, <1>12, <1>13, <1>14,
     <1>15, <1>16, <1>17, <1>18, <1>19, <1>20
     DEF Step, StartOperation, ContinueOperation

(* The mutex has one owner. *)
LEMMA StepLock ==
    ASSUME Instance, Types, LockIsHeld,
           NEW t \in Threads, Step(t)
    PROVE  LockIsHeld'
<1> USE DEF Types, Goto, Return, rust, native, Instance, Waiting, LockIsHeld
<1>1. ASSUME NEW src \in Sources, NEW to \in {"set", "begin"}, CallWith(t, src, to)
      PROVE  LockIsHeld'
  BY <1>1 DEF CallWith, Call
<1>2. CASE ForceStop(t)
  BY <1>2 DEF ForceStop, Call
<1>3. CASE Reconcile(t)
  BY <1>3 DEF Reconcile, Call
<1>4. CASE SetCheck(t)
  BY <1>4 DEF SetCheck
<1>5. CASE SetNative(t)
  BY <1>5 DEF SetNative
<1>6. CASE SetCommit(t)
  BY <1>6 DEF SetCommit
<1>7. CASE ReconcileCheck(t)
  BY <1>7 DEF ReconcileCheck
<1>8. CASE ReconcileCommit(t)
  BY <1>8 DEF ReconcileCommit, CommitInFlight
<1>9. CASE BeginCheck(t)
  BY <1>9 DEF BeginCheck
<1>10. CASE BeginSubscribe(t)
  BY <1>10 DEF BeginSubscribe
<1>11. CASE BeginStart(t)
  BY <1>11 DEF BeginStart
<1>12. CASE BeginRejected(t)
  BY <1>12 DEF BeginRejected
<1>13. CASE WaitTake(t)
  BY <1>13 DEF WaitTake
<1>14. CASE WaitReceive(t)
  BY <1>14 DEF WaitReceive
<1>15. CASE WaitOk(t)
  BY <1>15 DEF WaitOk, CommitInFlight
<1>16. CASE WaitTimeout(t)
  BY <1>16 DEF WaitTimeout
<1>17. CASE ForceRead(t)
  BY <1>17 DEF ForceRead
<1>18. CASE ForceCall(t)
  BY <1>18 DEF ForceCall, Published
<1>19. CASE ForceCommit(t)
  BY <1>19 DEF ForceCommit
<1>20. CASE CallFails(t)
  BY <1>20 DEF CallFails
<1> QED
  BY <1>1, <1>2, <1>3, <1>4, <1>5, <1>6, <1>7, <1>8, <1>9, <1>10, <1>11, <1>12, <1>13, <1>14,
     <1>15, <1>16, <1>17, <1>18, <1>19, <1>20
     DEF Step, StartOperation, ContinueOperation

(* Who has seen the transition inactive is right; its destination is owned. *)
LEMMA StepDestinations ==
    ASSUME Instance, Types, LockIsHeld, Destinations,
           NEW t \in Threads, Step(t)
    PROVE  Destinations'
<1> USE DEF Types, Goto, Return, rust, native, Instance, Begins, Waiting, LockIsHeld, Settled, Owned, Destinations
<1>1. ASSUME NEW src \in Sources, NEW to \in {"set", "begin"}, CallWith(t, src, to)
      PROVE  Destinations'
  BY <1>1 DEF CallWith, Call
<1>2. CASE ForceStop(t)
  BY <1>2 DEF ForceStop, Call
<1>3. CASE Reconcile(t)
  BY <1>3 DEF Reconcile, Call
<1>4. CASE SetCheck(t)
  BY <1>4 DEF SetCheck
<1>5. CASE SetNative(t)
  BY <1>5 DEF SetNative
<1>6. CASE SetCommit(t)
  BY <1>6 DEF SetCommit
<1>7. CASE ReconcileCheck(t)
  BY <1>7 DEF ReconcileCheck
<1>8. CASE ReconcileCommit(t)
  BY <1>8 DEF ReconcileCommit, CommitInFlight
<1>9. CASE BeginCheck(t)
  BY <1>9 DEF BeginCheck
<1>10. CASE BeginSubscribe(t)
  BY <1>10 DEF BeginSubscribe
<1>11. CASE BeginStart(t)
  <2>1. /\ UNCHANGED <<current, inFlight, arg, target>> /\ pc[t] = "beginStart" /\ begun' = begun
        /\ begun \in Begins /\ Owned(begun) /\ active = None
    BY <1>11 DEF BeginStart
  <2>2. \A u \in Threads : u # t => pc[u] \notin Settled
    BY <2>1
  <2>3. CASE active' = begun /\ pc' = [pc EXCEPT ![t] = "idle"]
    BY <2>1, <2>2, <2>3
  <2>4. CASE active' = active /\ pc' = [pc EXCEPT ![t] = "beginRejected"]
    BY <2>1, <2>2, <2>4
  <2> QED
    BY <1>11, <2>3, <2>4 DEF BeginStart
<1>12. CASE BeginRejected(t)
  BY <1>12 DEF BeginRejected
<1>13. CASE WaitTake(t)
  BY <1>13 DEF WaitTake
<1>14. CASE WaitReceive(t)
  BY <1>14 DEF WaitReceive
<1>15. CASE WaitOk(t)
  BY <1>15 DEF WaitOk, CommitInFlight
<1>16. CASE WaitTimeout(t)
  BY <1>16 DEF WaitTimeout
<1>17. CASE ForceRead(t)
  BY <1>17 DEF ForceRead
<1>18. CASE ForceCall(t)
  BY <1>18 DEF ForceCall, Published
<1>19. CASE ForceCommit(t)
  BY <1>19 DEF ForceCommit
<1>20. CASE CallFails(t)
  BY <1>20 DEF CallFails
<1> QED
  BY <1>1, <1>2, <1>3, <1>4, <1>5, <1>6, <1>7, <1>8, <1>9, <1>10, <1>11, <1>12, <1>13, <1>14,
     <1>15, <1>16, <1>17, <1>18, <1>19, <1>20
     DEF Step, StartOperation, ContinueOperation

(* Only the owner of the mutex can be about to start or to force. *)
LEMMA Spots ==
    ASSUME Instance, Types, LockIsHeld, NEW t \in Threads, operation \in {t, None},
           NEW x \in Steps, pc' = [pc EXCEPT ![t] = x]
    PROVE  /\ Starting = IF pc[t] = "beginStart" THEN 1 ELSE 0
           /\ Forcing = IF pc[t] \in {"force", "forceCall"} THEN 1 ELSE 0
           /\ Starting' = IF x = "beginStart" THEN 1 ELSE 0
           /\ Forcing' = IF x \in {"force", "forceCall"} THEN 1 ELSE 0
<1>1. \A u \in Threads \ {t} : pc[u] \in Waiting \cup {"idle"} /\ pc'[u] = pc[u]
  BY DEF Instance, Types, LockIsHeld
<1>2. pc'[t] = x
  BY DEF Types
<1> QED
  BY <1>1, <1>2 DEF Starting, Forcing, Waiting

(* A receiver takes one signal or none. *)
LEMMA OneLess ==
    ASSUME NEW n \in Nat, NEW m \in {n, n - 1}
    PROVE  m <= n /\ m \in Int
OBVIOUS

(* A step that neither starts nor forces accounts for no signal. *)
LEMMA QuietStep ==
    ASSUME Types, Signals, NEW t \in Threads, NEW x,
           pc[t] \notin {"beginStart", "force", "forceCall"}, x \notin {"beginStart", "force", "forceCall"},
           pc' = [pc EXCEPT ![t] = x], UNCHANGED <<begun, forced, stopping, queue, active>>
    PROVE  Signals'
<1>1. pc'[t] = x /\ \A u \in Threads : u # t => pc'[u] = pc[u]
  BY DEF Types
<1>2. Starting' = Starting
  BY <1>1 DEF Starting
<1>3. Forcing' = Forcing
  BY <1>1 DEF Forcing
<1>4. Running' = Running
  BY DEF Running
<1> QED
  BY <1>2, <1>3, <1>4 DEF Signals

(* No signal comes from nowhere. *)
LEMMA StepSignals ==
    ASSUME Instance, Types, LockIsHeld, Destinations, Signals,
           NEW t \in Threads, Step(t)
    PROVE  Signals'
<1> USE DEF Types, Goto, Return, rust, native, Instance, Begins, Waiting, LockIsHeld, Settled, Destinations, Running, Starting, Forcing, Signals
<1>1. ASSUME NEW src \in Sources, NEW to \in {"set", "begin"}, CallWith(t, src, to)
      PROVE  Signals'
  BY <1>1 DEF CallWith, Call
<1>2. CASE ForceStop(t)
  <2>1. /\ pc' = [pc EXCEPT ![t] = "force"] /\ "force" \in Steps /\ operation \in {t, None}
        /\ pc[t] = "idle" /\ forced' = forced + 1 /\ forced \in Nat
        /\ UNCHANGED <<begun, stopping, queue>> /\ Running' = Running
    BY <1>2 DEF ForceStop, Call, Steps
  <2>2. Starting = 0 /\ Forcing = 0 /\ Starting' = 0 /\ Forcing' = 1
    BY <2>1, Spots
  <2>3. Running \in {0, 1} /\ begun \in Nat /\ stopping \in Nat
    BY DEF Running
  <2>8. \A b \in Begins : queue[b] \in Nat
    OBVIOUS
  <2>9. begun \in Nat /\ forced \in Nat /\ stopping \in Nat
    OBVIOUS
  <2> HIDE DEF Types, LockIsHeld, Destinations, Starting, Forcing, Running, Begins, Instance
  <2> QED
    BY <2>1, <2>2, <2>3, <2>8, <2>9
<1>3. CASE Reconcile(t)
  BY <1>3 DEF Reconcile, Call
<1>4. CASE SetCheck(t)
  <2> HIDE DEF Types, Instance, LockIsHeld, Destinations, Running, Starting, Forcing, Signals
  <2>1. \E x \in {"idle", "setChecked"} : pc' = [pc EXCEPT ![t] = x]
    BY <1>4 DEF SetCheck
  <2> QED
    BY <1>4, <2>1, QuietStep DEF SetCheck
<1>5. CASE SetNative(t)
  BY <1>5 DEF SetNative
<1>6. CASE SetCommit(t)
  <2> HIDE DEF Types, Instance, LockIsHeld, Destinations, Running, Starting, Forcing, Signals
  <2>1. \E x \in {"idle"} : pc' = [pc EXCEPT ![t] = x]
    BY <1>6 DEF SetCommit
  <2> QED
    BY <1>6, <2>1, QuietStep DEF SetCommit
<1>7. CASE ReconcileCheck(t)
  <2> HIDE DEF Types, Instance, LockIsHeld, Destinations, Running, Starting, Forcing, Signals
  <2>1. \E x \in {"beginReconcile", "reconcileCommit", "beginIdle", "idle"} : pc' = [pc EXCEPT ![t] = x]
    BY <1>7 DEF ReconcileCheck
  <2> QED
    BY <1>7, <2>1, QuietStep DEF ReconcileCheck
<1>8. CASE ReconcileCommit(t)
  <2> HIDE DEF Types, Instance, LockIsHeld, Destinations, Running, Starting, Forcing, Signals
  <2>1. \E x \in {"beginIdle", "idle"} : pc' = [pc EXCEPT ![t] = x]
    BY <1>8 DEF ReconcileCommit
  <2> QED
    BY <1>8, <2>1, QuietStep DEF ReconcileCommit
<1>9. CASE BeginCheck(t)
  <2> HIDE DEF Types, Instance, LockIsHeld, Destinations, Running, Starting, Forcing, Signals
  <2>1. \E x \in {"idle", "beginReady"} : pc' = [pc EXCEPT ![t] = x]
    BY <1>9 DEF BeginCheck
  <2> QED
    BY <1>9, <2>1, QuietStep DEF BeginCheck
<1>10. CASE BeginSubscribe(t)
  <2>0. /\ pc' = [pc EXCEPT ![t] = "beginStart"] /\ pc[t] = "beginReady" /\ begun' = begun + 1
        /\ UNCHANGED <<forced, stopping, queue, active>>
    <3> HIDE DEF Types, LockIsHeld, Destinations, Signals, Instance
    <3> QED
      BY <1>10 DEF BeginSubscribe
  <2>1. /\ "beginStart" \in Steps /\ operation \in {t, None} /\ begun \in Nat /\ forced \in Nat
        /\ Running' = Running
    <3> HIDE DEF Destinations, Signals
    <3> QED
      BY <2>0 DEF Steps
  <2>2. Starting = 0 /\ Forcing = 0 /\ Starting' = 1 /\ Forcing' = 0
    BY <2>0, <2>1, Spots
  <2>3. Running \in {0, 1} /\ stopping \in Nat
    BY DEF Running
  <2>8. \A b \in Begins : queue[b] \in Nat
    OBVIOUS
  <2>9. begun \in Nat /\ forced \in Nat /\ stopping \in Nat
    OBVIOUS
  <2> HIDE DEF Types, LockIsHeld, Destinations, Starting, Forcing, Running, Begins, Instance
  <2> QED
    BY <2>0, <2>1, <2>2, <2>3, <2>8, <2>9
<1>11. CASE BeginStart(t)
  <2>1. /\ pc[t] = "beginStart" /\ operation \in {t, None} /\ active = None
        /\ UNCHANGED <<begun, forced, stopping, queue>> /\ begun \in Begins
    BY <1>11 DEF BeginStart
  <2>2. \/ active' = begun /\ pc' = [pc EXCEPT ![t] = "idle"]
        \/ active' = active /\ pc' = [pc EXCEPT ![t] = "beginRejected"]
    BY <1>11 DEF BeginStart
  <2>3. Starting = 1 /\ Forcing = 0 /\ Starting' = 0 /\ Forcing' = 0
    BY <2>1, <2>2, Spots DEF Steps
  <2>4. Running = 0 /\ Running' \in Nat /\ Running' <= 1
    BY <2>1 DEF Running
  <2>8. \A b \in Begins : queue[b] \in Nat
    OBVIOUS
  <2>9. begun \in Nat /\ forced \in Nat /\ stopping \in Nat
    OBVIOUS
  <2> HIDE DEF Types, LockIsHeld, Destinations, Starting, Forcing, Running, Begins, Instance
  <2> QED
    <3>1. /\ begun' = begun /\ forced' = forced /\ stopping' = stopping /\ queue' = queue
      BY <2>1
    <3>2. stopping + 1 <= begun
      BY <2>3, <2>4, <2>9
    <3>3. \A b \in Begins : queue[b] + stopping + 1 <= begun + forced
      BY <2>3, <2>4, <2>8, <2>9
    <3>4. stopping' + Running' + Starting' <= begun'
      <4>1. stopping + Running' + 0 <= begun
        <5>1. ASSUME NEW r \in Nat, r <= 1 PROVE stopping + r + 0 <= begun
          BY <2>9, <3>2, <5>1
        <5> QED
          BY <2>4, <5>1
      <4> QED
        BY <2>3, <3>1, <4>1
    <3>5. ASSUME NEW b \in Begins
          PROVE  queue'[b] + stopping' + Running' + Starting' + Forcing' <= begun' + forced'
      BY <2>3, <2>4, <2>8, <2>9, <3>1, <3>3
    <3> QED
      BY <3>4, <3>5
<1>12. CASE BeginRejected(t)
  <2> HIDE DEF Types, Instance, LockIsHeld, Destinations, Running, Starting, Forcing, Signals
  <2>1. \E x \in {"idle"} : pc' = [pc EXCEPT ![t] = x]
    BY <1>12 DEF BeginRejected
  <2> QED
    BY <1>12, <2>1, QuietStep DEF BeginRejected
<1>13. CASE WaitTake(t)
  <2> HIDE DEF Types, Instance, LockIsHeld, Destinations, Running, Starting, Forcing, Signals
  <2>1. \E x \in {"wait"} : pc' = [pc EXCEPT ![t] = x]
    BY <1>13 DEF WaitTake
  <2> QED
    BY <1>13, <2>1, QuietStep DEF WaitTake
<1>14. CASE WaitReceive(t)
  <2>1. /\ UNCHANGED <<begun, forced, stopping, active>>
        /\ receiver[t] \in Begins /\ queue[receiver[t]] \in Nat
        /\ \/ queue' = [queue EXCEPT ![receiver[t]] = @ - 1]
           \/ queue' = queue
    BY <1>14 DEF WaitReceive
  <2>2. ASSUME NEW b \in Begins
        PROVE  queue[b] \in Nat /\ queue'[b] <= queue[b] /\ queue'[b] \in Int
    <3>1. queue[b] \in Nat
      OBVIOUS
    <3>2. queue'[b] \in {queue[b], queue[b] - 1}
      <4>1. queue \in [Begins -> Nat]
        OBVIOUS
      <4> HIDE DEF Types, Instance, LockIsHeld, Destinations, Running, Starting, Forcing, Signals, Begins
      <4> QED
        BY <2>1, <4>1
    <3> QED
      BY <3>1, <3>2, OneLess, Zenon
  <2>3. Starting' = Starting /\ Forcing' = Forcing /\ Running' = Running
    <3>1. /\ pc[t] = "wait" /\ active' = active
          /\ \E x \in {"waitOk", "waitTimeout"} : pc' = [pc EXCEPT ![t] = x]
      BY <1>14 DEF WaitReceive
    <3>2. \A u \in Threads : pc'[u] = pc[u] \/ {pc[u], pc'[u]} \subseteq {"wait", "waitOk", "waitTimeout"}
      BY <3>1
    <3> QED
      BY <3>1, <3>2
  <2>4. Starting \in Nat /\ Forcing \in Nat /\ Running \in Nat
    BY DEF Starting, Forcing, Running
  <2>8. \A b \in Begins : queue[b] \in Nat
    OBVIOUS
  <2>9. begun \in Nat /\ forced \in Nat /\ stopping \in Nat
    OBVIOUS
  <2> HIDE DEF Types, LockIsHeld, Destinations, Starting, Forcing, Running, Begins, Instance
  <2> QED
    BY <2>1, <2>2, <2>3, <2>4, <2>8, <2>9
<1>15. CASE WaitOk(t)
  <2> HIDE DEF Types, Instance, LockIsHeld, Destinations, Running, Starting, Forcing, Signals
  <2>1. \E x \in {"idle"} : pc' = [pc EXCEPT ![t] = x]
    BY <1>15 DEF WaitOk
  <2> QED
    BY <1>15, <2>1, QuietStep DEF WaitOk
<1>16. CASE WaitTimeout(t)
  <2> HIDE DEF Types, Instance, LockIsHeld, Destinations, Running, Starting, Forcing, Signals
  <2>1. \E x \in {"idle"} : pc' = [pc EXCEPT ![t] = x]
    BY <1>16 DEF WaitTimeout
  <2> QED
    BY <1>16, <2>1, QuietStep DEF WaitTimeout
<1>17. CASE ForceRead(t)
  BY <1>17 DEF ForceRead
<1>18. CASE ForceCall(t)
  <2>1. /\ pc[t] = "forceCall" /\ operation \in {t, None} /\ active' = None
        /\ pc' = [pc EXCEPT ![t] = "forceDone"] /\ "forceDone" \in Steps
        /\ UNCHANGED <<begun, forced, stopping>>
    BY <1>18 DEF ForceCall, Steps
  <2>2. \A b \in Begins : queue[b] \in Nat /\ queue'[b] \in {queue[b], queue[b] + 1}
    BY <1>18 DEF ForceCall, Published
  <2>3. Starting = 0 /\ Forcing = 1 /\ Starting' = 0 /\ Forcing' = 0
    BY <2>1, Spots
  <2>4. Running \in Nat /\ Running' = 0
    BY <2>1 DEF Running
  <2>8. \A b \in Begins : queue[b] \in Nat
    OBVIOUS
  <2>9. begun \in Nat /\ forced \in Nat /\ stopping \in Nat
    OBVIOUS
  <2> HIDE DEF Types, LockIsHeld, Destinations, Starting, Forcing, Running, Begins, Instance
  <2> QED
    BY <2>1, <2>2, <2>3, <2>4, <2>8, <2>9
<1>19. CASE ForceCommit(t)
  BY <1>19 DEF ForceCommit
<1>20. CASE CallFails(t)
  <2>1. /\ operation \in {t, None} /\ pc' = [pc EXCEPT ![t] = "idle"]
        /\ UNCHANGED <<begun, forced, stopping, queue, active>>
    BY <1>20 DEF CallFails
  <2>2. Starting \in Nat /\ Forcing \in Nat /\ Starting' = 0 /\ Forcing' = 0
    BY <2>1, Spots DEF Steps
  <2>3. Running' = Running /\ Running \in Nat
    BY <2>1 DEF Running
  <2>8. \A b \in Begins : queue[b] \in Nat
    OBVIOUS
  <2>9. begun \in Nat /\ forced \in Nat /\ stopping \in Nat
    OBVIOUS
  <2> HIDE DEF Types, LockIsHeld, Destinations, Starting, Forcing, Running, Begins, Instance
  <2> QED
    BY <2>1, <2>2, <2>3, <2>8, <2>9
<1> QED
  BY <1>1, <1>2, <1>3, <1>4, <1>5, <1>6, <1>7, <1>8, <1>9, <1>10, <1>11, <1>12, <1>13, <1>14,
     <1>15, <1>16, <1>17, <1>18, <1>19, <1>20
     DEF Step, StartOperation, ContinueOperation

-----------------------------------------------------------------------------
(* Alone, said of the only thread that may be inside a call. *)
OthersIdle(t) == \A u \in Threads : u # t => pc[u] = "idle"

AloneAt(t) ==
    inFlight # None =>
       /\ pc[t] = "forceCall" => arg[t] = inFlight
       /\ \/ pc[t] = "beginRejected"
          \/ pc[t] = "beginStart" /\ completion # None /\ completion <= begun
          \/ /\ \/ pc[t] = "waitOk"
                \/ pc[t] \in {"wait", "waitTimeout"} /\ Told(receiver[t])
                \/ pc[t] \notin Waiting /\ Told(completion)
             /\ active # None \/ shown = inFlight \/ pc[t] = "setDone"

LEMMA OneThread ==
    ASSUME NEW t \in Threads, OthersIdle(t)
    PROVE  Alone => AloneAt(t)
BY DEF OthersIdle, Alone, AloneAt, Waiting

LEMMA OneThreadLater ==
    ASSUME NEW t \in Threads, OthersIdle(t)'
    PROVE  AloneAt(t)' => Alone'
BY DEF OthersIdle, Alone, AloneAt, Waiting

(* A call that is alone and succeeds keeps what is in flight known. *)
LEMMA StepAlone ==
    ASSUME Instance, Types, LockIsHeld, Destinations, Signals, Alone,
           NEW t \in Threads, StartOperation(t) \/ ContinueOperation(t),
           \A u, v \in Threads : pc'[u] # "idle" /\ pc'[v] # "idle" => u = v
    PROVE  Alone'
<1>0. \E x \in Steps :
         /\ pc' = [pc EXCEPT ![t] = x]
         /\ pc[t] = "idle" => x # "idle"
  BY DEF Types, Steps, Goto, Return, Call, CallWith, ForceStop, Reconcile, SetCheck, SetNative,
     SetCommit, ReconcileCheck, ReconcileCommit, BeginCheck, BeginSubscribe, BeginStart,
        BeginRejected, WaitTake, WaitReceive, WaitOk, WaitTimeout, ForceRead, ForceCall,
           ForceCommit, StartOperation, ContinueOperation
<1>1. OthersIdle(t)
  BY <1>0 DEF OthersIdle, Alone, Types
<1>2. OthersIdle(t)'
  BY <1>0, <1>1 DEF OthersIdle, Types
<1>3. AloneAt(t)
  BY <1>1, OneThread
<1>4. AloneAt(t)'
  <2> USE <1>3 DEF Types, Goto, Return, rust, native, Instance, Begins, Waiting, LockIsHeld, Settled, Destinations, Told, AloneAt
  <2>1. ASSUME NEW src \in Sources, NEW to \in {"set", "begin"}, CallWith(t, src, to)
        PROVE  AloneAt(t)'
    BY <2>1 DEF CallWith, Call
  <2>2. CASE ForceStop(t)
    BY <2>2 DEF ForceStop, Call
  <2>3. CASE Reconcile(t)
    BY <2>3 DEF Reconcile, Call
  <2>4. CASE SetCheck(t)
    BY <2>4 DEF SetCheck
  <2>5. CASE SetNative(t)
    BY <2>5 DEF SetNative
  <2>6. CASE SetCommit(t)
    BY <2>6 DEF SetCommit
  <2>7. CASE ReconcileCheck(t)
    BY <2>7 DEF ReconcileCheck
  <2>8. CASE ReconcileCommit(t)
    BY <2>8 DEF ReconcileCommit, CommitInFlight
  <2>9. CASE BeginCheck(t)
    BY <2>9 DEF BeginCheck
  <2>10. CASE BeginSubscribe(t)
    BY <2>10 DEF BeginSubscribe
  <2>11. CASE BeginStart(t)
    BY <2>11 DEF BeginStart
  <2>12. CASE BeginRejected(t)
    BY <2>12 DEF BeginRejected
  <2>13. CASE WaitTake(t)
    BY <2>13 DEF WaitTake
  <2>14. CASE WaitReceive(t)
    BY <2>14 DEF WaitReceive
  <2>15. CASE WaitOk(t)
    BY <2>15 DEF WaitOk, CommitInFlight
  <2>16. CASE WaitTimeout(t)
    BY <2>16 DEF WaitTimeout
  <2>17. CASE ForceRead(t)
    BY <2>17 DEF ForceRead
  <2>18. CASE ForceCall(t)
    BY <2>18 DEF ForceCall, Published
  <2>19. CASE ForceCommit(t)
    BY <2>19 DEF ForceCommit
  <2> QED
    BY <2>1, <2>2, <2>3, <2>4, <2>5, <2>6, <2>7, <2>8, <2>9, <2>10, <2>11, <2>12, <2>13, <2>14,
       <2>15, <2>16, <2>17, <2>18, <2>19
       DEF StartOperation, ContinueOperation
<1> QED
  BY <1>2, <1>4, OneThreadLater
-----------------------------------------------------------------------------
(* libobs ends a transition, and signals. *)

LEMMA NativeSafe ==
    ASSUME Instance, Types, LockIsHeld, Destinations, Signals, NativeFinish \/ NativeSignal
    PROVE  Types' /\ LockIsHeld' /\ Destinations' /\ Signals'
<1> USE DEF rust
<1>1. CASE NativeFinish
  <2>1. /\ active # None /\ active' = None /\ shown' = target[active] /\ stopping' = stopping + 1
        /\ UNCHANGED <<rust, operation, pc, arg, receiver, begun, forced, target, queue>>
    BY <1>1 DEF NativeFinish
  <2>2. Types' /\ LockIsHeld'
    BY <2>1 DEF Types, LockIsHeld
  <2>3. Destinations'
    BY <2>1 DEF Types, Destinations, Owned, Settled
  <2>4. Running = 1 /\ Running' = 0 /\ Starting' = Starting /\ Forcing' = Forcing
    BY <2>1 DEF Running, Starting, Forcing
  <2>5. /\ begun \in Nat /\ forced \in Nat /\ stopping \in Nat /\ \A b \in Begins : queue[b] \in Nat
        /\ Starting \in Nat /\ Forcing \in Nat
    BY DEF Types, Instance, Starting, Forcing
  <2>6. Signals'
    BY <2>1, <2>4, <2>5 DEF Signals
  <2> QED
    BY <2>2, <2>3, <2>6
<1>2. CASE NativeSignal
  <2>1. /\ stopping > 0 /\ stopping' = stopping - 1 /\ queue' = Published
        /\ UNCHANGED <<rust, operation, pc, arg, receiver, begun, forced, target, active, shown>>
    BY <1>2 DEF NativeSignal
  <2>2. /\ begun \in Nat /\ forced \in Nat /\ stopping \in Nat
        /\ \A b \in Begins : queue[b] \in Nat /\ queue'[b] \in {queue[b], queue[b] + 1}
    BY <2>1 DEF Types, Instance, Published
  <2>3. Types' /\ LockIsHeld'
    <3>1. queue' \in [Begins -> Nat] /\ stopping' \in Nat
      BY <2>1, <2>2 DEF Published
    <3> QED
      BY <2>1, <3>1 DEF Types, LockIsHeld
  <2>4. Destinations'
    BY <2>1 DEF Destinations, Owned
  <2>5. Running' = Running /\ Starting' = Starting /\ Forcing' = Forcing
    BY <2>1 DEF Running, Starting, Forcing
  <2>6. Running \in Nat /\ Starting \in Nat /\ Forcing \in Nat
    BY DEF Running, Starting, Forcing
  <2>7. Signals'
    BY <2>1, <2>2, <2>5, <2>6 DEF Signals
  <2> QED
    BY <2>3, <2>4, <2>7
<1> QED
  BY <1>1, <1>2

(* What libobs does meanwhile is what a lone call waits for. *)
LEMMA NativeAlone ==
    ASSUME Instance, Types, Destinations, Alone, NativeFinish \/ NativeSignal
    PROVE  Alone'
<1> USE DEF rust
<1>1. /\ UNCHANGED <<rust, pc, arg, receiver, begun, target>>
      /\ begun \in Nat /\ stopping \in Nat
      /\ \A b \in Begins : queue[b] \in Nat
  BY DEF NativeFinish, NativeSignal, Types, Instance
<1>2. ASSUME NEW c \in Begins \cup {None}, Told(c) PROVE Told(c)'
  <2>1. CASE NativeFinish
    BY <1>1, <1>2, <2>1 DEF NativeFinish, Told
  <2>2. CASE NativeSignal
    <3>1. c \in Begins /\ queue'[c] = queue[c] + 1
      BY <1>1, <1>2, <2>2 DEF NativeSignal, Told, Published
    <3>2. stopping' = stopping - 1 /\ stopping > 0
      BY <2>2 DEF NativeSignal
    <3>3. queue'[c] + stopping' > 0
      BY <1>1, <3>1, <3>2
    <3> QED
      BY <1>1, <1>2, <3>3 DEF Told
  <2> QED
    BY <2>1, <2>2
<1>3. inFlight # None /\ (active # None \/ shown = inFlight) => active' # None \/ shown' = inFlight'
  BY <1>1 DEF NativeFinish, NativeSignal, Destinations, Owned
<1>4. completion \in Begins \cup {None} /\ \A t \in Threads : receiver[t] \in Begins \cup {None}
  BY DEF Types
<1> QED
  BY <1>1, <1>2, <1>3, <1>4 DEF Alone

-----------------------------------------------------------------------------
(* A set of at most one element. *)
LEMMA AtMostOne ==
    ASSUME NEW S, IsFiniteSet(S), Cardinality(S) <= 1, NEW x \in S, NEW y \in S
    PROVE  x = y
<1> SUFFICES ASSUME x # y PROVE FALSE
  OBVIOUS
<1>1. IsFiniteSet({x}) /\ Cardinality({x}) = 1
  BY FS_Singleton
<1>2. Cardinality({x} \cup {y}) = 2
  <2>1. y \notin {x}
    OBVIOUS
  <2>2. Cardinality({x} \cup {y}) = Cardinality({x}) + 1
    BY ONLY <1>1, <2>1, FS_AddElement
  <2> QED
    BY ONLY <1>1, <2>2
<1>3. Cardinality({x} \cup {y}) <= Cardinality(S)
  BY FS_Subset
<1>4. Cardinality(S) \in Nat
  BY FS_CardinalityType
<1> QED
  BY <1>2, <1>3, <1>4

(* Init => Inv *)
LEMMA InitSafe == Instance /\ Init => Inv
<1> SUFFICES ASSUME Instance, Init PROVE Inv
  OBVIOUS
<1>1. Types /\ undisturbed \in BOOLEAN
  BY DEF Init, Instance, Types, Steps, Waiting
<1>2. LockIsHeld /\ Destinations /\ Alone
  BY DEF Init, Instance, LockIsHeld, Destinations, Alone, Settled
<1>3. Running = 0 /\ Starting = 0 /\ Forcing = 0
  BY DEF Init, Running, Starting, Forcing
<1>4. Signals
  BY <1>3 DEF Init, Signals
<1> QED
  BY <1>1, <1>2, <1>4 DEF Inv

(* Inv /\ [Next]_vars => Inv' *)
LEMMA NextSafe ==
    ASSUME Instance, Inv, [Next]_vars
    PROVE  Inv'
<1> USE DEF Inv
<1>1. CASE Succeed /\ undisturbed' = (undisturbed /\ Cardinality(InsideACall') <= 1)
  <2>1. ASSUME NEW t \in Threads, StartOperation(t) \/ ContinueOperation(t)
        PROVE  Types' /\ LockIsHeld' /\ Destinations' /\ Signals'
    BY <2>1, StepTypes, StepLock, StepDestinations, StepSignals DEF Step
  <2>2. Types' /\ LockIsHeld' /\ Destinations' /\ Signals'
    BY <1>1, <2>1, NativeSafe DEF Succeed
  <2>3. ASSUME undisturbed' PROVE Alone'
    <3>1. undisturbed /\ Alone /\ Cardinality(InsideACall') <= 1
      BY <1>1, <2>3, Zenon
    <3>2. IsFiniteSet(InsideACall')
      BY FS_Subset DEF Instance, InsideACall
    <3>3. \A u, v \in Threads : pc'[u] # "idle" /\ pc'[v] # "idle" => u = v
      BY <3>1, <3>2, AtMostOne DEF InsideACall
    <3> QED
      BY <1>1, <3>1, <3>3, StepAlone, NativeAlone DEF Succeed
  <2>4. undisturbed' \in BOOLEAN
    BY <1>1, Zenon
  <2> QED
    BY <2>2, <2>3, <2>4
<1>2. CASE Fail /\ undisturbed' = FALSE
  BY <1>2, StepTypes, StepLock, StepDestinations, StepSignals DEF Fail, Step
<1>3. CASE UNCHANGED vars
  BY <1>3 DEF vars, Types, LockIsHeld, Destinations, Owned, Signals, Running, Starting, Forcing,
     Alone,
     Told
<1> QED
  BY <1>1, <1>2, <1>3 DEF Next

(* Inv is an invariant for every set of threads and sources and whatever   *)
(* the bounds: the mutex has one owner, whoever has seen the transition    *)
(* inactive is right about it, every signal is accounted for.              *)
THEOREM TransitionInvariant ==
    ASSUME Instance
    PROVE  Spec => []Inv
BY InitSafe, NextSafe, PTL DEF Spec

(* Every variable keeps its type, and no subscription holds more signals   *)
(* than transitions were begun and stopped by force.                       *)
THEOREM TypeCorrect ==
    ASSUME Instance
    PROVE  Spec => []TypeOK
<1>1. Inv => TypeOK
  <2> SUFFICES ASSUME Inv PROVE TypeOK
    OBVIOUS
  <2>1. /\ begun \in Nat /\ forced \in Nat /\ stopping \in Nat
        /\ begun <= MaxBegins /\ forced <= MaxForces
        /\ Running \in Nat /\ Starting \in Nat /\ Forcing \in Nat
    BY DEF Inv, Types, Instance, Running, Starting, Forcing
  <2>2. stopping \in 0..MaxBegins
    BY <2>1 DEF Inv, Signals, Instance
  <2>3. ASSUME NEW b \in Begins PROVE queue[b] \in 0..(MaxBegins + MaxForces)
    <3>1. queue[b] \in Nat
      BY DEF Inv, Types
    <3> QED
      BY <2>1, <3>1 DEF Inv, Signals, Instance
  <2> QED
    BY <2>2, <2>3 DEF Inv, Types, TypeOK
<1> QED
  BY <1>1, TransitionInvariant, PTL

(* Whatever waits, forced stops and failing calls overlap, the destination *)
(* of the active transition is owned by the controller.                    *)
THEOREM DestinationAlwaysRetained ==
    ASSUME Instance
    PROVE  Spec => []DestinationRetained
<1>1. Inv => DestinationRetained
  BY DEF Inv, Destinations, Owned, DestinationRetained
<1> QED
  BY <1>1, TransitionInvariant, PTL

(* A step moves one thread. *)
LEMMA OneMoves ==
    ASSUME Types, NEW u \in Threads, Step(u), NEW t \in Threads, pc'[t] # pc[t]
    PROVE  t = u
<1>1. \E x : pc' = [pc EXCEPT ![u] = x]
  BY DEF Goto, Return, CallWith, Call, ForceStop, Reconcile, SetCheck, SetNative,
    SetCommit, ReconcileCheck, ReconcileCommit, BeginCheck, BeginSubscribe,
    BeginStart, BeginRejected, WaitTake, WaitReceive, WaitOk, WaitTimeout,
    ForceRead, ForceCall, ForceCommit, CallFails, StartOperation,
    ContinueOperation, Step
<1> QED
  BY <1>1 DEF Types

(* The thread that makes a source current at the end of set_current_source *)
(* or force_stop.                                                          *)
LEMMA SnapStep ==
    ASSUME Types, LockIsHeld, Destinations, NEW t \in Threads, Step(t),
           pc[t] \in {"setDone", "forceDone"}
    PROVE  active' = None /\ shown' = current' /\ inFlight' = None
<1>1. SetCommit(t) \/ ForceCommit(t)
  BY DEF Goto, Return, CallWith, Call, ForceStop, Reconcile, SetCheck, SetNative,
    SetCommit, ReconcileCheck, ReconcileCommit, BeginCheck, BeginSubscribe,
    BeginStart, BeginRejected, WaitTake, WaitReceive, WaitOk, WaitTimeout,
    ForceRead, ForceCall, ForceCommit, CallFails, StartOperation,
    ContinueOperation, Step
<1> QED
  BY <1>1 DEF SetCommit, ForceCommit, Destinations, Settled, native

(* When a forced stop or set_current_source has returned, libobs shows the *)
(* current source and nothing is in flight, for any overlapping waits.     *)
THEOREM AlwaysSnaps ==
    ASSUME Instance
    PROVE  Spec => SnapsToCurrent
<1>1. Inv /\ [Next]_vars =>
         [\A t \in Threads :
            pc[t] \in {"setDone", "forceDone"} /\ pc'[t] = "idle" =>
               active' = None /\ shown' = current' /\ inFlight' = None]_vars
  <2> SUFFICES ASSUME Inv, Next, NEW t \in Threads,
                      pc[t] \in {"setDone", "forceDone"}, pc'[t] = "idle"
               PROVE  active' = None /\ shown' = current' /\ inFlight' = None
    OBVIOUS
  <2>1. ~UNCHANGED pc
    OBVIOUS
  <2>2. PICK u \in Threads : Step(u)
    BY <2>1 DEF Next, Succeed, Fail, Step, NativeFinish, NativeSignal
  <2>3. u = t
    BY <2>2, OneMoves DEF Inv
  <2> QED
    BY <2>2, <2>3, SnapStep DEF Inv
<1> QED
  BY <1>1, TransitionInvariant, PTL DEF Spec, SnapsToCurrent

(* As long as calls follow one another and none fails, a destination in    *)
(* flight can be waited for and its signal is in the subscription or on    *)
(* its way, however many waits timed out before.                           *)
THEOREM CompletionNeverLost ==
    ASSUME Instance
    PROVE  Spec => []CompletionIsNotLost
<1>1. Inv => CompletionIsNotLost
  <2> SUFFICES ASSUME Inv, undisturbed, Quiet, inFlight # None
               PROVE  completion # None /\ (active = None => queue[completion] + stopping > 0)
    BY DEF CompletionIsNotLost
  <2>1. Alone
    BY DEF Inv
  <2>2. Told(completion)
    BY <2>1 DEF Alone, Quiet
  <2> QED
    BY <2>2 DEF Told
<1> QED
  BY <1>1, TransitionInvariant, PTL

(* A source that reconcile makes current is what libobs shows, as long as  *)
(* calls follow one another and none fails.                                *)
THEOREM ReconciledAlwaysShown ==
    ASSUME Instance
    PROVE  Spec => ReconciledIsShown
<1>1. Inv /\ [Next]_vars =>
         [\A t \in Threads :
            /\ undisturbed /\ pc[t] \in {"beginReconcile", "reconcileCommit"}
            /\ current' # current
            => current' = shown]_vars
  <2> SUFFICES ASSUME Inv, Next, NEW t \in Threads, undisturbed,
                      pc[t] \in {"beginReconcile", "reconcileCommit"}, current' # current
               PROVE  current' = shown
    OBVIOUS
  <2>1. Alone /\ OthersIdle(t)
    BY DEF Inv, Alone, OthersIdle
  <2>2. PICK u \in Threads : Step(u)
    BY DEF Next, Succeed, Fail, Step, NativeFinish, NativeSignal, rust
  <2>3. \/ SetCommit(u) \/ ForceCommit(u) \/ ReconcileCommit(u) \/ WaitOk(u)
    BY <2>2 DEF rust, Goto, Return, CallWith, Call, ForceStop, Reconcile, SetCheck, SetNative,
    SetCommit, ReconcileCheck, ReconcileCommit, BeginCheck, BeginSubscribe,
    BeginStart, BeginRejected, WaitTake, WaitReceive, WaitOk, WaitTimeout,
    ForceRead, ForceCall, ForceCommit, CallFails, StartOperation,
    ContinueOperation, Step
  <2>4. pc[u] # "idle"
    BY <2>3 DEF SetCommit, ForceCommit, ReconcileCommit, WaitOk
  <2>5. u = t
    BY <2>1, <2>4 DEF OthersIdle
  <2>6. ReconcileCommit(t) /\ inFlight # None /\ current' = inFlight
    BY <2>3, <2>5 DEF SetCommit, ForceCommit, ReconcileCommit, WaitOk, CommitInFlight
  <2>7. active = None
    BY DEF Inv, Destinations, Settled
  <2>8. AloneAt(t)
    BY <2>1, OneThread
  <2> QED
    BY <2>6, <2>7, <2>8 DEF AloneAt
<1> QED
  BY <1>1, TransitionInvariant, PTL DEF Spec, ReconciledIsShown


-----------------------------------------------------------------------------
(* Signals *)

(* The cleanup of a registration. *)
Disconnect == [what |-> "disconnect", lease |-> TRUE, hub |-> TRUE]

(* The task is queued. *)
Queued(task) == \E k \in 1..Len(cleanups) : cleanups[k] = task

(* The types of the life of a registration. *)
LifeTypes ==
    /\ registration \in {"none", "live", "dropped", "gone"}
    /\ object \in {"live", "released"}
    /\ actor \in {"running", "recovering", "down", "exited"}
    /\ cleanups \in Seq({Disconnect, Hub!Release})

(* A dropped registration is in the cleanup queue once, until the cleanup  *)
(* has run or the actor has exited; whoever is left to use the object keeps *)
(* it alive.                                                               *)
LifeInv ==
    /\ LifeTypes
    /\ \A i, j \in 1..Len(cleanups) :
          cleanups[i] = Disconnect /\ cleanups[j] = Disconnect => i = j
    /\ registration # "dropped" => ~Queued(Disconnect)
    /\ registration = "dropped" /\ actor # "exited" => Queued(Disconnect)
    /\ callback => registration \in {"live", "dropped"}
    /\ handle \/ registration = "live" \/ Queued(Disconnect) => object = "live"
    /\ Queued(Hub!Release) => ~handle /\ registration # "live" /\ ~Queued(Disconnect)

(* A cleanup is queued, or lost with the actor. *)
LEMMA Deferred ==
    ASSUME LifeTypes, NEW task \in {Disconnect, Hub!Release}, Hub!Defer(task)
    PROVE  /\ cleanups' \in Seq({Disconnect, Hub!Release})
           /\ \/ actor = "exited" /\ cleanups' = cleanups
              \/ /\ actor # "exited" /\ Len(cleanups') = Len(cleanups) + 1 /\ Len(cleanups) \in Nat
                 /\ cleanups'[Len(cleanups) + 1] = task
                 /\ \A k \in 1..Len(cleanups) : cleanups'[k] = cleanups[k]
<1>1. cleanups' = cleanups \/ cleanups' = Append(cleanups, task)
  BY DEF Hub!Defer
<1> QED
  BY <1>1 DEF Hub!Defer, LifeTypes

(* The tasks are told apart by what they do. *)
LEMMA Tasks == Disconnect # Hub!Release /\ Disconnect.what = "disconnect" /\ Hub!Release.what = "release"
<1>1. Disconnect.what = "disconnect" /\ Hub!Release.what = "release"
  BY DEF Disconnect, Hub!Release
<1> QED
  BY <1>1

(* Registering a callback. *)
LEMMA NewRegistrationSafe ==
    ASSUME LifeInv, NEW accepted \in BOOLEAN, Hub!NewRegistration(accepted)
    PROVE  LifeInv'
<1>1. /\ registration = "none" /\ handle /\ actor = "running"
      /\ UNCHANGED <<handle, object, actor, cleanups>>
  BY DEF Hub!NewRegistration
<1>2. \/ registration' = "live" /\ callback' = TRUE
      \/ UNCHANGED <<registration, callback>>
  BY DEF Hub!NewRegistration
<1>3. (Queued(Disconnect)' <=> Queued(Disconnect)) /\ (Queued(Hub!Release)' <=> Queued(Hub!Release))
  BY <1>1 DEF Queued
<1>4. LifeTypes'
  BY <1>1, <1>2 DEF LifeInv, LifeTypes
<1> QED
  BY <1>1, <1>2, <1>3, <1>4 DEF LifeInv

(* Dropping a registration queues the disconnection while the actor runs. *)
LEMMA DropRegistrationSafe ==
    ASSUME LifeInv, Hub!DropRegistration
    PROVE  LifeInv'
<1>1. /\ registration = "live" /\ registration' = "dropped"
      /\ Hub!Defer(Disconnect)
      /\ UNCHANGED <<callback, handle, object, actor>>
  BY DEF Hub!DropRegistration, Disconnect
<1>2. object = "live" /\ ~Queued(Disconnect) /\ ~Queued(Hub!Release)
  BY <1>1 DEF LifeInv
<1>3. /\ cleanups' \in Seq({Disconnect, Hub!Release})
      /\ \/ actor = "exited" /\ cleanups' = cleanups
         \/ /\ actor # "exited" /\ Len(cleanups') = Len(cleanups) + 1 /\ Len(cleanups) \in Nat
            /\ cleanups'[Len(cleanups) + 1] = Disconnect
            /\ \A k \in 1..Len(cleanups) : cleanups'[k] = cleanups[k]
  BY <1>1, Deferred DEF LifeInv
<1>4. /\ \A i, j \in 1..Len(cleanups') : cleanups'[i] = Disconnect /\ cleanups'[j] = Disconnect => i = j
      /\ actor # "exited" => Queued(Disconnect)'
      /\ ~Queued(Hub!Release)'
  BY <1>2, <1>3, Tasks DEF Queued
<1>5. LifeTypes'
  BY <1>1, <1>3 DEF LifeInv, LifeTypes
<1> QED
  BY <1>1, <1>2, <1>4, <1>5 DEF LifeInv

(* Dropping the handle queues the release behind the disconnection. *)
LEMMA DropHandleSafe ==
    ASSUME LifeInv, Hub!DropHandle
    PROVE  LifeInv'
<1>1. /\ handle /\ ~handle'
      /\ UNCHANGED <<registration, callback, object, actor>>
  BY DEF Hub!DropHandle
<1>2. object = "live" /\ ~Queued(Hub!Release)
  BY <1>1 DEF LifeInv
<1>3. CASE UNCHANGED cleanups
  <2>1. (Queued(Disconnect)' <=> Queued(Disconnect)) /\ (Queued(Hub!Release)' <=> Queued(Hub!Release))
    BY <1>3 DEF Queued
  <2>2. LifeTypes'
    BY <1>1, <1>3 DEF LifeInv, LifeTypes
  <2> QED
    BY <1>1, <1>2, <1>3, <2>1, <2>2 DEF LifeInv
<1>4. CASE /\ registration # "live" /\ ~\E k \in DOMAIN cleanups : cleanups[k].lease
           /\ Hub!Defer(Hub!Release)
  <2>1. ~Queued(Disconnect)
    BY <1>4 DEF Queued, Disconnect, LifeInv, LifeTypes
  <2>2. /\ cleanups' \in Seq({Disconnect, Hub!Release})
        /\ \/ actor = "exited" /\ cleanups' = cleanups
           \/ /\ actor # "exited" /\ Len(cleanups') = Len(cleanups) + 1 /\ Len(cleanups) \in Nat
              /\ cleanups'[Len(cleanups) + 1] = Hub!Release
              /\ \A k \in 1..Len(cleanups) : cleanups'[k] = cleanups[k]
    BY <1>4, Deferred DEF LifeInv
  <2>3. /\ \A i \in 1..Len(cleanups') : cleanups'[i] # Disconnect
        /\ ~Queued(Disconnect)'
    BY <2>1, <2>2, Tasks DEF Queued
  <2>4. LifeTypes'
    BY <1>1, <2>2 DEF LifeInv, LifeTypes
  <2>5. registration = "dropped" => actor = "exited"
    BY <2>1 DEF LifeInv
  <2> QED
    BY <1>1, <1>2, <1>4, <2>3, <2>4, <2>5 DEF LifeInv
<1> QED
  BY <1>3, <1>4 DEF Hub!DropHandle

(* The cleanup that is run is the oldest, so that the callback is gone     *)
(* before the object.                                                      *)
LEMMA RunCleanupSafe ==
    ASSUME LifeInv, Hub!RunCleanup
    PROVE  LifeInv'
<1>1. /\ cleanups # <<>> /\ cleanups' = Tail(cleanups) /\ actor # "exited"
      /\ UNCHANGED <<handle, actor>>
  BY DEF Hub!RunCleanup
<1>2. /\ Len(cleanups) \in Nat \ {0} /\ cleanups[1] = Head(cleanups)
      /\ Head(cleanups) \in {Disconnect, Hub!Release}
      /\ cleanups' \in Seq({Disconnect, Hub!Release}) /\ Len(cleanups') = Len(cleanups) - 1
      /\ \A k \in 1..Len(cleanups') : cleanups'[k] = cleanups[k + 1]
  BY <1>1 DEF LifeInv, LifeTypes
<1>3. ASSUME NEW task PROVE Queued(task)' => Queued(task)
  <2> SUFFICES ASSUME NEW k \in 1..Len(cleanups'), cleanups'[k] = task
               PROVE  \E j \in 1..Len(cleanups) : cleanups[j] = task
    BY DEF Queued
  <2>1. k + 1 \in 1..Len(cleanups) /\ cleanups[k + 1] = task
    BY <1>2
  <2> QED
    BY <2>1
<1>4. \A i, j \in 1..Len(cleanups') : cleanups'[i] = Disconnect /\ cleanups'[j] = Disconnect => i = j
  <2> SUFFICES ASSUME NEW i \in 1..Len(cleanups'), NEW j \in 1..Len(cleanups'),
                      cleanups'[i] = Disconnect, cleanups'[j] = Disconnect
               PROVE  i = j
    OBVIOUS
  <2>1. /\ i + 1 \in 1..Len(cleanups) /\ j + 1 \in 1..Len(cleanups)
        /\ cleanups[i + 1] = Disconnect /\ cleanups[j + 1] = Disconnect
    BY <1>2
  <2> QED
    BY <1>2, <2>1 DEF LifeInv
<1>5. CASE Head(cleanups) = Disconnect
  <2>1. Queued(Disconnect)
    BY <1>2, <1>5 DEF Queued
  <2>2. ~Queued(Disconnect)'
    <3>1. ASSUME NEW k \in 1..Len(cleanups'), cleanups'[k] = Disconnect PROVE FALSE
      <4>1. /\ k + 1 \in 1..Len(cleanups) /\ cleanups[k + 1] = Disconnect /\ k + 1 # 1
            /\ 1 \in 1..Len(cleanups)
        BY <1>2, <3>1
      <4> QED
        BY <1>2, <1>5, <4>1 DEF LifeInv
    <3> QED
      BY <3>1 DEF Queued
  <2>3. /\ ~callback' /\ registration' = "gone"
        /\ object' = IF handle THEN object ELSE "released"
    BY <1>5, Tasks DEF Hub!RunCleanup
  <2>4. ~Queued(Hub!Release)'
    BY <1>3, <2>1 DEF LifeInv
  <2>5. LifeTypes'
    BY <1>1, <1>2, <2>3 DEF LifeInv, LifeTypes
  <2> QED
    BY <1>1, <1>4, <2>2, <2>3, <2>4, <2>5 DEF LifeInv
<1>6. CASE Head(cleanups) = Hub!Release
  <2>1. Queued(Hub!Release)
    BY <1>2, <1>6 DEF Queued
  <2>2. ~handle /\ registration # "live" /\ ~Queued(Disconnect)
    BY <2>1 DEF LifeInv
  <2>3. object' = "released" /\ UNCHANGED <<callback, registration>>
    BY <1>6, Tasks DEF Hub!RunCleanup
  <2>4. ~Queued(Disconnect)'
    BY <1>3, <2>2
  <2>5. LifeTypes'
    BY <1>1, <1>2, <2>3 DEF LifeInv, LifeTypes
  <2> QED
    BY <1>1, <1>4, <2>2, <2>3, <2>4, <2>5 DEF LifeInv
<1> QED
  BY <1>2, <1>5, <1>6

(* A panic and a shutdown change the phase of the actor and nothing else. *)
LEMMA PhaseSafe ==
    ASSUME LifeInv, Hub!Panic \/ Hub!ShutDown
    PROVE  LifeInv'
<1>1. /\ UNCHANGED <<registration, callback, handle, object, cleanups>>
      /\ actor # "exited" /\ actor' \in {"recovering", "down"}
  BY DEF Hub!Panic, Hub!ShutDown
<1>2. (Queued(Disconnect)' <=> Queued(Disconnect)) /\ (Queued(Hub!Release)' <=> Queued(Hub!Release))
  BY <1>1 DEF Queued
<1>3. LifeTypes'
  BY <1>1 DEF LifeInv, LifeTypes
<1> QED
  BY <1>1, <1>2, <1>3 DEF LifeInv

(* An actor that exits loses its cleanups and with them the last means to  *)
(* free the object.                                                        *)
LEMMA ExitSafe ==
    ASSUME LifeInv, Hub!Exit
    PROVE  LifeInv'
<1>1. /\ UNCHANGED <<registration, callback, handle, object>>
      /\ actor' = "exited" /\ cleanups' = <<>>
  BY DEF Hub!Exit
<1>2. ~Queued(Disconnect)' /\ ~Queued(Hub!Release)' /\ Len(cleanups') = 0
  BY <1>1 DEF Queued
<1>3. LifeTypes'
  BY <1>1 DEF LifeInv, LifeTypes
<1> QED
  BY <1>1, <1>2, <1>3 DEF LifeInv

(* The life of a registration is safe when it starts. *)
LEMMA LifeFirst ==
    ASSUME Hub!Init
    PROVE  LifeInv
<1>1. /\ registration = "none" /\ ~callback /\ object = "live" /\ actor = "running"
      /\ cleanups = <<>>
  BY DEF Hub!Init
<1>2. ~Queued(Disconnect) /\ ~Queued(Hub!Release) /\ Len(cleanups) = 0
  BY <1>1 DEF Queued
<1>3. LifeTypes
  BY <1>1 DEF LifeTypes
<1> QED
  BY <1>1, <1>2, <1>3 DEF LifeInv

(* And stays safe, whichever thread drops what and whatever becomes of the *)
(* actor.                                                                  *)
LEMMA LifeStep ==
    ASSUME LifeInv, [Hub!Next]_Hub!vars
    PROVE  LifeInv'
<1>1. ASSUME UNCHANGED Hub!lifeVars PROVE LifeInv'
  BY <1>1 DEF Hub!lifeVars, LifeInv, LifeTypes, Queued
<1>2. ASSUME NEW r \in Receivers, Hub!Subscribe(r) \/ Hub!Receive(r) \/ Hub!DropReceiver(r)
      PROVE  LifeInv'
  BY <1>1, <1>2 DEF Hub!Subscribe, Hub!Receive, Hub!DropReceiver
<1>3. ASSUME NEW b \in BOOLEAN, Hub!Callback(b) PROVE LifeInv'
  BY <1>1, <1>3 DEF Hub!Callback
<1>4. ASSUME NEW b \in BOOLEAN, Hub!NewRegistration(b) PROVE LifeInv'
  BY <1>4, NewRegistrationSafe
<1>5. CASE UNCHANGED Hub!vars
  BY <1>1, <1>5 DEF Hub!vars, Hub!lifeVars
<1> QED
  BY <1>2, <1>3, <1>4, <1>5, DropRegistrationSafe, DropHandleSafe, RunCleanupSafe, PhaseSafe,
     ExitSafe DEF Hub!Next

(* While libobs can call back, the hub it was given is alive, and a queued *)
(* disconnect finds its object alive, whichever thread drops what and      *)
(* whatever becomes of the actor.                                          *)
THEOREM CallbacksAlwaysSafe == Hub!Spec => []Hub!CallbacksAreSafe
<1>1. Hub!Init => LifeInv
  BY LifeFirst
<1>2. LifeInv /\ [Hub!Next]_Hub!vars => LifeInv'
  BY LifeStep
<1>3. LifeInv => Hub!CallbacksAreSafe
  <2> SUFFICES ASSUME LifeInv PROVE Hub!CallbacksAreSafe
    OBVIOUS
  <2>1. ASSUME callback, actor # "exited" PROVE Hub!HubAlive
    <3>1. registration = "live" \/ Queued(Disconnect)
      BY <2>1 DEF LifeInv
    <3>2. ASSUME Queued(Disconnect) PROVE \E k \in DOMAIN cleanups : cleanups[k].hub
      BY <3>2 DEF Queued, Disconnect, LifeInv, LifeTypes
    <3> QED
      BY <3>1, <3>2 DEF Hub!HubAlive
  <2>2. ASSUME NEW k \in DOMAIN cleanups, cleanups[k].what = "disconnect" PROVE object = "live"
    <3>1. k \in 1..Len(cleanups) /\ cleanups[k] \in {Disconnect, Hub!Release}
      BY DEF LifeInv, LifeTypes
    <3>2. cleanups[k] = Disconnect
      BY <2>2, <3>1, Tasks
    <3> QED
      BY <3>1, <3>2 DEF LifeInv, Queued
  <2> QED
    BY <2>1, <2>2 DEF Hub!CallbacksAreSafe
<1> QED
  BY <1>1, <1>2, <1>3, PTL DEF Hub!Spec

-----------------------------------------------------------------------------
(* What the instances take for granted of the constants. *)
HubInstance == Capacity \in Nat /\ MaxEvents \in Nat

(* What receiver r has heard of, taken or in its queue.                    *)
Heard(r) == Len(received[r]) + Len(events[r])
Item(r, i) == IF i <= Len(received[r]) THEN received[r][i] ELSE events[r][i - Len(received[r])]

(* The events published since it subscribed.                               *)
News(r) == Len(published) - hubSince[r]

(* The types of the hub. *)
HubTypes ==
    /\ subscriber \in [Receivers -> {"none", "listed", "dropped", "unlisted"}]
    /\ events \in [Receivers -> Seq(Hub!Events)]
    /\ received \in [Receivers -> Seq(Hub!Events)]
    /\ hubSince \in [Receivers -> Nat]
    /\ published \in Seq(Hub!Events) /\ sent \in 0..MaxEvents

(* Every event has a number of its own, given in order. *)
EventsGrow ==
    /\ \A i \in 1..Len(published) : published[i] <= sent
    /\ \A i, j \in 1..Len(published) : i < j => published[i] < published[j]

(* What a receiver has heard of is in the order of publication. *)
HeardGrows ==
    \A r \in Receivers : subscriber[r] = "listed" =>
        /\ \A i \in 1..Heard(r) : Item(r, i) <= sent
        /\ \A i, j \in 1..Heard(r) : i < j => Item(r, i) < Item(r, j)

(* Nothing is missed before there have been Capacity events.               *)
FirstAreHeard ==
    \A r \in Receivers :
        /\ subscriber[r] = "none" => received[r] = <<>> /\ events[r] = <<>>
        /\ hubSince[r] <= Len(published)
        /\ subscriber[r] = "listed" =>
              /\ News(r) <= Capacity => Heard(r) = News(r)
              /\ News(r) > Capacity => Heard(r) >= Capacity
              /\ \A i \in 1..Heard(r) : i <= Capacity => Item(r, i) = published[hubSince[r] + i]

(* The inductive invariant. *)
HubInv == HubTypes /\ EventsGrow /\ HeardGrows /\ FirstAreHeard

(* What a receiver has after an event, by the state it was in and the room *)
(* in its queue.                                                           *)
LEMMA HubPublish ==
    ASSUME NEW r \in Receivers, NEW e
    PROVE  /\ subscriber[r] = "listed" /\ Len(events[r]) < Capacity =>
                 Hub!PublishTo(r, e) = [state |-> "listed", queue |-> Append(events[r], e)]
           /\ subscriber[r] = "listed" /\ ~(Len(events[r]) < Capacity) =>
                 Hub!PublishTo(r, e) = [state |-> subscriber[r], queue |-> events[r]]
           /\ subscriber[r] = "dropped" =>
                 Hub!PublishTo(r, e) = [state |-> "unlisted", queue |-> <<>>]
           /\ subscriber[r] \notin {"listed", "dropped"} =>
                 Hub!PublishTo(r, e) = [state |-> subscriber[r], queue |-> events[r]]
<1>1. ASSUME subscriber[r] = "listed" /\ Len(events[r]) < Capacity
      PROVE  Hub!PublishTo(r, e) = [state |-> "listed", queue |-> Append(events[r], e)]
  BY <1>1, Zenon DEF Hub!PublishTo
<1>2. ASSUME subscriber[r] = "listed" /\ ~(Len(events[r]) < Capacity)
      PROVE  Hub!PublishTo(r, e) = [state |-> subscriber[r], queue |-> events[r]]
  BY <1>2, Zenon DEF Hub!PublishTo
<1>3. ASSUME subscriber[r] = "dropped"
      PROVE  Hub!PublishTo(r, e) = [state |-> "unlisted", queue |-> <<>>]
  BY <1>3, Zenon DEF Hub!PublishTo
<1>4. ASSUME subscriber[r] \notin {"listed", "dropped"}
      PROVE  Hub!PublishTo(r, e) = [state |-> subscriber[r], queue |-> events[r]]
  BY <1>4, Zenon DEF Hub!PublishTo
<1> QED
  BY <1>1, <1>2, <1>3, <1>4, Zenon

(* Moving the head of one sequence to the end of another keeps the order   *)
(* of what they have together.                                             *)
LEMMA MoveHead ==
    ASSUME NEW S, NEW p \in Seq(S), NEW q \in Seq(S), q # <<>>
    PROVE  /\ Append(p, Head(q)) \in Seq(S) /\ Tail(q) \in Seq(S)
           /\ Len(Append(p, Head(q))) + Len(Tail(q)) = Len(p) + Len(q)
           /\ \A i \in 1..(Len(p) + Len(q)) :
                 (IF i <= Len(Append(p, Head(q))) THEN Append(p, Head(q))[i]
                                                  ELSE Tail(q)[i - Len(Append(p, Head(q)))])
                 = (IF i <= Len(p) THEN p[i] ELSE q[i - Len(p)])
<1>1. PICK p2, q2 : p2 = Append(p, Head(q)) /\ q2 = Tail(q)
  BY Zenon
<1>2. /\ q2 \in Seq(S) /\ Len(q) \in Nat \ {0} /\ Len(q2) = Len(q) - 1
      /\ Head(q) = q[1] /\ Head(q) \in S
      /\ \A i \in 1..Len(q2) : q2[i] = q[i + 1]
  BY <1>1, HeadTailProperties
<1>3. /\ p2 \in Seq(S) /\ Len(p) \in Nat /\ Len(p2) = Len(p) + 1
      /\ \A i \in 1..Len(p) : p2[i] = p[i]
      /\ p2[Len(p) + 1] = q[1]
  BY <1>1, <1>2
<1>4. ASSUME NEW i \in 1..(Len(p) + Len(q))
      PROVE  (IF i <= Len(p2) THEN p2[i] ELSE q2[i - Len(p2)])
             = (IF i <= Len(p) THEN p[i] ELSE q[i - Len(p)])
  <2>1. CASE i <= Len(p)
    BY <1>3, <2>1
  <2>2. CASE i = Len(p) + 1
    BY <1>2, <1>3, <2>2
  <2>3. CASE i > Len(p) + 1
    <3>1. i - Len(p2) \in 1..Len(q2) /\ (i - Len(p2)) + 1 = i - Len(p)
      BY <1>2, <1>3, <2>3
    <3>2. q2[i - Len(p2)] = q[i - Len(p)]
      BY <1>2, <3>1, Zenon
    <3> QED
      BY <1>3, <2>3, <3>2
  <2> QED
    BY <1>3, <2>1, <2>2, <2>3
<1> QED
  BY <1>1, <1>2, <1>3, <1>4

(* Taking an event changes nothing of what a receiver has heard of.        *)
LEMMA HubReceive ==
    ASSUME HubTypes, NEW r \in Receivers, events[r] # <<>>,
           received' = [received EXCEPT ![r] = Append(@, Head(events[r]))],
           events' = [events EXCEPT ![r] = Tail(@)]
    PROVE  /\ events' \in [Receivers -> Seq(Hub!Events)]
           /\ received' \in [Receivers -> Seq(Hub!Events)]
           /\ \A v \in Receivers : Heard(v)' = Heard(v)
           /\ \A v \in Receivers : \A i \in 1..Heard(v) : Item(v, i)' = Item(v, i)
<1>1. /\ events[r] \in Seq(Hub!Events) /\ received[r] \in Seq(Hub!Events)
      /\ events'[r] = Tail(events[r]) /\ received'[r] = Append(received[r], Head(events[r]))
      /\ \A v \in Receivers : v # r => events'[v] = events[v] /\ received'[v] = received[v]
  BY DEF HubTypes
<1>2. /\ events'[r] \in Seq(Hub!Events) /\ received'[r] \in Seq(Hub!Events)
      /\ Heard(r)' = Heard(r)
      /\ \A i \in 1..Heard(r) : Item(r, i)' = Item(r, i)
  <2> DEFINE p == received[r]
             q == events[r]
  <2>1. p \in Seq(Hub!Events) /\ q \in Seq(Hub!Events) /\ q # <<>>
    BY <1>1
  <2>2. p' = Append(p, Head(q)) /\ q' = Tail(q)
    BY <1>1
  <2>3. /\ Heard(r) = Len(p) + Len(q) /\ Heard(r)' = Len(p') + Len(q')
        /\ \A i : Item(r, i) = IF i <= Len(p) THEN p[i] ELSE q[i - Len(p)]
        /\ \A i : Item(r, i)' = IF i <= Len(p') THEN p'[i] ELSE q'[i - Len(p')]
    BY Zenon DEF Heard, Item
  <2> HIDE DEF p, q
  <2>4. /\ Append(p, Head(q)) \in Seq(Hub!Events) /\ Tail(q) \in Seq(Hub!Events)
        /\ Len(Append(p, Head(q))) + Len(Tail(q)) = Len(p) + Len(q)
        /\ \A i \in 1..(Len(p) + Len(q)) :
              (IF i <= Len(Append(p, Head(q))) THEN Append(p, Head(q))[i]
                                               ELSE Tail(q)[i - Len(Append(p, Head(q)))])
              = (IF i <= Len(p) THEN p[i] ELSE q[i - Len(p)])
    BY <2>1, MoveHead, Zenon
  <2>5. p' \in Seq(Hub!Events) /\ q' \in Seq(Hub!Events) /\ Heard(r)' = Heard(r)
    BY <2>2, <2>3, <2>4, Zenon
  <2>6. ASSUME NEW i \in 1..Heard(r) PROVE Item(r, i)' = Item(r, i)
    BY <2>2, <2>3, <2>4, <2>6, Zenon
  <2> QED
    BY <2>5, <2>6, Zenon DEF p, q
<1>3. events' \in [Receivers -> Seq(Hub!Events)] /\ received' \in [Receivers -> Seq(Hub!Events)]
  BY <1>1, <1>2 DEF HubTypes
<1>4. ASSUME NEW v \in Receivers, v # r
      PROVE  Heard(v)' = Heard(v) /\ \A i \in 1..Heard(v) : Item(v, i)' = Item(v, i)
  <2>1. events'[v] = events[v] /\ received'[v] = received[v]
    BY <1>1, <1>4
  <2>2. Heard(v)' = Heard(v)
    BY <2>1, Zenon DEF Heard
  <2>3. ASSUME NEW i PROVE Item(v, i)' = Item(v, i)
    <3> DEFINE Ith(p, q) == IF i <= Len(p) THEN p[i] ELSE q[i - Len(p)]
    <3>1. Item(v, i) = Ith(received[v], events[v]) /\ Item(v, i)' = Ith(received'[v], events'[v])
      BY Zenon DEF Item
    <3> HIDE DEF Ith
    <3> QED
      BY <2>1, <3>1, Zenon
  <2> QED
    BY <2>2, <2>3
<1> QED
  BY <1>2, <1>3, <1>4, Zenon

(* An event is the last of what is published, and of what each listed      *)
(* receiver that is not full has heard of.                                 *)
LEMMA HubCallback ==
    ASSUME HubInstance, HubTypes, Hub!Callback(TRUE)
    PROVE  /\ sent' = sent + 1 /\ HubTypes'
           /\ Len(published') = Len(published) + 1 /\ published'[Len(published) + 1] = sent'
           /\ \A i \in 1..Len(published) : published'[i] = published[i]
           /\ UNCHANGED <<received, hubSince>>
           /\ \A r \in Receivers :
                 /\ subscriber'[r] = "none" => subscriber[r] = "none" /\ events'[r] = events[r]
                 /\ subscriber'[r] = "listed" => subscriber[r] = "listed"
                 /\ subscriber[r] = "listed" /\ ~(Len(events[r]) < Capacity) =>
                       events'[r] = events[r]
                 /\ subscriber[r] = "listed" /\ Len(events[r]) < Capacity =>
                       events'[r] = Append(events[r], sent')
<1>1. /\ sent < MaxEvents /\ sent' = sent + 1 /\ published' = Append(published, sent')
      /\ subscriber' = [r \in Receivers |-> Hub!PublishTo(r, sent').state]
      /\ events' = [r \in Receivers |-> Hub!PublishTo(r, sent').queue]
      /\ UNCHANGED <<received, hubSince>>
  BY DEF Hub!Callback
<1>2. sent' \in Hub!Events /\ sent' \in 0..MaxEvents
  BY <1>1 DEF HubInstance, HubTypes, Hub!Events
<1>3. ASSUME NEW r \in Receivers
      PROVE  /\ \/ /\ subscriber[r] = "listed" /\ Len(events[r]) < Capacity
                   /\ subscriber'[r] = "listed" /\ events'[r] = Append(events[r], sent')
                \/ /\ subscriber[r] = "listed" /\ ~(Len(events[r]) < Capacity)
                   /\ subscriber'[r] = subscriber[r] /\ events'[r] = events[r]
                \/ /\ subscriber[r] = "dropped"
                   /\ subscriber'[r] = "unlisted" /\ events'[r] = <<>>
                \/ /\ subscriber[r] \notin {"listed", "dropped"}
                   /\ subscriber'[r] = subscriber[r] /\ events'[r] = events[r]
             /\ events'[r] \in Seq(Hub!Events)
             /\ subscriber'[r] \in {"none", "listed", "dropped", "unlisted"}
  <2>1. /\ subscriber'[r] = Hub!PublishTo(r, sent').state
        /\ events'[r] = Hub!PublishTo(r, sent').queue
        /\ events[r] \in Seq(Hub!Events)
        /\ subscriber[r] \in {"none", "listed", "dropped", "unlisted"}
    BY <1>1 DEF HubTypes
  <2>2. CASE subscriber[r] = "listed" /\ Len(events[r]) < Capacity
    <3>1. subscriber'[r] = "listed" /\ events'[r] = Append(events[r], sent')
      BY <2>1, <2>2, HubPublish
    <3>2. events'[r] \in Seq(Hub!Events)
      BY <1>2, <2>1, <3>1
    <3> QED
      BY <2>1, <2>2, <3>1, <3>2
  <2>3. CASE subscriber[r] = "listed" /\ ~(Len(events[r]) < Capacity)
    BY <2>1, <2>3, HubPublish
  <2>4. CASE subscriber[r] = "dropped"
    <3>1. subscriber'[r] = "unlisted" /\ events'[r] = <<>>
      BY <2>1, <2>4, HubPublish
    <3> QED
      BY <2>1, <2>4, <3>1
  <2>5. CASE subscriber[r] \notin {"listed", "dropped"}
    BY <2>1, <2>5, HubPublish
  <2> QED
    BY <2>2, <2>3, <2>4, <2>5
<1>4. /\ subscriber' \in [Receivers -> {"none", "listed", "dropped", "unlisted"}]
      /\ events' \in [Receivers -> Seq(Hub!Events)]
  BY <1>1, <1>3
<1>5. HubTypes'
  BY <1>1, <1>2, <1>4 DEF HubTypes
<1>6. /\ Len(published') = Len(published) + 1 /\ published'[Len(published) + 1] = sent'
      /\ \A i \in 1..Len(published) : published'[i] = published[i]
  BY <1>1, <1>2 DEF HubTypes
<1> QED
  BY <1>1, <1>3, <1>5, <1>6

(* An event that is queued is the last that the receiver has heard of.     *)
LEMMA HubAppend ==
    ASSUME HubTypes, NEW r \in Receivers, NEW e \in Hub!Events,
           events'[r] = Append(events[r], e), UNCHANGED received
    PROVE  /\ Heard(r) \in Nat /\ Heard(r)' = Heard(r) + 1
           /\ \A i \in 1..Heard(r) : Item(r, i)' = Item(r, i)
           /\ \A i : i = Heard(r) + 1 => Item(r, i)' = e
<1> DEFINE p == received[r]
           q == events[r]
<1>1. p \in Seq(Hub!Events) /\ q \in Seq(Hub!Events) /\ p' = p /\ q' = Append(q, e)
  BY DEF HubTypes
<1>2. /\ Heard(r) = Len(p) + Len(q) /\ Heard(r)' = Len(p') + Len(q')
      /\ \A i : Item(r, i) = IF i <= Len(p) THEN p[i] ELSE q[i - Len(p)]
      /\ \A i : Item(r, i)' = IF i <= Len(p') THEN p'[i] ELSE q'[i - Len(p')]
  BY Zenon DEF Heard, Item
<1> HIDE DEF p, q
<1>3. PICK q2 : q2 = q'
  OBVIOUS
<1>4. /\ q2 \in Seq(Hub!Events) /\ Len(q2) = Len(q) + 1 /\ Len(q) \in Nat /\ Len(p) \in Nat
      /\ q2[Len(q) + 1] = e /\ \A i \in 1..Len(q) : q2[i] = q[i]
  BY <1>1, <1>3
<1>5. /\ Heard(r) = Len(p) + Len(q) /\ Heard(r)' = Len(p) + Len(q2)
      /\ \A i : Item(r, i)' = IF i <= Len(p) THEN p[i] ELSE q2[i - Len(p)]
  BY <1>1, <1>2, <1>3, Zenon
<1>6. ASSUME NEW i \in 1..Heard(r) PROVE Item(r, i)' = Item(r, i)
  <2>1. CASE i <= Len(p)
    BY <1>2, <1>5, <2>1
  <2>2. CASE ~(i <= Len(p))
    <3>1. i - Len(p) \in 1..Len(q)
      BY <1>4, <1>5, <1>6, <2>2
    <3> QED
      BY <1>2, <1>4, <1>5, <2>2, <3>1, Zenon
  <2> QED
    BY <2>1, <2>2
<1>7. ASSUME NEW i, i = Heard(r) + 1 PROVE Item(r, i)' = e
  <2>1. ~(i <= Len(p)) /\ i - Len(p) = Len(q) + 1
    BY <1>4, <1>5, <1>7
  <2> QED
    BY <1>4, <1>5, <2>1
<1> QED
  BY <1>4, <1>5, <1>6, <1>7

(* The events a receiver has heard of are those it has taken and those in  *)
(* its queue.                                                              *)
LEMMA HubItems ==
    ASSUME HubInstance, HubTypes, NEW r \in Receivers
    PROVE  Heard(r) \in Nat /\ \A i \in 1..Heard(r) : Item(r, i) \in Nat
<1> DEFINE p == received[r]
           q == events[r]
<1>1. p \in Seq(Hub!Events) /\ q \in Seq(Hub!Events)
  BY DEF HubTypes
<1>2. /\ Heard(r) = Len(p) + Len(q)
      /\ \A i : Item(r, i) = IF i <= Len(p) THEN p[i] ELSE q[i - Len(p)]
  BY Zenon DEF Heard, Item
<1> HIDE DEF p, q
<1>3. ASSUME NEW i \in 1..Heard(r) PROVE Item(r, i) \in Hub!Events
  <2>1. CASE i <= Len(p)
    BY <1>1, <1>2, <1>3, <2>1
  <2>2. CASE ~(i <= Len(p))
    <3>1. i - Len(p) \in 1..Len(q)
      BY <1>1, <1>2, <1>3, <2>2
    <3> QED
      BY <1>1, <1>2, <2>2, <3>1
  <2> QED
    BY <2>1, <2>2
<1> QED
  BY <1>1, <1>2, <1>3 DEF Hub!Events

(* The invariant is inductive. *)
LEMMA HubStep ==
    ASSUME HubInstance, HubInv, [Hub!Next]_Hub!vars
    PROVE  HubInv'
<1> USE DEF HubInstance, HubInv
<1>1. ASSUME UNCHANGED Hub!hubVars PROVE HubInv'
  <2>1. HubTypes' /\ EventsGrow'
    BY <1>1 DEF Hub!hubVars, HubTypes, EventsGrow
  <2>2. \A r : Heard(r)' = Heard(r) /\ News(r)' = News(r)
    BY <1>1 DEF Hub!hubVars, Heard, News
  <2>3. \A r, i : Item(r, i)' = Item(r, i)
    BY <1>1 DEF Hub!hubVars, Item
  <2> QED
    BY <1>1, <2>1, <2>2, <2>3 DEF Hub!hubVars, HeardGrows, FirstAreHeard
<1>2. ASSUME NEW r \in Receivers, Hub!Subscribe(r) PROVE HubInv'
  <2>1. /\ subscriber[r] = "none" /\ subscriber' = [subscriber EXCEPT ![r] = "listed"]
        /\ hubSince' = [hubSince EXCEPT ![r] = Len(published)]
        /\ UNCHANGED <<events, received, published, sent>>
    BY <1>2 DEF Hub!Subscribe
  <2>2. HubTypes' /\ EventsGrow'
    BY <2>1 DEF HubTypes, EventsGrow
  <2>3. \A v : Heard(v)' = Heard(v)
    BY <2>1 DEF Heard
  <2>4. \A v, i : Item(v, i)' = Item(v, i)
    BY <2>1 DEF Item
  <2>5. /\ Heard(r) = 0 /\ News(r)' = 0
        /\ \A v \in Receivers : v # r => News(v)' = News(v) /\ hubSince'[v] = hubSince[v]
                                              /\ subscriber'[v] = subscriber[v]
        /\ subscriber'[r] = "listed" /\ hubSince'[r] = Len(published) /\ Len(published) \in Nat
    BY <2>1 DEF HubTypes, FirstAreHeard, Heard, News
  <2>6. HeardGrows'
    BY <2>1, <2>3, <2>4, <2>5 DEF HeardGrows
  <2>7. FirstAreHeard'
    BY <2>1, <2>3, <2>4, <2>5 DEF FirstAreHeard
  <2> QED
    BY <2>2, <2>6, <2>7
<1>3. ASSUME NEW r \in Receivers, Hub!Receive(r) PROVE HubInv'
  <2>1. /\ subscriber[r] = "listed" /\ events[r] # <<>>
        /\ received' = [received EXCEPT ![r] = Append(@, Head(events[r]))]
        /\ events' = [events EXCEPT ![r] = Tail(@)]
        /\ UNCHANGED <<subscriber, hubSince, published, sent>>
    BY <1>3 DEF Hub!Receive
  <2>2. /\ events' \in [Receivers -> Seq(Hub!Events)]
        /\ received' \in [Receivers -> Seq(Hub!Events)]
        /\ \A v \in Receivers : Heard(v)' = Heard(v)
        /\ \A v \in Receivers : \A i \in 1..Heard(v) : Item(v, i)' = Item(v, i)
    BY <2>1, HubReceive, Zenon
  <2>3. UNCHANGED <<subscriber, hubSince, published, sent>> /\ subscriber[r] = "listed"
    BY <2>1
  <2>4. /\ \A v \in Receivers : News(v)' = News(v)
        /\ \A v \in Receivers : subscriber[v] = "none" => events'[v] = events[v] /\ received'[v] = received[v]
    BY <2>1 DEF News, HubTypes
  <2>5. HubTypes' /\ EventsGrow'
    BY <2>2, <2>3 DEF HubTypes, EventsGrow
  <2>6. HeardGrows'
    BY <2>2, <2>3 DEF HeardGrows
  <2>7. FirstAreHeard'
    BY <2>2, <2>3, <2>4, Zenon DEF FirstAreHeard
  <2> QED
    BY <2>5, <2>6, <2>7
<1>4. ASSUME NEW r \in Receivers, Hub!DropReceiver(r) PROVE HubInv'
  <2>1. /\ \A v \in Receivers : subscriber'[v] \in {"none", "listed"} => subscriber'[v] = subscriber[v]
        /\ UNCHANGED <<events, received, hubSince, published, sent>>
    BY <1>4 DEF Hub!DropReceiver, HubTypes
  <2>2. HubTypes' /\ EventsGrow'
    BY <1>4 DEF Hub!DropReceiver, HubTypes, EventsGrow
  <2>3. \A v : Heard(v)' = Heard(v) /\ News(v)' = News(v)
    BY <2>1 DEF Heard, News
  <2>4. \A v, i : Item(v, i)' = Item(v, i)
    BY <2>1 DEF Item
  <2> QED
    BY <2>1, <2>2, <2>3, <2>4 DEF HeardGrows, FirstAreHeard
<1>5. ASSUME Hub!Callback(FALSE) PROVE HubInv'
  <2>1. /\ sent' = sent + 1 /\ sent < MaxEvents
        /\ UNCHANGED <<published, subscriber, events, received, hubSince>>
    BY <1>5 DEF Hub!Callback
  <2>2. HubTypes' /\ EventsGrow'
    BY <2>1 DEF HubTypes, EventsGrow, Hub!Events
  <2>3. \A r : Heard(r)' = Heard(r) /\ News(r)' = News(r)
    BY <2>1 DEF Heard, News
  <2>4. \A r, i : Item(r, i)' = Item(r, i)
    BY <2>1 DEF Item
  <2> QED
    <3>1. HeardGrows'
      BY <2>1, <2>3, <2>4, HubItems DEF HeardGrows, HubTypes
    <3>2. FirstAreHeard'
      BY <2>1, <2>3, <2>4 DEF FirstAreHeard
    <3> QED
      BY <2>2, <3>1, <3>2
<1>6. ASSUME Hub!Callback(TRUE) PROVE HubInv'
  <2>1. /\ sent' = sent + 1 /\ HubTypes'
        /\ Len(published') = Len(published) + 1 /\ published'[Len(published) + 1] = sent'
        /\ \A i \in 1..Len(published) : published'[i] = published[i]
        /\ UNCHANGED <<received, hubSince>>
        /\ \A r \in Receivers :
              /\ subscriber'[r] = "none" => subscriber[r] = "none" /\ events'[r] = events[r]
              /\ subscriber'[r] = "listed" => subscriber[r] = "listed"
              /\ subscriber[r] = "listed" /\ ~(Len(events[r]) < Capacity) =>
                    events'[r] = events[r]
              /\ subscriber[r] = "listed" /\ Len(events[r]) < Capacity =>
                    events'[r] = Append(events[r], sent')
    BY <1>6, HubCallback
  <2>2. /\ Len(published) \in Nat /\ sent \in Nat /\ sent' \in Hub!Events
        /\ \A i \in 1..Len(published) : published[i] \in Nat
    BY <1>6, <2>1 DEF HubTypes, Hub!Events, Hub!Callback
  <2>3. EventsGrow'
    <3> DEFINE n == Len(published)
    <3>1. /\ n \in Nat /\ sent \in Nat /\ sent' = sent + 1
          /\ Len(published') = n + 1 /\ published'[n + 1] = sent + 1
          /\ \A i \in 1..n : published'[i] = published[i] /\ published'[i] \in Nat
      BY <2>1, <2>2
    <3>2. \A i \in 1..n : published'[i] <= sent
      BY <3>1 DEF EventsGrow
    <3>3. \A i, j \in 1..n : i < j => published'[i] < published'[j]
      BY <3>1 DEF EventsGrow
    <3>4. ASSUME NEW m \in Nat PROVE \A i \in 1..m + 1 : i \in 1..m \/ i = m + 1
      OBVIOUS
    <3> HIDE DEF n
    <3>5. \A i \in 1..n + 1 : published'[i] <= sent'
      BY <3>1, <3>2, <3>4
    <3>6. \A i, j \in 1..n + 1 : i < j => published'[i] < published'[j]
      BY <3>1, <3>2, <3>3, <3>4
    <3> QED
      BY <3>1, <3>5, <3>6 DEF EventsGrow
  <2>4. ASSUME NEW r \in Receivers, subscriber'[r] = "listed"
        PROVE  /\ Heard(r)' \in Nat /\ News(r)' = News(r) + 1 /\ News(r) \in Nat
               /\ hubSince'[r] = hubSince[r] /\ hubSince[r] \in Nat
               /\ Heard(r) >= Len(events[r]) /\ Len(events[r]) \in Nat
               /\ \/ /\ Heard(r)' = Heard(r) /\ Len(events[r]) >= Capacity
                     /\ \A i \in 1..Heard(r) : Item(r, i)' = Item(r, i)
                  \/ /\ Heard(r)' = Heard(r) + 1
                     /\ \A i \in 1..Heard(r) : Item(r, i)' = Item(r, i)
                     /\ \A i : i = Heard(r) + 1 => Item(r, i)' = sent'
    <3>1. /\ hubSince'[r] = hubSince[r] /\ hubSince[r] \in Nat /\ News(r)' = News(r) + 1
          /\ News(r) \in Nat
      <4>1. hubSince[r] \in Nat /\ hubSince[r] <= Len(published) /\ hubSince'[r] = hubSince[r]
        BY <2>1 DEF HubTypes, FirstAreHeard
      <4>2. News(r) = Len(published) - hubSince[r] /\ News(r)' = Len(published') - hubSince'[r]
        BY Zenon DEF News
      <4> QED
        BY <2>1, <2>2, <4>1, <4>2
    <3>2. Len(events[r]) \in Nat /\ Len(received[r]) \in Nat
      BY DEF HubTypes
    <3>3. Heard(r) >= Len(events[r]) /\ Heard(r) \in Nat
      <4>1. Heard(r) = Len(received[r]) + Len(events[r])
        BY Zenon DEF Heard
      <4>2. \A a, b \in Nat : a + b >= b /\ a + b \in Nat
        OBVIOUS
      <4> QED
        BY <3>2, <4>1, <4>2, Zenon
    <3>4. CASE Len(events[r]) < Capacity
      <4>1. events'[r] = Append(events[r], sent')
        BY <2>1, <2>4, <3>4
      <4> QED
        BY <2>1, <2>2, <3>1, <3>2, <3>3, <4>1, HubAppend
    <3>5. CASE ~(Len(events[r]) < Capacity)
      <4>1. events'[r] = events[r] /\ received' = received
        BY <2>1, <2>4, <3>5
      <4>2. Heard(r)' = Heard(r) /\ \A i : Item(r, i)' = Item(r, i)
        BY <4>1 DEF Heard, Item
      <4> QED
        BY <3>1, <3>2, <3>3, <3>5, <4>2
    <3> QED
      BY <3>4, <3>5, Zenon
  <2>5. HeardGrows'
    <3> SUFFICES ASSUME NEW r \in Receivers, subscriber'[r] = "listed"
                 PROVE  /\ \A i \in 1..Heard(r)' : Item(r, i)' <= sent'
                        /\ \A i, j \in 1..Heard(r)' : i < j => Item(r, i)' < Item(r, j)'
      BY DEF HeardGrows
    <3>1. /\ \A i \in 1..Heard(r) : Item(r, i) <= sent
          /\ \A i, j \in 1..Heard(r) : i < j => Item(r, i) < Item(r, j)
      BY <2>1 DEF HeardGrows
    <3>2. Heard(r) \in Nat /\ \A i \in 1..Heard(r) : Item(r, i) \in Nat
      BY HubItems
    <3>3. ASSUME NEW i \in 1..Heard(r)'
          PROVE  /\ Item(r, i)' <= sent'
                 /\ i \in 1..Heard(r) => Item(r, i)' = Item(r, i)
                 /\ i \notin 1..Heard(r) => i = Heard(r) + 1 /\ Item(r, i)' = sent'
      BY <2>1, <2>2, <2>4, <3>1, <3>2, <3>3
    <3>4. ASSUME NEW i \in 1..Heard(r)', NEW j \in 1..Heard(r)', i < j
          PROVE  Item(r, i)' < Item(r, j)'
      <4>1. i \in 1..Heard(r) /\ Item(r, i) \in Nat
        BY <2>4, <3>2, <3>3, <3>4
      <4>2. CASE j \in 1..Heard(r)
        BY <3>1, <3>3, <4>1, <4>2, <3>4
      <4>3. CASE j \notin 1..Heard(r)
        <5>1. Item(r, i)' = Item(r, i) /\ Item(r, j)' = sent' /\ Item(r, i) <= sent
          BY <3>1, <3>3, <4>1, <4>3
        <5> QED
          BY <2>1, <2>2, <4>1, <5>1
      <4> QED
        BY <4>2, <4>3
    <3> QED
      BY <3>3, <3>4
  <2>6. FirstAreHeard'
    <3> SUFFICES ASSUME NEW r \in Receivers
                 PROVE  /\ subscriber'[r] = "none" => received'[r] = <<>> /\ events'[r] = <<>>
                        /\ hubSince'[r] <= Len(published')
                        /\ subscriber'[r] = "listed" =>
                              /\ News(r)' <= Capacity => Heard(r)' = News(r)'
                              /\ News(r)' > Capacity => Heard(r)' >= Capacity
                              /\ \A i \in 1..Heard(r)' :
                                    i <= Capacity => Item(r, i)' = published'[hubSince'[r] + i]
      BY DEF FirstAreHeard
    <3>1. /\ subscriber'[r] = "none" => received'[r] = <<>> /\ events'[r] = <<>>
          /\ hubSince'[r] <= Len(published')
      BY <2>1, <2>2 DEF FirstAreHeard, HubTypes
    <3>2. ASSUME subscriber'[r] = "listed"
          PROVE  /\ News(r)' <= Capacity => Heard(r)' = News(r)'
                 /\ News(r)' > Capacity => Heard(r)' >= Capacity
                 /\ \A i \in 1..Heard(r)' :
                       i <= Capacity => Item(r, i)' = published'[hubSince'[r] + i]
      <4>1. /\ News(r) <= Capacity => Heard(r) = News(r)
            /\ News(r) > Capacity => Heard(r) >= Capacity
            /\ \A i \in 1..Heard(r) : i <= Capacity => Item(r, i) = published[hubSince[r] + i]
            /\ News(r) = Len(published) - hubSince[r]
        BY <2>1, <3>2 DEF FirstAreHeard, News
      <4>2. Heard(r) \in Nat
        BY HubItems
      <4>3. /\ News(r)' <= Capacity => Heard(r)' = News(r)'
            /\ News(r)' > Capacity => Heard(r)' >= Capacity
        BY <2>4, <3>2, <4>1, <4>2
      <4>4. ASSUME NEW i \in 1..Heard(r)', i <= Capacity
            PROVE  Item(r, i)' = published'[hubSince'[r] + i]
        <5>0. hubSince[r] \in Nat /\ Len(published) \in Nat /\ Capacity \in Nat /\ i \in Nat
          BY <2>2, <2>4, <3>2, <4>4 DEF HubInstance
        <5>1. CASE i \in 1..Heard(r)
          <6>1. hubSince[r] + i \in 1..Len(published)
            BY <4>1, <4>2, <4>4, <5>0, <5>1
          <6> QED
            BY <2>1, <2>4, <3>2, <4>1, <4>4, <5>1, <6>1, Zenon
        <5>2. CASE i \notin 1..Heard(r)
          <6>1. /\ i = Heard(r) + 1 /\ Item(r, i)' = sent'
                /\ hubSince'[r] + i = Len(published) + 1
            BY <2>2, <2>4, <3>2, <4>1, <4>2, <4>4, <5>0, <5>2
          <6> QED
            BY <2>1, <6>1
        <5> QED
          BY <5>1, <5>2
      <4> QED
        BY <4>3, <4>4
    <3> QED
      BY <3>1, <3>2
  <2> QED
    BY <2>1, <2>3, <2>5, <2>6
<1> QED
  BY <1>1, <1>2, <1>3, <1>4, <1>5, <1>6, Zenon DEF Hub!Next, Hub!vars, Hub!hubVars,
     Hub!NewRegistration, Hub!DropRegistration, Hub!DropHandle, Hub!RunCleanup, Hub!Panic,
     Hub!ShutDown, Hub!Exit

(* The invariant holds at the start. *)
LEMMA HubFirst ==
    ASSUME HubInstance, Hub!Init
    PROVE  HubInv
<1>1. /\ subscriber = [r \in Receivers |-> "none"]
      /\ events = [r \in Receivers |-> <<>>] /\ received = [r \in Receivers |-> <<>>]
      /\ hubSince = [r \in Receivers |-> 0] /\ published = <<>> /\ sent = 0
  BY DEF Hub!Init
<1>2. HubTypes
  BY <1>1 DEF HubTypes, HubInstance
<1> QED
  BY <1>1, <1>2 DEF HubInv, EventsGrow, HeardGrows, FirstAreHeard

(* A receiver misses none of the first Capacity events since it            *)
(* subscribed, and receives them in the order of their publication         *)
(* (SignalHub, broadcast in data/signals.rs).                              *)
THEOREM FirstEventsAlwaysArrive ==
    ASSUME HubInstance
    PROVE  Hub!Spec => []Hub!FirstEventsArrive
<1>1. Hub!Init => HubInv
  BY HubFirst
<1>2. HubInv /\ [Hub!Next]_Hub!vars => HubInv'
  BY HubStep
<1>3. HubInv => Hub!FirstEventsArrive
  <2> SUFFICES ASSUME HubInv, NEW r \in Receivers, subscriber[r] = "listed"
               PROVE  LET all == received[r] \o events[r]
                          later == SubSeq(published, hubSince[r] + 1, Len(published))
                          first == SubSeq(later, 1, IF Len(later) < Capacity THEN Len(later) ELSE Capacity)
                      IN  Hub!IsPrefix(first, all) /\ \A i, j \in DOMAIN all : i < j => all[i] < all[j]
    BY Zenon DEF Hub!FirstEventsArrive
  <2> DEFINE all == received[r] \o events[r]
             later == SubSeq(published, hubSince[r] + 1, Len(published))
             n == IF Len(later) < Capacity THEN Len(later) ELSE Capacity
             first == SubSeq(later, 1, n)
  <2>1. /\ received[r] \in Seq(Hub!Events) /\ events[r] \in Seq(Hub!Events)
        /\ published \in Seq(Hub!Events)
        /\ hubSince[r] \in Nat /\ hubSince[r] <= Len(published)
    BY DEF HubInv, HubTypes, FirstAreHeard
  <2>2. /\ all \in Seq(Hub!Events) /\ Len(all) = Heard(r)
        /\ \A i \in 1..Heard(r) : all[i] = Item(r, i)
    <3> DEFINE p == received[r]
               q == events[r]
    <3>1. /\ Heard(r) = Len(p) + Len(q) /\ all = p \o q
          /\ \A i : Item(r, i) = IF i <= Len(p) THEN p[i] ELSE q[i - Len(p)]
      BY Zenon DEF Heard, Item
    <3>2. p \in Seq(Hub!Events) /\ q \in Seq(Hub!Events)
      BY <2>1
    <3> HIDE DEF p, q, all
    <3>3. /\ p \o q \in Seq(Hub!Events) /\ Len(p \o q) = Len(p) + Len(q)
          /\ \A i \in 1..(Len(p) + Len(q)) :
                (p \o q)[i] = IF i <= Len(p) THEN p[i] ELSE q[i - Len(p)]
      BY <3>2, ConcatProperties
    <3> QED
      BY <3>1, <3>3
  <2>3. /\ later \in Seq(Hub!Events) /\ Len(later) = News(r)
        /\ \A i \in 1..News(r) : later[i] = published[hubSince[r] + i]
    <3> DEFINE m == hubSince[r] + 1
               l == Len(published)
    <3>1. m \in Int /\ l \in Int /\ \A i \in m..l : published[i] \in Hub!Events
      BY <2>1
    <3>2. /\ News(r) = l - hubSince[r] /\ m = hubSince[r] + 1 /\ hubSince[r] \in Nat
          /\ hubSince[r] <= l
      BY <2>1 DEF News
    <3> HIDE DEF m, l
    <3>3. /\ SubSeq(published, m, l) \in Seq(Hub!Events)
          /\ Len(SubSeq(published, m, l)) = IF m <= l THEN l - m + 1 ELSE 0
          /\ \A i \in 1..(l - m + 1) : SubSeq(published, m, l)[i] = published[m + i - 1]
      BY <3>1, SubSeqProperties
    <3>4. later = SubSeq(published, m, l)
      BY DEF m, l
    <3> HIDE DEF later
    <3> QED
      <4>1. Len(later) = News(r) /\ later \in Seq(Hub!Events) /\ l - m + 1 = News(r)
        BY <3>1, <3>2, <3>3, <3>4
      <4>2. ASSUME NEW i \in 1..News(r) PROVE later[i] = published[hubSince[r] + i]
        <5>1. m + i - 1 = hubSince[r] + i
          BY <3>2
        <5> QED
          BY <3>3, <3>4, <4>1, <5>1
      <4> QED
        BY <4>1, <4>2
  <2> HIDE DEF all, later
  <2>4. n \in 0..Len(later) /\ n <= Capacity
    BY <2>3 DEF HubInstance
  <2>5. n <= Len(all) /\ \A i \in 1..n : later[i] = all[i]
    <3>1. /\ News(r) <= Capacity => Heard(r) = News(r)
          /\ News(r) > Capacity => Heard(r) >= Capacity
          /\ \A i \in 1..Heard(r) : i <= Capacity => Item(r, i) = published[hubSince[r] + i]
      BY DEF HubInv, FirstAreHeard
    <3>2. n \in Nat /\ Heard(r) \in Nat /\ News(r) \in Nat
      BY <2>2, <2>3, <2>4
    <3>3. n <= Heard(r) /\ n <= News(r)
      BY <2>3, <2>4, <3>1, <3>2 DEF HubInstance
    <3> HIDE DEF n
    <3> QED
      BY <2>2, <2>3, <2>4, <3>1, <3>2, <3>3 DEF HubInstance
  <2>6. Hub!IsPrefix(first, all)
    <3> HIDE DEF n
    <3>1. /\ first \in Seq(Hub!Events) /\ Len(first) = n
          /\ \A i \in 1..n : first[i] = later[i]
      BY <2>3, <2>4, SubSeqProperties
    <3>2. /\ SubSeq(all, 1, n) \in Seq(Hub!Events) /\ Len(SubSeq(all, 1, n)) = n
          /\ \A i \in 1..n : SubSeq(all, 1, n)[i] = all[i]
      BY <2>2, <2>4, <2>5, SubSeqProperties
    <3>3. SubSeq(first, 1, Len(first)) = first
      BY <3>1, SubSeqFull
    <3>4. first = SubSeq(all, 1, n)
      <4> HIDE DEF first
      <4> QED
        BY <2>5, <3>1, <3>2, SeqEqual, Zenon
    <3> QED
      BY <2>5, <3>1, <3>3, <3>4 DEF Hub!IsPrefix
  <2>7. \A i, j \in DOMAIN all : i < j => all[i] < all[j]
    BY <2>2 DEF HubInv, HeardGrows
  <2> QED
    BY <2>6, <2>7, Zenon DEF all, later
<1> QED
  BY <1>1, <1>2, <1>3, PTL DEF Hub!Spec

(* libobs has the callback or not, and the program its handle. *)
LEMMA SwitchesStep ==
    ASSUME callback \in BOOLEAN, handle \in BOOLEAN, [Hub!Next]_Hub!vars
    PROVE  callback' \in BOOLEAN /\ handle' \in BOOLEAN
<1>1. ASSUME UNCHANGED <<callback, handle>> PROVE callback' \in BOOLEAN /\ handle' \in BOOLEAN
  BY <1>1, Zenon
<1>2. ASSUME NEW r \in Receivers, Hub!Subscribe(r) \/ Hub!Receive(r) \/ Hub!DropReceiver(r)
      PROVE  UNCHANGED <<callback, handle>>
  BY <1>2, Zenon DEF Hub!Subscribe, Hub!Receive, Hub!DropReceiver, Hub!lifeVars
<1>3. ASSUME NEW b \in BOOLEAN, Hub!Callback(b) PROVE UNCHANGED <<callback, handle>>
  BY <1>3, Zenon DEF Hub!Callback, Hub!lifeVars
<1>4. ASSUME NEW b \in BOOLEAN, Hub!NewRegistration(b)
      PROVE  callback' \in BOOLEAN /\ handle' \in BOOLEAN
  BY <1>4, Zenon DEF Hub!NewRegistration
<1>5. ASSUME Hub!DropRegistration \/ Hub!Panic \/ Hub!ShutDown \/ Hub!Exit
      PROVE  UNCHANGED <<callback, handle>>
  BY <1>5, Zenon DEF Hub!DropRegistration, Hub!Panic, Hub!ShutDown, Hub!Exit
<1>6. ASSUME Hub!DropHandle PROVE callback' \in BOOLEAN /\ handle' \in BOOLEAN
  BY <1>6, Zenon DEF Hub!DropHandle
<1>7. ASSUME Hub!RunCleanup PROVE callback' \in BOOLEAN /\ handle' \in BOOLEAN
  BY <1>7, Zenon DEF Hub!RunCleanup
<1>8. CASE UNCHANGED Hub!vars
  BY <1>8, <1>1, Zenon DEF Hub!vars
<1> QED
  BY <1>1, <1>2, <1>3, <1>4, <1>5, <1>6, <1>7, <1>8, Zenon DEF Hub!Next

(* The hub and the registration have their types: what is queued to be     *)
(* cleaned up is a disconnect or a release.                                *)
THEOREM HubTypeCorrect ==
    ASSUME HubInstance
    PROVE  Hub!Spec => []Hub!TypeOK
<1> DEFINE Switches == callback \in BOOLEAN /\ handle \in BOOLEAN
           Life == HubInv /\ LifeInv /\ Switches
<1>1. Hub!Init => Life
  <2>1. ASSUME Hub!Init PROVE callback = FALSE /\ handle = TRUE
    BY <2>1, Zenon DEF Hub!Init
  <2> QED
    BY <2>1, HubFirst, LifeFirst, Zenon
<1>2. Life /\ [Hub!Next]_Hub!vars => Life'
  BY HubStep, LifeStep, SwitchesStep, Zenon
<1>3. Life => Hub!TypeOK
  <2> SUFFICES ASSUME Life PROVE Hub!TypeOK
    OBVIOUS
  <2>1. callback \in BOOLEAN /\ handle \in BOOLEAN /\ LifeTypes /\ HubTypes
    BY Zenon DEF LifeInv, HubInv
  <2>2. cleanups \in Seq([what : {"disconnect", "release"}, lease : BOOLEAN, hub : BOOLEAN])
    <3> DEFINE Task == [what : {"disconnect", "release"}, lease : BOOLEAN, hub : BOOLEAN]
    <3>1. Disconnect \in Task /\ Hub!Release \in Task
      BY DEF Disconnect, Hub!Release
    <3>2. cleanups \in Seq({Disconnect, Hub!Release})
      BY <2>1, Zenon DEF LifeTypes
    <3> HIDE DEF Task
    <3>3. {Disconnect, Hub!Release} \subseteq Task
      BY <3>1, Zenon
    <3>4. cleanups \in Seq(Task)
      BY <3>2, <3>3, SeqMonotonic, Zenon
    <3> QED
      BY <3>4, Zenon DEF Task
  <2> QED
    BY <2>1, <2>2, Zenon DEF HubTypes, LifeTypes, Hub!TypeOK
<1> QED
  BY <1>1, <1>2, <1>3, PTL DEF Hub!Spec

-----------------------------------------------------------------------------
(* What the instances take for granted of the constants. *)
PreviewInstance ==
    /\ "display" \notin Sources /\ None \notin Sources /\ Idle \notin Preview!Targets
    /\ MaxHandles \in Nat \ {0, 1}

(* The task is queued. *)
DisplayQueues(task) == Preview!Contains(displayCleanups, task)

(* How far the display has been made, and what the window's thread has.    *)
DisplayIsMade ==
    /\ displayHandles > 0 => displayPc = "shown"
    /\ displayPc \in {"lease", "callback", "shown", "release"} => display # "none"
    /\ address => child /\ displayPc \in {"callback", "shown", "clear"} /\ display # "none"
    /\ window = "update" => address

(* A display is destroyed by its cleanup or when libobs is shut down, which *)
(* happens under a handle only after a panic.                              *)
DisplayStays ==
    /\ ~panicked /\ displayPc # "gone" => display # "destroyed"
    /\ panicked => displayActor # "running"
    /\ ~panicked => displayActor # "recovering" /\ (displayActor \in {"down", "exited"} => displayPc = "gone")
    /\ DisplayQueues("display") => displayPc = "gone" /\ display # "none"

(* libobs draws while the display is there and what the state retains.     *)
StateIsKept ==
    /\ drawCallback => /\ display = "live" /\ displayActor \in {"running", "recovering"}
                       /\ displayPc \in {"shown", "clear", "detach", "release"} \/ DisplayQueues("display")
    /\ drawn # Idle => drawCallback /\ drawn = previewed

(* What is held or shown is neither released nor queued to be. *)
SourcesAreKept ==
    \A s \in Sources :
        /\ s \in held \/ previewed = s => ~DisplayQueues(s)
        /\ (s \in held \/ previewed = s) /\ displayActor \in {"running", "recovering"} => previewObject[s] = "live"

(* What the displays rest on. *)
ObjectsAreKept == DisplayIsMade /\ DisplayStays /\ StateIsKept /\ SourcesAreKept

(* The inductive invariant. *)
PreviewInv == Preview!TypeOK /\ ObjectsAreKept

(* A deferred cleanup is queued behind the others, or lost with the actor. *)
LEMMA PreviewDefer ==
    ASSUME Preview!TypeOK, NEW task \in Sources \cup {"display"}, Preview!Defer(task)
    PROVE  /\ displayCleanups' \in Seq(Sources \cup {"display"})
           /\ \A x : x # task => (DisplayQueues(x)' <=> DisplayQueues(x))
           /\ displayActor # "exited" => DisplayQueues(task)'
           /\ displayActor = "exited" => displayCleanups' = displayCleanups
<1>1. CASE displayActor = "exited"
  BY <1>1 DEF Preview!Defer, Preview!TypeOK, DisplayQueues
<1>2. CASE displayActor # "exited"
  <2> DEFINE C == Sources \cup {"display"}
  <2> displayCleanups \in Seq(C) /\ displayCleanups' = Append(displayCleanups, task) /\ task \in C
    BY <1>2 DEF Preview!Defer, Preview!TypeOK
  <2> HIDE DEF C
  <2>1. /\ displayCleanups' \in Seq(C) /\ Len(displayCleanups') = Len(displayCleanups) + 1
        /\ Len(displayCleanups) \in Nat
        /\ displayCleanups'[Len(displayCleanups) + 1] = task
        /\ \A k \in 1..Len(displayCleanups) : displayCleanups'[k] = displayCleanups[k]
    OBVIOUS
  <2>2. ASSUME NEW x, x # task PROVE DisplayQueues(x)' <=> DisplayQueues(x)
    BY <2>2 DEF DisplayQueues, Preview!Contains
  <2>3. DisplayQueues(task)'
    BY DEF DisplayQueues, Preview!Contains
  <2> QED
    BY <1>2, <2>2, <2>3 DEF C
<1> QED
  BY <1>1, <1>2

(* The cleanup that is run is the oldest; only it leaves the queue. *)
LEMMA PreviewRun ==
    ASSUME Preview!TypeOK, displayCleanups # <<>>, displayCleanups' = Tail(displayCleanups)
    PROVE  /\ displayCleanups' \in Seq(Sources \cup {"display"})
           /\ Head(displayCleanups) \in Sources \cup {"display"}
           /\ DisplayQueues(Head(displayCleanups))
           /\ \A x : DisplayQueues(x)' => DisplayQueues(x)
           /\ \A x : DisplayQueues(x) /\ x # Head(displayCleanups) => DisplayQueues(x)'
<1> DEFINE C == Sources \cup {"display"}
<1> displayCleanups \in Seq(C)
  BY DEF Preview!TypeOK
<1> HIDE DEF C
<1>1. /\ Len(displayCleanups) \in Nat \ {0} /\ displayCleanups[1] = Head(displayCleanups)
      /\ Head(displayCleanups) \in C
      /\ displayCleanups' \in Seq(C) /\ Len(displayCleanups') = Len(displayCleanups) - 1
      /\ \A k \in 1..Len(displayCleanups') : displayCleanups'[k] = displayCleanups[k + 1]
  OBVIOUS
<1>2. DisplayQueues(Head(displayCleanups))
  BY DEF DisplayQueues, Preview!Contains
<1>3. ASSUME NEW x, DisplayQueues(x)' PROVE DisplayQueues(x)
  BY <1>3 DEF DisplayQueues, Preview!Contains
<1>4. ASSUME NEW x, DisplayQueues(x), x # Head(displayCleanups) PROVE DisplayQueues(x)'
  <2>1. PICK k \in 1..Len(displayCleanups) : displayCleanups[k] = x
    BY <1>4 DEF DisplayQueues, Preview!Contains
  <2>2. k - 1 \in 1..Len(displayCleanups') /\ displayCleanups'[k - 1] = x
    BY <1>4, <2>1
  <2> QED
    BY <2>2 DEF DisplayQueues, Preview!Contains
<1> QED
  BY <1>2, <1>3, <1>4 DEF C

(* The types are inductive. *)
LEMMA PreviewTypes ==
    ASSUME PreviewInstance, Preview!TypeOK, [Preview!Next]_Preview!vars
    PROVE  Preview!TypeOK'
<1> USE DEF PreviewInstance, Preview!windowVars, Preview!actorVars
<1>1. CASE Preview!NewWindow
  <2>1. userData' \in BOOLEAN
    BY <1>1, Zenon DEF Preview!NewWindow, Preview!TypeOK
  <2> QED
    BY <1>1, <2>1 DEF Preview!NewWindow, Preview!TypeOK
<1>2. CASE Preview!Create
  BY <1>2 DEF Preview!Create, Preview!TypeOK
<1>3. CASE Preview!Lease
  BY <1>3 DEF Preview!Lease, Preview!TypeOK
<1>4. CASE Preview!AddCallback
  <2>1. drawCallback' \in BOOLEAN
    BY <1>4, Zenon DEF Preview!AddCallback, Preview!TypeOK
  <2> QED
    BY <1>4, <2>1 DEF Preview!AddCallback, Preview!TypeOK
<1>5. CASE Preview!CloneHandle
  BY <1>5 DEF Preview!CloneHandle, Preview!TypeOK
<1>6. CASE Preview!DropHandle
  BY <1>6 DEF Preview!DropHandle, Preview!TypeOK
<1>7. CASE Preview!CloneTarget
  BY <1>7 DEF Preview!CloneTarget, Preview!TypeOK
<1>8. CASE Preview!ClearAddress
  <2>1. address' \in BOOLEAN
    BY <1>8, Zenon DEF Preview!ClearAddress
  <2> QED
    BY <1>8, <2>1 DEF Preview!ClearAddress, Preview!TypeOK
<1>9. CASE Preview!DetachWindow
  <2>1. userData' \in BOOLEAN
    BY <1>9, Zenon DEF Preview!DetachWindow
  <2> QED
    BY <1>9, <2>1 DEF Preview!DetachWindow, Preview!TypeOK
<1>10. CASE Preview!Draw
  BY <1>10 DEF Preview!Draw, Preview!TypeOK
<1>11. CASE Preview!Drawn
  BY <1>11 DEF Preview!Drawn, Preview!TypeOK
<1>12. CASE Preview!Message
  BY <1>12 DEF Preview!Message, Preview!TypeOK
<1>13. CASE Preview!Panic
  BY <1>13 DEF Preview!Panic, Preview!TypeOK
<1>14. ASSUME NEW t \in Preview!Targets, Preview!SetTarget(t) PROVE Preview!TypeOK'
  <2>1. displayCleanups' \in Seq(Sources \cup {"display"})
    BY <1>14, PreviewDefer DEF Preview!SetTarget, Preview!TypeOK
  <2> QED
    BY <1>14, <2>1 DEF Preview!SetTarget, Preview!TypeOK
<1>15. ASSUME NEW s \in Sources, Preview!DropSource(s) PROVE Preview!TypeOK'
  <2>1. displayCleanups' \in Seq(Sources \cup {"display"})
    BY <1>15, PreviewDefer DEF Preview!DropSource, Preview!TypeOK
  <2> QED
    BY <1>15, <2>1 DEF Preview!DropSource, Preview!TypeOK
<1>16. CASE Preview!ReleaseDisplay
  <2>1. displayCleanups' \in Seq(Sources \cup {"display"})
    BY <1>16, PreviewDefer DEF Preview!ReleaseDisplay
  <2> QED
    BY <1>16, <2>1 DEF Preview!ReleaseDisplay, Preview!TypeOK, Preview!Targets
<1>17. CASE Preview!RunCleanup
  <2>1. /\ displayCleanups' \in Seq(Sources \cup {"display"})
        /\ Head(displayCleanups) \in Sources \cup {"display"}
    BY <1>17, PreviewRun DEF Preview!RunCleanup
  <2>2. previewObject' \in [Sources -> {"live", "released"}]
    BY <1>17 DEF Preview!RunCleanup, Preview!TypeOK
  <2> QED
    <3>1. drawCallback' \in BOOLEAN
      BY <1>17, Zenon DEF Preview!RunCleanup, Preview!TypeOK
    <3>2. display' \in {"none", "live", "destroyed"} /\ previewed' \in Preview!Targets
      BY <1>17 DEF Preview!RunCleanup, Preview!TypeOK, Preview!Targets
    <3> QED
      BY <1>17, <3>1, <3>2 DEF Preview!RunCleanup, Preview!TypeOK
<1>18. CASE Preview!ShutDown
  BY <1>18, Zenon DEF Preview!ShutDown, Preview!TypeOK
<1>19. CASE Preview!Exit
  BY <1>19 DEF Preview!Exit, Preview!TypeOK, Preview!Targets
<1>20. CASE UNCHANGED Preview!vars
  BY <1>20 DEF Preview!vars, Preview!TypeOK
<1> QED
  BY <1>1, <1>2, <1>3, <1>4, <1>5, <1>6, <1>7, <1>8, <1>9, <1>10, <1>11, <1>12, <1>13,
     <1>14, <1>15, <1>16, <1>17, <1>18, <1>19, <1>20 DEF Preview!Next

(* The invariant is inductive. *)
LEMMA PreviewStep ==
    ASSUME PreviewInstance, PreviewInv, [Preview!Next]_Preview!vars
    PROVE  PreviewInv'
<1> USE DEF PreviewInstance, Preview!windowVars, Preview!actorVars
<1>0. Preview!TypeOK'
  BY PreviewTypes DEF PreviewInv
<1>1. ASSUME UNCHANGED displayCleanups, NEW x PROVE DisplayQueues(x)' <=> DisplayQueues(x)
  BY <1>1 DEF DisplayQueues
<1>2. ASSUME Preview!NewWindow PROVE ObjectsAreKept'
  BY <1>2, <1>1 DEF Preview!NewWindow, PreviewInv, DisplayIsMade, DisplayStays, StateIsKept,
     SourcesAreKept, ObjectsAreKept
<1>3. ASSUME Preview!Create PROVE ObjectsAreKept'
  BY <1>3, <1>1 DEF Preview!Create, PreviewInv, DisplayIsMade, DisplayStays, StateIsKept,
     SourcesAreKept, ObjectsAreKept
<1>4. ASSUME Preview!Lease PROVE ObjectsAreKept'
  BY <1>4, <1>1 DEF Preview!Lease, PreviewInv, DisplayIsMade, DisplayStays, StateIsKept,
     SourcesAreKept, ObjectsAreKept
<1>5. ASSUME Preview!AddCallback PROVE ObjectsAreKept'
  BY <1>5, <1>1 DEF Preview!AddCallback, PreviewInv, Preview!TypeOK, DisplayIsMade, DisplayStays,
     StateIsKept, SourcesAreKept, ObjectsAreKept
<1>6. ASSUME Preview!CloneHandle PROVE ObjectsAreKept'
  BY <1>6, <1>1 DEF Preview!CloneHandle, PreviewInv, DisplayIsMade, DisplayStays, StateIsKept,
     SourcesAreKept, ObjectsAreKept
<1>7. ASSUME Preview!DropHandle PROVE ObjectsAreKept'
  BY <1>7, <1>1 DEF Preview!DropHandle, PreviewInv, Preview!TypeOK, DisplayIsMade, DisplayStays,
     StateIsKept, SourcesAreKept, ObjectsAreKept
<1>8. ASSUME Preview!CloneTarget PROVE ObjectsAreKept'
  BY <1>8, <1>1 DEF Preview!CloneTarget, PreviewInv, DisplayIsMade, DisplayStays, StateIsKept,
     SourcesAreKept, ObjectsAreKept
<1>9. ASSUME Preview!ClearAddress PROVE ObjectsAreKept'
  BY <1>9, <1>1 DEF Preview!ClearAddress, PreviewInv, DisplayIsMade, DisplayStays, StateIsKept,
     SourcesAreKept, ObjectsAreKept
<1>10. ASSUME Preview!DetachWindow PROVE ObjectsAreKept'
  BY <1>10, <1>1 DEF Preview!DetachWindow, PreviewInv, DisplayIsMade, DisplayStays, StateIsKept,
     SourcesAreKept, ObjectsAreKept
<1>11. ASSUME Preview!Draw PROVE ObjectsAreKept'
  BY <1>11, <1>1 DEF Preview!Draw, PreviewInv, DisplayIsMade, DisplayStays, StateIsKept,
     SourcesAreKept, ObjectsAreKept
<1>12. ASSUME Preview!Drawn PROVE ObjectsAreKept'
  BY <1>12, <1>1 DEF Preview!Drawn, PreviewInv, DisplayIsMade, DisplayStays, StateIsKept,
     SourcesAreKept, ObjectsAreKept
<1>13. ASSUME Preview!Message PROVE ObjectsAreKept'
  BY <1>13, <1>1 DEF Preview!Message, PreviewInv, DisplayIsMade, DisplayStays, StateIsKept,
     SourcesAreKept, ObjectsAreKept
<1>14. ASSUME Preview!Panic PROVE ObjectsAreKept'
  BY <1>14, <1>1 DEF Preview!Panic, PreviewInv, DisplayIsMade, DisplayStays, StateIsKept,
     SourcesAreKept, ObjectsAreKept
<1>15. ASSUME Preview!ShutDown PROVE ObjectsAreKept'
  BY <1>15, <1>1 DEF Preview!ShutDown, PreviewInv, DisplayIsMade, DisplayStays, StateIsKept,
     SourcesAreKept, ObjectsAreKept
<1>16. ASSUME NEW t \in Preview!Targets, Preview!SetTarget(t) PROVE ObjectsAreKept'
  <2>0. /\ \A x : x # previewed => (DisplayQueues(x)' <=> DisplayQueues(x))
        /\ previewed \notin Sources \ (held \cup {t}) => \A x : DisplayQueues(x)' <=> DisplayQueues(x)
    <3>1. CASE previewed \in Sources \ (held \cup {t})
      BY <1>16, <3>1, PreviewDefer DEF Preview!SetTarget, PreviewInv
    <3>2. CASE previewed \notin Sources \ (held \cup {t})
      <4>1. UNCHANGED displayCleanups
        BY <1>16, <3>2 DEF Preview!SetTarget
      <4> QED
        BY <4>1, <1>1
    <3> QED
      BY <3>1, <3>2
  <2>5. /\ displayHandles > 0 /\ t \in held \cup {None} /\ drawn = Idle /\ previewed' = t
        /\ UNCHANGED <<displayPc, displayHandles, child, address, userData, window, display, drawCallback, drawn,
                       held, previewObject, displayActor, panicked>>
    BY <1>16 DEF Preview!SetTarget
  <2> QED
    BY <2>5, <2>0 DEF PreviewInv, DisplayIsMade, DisplayStays, StateIsKept, SourcesAreKept,
       ObjectsAreKept
<1>17. ASSUME NEW s \in Sources, Preview!DropSource(s) PROVE ObjectsAreKept'
  <2>0. /\ \A x : x # s => (DisplayQueues(x)' <=> DisplayQueues(x))
        /\ previewed = s => (DisplayQueues(s)' <=> DisplayQueues(s))
    <3>1. CASE previewed # s
      BY <1>17, <3>1, PreviewDefer DEF Preview!DropSource, PreviewInv
    <3>2. CASE previewed = s
      BY <1>17, <3>2, <1>1 DEF Preview!DropSource
    <3> QED
      BY <3>1, <3>2
  <2> QED
    BY <1>17, <2>0 DEF Preview!DropSource, PreviewInv, DisplayIsMade, DisplayStays, StateIsKept,
       SourcesAreKept, ObjectsAreKept
<1>18. ASSUME Preview!ReleaseDisplay PROVE ObjectsAreKept'
  <2>0. /\ \A x : x # "display" => (DisplayQueues(x)' <=> DisplayQueues(x))
        /\ displayActor # "exited" => DisplayQueues("display")'
    BY <1>18, PreviewDefer DEF Preview!ReleaseDisplay, PreviewInv
  <2>5. /\ displayPc = "release" /\ displayPc' = "gone"
        /\ previewed' = IF displayActor = "exited" THEN None ELSE previewed
        /\ UNCHANGED <<displayHandles, child, address, userData, window, display, drawCallback, drawn, held,
                       previewObject, displayActor, panicked>>
    BY <1>18 DEF Preview!ReleaseDisplay
  <2> QED
    BY <2>5, <2>0 DEF PreviewInv, DisplayIsMade, DisplayStays, StateIsKept, SourcesAreKept,
       ObjectsAreKept
<1>19. ASSUME Preview!RunCleanup PROVE ObjectsAreKept'
  <2>0. /\ Head(displayCleanups) \in Sources \cup {"display"}
        /\ DisplayQueues(Head(displayCleanups))
        /\ \A x : DisplayQueues(x)' => DisplayQueues(x)
        /\ \A x : DisplayQueues(x) /\ x # Head(displayCleanups) => DisplayQueues(x)'
    BY <1>19, PreviewRun DEF Preview!RunCleanup, PreviewInv
  <2> QED
    BY <1>19, <2>0 DEF Preview!RunCleanup, PreviewInv, Preview!TypeOK, DisplayIsMade, DisplayStays,
       StateIsKept, SourcesAreKept, ObjectsAreKept
<1>20. ASSUME Preview!Exit PROVE ObjectsAreKept'
  <2>0. ASSUME NEW x PROVE ~DisplayQueues(x)'
    BY <1>20 DEF Preview!Exit, DisplayQueues, Preview!Contains
  <2> QED
    BY <1>20, <2>0 DEF Preview!Exit, PreviewInv, DisplayIsMade, DisplayStays, StateIsKept,
       SourcesAreKept, ObjectsAreKept
<1>21. ASSUME UNCHANGED Preview!vars PROVE ObjectsAreKept'
  BY <1>21, <1>1 DEF Preview!vars, PreviewInv, ObjectsAreKept, DisplayIsMade, DisplayStays,
     StateIsKept, SourcesAreKept
<1> QED
  BY <1>0, <1>2, <1>3, <1>4, <1>5, <1>6, <1>7, <1>8, <1>9, <1>10, <1>11, <1>12, <1>13,
     <1>14, <1>15, <1>16, <1>17, <1>18, <1>19, <1>20, <1>21 DEF Preview!Next, PreviewInv

(* The invariant holds at the start. *)
LEMMA PreviewFirst ==
    ASSUME PreviewInstance, Preview!Init
    PROVE  PreviewInv
<1>1. Preview!TypeOK
  <2>1. /\ address \in BOOLEAN /\ userData \in BOOLEAN /\ drawCallback \in BOOLEAN
        /\ panicked \in BOOLEAN
    BY Zenon DEF Preview!Init
  <2>2. previewObject \in [Sources -> {"live", "released"}] /\ held \subseteq Sources
    BY DEF Preview!Init
  <2>3. child \in BOOLEAN /\ displayCleanups \in Seq(Sources \cup {"display"})
    BY DEF Preview!Init
  <2> QED
    BY <2>1 DEF Preview!Init, Preview!TypeOK, Preview!Targets, PreviewInstance
<1>2. ASSUME NEW x PROVE ~DisplayQueues(x)
  BY DEF Preview!Init, DisplayQueues, Preview!Contains
<1> QED
  BY <1>1, <1>2 DEF Preview!Init, PreviewInv, ObjectsAreKept, DisplayIsMade, DisplayStays,
     StateIsKept, SourcesAreKept

(* While libobs can draw a display its state and the display exist, what   *)
(* it draws is not released, and the thread of the window uses no display  *)
(* that is destroyed unless libobs panicked (display/mod.rs,               *)
(* windows/mod.rs).                                                        *)
THEOREM PreviewAlwaysSafe ==
    ASSUME PreviewInstance
    PROVE  Preview!Spec => []Preview!PreviewIsSafe
<1>1. Preview!Init => PreviewInv
  BY PreviewFirst
<1>2. PreviewInv /\ [Preview!Next]_Preview!vars => PreviewInv'
  BY PreviewStep
<1>3. PreviewInv => Preview!PreviewIsSafe
  BY DEF PreviewInstance, PreviewInv, ObjectsAreKept, DisplayIsMade, DisplayStays, StateIsKept,
     SourcesAreKept, Preview!PreviewIsSafe, Preview!StateIsAlive, DisplayQueues, Preview!TypeOK,
     Preview!Targets
<1> QED
  BY <1>1, <1>2, <1>3, PTL DEF Preview!Spec

(* The window, its display and the actor have their types. *)
THEOREM PreviewTypeCorrect ==
    ASSUME PreviewInstance
    PROVE  Preview!Spec => []Preview!TypeOK
<1>1. Preview!Init => PreviewInv
  BY PreviewFirst
<1>2. PreviewInv /\ [Preview!Next]_Preview!vars => PreviewInv'
  BY PreviewStep
<1>3. PreviewInv => Preview!TypeOK
  BY DEF PreviewInv
<1> QED
  BY <1>1, <1>2, <1>3, PTL DEF Preview!Spec

-----------------------------------------------------------------------------
(* Saves of the replay buffer *)

(* What the instances take for granted of the constants. *)
ReplayInstance == None \notin Callers /\ MaxSaves \in Nat

(* What a caller has between subscribing and returning: a signal in its    *)
(* subscription stands for a file that was finished since.                 *)
SignalsAreNew ==
    \A t \in Callers :
        /\ since[t] <= written
        /\ saved[t] => replayPc[t] \in {"save", "wait", "lastReplay"}
        /\ saved[t] \/ replayPc[t] = "lastReplay" => since[t] < written

(* The caller past the save lock is the one that has it. *)
Saving == {"query", "subscribe", "save", "wait", "lastReplay"}

SaveLockIsHeld == \A t \in Callers : replayPc[t] \in Saving <=> saveLock = t

(* As long as no deadline has passed libobs owes at most the one file that *)
(* the caller inside `wait` has asked for.                                 *)
InOrder ==
    ~timedOut =>
        /\ (\A t \in Callers : replayPc[t] # "wait") => written = requested
        /\ \A t \in Callers :
              /\ replayPc[t] = "save" => ~saved[t]
              /\ replayPc[t] \in {"wait", "lastReplay"} => request[t] = requested
              /\ replayPc[t] = "wait" => requested <= written + 1
              /\ replayPc[t] = "wait" /\ saved[t] => written = requested

(* The query goes on or returns; neither disturbs a type. *)
LEMMA QueryActiveTypes ==
    ASSUME ReplayInstance, Replay!TypeOK, NEW t \in Callers, Replay!QueryActive(t)
    PROVE  Replay!TypeOK'
<1>1. \/ Replay!Goto(t, "subscribe") /\ UNCHANGED <<saveLock, request, saved, since>>
      \/ Replay!Return(t)
  BY DEF Replay!QueryActive
<1>2. UNCHANGED <<path, buffering, requested, written, timedOut>>
  BY DEF Replay!QueryActive
<1>3. CASE Replay!Goto(t, "subscribe") /\ UNCHANGED <<saveLock, request, saved, since>>
  BY <1>2, <1>3 DEF Replay!TypeOK, Replay!Goto, ReplayInstance
<1>4. CASE Replay!Return(t)
  BY <1>2, <1>4 DEF Replay!TypeOK, Replay!Goto, Replay!Return, ReplayInstance
<1> QED
  BY <1>1, <1>3, <1>4

(* Every variable keeps its type; a request a caller counts on is one      *)
(* libobs was given.                                                       *)
THEOREM ReplayTypeCorrect ==
    ASSUME ReplayInstance
    PROVE  Replay!Spec => []Replay!TypeOK
<1>1. Replay!Init => Replay!TypeOK
  <2> SUFFICES ASSUME Replay!Init PROVE Replay!TypeOK
    OBVIOUS
  <2>1. buffering \in BOOLEAN /\ timedOut \in BOOLEAN
    BY Zenon DEF Replay!Init
  <2>2. /\ saveLock \in Callers \cup {None}
        /\ replayPc \in [Callers -> {"idle", "lock", "query", "subscribe", "save", "wait", "lastReplay"}]
        /\ saved \in [Callers -> BOOLEAN]
    BY DEF Replay!Init
  <2>3. /\ request \in [Callers -> 0..requested]
        /\ since \in [Callers -> 0..MaxSaves]
        /\ path \in [Callers -> 0..MaxSaves]
        /\ requested \in 0..MaxSaves
        /\ written \in 0..requested
    BY DEF Replay!Init, ReplayInstance
  <2> QED
    BY <2>1, <2>2, <2>3 DEF Replay!TypeOK
<1>2. Replay!TypeOK /\ [Replay!Next]_Replay!vars => Replay!TypeOK'
  <2> SUFFICES ASSUME Replay!TypeOK, [Replay!Next]_Replay!vars PROVE Replay!TypeOK'
    OBVIOUS
  <2> USE DEF Replay!TypeOK, Replay!Goto, Replay!Return, ReplayInstance
  <2>1. ASSUME NEW t \in Callers, Replay!Save(t) PROVE Replay!TypeOK'
    BY <2>1 DEF Replay!Save
  <2>2. ASSUME NEW t \in Callers, Replay!Step(t) PROVE Replay!TypeOK'
    <3>1. CASE Replay!LockSave(t)
      BY <3>1 DEF Replay!LockSave
    <3>2. CASE Replay!QueryActive(t)
      BY <3>2, QueryActiveTypes
    <3>3. CASE Replay!Subscribe(t)
      BY <3>3 DEF Replay!Subscribe
    <3>4. CASE Replay!CallSave(t)
      BY <3>4 DEF Replay!CallSave
    <3>5. CASE Replay!WaitSaved(t)
      BY <3>5 DEF Replay!WaitSaved
    <3>6. CASE Replay!CallLastReplay(t)
      BY <3>6 DEF Replay!CallLastReplay
    <3> QED
      BY <2>2, <3>1, <3>2, <3>3, <3>4, <3>5, <3>6 DEF Replay!Step
  <2>3. ASSUME NEW t \in Callers, Replay!Deadline(t) PROVE Replay!TypeOK'
    BY <2>3 DEF Replay!Deadline
  <2>4. ASSUME NEW t \in Callers, Replay!CallFails(t) PROVE Replay!TypeOK'
    BY <2>4 DEF Replay!CallFails
  <2>5. CASE Replay!NativeSaved
    BY <2>5 DEF Replay!NativeSaved
  <2>6. CASE Replay!NativeToggle
    BY <2>6 DEF Replay!NativeToggle
  <2>7. CASE UNCHANGED Replay!vars
    BY <2>7 DEF Replay!vars
  <2> QED
    BY <2>1, <2>2, <2>3, <2>4, <2>5, <2>6, <2>7 DEF Replay!Next
<1> QED
  BY <1>1, <1>2, PTL DEF Replay!Spec

-----------------------------------------------------------------------------
(* A signal that a caller has received is of a file finished since it      *)
(* subscribed, whichever deadlines have passed.                            *)
THEOREM SignalsAlwaysNew ==
    ASSUME ReplayInstance
    PROVE  Replay!Spec => []SignalsAreNew
<1>1. Replay!Init => SignalsAreNew
  BY DEF Replay!Init, SignalsAreNew
<1>2. Replay!TypeOK /\ SignalsAreNew /\ [Replay!Next]_Replay!vars => SignalsAreNew'
  <2> SUFFICES ASSUME Replay!TypeOK, SignalsAreNew, [Replay!Next]_Replay!vars PROVE SignalsAreNew'
    OBVIOUS
  <2> USE DEF Replay!TypeOK, SignalsAreNew, Replay!Goto, Replay!Return, ReplayInstance
  <2>1. ASSUME NEW t \in Callers, Replay!Save(t) PROVE SignalsAreNew'
    BY <2>1 DEF Replay!Save
  <2>2. ASSUME NEW t \in Callers, Replay!Step(t) PROVE SignalsAreNew'
    <3>1. CASE Replay!LockSave(t)
      BY <3>1 DEF Replay!LockSave
    <3>2. CASE Replay!QueryActive(t)
      BY <3>2 DEF Replay!QueryActive
    <3>3. CASE Replay!Subscribe(t)
      BY <3>3 DEF Replay!Subscribe
    <3>4. CASE Replay!CallSave(t)
      BY <3>4 DEF Replay!CallSave
    <3>5. CASE Replay!WaitSaved(t)
      BY <3>5 DEF Replay!WaitSaved
    <3>6. CASE Replay!CallLastReplay(t)
      BY <3>6 DEF Replay!CallLastReplay
    <3> QED
      BY <2>2, <3>1, <3>2, <3>3, <3>4, <3>5, <3>6 DEF Replay!Step
  <2>3. ASSUME NEW t \in Callers, Replay!Deadline(t) \/ Replay!CallFails(t) PROVE SignalsAreNew'
    BY <2>3 DEF Replay!Deadline, Replay!CallFails
  <2>4. CASE Replay!NativeSaved
    BY <2>4 DEF Replay!NativeSaved
  <2>5. CASE Replay!NativeToggle \/ UNCHANGED Replay!vars
    BY <2>5 DEF Replay!NativeToggle, Replay!vars
  <2> QED
    BY <2>1, <2>2, <2>3, <2>4, <2>5 DEF Replay!Next
<1> QED
  BY <1>1, <1>2, ReplayTypeCorrect, PTL DEF Replay!Spec

(* Only get_last_replay sets the path of a successful save. *)
LEMMA PathIsLastReplay ==
    ASSUME ReplayInstance, Replay!TypeOK, [Replay!Next]_Replay!vars, NEW t \in Callers, path'[t] \notin {0, path[t]}
    PROVE  replayPc[t] = "lastReplay" /\ path'[t] = written
<1> USE DEF Replay!TypeOK
<1>1. ASSUME NEW u \in Callers, Replay!CallLastReplay(u)
      PROVE  replayPc[t] = "lastReplay" /\ path'[t] = written
  BY <1>1 DEF Replay!CallLastReplay
<1>2. ASSUME NEW u \in Callers, Replay!Save(u) PROVE FALSE
  BY <1>2 DEF Replay!Save
<1>3. ASSUME NEW u \in Callers,
             \/ Replay!LockSave(u) \/ Replay!QueryActive(u) \/ Replay!Subscribe(u) \/ Replay!CallSave(u) \/ Replay!WaitSaved(u)
             \/ Replay!Deadline(u) \/ Replay!CallFails(u)
      PROVE  FALSE
  BY <1>3 DEF Replay!LockSave, Replay!QueryActive, Replay!Subscribe, Replay!CallSave,
     Replay!WaitSaved, Replay!Deadline, Replay!CallFails
<1>4. CASE Replay!NativeSaved \/ Replay!NativeToggle \/ UNCHANGED Replay!vars
  BY <1>4 DEF Replay!NativeSaved, Replay!NativeToggle, Replay!vars
<1> QED
  BY <1>1, <1>2, <1>3, <1>4 DEF Replay!Next, Replay!Step

(* A successful save returns a file finished after the call subscribed.    *)
THEOREM PathAlwaysNew ==
    ASSUME ReplayInstance
    PROVE  Replay!Spec => Replay!PathIsNew
<1>1. /\ Replay!TypeOK /\ SignalsAreNew /\ [Replay!Next]_Replay!vars
      => [\A t \in Callers : path'[t] \notin {0, path[t]} => path'[t] > since[t]]_Replay!vars
  BY PathIsLastReplay DEF SignalsAreNew, Replay!TypeOK, ReplayInstance
<1> QED
  BY <1>1, ReplayTypeCorrect, SignalsAlwaysNew, PTL DEF Replay!Spec, Replay!PathIsNew

-----------------------------------------------------------------------------
(* The save lock serializes everything after it. *)
THEOREM SaveLockAlwaysHeld ==
    ASSUME ReplayInstance
    PROVE  Replay!Spec => []SaveLockIsHeld
<1>1. Replay!Init => SaveLockIsHeld
  BY DEF Replay!Init, SaveLockIsHeld, Saving, ReplayInstance
<1>2. Replay!TypeOK /\ SaveLockIsHeld /\ [Replay!Next]_Replay!vars => SaveLockIsHeld'
  <2> SUFFICES ASSUME Replay!TypeOK, SaveLockIsHeld, [Replay!Next]_Replay!vars PROVE SaveLockIsHeld'
    OBVIOUS
  <2> USE DEF Replay!TypeOK, SaveLockIsHeld, Saving, Replay!Goto, Replay!Return, ReplayInstance
  <2>1. ASSUME NEW t \in Callers, Replay!Save(t) PROVE SaveLockIsHeld'
    BY <2>1 DEF Replay!Save
  <2>2. ASSUME NEW t \in Callers, Replay!Step(t) PROVE SaveLockIsHeld'
    BY <2>2 DEF Replay!Step, Replay!LockSave, Replay!QueryActive, Replay!Subscribe,
       Replay!CallSave, Replay!WaitSaved, Replay!CallLastReplay
  <2>3. ASSUME NEW t \in Callers, Replay!Deadline(t) \/ Replay!CallFails(t) PROVE SaveLockIsHeld'
    BY <2>3 DEF Replay!Deadline, Replay!CallFails
  <2>4. CASE Replay!NativeSaved \/ Replay!NativeToggle \/ UNCHANGED Replay!vars
    BY <2>4 DEF Replay!NativeSaved, Replay!NativeToggle, Replay!vars
  <2> QED
    BY <2>1, <2>2, <2>3, <2>4 DEF Replay!Next
<1> QED
  BY <1>1, <1>2, ReplayTypeCorrect, PTL DEF Replay!Spec

(* Without a timeout libobs owes no file but that of the caller waiting.   *)
THEOREM AlwaysInOrder ==
    ASSUME ReplayInstance
    PROVE  Replay!Spec => []InOrder
<1>1. Replay!Init => InOrder
  BY DEF Replay!Init, InOrder
<1>2. Replay!TypeOK /\ SaveLockIsHeld /\ SignalsAreNew /\ InOrder /\ [Replay!Next]_Replay!vars
      => InOrder'
  <2> SUFFICES ASSUME Replay!TypeOK, SaveLockIsHeld, SignalsAreNew, InOrder, [Replay!Next]_Replay!vars
               PROVE  InOrder'
    OBVIOUS
  <2> USE DEF ReplayInstance, Replay!TypeOK, SaveLockIsHeld, Saving, SignalsAreNew, InOrder, Replay!Goto, Replay!Return
  <2>1. ASSUME NEW t \in Callers, Replay!Save(t) PROVE InOrder'
    BY <2>1 DEF Replay!Save
  <2>2. ASSUME NEW t \in Callers, Replay!Step(t) PROVE InOrder'
    <3>1. CASE Replay!LockSave(t)
      BY <3>1 DEF Replay!LockSave
    <3>2. CASE Replay!QueryActive(t)
      BY <3>2 DEF Replay!QueryActive
    <3>3. CASE Replay!Subscribe(t)
      BY <3>3 DEF Replay!Subscribe
    <3>4. CASE Replay!CallSave(t)
      BY <3>4 DEF Replay!CallSave
    <3>5. CASE Replay!WaitSaved(t)
      BY <3>5 DEF Replay!WaitSaved
    <3>6. CASE Replay!CallLastReplay(t)
      BY <3>6 DEF Replay!CallLastReplay
    <3> QED
      BY <2>2, <3>1, <3>2, <3>3, <3>4, <3>5, <3>6 DEF Replay!Step
  <2>3. ASSUME NEW t \in Callers, Replay!Deadline(t) PROVE InOrder'
    BY <2>3 DEF Replay!Deadline
  <2>4. ASSUME NEW t \in Callers, Replay!CallFails(t) PROVE InOrder'
    BY <2>4 DEF Replay!CallFails
  <2>5. CASE Replay!NativeSaved
    <3> SUFFICES ASSUME ~timedOut PROVE InOrder'
      BY <2>5 DEF Replay!NativeSaved
    <3>1. PICK r \in (written + 1)..requested : written' = r
      BY <2>5 DEF Replay!NativeSaved
    <3>2. PICK w \in Callers : replayPc[w] = "wait"
      BY <3>1
    <3>3. \A t \in Callers \ {w} : replayPc[t] \notin Saving
      BY <3>2
    <3>4. written' = requested
      BY <3>1, <3>2
    <3> QED
      BY <2>5, <3>2, <3>3, <3>4 DEF Replay!NativeSaved
  <2>6. CASE Replay!NativeToggle \/ UNCHANGED Replay!vars
    BY <2>6 DEF Replay!NativeToggle, Replay!vars
  <2> QED
    BY <2>1, <2>2, <2>3, <2>4, <2>5, <2>6 DEF Replay!Next
<1> QED
  BY <1>1, <1>2, ReplayTypeCorrect, SaveLockAlwaysHeld, SignalsAlwaysNew, PTL DEF Replay!Spec

(* As long as no deadline has passed a successful save returns the file of *)
(* its own request.                                                        *)
THEOREM PathOfTheRequest ==
    ASSUME ReplayInstance
    PROVE  Replay!Spec => Replay!PathIsOfTheRequest
<1>1. /\ Replay!TypeOK /\ SaveLockIsHeld /\ InOrder /\ [Replay!Next]_Replay!vars
      => [\A t \in Callers :
            ~timedOut /\ path'[t] \notin {0, path[t]} => path'[t] = request[t]]_Replay!vars
  <2> SUFFICES ASSUME Replay!TypeOK, SaveLockIsHeld, InOrder, [Replay!Next]_Replay!vars,
                      NEW t \in Callers, ~timedOut, path'[t] \notin {0, path[t]}
               PROVE  path'[t] = request[t]
    OBVIOUS
  <2>1. replayPc[t] = "lastReplay" /\ path'[t] = written
    BY PathIsLastReplay
  <2>2. \A u \in Callers : replayPc[u] # "wait"
    BY <2>1 DEF SaveLockIsHeld, Saving
  <2> QED
    BY <2>1, <2>2 DEF InOrder
<1> QED
  BY <1>1, ReplayTypeCorrect, SaveLockAlwaysHeld, AlwaysInOrder, PTL DEF Replay!Spec,
     Replay!PathIsOfTheRequest

(* The path of a successful save is right, as the run objects checks it.   *)
THEOREM SavedPathsAreRight ==
    ASSUME ReplayInstance
    PROVE  Replay!Spec => Replay!SavedPathIsRight
BY PathOfTheRequest, PathAlwaysNew DEF Replay!SavedPathIsRight

-----------------------------------------------------------------------------
(* What the instances take for granted of the constants. *)
FiltersInstance == None \notin Threads /\ None \notin Attachable /\ MaxGuards \in Nat

(* Filter f is queued to be removed. *)
Removals(f) == \E k \in 1..Len(removals) : removals[k] = f

(* The pairs that retain their filters: those of the owner and of the      *)
(* clones.                                                                 *)
Retained == attached \cup clones

(* A filter is added under the lock, by a program that has the owner.      *)
AddsAreExclusive ==
    \A t \in Threads : adding[t] # None => attachedLock = t /\ ownerHandle /\ guards < MaxGuards

(* Only a source gives pairs away, and it keeps them to the end.           *)
PairsAreShared ==
    /\ owner = "scene" => clones = {}
    /\ owner = "source" /\ ownerHandle => clones \subseteq attached /\ removals = <<>>
    /\ IsFiniteSet(attached) /\ IsFiniteSet(clones)

(* A source has a filter once, and no call is about to add it again.       *)
FiltersAreOnce ==
    owner = "source" =>
        /\ \A p, q \in Retained : p.filter = q.filter => p = q
        /\ \A t \in Threads, p \in Retained : adding[t] # p.filter

(* Filters are retained or queued to be removed and never both, and        *)
(* without the queued ones libobs has those that are retained.             *)
NativeIsRetained ==
    owner = "source" \/ ~ReAdd =>
        /\ \A p \in Retained : ~Removals(p.filter) /\ p.filter \in sourceFilters
        /\ \A t \in Threads : ~Removals(adding[t])
        /\ \A f \in sourceFilters : Removals(f) \/ \E p \in Retained : p.filter = f

(* The inductive invariant. *)
FiltersInv ==
    /\ Filters!TypeOK /\ AddsAreExclusive /\ PairsAreShared /\ FiltersAreOnce
    /\ NativeIsRetained

(* What the standard operators are inside the instance. *)
LEMMA FiltersCardinality == ASSUME NEW S PROVE Filters!Cardinality(S) = Cardinality(S)
BY DEF Filters!Cardinality, Cardinality

LEMMA FiltersBijection == ASSUME NEW S, NEW T PROVE Filters!Bijection(S, T) = Bijection(S, T)
BY DEF Filters!Bijection, Filters!Injection, Filters!Surjection, Filters!IsInjective, Bijection,
   Injection, Surjection, IsInjective

LEMMA FiltersRange == ASSUME NEW f PROVE Filters!Range(f) = Range(f)
BY DEF Filters!Range, Range

(* Dropping pairs queues the removal of every filter whose pair nothing    *)
(* else keeps, and of no other.                                            *)
LEMMA FiltersDrop ==
    ASSUME Filters!TypeOK, NEW pairs \in SUBSET Filters!Pairs, NEW kept \in SUBSET Filters!Pairs,
           IsFiniteSet(pairs), Filters!DropPairs(pairs, kept)
    PROVE  /\ removals' \in Seq(Attachable)
           /\ \A f : Removals(f)' <=> Removals(f) \/ \E p \in pairs \ kept : p.filter = f
           /\ pairs \subseteq kept => removals' = removals
<1> DEFINE D == pairs \ kept
           n == Cardinality(D)
<1>1. PICK order \in Bijection(1..n, D) :
          removals' = removals \o [k \in DOMAIN order |-> order[k].filter]
  <2>1. PICK order \in Filters!Bijection(1..Filters!Cardinality(D), D) :
            removals' = removals \o [k \in DOMAIN order |-> order[k].filter]
    BY Zenon DEF Filters!DropPairs
  <2> QED
    BY <2>1, FiltersBijection, FiltersCardinality, Zenon
<1>2. order \in [1..n -> D] /\ \A p \in D : \E k \in 1..n : order[k] = p
  BY <1>1, Zenon DEF Bijection, Injection, Surjection
<1>3. n \in Nat
  <2>1. IsFiniteSet(D)
    BY FS_Subset
  <2> QED
    BY <2>1, FS_CardinalityType
<1>4. D \subseteq Filters!Pairs
  OBVIOUS
<1> HIDE DEF n, D
<1> DEFINE taken == [k \in 1..n |-> order[k].filter]
<1>5. /\ taken \in Seq(Attachable) /\ Len(taken) = n /\ removals' = removals \o taken
      /\ \A k \in 1..n : order[k] \in D /\ taken[k] = order[k].filter
  <2>1. \A k \in 1..n : order[k].filter \in Attachable /\ order[k] \in D
    BY <1>2, <1>3, <1>4 DEF Filters!Pairs
  <2>2. taken \in [1..n -> Attachable]
    BY <2>1
  <2>3. taken \in Seq(Attachable) /\ Len(taken) = n
    BY <1>3, <2>2
  <2>4. DOMAIN order = 1..n
    BY <1>2
  <2> QED
    BY <1>1, <2>1, <2>3, <2>4, Zenon
<1> HIDE DEF taken
<1>6. /\ removals' \in Seq(Attachable) /\ Len(removals') = Len(removals) + n
      /\ Len(removals) \in Nat
      /\ \A k \in 1..Len(removals) : removals'[k] = removals[k]
      /\ \A k \in 1..n : removals'[Len(removals) + k] = taken[k]
  <2>1. removals \in Seq(Attachable)
    BY DEF Filters!TypeOK
  <2>2. /\ removals' \in Seq(Attachable) /\ Len(removals') = Len(removals) + n
        /\ Len(removals) \in Nat
    BY <1>5, <2>1
  <2>3. ASSUME NEW k \in 1..Len(removals) PROVE removals'[k] = removals[k]
    BY <1>3, <1>5, <2>1, <2>2
  <2>4. ASSUME NEW k \in 1..n PROVE removals'[Len(removals) + k] = taken[k]
    BY <1>3, <1>5, <2>1, <2>2
  <2> QED
    BY <2>2, <2>3, <2>4
<1>7. ASSUME NEW f
      PROVE  Removals(f)' <=> Removals(f) \/ \E p \in D : p.filter = f
  <2>1. ASSUME Removals(f)' PROVE Removals(f) \/ \E p \in D : p.filter = f
    <3>1. PICK k \in 1..(Len(removals) + n) : removals'[k] = f
      BY <1>6, <2>1 DEF Removals
    <3>2. CASE k \in 1..Len(removals)
      BY <1>6, <3>1, <3>2 DEF Removals
    <3>3. CASE k \notin 1..Len(removals)
      <4>1. k - Len(removals) \in 1..n /\ removals'[Len(removals) + (k - Len(removals))] = f
        BY <1>3, <1>6, <3>1, <3>3
      <4> QED
        BY <1>5, <1>6, <4>1, Zenon
    <3> QED
      BY <3>2, <3>3
  <2>2. ASSUME Removals(f) PROVE Removals(f)'
    BY <1>3, <1>6, <2>2 DEF Removals
  <2>3. ASSUME NEW p \in D, p.filter = f PROVE Removals(f)'
    <3>1. PICK k \in 1..n : order[k] = p
      BY <1>2 DEF n, D
    <3>2. Len(removals) + k \in 1..Len(removals') /\ removals'[Len(removals) + k] = f
      BY <1>3, <1>5, <1>6, <2>3, <3>1
    <3> QED
      BY <3>2 DEF Removals
  <2> QED
    BY <2>1, <2>2, <2>3
<1>8. ASSUME pairs \subseteq kept PROVE removals' = removals
  <2>1. n = 0
    BY <1>8, FS_EmptySet, Zenon DEF D, n
  <2> QED
    BY <1>5, <2>1, ConcatEqualIffEmpty DEF Filters!TypeOK
<1> QED
  BY <1>6, <1>7, <1>8 DEF D

(* The removal that is run is the oldest; only it leaves the queue. *)
LEMMA FiltersRun ==
    ASSUME Filters!TypeOK, removals # <<>>, removals' = Tail(removals)
    PROVE  /\ removals' \in Seq(Attachable)
           /\ \A f : Removals(f)' => Removals(f)
           /\ \A f : Removals(f) /\ f # Head(removals) => Removals(f)'
           /\ Removals(Head(removals))
<1>1. /\ Len(removals) \in Nat \ {0} /\ removals[1] = Head(removals)
      /\ removals' \in Seq(Attachable) /\ Len(removals') = Len(removals) - 1
      /\ \A k \in 1..Len(removals') : removals'[k] = removals[k + 1]
  <2>1. removals \in Seq(Attachable)
    BY DEF Filters!TypeOK
  <2> QED
    BY <2>1
<1>2. Removals(Head(removals))
  BY <1>1 DEF Removals
<1>3. ASSUME NEW f, Removals(f)' PROVE Removals(f)
  BY <1>1, <1>3 DEF Removals
<1>4. ASSUME NEW f, Removals(f), f # Head(removals) PROVE Removals(f)'
  <2>1. PICK k \in 1..Len(removals) : removals[k] = f
    BY <1>4 DEF Removals
  <2>2. k - 1 \in 1..Len(removals') /\ removals'[k - 1] = f
    BY <1>1, <1>4, <2>1
  <2> QED
    BY <2>2, Zenon DEF Removals
<1> QED
  BY <1>1, <1>2, <1>3, <1>4

(* The invariant is inductive. *)
LEMMA FiltersStep ==
    ASSUME FiltersInstance, FiltersInv, [Filters!Next]_Filters!vars
    PROVE  FiltersInv'
<1> USE DEF FiltersInstance, FiltersInv
<1>1. ASSUME UNCHANGED removals, NEW f PROVE Removals(f)' <=> Removals(f)
  BY <1>1 DEF Removals
<1>2. ~Removals(None)
  BY DEF Removals, Filters!TypeOK
<1>3. ASSUME NEW t \in Threads, NEW f \in Attachable, Filters!Add(t, f) PROVE FiltersInv'
  <2>1. /\ ownerHandle /\ attachedLock = None /\ attachedLock' = t
        /\ adding' = [adding EXCEPT ![t] = f]
        /\ owner = "source" => \A p \in attached : p.filter # f
        /\ UNCHANGED <<owner, ownerHandle, attached, sourceFilters, clones, removals, guards>>
    BY <1>3 DEF Filters!Add, Filters!FiltersOf
  <2>2. /\ \A u \in Threads : adding[u] = None
        /\ adding'[t] = f /\ \A u \in Threads : u # t => adding'[u] = None
    BY <2>1 DEF AddsAreExclusive, Filters!TypeOK
  <2>3. guards < MaxGuards
    <3>1. {u \in Threads : adding[u] # None} = {}
      BY <2>2
    <3>2. Cardinality({u \in Threads : adding[u] # None}) = 0
      BY <3>1, FS_EmptySet
    <3> QED
      BY <1>3, <3>2, FiltersCardinality DEF Filters!Add, Filters!TypeOK
  <2>4. Filters!TypeOK'
    BY <2>1 DEF Filters!TypeOK
  <2>5. AddsAreExclusive' /\ PairsAreShared'
    BY <2>1, <2>2, <2>3 DEF AddsAreExclusive, PairsAreShared
  <2>6. FiltersAreOnce'
    <3>1. \A p \in Retained : p.filter \in Attachable
      BY DEF Filters!TypeOK, Retained, Filters!Pairs
    <3> QED
      BY <2>1, <2>2, <3>1 DEF FiltersAreOnce, PairsAreShared, Retained
  <2>7. owner = "source" \/ ~ReAdd => ~Removals(f)
    <3>1. CASE owner = "source"
      BY <2>1, <3>1 DEF PairsAreShared, Removals
    <3>2. CASE ~ReAdd
      BY <1>3, <3>2, FiltersRange DEF Filters!Add, Range, Removals, Filters!TypeOK
    <3> QED
      BY <3>1, <3>2
  <2>8. NativeIsRetained'
    BY <1>1, <1>2, <2>1, <2>2, <2>7 DEF NativeIsRetained, Retained
  <2> QED
    BY <2>4, <2>5, <2>6, <2>8
<1>4. ASSUME NEW t \in Threads, Filters!Added(t) PROVE FiltersInv'
  <2> DEFINE p == [filter |-> adding[t], guard |-> guards + 1]
  <2>1. /\ adding[t] # None /\ sourceFilters' = sourceFilters \cup {adding[t]}
        /\ guards' = guards + 1
        /\ attached' = attached \cup {p} /\ adding' = [adding EXCEPT ![t] = None]
        /\ attachedLock' = IF attachedLock = t THEN None ELSE attachedLock
        /\ UNCHANGED <<owner, ownerHandle, clones, removals>>
    BY <1>4 DEF Filters!Added
  <2>2. /\ attachedLock = t /\ ownerHandle /\ guards < MaxGuards /\ guards \in Nat
        /\ adding[t] \in Attachable
        /\ \A u \in Threads : adding'[u] = None
    BY <2>1 DEF AddsAreExclusive, Filters!TypeOK
  <2>3. p \in Filters!Pairs /\ p.filter = adding[t]
    BY <2>2 DEF Filters!Pairs
  <2>4. Retained' = Retained \cup {p}
    BY <2>1 DEF Retained
  <2> HIDE DEF p
  <2>5. Filters!TypeOK'
    BY <2>1, <2>2, <2>3 DEF Filters!TypeOK
  <2>6. IsFiniteSet(attached')
    BY <2>1, FS_AddElement DEF PairsAreShared
  <2>7. AddsAreExclusive' /\ PairsAreShared'
    BY <2>1, <2>2, <2>6 DEF AddsAreExclusive, PairsAreShared
  <2>8. FiltersAreOnce'
    <3>1. \A q \in Retained \cup {p} : q.filter \in Attachable
      BY <2>3 DEF Filters!TypeOK, Retained, Filters!Pairs
    <3> QED
      BY <2>1, <2>2, <2>3, <2>4, <3>1 DEF FiltersAreOnce
  <2>9. NativeIsRetained'
    BY <1>1, <1>2, <2>1, <2>2, <2>3, <2>4 DEF NativeIsRetained
  <2> QED
    BY <2>5, <2>7, <2>8, <2>9
<1>5. ASSUME NEW t \in Threads, Filters!AddFails(t) PROVE FiltersInv'
  <2>1. /\ adding[t] # None /\ adding' = [adding EXCEPT ![t] = None]
        /\ attachedLock' = IF attachedLock = t THEN None ELSE attachedLock
        /\ UNCHANGED <<owner, ownerHandle, attached, sourceFilters, clones, removals, guards>>
    BY <1>5 DEF Filters!AddFails
  <2>2. attachedLock = t /\ \A u \in Threads : adding'[u] = None
    BY <2>1 DEF AddsAreExclusive, Filters!TypeOK
  <2>3. Filters!TypeOK'
    BY <2>1 DEF Filters!TypeOK
  <2>4. AddsAreExclusive' /\ PairsAreShared'
    BY <2>1, <2>2 DEF AddsAreExclusive, PairsAreShared
  <2>5. FiltersAreOnce'
    <3>1. \A q \in Retained : q.filter \in Attachable
      BY DEF Filters!TypeOK, Retained, Filters!Pairs
    <3> QED
      BY <2>1, <2>2, <3>1 DEF FiltersAreOnce, Retained
  <2>6. NativeIsRetained'
    BY <1>1, <1>2, <2>1, <2>2 DEF NativeIsRetained, Retained
  <2> QED
    BY <2>3, <2>4, <2>5, <2>6
(* Pairs that are dropped are no longer retained and queue their filters.  *)
<1>6. ASSUME NEW pairs \in SUBSET Filters!Pairs, NEW kept \in SUBSET Filters!Pairs,
             IsFiniteSet(pairs), Filters!DropPairs(pairs, kept),
             pairs \subseteq Retained, Retained' = Retained \ (pairs \ kept),
             \A p \in pairs \ kept, q \in Retained' :
                 owner = "source" \/ ~ReAdd => p.filter # q.filter,
             \A p \in pairs \ kept, t \in Threads :
                 owner = "source" \/ ~ReAdd => p.filter # adding[t],
             UNCHANGED <<owner, sourceFilters, adding>>
      PROVE  FiltersAreOnce' /\ NativeIsRetained'
  <2>1. \A f : Removals(f)' <=> Removals(f) \/ \E p \in pairs \ kept : p.filter = f
    BY <1>6, FiltersDrop
  <2>2. FiltersAreOnce'
    BY <1>6 DEF FiltersAreOnce
  <2>3. NativeIsRetained'
    BY <1>6, <2>1 DEF NativeIsRetained
  <2> QED
    BY <2>2, <2>3
<1>7. ASSUME NEW f \in Attachable, Filters!RemoveSceneFilter(f) PROVE FiltersInv'
  <2> DEFINE gone == {p \in attached : p.filter = f}
  <2>1. /\ ownerHandle /\ owner = "scene" /\ attachedLock = None /\ attached' = attached \ gone
        /\ Filters!DropPairs(gone, clones)
        /\ UNCHANGED <<owner, ownerHandle, sourceFilters, attachedLock, adding, clones, guards>>
    BY <1>7 DEF Filters!RemoveSceneFilter
  <2>2. /\ gone \in SUBSET Filters!Pairs /\ clones \in SUBSET Filters!Pairs
        /\ IsFiniteSet(gone) /\ IsFiniteSet(attached')
    BY <2>1, FS_Subset DEF Filters!TypeOK, PairsAreShared
  <2>3. clones = {} /\ \A t \in Threads : adding[t] = None
    BY <2>1 DEF PairsAreShared, AddsAreExclusive
  <2>4. gone \subseteq Retained /\ Retained' = Retained \ (gone \ clones)
    BY <2>1, <2>3 DEF Retained
  <2>5. FiltersAreOnce' /\ NativeIsRetained'
    <3>1. \A p \in gone \ clones, q \in Retained' : p.filter # q.filter
      BY <2>1, <2>3 DEF Retained
    <3>2. \A p \in gone \ clones, t \in Threads : p.filter # adding[t]
      BY <2>3
    <3> HIDE DEF gone
    <3> QED
      BY <1>6, <2>1, <2>2, <2>4, <3>1, <3>2
  <2>6. removals' \in Seq(Attachable)
    BY <2>1, <2>2, FiltersDrop
  <2>7. Filters!TypeOK'
    BY <2>1, <2>6 DEF Filters!TypeOK
  <2>8. AddsAreExclusive' /\ PairsAreShared'
    BY <2>1, <2>2, <2>3 DEF AddsAreExclusive, PairsAreShared
  <2> QED
    BY <2>5, <2>7, <2>8
<1>8. ASSUME Filters!GetActiveFilters PROVE FiltersInv'
  <2>1. /\ ownerHandle /\ owner = "source" /\ clones' = attached /\ clones \subseteq attached
        /\ removals' = removals
        /\ UNCHANGED <<owner, ownerHandle, attached, sourceFilters, attachedLock, adding, guards>>
    <3>1. /\ clones \subseteq attached /\ clones \in SUBSET Filters!Pairs
          /\ attached \in SUBSET Filters!Pairs
          /\ IsFiniteSet(clones)
      BY <1>8 DEF Filters!GetActiveFilters, PairsAreShared, Filters!TypeOK
    <3> QED
      BY <1>8, <3>1, FiltersDrop DEF Filters!GetActiveFilters
  <2>2. Retained' = Retained
    BY <2>1 DEF Retained
  <2>3. Filters!TypeOK' /\ AddsAreExclusive' /\ PairsAreShared'
    BY <2>1 DEF Filters!TypeOK, AddsAreExclusive, PairsAreShared
  <2>4. FiltersAreOnce' /\ NativeIsRetained'
    BY <1>1, <2>1, <2>2 DEF FiltersAreOnce, NativeIsRetained
  <2> QED
    BY <2>3, <2>4
<1>9. ASSUME Filters!DropClones PROVE FiltersInv'
  <2>1. /\ clones # {} /\ clones' = {} /\ Filters!DropPairs(clones, attached)
        /\ UNCHANGED <<owner, ownerHandle, attached, sourceFilters, attachedLock, adding, guards>>
    BY <1>9 DEF Filters!DropClones
  <2>2. /\ clones \in SUBSET Filters!Pairs /\ attached \in SUBSET Filters!Pairs
        /\ IsFiniteSet(clones)
        /\ owner = "source"
    BY <2>1 DEF Filters!TypeOK, PairsAreShared
  <2>3. FiltersAreOnce' /\ NativeIsRetained'
    <3>1. clones \subseteq Retained /\ Retained' = Retained \ (clones \ attached)
      BY <2>1 DEF Retained
    <3>2. \A p \in clones \ attached, q \in Retained' : p.filter # q.filter
      BY <2>2, <3>1 DEF FiltersAreOnce
    <3>3. \A p \in clones \ attached, t \in Threads : p.filter # adding[t]
      BY <2>2, <3>1 DEF FiltersAreOnce
    <3> QED
      BY <1>6, <2>1, <2>2, <3>1, <3>2, <3>3
  <2>4. /\ removals' \in Seq(Attachable)
        /\ clones \subseteq attached => removals' = removals
    BY <2>1, <2>2, FiltersDrop
  <2>5. Filters!TypeOK' /\ AddsAreExclusive'
    BY <2>1, <2>4 DEF Filters!TypeOK, AddsAreExclusive
  <2>6. PairsAreShared'
    BY <2>1, <2>4, FS_EmptySet DEF PairsAreShared
  <2> QED
    BY <2>3, <2>5, <2>6
<1>10. ASSUME Filters!DropOwner PROVE FiltersInv'
  <2>1. /\ ownerHandle /\ (\A t \in Threads : adding[t] = None) /\ ownerHandle' = FALSE /\ attached' = {}
        /\ Filters!DropPairs(attached, clones)
        /\ UNCHANGED <<owner, sourceFilters, attachedLock, adding, clones, guards>>
    BY <1>10 DEF Filters!DropOwner
  <2>2. /\ clones \in SUBSET Filters!Pairs /\ attached \in SUBSET Filters!Pairs
        /\ IsFiniteSet(attached)
    BY DEF Filters!TypeOK, PairsAreShared
  <2>3. FiltersAreOnce' /\ NativeIsRetained'
    <3>1. /\ attached \subseteq Retained /\ Retained' = Retained \ (attached \ clones)
          /\ Retained' = clones
      BY <2>1 DEF Retained
    <3>2. \A p \in attached \ clones, q \in Retained' : p.filter # q.filter
      BY <3>1 DEF FiltersAreOnce, PairsAreShared, Filters!TypeOK
    <3>3. \A p \in attached \ clones, t \in Threads : p.filter # adding[t]
      BY <2>1, <2>2 DEF Filters!Pairs
    <3> QED
      BY <1>6, <2>1, <2>2, <3>1, <3>2, <3>3
  <2>4. removals' \in Seq(Attachable)
    BY <2>1, <2>2, FiltersDrop
  <2>5. Filters!TypeOK' /\ AddsAreExclusive'
    BY <2>1, <2>4, Zenon DEF Filters!TypeOK, AddsAreExclusive
  <2>6. PairsAreShared'
    BY <2>1, FS_EmptySet DEF PairsAreShared
  <2> QED
    BY <2>3, <2>5, <2>6
<1>11. ASSUME Filters!RunCleanup PROVE FiltersInv'
  <2>1. /\ removals # <<>> /\ removals' = Tail(removals)
        /\ sourceFilters' = sourceFilters \ {Head(removals)}
        /\ UNCHANGED <<owner, ownerHandle, attached, attachedLock, adding, clones, guards>>
    BY <1>11 DEF Filters!RunCleanup
  <2>2. /\ removals' \in Seq(Attachable)
        /\ \A f : Removals(f)' => Removals(f)
        /\ \A f : Removals(f) /\ f # Head(removals) => Removals(f)'
        /\ Removals(Head(removals))
    BY <2>1, FiltersRun
  <2>3. Filters!TypeOK' /\ AddsAreExclusive' /\ PairsAreShared'
    BY <2>1, <2>2 DEF Filters!TypeOK, AddsAreExclusive, PairsAreShared
  <2>4. FiltersAreOnce'
    BY <2>1 DEF FiltersAreOnce, Retained
  <2>5. NativeIsRetained'
    BY <2>1, <2>2 DEF NativeIsRetained, Retained
  <2> QED
    BY <2>3, <2>4, <2>5
<1>12. ASSUME UNCHANGED Filters!vars PROVE FiltersInv'
  BY <1>1, <1>12 DEF Filters!vars, Filters!TypeOK, AddsAreExclusive, PairsAreShared, FiltersAreOnce,
     NativeIsRetained, Retained
<1> QED
  BY <1>3, <1>4, <1>5, <1>7, <1>8, <1>9, <1>10, <1>11, <1>12 DEF Filters!Next

(* The invariant holds at the start. *)
LEMMA FiltersFirst ==
    ASSUME FiltersInstance, Filters!Init
    PROVE  FiltersInv
<1>1. Filters!TypeOK
  BY DEF Filters!Init, Filters!TypeOK, FiltersInstance
<1>2. AddsAreExclusive /\ PairsAreShared /\ FiltersAreOnce
  BY FS_EmptySet DEF Filters!Init, AddsAreExclusive, PairsAreShared, FiltersAreOnce, Retained
<1>3. NativeIsRetained
  BY DEF Filters!Init, NativeIsRetained, Retained, Removals
<1> QED
  BY <1>1, <1>2, <1>3 DEF FiltersInv

(* Once the queued removals are done libobs has the filters that are       *)
(* attached or retained by a clone, and a source has none twice; for       *)
(* scenes if none is added again that is queued to be removed.             *)
THEOREM FiltersAlwaysAttached ==
    ASSUME FiltersInstance
    PROVE  Filters!Spec => [](owner = "source" \/ ~ReAdd => Filters!FiltersAreAttached)
<1>1. Filters!Init => FiltersInv
  BY FiltersFirst
<1>2. FiltersInv /\ [Filters!Next]_Filters!vars => FiltersInv'
  BY FiltersStep
<1>3. FiltersInv => (owner = "source" \/ ~ReAdd => Filters!FiltersAreAttached)
  <2> SUFFICES ASSUME FiltersInv, owner = "source" \/ ~ReAdd PROVE Filters!FiltersAreAttached
    OBVIOUS
  <2>1. ASSUME removals = <<>> PROVE sourceFilters = Filters!FiltersOf(attached \cup clones)
    <3>1. \A f : ~Removals(f)
      BY <2>1 DEF Removals
    <3> QED
      BY <3>1 DEF FiltersInv, NativeIsRetained, Retained, Filters!FiltersOf
  <2> QED
    BY <2>1 DEF FiltersInv, FiltersAreOnce, Retained, Filters!FiltersAreAttached
<1> QED
  BY <1>1, <1>2, <1>3, PTL DEF Filters!Spec

(* The filters of a source have their types. *)
THEOREM FiltersTypeCorrect ==
    ASSUME FiltersInstance
    PROVE  Filters!Spec => []Filters!TypeOK
<1>1. Filters!Init => FiltersInv
  BY FiltersFirst
<1>2. FiltersInv /\ [Filters!Next]_Filters!vars => FiltersInv'
  BY FiltersStep
<1>3. FiltersInv => Filters!TypeOK
  BY DEF FiltersInv
<1> QED
  BY <1>1, <1>2, <1>3, PTL DEF Filters!Spec

-----------------------------------------------------------------------------
(* What the instances take for granted of the constants. *)
SettingsInstance == None \notin Threads /\ MaxUpdates \in Nat

(* Thread t is in a call. *)
Busy(t) == settingsPc[t] # "idle"

(* Calls that are alone and what would disturb them do not overlap, and    *)
(* neither do calls while the settings are clean.                          *)
CallsAreAlone ==
    \A t, v \in Threads :
        Busy(t) /\ Busy(v) /\ (kind # "output" \/ settingsPc[t] = "refresh" \/ settingsPc[v] = "refresh") =>
            (alone[t] => v = t) /\ (clean => v = t)

(* The configuration lock is held by one call. *)
ConfiguredByOne ==
    kind = "output" => \A t \in Threads : settingsPc[t] \in {"query", "update", "replace"} => configurationLock = t

(* What is in libobs while a call has its second step before it: the keys  *)
(* of its update, with their values.                                       *)
UpdateIsNative ==
    \A t \in Threads : settingsPc[t] = "replace" /\ (alone[t] \/ clean) => Settings!Holds(update[t])

(* The copy is what libobs has, while no call has yet to make it so. *)
CopyIsNative ==
    clean /\ (\A t \in Threads : settingsPc[t] \notin {"replace", "refresh"})
        => Settings!Holds(Settings!Reported)

(* The inductive invariant. *)
SettingsInv ==
    /\ Settings!TypeOK /\ CallsAreAlone /\ ConfiguredByOne
    /\ UpdateIsNative /\ CopyIsNative

(* The types are inductive. *)
LEMMA SettingsTypes ==
    ASSUME SettingsInstance, Settings!TypeOK, [Settings!Next]_Settings!vars
    PROVE  Settings!TypeOK'
<1> USE DEF SettingsInstance
<1>1. ASSUME NEW t \in Threads, NEW button \in BOOLEAN, NEW u \in Settings!Updates \cup Settings!Settings,
             NEW to \in {"lock", "query", "update", "refresh"}, Settings!Start(t, button, u, to)
      PROVE  /\ settingsPc' \in [Threads -> {"idle", "lock", "query", "update", "replace", "refresh"}]
             /\ update' \in [Threads -> Settings!Updates \cup Settings!Settings]
             /\ alone' \in [Threads -> BOOLEAN] /\ clean' \in BOOLEAN
             /\ updates' \in 0..MaxUpdates
  <2>1. alone' \in [Threads -> BOOLEAN] /\ clean' \in BOOLEAN
    BY <1>1, Zenon DEF Settings!Start, Settings!TypeOK
  <2>2. settingsPc' \in [Threads -> {"idle", "lock", "query", "update", "replace", "refresh"}]
    BY <1>1 DEF Settings!Start, Settings!Goto, Settings!TypeOK
  <2>3. update' \in [Threads -> Settings!Updates \cup Settings!Settings]
    BY <1>1 DEF Settings!Start, Settings!TypeOK
  <2>4. updates' \in 0..MaxUpdates
    BY <1>1 DEF Settings!Start, Settings!TypeOK
  <2> QED
    BY <2>1, <2>2, <2>3, <2>4
<1>2. ASSUME NEW t \in Threads, Settings!Return(t)
      PROVE  /\ settingsPc' \in [Threads -> {"idle", "lock", "query", "update", "replace", "refresh"}]
             /\ configurationLock' \in Threads \cup {None}
  BY <1>2 DEF Settings!Return, Settings!Goto, Settings!TypeOK
<1>3. ASSUME NEW u \in Settings!Updates \cup Settings!Settings, settings \in Settings!Settings
      PROVE  Settings!Merged(u) \in Settings!Settings
  BY <1>3 DEF Settings!Merged, Settings!Updates, Settings!Settings
<1>4. ASSUME NEW t \in Threads, NEW u \in Settings!Updates, Settings!UpdateSettings(t, u)
      PROVE  Settings!TypeOK'
  <2>1. PICK to \in {"lock", "query", "update", "refresh"} : Settings!Start(t, FALSE, u, to)
    <3>1. CASE kind = "output"
      BY <3>1, <1>4, Zenon DEF Settings!UpdateSettings
    <3>2. CASE kind = "encoder"
      BY <3>2, <1>4, Zenon DEF Settings!UpdateSettings
    <3>3. CASE kind = "source"
      BY <3>3, <1>4, Zenon DEF Settings!UpdateSettings
    <3> QED
      BY <3>1, <3>2, <3>3, Zenon DEF Settings!TypeOK
  <2> QED
    <3>1. UNCHANGED <<kind, objectActive, settings, copy, configurationLock>>
      BY <1>4 DEF Settings!UpdateSettings
    <3>2. /\ settingsPc' \in [Threads -> {"idle", "lock", "query", "update", "replace", "refresh"}]
          /\ update' \in [Threads -> Settings!Updates \cup Settings!Settings]
          /\ alone' \in [Threads -> BOOLEAN] /\ clean' \in BOOLEAN
          /\ updates' \in 0..MaxUpdates
      <4>1. u \in Settings!Updates \cup Settings!Settings /\ FALSE \in BOOLEAN
        OBVIOUS
      <4> QED
        BY <2>1, <4>1, <1>1, Zenon
    <3> QED
      BY <3>1, <3>2 DEF Settings!TypeOK
<1>5. ASSUME NEW t \in Threads, Settings!InvokeButton(t) PROVE Settings!TypeOK'
  <2>1. PICK u \in Settings!Settings : Settings!Start(t, TRUE, u, "refresh") /\ settings' = u
    BY <1>5, Zenon DEF Settings!InvokeButton
  <2> QED
    BY <1>5, <2>1, <1>1, Zenon DEF Settings!InvokeButton, Settings!TypeOK
<1>6. ASSUME NEW t \in Threads, Settings!LockConfiguration(t) PROVE Settings!TypeOK'
  BY <1>6 DEF Settings!LockConfiguration, Settings!Goto, Settings!TypeOK
<1>7. ASSUME NEW t \in Threads, Settings!QueryActive(t) PROVE Settings!TypeOK'
  <2>1. CASE Settings!Return(t)
    BY <2>1, <1>2, <1>7 DEF Settings!QueryActive, Settings!TypeOK
  <2>2. CASE Settings!Goto(t, "update") /\ UNCHANGED configurationLock
    BY <2>2, <1>7 DEF Settings!QueryActive, Settings!Goto, Settings!TypeOK
  <2> QED
    BY <2>1, <2>2, <1>7 DEF Settings!QueryActive
<1>8. ASSUME NEW t \in Threads, Settings!NativeUpdate(t) PROVE Settings!TypeOK'
  <2>1. settings' \in Settings!Settings
    BY <1>8, <1>3 DEF Settings!NativeUpdate, Settings!TypeOK
  <2> QED
    BY <1>8, <2>1 DEF Settings!NativeUpdate, Settings!Goto, Settings!TypeOK
<1>9. ASSUME NEW t \in Threads, Settings!CallFails(t) PROVE Settings!TypeOK'
  BY <1>9, <1>2 DEF Settings!CallFails, Settings!TypeOK
<1>10. ASSUME NEW t \in Threads, Settings!ReplaceSettings(t) \/ Settings!RefreshSettings(t)
       PROVE  Settings!TypeOK'
  <2>1. Settings!Return(t) /\ UNCHANGED <<kind, objectActive, settings, update, alone, updates>>
        /\ clean' \in BOOLEAN
    BY <1>10 DEF Settings!ReplaceSettings, Settings!RefreshSettings, Settings!TypeOK
  <2>2. copy' \in [live : BOOLEAN, values : Settings!Updates \cup Settings!Settings]
    <3>1. update[t] \in Settings!Updates \cup Settings!Settings
      BY DEF Settings!TypeOK
    <3>2. PICK live \in BOOLEAN : copy' = [live |-> live, values |-> update[t]]
      BY <1>10, Zenon DEF Settings!ReplaceSettings, Settings!RefreshSettings
    <3> QED
      BY <3>1, <3>2
  <2> QED
    BY <2>1, <2>2, <1>2 DEF Settings!TypeOK
<1>11. CASE Settings!NativeToggle
  BY <1>11 DEF Settings!NativeToggle, Settings!TypeOK
<1>12. CASE UNCHANGED Settings!vars
  BY <1>12 DEF Settings!vars, Settings!TypeOK
<1> QED
  BY <1>4, <1>5, <1>6, <1>7, <1>8, <1>9, <1>10, <1>11, <1>12 DEF Settings!Next

(* A call that starts is alone only with calls that it does not disturb.   *)
LEMMA SettingsStart ==
    ASSUME SettingsInv, NEW t \in Threads, NEW button \in BOOLEAN, NEW u, NEW to,
           Settings!Start(t, button, u, to), to \in {"lock", "query", "update", "refresh"},
           button <=> to = "refresh",
           kind = "output" => to \in {"lock", "refresh"}, UNCHANGED <<kind, configurationLock>>
    PROVE  CallsAreAlone' /\ ConfiguredByOne'
<1> USE DEF SettingsInv
<1>1. /\ settingsPc[t] = "idle" /\ settingsPc'[t] = to
      /\ \A v \in Threads : v # t => settingsPc'[v] = settingsPc[v]
      /\ clean' = (clean /\ alone'[t])
      /\ alone'[t] = \A v \in Threads : ~Settings!Disturbs(v, button)
      /\ \A v \in Threads : v # t => alone'[v] = (alone[v] /\ ~Settings!Disturbs(v, button))
  BY DEF Settings!Start, Settings!Goto, Settings!TypeOK
<1>2. CallsAreAlone'
  <2> SUFFICES ASSUME NEW a \in Threads, NEW b \in Threads, a # b, Busy(a)', Busy(b)',
                      kind # "output" \/ settingsPc'[a] = "refresh" \/ settingsPc'[b] = "refresh"
               PROVE  ~alone'[a] /\ ~clean'
    BY DEF CallsAreAlone
  <2>1. CASE a # t /\ b # t
    BY <1>1, <2>1, Zenon DEF CallsAreAlone, Busy
  <2>2. CASE a = t
    <3>1. Settings!Disturbs(b, button)
      BY <1>1, <2>2 DEF Settings!Disturbs, Busy
    <3> QED
      BY <1>1, <2>2, <3>1, Zenon
  <2>3. CASE b = t
    <3>1. Settings!Disturbs(a, button)
      BY <1>1, <2>3 DEF Settings!Disturbs, Busy
    <3> QED
      BY <1>1, <2>3, <3>1, Zenon
  <2> QED
    BY <2>1, <2>2, <2>3
<1>3. ConfiguredByOne'
  BY <1>1 DEF ConfiguredByOne, Settings!TypeOK
<1> QED
  BY <1>2, <1>3

(* A call that returns leaves to the others what it had.                   *)
LEMMA SettingsReturn ==
    ASSUME SettingsInv, NEW t \in Threads, Busy(t), Settings!Return(t), UNCHANGED <<kind, alone>>,
           clean' => clean \/ alone[t]
    PROVE  CallsAreAlone' /\ ConfiguredByOne'
<1> USE DEF SettingsInv
<1>1. settingsPc'[t] = "idle" /\ \A v \in Threads : v # t => settingsPc'[v] = settingsPc[v]
  BY DEF Settings!Return, Settings!Goto, Settings!TypeOK
<1>2. CallsAreAlone'
  <2> SUFFICES ASSUME NEW a \in Threads, NEW b \in Threads, a # b, Busy(a)', Busy(b)',
                      kind # "output" \/ settingsPc'[a] = "refresh" \/ settingsPc'[b] = "refresh"
               PROVE  ~alone'[a] /\ ~clean'
    BY DEF CallsAreAlone
  <2>1. /\ a # t /\ b # t /\ Busy(a) /\ Busy(b)
        /\ kind # "output" \/ settingsPc[a] = "refresh" \/ settingsPc[b] = "refresh"
    BY <1>1 DEF Busy
  <2>2. ~alone[a] /\ ~clean
    BY <2>1 DEF CallsAreAlone
  <2>3. ~alone[t]
    BY <2>1 DEF CallsAreAlone
  <2> QED
    BY <2>2, <2>3
<1>3. ConfiguredByOne'
  BY <1>1 DEF ConfiguredByOne, Settings!Return
<1> QED
  BY <1>2, <1>3

(* The invariant is inductive. *)
LEMMA SettingsStep ==
    ASSUME SettingsInstance, SettingsInv, [Settings!Next]_Settings!vars
    PROVE  SettingsInv'
<1> USE DEF SettingsInstance, SettingsInv
<1>1. Settings!TypeOK'
  BY SettingsTypes
<1>2. ASSUME NEW t \in Threads, NEW u \in Settings!Updates, Settings!UpdateSettings(t, u)
      PROVE  CallsAreAlone' /\ ConfiguredByOne' /\ UpdateIsNative' /\ CopyIsNative'
  <2>1. PICK to \in {"lock", "query", "update"} :
            Settings!Start(t, FALSE, u, to) /\ (kind = "output" => to = "lock")
    <3>1. CASE kind = "output"
      BY <3>1, <1>2, Zenon DEF Settings!UpdateSettings
    <3>2. CASE kind = "encoder"
      BY <3>2, <1>2, Zenon DEF Settings!UpdateSettings
    <3>3. CASE kind = "source"
      BY <3>3, <1>2, Zenon DEF Settings!UpdateSettings
    <3> QED
      BY <3>1, <3>2, <3>3, Zenon DEF Settings!TypeOK
  <2>2. UNCHANGED <<kind, objectActive, settings, copy, configurationLock>>
    BY <1>2 DEF Settings!UpdateSettings
  <2>3. /\ settingsPc[t] = "idle" /\ settingsPc'[t] = to /\ update'[t] = u
        /\ \A v \in Threads : v # t => /\ settingsPc'[v] = settingsPc[v] /\ update'[v] = update[v]
                                      /\ (alone'[v] => alone[v])
        /\ (clean' => clean)
    BY <2>1, Zenon DEF Settings!Start, Settings!Goto, Settings!TypeOK
  <2>4. CallsAreAlone' /\ ConfiguredByOne'
    BY <2>1, <2>2, SettingsStart, Zenon
  <2>5. UpdateIsNative'
    BY <2>2, <2>3 DEF UpdateIsNative, Settings!Holds
  <2>6. CopyIsNative'
    <3>1. Settings!Holds(Settings!Reported)' <=> Settings!Holds(Settings!Reported)
      BY <2>2 DEF Settings!Reported, Settings!Holds
    <3>2. (\A v \in Threads : settingsPc'[v] \notin {"replace", "refresh"}) =>
              \A v \in Threads : settingsPc[v] \notin {"replace", "refresh"}
      BY <2>3
    <3> QED
      BY <2>2, <2>3, <3>1, <3>2 DEF CopyIsNative
  <2> QED
    BY <2>4, <2>5, <2>6
<1>3. ASSUME NEW t \in Threads, Settings!InvokeButton(t)
      PROVE  CallsAreAlone' /\ ConfiguredByOne' /\ UpdateIsNative' /\ CopyIsNative'
  <2>1. PICK u \in Settings!Settings : Settings!Start(t, TRUE, u, "refresh") /\ settings' = u
    BY <1>3, Zenon DEF Settings!InvokeButton
  <2>2. UNCHANGED <<kind, objectActive, copy, configurationLock>>
    BY <1>3 DEF Settings!InvokeButton
  <2>3. /\ settingsPc[t] = "idle" /\ settingsPc'[t] = "refresh"
        /\ \A v \in Threads : v # t => settingsPc'[v] = settingsPc[v] /\ (settingsPc[v] # "idle" => ~alone'[v] /\ ~clean')
    BY <2>1, Zenon DEF Settings!Start, Settings!Goto, Settings!TypeOK, Settings!Disturbs
  <2>4. CallsAreAlone' /\ ConfiguredByOne'
    BY <2>1, <2>2, SettingsStart, Zenon
  <2>5. UpdateIsNative'
    BY <2>3 DEF UpdateIsNative
  <2>6. CopyIsNative'
    BY <2>3 DEF CopyIsNative
  <2> QED
    BY <2>4, <2>5, <2>6
<1>4. ASSUME NEW t \in Threads, Settings!LockConfiguration(t)
      PROVE  CallsAreAlone' /\ ConfiguredByOne' /\ UpdateIsNative' /\ CopyIsNative'
  <2>1. /\ settingsPc[t] = "lock" /\ settingsPc'[t] = "query" /\ configurationLock = None
        /\ configurationLock' = t
        /\ \A v \in Threads : v # t => settingsPc'[v] = settingsPc[v]
        /\ UNCHANGED <<kind, objectActive, settings, copy, update, alone, clean, updates>>
    BY <1>4 DEF Settings!LockConfiguration, Settings!Goto, Settings!TypeOK
  <2>2. CallsAreAlone'
    BY <2>1 DEF CallsAreAlone, Busy
  <2>3. ConfiguredByOne'
    BY <2>1 DEF ConfiguredByOne
  <2>4. UpdateIsNative' /\ CopyIsNative'
    BY <2>1 DEF UpdateIsNative, CopyIsNative, Settings!Reported, Settings!Holds
  <2> QED
    BY <2>2, <2>3, <2>4
<1>5. ASSUME NEW t \in Threads, settingsPc[t] \in {"query", "update"}, Settings!Return(t),
             UNCHANGED <<kind, objectActive, settings, copy, update, alone, clean, updates>>
      PROVE  CallsAreAlone' /\ ConfiguredByOne' /\ UpdateIsNative' /\ CopyIsNative'
  <2>1. /\ settingsPc'[t] = "idle" /\ \A v \in Threads : v # t => settingsPc'[v] = settingsPc[v]
    BY <1>5 DEF Settings!Return, Settings!Goto, Settings!TypeOK
  <2>2. CallsAreAlone' /\ ConfiguredByOne'
    BY <1>5, SettingsReturn DEF Busy
  <2>3. UpdateIsNative' /\ CopyIsNative'
    BY <1>5, <2>1 DEF UpdateIsNative, CopyIsNative, Settings!Reported, Settings!Holds
  <2> QED
    BY <2>2, <2>3
<1>6. ASSUME NEW t \in Threads, Settings!QueryActive(t)
      PROVE  CallsAreAlone' /\ ConfiguredByOne' /\ UpdateIsNative' /\ CopyIsNative'
  <2>1. CASE Settings!Return(t)
    BY <2>1, <1>5, <1>6 DEF Settings!QueryActive
  <2>2. CASE Settings!Goto(t, "update") /\ UNCHANGED configurationLock
    <3>1. /\ settingsPc[t] = "query" /\ settingsPc'[t] = "update"
          /\ \A v \in Threads : v # t => settingsPc'[v] = settingsPc[v]
          /\ UNCHANGED <<kind, objectActive, settings, copy, configurationLock, update, alone, clean, updates>>
      BY <2>2, <1>6 DEF Settings!QueryActive, Settings!Goto, Settings!TypeOK
    <3>2. CallsAreAlone'
      BY <3>1 DEF CallsAreAlone, Busy
    <3>3. ConfiguredByOne'
      BY <3>1 DEF ConfiguredByOne
    <3>4. UpdateIsNative' /\ CopyIsNative'
      BY <3>1 DEF UpdateIsNative, CopyIsNative, Settings!Reported, Settings!Holds
    <3> QED
      BY <3>2, <3>3, <3>4
  <2> QED
    BY <2>1, <2>2, <1>6 DEF Settings!QueryActive
<1>7. ASSUME NEW t \in Threads, Settings!NativeUpdate(t)
      PROVE  CallsAreAlone' /\ ConfiguredByOne' /\ UpdateIsNative' /\ CopyIsNative'
  <2>1. /\ settingsPc[t] = "update" /\ settingsPc'[t] = "replace"
        /\ \A v \in Threads : v # t => settingsPc'[v] = settingsPc[v]
        /\ UNCHANGED <<kind, objectActive, copy, configurationLock, update, alone, clean, updates>>
    BY <1>7 DEF Settings!NativeUpdate, Settings!Goto, Settings!TypeOK
  <2>2. Settings!Holds(update[t])'
    <3>1. update[t] \in Settings!Updates \cup Settings!Settings
      BY DEF Settings!TypeOK
    <3>2. DOMAIN update[t] \subseteq Keys
      BY <3>1 DEF Settings!Updates, Settings!Settings
    <3>3. settings' = Settings!Merged(update[t]) /\ update'[t] = update[t]
      BY <1>7 DEF Settings!NativeUpdate
    <3> QED
      BY <3>2, <3>3 DEF Settings!Merged, Settings!Holds
  <2>3. CallsAreAlone'
    BY <2>1 DEF CallsAreAlone, Busy
  <2>4. ConfiguredByOne'
    BY <2>1 DEF ConfiguredByOne
  <2>5. UpdateIsNative'
    <3> SUFFICES ASSUME NEW v \in Threads, v # t, settingsPc[v] = "replace"
                 PROVE  ~alone[v] /\ ~clean
      BY <2>1, <2>2 DEF UpdateIsNative
    <3>1. kind # "output"
      BY <2>1 DEF ConfiguredByOne
    <3> QED
      BY <2>1, <3>1 DEF CallsAreAlone, Busy
  <2>6. CopyIsNative'
    BY <2>1 DEF CopyIsNative
  <2> QED
    BY <2>3, <2>4, <2>5, <2>6
<1>8. ASSUME NEW t \in Threads, Settings!CallFails(t)
      PROVE  CallsAreAlone' /\ ConfiguredByOne' /\ UpdateIsNative' /\ CopyIsNative'
  BY <1>8, <1>5 DEF Settings!CallFails
<1>9. ASSUME NEW t \in Threads, Settings!ReplaceSettings(t) \/ Settings!RefreshSettings(t)
      PROVE  CallsAreAlone' /\ ConfiguredByOne' /\ UpdateIsNative' /\ CopyIsNative'
  <2>1. /\ settingsPc[t] \in {"replace", "refresh"} /\ Settings!Return(t)
        /\ clean' = (clean \/ alone[t])
        /\ UNCHANGED <<kind, objectActive, settings, update, alone, updates>>
    BY <1>9 DEF Settings!ReplaceSettings, Settings!RefreshSettings
  <2>2. settingsPc'[t] = "idle" /\ \A v \in Threads : v # t => settingsPc'[v] = settingsPc[v]
    BY <2>1 DEF Settings!Return, Settings!Goto, Settings!TypeOK
  <2>3. CallsAreAlone' /\ ConfiguredByOne'
    BY <2>1, SettingsReturn, Zenon DEF Busy
  <2>4. UpdateIsNative'
    <3> SUFFICES ASSUME NEW v \in Threads, v # t, settingsPc[v] = "replace", ~clean, ~alone[v], alone[t]
                 PROVE  FALSE
      <4>1. \A v \in Threads : Settings!Holds(update[v])' <=> Settings!Holds(update[v])
        BY <2>1 DEF Settings!Holds
      <4> QED
        BY <4>1, <2>1, <2>2, Zenon DEF UpdateIsNative
    <3>1. CASE kind # "output" \/ settingsPc[t] = "refresh"
      BY <2>1, <3>1 DEF CallsAreAlone, Busy
    <3>2. CASE kind = "output" /\ settingsPc[t] = "replace"
      BY <3>2 DEF ConfiguredByOne
    <3> QED
      BY <3>1, <3>2, <2>1
  <2>5. CopyIsNative'
    <3>1. CASE Settings!ReplaceSettings(t)
      <4>1. clean' => Settings!Holds(update[t])
        BY <3>1, <2>1, Zenon DEF Settings!ReplaceSettings, UpdateIsNative
      <4>2. Settings!Reported' = update[t] /\ settings' = settings
        BY <3>1 DEF Settings!ReplaceSettings, Settings!Reported
      <4> QED
        BY <4>1, <4>2 DEF CopyIsNative, Settings!Holds
    <3>2. CASE Settings!RefreshSettings(t)
      BY <3>2, <2>1 DEF Settings!RefreshSettings, CopyIsNative, Settings!Reported, Settings!Holds
    <3> QED
      BY <3>1, <3>2, <1>9
  <2> QED
    BY <2>3, <2>4, <2>5
<1>10. ASSUME Settings!NativeToggle \/ UNCHANGED Settings!vars
       PROVE  CallsAreAlone' /\ ConfiguredByOne' /\ UpdateIsNative' /\ CopyIsNative'
  <2>1. UNCHANGED <<kind, settings, copy, configurationLock, settingsPc, update, alone, clean, updates>>
    BY <1>10 DEF Settings!NativeToggle, Settings!vars
  <2> QED
    BY <2>1 DEF CallsAreAlone, ConfiguredByOne, UpdateIsNative, CopyIsNative, Settings!Reported, Settings!Holds,
       Busy
<1> QED
  BY <1>1, <1>2, <1>3, <1>4, <1>6, <1>7, <1>8, <1>9, <1>10 DEF Settings!Next

(* The invariant holds at the start. *)
LEMMA SettingsFirst ==
    ASSUME SettingsInstance, Settings!Init
    PROVE  SettingsInv
<1>1. Settings!TypeOK
  <2>1. settings \in Settings!Settings
    BY DEF Settings!Init, Settings!Settings
  <2>2. copy \in [live : BOOLEAN, values : Settings!Updates \cup Settings!Settings]
    BY <2>1 DEF Settings!Init
  <2>3. /\ update \in [Threads -> Settings!Updates \cup Settings!Settings]
        /\ settingsPc \in [Threads -> {"idle", "lock", "query", "update", "replace", "refresh"}]
        /\ alone \in [Threads -> BOOLEAN]
    BY <2>1 DEF Settings!Init
  <2> QED
    <3>1. /\ kind \in {"source", "encoder", "output"} /\ objectActive \in BOOLEAN
          /\ configurationLock \in Threads \cup {None} /\ clean \in BOOLEAN
          /\ updates \in 0..MaxUpdates
      <4>1. objectActive = FALSE /\ configurationLock = None /\ clean = TRUE /\ updates = 0
        BY DEF Settings!Init
      <4>2. kind \in {"source", "encoder", "output"}
        BY DEF Settings!Init
      <4>3. updates \in 0..MaxUpdates
        BY <4>1 DEF SettingsInstance
      <4> QED
        BY <4>1, <4>2, <4>3, Zenon
    <3> QED
      BY <2>1, <2>2, <2>3, <3>1 DEF Settings!TypeOK
<1> QED
  BY <1>1 DEF Settings!Init, SettingsInv, CallsAreAlone, ConfiguredByOne, UpdateIsNative,
     CopyIsNative, Settings!Reported, Settings!Holds, Busy

(* When no call is in progress and none has overlapped since one that was  *)
(* alone each value that settings() returns is libobs's, whichever keys    *)
(* the updates name.                                                       *)
THEOREM SettingsAlwaysCurrent ==
    ASSUME SettingsInstance
    PROVE  Settings!Spec => []Settings!SettingsAreCurrent
<1>1. Settings!Init => SettingsInv
  BY SettingsFirst
<1>2. SettingsInv /\ [Settings!Next]_Settings!vars => SettingsInv'
  BY SettingsStep
<1>3. SettingsInv => Settings!SettingsAreCurrent
  BY DEF SettingsInv, CopyIsNative, Settings!SettingsAreCurrent, Settings!AllIdle
<1> QED
  BY <1>1, <1>2, <1>3, PTL DEF Settings!Spec

(* The settings have their types, and a call no more than its stages, for  *)
(* updates of any keys.                                                    *)
THEOREM SettingsTypeCorrect ==
    ASSUME SettingsInstance
    PROVE  Settings!Spec => []Settings!TypeOK
<1>1. Settings!Init => Settings!TypeOK
  BY SettingsFirst DEF SettingsInv
<1>2. Settings!TypeOK /\ [Settings!Next]_Settings!vars => Settings!TypeOK'
  BY SettingsTypes
<1> QED
  BY <1>1, <1>2, PTL DEF Settings!Spec

-----------------------------------------------------------------------------
(* The objects side by side *)

objectsVars == <<component, vars, replayVars, graphVars, hubVars, filterVars, settingsVars,
                 displayVars>>

(* Side by side each object does what it does alone: a behaviour of        *)
(* Objects is one of every component, a step of another being a stutter.   *)
THEOREM ObjectsImplementComponents ==
    ObjectsSpec => /\ Spec /\ Replay!Spec /\ Graph!Spec /\ Hub!Spec /\ Filters!Spec
                   /\ Settings!Spec /\ Preview!Spec
<1>1. ObjectsInit => /\ Init /\ Replay!Init /\ Graph!Init /\ Hub!Init /\ Filters!Init
                     /\ Settings!Init /\ Preview!Init
  BY DEF ObjectsInit
<1> DEFINE ObjectsStep == [ObjectsNext]_objectsVars
<1>2. ObjectsStep => [Next]_vars
  BY DEF ObjectsNext, objectsVars
<1>3. ObjectsStep => [Replay!Next]_Replay!vars
  BY DEF ObjectsNext, objectsVars, Replay!vars, replayVars
<1>4. ObjectsStep => [Graph!Next]_Graph!vars
  BY DEF ObjectsNext, objectsVars, Graph!vars, graphVars
<1>5. ObjectsStep => [Hub!Next]_Hub!vars
  BY DEF ObjectsNext, objectsVars, Hub!vars, hubVars
<1>6. ObjectsStep => [Filters!Next]_Filters!vars
  BY DEF ObjectsNext, objectsVars, Filters!vars, filterVars
<1>7. ObjectsStep => [Settings!Next]_Settings!vars
  BY DEF ObjectsNext, objectsVars, Settings!vars, settingsVars
<1>8. ObjectsStep => [Preview!Next]_Preview!vars
  BY DEF ObjectsNext, objectsVars, Preview!vars, displayVars
<1> QED
  BY <1>1, <1>2, <1>3, <1>4, <1>5, <1>6, <1>7, <1>8, PTL
  DEF ObjectsSpec, objectsVars, Spec, Replay!Spec, Graph!Spec, Hub!Spec, Filters!Spec,
      Settings!Spec, Preview!Spec

(* A successful save returns a path that is new, and while no deadline has *)
(* passed that of its own request (replay_buffer.rs), for any callers.     *)
THEOREM SavesAnswerTheirRequest == ObjectsSpec => SavedPathIsRight
<1>1. ReplayInstance
  BY NamesAssumption, BoundsAssumption DEF ReplayInstance
<1> QED
  BY <1>1, ObjectsImplementComponents, SavedPathsAreRight, PTL DEF SavedPathIsRight

(* libobs never calls back a hub that is gone, nor works on an object that *)
(* is released, whenever a registration, a handle or the actor ends.       *)
THEOREM CallbacksStaySafe == ObjectsSpec => []CallbacksAreSafe
<1>1. Hub!CallbacksAreSafe => CallbacksAreSafe
  BY DEF CallbacksAreSafe
<1> QED
  BY <1>1, ObjectsImplementComponents, CallbacksAlwaysSafe, PTL

(* No receiver of a signal misses one of the first events since it         *)
(* subscribed, whatever it takes in between (data/signals.rs).             *)
THEOREM FirstEventsKeepArriving == ObjectsSpec => []FirstEventsArrive
<1>1. HubInstance
  BY BoundsAssumption DEF HubInstance
<1>2. Hub!FirstEventsArrive => FirstEventsArrive
  BY DEF FirstEventsArrive
<1> QED
  BY <1>1, <1>2, ObjectsImplementComponents, FirstEventsAlwaysArrive, PTL

(* Once the queued removals have run a filter is on the native source      *)
(* exactly if the wrapper lists it or a clone keeps it, unless one is      *)
(* added to a scene again that is queued to be removed (filter_traits.rs). *)
THEOREM FiltersStayAttached ==
    ASSUME ~ReAdd
    PROVE  ObjectsSpec => []FiltersAreAttached
<1>1. FiltersInstance
  BY NamesAssumption, BoundsAssumption DEF FiltersInstance
<1>2. (owner = "source" \/ ~ReAdd => Filters!FiltersAreAttached) => FiltersAreAttached
  BY DEF FiltersAreAttached
<1> QED
  BY <1>1, <1>2, ObjectsImplementComponents, FiltersAlwaysAttached, PTL

(* When no call is in progress each value that settings() returns is       *)
(* libobs's, unless calls overlapped and none has been alone since,        *)
(* whichever keys the updates name.                                        *)
THEOREM SettingsStayCurrent == ObjectsSpec => []SettingsAreCurrent
<1>1. SettingsInstance
  BY NamesAssumption, BoundsAssumption DEF SettingsInstance
<1>2. Settings!SettingsAreCurrent => SettingsAreCurrent
  BY DEF SettingsAreCurrent
<1> QED
  BY <1>1, <1>2, ObjectsImplementComponents, SettingsAlwaysCurrent, PTL

(* libobs draws no display whose state is freed and nothing that is        *)
(* released, with any number of handles and sources (display/mod.rs).      *)
THEOREM PreviewStaysSafe == ObjectsSpec => []PreviewIsSafe
<1>1. PreviewInstance
  BY NamesAssumption, BoundsAssumption DEF PreviewInstance, Preview!Targets
<1>2. Preview!PreviewIsSafe => PreviewIsSafe
  BY DEF PreviewIsSafe
<1> QED
  BY <1>1, <1>2, ObjectsImplementComponents, PreviewAlwaysSafe, PTL

(* A scene, as callers use it, has at the end of their calls the items     *)
(* that its handles say (scenes/mod.rs, scenes/scene_item/mod.rs), as long *)
(* as no item is removed or taken from a group while that is ungrouped and *)
(* no scene is cleared while a group is made.                              *)
THEOREM SceneStaysManaged ==
    ASSUME {{"ungroup", "removeItem"}, {"ungroup", "takeItem"}, {"clear", "createGroup"}}
              \subseteq Apart
    PROVE  ObjectsSpec => []SceneIsManaged
<1>1. GraphInstance
  BY NamesAssumption, Zenon DEF GraphInstance, GraphCalls
<1>2. Graph!TypeOK /\ Graph!SceneIsManaged => SceneIsManaged
  BY DEF SceneIsManaged
<1> QED
  BY <1>1, <1>2, ObjectsImplementComponents, SceneAlwaysManaged, PTL

(* Every object keeps its types, whatever the others do. *)
THEOREM ObjectsStayTyped ==
    ASSUME Instance,
           {{"ungroup", "removeItem"}, {"ungroup", "takeItem"}, {"clear", "createGroup"}}
              \subseteq Apart
    PROVE  ObjectsSpec => []ObjectsTypeOK
<1>1. GraphInstance
  BY NamesAssumption, Zenon DEF GraphInstance, GraphCalls
<1>2. ReplayInstance
  BY NamesAssumption, BoundsAssumption DEF ReplayInstance
<1>3. HubInstance
  BY BoundsAssumption DEF HubInstance
<1>4. FiltersInstance
  BY NamesAssumption, BoundsAssumption DEF FiltersInstance
<1>5. SettingsInstance
  BY NamesAssumption, BoundsAssumption DEF SettingsInstance
<1>6. PreviewInstance
  BY NamesAssumption, BoundsAssumption DEF PreviewInstance, Preview!Targets
<1>7. (Graph!TypeOK /\ Graph!SceneIsManaged) /\ Replay!TypeOK /\ Hub!TypeOK /\ Filters!TypeOK
         /\ Settings!TypeOK /\ TypeOK /\ Preview!TypeOK => ObjectsTypeOK
  BY Zenon DEF ObjectsTypeOK
<1> QED
  BY <1>1, <1>2, <1>3, <1>4, <1>5, <1>6, <1>7, ObjectsImplementComponents, SceneAlwaysManaged,
     ReplayTypeCorrect, HubTypeCorrect, FiltersTypeCorrect, SettingsTypeCorrect, TypeCorrect,
     PreviewTypeCorrect, PTL
=============================================================================
