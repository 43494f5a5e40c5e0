----------------------- MODULE OutputLifecycle_proofs ------------------------
(***************************************************************************)
(* Proofs about OutputLifecycle, for every set of callers and wirings and  *)
(* whatever fails.                                                         *)
(***************************************************************************)
EXTENDS OutputLifecycle, TLAPS

(* The type invariant in two parts: what the operations of the wrapper     *)
(* change, and what only libobs counts.                                    *)
WrapperTypes ==
    /\ lifecycle \in Threads \cup {None} /\ configuration \in Threads \cup {None}
    /\ slots \in Wirings \cup {None} /\ wired \in Wirings \cup {None}
    /\ pc \in [Threads -> Steps]
    /\ op \in [Threads -> Operations \cup {"none"}]
    /\ arg \in [Threads -> Wirings \cup {None}]
    /\ heard \in [Threads -> SUBSET Signals]
    /\ outcome \in {"none", "ok", "error", "timeout"}
    /\ phase \in {"inactive", "active", "ending"}
    /\ due \subseteq StopSignals \cup {"deactivate"}

FlagTypes == stopAsked \in BOOLEAN /\ paused \in BOOLEAN

CountTypes == /\ pauseQ \in Seq(Pauses) /\ Len(pauseQ) <= MaxPauses
              /\ starts \in 0..MaxStarts

(* Which operation may be at which step. *)
StepsMatch ==
    \A t \in Threads :
        /\ pc[t] = "idle" <=> op[t] = "none"
        /\ pc[t] \in {"queryPaused", "waitPause"} => op[t] \in Pauses
        /\ pc[t] \in {"waitStop", "waitDeactivate"} => op[t] = "stop"
        /\ pc[t] = "subscribe" => op[t] \in {"stop"} \cup Pauses
        /\ pc[t] = "commit" => op[t] = "set"
        /\ pc[t] = "configuration" => op[t] \notin Pauses

(* Past the configuration lock, which pauses do not take. *)
Configuring(t) ==
    /\ op[t] \notin Pauses
    /\ pc[t] \in {"query", "subscribe", "act", "lastError", "commit", "waitStop",
                  "waitDeactivate"}

LockIsHeld == \A t \in Threads : Configuring(t) <=> configuration = t

(* What the owner of the configuration lock may rely on. *)
OwnerKnows ==
    /\ (\A t \in Threads : pc[t] # "commit") => slots = wired
    /\ \A t \in Threads :
          /\ pc[t] = "commit" => arg[t] = wired
          /\ pc[t] = "act" /\ op[t] = "set" => phase = "inactive"
          /\ "deactivate" \in heard[t] =>
                Configuring(t) /\ op[t] = "stop" /\ phase = "inactive"

-----------------------------------------------------------------------------
(* What each kind of query does. *)
LEMMA QueryCases ==
    ASSUME NEW t \in Threads, WrapperTypes, StepsMatch, Query(t)
    PROVE  /\ \/ Return(t, "ok") /\ op[t] = "stop" /\ ~IsActive
              \/ Return(t, "error")
              \/ Continue(t, "act") /\ op[t] \in {"set", "start"} /\ ~IsActive
              \/ Continue(t, "subscribe") /\ op[t] = "stop"
              \/ Continue(t, "queryPaused") /\ op[t] \in Pauses
           /\ UNCHANGED <<slots, native>>
<1>1. op[t] \in {"set", "start"} \/ op[t] = "stop" \/ op[t] \in Pauses
  BY DEF WrapperTypes, StepsMatch, Query, Operations, Pauses
<1>2. CASE op[t] \in {"set", "start"}
  BY <1>2 DEF Query, Pauses
<1>3. CASE op[t] = "stop"
  BY <1>3 DEF Query, Pauses
<1>4. CASE op[t] \in Pauses
  BY <1>4 DEF Query, Pauses
<1> QED
  BY <1>1, <1>2, <1>3, <1>4

(* A call that returns gives back its locks and forgets its subscriptions. *)
LEMMA ReturnTypes ==
    ASSUME NEW t \in Threads, NEW how \in {"ok", "error", "timeout"}, WrapperTypes,
           Return(t, how), UNCHANGED <<slots, wired, phase, due>>
    PROVE  WrapperTypes'
BY DEF WrapperTypes, Return, Goto, Steps

(* Publishing a signal reaches only subscriptions for it. *)
LEMMA PublishTypes ==
    ASSUME NEW s, WrapperTypes, Publish(s)
    PROVE  heard' \in [Threads -> SUBSET Signals]
<1> ASSUME NEW t \in Threads PROVE Awaits(t) \subseteq Signals
  BY DEF Awaits, Signals, WrapperTypes, Operations, Pauses, StopSignals
<1> QED
  BY DEF Publish, WrapperTypes

(* The wrapper's variables keep their types and each operation its steps.  *)
LEMMA WrapperStep ==
    ASSUME WrapperTypes, StepsMatch, [Next]_vars
    PROVE  WrapperTypes' /\ StepsMatch'
<1>1. ASSUME NEW t \in Threads, NEW o \in Operations, NEW w \in Wirings \cup {None}, Begin(t, o, w)
      PROVE  WrapperTypes' /\ StepsMatch'
  <2>1. CASE t = Actor /\ o \in {"stop", "pause", "unpause"}
    <3>1. Return(t, "error") /\ UNCHANGED <<slots, native>>
      BY <1>1, <2>1 DEF Begin
    <3> QED
      BY <3>1, ReturnTypes DEF StepsMatch, Return, Goto, WrapperTypes, native, Steps
  <2>2. CASE ~(t = Actor /\ o \in {"stop", "pause", "unpause"})
    BY <1>1, <2>2 DEF Begin, Goto, WrapperTypes, StepsMatch, native, Steps, Operations, Pauses
  <2> QED
    BY <2>1, <2>2
<1>2. ASSUME NEW t \in Threads, LockLifecycle(t) PROVE WrapperTypes' /\ StepsMatch'
  BY <1>2 DEF LockLifecycle, Goto, WrapperTypes, StepsMatch, native, Steps, Operations, Pauses
<1>3. ASSUME NEW t \in Threads, LockConfiguration(t) PROVE WrapperTypes' /\ StepsMatch'
  BY <1>3 DEF LockConfiguration, Goto, WrapperTypes, StepsMatch, native, Steps
<1>4. ASSUME NEW t \in Threads, NEW how \in {"ok", "error", "timeout"},
             Return(t, how), UNCHANGED <<slots, wired, phase, due>>
      PROVE  WrapperTypes' /\ StepsMatch'
  BY <1>4, ReturnTypes DEF StepsMatch, Return, Goto, WrapperTypes
<1>5. ASSUME NEW t \in Threads, Query(t) PROVE WrapperTypes' /\ StepsMatch'
  <2>1. pc[t] = "query" /\ UNCHANGED <<slots, wired, phase, due>>
    BY <1>5, QueryCases DEF Query, native
  <2>2. ASSUME NEW how \in {"ok", "error"}, Return(t, how) PROVE WrapperTypes' /\ StepsMatch'
    BY <1>4, <2>1, <2>2
  <2>3. CASE Continue(t, "act")
    BY <2>1, <2>3 DEF Continue, Goto, WrapperTypes, StepsMatch, Steps
  <2>4. CASE Continue(t, "subscribe") /\ op[t] = "stop"
    BY <2>1, <2>4 DEF Continue, Goto, WrapperTypes, StepsMatch, Steps
  <2>5. CASE Continue(t, "queryPaused") /\ op[t] \in Pauses
    BY <2>1, <2>5 DEF Continue, Goto, WrapperTypes, StepsMatch, Steps
  <2> QED
    BY <1>5, <2>2, <2>3, <2>4, <2>5, QueryCases
<1>6. ASSUME NEW t \in Threads, QueryPaused(t) PROVE WrapperTypes' /\ StepsMatch'
  <2>1. CASE Return(t, "ok")
    BY <1>4, <1>6, <2>1 DEF QueryPaused, native
  <2>2. CASE Continue(t, "subscribe")
    BY <1>6, <2>2 DEF QueryPaused, native, Continue, Goto, WrapperTypes, StepsMatch, Steps
  <2> QED
    BY <1>6, <2>1, <2>2 DEF QueryPaused
<1>7. ASSUME NEW t \in Threads, Subscribe(t) PROVE WrapperTypes' /\ StepsMatch'
  BY <1>7 DEF Subscribe, native, Continue, Goto, WrapperTypes, StepsMatch, Steps
<1>8. ASSUME NEW t \in Threads, SetWiring(t) PROVE WrapperTypes' /\ StepsMatch'
  BY <1>8 DEF SetWiring, Continue, Goto, WrapperTypes, StepsMatch, Steps
<1>9. ASSUME NEW t \in Threads, CommitSlots(t) PROVE WrapperTypes' /\ StepsMatch'
  BY <1>9 DEF CommitSlots, Return, Goto, WrapperTypes, StepsMatch, native, Steps
<1>10. ASSUME NEW t \in Threads, StartOutput(t) PROVE WrapperTypes' /\ StepsMatch'
  <2>1. CASE Continue(t, "lastError") /\ UNCHANGED phase
    BY <1>10, <2>1 DEF StartOutput, Continue, Goto, WrapperTypes, StepsMatch, Steps
  <2>2. CASE Return(t, "ok") /\ phase' = "active"
    BY <1>10, <2>2 DEF StartOutput, Return, Goto, WrapperTypes, StepsMatch, Steps
  <2> QED
    BY <1>10, <2>1, <2>2 DEF StartOutput
<1>11. ASSUME NEW t \in Threads, LastError(t) \/ ActorFails(t) \/ Deadline(t) \/ HearDeactivate(t) \/ HearPause(t)
       PROVE  WrapperTypes' /\ StepsMatch'
  BY <1>4, <1>11 DEF LastError, ActorFails, Deadline, HearDeactivate, HearPause, native
<1>12. ASSUME NEW t \in Threads, AskStop(t) PROVE WrapperTypes' /\ StepsMatch'
  BY <1>12 DEF AskStop, Continue, Goto, WrapperTypes, StepsMatch, Steps
<1>13. ASSUME NEW t \in Threads, HearStop(t) PROVE WrapperTypes' /\ StepsMatch'
  <2>1. op[t] = "stop" /\ pc[t] # "idle"
    BY <1>13 DEF HearStop, StepsMatch
  <2> QED
    BY <1>4, <1>13, <2>1 DEF HearStop, native, Continue, Goto, WrapperTypes, StepsMatch, Steps
<1>14. ASSUME NEW t \in Threads, AskPause(t) PROVE WrapperTypes' /\ StepsMatch'
  <2>1. CASE Continue(t, "waitPause") \/ Continue(t, "lastError")
    BY <1>14, <2>1 DEF AskPause, Continue, Goto, WrapperTypes, StepsMatch, Steps
  <2> QED
    BY <1>14, <2>1 DEF AskPause
<1>15. CASE NativeEnd
  BY <1>15, CodesAssumption DEF NativeEnd, WrapperTypes, StepsMatch
<1>16. ASSUME NEW s \in due, NativeSignal(s) PROVE WrapperTypes' /\ StepsMatch'
  BY <1>16, PublishTypes DEF NativeSignal, WrapperTypes, StepsMatch
<1>17. CASE NativePause
  BY <1>17, PublishTypes DEF NativePause, WrapperTypes, StepsMatch
<1>18. CASE UNCHANGED vars
  BY <1>18 DEF vars, WrapperTypes, StepsMatch
<1> QED
  BY <1>1, <1>2, <1>3, <1>5, <1>6, <1>7, <1>8, <1>9, <1>10, <1>11, <1>12, <1>13, <1>14, <1>15,
     <1>16, <1>17, <1>18 DEF Next, Step, Libobs

-----------------------------------------------------------------------------
(* What libobs says of stopping and pausing stays Boolean. *)
LEMMA FlagStep == ASSUME FlagTypes, [Next]_vars PROVE FlagTypes'
<1>1. ASSUME NEW t \in Threads, Step(t) \/ Deadline(t) \/ ActorFails(t) PROVE FlagTypes'
  <2>1. CASE AskStop(t)
    BY <2>1 DEF AskStop, FlagTypes
  <2>2. CASE ~AskStop(t)
    BY <1>1, <2>2 DEF Step, Deadline, ActorFails, LockLifecycle, LockConfiguration, Query, QueryPaused,
         Subscribe, SetWiring, CommitSlots, StartOutput, LastError, HearStop, HearDeactivate, AskPause,
         HearPause, native, FlagTypes
  <2> QED
    BY <2>1, <2>2
<1>2. ASSUME NEW t \in Threads, NEW o \in Operations, NEW w \in Wirings \cup {None}, Begin(t, o, w)
      PROVE  FlagTypes'
  BY <1>2 DEF Begin, native, FlagTypes
<1>3. CASE NativeEnd
  BY <1>3 DEF NativeEnd, FlagTypes
<1>4. ASSUME NEW s \in due, NativeSignal(s) PROVE FlagTypes'
  BY <1>4 DEF NativeSignal, FlagTypes
<1>5. CASE NativePause
  BY <1>5 DEF NativePause, FlagTypes
<1>6. CASE UNCHANGED vars
  BY <1>6 DEF vars, FlagTypes
<1> QED
  BY <1>1, <1>2, <1>3, <1>4, <1>5, <1>6 DEF Next, Libobs

(* Starts and unanswered pause requests stay within their bounds. *)
LEMMA CountStep == ASSUME CountTypes, WrapperTypes, [Next]_vars PROVE CountTypes'
<1>1. ASSUME NEW t \in Threads, Step(t) \/ Deadline(t) \/ ActorFails(t) PROVE CountTypes'
  <2>1. CASE StartOutput(t)
    <3>1. \/ starts' = starts
          \/ starts < MaxStarts /\ starts' = starts + 1
      BY <2>1 DEF StartOutput
    <3>2. UNCHANGED pauseQ
      BY <2>1 DEF StartOutput
    <3> QED
      BY <3>1, <3>2, BoundsAssumption DEF CountTypes
  <2>2. CASE AskPause(t)
    <3>1. UNCHANGED starts
      BY <2>2 DEF AskPause
    <3>2. op[t] \in Pauses
      BY <2>2 DEF AskPause
    <3>3. \/ UNCHANGED pauseQ
          \/ Len(pauseQ) < MaxPauses /\ pauseQ' = Append(pauseQ, op[t])
      BY <2>2 DEF AskPause
    <3> QED
      BY <3>1, <3>2, <3>3, BoundsAssumption DEF CountTypes
  <2>3. CASE ~StartOutput(t) /\ ~AskPause(t)
    <3>1. UNCHANGED <<pauseQ, starts>>
      BY <1>1, <2>3 DEF Step, Deadline, ActorFails, LockLifecycle, LockConfiguration, Query, QueryPaused,
           Subscribe, SetWiring, CommitSlots, LastError, AskStop, HearStop, HearDeactivate, HearPause,
           native
    <3> QED
      BY <3>1 DEF CountTypes
  <2> QED
    BY <2>1, <2>2, <2>3
<1>2. ASSUME NEW t \in Threads, NEW o \in Operations, NEW w \in Wirings \cup {None}, Begin(t, o, w)
      PROVE  CountTypes'
  BY <1>2 DEF Begin, native, CountTypes
<1>3. CASE NativeEnd
  BY <1>3 DEF NativeEnd, CountTypes
<1>4. ASSUME NEW s \in due, NativeSignal(s) PROVE CountTypes'
  <2>1. UNCHANGED starts /\ (pauseQ' = <<>> \/ pauseQ' = pauseQ)
    BY <1>4 DEF NativeSignal
  <2>2. <<>> \in Seq(Pauses) /\ Len(<<>>) <= MaxPauses
    BY BoundsAssumption
  <2> QED
    BY <2>1, <2>2 DEF CountTypes
<1>5. CASE NativePause
  <2>1. pauseQ # <<>> /\ pauseQ' = Tail(pauseQ) /\ UNCHANGED starts
    BY <1>5 DEF NativePause
  <2> QED
    BY <2>1, BoundsAssumption DEF CountTypes
<1>6. CASE UNCHANGED vars
  BY <1>6 DEF vars, CountTypes
<1> QED
  BY <1>1, <1>2, <1>3, <1>4, <1>5, <1>6 DEF Next, Libobs

(* Operations keep to their steps, whatever libobs and the clock do. *)
THEOREM StepsAlwaysMatch == Spec => [](WrapperTypes /\ StepsMatch)
<1>1. Init => WrapperTypes /\ StepsMatch
  BY DEF Init, WrapperTypes, StepsMatch, Steps, Pauses
<1>2. WrapperTypes /\ StepsMatch /\ [Next]_vars => (WrapperTypes /\ StepsMatch)'
  BY WrapperStep
<1> QED
  BY <1>1, <1>2, PTL DEF Spec

(* Every variable keeps its type, and libobs never owes more answers to    *)
(* pause requests than MaxPauses.                                          *)
THEOREM TypeCorrect == Spec => []TypeOK
<1>1. Init => FlagTypes
  BY DEF Init, FlagTypes
<1>2. Init => CountTypes
  BY BoundsAssumption DEF Init, CountTypes
<1>3. FlagTypes /\ [Next]_vars => FlagTypes'
  BY FlagStep
<1>4. CountTypes /\ WrapperTypes /\ [Next]_vars => CountTypes'
  BY CountStep
<1>5. WrapperTypes /\ FlagTypes /\ CountTypes => TypeOK
  BY DEF WrapperTypes, FlagTypes, CountTypes, TypeOK
<1> QED
  BY <1>1, <1>2, <1>3, <1>4, <1>5, StepsAlwaysMatch, PTL DEF Spec

-----------------------------------------------------------------------------
(* Exactly the owner of the configuration lock is past taking it. *)
LEMMA LockStep ==
    ASSUME WrapperTypes, StepsMatch, LockIsHeld, [Next]_vars
    PROVE  LockIsHeld'
<1>1. ASSUME NEW t \in Threads, NEW how, Return(t, how) PROVE LockIsHeld'
  BY <1>1, NoneAssumption DEF WrapperTypes, LockIsHeld, Configuring, Return, Goto
<1>2. ASSUME NEW t \in Threads, NEW o \in Operations, NEW w \in Wirings \cup {None}, Begin(t, o, w)
      PROVE  LockIsHeld'
  <2>1. CASE t = Actor /\ o \in {"stop", "pause", "unpause"}
    BY <1>1, <1>2, <2>1 DEF Begin
  <2>2. CASE ~(t = Actor /\ o \in {"stop", "pause", "unpause"})
    BY <1>2, <2>2 DEF Begin, Goto, WrapperTypes, LockIsHeld, Configuring
  <2> QED
    BY <2>1, <2>2
<1>3. ASSUME NEW t \in Threads, LockLifecycle(t) PROVE LockIsHeld'
  BY <1>3 DEF LockLifecycle, Goto, WrapperTypes, LockIsHeld, Configuring
<1>4. ASSUME NEW t \in Threads, LockConfiguration(t) PROVE LockIsHeld'
  BY <1>4, NoneAssumption DEF LockConfiguration, Goto, WrapperTypes, StepsMatch, LockIsHeld, Configuring
<1>5. ASSUME NEW t \in Threads, Query(t) PROVE LockIsHeld'
  <2>1. pc[t] = "query"
    BY <1>5 DEF Query
  <2>2. CASE Continue(t, "act") /\ op[t] \in {"set", "start"}
    BY <2>1, <2>2 DEF Continue, Goto, WrapperTypes, LockIsHeld, Configuring
  <2>3. CASE Continue(t, "subscribe") /\ op[t] = "stop"
    BY <2>1, <2>3 DEF Continue, Goto, WrapperTypes, LockIsHeld, Configuring
  <2>4. CASE Continue(t, "queryPaused") /\ op[t] \in Pauses
    BY <2>1, <2>4 DEF Continue, Goto, WrapperTypes, LockIsHeld, Configuring
  <2> QED
    BY <1>1, <1>5, <2>2, <2>3, <2>4, QueryCases
<1>6. ASSUME NEW t \in Threads, QueryPaused(t) PROVE LockIsHeld'
  <2>1. CASE Continue(t, "subscribe")
    BY <1>6, <2>1 DEF QueryPaused, Continue, Goto, WrapperTypes, StepsMatch, LockIsHeld, Configuring
  <2> QED
    BY <1>1, <1>6, <2>1 DEF QueryPaused
<1>7. ASSUME NEW t \in Threads, Subscribe(t) PROVE LockIsHeld'
  BY <1>7 DEF Subscribe, Continue, Goto, WrapperTypes, LockIsHeld, Configuring
<1>8. ASSUME NEW t \in Threads, SetWiring(t) PROVE LockIsHeld'
  BY <1>8 DEF SetWiring, Continue, Goto, WrapperTypes, LockIsHeld, Configuring
<1>9. ASSUME NEW t \in Threads, StartOutput(t) PROVE LockIsHeld'
  <2>1. CASE Continue(t, "lastError")
    BY <1>9, <2>1 DEF StartOutput, Continue, Goto, WrapperTypes, LockIsHeld, Configuring
  <2> QED
    BY <1>1, <1>9, <2>1 DEF StartOutput
<1>10. ASSUME NEW t \in Threads, AskStop(t) PROVE LockIsHeld'
  BY <1>10 DEF AskStop, Continue, Goto, WrapperTypes, LockIsHeld, Configuring
<1>11. ASSUME NEW t \in Threads, HearStop(t) PROVE LockIsHeld'
  <2>1. CASE Continue(t, "waitDeactivate")
    BY <1>11, <2>1 DEF HearStop, Continue, Goto, WrapperTypes, LockIsHeld, Configuring
  <2> QED
    BY <1>1, <1>11, <2>1 DEF HearStop
<1>12. ASSUME NEW t \in Threads, AskPause(t) PROVE LockIsHeld'
  <2>1. CASE Continue(t, "waitPause")
    BY <1>12, <2>1 DEF AskPause, Continue, Goto, WrapperTypes, LockIsHeld, Configuring
  <2>2. CASE Continue(t, "lastError")
    BY <1>12, <2>2 DEF AskPause, Continue, Goto, WrapperTypes, LockIsHeld, Configuring
  <2> QED
    BY <1>12, <2>1, <2>2 DEF AskPause
<1>13. ASSUME NEW t \in Threads,
              CommitSlots(t) \/ LastError(t) \/ ActorFails(t) \/ Deadline(t) \/ HearDeactivate(t) \/ HearPause(t)
       PROVE  LockIsHeld'
  BY <1>1, <1>13 DEF CommitSlots, LastError, ActorFails, Deadline, HearDeactivate, HearPause
<1>14. CASE Libobs \/ UNCHANGED vars
  BY <1>14 DEF Libobs, NativeEnd, NativeSignal, NativePause, vars, LockIsHeld, Configuring
<1> QED
  BY <1>2, <1>3, <1>4, <1>5, <1>6, <1>7, <1>8, <1>9, <1>10, <1>11, <1>12, <1>13, <1>14 DEF Next, Step

(* The configuration lock (output/mod.rs:98) has one owner from the query  *)
(* to the return of every operation but a pause.                           *)
THEOREM LockAlwaysHeld == Spec => []LockIsHeld
<1>1. Init => LockIsHeld
  BY NoneAssumption DEF Init, LockIsHeld, Configuring
<1>2. WrapperTypes /\ StepsMatch /\ LockIsHeld /\ [Next]_vars => LockIsHeld'
  BY LockStep
<1> QED
  BY <1>1, <1>2, StepsAlwaysMatch, PTL DEF Spec

-----------------------------------------------------------------------------
OwnerTypes == WrapperTypes /\ StepsMatch /\ LockIsHeld

(* What the owner relies on stays true. *)
LEMMA OwnerStep ==
    ASSUME OwnerTypes, CountTypes, OwnerKnows, [Next]_vars
    PROVE  OwnerKnows'
<1> USE DEF OwnerTypes
<1>1. ASSUME NEW t \in Threads, NEW how, Return(t, how), pc[t] # "commit",
             UNCHANGED <<slots, wired, phase>>
      PROVE  OwnerKnows'
  BY <1>1 DEF WrapperTypes, OwnerKnows, Configuring, Return, Goto
<1>2. ASSUME NEW t \in Threads, NEW o \in Operations, NEW w \in Wirings \cup {None}, Begin(t, o, w)
      PROVE  OwnerKnows'
  <2>1. CASE t = Actor /\ o \in {"stop", "pause", "unpause"}
    <3>1. Return(t, "error") /\ pc[t] # "commit" /\ UNCHANGED <<slots, wired, phase>>
      BY <1>2, <2>1 DEF Begin, native
    <3> QED
      BY <1>1, <3>1
  <2>2. CASE ~(t = Actor /\ o \in {"stop", "pause", "unpause"})
    BY <1>2, <2>2 DEF Begin, Goto, native, WrapperTypes, OwnerKnows, Configuring
  <2> QED
    BY <2>1, <2>2
<1>3. ASSUME NEW t \in Threads, LockLifecycle(t) PROVE OwnerKnows'
  BY <1>3 DEF LockLifecycle, Goto, native, WrapperTypes, OwnerKnows, Configuring
<1>4. ASSUME NEW t \in Threads, LockConfiguration(t) PROVE OwnerKnows'
  BY <1>4 DEF LockConfiguration, Goto, native, WrapperTypes, OwnerKnows, Configuring
<1>5. ASSUME NEW t \in Threads, Query(t) PROVE OwnerKnows'
  <2>1. pc[t] = "query" /\ UNCHANGED <<slots, wired, phase>>
    BY <1>5, QueryCases DEF Query, native
  <2>2. CASE Continue(t, "act") /\ ~IsActive
    BY <2>1, <2>2 DEF Continue, Goto, WrapperTypes, OwnerKnows, Configuring, IsActive
  <2>3. CASE Continue(t, "subscribe")
    BY <2>1, <2>3 DEF Continue, Goto, WrapperTypes, OwnerKnows, Configuring
  <2>4. CASE Continue(t, "queryPaused") /\ op[t] \in Pauses
    BY <2>1, <2>4 DEF Continue, Goto, WrapperTypes, OwnerKnows, Configuring
  <2> QED
    BY <1>1, <1>5, <2>1, <2>2, <2>3, <2>4, QueryCases
<1>6. ASSUME NEW t \in Threads, QueryPaused(t) PROVE OwnerKnows'
  <2>1. CASE Continue(t, "subscribe")
    BY <1>6, <2>1 DEF QueryPaused, Continue, Goto, native, WrapperTypes, StepsMatch, OwnerKnows, Configuring
  <2>2. CASE Return(t, "ok")
    <3>1. pc[t] # "commit" /\ UNCHANGED <<slots, wired, phase>>
      BY <1>6 DEF QueryPaused, native
    <3> QED
      BY <1>1, <2>2, <3>1
  <2>3. Return(t, "ok") \/ Continue(t, "subscribe")
    BY <1>6 DEF QueryPaused
  <2> QED
    BY <2>1, <2>2, <2>3
<1>7. ASSUME NEW t \in Threads, Subscribe(t) PROVE OwnerKnows'
  BY <1>7 DEF Subscribe, Continue, Goto, native, WrapperTypes, StepsMatch, Pauses, OwnerKnows, Configuring
<1>8. ASSUME NEW t \in Threads, SetWiring(t) PROVE OwnerKnows'
  <2>1. \A u \in Threads : pc[u] = "commit" => u = t
    BY <1>8 DEF SetWiring, StepsMatch, LockIsHeld, Configuring, Pauses
  <2>2. pc'[t] = "commit" /\ wired' = arg[t]
    BY <1>8 DEF SetWiring, Continue, Goto, WrapperTypes
  <2> QED
    BY <1>8, <2>1, <2>2 DEF SetWiring, Continue, Goto, WrapperTypes, OwnerKnows, Configuring
<1>9. ASSUME NEW t \in Threads, CommitSlots(t) PROVE OwnerKnows'
  <2>1. \A u \in Threads : pc[u] = "commit" => u = t
    BY <1>9 DEF CommitSlots, StepsMatch, LockIsHeld, Configuring, Pauses
  <2>2. slots' = wired'
    BY <1>9 DEF CommitSlots, OwnerKnows, native
  <2> QED
    BY <1>9, <2>1, <2>2 DEF CommitSlots, Return, Goto, native, WrapperTypes, OwnerKnows, Configuring
<1>10. ASSUME NEW t \in Threads, StartOutput(t) PROVE OwnerKnows'
  <2>1. CASE Continue(t, "lastError") /\ UNCHANGED phase
    BY <1>10, <2>1 DEF StartOutput, Continue, Goto, WrapperTypes, OwnerKnows, Configuring
  <2>2. CASE Return(t, "ok") /\ phase' = "active"
    <3>1. \A u \in Threads : Configuring(u) => u = t
      BY <1>10 DEF StartOutput, LockIsHeld, Configuring, Pauses
    <3> QED
      BY <1>10, <2>2, <3>1 DEF StartOutput, Return, Goto, WrapperTypes, OwnerKnows, Configuring, Pauses
  <2> QED
    BY <1>10, <2>1, <2>2 DEF StartOutput
<1>11. ASSUME NEW t \in Threads, AskStop(t) PROVE OwnerKnows'
  BY <1>11 DEF AskStop, Continue, Goto, WrapperTypes, OwnerKnows, Configuring
<1>12. ASSUME NEW t \in Threads, HearStop(t) PROVE OwnerKnows'
  <2>1. CASE Continue(t, "waitDeactivate")
    BY <1>12, <2>1 DEF HearStop, Continue, Goto, native, WrapperTypes, OwnerKnows, Configuring
  <2> QED
    BY <1>1, <1>12, <2>1 DEF HearStop, native
<1>13. ASSUME NEW t \in Threads, AskPause(t) PROVE OwnerKnows'
  <2>1. CASE Continue(t, "waitPause")
    BY <1>13, <2>1 DEF AskPause, Continue, Goto, WrapperTypes, OwnerKnows, Configuring, Pauses
  <2>2. CASE Continue(t, "lastError")
    BY <1>13, <2>2 DEF AskPause, Continue, Goto, WrapperTypes, OwnerKnows, Configuring
  <2> QED
    BY <1>13, <2>1, <2>2 DEF AskPause
<1>14. ASSUME NEW t \in Threads,
              LastError(t) \/ ActorFails(t) \/ Deadline(t) \/ HearDeactivate(t) \/ HearPause(t)
       PROVE  OwnerKnows'
  BY <1>1, <1>14 DEF LastError, ActorFails, Deadline, HearDeactivate, HearPause, native
<1>15. CASE NativeEnd
  <2>1. UNCHANGED <<pc, op, arg, heard, slots, wired>> /\ phase = "active"
    BY <1>15 DEF NativeEnd
  <2> QED
    BY <2>1 DEF OwnerKnows, Configuring
<1>16. ASSUME NEW s \in due, NativeSignal(s) PROVE OwnerKnows'
  <2>1. UNCHANGED <<pc, op, arg, slots, wired>>
    BY <1>16 DEF NativeSignal
  <2>2. phase' = phase \/ phase' = "inactive"
    BY <1>16 DEF NativeSignal
  <2>3. s = "deactivate" => phase' = "inactive"
    BY <1>16 DEF NativeSignal
  <2>4. ASSUME NEW u \in Threads, "deactivate" \in heard'[u]
        PROVE  \/ "deactivate" \in heard[u]
               \/ /\ Configuring(u) /\ op[u] = "stop"
                  /\ s = "deactivate"
    BY <1>16, <2>4 DEF NativeSignal, Publish, Awaits, Configuring, Pauses, WrapperTypes, StepsMatch, Operations
  <2> QED
    BY <2>1, <2>2, <2>3, <2>4 DEF OwnerKnows, Configuring
<1>17. CASE NativePause
  <2>1. UNCHANGED <<pc, op, arg, slots, wired, phase>>
    BY <1>17 DEF NativePause
  <2>2. Head(pauseQ) \in Pauses
    BY <1>17 DEF NativePause, CountTypes
  <2>3. ASSUME NEW u \in Threads, "deactivate" \in heard'[u] PROVE "deactivate" \in heard[u]
    BY <1>17, <2>2, <2>3 DEF NativePause, Publish, Pauses
  <2> QED
    BY <2>1, <2>3 DEF OwnerKnows, Configuring
<1>18. CASE UNCHANGED vars
  BY <1>18 DEF vars, OwnerKnows, Configuring
<1> QED
  BY <1>2, <1>3, <1>4, <1>5, <1>6, <1>7, <1>8, <1>9, <1>10, <1>11, <1>12, <1>13, <1>14, <1>15,
     <1>16, <1>17, <1>18 DEF Next, Step, Libobs

(* While a setter has the lock the output stays inactive, and a deactivate *)
(* signal that a stop has heard is never followed by a start before it     *)
(* returns.                                                                *)
THEOREM OwnerAlwaysKnows == Spec => []OwnerKnows
<1>1. Init => CountTypes /\ OwnerKnows
  BY BoundsAssumption DEF Init, CountTypes, OwnerKnows
<1>2. OwnerTypes /\ CountTypes /\ OwnerKnows /\ [Next]_vars => CountTypes' /\ OwnerKnows'
  BY OwnerStep, CountStep DEF OwnerTypes
<1> QED
  BY <1>1, <1>2, StepsAlwaysMatch, LockAlwaysHeld, PTL DEF Spec, OwnerTypes

(* Whenever no operation has the configuration lock, what the wrapper      *)
(* retains is what libobs uses (the setters and apply_composition).        *)
THEOREM SlotsAlwaysMatch == Spec => []SlotsMatchNative
<1>1. OwnerTypes /\ OwnerKnows => SlotsMatchNative
  <2> SUFFICES ASSUME OwnerTypes, OwnerKnows, configuration = None PROVE slots = wired
    BY DEF SlotsMatchNative
  <2>1. ASSUME NEW t \in Threads PROVE pc[t] # "commit"
    BY NoneAssumption DEF OwnerTypes, StepsMatch, LockIsHeld, Configuring, Pauses
  <2> QED
    BY <2>1 DEF OwnerKnows
<1> QED
  BY <1>1, StepsAlwaysMatch, LockAlwaysHeld, OwnerAlwaysKnows, PTL DEF OwnerTypes

(* The wiring of an output in use never changes: the lock keeps every      *)
(* start out between the query of a setter and what it sets.               *)
THEOREM WiringAlwaysFrozen == Spec => WiringFrozen
<1>1. OwnerKnows /\ [Next]_vars => [IsActive => wired' = wired]_vars
  <2> SUFFICES ASSUME OwnerKnows, Next, IsActive PROVE wired' = wired
    OBVIOUS
  <2>1. ASSUME NEW t \in Threads, Step(t) PROVE wired' = wired
    <3>1. CASE SetWiring(t)
      BY <3>1 DEF SetWiring, OwnerKnows, IsActive
    <3>2. CASE ~SetWiring(t)
      BY <2>1, <3>2 DEF Step, LockLifecycle, LockConfiguration, Query, QueryPaused, Subscribe, CommitSlots,
           StartOutput, LastError, AskStop, HearStop, HearDeactivate, AskPause, HearPause, native
    <3> QED
      BY <3>1, <3>2
  <2> QED
    BY <2>1 DEF Next, Libobs, Begin, Deadline, ActorFails, NativeEnd, NativeSignal, NativePause, native
<1> QED
  BY <1>1, OwnerAlwaysKnows, PTL DEF Spec, WiringFrozen

(* What StopMeansStopped says of one step. *)
StopEnds ==
    \A t \in Threads :
        op[t] = "stop" /\ pc[t] # "idle" /\ pc'[t] = "idle" /\ outcome' = "ok"
            => phase' = "inactive"

(* A stop that reports success leaves the output inactive, whichever late  *)
(* signals it heard (stop_impl).                                           *)
THEOREM StopAlwaysStops == Spec => StopMeansStopped
<1>1. OwnerTypes /\ OwnerKnows /\ [Next]_vars => [StopEnds]_vars
  <2> SUFFICES ASSUME OwnerTypes, OwnerKnows, Next,
                      NEW t \in Threads, op[t] = "stop", pc[t] # "idle", pc'[t] = "idle", outcome' = "ok"
               PROVE  phase' = "inactive"
    BY DEF StopEnds
  <2> USE DEF OwnerTypes
  <2>1. ASSUME NEW u \in Threads, NEW to, to # "idle", Goto(u, to) PROVE FALSE
    BY <2>1 DEF Goto, WrapperTypes
  <2>2. ASSUME NEW u \in Threads, u # t, NEW to, Goto(u, to) PROVE FALSE
    BY <2>2 DEF Goto, WrapperTypes
  <2>3. ~ UNCHANGED pc
    OBVIOUS
  <2>4. ASSUME NEW u \in Threads, NEW o \in Operations, NEW w \in Wirings \cup {None}, Begin(u, o, w)
        PROVE  FALSE
    BY <2>2, <2>4 DEF Begin, Return
  <2>5. ~Libobs
    BY <2>3 DEF Libobs, NativeEnd, NativeSignal, NativePause
  <2>6. ASSUME NEW u \in Threads, Step(u) \/ Deadline(u) \/ ActorFails(u) PROVE phase' = "inactive"
    <3>1. u = t
      <4>1. ASSUME NEW how, Return(u, how) PROVE u = t
        BY <2>2, <4>1 DEF Return
      <4>2. ASSUME NEW to, Continue(u, to) PROVE u = t
        BY <2>2, <4>2 DEF Continue
      <4>3. CASE Query(u)
        BY <4>1, <4>2, <4>3, QueryCases
      <4>4. CASE QueryPaused(u) \/ StartOutput(u) \/ HearStop(u) \/ AskPause(u)
        BY <4>1, <4>2, <4>4 DEF QueryPaused, StartOutput, HearStop, AskPause
      <4>5. CASE Subscribe(u) \/ SetWiring(u) \/ AskStop(u) \/ LockLifecycle(u) \/ LockConfiguration(u)
        BY <2>2, <4>2, <4>5 DEF Subscribe, SetWiring, AskStop, LockLifecycle, LockConfiguration
      <4>6. CASE CommitSlots(u) \/ LastError(u) \/ HearDeactivate(u) \/ HearPause(u) \/ Deadline(u) \/ ActorFails(u)
        BY <4>1, <4>6 DEF CommitSlots, LastError, HearDeactivate, HearPause, Deadline, ActorFails
      <4> QED
        BY <2>6, <4>3, <4>4, <4>5, <4>6 DEF Step
    <3>2. ASSUME NEW to, to # "idle", Continue(t, to) PROVE FALSE
      BY <2>1, <3>2 DEF Continue
    <3>3. ASSUME NEW how, how # "ok", Return(t, how) PROVE FALSE
      BY <3>3 DEF Return
    <3>4. CASE Query(t)
      BY <3>2, <3>3, <3>4, QueryCases DEF IsActive, WrapperTypes, native
    <3>5. CASE HearStop(t)
      <4>1. Return(t, "error") \/ Continue(t, "waitDeactivate")
        BY <3>5 DEF HearStop
      <4> QED
        BY <3>2, <3>3, <4>1
    <3>6. CASE HearDeactivate(t)
      BY <3>6 DEF HearDeactivate, OwnerKnows, native
    <3>7. CASE Subscribe(t) \/ AskStop(t) \/ LastError(t) \/ Deadline(t) \/ ActorFails(t)
      BY <3>2, <3>3, <3>7 DEF Subscribe, AskStop, LastError, Deadline, ActorFails
    <3>8. CASE LockLifecycle(t) \/ LockConfiguration(t)
      BY <2>1, <3>8 DEF LockLifecycle, LockConfiguration
    <3>9. ~QueryPaused(t) /\ ~HearPause(t)
      BY DEF QueryPaused, HearPause, StepsMatch, Pauses
    <3>10. ~SetWiring(t) /\ ~CommitSlots(t) /\ ~StartOutput(t) /\ ~AskPause(t)
      BY DEF SetWiring, CommitSlots, StartOutput, AskPause, StepsMatch, Pauses
    <3> QED
      BY <2>6, <3>1, <3>4, <3>5, <3>6, <3>7, <3>8, <3>9, <3>10 DEF Step
  <2> QED
    BY <2>4, <2>5, <2>6 DEF Next
<1> QED
  BY <1>1, StepsAlwaysMatch, LockAlwaysHeld, OwnerAlwaysKnows, PTL DEF Spec, StopMeansStopped, OwnerTypes, StopEnds
-----------------------------------------------------------------------------
(* What the order of the pause requests lets a pause rely on. *)

State == IF paused THEN "pause" ELSE "unpause"

(* Every operation but a setter has the lifecycle lock (output/mod.rs:97). *)
LifecycleHeld ==
    \A t \in Threads : op[t] # "set" /\ pc[t] \notin {"idle", "lifecycle"} => lifecycle = t

Before == {"idle", "lifecycle", "configuration", "query", "queryPaused"}

Settling(t) == op[t] \in Pauses /\ pc[t] \in {"subscribe", "act", "waitPause"}

(* The requests libobs owes first repeat its state and then change it, at  *)
(* most once, to what the one settling pause asks for.                     *)
PausesKnown ==
    /\ \A i, j \in 1..Len(pauseQ) : i < j /\ pauseQ[i] # State => pauseQ[j] # State
    /\ phase = "inactive" => pauseQ = <<>>
    /\ \A t \in Threads :
          /\ pc[t] \in Before => heard[t] \cap Pauses = {}
          /\ Settling(t) =>
                /\ \A i \in 1..Len(pauseQ) : pauseQ[i] # State => pauseQ[i] = op[t]
                /\ op[t] \in heard[t] => State = op[t] \/ phase = "inactive"

(* The lifecycle lock is kept from its taking to the return. *)
LEMMA LifecycleStep ==
    ASSUME WrapperTypes, StepsMatch, LifecycleHeld, [Next]_vars
    PROVE  LifecycleHeld'
<1>1. ASSUME NEW t \in Threads, NEW how, Return(t, how) PROVE LifecycleHeld'
  BY <1>1 DEF WrapperTypes, LifecycleHeld, Return, Goto
<1>2. ASSUME NEW t \in Threads, NEW to, Continue(t, to), pc[t] \notin {"idle", "lifecycle"}
      PROVE  LifecycleHeld'
  BY <1>2 DEF WrapperTypes, LifecycleHeld, Continue, Goto
<1>3. ASSUME NEW t \in Threads, NEW o \in Operations, NEW w \in Wirings \cup {None}, Begin(t, o, w)
      PROVE  LifecycleHeld'
  <2>1. CASE t = Actor /\ o \in {"stop", "pause", "unpause"}
    BY <1>1, <1>3, <2>1 DEF Begin
  <2>2. CASE ~(t = Actor /\ o \in {"stop", "pause", "unpause"})
    BY <1>3, <2>2 DEF Begin, Goto, WrapperTypes, LifecycleHeld
  <2> QED
    BY <2>1, <2>2
<1>4. ASSUME NEW t \in Threads, LockLifecycle(t) PROVE LifecycleHeld'
  BY <1>4, NoneAssumption DEF LockLifecycle, Goto, WrapperTypes, LifecycleHeld
<1>5. ASSUME NEW t \in Threads, LockConfiguration(t) PROVE LifecycleHeld'
  BY <1>5 DEF LockConfiguration, Goto, WrapperTypes, LifecycleHeld
<1>6. ASSUME NEW t \in Threads, Query(t) PROVE LifecycleHeld'
  <2>1. pc[t] = "query"
    BY <1>6 DEF Query
  <2> QED
    BY <1>1, <1>2, <1>6, <2>1, QueryCases
<1>7. ASSUME NEW t \in Threads,
             QueryPaused(t) \/ StartOutput(t) \/ HearStop(t) \/ AskPause(t) \/ Subscribe(t)
             \/ SetWiring(t) \/ AskStop(t)
      PROVE  LifecycleHeld'
  BY <1>1, <1>2, <1>7 DEF QueryPaused, StartOutput, HearStop, AskPause, Subscribe, SetWiring, AskStop
<1>8. ASSUME NEW t \in Threads,
             CommitSlots(t) \/ LastError(t) \/ ActorFails(t) \/ Deadline(t) \/ HearDeactivate(t) \/ HearPause(t)
      PROVE  LifecycleHeld'
  BY <1>1, <1>8 DEF CommitSlots, LastError, ActorFails, Deadline, HearDeactivate, HearPause
<1>9. CASE Libobs \/ UNCHANGED vars
  BY <1>9 DEF Libobs, NativeEnd, NativeSignal, NativePause, vars, LifecycleHeld
<1> QED
  BY <1>3, <1>4, <1>5, <1>6, <1>7, <1>8, <1>9 DEF Next, Step

PauseTypes == WrapperTypes /\ StepsMatch /\ FlagTypes /\ CountTypes /\ LifecycleHeld

(* Whatever a thread does without libobs keeps it, if it does not settle.  *)
LEMMA PausesKept ==
    ASSUME PauseTypes, PausesKnown, NEW t \in Threads, UNCHANGED <<phase, paused, pauseQ>>,
           \/ \E how : Return(t, how)
           \/ \E to : Continue(t, to) /\ pc[t] \notin Before /\ to \notin Before
                      /\ (Settling(t)' => Settling(t))
           \/ /\ UNCHANGED heard /\ \E to \in Before : pc' = [pc EXCEPT ![t] = to]
              /\ pc[t] \in Before /\ \A u \in Threads : u # t => op'[u] = op[u]
           \/ Continue(t, "act") /\ op[t] \notin Pauses
           \/ Continue(t, "subscribe") /\ op[t] \notin Pauses
           \/ Continue(t, "queryPaused") /\ pc[t] = "query"
    PROVE  PausesKnown'
<1>1. State' = State /\ pauseQ' = pauseQ /\ phase' = phase
  BY DEF State
<1>2. ASSUME NEW u \in Threads, u # t PROVE UNCHANGED <<pc[u], op[u], heard[u]>>
  BY <1>2 DEF PauseTypes, WrapperTypes, Return, Continue, Goto
<1>3. /\ pc'[t] \in Before => heard'[t] \cap Pauses = {}
      /\ Settling(t)' => Settling(t) /\ op'[t] = op[t] /\ heard'[t] = heard[t]
  BY DEF PauseTypes, WrapperTypes, PausesKnown, Return, Continue, Goto, Settling, Before
<1>4. \A i, j \in 1..Len(pauseQ) : i < j /\ pauseQ[i] # State => pauseQ[j] # State
  BY DEF PausesKnown
<1>5. ASSUME NEW u \in Threads
      PROVE  /\ pc'[u] \in Before => heard'[u] \cap Pauses = {}
             /\ Settling(u)' =>
                   /\ \A i \in 1..Len(pauseQ') : pauseQ'[i] # State' => pauseQ'[i] = op'[u]
                   /\ op'[u] \in heard'[u] => State' = op'[u] \/ phase' = "inactive"
  <2>1. CASE u = t
    BY <1>1, <1>3, <2>1 DEF PausesKnown
  <2>2. CASE u # t
    BY <1>1, <1>2, <2>2 DEF PausesKnown, Settling
  <2> QED
    BY <2>1, <2>2
<1> QED
  BY <1>1, <1>4, <1>5 DEF PausesKnown
(* The query of a pause has found libobs in the other state. *)
LEMMA PausedQueried ==
    ASSUME PauseTypes, PausesKnown, NEW t \in Threads, QueryPaused(t), Continue(t, "subscribe")
    PROVE  PausesKnown'
<1>1. /\ pc[t] = "queryPaused" /\ op[t] \in Pauses /\ heard[t] \cap Pauses = {}
      /\ UNCHANGED <<phase, paused, pauseQ>>
  BY DEF QueryPaused, PauseTypes, StepsMatch, PausesKnown, Before, native
<1>2. ~(paused = (op[t] = "pause")) \/ Return(t, "ok")
  BY DEF QueryPaused
<1>3. ~Return(t, "ok")
  BY DEF Return, Continue, Goto, PauseTypes, WrapperTypes
<1>4. paused # (op[t] = "pause")
  BY <1>2, <1>3
<1>5. State # op[t] /\ State \in Pauses
  <2>1. paused \in BOOLEAN
    BY DEF PauseTypes, FlagTypes
  <2>2. CASE op[t] = "pause"
    <3>1. ~paused
      BY <1>4, <2>1, <2>2, Zenon
    <3> QED
      BY <2>2, <3>1 DEF State, Pauses
  <2>3. CASE op[t] = "unpause"
    <3>1. paused
      BY <1>4, <2>1, <2>3
    <3> QED
      BY <2>3, <3>1 DEF State, Pauses
  <2> QED
    BY <1>1, <2>2, <2>3 DEF Pauses
<1>6. State' = State /\ pauseQ' = pauseQ /\ phase' = phase
  BY <1>1 DEF State
<1>7. \A i \in 1..Len(pauseQ) : pauseQ[i] # State => pauseQ[i] = op[t]
  BY <1>1, <1>5 DEF PauseTypes, CountTypes, Pauses
<1>8. pc'[t] = "subscribe" /\ op' = op /\ heard' = heard /\ \A u \in Threads \ {t} : pc'[u] = pc[u]
  BY DEF Continue, Goto, PauseTypes, WrapperTypes
<1>9. \A i, j \in 1..Len(pauseQ) : i < j /\ pauseQ[i] # State => pauseQ[j] # State
  BY DEF PausesKnown
<1>10. ASSUME NEW u \in Threads
       PROVE  /\ pc'[u] \in Before => heard'[u] \cap Pauses = {}
              /\ Settling(u)' =>
                    /\ \A i \in 1..Len(pauseQ') : pauseQ'[i] # State' => pauseQ'[i] = op'[u]
                    /\ op'[u] \in heard'[u] => State' = op'[u] \/ phase' = "inactive"
  <2>1. CASE u = t
    BY <1>1, <1>6, <1>7, <1>8, <2>1 DEF Before
  <2>2. CASE u # t
    BY <1>6, <1>8, <2>2 DEF PausesKnown, Settling
  <2> QED
    BY <2>1, <2>2
<1> QED
  BY <1>6, <1>9, <1>10 DEF PausesKnown

(* Only one pause settles at a time, and no start. *)
LEMMA SettlesAlone ==
    ASSUME PauseTypes, NEW t \in Threads, NEW u \in Threads, Settling(t),
           Settling(u) \/ (pc[u] = "act" /\ op[u] = "start")
    PROVE  t = u
BY NoneAssumption DEF PauseTypes, LifecycleHeld, Settling, Pauses

(* A start finds nobody who settles; what libobs owes is unchanged. *)
LEMMA StartKeepsPauses ==
    ASSUME PauseTypes, PausesKnown, NEW t \in Threads, StartOutput(t), Return(t, "ok"), phase' = "active"
    PROVE  PausesKnown'
<1>1. State' = State /\ pauseQ' = pauseQ
  BY DEF StartOutput, State
<1>2. \A u \in Threads : ~Settling(u) \/ u = t
  BY SettlesAlone DEF StartOutput
<1>3. \A u \in Threads : ~Settling(u)'
  BY <1>2 DEF Return, Goto, PauseTypes, WrapperTypes, Settling, Pauses
<1>4. \A u \in Threads : pc'[u] \in Before => heard'[u] \cap Pauses = {}
  BY DEF Return, Goto, PauseTypes, WrapperTypes, PausesKnown
<1>5. \A i, j \in 1..Len(pauseQ) : i < j /\ pauseQ[i] # State => pauseQ[j] # State
  BY DEF PausesKnown
<1> QED
  BY <1>1, <1>3, <1>4, <1>5 DEF PausesKnown

(* A new request is the last, and what precedes it agrees with it. *)
LEMMA RequestKeepsPauses ==
    ASSUME PauseTypes, PausesKnown, NEW t \in Threads, AskPause(t), Continue(t, "waitPause")
    PROVE  PausesKnown'
<1>1. /\ Settling(t) /\ UNCHANGED <<phase, paused, op, heard>>
      /\ pc' = [pc EXCEPT ![t] = "waitPause"]
  BY DEF AskPause, Continue, Goto, Settling
<1>2. ~Continue(t, "lastError")
  BY <1>1 DEF Continue, Goto, PauseTypes, WrapperTypes
<1>3. phase = "active" /\ pauseQ' = Append(pauseQ, op[t])
  BY <1>2 DEF AskPause
<1>4. /\ Len(pauseQ) \in Nat /\ Len(pauseQ') = Len(pauseQ) + 1
      /\ pauseQ'[Len(pauseQ) + 1] = op[t]
      /\ \A i \in 1..Len(pauseQ) : pauseQ'[i] = pauseQ[i]
  BY <1>3 DEF PauseTypes, CountTypes
<1>5. State' = State
  BY <1>1 DEF State
<1>6. \A i \in 1..Len(pauseQ) : pauseQ[i] # State => pauseQ[i] = op[t]
  BY <1>1 DEF PausesKnown
<1>7. ASSUME NEW i \in 1..Len(pauseQ'), NEW j \in 1..Len(pauseQ'), i < j, pauseQ'[i] # State
      PROVE  pauseQ'[j] # State
  <2>1. i \in 1..Len(pauseQ)
    BY <1>4, <1>7
  <2>2. CASE j \in 1..Len(pauseQ)
    BY <1>4, <1>7, <2>1, <2>2 DEF PausesKnown
  <2>3. CASE j = Len(pauseQ) + 1
    BY <1>4, <1>6, <1>7, <2>1, <2>3
  <2> QED
    BY <1>4, <2>2, <2>3
<1>8. ASSUME NEW u \in Threads
      PROVE  /\ pc'[u] \in Before => heard'[u] \cap Pauses = {}
             /\ Settling(u)' =>
                   /\ \A i \in 1..Len(pauseQ') : pauseQ'[i] # State => pauseQ'[i] = op[u]
                   /\ op[u] \in heard[u] => State = op[u] \/ phase = "inactive"
  <2>1. pc'[u] \in Before => u # t /\ pc[u] \in Before
    BY <1>1 DEF PauseTypes, WrapperTypes, Before
  <2>2. ASSUME Settling(u)' PROVE u = t
    <3>1. CASE u # t
      <4>1. Settling(u)
        BY <1>1, <2>2, <3>1 DEF PauseTypes, WrapperTypes, Settling
      <4> QED
        BY <1>1, <4>1, SettlesAlone
    <3> QED
      BY <3>1
  <2>3. \A i \in 1..Len(pauseQ') : pauseQ'[i] # State => pauseQ'[i] = op[t]
    BY <1>4, <1>6
  <2>4. op[t] \in heard[t] => State = op[t] \/ phase = "inactive"
    BY <1>1 DEF PausesKnown
  <2> QED
    BY <1>1, <2>1, <2>2, <2>3, <2>4 DEF PausesKnown
<1> QED
  BY <1>1, <1>3, <1>5, <1>7, <1>8 DEF PausesKnown

(* libobs answers its oldest request. *)
LEMMA AnswerKeepsPauses ==
    ASSUME PauseTypes, PausesKnown, NativePause
    PROVE  PausesKnown'
<1>1. /\ pauseQ # <<>> /\ pauseQ' = Tail(pauseQ) /\ Publish(Head(pauseQ))
      /\ UNCHANGED <<pc, op, phase>>
  BY DEF NativePause
<1>2. /\ Len(pauseQ) \in Nat \ {0} /\ Len(pauseQ') = Len(pauseQ) - 1
      /\ Head(pauseQ) = pauseQ[1] /\ Head(pauseQ) \in Pauses
      /\ \A i \in 1..Len(pauseQ') : pauseQ'[i] = pauseQ[i + 1] /\ pauseQ'[i] \in Pauses
  BY <1>1 DEF PauseTypes, CountTypes
<1>3. State' = Head(pauseQ)
  <2>1. paused' = (Head(pauseQ) = "pause")
    BY DEF NativePause
  <2> QED
    BY <1>2, <2>1 DEF State, Pauses
<1>4. State \in Pauses
  BY DEF State, Pauses
<1>5. phase # "inactive"
  BY <1>1 DEF PausesKnown
<1>6. ASSUME NEW i \in 1..Len(pauseQ')
      PROVE  i + 1 \in 1..Len(pauseQ) /\ 1 < i + 1 /\ 1 \in 1..Len(pauseQ)
  BY <1>2
<1>7. ASSUME NEW i \in 1..Len(pauseQ'), NEW j \in 1..Len(pauseQ'), i < j, pauseQ'[i] # State'
      PROVE  pauseQ'[j] # State'
  <2>1. /\ pauseQ'[i] = pauseQ[i + 1] /\ pauseQ'[j] = pauseQ[j + 1] /\ i + 1 < j + 1
        /\ i + 1 \in 1..Len(pauseQ) /\ j + 1 \in 1..Len(pauseQ) /\ 1 \in 1..Len(pauseQ)
    BY <1>2, <1>6, <1>7
  <2>2. CASE Head(pauseQ) = State
    BY <1>3, <1>7, <2>1, <2>2 DEF PausesKnown
  <2>3. CASE Head(pauseQ) # State
    <3>1. pauseQ[i + 1] # State
      BY <1>2, <1>6, <2>3 DEF PausesKnown
    <3>2. pauseQ[i + 1] = Head(pauseQ)
      BY <1>2, <1>4, <2>1, <2>3, <3>1 DEF Pauses
    <3> QED
      BY <1>3, <1>7, <2>1, <3>2
  <2> QED
    BY <2>2, <2>3
<1>8. ASSUME NEW u \in Threads, Settling(u)
      PROVE  /\ \A i \in 1..Len(pauseQ') : pauseQ'[i] # State' => pauseQ'[i] = op[u]
             /\ op[u] \in heard'[u] => State' = op[u]
  <2>1. /\ \A i \in 1..Len(pauseQ) : pauseQ[i] # State => pauseQ[i] = op[u]
        /\ op[u] \in heard[u] => State = op[u]
    BY <1>5, <1>8 DEF PausesKnown
  <2>2. op[u] \in Pauses
    BY <1>8 DEF Settling
  <2>3. 1 \in 1..Len(pauseQ)
    BY <1>2
  <2>4. CASE Head(pauseQ) = State
    <3>1. \A i \in 1..Len(pauseQ') : pauseQ'[i] # State' => pauseQ'[i] = op[u]
      BY <1>2, <1>3, <1>6, <2>1, <2>4
    <3>2. op[u] \in heard'[u] => op[u] \in heard[u] \/ op[u] = Head(pauseQ)
      BY <1>1 DEF Publish
    <3> QED
      BY <1>3, <2>1, <2>4, <3>1, <3>2
  <2>5. CASE Head(pauseQ) # State
    <3>1. State' = op[u]
      BY <1>2, <1>3, <2>1, <2>3, <2>5
    <3>2. ASSUME NEW i \in 1..Len(pauseQ') PROVE pauseQ'[i] = op[u]
      <4>1. pauseQ[i + 1] # State
        BY <1>2, <1>6, <2>5 DEF PausesKnown
      <4> QED
        BY <1>2, <1>6, <2>1, <4>1
    <3> QED
      BY <3>1, <3>2
  <2> QED
    BY <2>4, <2>5
<1>9. ASSUME NEW u \in Threads, pc[u] \in Before PROVE heard'[u] \cap Pauses = {}
  <2>1. Awaits(u) = {}
    BY <1>9 DEF Awaits, Before
  <2>2. heard'[u] = heard[u]
    BY <1>1, <2>1 DEF Publish
  <2> QED
    BY <1>9, <2>2 DEF PausesKnown
<1>10. ASSUME NEW u \in Threads
       PROVE  /\ pc'[u] \in Before => heard'[u] \cap Pauses = {}
              /\ Settling(u)' =>
                    /\ \A i \in 1..Len(pauseQ') : pauseQ'[i] # State' => pauseQ'[i] = op'[u]
                    /\ op'[u] \in heard'[u] => State' = op'[u] \/ phase' = "inactive"
  BY <1>1, <1>8, <1>9 DEF Settling
<1> QED
  BY <1>1, <1>5, <1>7, <1>10 DEF PausesKnown

(* What libobs says of the end is no answer to a pause. *)
LEMMA EndKeepsPauses ==
    ASSUME PauseTypes, PausesKnown, NEW s \in due, NativeSignal(s)
    PROVE  PausesKnown'
<1>1. s \notin Pauses
  BY DEF PauseTypes, WrapperTypes, StopSignals, Pauses
<1>2. \A u \in Threads : heard'[u] \cap Pauses = heard[u] \cap Pauses
  BY <1>1 DEF NativeSignal, Publish
<1>3. UNCHANGED <<pc, op>>
  BY DEF NativeSignal
<1>4. CASE s = "deactivate"
  <2>1. phase' = "inactive" /\ pauseQ' = <<>> /\ Len(pauseQ') = 0
    BY <1>4 DEF NativeSignal
  <2> QED
    BY <1>2, <1>3, <2>1 DEF PausesKnown, Settling
<1>5. CASE s # "deactivate"
  <2>1. UNCHANGED <<phase, paused, pauseQ>> /\ State' = State
    BY <1>5 DEF NativeSignal, State
  <2>2. ASSUME NEW u \in Threads, Settling(u), op[u] \in heard'[u] PROVE op[u] \in heard[u]
    BY <1>2, <2>2 DEF Settling
  <2> QED
    BY <1>2, <1>3, <2>1, <2>2 DEF PausesKnown, Settling
<1> QED
  BY <1>4, <1>5
(* PausesKnown is inductive. *)
LEMMA PausesStep ==
    ASSUME PauseTypes, PausesKnown, [Next]_vars
    PROVE  PausesKnown'
<1>1. ASSUME NEW t \in Threads, NEW how, Return(t, how), UNCHANGED <<slots, native>>
      PROVE  PausesKnown'
  BY <1>1, PausesKept DEF native
<1>2. ASSUME NEW t \in Threads, NEW o \in Operations, NEW w \in Wirings \cup {None}, Begin(t, o, w)
      PROVE  PausesKnown'
  <2>1. CASE t = Actor /\ o \in {"stop", "pause", "unpause"}
    BY <1>1, <1>2, <2>1 DEF Begin
  <2>2. CASE ~(t = Actor /\ o \in {"stop", "pause", "unpause"})
    <3>1. /\ UNCHANGED <<heard, native>> /\ pc[t] = "idle"
          /\ op' = [op EXCEPT ![t] = o]
          /\ \E to \in Before : pc' = [pc EXCEPT ![t] = to]
      BY <1>2, <2>2 DEF Begin, Goto, Before
    <3>2. pc[t] \in Before /\ \A u \in Threads : u # t => op'[u] = op[u]
      BY <3>1 DEF Before, PauseTypes, WrapperTypes
    <3> QED
      BY <3>1, <3>2, PausesKept DEF native
  <2> QED
    BY <2>1, <2>2
<1>3. ASSUME NEW t \in Threads, LockLifecycle(t) \/ LockConfiguration(t) PROVE PausesKnown'
  <2>1. /\ UNCHANGED <<heard, op, native>> /\ pc[t] \in Before
        /\ \E to \in Before : pc' = [pc EXCEPT ![t] = to]
    BY <1>3 DEF LockLifecycle, LockConfiguration, Goto, Before
  <2> QED
    BY <2>1, PausesKept DEF native
<1>4. ASSUME NEW t \in Threads, Query(t) PROVE PausesKnown'
  <2>1. pc[t] = "query" /\ UNCHANGED <<slots, native>>
    BY <1>4, QueryCases DEF Query, PauseTypes
  <2>2. CASE Return(t, "ok") \/ Return(t, "error")
    BY <1>1, <2>1, <2>2
  <2>3. CASE Continue(t, "act") /\ op[t] \in {"set", "start"}
    BY <2>1, <2>3, PausesKept DEF native, Pauses
  <2>4. CASE Continue(t, "subscribe") /\ op[t] = "stop"
    BY <2>1, <2>4, PausesKept DEF native, Pauses
  <2>5. CASE Continue(t, "queryPaused")
    BY <2>1, <2>5, PausesKept DEF native
  <2> QED
    BY <1>4, <2>2, <2>3, <2>4, <2>5, QueryCases DEF PauseTypes
<1>5. ASSUME NEW t \in Threads, QueryPaused(t) PROVE PausesKnown'
  <2>1. UNCHANGED <<slots, native>> /\ (Return(t, "ok") \/ Continue(t, "subscribe"))
    BY <1>5 DEF QueryPaused
  <2> QED
    BY <1>1, <1>5, <2>1, PausedQueried
<1>6. ASSUME NEW t \in Threads, NEW to \in {"act", "commit", "lastError", "waitStop", "waitDeactivate"},
             Continue(t, to), pc[t] \notin Before, to = "act" => pc[t] = "subscribe",
             UNCHANGED <<phase, paused, pauseQ>>
      PROVE  PausesKnown'
  <2>1. to \notin Before
    BY <1>6 DEF Before
  <2>2. Settling(t)' => Settling(t)
    BY <1>6 DEF Settling, Continue, Goto, PauseTypes, WrapperTypes
  <2> QED
    BY <1>6, <2>1, <2>2, PausesKept
<1>7. ASSUME NEW t \in Threads, Subscribe(t) \/ SetWiring(t) \/ AskStop(t) PROVE PausesKnown'
  BY <1>6, <1>7 DEF Subscribe, SetWiring, AskStop, native, Before
<1>8. ASSUME NEW t \in Threads, HearStop(t) PROVE PausesKnown'
  <2>1. UNCHANGED <<slots, native>> /\ pc[t] \notin Before
    BY <1>8 DEF HearStop, Before
  <2> QED
    BY <1>1, <1>6, <1>8, <2>1 DEF HearStop, native
<1>9. ASSUME NEW t \in Threads, StartOutput(t) PROVE PausesKnown'
  <2>1. pc[t] \notin Before /\ UNCHANGED <<paused, pauseQ>>
    BY <1>9 DEF StartOutput, Before
  <2>2. CASE Continue(t, "lastError") /\ UNCHANGED phase
    BY <1>6, <2>1, <2>2
  <2>3. CASE Return(t, "ok") /\ phase' = "active"
    BY <1>9, <2>3, StartKeepsPauses
  <2> QED
    BY <1>9, <2>2, <2>3 DEF StartOutput
<1>10. ASSUME NEW t \in Threads, AskPause(t) PROVE PausesKnown'
  <2>1. pc[t] \notin Before /\ UNCHANGED <<phase, paused>>
    BY <1>10 DEF AskPause, Before
  <2>2. CASE Continue(t, "waitPause")
    BY <1>10, <2>2, RequestKeepsPauses
  <2>3. CASE Continue(t, "lastError") /\ UNCHANGED pauseQ
    BY <1>6, <2>1, <2>3
  <2> QED
    BY <1>10, <2>2, <2>3 DEF AskPause
<1>11. ASSUME NEW t \in Threads,
              CommitSlots(t) \/ LastError(t) \/ ActorFails(t) \/ Deadline(t) \/ HearDeactivate(t) \/ HearPause(t)
       PROVE  PausesKnown'
  <2>1. UNCHANGED <<phase, paused, pauseQ>> /\ \E how : Return(t, how)
    BY <1>11 DEF CommitSlots, LastError, ActorFails, Deadline, HearDeactivate, HearPause, native
  <2> QED
    BY <2>1, PausesKept
<1>12. CASE NativeEnd
  <2>1. UNCHANGED <<pc, op, heard, paused, pauseQ>> /\ phase # "inactive" /\ phase' # "inactive"
    BY <1>12 DEF NativeEnd
  <2> QED
    BY <2>1 DEF PausesKnown, Settling, State
<1>13. CASE UNCHANGED vars
  BY <1>13 DEF vars, PausesKnown, Settling, State
<1> QED
  BY <1>2, <1>3, <1>4, <1>5, <1>7, <1>8, <1>9, <1>10, <1>11, <1>12, <1>13, AnswerKeepsPauses,
     EndKeepsPauses DEF Next, Step, Libobs

(* The lifecycle lock lets one pause settle at a time, and libobs owes, of *)
(* all requests whose callers are gone, at most one change of its state.   *)
THEOREM PausesAlwaysKnown == Spec => [](PauseTypes /\ PausesKnown)
<1>1. Init => PauseTypes /\ PausesKnown
  <2> SUFFICES ASSUME Init PROVE PauseTypes /\ PausesKnown
    OBVIOUS
  <2>1. WrapperTypes /\ StepsMatch /\ FlagTypes /\ LifecycleHeld
    BY DEF Init, WrapperTypes, StepsMatch, Steps, Pauses, FlagTypes, LifecycleHeld
  <2>2. CountTypes
    BY BoundsAssumption DEF Init, CountTypes
  <2>3. pauseQ = <<>> /\ Len(pauseQ) = 0
    BY DEF Init
  <2>4. \A t \in Threads : ~Settling(t) /\ heard[t] = {}
    BY DEF Init, Settling
  <2>5. PausesKnown
    BY <2>3, <2>4 DEF PausesKnown
  <2> QED
    BY <2>1, <2>2, <2>5 DEF PauseTypes
<1>2. PauseTypes /\ PausesKnown /\ [Next]_vars => (PauseTypes /\ PausesKnown)'
  BY WrapperStep, FlagStep, CountStep, LifecycleStep, PausesStep DEF PauseTypes
<1> QED
  BY <1>1, <1>2, PTL DEF Spec

(* What PauseMeansPaused says of one step. *)
PauseEnds ==
    \A t \in Threads :
        op[t] \in Pauses /\ pc[t] # "idle" /\ pc'[t] = "idle" /\ outcome' = "ok"
            => paused' = (op[t] = "pause") \/ ~IsActive

(* A pause or resume that reports success has that effect unless the       *)
(* output ended, whichever earlier requests libobs answered meanwhile      *)
(* (set_paused_with_timeout).                                              *)
THEOREM PauseAlwaysPauses == Spec => PauseMeansPaused
<1>1. PauseTypes /\ PausesKnown /\ [Next]_vars => [PauseEnds]_vars
  <2> SUFFICES ASSUME PauseTypes, PausesKnown, Next,
                      NEW t \in Threads, op[t] \in Pauses, pc[t] # "idle", pc'[t] = "idle", outcome' = "ok"
               PROVE  paused' = (op[t] = "pause") \/ ~IsActive
    BY DEF PauseEnds
  <2>1. ASSUME NEW u \in Threads, NEW to, to # "idle", Goto(u, to) PROVE FALSE
    BY <2>1 DEF Goto, PauseTypes, WrapperTypes
  <2>2. ASSUME NEW u \in Threads, u # t, NEW to, Goto(u, to) PROVE FALSE
    BY <2>2 DEF Goto, PauseTypes, WrapperTypes
  <2>3. ~ UNCHANGED pc
    OBVIOUS
  <2>4. ASSUME NEW u \in Threads, NEW o \in Operations, NEW w \in Wirings \cup {None}, Begin(u, o, w)
        PROVE  FALSE
    BY <2>2, <2>4 DEF Begin, Return
  <2>5. ~Libobs
    BY <2>3 DEF Libobs, NativeEnd, NativeSignal, NativePause
  <2>6. ASSUME NEW u \in Threads, Step(u) \/ Deadline(u) \/ ActorFails(u)
        PROVE  paused' = (op[t] = "pause") \/ ~IsActive
    <3>1. u = t
      <4>1. ASSUME NEW how, Return(u, how) PROVE u = t
        BY <2>2, <4>1 DEF Return
      <4>2. ASSUME NEW to, Continue(u, to) PROVE u = t
        BY <2>2, <4>2 DEF Continue
      <4>3. CASE Query(u)
        BY <4>1, <4>2, <4>3, QueryCases DEF PauseTypes
      <4>4. CASE QueryPaused(u) \/ StartOutput(u) \/ HearStop(u) \/ AskPause(u)
        BY <4>1, <4>2, <4>4 DEF QueryPaused, StartOutput, HearStop, AskPause
      <4>5. CASE Subscribe(u) \/ SetWiring(u) \/ AskStop(u) \/ LockLifecycle(u) \/ LockConfiguration(u)
        BY <2>2, <4>2, <4>5 DEF Subscribe, SetWiring, AskStop, LockLifecycle, LockConfiguration
      <4>6. CASE CommitSlots(u) \/ LastError(u) \/ HearDeactivate(u) \/ HearPause(u) \/ Deadline(u) \/ ActorFails(u)
        BY <4>1, <4>6 DEF CommitSlots, LastError, HearDeactivate, HearPause, Deadline, ActorFails
      <4> QED
        BY <2>6, <4>3, <4>4, <4>5, <4>6 DEF Step
    <3>2. ASSUME NEW to, to # "idle", Continue(t, to) PROVE FALSE
      BY <2>1, <3>2 DEF Continue
    <3>3. ASSUME NEW how, how # "ok", Return(t, how) PROVE FALSE
      BY <3>3 DEF Return
    <3>4. CASE Query(t)
      BY <3>2, <3>3, <3>4, QueryCases DEF PauseTypes, Pauses
    <3>5. CASE QueryPaused(t)
      <4>1. ~Continue(t, "subscribe")
        BY <3>2
      <4>2. paused = (op[t] = "pause")
        BY <3>5, <4>1 DEF QueryPaused
      <4>3. paused' = paused
        BY <3>5 DEF QueryPaused, native
      <4> QED
        BY <4>2, <4>3, Zenon
    <3>6. CASE HearPause(t)
      <4>1. Settling(t) /\ op[t] \in heard[t] /\ UNCHANGED paused
        BY <3>6 DEF HearPause, Settling, native
      <4>2. State = op[t] \/ phase = "inactive"
        BY <4>1 DEF PausesKnown
      <4>3. CASE phase = "inactive"
        BY <4>3 DEF IsActive
      <4>4. CASE State = op[t]
        <5>1. paused \in BOOLEAN
          BY DEF PauseTypes, FlagTypes
        <5>2. paused <=> op[t] = "pause"
          BY <4>4 DEF State
        <5>3. paused = (op[t] = "pause")
          BY <5>1, <5>2
        <5> QED
          BY <4>1, <5>3, Zenon
      <4> QED
        BY <4>2, <4>3, <4>4
    <3>7. CASE Subscribe(t) \/ LastError(t) \/ Deadline(t) \/ ActorFails(t)
      BY <3>2, <3>3, <3>7 DEF Subscribe, LastError, Deadline, ActorFails
    <3>8. CASE AskPause(t)
      BY <3>2, <3>8 DEF AskPause
    <3>9. CASE LockLifecycle(t) \/ LockConfiguration(t)
      BY <2>1, <3>9 DEF LockLifecycle, LockConfiguration
    <3>10. ~HearStop(t) /\ ~HearDeactivate(t) /\ ~CommitSlots(t)
      BY DEF HearStop, HearDeactivate, CommitSlots, PauseTypes, StepsMatch, Pauses
    <3>11. ~SetWiring(t) /\ ~StartOutput(t) /\ ~AskStop(t)
      BY DEF SetWiring, StartOutput, AskStop, Pauses
    <3> QED
      BY <2>6, <3>1, <3>4, <3>5, <3>6, <3>7, <3>8, <3>9, <3>10, <3>11 DEF Step
  <2> QED
    BY <2>4, <2>5, <2>6 DEF Next
<1> QED
  BY <1>1, PausesAlwaysKnown, PTL DEF Spec, PauseMeansPaused, PauseEnds

=============================================================================
