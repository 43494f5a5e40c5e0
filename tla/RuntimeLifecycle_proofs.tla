---------------------- MODULE RuntimeLifecycle_proofs -----------------------
(***************************************************************************)
(* Proofs about RuntimeLifecycle, for every set of runtimes and every set  *)
(* of faults.                                                              *)
(***************************************************************************)
EXTENDS RuntimeLifecycle, TLAPS

(* The values the slot operations write are slot states. *)
LEMMA SlotTypes ==
    /\ \A phase \in Phases \ {"Active"} : Slot(phase) \in SlotStates
    /\ \A r \in Runtimes : Active(r) \in SlotStates
BY NoThreadAssumption DEF SlotStates, Slot, Active, Phases

(* Waking the waiters keeps every application side where it may be. *)
LEMMA WokenType ==
    ASSUME NEW a \in [Runtimes -> AppStates]
    PROVE  Woken(a) \in [Runtimes -> AppStates]
BY DEF Woken, AppStates

(* A release from any thread leaves a well-typed slot and application side. *)
LEMMA ReleaseTypes ==
    ASSUME NEW a \in [Runtimes -> AppStates], ReleaseRuntimeSlot(a)
    PROVE  slot' \in SlotStates /\ app' \in [Runtimes -> AppStates]
BY SlotTypes, WokenType DEF ReleaseRuntimeSlot, Phases

(* Every variable keeps its type: the slot is one of the four states of    *)
(* ObsRuntimeState and names a thread exactly while it is Active.          *)
THEOREM TypeCorrect == Spec => []TypeOK
<1>1. Init => TypeOK
  BY NoThreadAssumption DEF Init, TypeOK, SlotStates, Slot, Phases, AppStates, ActorStates
<1>2. TypeOK /\ [Next]_vars => TypeOK'
  <2> SUFFICES ASSUME TypeOK, [Next]_vars PROVE TypeOK'
    OBVIOUS
  <2> USE NoThreadAssumption, SlotTypes, ReleaseTypes
      DEF TypeOK, Phases, AppStates, ActorStates
  <2>1. ASSUME NEW r \in Runtimes, New(r) PROVE TypeOK'
    BY <2>1 DEF New
  <2>2. ASSUME NEW r \in Runtimes, SpuriousWakeup(r) PROVE TypeOK'
    BY <2>2 DEF SpuriousWakeup
  <2>3. ASSUME NEW r \in Runtimes, DropSenders(r) PROVE TypeOK'
    BY <2>3 DEF DropSenders
  <2>4. ASSUME NEW r \in Runtimes, CommandPanics(r) PROVE TypeOK'
    BY <2>4 DEF CommandPanics
  <2>5. ASSUME NEW r \in Runtimes, AppStep(r) PROVE TypeOK'
    <3>1. CASE ReserveRuntimeSlot(r)
      BY <3>1 DEF ReserveRuntimeSlot
    <3>2. CASE SpawnActor(r)
      BY <3>2 DEF SpawnActor
    <3>3. CASE ReceiveInit(r)
      BY <3>3 DEF ReceiveInit
    <3>4. CASE CancelRuntimeStart(r)
      BY <3>4 DEF CancelRuntimeStart
    <3>5. CASE BeginRuntimeShutdown(r)
      BY <3>5 DEF BeginRuntimeShutdown
    <3>6. CASE SendShutdown(r)
      BY <3>6 DEF SendShutdown
    <3> QED
      BY <2>5, <3>1, <3>2, <3>3, <3>4, <3>5, <3>6 DEF AppStep
  <2>6. ASSUME NEW r \in Runtimes, ActorStep(r) PROVE TypeOK'
    <3>1. CASE ActivateRuntimeSlot(r)
      BY <3>1 DEF ActivateRuntimeSlot
    <3>2. CASE ObsStartup(r)
      BY <3>2 DEF ObsStartup
    <3>3. CASE InitializeFails(r)
      BY <3>3 DEF InitializeFails, RollbackNative
    <3>4. CASE InitializePanics(r)
      BY <3>4 DEF InitializePanics, RollbackNative
    <3>5. CASE InitializeUnwound(r)
      BY <3>5 DEF InitializeUnwound
    <3>6. CASE InitializeCompletes(r)
      BY <3>6 DEF InitializeCompletes
    <3>7. CASE LeaveLoop(r)
      BY <3>7 DEF LeaveLoop
    <3>8. CASE ObsShutdown(r)
      BY <3>8 DEF ObsShutdown
    <3>9. CASE ReleaseAfterShutdown(r)
      BY <3>9 DEF ReleaseAfterShutdown
    <3>10. CASE ActorExits(r)
      BY <3>10 DEF ActorExits
    <3> QED
      BY <2>6, <3>1, <3>2, <3>3, <3>4, <3>5, <3>6, <3>7, <3>8, <3>9, <3>10 DEF ActorStep
  <2>7. CASE UNCHANGED vars
    BY <2>7 DEF vars
  <2> QED
    BY <2>1, <2>2, <2>3, <2>4, <2>5, <2>6, <2>7 DEF Next
<1> QED
  BY <1>1, <1>2, PTL DEF Spec

-----------------------------------------------------------------------------
(* What the application side and the actor of a runtime may be doing at    *)
(* the same time.                                                          *)
THEOREM SidesAlwaysAgree == Spec => []SidesAgree
<1>1. Init => SidesAgree
  BY DEF Init, SidesAgree
<1>2. TypeOK /\ SidesAgree /\ [Next]_vars => SidesAgree'
  <2> SUFFICES ASSUME TypeOK, SidesAgree, [Next]_vars PROVE SidesAgree'
    OBVIOUS
  <2> USE DEF TypeOK, SidesAgree, ServingStates
  <2>1. ASSUME NEW r \in Runtimes,
               New(r) \/ SpuriousWakeup(r) \/ DropSenders(r) \/ CommandPanics(r)
        PROVE  SidesAgree'
    BY <2>1 DEF New, SpuriousWakeup, DropSenders, CommandPanics
  <2>2. ASSUME NEW r \in Runtimes, AppStep(r) PROVE SidesAgree'
    <3>1. CASE ReserveRuntimeSlot(r)
      BY <3>1 DEF ReserveRuntimeSlot
    <3>2. CASE SpawnActor(r)
      <4> actor[r] = "none" /\ reply[r] = "none"
        BY <3>2 DEF SpawnActor
      <4> QED
        BY <3>2 DEF SpawnActor
    <3>3. CASE ReceiveInit(r)
      BY <3>3 DEF ReceiveInit
    <3>4. CASE CancelRuntimeStart(r)
      BY <3>4 DEF CancelRuntimeStart, ReleaseRuntimeSlot, Woken
    <3>5. CASE BeginRuntimeShutdown(r)
      BY <3>5 DEF BeginRuntimeShutdown
    <3>6. CASE SendShutdown(r)
      BY <3>6 DEF SendShutdown, ReleaseRuntimeSlot, Woken
    <3> QED
      BY <2>2, <3>1, <3>2, <3>3, <3>4, <3>5, <3>6 DEF AppStep
  <2>3. ASSUME NEW r \in Runtimes, ActorStep(r) PROVE SidesAgree'
    <3>1. CASE ActivateRuntimeSlot(r)
      BY <3>1 DEF ActivateRuntimeSlot, AppStates
    <3>2. CASE ObsStartup(r) \/ InitializeCompletes(r) \/ LeaveLoop(r) \/ ObsShutdown(r) \/ ActorExits(r)
      BY <3>2 DEF ObsStartup, InitializeCompletes, LeaveLoop, ObsShutdown, ActorExits
    <3>3. CASE InitializeFails(r)
      BY <3>3 DEF InitializeFails, ReleaseRuntimeSlot, Woken
    <3>4. CASE InitializePanics(r)
      BY <3>4 DEF InitializePanics, ReleaseRuntimeSlot, Woken
    <3>5. CASE InitializeUnwound(r)
      BY <3>5 DEF InitializeUnwound, ReleaseRuntimeSlot, Woken
    <3>6. CASE ReleaseAfterShutdown(r)
      BY <3>6 DEF ReleaseAfterShutdown, ReleaseRuntimeSlot, Woken
    <3> QED
      BY <2>3, <3>1, <3>2, <3>3, <3>4, <3>5, <3>6 DEF ActorStep
  <2>4. CASE UNCHANGED vars
    BY <2>4 DEF vars
  <2> QED
    BY <2>1, <2>2, <2>3, <2>4 DEF Next
<1> QED
  BY <1>1, <1>2, TypeCorrect, PTL DEF Spec

-----------------------------------------------------------------------------
(* A step touches the native library only if it starts it while it is down *)
(* or stops it on behalf of the actor it runs for.                         *)
LEMMA NativeStep ==
    ASSUME TypeOK, SidesAgree, NativeLibraryIsOwned, NEW r \in Runtimes,
           AppStep(r) \/ ActorStep(r)
    PROVE  NativeLibraryIsOwned'
<1> USE NoThreadAssumption DEF NativeLibraryIsOwned, NativeUp, TypeOK
<1>1. CASE AppStep(r)
  <2>1. CASE SpawnActor(r)
    BY <2>1 DEF SpawnActor, SidesAgree
  <2>2. CASE ~SpawnActor(r)
    BY <1>1, <2>2 DEF AppStep, ReserveRuntimeSlot, ReceiveInit, CancelRuntimeStart,
                      BeginRuntimeShutdown, SendShutdown
  <2> QED BY <2>1, <2>2
<1>2. CASE ActorStep(r)
  <2>1. CASE ActivateRuntimeSlot(r)
    BY <2>1 DEF ActivateRuntimeSlot
  <2>2. CASE ObsStartup(r)
    BY <2>2 DEF ObsStartup
  <2>3. CASE InitializeFails(r)
    BY <2>3 DEF InitializeFails, RollbackNative
  <2>4. CASE InitializePanics(r)
    BY <2>4 DEF InitializePanics, RollbackNative
  <2>5. CASE InitializeUnwound(r)
    BY <2>5 DEF InitializeUnwound
  <2>6. CASE InitializeCompletes(r) \/ LeaveLoop(r)
    BY <2>6 DEF InitializeCompletes, LeaveLoop
  <2>7. CASE ObsShutdown(r)
    BY <2>7 DEF ObsShutdown
  <2>8. CASE ReleaseAfterShutdown(r) \/ ActorExits(r)
    BY <2>8 DEF ReleaseAfterShutdown, ActorExits
  <2> QED
    BY <1>2, <2>1, <2>2, <2>3, <2>4, <2>5, <2>6, <2>7, <2>8 DEF ActorStep
<1> QED
  BY <1>1, <1>2

(* However many contexts are created at once and whatever fails, only the  *)
(* actor that brought libobs up uses it and shuts it down.                 *)
THEOREM NativeLibraryOwnership == Spec => []NativeLibraryIsOwned
<1>1. Init => NativeLibraryIsOwned
  BY NoThreadAssumption DEF Init, NativeLibraryIsOwned, NativeUp
<1>2. TypeOK /\ SidesAgree /\ NativeLibraryIsOwned /\ [Next]_vars => NativeLibraryIsOwned'
  <2> SUFFICES ASSUME TypeOK, SidesAgree, NativeLibraryIsOwned, [Next]_vars
               PROVE  NativeLibraryIsOwned'
    OBVIOUS
  <2>1. ASSUME NEW r \in Runtimes, New(r) \/ SpuriousWakeup(r) \/ DropSenders(r)
        PROVE  NativeLibraryIsOwned'
    BY <2>1 DEF NativeLibraryIsOwned, NativeUp, New, SpuriousWakeup, DropSenders
  <2>2. ASSUME NEW r \in Runtimes, CommandPanics(r)
        PROVE  NativeLibraryIsOwned'
    BY <2>2 DEF NativeLibraryIsOwned, NativeUp, CommandPanics, TypeOK
  <2>3. ASSUME NEW r \in Runtimes, AppStep(r) \/ ActorStep(r)
        PROVE  NativeLibraryIsOwned'
    BY <2>3, NativeStep
  <2>4. CASE UNCHANGED vars
    BY <2>4 DEF vars, NativeLibraryIsOwned, NativeUp
  <2> QED
    BY <2>1, <2>2, <2>3, <2>4 DEF Next
<1> QED
  BY <1>1, <1>2, TypeCorrect, SidesAlwaysAgree, PTL DEF Spec

-----------------------------------------------------------------------------
(* Every slot that is taken is owed by somebody who will give it back: a   *)
(* reservation by a call that has not failed or an actor that has not      *)
(* looked, everything later by an actor that leaves only with a release.   *)
Owes(r) == InCharge(r) \/ actor[r] = "unwound"

SlotIsOwed ==
    /\ slot.phase = "Starting" =>
          \E r \in Runtimes : app[r] \in {"reserved", "cancelling"} \/ actor[r] = "spawned"
    /\ slot.phase = "Active" => Owes(slot.tid)
    /\ slot.phase = "ShuttingDown" => \E r \in Runtimes : Owes(r)

(* An idle slot is owed by nobody. *)
LEMMA ReleasePaysAll ==
    ASSUME NEW a, ReleaseRuntimeSlot(a)
    PROVE  SlotIsOwed'
BY DEF ReleaseRuntimeSlot, SlotIsOwed, Slot

(* A step that changes neither the slot nor what its runtime owes. *)
LEMMA OwedStays ==
    ASSUME TypeOK, SlotIsOwed, UNCHANGED slot, NEW r \in Runtimes,
           \A q \in Runtimes \ {r} : app'[q] = app[q] /\ actor'[q] = actor[q],
           app[r] \in {"reserved", "cancelling"} \/ actor[r] = "spawned" =>
               app'[r] \in {"reserved", "cancelling"} \/ actor'[r] = "spawned",
           Owes(r) => Owes(r)'
    PROVE  SlotIsOwed'
<1>1. \A q \in Runtimes : Owes(q) => Owes(q)'
  BY DEF Owes, InCharge
<1>2. \A q \in Runtimes :
          app[q] \in {"reserved", "cancelling"} \/ actor[q] = "spawned" =>
              app'[q] \in {"reserved", "cancelling"} \/ actor'[q] = "spawned"
  OBVIOUS
<1>3. slot.phase = "Active" => slot.tid \in Runtimes
  BY NoThreadAssumption DEF TypeOK, SlotStates
<1> QED
  BY <1>1, <1>2, <1>3 DEF SlotIsOwed

(* However many contexts are created at once and whatever fails, the slot  *)
(* is Idle once every call has returned, every handle is gone and no actor *)
(* lives.                                                                  *)
THEOREM SlotNeverStranded == Spec => []NoStrandedSlot
<1>1. Init => SlotIsOwed
  BY DEF Init, SlotIsOwed, Slot
<1>2. TypeOK /\ SidesAgree /\ SlotIsOwed /\ [Next]_vars => SlotIsOwed'
  <2> SUFFICES ASSUME TypeOK, SidesAgree, SlotIsOwed, [Next]_vars PROVE SlotIsOwed'
    OBVIOUS
  <2>1. ASSUME NEW r \in Runtimes,
               New(r) \/ SpuriousWakeup(r) \/ DropSenders(r) \/ ReceiveInit(r) \/ CommandPanics(r)
        PROVE  SlotIsOwed'
    BY <2>1, OwedStays DEF New, SpuriousWakeup, DropSenders, ReceiveInit, CommandPanics, TypeOK,
                           Owes, InCharge
  <2>2. ASSUME NEW r \in Runtimes, AppStep(r) PROVE SlotIsOwed'
    <3>1. CASE ReserveRuntimeSlot(r)
      <4>1. CASE slot' = Slot("Starting") /\ app' = [app EXCEPT ![r] = "reserved"]
        BY <4>1 DEF SlotIsOwed, Slot, TypeOK
      <4>2. CASE slot' = slot /\ app[r] = "reserving"
                 /\ \E to \in AppStates : app' = [app EXCEPT ![r] = to]
        <5>1. actor[r] = "none" /\ actor' = actor
          BY <3>1, <4>2 DEF SidesAgree, ReserveRuntimeSlot
        <5> QED
          BY <4>2, <5>1, OwedStays DEF TypeOK, Owes, InCharge
      <4> QED
        BY <3>1, <4>1, <4>2 DEF ReserveRuntimeSlot, AppStates
    <3>2. CASE SpawnActor(r)
      <4>1. actor[r] = "none"
        BY <3>2 DEF SpawnActor, SidesAgree
      <4> QED
        BY <3>2, <4>1, OwedStays DEF SpawnActor, TypeOK, Owes, InCharge
    <3>3. CASE ReceiveInit(r)
      BY <2>1, <3>3
    <3>4. CASE CancelRuntimeStart(r)
      <4>1. CASE slot.phase = "Starting"
        BY <3>4, <4>1, ReleasePaysAll DEF CancelRuntimeStart
      <4>2. CASE slot.phase # "Starting"
        BY <3>4, <4>2 DEF CancelRuntimeStart, SlotIsOwed, Owes, InCharge
      <4> QED
        BY <4>1, <4>2
    <3>5. CASE BeginRuntimeShutdown(r)
      <4>1. CASE slot.phase = "Active"
        <5>1. slot.tid \in Runtimes /\ Owes(slot.tid)
          BY <4>1, NoThreadAssumption DEF SlotIsOwed, TypeOK, SlotStates
        <5>2. slot' = Slot("ShuttingDown") /\ actor' = actor
          BY <3>5, <4>1 DEF BeginRuntimeShutdown
        <5> QED
          BY <5>1, <5>2 DEF SlotIsOwed, Slot, Owes, InCharge
      <4>2. CASE slot.phase # "Active"
        BY <3>5, <4>2, OwedStays DEF BeginRuntimeShutdown, TypeOK, Owes, InCharge
      <4> QED
        BY <4>1, <4>2
    <3>6. CASE SendShutdown(r)
      <4>1. CASE actor[r] # "exited"
        BY <3>6, <4>1, OwedStays DEF SendShutdown, TypeOK, Owes, InCharge
      <4>2. CASE actor[r] = "exited"
        BY <3>6, <4>2, ReleasePaysAll DEF SendShutdown
      <4> QED
        BY <4>1, <4>2
    <3> QED
      BY <2>2, <3>1, <3>2, <3>3, <3>4, <3>5, <3>6 DEF AppStep
  <2>3. ASSUME NEW r \in Runtimes, ActorStep(r) PROVE SlotIsOwed'
    <3>1. CASE ActivateRuntimeSlot(r)
      <4>1. CASE slot.phase = "Starting"
        BY <3>1, <4>1 DEF ActivateRuntimeSlot, SlotIsOwed, Active, Owes, InCharge, TypeOK
      <4>2. CASE slot.phase # "Starting"
        <5>1. \A q \in Runtimes : Owes(q) => Owes(q)'
          BY <3>1, <4>2 DEF ActivateRuntimeSlot, Owes, InCharge, TypeOK
        <5>2. slot' = slot /\ (slot.phase = "Active" => slot.tid \in Runtimes)
          BY <3>1, <4>2, NoThreadAssumption DEF ActivateRuntimeSlot, TypeOK, SlotStates
        <5> QED
          BY <4>2, <5>1, <5>2 DEF SlotIsOwed
      <4> QED
        BY <4>1, <4>2
    <3>2. CASE InitializeFails(r) \/ InitializeUnwound(r) \/ ReleaseAfterShutdown(r)
      BY <3>2, ReleasePaysAll DEF InitializeFails, InitializeUnwound, ReleaseAfterShutdown
    <3>3. CASE InitializePanics(r)
      <4>1. CASE ReleaseRuntimeSlot(app)
        BY <4>1, ReleasePaysAll
      <4>2. CASE UNCHANGED <<slot, app>> /\ actor[r] = "setup"
        BY <3>3, <4>2, OwedStays DEF InitializePanics, TypeOK, Owes, InCharge
      <4> QED
        BY <3>3, <4>1, <4>2 DEF InitializePanics
    <3>4. CASE ObsStartup(r) \/ InitializeCompletes(r) \/ LeaveLoop(r) \/ ObsShutdown(r) \/ ActorExits(r)
      BY <3>4, OwedStays DEF ObsStartup, InitializeCompletes, LeaveLoop, ObsShutdown, ActorExits,
                             TypeOK, Owes, InCharge
    <3> QED
      BY <2>3, <3>1, <3>2, <3>3, <3>4 DEF ActorStep
  <2>4. CASE UNCHANGED vars
    BY <2>4 DEF vars, SlotIsOwed, Owes, InCharge
  <2> QED
    BY <2>1, <2>2, <2>3, <2>4 DEF Next
<1>3. TypeOK /\ SlotIsOwed => NoStrandedSlot
  <2> SUFFICES ASSUME TypeOK, SlotIsOwed,
                      \A r \in Runtimes : app[r] \in Finished /\ actor[r] \in {"none", "exited"}
               PROVE  slot.phase = "Idle"
    BY DEF NoStrandedSlot
  <2>1. \A r \in Runtimes : ~Owes(r)
    BY DEF Owes, InCharge
  <2>2. \A r \in Runtimes : app[r] \notin {"reserved", "cancelling"} /\ actor[r] # "spawned"
    BY DEF Finished
  <2>3. slot.phase \in Phases /\ (slot.phase = "Active" => slot.tid \in Runtimes)
    BY NoThreadAssumption DEF TypeOK, SlotStates
  <2> QED
    BY <2>1, <2>2, <2>3 DEF SlotIsOwed, Phases
<1> QED
  BY <1>1, <1>2, <1>3, TypeCorrect, SidesAlwaysAgree, PTL DEF Spec

-----------------------------------------------------------------------------
(* The sequential use of the slot *)

(* When the application drops one context before it creates the next, a    *)
(* step of the application side keeps the claims on the slot in order: a   *)
(* reservation finds the slot Idle only when nobody has a claim on it.     *)
LEMMA SequentialAppStep ==
    ASSUME Sequential, TypeOK, SequentialInv, NEW r \in Runtimes,
           New(r) \/ SpuriousWakeup(r) \/ DropSenders(r) \/ AppStep(r)
    PROVE  SequentialInv'
<1> USE NoThreadAssumption
    DEF TypeOK, SequentialInv, OneCaller, SidesAgree, ClaimIsExclusive, ClaimMatchesSlot,
        SlotIsClaimed, HandlersFollowClaim, Live, Reserved, Claim, PastReservation, ServingStates,
        InCharge, Finished, ReleaseRuntimeSlot, Woken, Slot, Active, SlotStates, Phases
<1>1. CASE New(r)
  BY <1>1 DEF New
<1>2. CASE SpuriousWakeup(r)
  BY <1>2 DEF SpuriousWakeup
<1>3. CASE DropSenders(r)
  BY <1>3 DEF DropSenders
<1>4. CASE ReserveRuntimeSlot(r)
  BY <1>4 DEF ReserveRuntimeSlot
<1>5. CASE SpawnActor(r)
  <2>1. CASE actor' = actor
    BY <1>5, <2>1 DEF SpawnActor
  <2>2. CASE actor' = [actor EXCEPT ![r] = "spawned"] /\ app' = [app EXCEPT ![r] = "awaitInit"]
    <3> actor[r] = "none" /\ reply[r] = "none" /\ slot.phase = "Starting"
      BY <1>5 DEF SpawnActor
    <3>1. OneCaller' /\ HandlersFollowClaim'
      BY <1>5, <2>2 DEF SpawnActor
    <3>2. SidesAgree'
      BY <1>5, <2>2 DEF SpawnActor
    <3>3. ClaimIsExclusive'
      BY <1>5, <2>2 DEF SpawnActor
    <3>4. ClaimMatchesSlot' /\ SlotIsClaimed'
      BY <1>5, <2>2 DEF SpawnActor
    <3> QED
      BY <3>1, <3>2, <3>3, <3>4
  <2> QED
    BY <1>5, <2>1, <2>2 DEF SpawnActor
<1>6. CASE ReceiveInit(r)
  BY <1>6 DEF ReceiveInit
<1>7. CASE CancelRuntimeStart(r)
  BY <1>7 DEF CancelRuntimeStart
<1>8. CASE BeginRuntimeShutdown(r)
  BY <1>8 DEF BeginRuntimeShutdown
<1>9. CASE SendShutdown(r)
  BY <1>9 DEF SendShutdown
<1> QED
  BY <1>1, <1>2, <1>3, <1>4, <1>5, <1>6, <1>7, <1>8, <1>9 DEF AppStep

(* The same for a step of an actor: while its runtime has the claim on the *)
(* slot nobody else's step changes the slot or the handlers.               *)
LEMMA SequentialActorStep ==
    ASSUME Sequential, TypeOK, SequentialInv, NEW r \in Runtimes,
           ActorStep(r) \/ CommandPanics(r)
    PROVE  SequentialInv'
<1> USE NoThreadAssumption
    DEF TypeOK, SequentialInv, OneCaller, SidesAgree, ClaimIsExclusive, ClaimMatchesSlot,
        SlotIsClaimed, HandlersFollowClaim, Live, Reserved, Claim, PastReservation, ServingStates,
        InCharge, Finished, ReleaseRuntimeSlot, Woken, Slot, Active, SlotStates, Phases
<1>1. CASE ActivateRuntimeSlot(r)
  <2> slot.phase = "Starting" /\ app[r] = "awaitInit"
    BY <1>1 DEF ActivateRuntimeSlot, AppStates
  <2>1. OneCaller' /\ HandlersFollowClaim'
    BY <1>1 DEF ActivateRuntimeSlot
  <2>2. SidesAgree'
    BY <1>1 DEF ActivateRuntimeSlot
  <2>3. ClaimIsExclusive'
    BY <1>1 DEF ActivateRuntimeSlot
  <2>4. ClaimMatchesSlot' /\ SlotIsClaimed'
    BY <1>1 DEF ActivateRuntimeSlot
  <2> QED
    BY <2>1, <2>2, <2>3, <2>4
<1>2. CASE ObsStartup(r)
  BY <1>2 DEF ObsStartup
<1>3. CASE InitializeFails(r)
  BY <1>3 DEF InitializeFails, RollbackNative
<1>4. CASE InitializePanics(r)
  BY <1>4 DEF InitializePanics, RollbackNative
<1>5. CASE InitializeUnwound(r)
  BY <1>5 DEF InitializeUnwound
<1>6. CASE InitializeCompletes(r)
  BY <1>6 DEF InitializeCompletes
<1>7. CASE LeaveLoop(r)
  BY <1>7 DEF LeaveLoop
<1>8. CASE ObsShutdown(r)
  BY <1>8 DEF ObsShutdown
<1>9. CASE ReleaseAfterShutdown(r)
  BY <1>9 DEF ReleaseAfterShutdown
<1>10. CASE ActorExits(r)
  BY <1>10 DEF ActorExits
<1>11. CASE CommandPanics(r)
  BY <1>11 DEF CommandPanics
<1> QED
  BY <1>1, <1>2, <1>3, <1>4, <1>5, <1>6, <1>7, <1>8, <1>9, <1>10, <1>11 DEF ActorStep

(* SequentialInv is inductive for an application that drops a context      *)
(* before it creates the next one.                                         *)
THEOREM SequentialInvariant ==
    ASSUME Sequential
    PROVE  Spec => []SequentialInv
<1>1. Init => SequentialInv
  BY NoThreadAssumption
     DEF Init, SequentialInv, OneCaller, SidesAgree, ClaimIsExclusive, ClaimMatchesSlot, SlotIsClaimed,
         HandlersFollowClaim, Live, Reserved, Claim, PastReservation, InCharge, Finished, Slot
<1>2. TypeOK /\ SequentialInv /\ [Next]_vars => SequentialInv'
  <2> SUFFICES ASSUME TypeOK, SequentialInv, [Next]_vars
               PROVE  SequentialInv'
    OBVIOUS
  <2>1. CASE UNCHANGED vars
    BY <2>1 DEF vars, SequentialInv, OneCaller, SidesAgree, ClaimIsExclusive, ClaimMatchesSlot,
                SlotIsClaimed, HandlersFollowClaim, Live, Reserved, Claim, PastReservation, InCharge
  <2> QED
    BY <2>1, SequentialAppStep, SequentialActorStep DEF Next
<1> QED
  BY <1>1, <1>2, TypeCorrect, PTL DEF Spec

(* There is never more than one actor between taking the slot and giving   *)
(* it back.                                                                *)
THEOREM OneRuntime ==
    ASSUME Sequential
    PROVE  Spec => []OneRuntimeAtATime
<1>1. SequentialInv => OneRuntimeAtATime
  BY DEF SequentialInv, ClaimIsExclusive, Claim, OneRuntimeAtATime
<1> QED
  BY <1>1, SequentialInvariant, PTL

(* A running actor has its own handlers installed.                         *)
THEOREM HandlersOwnership ==
    ASSUME Sequential
    PROVE  Spec => []HandlersAreOwned
<1>1. SequentialInv => HandlersAreOwned
  BY DEF SequentialInv, HandlersFollowClaim, HandlersAreOwned
<1> QED
  BY <1>1, SequentialInvariant, PTL

(* Creating a context after the last handle of the previous one is gone    *)
(* never fails with ThreadFailure.                                         *)
THEOREM NeverRefused ==
    ASSUME Sequential
    PROVE  Spec => []NeverRefusedInSequence
<1>1. Init => NeverRefusedInSequence
  BY DEF Init, NeverRefusedInSequence
<1>2. TypeOK /\ SequentialInv /\ NeverRefusedInSequence /\ [Next]_vars => NeverRefusedInSequence'
  <2> SUFFICES ASSUME TypeOK, SequentialInv, NeverRefusedInSequence, [Next]_vars
               PROVE  NeverRefusedInSequence'
    OBVIOUS
  <2> USE DEF TypeOK, NeverRefusedInSequence
  <2>1. ASSUME NEW r \in Runtimes, ReserveRuntimeSlot(r) PROVE NeverRefusedInSequence'
    <3>1. slot.phase \notin {"Starting", "Active"}
      <4>1. ASSUME NEW q \in Runtimes, Live(q) PROVE q = r
        BY <2>1, <4>1 DEF ReserveRuntimeSlot, SequentialInv, OneCaller, Live, Finished
      <4>2. app[r] = "reserving" /\ actor[r] = "none"
        BY <2>1 DEF ReserveRuntimeSlot, SequentialInv, SidesAgree
      <4>3. slot.phase = "Active" => slot.tid \in Runtimes
        BY NoThreadAssumption DEF SlotStates
      <4> QED
        BY <4>1, <4>2, <4>3 DEF SequentialInv, SlotIsClaimed, Reserved, Live, Finished
    <3> QED
      BY <2>1, <3>1 DEF ReserveRuntimeSlot
  <2>2. ASSUME NEW r \in Runtimes,
               \/ New(r) \/ SpuriousWakeup(r) \/ DropSenders(r) \/ SpawnActor(r)
               \/ ReceiveInit(r) \/ BeginRuntimeShutdown(r)
        PROVE  NeverRefusedInSequence'
    BY <2>2 DEF New, SpuriousWakeup, DropSenders, SpawnActor, ReceiveInit, BeginRuntimeShutdown
  <2>3. ASSUME NEW r \in Runtimes, CancelRuntimeStart(r) \/ SendShutdown(r)
        PROVE  NeverRefusedInSequence'
    BY <2>3 DEF CancelRuntimeStart, SendShutdown, ReleaseRuntimeSlot, Woken
  <2>4. ASSUME NEW r \in Runtimes, ActorStep(r) \/ CommandPanics(r)
        PROVE  NeverRefusedInSequence'
    <3>1. app' = app \/ app' = Woken(app)
      BY <2>4 DEF ActorStep, CommandPanics, ActivateRuntimeSlot, ObsStartup, InitializeFails,
                  InitializePanics, InitializeUnwound, InitializeCompletes, LeaveLoop, ObsShutdown,
                  ReleaseAfterShutdown, ActorExits, ReleaseRuntimeSlot
    <3> QED
      BY <3>1 DEF Woken
  <2>5. CASE UNCHANGED vars
    BY <2>5 DEF vars
  <2> QED
    BY <2>1, <2>2, <2>3, <2>4, <2>5 DEF Next, AppStep
<1> QED
  BY <1>1, <1>2, TypeCorrect, SequentialInvariant, PTL DEF Spec

(* Contexts that follow one another take turns: what the run calls_return  *)
(* checks, from the three theorems above.                                  *)
THEOREM TurnsAreTaken ==
    ASSUME Sequential
    PROVE  Spec => []RuntimesTakeTurns
<1>1. OneRuntimeAtATime /\ HandlersAreOwned /\ NeverRefusedInSequence => RuntimesTakeTurns
  BY DEF RuntimesTakeTurns
<1> QED
  BY <1>1, OneRuntime, HandlersOwnership, NeverRefused, PTL

-----------------------------------------------------------------------------
(* The slot implements the lease *)

(* The runtime in charge, as the refinement mapping names it.              *)
Holder == IF \E r \in Runtimes : InCharge(r)
          THEN CHOOSE r \in Runtimes : InCharge(r)
          ELSE NoThread

(* The mapping is well defined: one runtime at most is in charge.          *)
LEMMA HolderIs ==
    ASSUME OneRuntimeAtATime
    PROVE  /\ \A r \in Runtimes : InCharge(r) => Holder = r
           /\ (\A r \in Runtimes : ~InCharge(r)) => Holder = NoThread
BY DEF Holder, OneRuntimeAtATime

(* What a step does to the runtimes in charge and to the library, in the   *)
(* terms of the lease.                                                     *)
LEMMA LeaseStep ==
    ASSUME Sequential, TypeOK, SequentialInv, OneRuntimeAtATime, OneRuntimeAtATime',
           NativeLibraryIsOwned, [Next]_vars
    PROVE  [Lease!Next]_<<Holder, obs>>
<1> USE NoThreadAssumption DEF TypeOK
<1> /\ \A r \in Runtimes : InCharge(r) => Holder = r
    /\ (\A r \in Runtimes : ~InCharge(r)) => Holder = NoThread
  BY HolderIs
<1> /\ \A r \in Runtimes : InCharge(r)' => Holder' = r
    /\ (\A r \in Runtimes : ~InCharge(r)') => Holder' = NoThread
  BY DEF Holder, OneRuntimeAtATime
<1>1. ASSUME actor' = actor, obs' = obs
      PROVE  [Lease!Next]_<<Holder, obs>>
  BY <1>1 DEF Holder, InCharge
<1>2. ASSUME NEW r \in Runtimes, NEW to \in ActorStates, actor' = [actor EXCEPT ![r] = to],
             InCharge(r) <=> InCharge(r)', obs' = obs
      PROVE  [Lease!Next]_<<Holder, obs>>
  <2> \A q \in Runtimes : InCharge(q) <=> InCharge(q)'
    BY <1>2 DEF InCharge
  <2> Holder' = Holder
    BY DEF Holder
  <2> QED
    BY <1>2
<1>3. ASSUME NEW r \in Runtimes, ActivateRuntimeSlot(r)
      PROVE  [Lease!Next]_<<Holder, obs>>
  <2>1. \A q \in Runtimes : ~InCharge(q)
    BY <1>3 DEF ActivateRuntimeSlot, SequentialInv, ClaimIsExclusive, Claim, Reserved, InCharge
  <2>2. CASE slot.phase = "Starting"
    <3> InCharge(r)'
      BY <1>3, <2>2 DEF ActivateRuntimeSlot, InCharge
    <3> Holder = NoThread /\ Holder' = r /\ obs' = obs
      BY <1>3, <2>1 DEF ActivateRuntimeSlot
    <3> QED
      BY DEF Lease!Next, Lease!Acquire, Holder
  <2>3. CASE slot.phase # "Starting"
    BY <1>2, <1>3, <2>1, <2>3 DEF ActivateRuntimeSlot, InCharge, ActorStates
  <2> QED
    BY <2>2, <2>3
<1>4. ASSUME NEW r \in Runtimes, ObsStartup(r)
      PROVE  [Lease!Next]_<<Holder, obs>>
  <2> InCharge(r) /\ InCharge(r)' /\ obs = NoThread /\ obs' = r
    BY <1>4 DEF ObsStartup, InCharge
  <2> QED
    BY DEF Lease!Next, Lease!Startup, Holder
<1>5. ASSUME NEW r \in Runtimes, ObsShutdown(r)
      PROVE  [Lease!Next]_<<Holder, obs>>
  <2> InCharge(r) /\ InCharge(r)' /\ obs = r /\ obs' = NoThread
    BY <1>5 DEF ObsShutdown, InCharge, NativeLibraryIsOwned, NativeUp
  <2> QED
    BY DEF Lease!Next, Lease!Shutdown, Holder
<1>6. ASSUME NEW r \in Runtimes, InCharge(r), NEW to \in {"exited", "unwound", "released"},
             actor' = [actor EXCEPT ![r] = to], obs' = NoThread
      PROVE  [Lease!Next]_<<Holder, obs>>
  <2>1. \A q \in Runtimes : ~InCharge(q)'
    BY <1>6 DEF InCharge, OneRuntimeAtATime
  <2> Holder = r /\ Holder' = NoThread
    BY <1>6, <2>1
  <2> QED
    BY <1>6 DEF Lease!Next, Lease!Release, Holder
<1>7. ASSUME NEW r \in Runtimes, InCharge(r), ~NativeUp(r)
      PROVE  obs = NoThread
  BY <1>7 DEF NativeLibraryIsOwned, NativeUp, InCharge, OneRuntimeAtATime
<1>8. ASSUME NEW r \in Runtimes, InitializeFails(r) \/ InitializePanics(r) \/ ReleaseAfterShutdown(r)
      PROVE  [Lease!Next]_<<Holder, obs>>
  <2>1. InCharge(r)
    BY <1>8 DEF InitializeFails, InitializePanics, ReleaseAfterShutdown, InCharge
  <2>2. obs' = NoThread
    BY <1>7, <1>8, <2>1 DEF InitializeFails, InitializePanics, ReleaseAfterShutdown, RollbackNative, NativeUp
  <2> QED
    BY <1>6, <1>8, <2>1, <2>2 DEF InitializeFails, InitializePanics, ReleaseAfterShutdown
<1>9. ASSUME NEW r \in Runtimes,
             \/ InitializeUnwound(r) \/ InitializeCompletes(r) \/ LeaveLoop(r)
             \/ CommandPanics(r) \/ ActorExits(r)
      PROVE  [Lease!Next]_<<Holder, obs>>
  BY <1>2, <1>9 DEF InitializeUnwound, InitializeCompletes, LeaveLoop, CommandPanics, ActorExits,
                    InCharge, ActorStates
<1>10. ASSUME NEW r \in Runtimes, SpawnActor(r)
       PROVE  [Lease!Next]_<<Holder, obs>>
  <2>1. CASE actor' = actor
    BY <1>1, <1>10, <2>1 DEF SpawnActor
  <2>2. CASE actor' = [actor EXCEPT ![r] = "spawned"]
    <3> actor[r] = "none"
      BY <1>10 DEF SpawnActor, SequentialInv, SidesAgree
    <3> QED
      BY <1>2, <1>10, <2>2 DEF SpawnActor, InCharge, ActorStates
  <2> QED
    BY <1>10, <2>1, <2>2 DEF SpawnActor
<1>11. ASSUME NEW r \in Runtimes,
              \/ New(r) \/ SpuriousWakeup(r) \/ DropSenders(r) \/ ReserveRuntimeSlot(r) \/ ReceiveInit(r)
              \/ CancelRuntimeStart(r) \/ BeginRuntimeShutdown(r) \/ SendShutdown(r)
       PROVE  [Lease!Next]_<<Holder, obs>>
  BY <1>1, <1>11 DEF New, SpuriousWakeup, DropSenders, ReserveRuntimeSlot, ReceiveInit,
                     CancelRuntimeStart, BeginRuntimeShutdown, SendShutdown
<1>12. CASE UNCHANGED vars
  BY <1>1, <1>12 DEF vars
<1> QED
  BY <1>3, <1>4, <1>5, <1>8, <1>9, <1>10, <1>11, <1>12 DEF Next, AppStep, ActorStep

(* For an application that drops a context before it creates the next one  *)
(* the slot is an exclusive lease on the native library.                   *)
THEOREM SlotImplementsLease ==
    ASSUME Sequential
    PROVE  Spec => LeaseSpec
<1>1. Init => Lease!Init
  BY DEF Init, Lease!Init, InCharge
<1>2. /\ TypeOK /\ SequentialInv /\ OneRuntimeAtATime /\ OneRuntimeAtATime'
      /\ NativeLibraryIsOwned /\ [Next]_vars
      => [Lease!Next]_Lease!vars
  BY LeaseStep DEF Lease!vars, Holder
<1> QED
  BY <1>1, <1>2, TypeCorrect, SequentialInvariant, OneRuntime, NativeLibraryOwnership, PTL
     DEF Spec, LeaseSpec, Lease!Spec

=============================================================================
