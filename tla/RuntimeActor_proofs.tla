------------------------ MODULE RuntimeActor_proofs -------------------------
(***************************************************************************)
(* Proofs about one started runtime: native objects have an owner from     *)
(* their creation to their release, nothing is executed after a panic, and *)
(* a shutdown without a panic finds nothing left to do.                    *)
(***************************************************************************)
EXTENDS Actors, TLAPS

-----------------------------------------------------------------------------
(* The inductive invariant.  A queue is seen as the set of its elements,   *)
(* which are distinct.                                                     *)
Elements(q) == {q[i] : i \in 1..Len(q)}
NoRepeat(q) == \A i, j \in 1..Len(q) : i # j => q[i] # q[j]

InCall(t) == thread[t] \in {"checked", "waiting"}

(* A command under way has one thread that looks after it. *)
ThreadsAgree ==
    /\ \A t \in Threads : thread[t] = "checked" =>
          call[t] \in Commands /\ command[call[t]] = "building"
    /\ \A t \in Threads : thread[t] = "waiting" =>
          call[t] \in Commands /\ command[call[t]] \in {"queued", "executed", "panicked", "dropped"}
    /\ \A t, u \in Threads : t # u /\ InCall(t) /\ InCall(u) => call[t] # call[u]
    /\ \A c \in Commands : command[c] = "building" =>
          \E t \in Threads : thread[t] = "checked" /\ call[t] = c
    /\ \A c \in Commands : creates[c] # NoObject =>
          c \in SyncCommands /\ \E t \in Threads : InCall(t) /\ call[t] = c

(* The queues hold the commands and the objects that are said to be queued. *)
QueuesAgree ==
    /\ NoRepeat(commandQ) /\ Elements(commandQ) = {c \in Commands : command[c] = "queued"}
    /\ NoRepeat(cleanupQ) /\ Elements(cleanupQ) = {o \in Objects : object[o] = "queued"}

(* A retired object is in the hands of one thread. *)
DropsAgree ==
    /\ \A t \in Threads : thread[t] = "dropping" =>
          dropping[t] \in Objects /\ object[dropping[t]] = "retired"
    /\ \A t, u \in Threads :
          t # u /\ thread[t] = "dropping" /\ thread[u] = "dropping" => dropping[t] # dropping[u]
    /\ \A o \in Objects : object[o] = "retired" =>
          \E t \in Threads : thread[t] = "dropping" /\ dropping[t] = o

(* A closure or a thread that is gone owns nothing; no closure owns two    *)
(* handles.                                                                *)
ClosuresAgree ==
    /\ \A c \in Commands : captured[c] # {} => command[c] \in {"building", "queued"}
    /\ \A c \in Commands : \A o, p \in captured[c] : o = p
    /\ \A t \in Threads : thread[t] = "gone" => lease[t] = {}

(* A native object is created by one command, and only when that runs. *)
CreationsAgree ==
    /\ \A c \in Commands : creates[c] # NoObject =>
          IF command[c] = "executed" THEN object[creates[c]] = "raw"
          ELSE object[creates[c]] = "absent"
    /\ \A c, d \in Commands : c # d /\ creates[c] # NoObject => creates[c] # creates[d]
    /\ \A o \in Objects : object[o] = "raw" =>
          \E c \in Commands : creates[c] = o /\ command[c] = "executed"

(* What only a panic or the end of the actor does to them. *)
NothingLost ==
    /\ \A c \in Commands : command[c] \notin {"panicked", "dropped"}
    /\ \A o \in Objects : object[o] \notin {"late", "leaked"}

(* Without a panic the actor leaves its loop when every handle is gone,     *)
(* and drains one queue after the other.                                       *)
DrainAgrees ==
    /\ shutdown => HandlesGone
    /\ ~panicSeen =>
          /\ actor \notin {"unwinding", "dropCommands", "recoverCleanups"}
          /\ actor # "loop" => HandlesGone
          /\ actor \in {"drainCleanups", "shutdown", "obsDown", "exited"} => commandQ = <<>>
          /\ actor \in {"shutdown", "obsDown", "exited"} => cleanupQ = <<>>
          /\ NothingLost

(* TypeOK but for its two flags, in three parts. *)
QueueTypes ==
    /\ health \in Healths
    /\ actor \in ActorStates
    /\ commandQ \in Seq(Commands) /\ Len(commandQ) <= QueueCapacity
    /\ cleanupQ \in Seq(Objects)

ThreadTypes ==
    /\ thread \in [Threads -> ThreadStates]
    /\ call \in [Threads -> Commands \cup {NoCommand}]
    /\ outcome \in [Threads -> Outcomes]
    /\ lease \in [Threads -> SUBSET Objects]
    /\ dropping \in [Threads -> Objects \cup {NoObject}]

ObjectTypes ==
    /\ command \in [Commands -> CommandStates]
    /\ captured \in [Commands -> SUBSET Objects]
    /\ creates \in [Commands -> Objects \cup {NoObject}]
    /\ object \in [Objects -> ObjectStates]
    /\ registry \in SUBSET Objects

FlagTypes == shutdown \in BOOLEAN /\ panicSeen \in BOOLEAN

Inv ==
    /\ QueueTypes /\ ThreadTypes /\ ObjectTypes
    /\ ThreadsAgree /\ QueuesAgree /\ DropsAgree /\ ClosuresAgree /\ CreationsAgree
    /\ LeaseProtects

-----------------------------------------------------------------------------
(* Queues *)

(* A new element at the end of a queue.                                    *)
LEMMA AppendElements ==
    ASSUME NEW S, NEW q \in Seq(S), NEW x \in S, NoRepeat(q), x \notin Elements(q)
    PROVE  /\ NoRepeat(Append(q, x)) /\ Elements(Append(q, x)) = Elements(q) \cup {x}
           /\ Append(q, x) \in Seq(S) /\ Len(Append(q, x)) = Len(q) + 1
<1>1. /\ Append(q, x) \in Seq(S) /\ Len(Append(q, x)) = Len(q) + 1 /\ Len(q) \in Nat
      /\ \A i \in 1..Len(q) : Append(q, x)[i] = q[i]
      /\ Append(q, x)[Len(q) + 1] = x
  OBVIOUS
<1>2. NoRepeat(Append(q, x))
  BY <1>1 DEF NoRepeat, Elements
<1>3. ASSUME NEW y PROVE y \in Elements(Append(q, x)) <=> y \in Elements(q) \cup {x}
  BY <1>1 DEF Elements
<1> QED
  BY <1>1, <1>2, <1>3

(* The first element is taken from a queue.                                *)
LEMMA TailElements ==
    ASSUME NEW S, NEW q \in Seq(S), q # <<>>, NoRepeat(q)
    PROVE  /\ Head(q) \in Elements(q) /\ Head(q) \in S
           /\ Tail(q) \in Seq(S) /\ Len(Tail(q)) = Len(q) - 1
           /\ NoRepeat(Tail(q)) /\ Elements(Tail(q)) = Elements(q) \ {Head(q)}
<1>1. /\ Len(q) \in Nat \ {0} /\ Head(q) = q[1] /\ Head(q) \in S
      /\ Tail(q) \in Seq(S) /\ Len(Tail(q)) = Len(q) - 1
      /\ \A i \in 1..(Len(q) - 1) : Tail(q)[i] = q[i + 1]
  OBVIOUS
<1>2. NoRepeat(Tail(q))
  BY <1>1 DEF NoRepeat
<1>3. Head(q) \in Elements(q)
  BY <1>1 DEF Elements
<1>4. ASSUME NEW y \in Elements(Tail(q)) PROVE y \in Elements(q) \ {Head(q)}
  BY <1>1 DEF Elements, NoRepeat
<1>5. ASSUME NEW y \in Elements(q), y # Head(q) PROVE y \in Elements(Tail(q))
  <2>1. PICK i \in 1..Len(q) : y = q[i] /\ i # 1
    BY <1>1, <1>5 DEF Elements
  <2>2. i - 1 \in 1..(Len(q) - 1) /\ Tail(q)[i - 1] = q[i]
    BY <1>1, <2>1
  <2> QED
    BY <1>1, <2>1, <2>2 DEF Elements
<1> QED
  BY <1>1, <1>2, <1>3, <1>4, <1>5

(* The empty queue.                                                        *)
LEMMA NoElements ==
    /\ NoRepeat(<<>>) /\ Elements(<<>>) = {}
BY DEF NoRepeat, Elements

-----------------------------------------------------------------------------
(* Ownership *)

(* Nothing is queued, created or leased at the start.                      *)
LEMMA InitOwned == Init => Inv
BY NoElements, CapacityAssumption, NoObjectAssumption
   DEF Init, Inv, QueueTypes, ThreadTypes, ObjectTypes, ThreadsAgree, QueuesAgree, DropsAgree, ClosuresAgree,
       CreationsAgree, LeaseProtects, Leased, LeasedBeyond, InCall, Healths, ActorStates,
       ThreadStates, Outcomes, CommandStates, ObjectStates

(* What dropping closures on the actor does: the objects whose last handle *)
(* they had, all of them live until then, are released.                    *)
LEMMA DroppedClosures ==
    ASSUME ObjectTypes, LeaseProtects, NEW cs \in SUBSET Commands, UNCHANGED lease,
           NEW next \in [Objects -> ObjectStates],
           \A o \in Objects : object[o] = "live" <=> next[o] = "live",
           DropOnActor(cs, next)
    PROVE  /\ captured' = [c \in Commands |-> IF c \in cs THEN {} ELSE captured[c]]
           /\ captured' \in [Commands -> SUBSET Objects]
           /\ object' \in [Objects -> ObjectStates] /\ registry' \in SUBSET Objects
           /\ \A o \in Objects :
                 \/ object'[o] = next[o]
                 \/ object[o] = "live" /\ object'[o] \in {"late", "released"}
           /\ LeaseProtects'
<1>1. /\ captured' = [c \in Commands |-> IF c \in cs THEN {} ELSE captured[c]]
      /\ registry' = registry \ LastHandles(cs)
      /\ object' = [o \in Objects |->
                      IF o \in LastHandles(cs)
                      THEN IF actor \in {"obsDown", "exited"} THEN "late" ELSE "released"
                      ELSE next[o]]
  BY DEF DropOnActor
<1>2. ASSUME NEW o \in Objects PROVE o \in LastHandles(cs) <=> Leased(o) /\ ~Leased(o)'
  <2>1. Leased(o) <=> (\E t \in Threads : o \in lease[t]) \/ \E c \in Commands : o \in captured[c]
    BY DEF Leased, LeasedBeyond
  <2>2. Leased(o)' <=> (\E t \in Threads : o \in lease[t])
                       \/ \E c \in Commands \ cs : o \in captured[c]
    BY <1>1 DEF Leased, LeasedBeyond
  <2>3. o \in LastHandles(cs) <=> (\E c \in cs : o \in captured[c]) /\ ~Leased(o)'
    BY <2>2 DEF LastHandles, LeasedBeyond, ObjectTypes
  <2> QED
    BY <2>1, <2>2, <2>3
<1>3. ASSUME NEW o \in Objects PROVE Leased(o)' => Leased(o)
  BY <1>1 DEF Leased, LeasedBeyond
<1>4. captured' \in [Commands -> SUBSET Objects] /\ registry' \in SUBSET Objects
  BY <1>1 DEF ObjectTypes
<1>5. object' \in [Objects -> ObjectStates]
  BY <1>1 DEF ObjectStates
<1>6. LeaseProtects'
  BY <1>1, <1>2, <1>3 DEF LeaseProtects
<1> QED
  BY <1>1, <1>2, <1>4, <1>5, <1>6 DEF LeaseProtects

(* A step that queues nothing and takes nothing.                           *)
LEMMA QueuesStay ==
    ASSUME QueuesAgree, UNCHANGED <<commandQ, cleanupQ>>,
           \A c \in Commands : command'[c] = "queued" <=> command[c] = "queued",
           \A o \in Objects : object'[o] = "queued" <=> object[o] = "queued"
    PROVE  QueuesAgree'
<1>1. {c \in Commands : command'[c] = "queued"} = {c \in Commands : command[c] = "queued"}
  OBVIOUS
<1>2. {o \in Objects : object'[o] = "queued"} = {o \in Objects : object[o] = "queued"}
  OBVIOUS
<1> QED
  BY <1>1, <1>2 DEF QueuesAgree

(* One lemma for each action; first those of the threads.                  *)
LEMMA ShareLeaseOwned ==
    ASSUME Inv, NEW t \in Threads, NEW u \in Threads, NEW o \in Objects, ShareLease(t, u, o)
    PROVE  Inv'
<1> USE NoObjectAssumption DEF Inv
<1>1. QueueTypes'
  BY DEF QueueTypes, ShareLease
<1>2. ThreadTypes'
  BY DEF ThreadTypes, ThreadStates, Outcomes, ShareLease
<1>3. ObjectTypes'
  BY DEF ObjectTypes, CommandStates, ObjectStates, ShareLease
<1>4. ThreadsAgree'
  BY DEF ThreadTypes, ObjectTypes, ThreadsAgree, InCall, ShareLease
<1>5. QueuesAgree'
  BY QueuesStay DEF ThreadTypes, ObjectTypes, ShareLease
<1>6. DropsAgree'
  BY DEF ThreadTypes, ObjectTypes, DropsAgree, ShareLease
<1>7. ClosuresAgree'
  BY DEF ThreadTypes, ObjectTypes, ClosuresAgree, ShareLease
<1>8. CreationsAgree'
  BY DEF ThreadTypes, ObjectTypes, CreationsAgree, ShareLease
<1>9. LeaseProtects'
  BY DEF ThreadTypes, ObjectTypes, LeaseProtects, Leased, LeasedBeyond, ShareLease
<1> QED
  BY <1>1, <1>2, <1>3, <1>4, <1>5, <1>6, <1>7, <1>8, <1>9 DEF Inv

LEMMA DropHandleOwned ==
    ASSUME Inv, NEW t \in Threads, DropHandle(t)
    PROVE  Inv'
<1> USE NoObjectAssumption DEF Inv
<1>1. QueueTypes'
  BY DEF QueueTypes, DropHandle
<1>2. ThreadTypes'
  BY DEF ThreadTypes, ThreadStates, Outcomes, DropHandle
<1>3. ObjectTypes'
  BY DEF ObjectTypes, CommandStates, ObjectStates, DropHandle
<1>4. ThreadsAgree'
  BY DEF ThreadTypes, ObjectTypes, ThreadsAgree, InCall, DropHandle
<1>5. QueuesAgree'
  BY QueuesStay DEF ThreadTypes, ObjectTypes, DropHandle
<1>6. DropsAgree'
  BY DEF ThreadTypes, ObjectTypes, DropsAgree, DropHandle
<1>7. ClosuresAgree'
  BY DEF ThreadTypes, ObjectTypes, ClosuresAgree, DropHandle
<1>8. CreationsAgree'
  BY DEF ThreadTypes, ObjectTypes, CreationsAgree, DropHandle
<1>9. LeaseProtects'
  BY DEF ThreadTypes, ObjectTypes, LeaseProtects, Leased, LeasedBeyond, DropHandle
<1> QED
  BY <1>1, <1>2, <1>3, <1>4, <1>5, <1>6, <1>7, <1>8, <1>9 DEF Inv

LEMMA DropLeaseOwned ==
    ASSUME Inv, NEW t \in Threads, NEW o \in Objects, DropLease(t, o)
    PROVE  Inv'
<1> USE NoObjectAssumption DEF Inv
<1>1. /\ thread[t] = "ready" /\ o \in lease[t] /\ object[o] = "live"
      /\ lease' = [lease EXCEPT ![t] = @ \ {o}]
      /\ UNCHANGED <<health, actor, commandQ, cleanupQ, call, outcome, command, captured, creates>>
  BY DEF DropLease, LeaseProtects, Leased, LeasedBeyond
<1>2. \/ LeasedBeyond(o, {}, {t}) /\ UNCHANGED <<thread, dropping, object, registry>>
      \/ /\ ~LeasedBeyond(o, {}, {t})
         /\ registry' = registry \ {o}
         /\ object' = [object EXCEPT ![o] = "retired"]
         /\ thread' = [thread EXCEPT ![t] = "dropping"]
         /\ dropping' = [dropping EXCEPT ![t] = o]
  BY DEF DropLease
<1>3. CASE LeasedBeyond(o, {}, {t}) /\ UNCHANGED <<thread, dropping, object, registry>>
  <2>1. QueueTypes'
    BY <1>3, <1>1 DEF QueueTypes
  <2>2. ThreadTypes'
    BY <1>3, <1>1 DEF ThreadTypes, ThreadStates, Outcomes
  <2>3. ObjectTypes'
    BY <1>3, <1>1 DEF ObjectTypes, CommandStates, ObjectStates
  <2>4. ThreadsAgree'
    BY <1>3, <1>1 DEF ThreadTypes, ObjectTypes, ThreadsAgree, InCall
  <2>5. QueuesAgree'
    BY <1>3, <1>1, QueuesStay DEF ThreadTypes, ObjectTypes
  <2>6. DropsAgree'
    BY <1>3, <1>1 DEF ThreadTypes, ObjectTypes, DropsAgree
  <2>7. ClosuresAgree'
    BY <1>3, <1>1 DEF ThreadTypes, ObjectTypes, ClosuresAgree
  <2>8. CreationsAgree'
    BY <1>3, <1>1 DEF ThreadTypes, ObjectTypes, CreationsAgree
  <2>9. LeaseProtects'
    BY <1>3, <1>1 DEF ThreadTypes, ObjectTypes, LeaseProtects, Leased, LeasedBeyond
  <2> QED
    BY <2>1, <2>2, <2>3, <2>4, <2>5, <2>6, <2>7, <2>8, <2>9 DEF Inv
<1>4. CASE /\ ~LeasedBeyond(o, {}, {t})
           /\ registry' = registry \ {o}
           /\ object' = [object EXCEPT ![o] = "retired"]
           /\ thread' = [thread EXCEPT ![t] = "dropping"]
           /\ dropping' = [dropping EXCEPT ![t] = o]
  <2>1. QueueTypes'
    BY <1>4, <1>1 DEF QueueTypes
  <2>2. ThreadTypes'
    BY <1>4, <1>1 DEF ThreadTypes, ThreadStates, Outcomes
  <2>3. ObjectTypes'
    BY <1>4, <1>1 DEF ObjectTypes, CommandStates, ObjectStates
  <2>4. ThreadsAgree'
    BY <1>4, <1>1 DEF ThreadTypes, ObjectTypes, ThreadsAgree, InCall
  <2>5. QueuesAgree'
    BY <1>4, <1>1, QueuesStay DEF ThreadTypes, ObjectTypes
  <2>6. DropsAgree'
    BY <1>4, <1>1 DEF ThreadTypes, ObjectTypes, DropsAgree
  <2>7. ClosuresAgree'
    BY <1>4, <1>1 DEF ThreadTypes, ObjectTypes, ClosuresAgree
  <2>8. CreationsAgree'
    BY <1>4, <1>1 DEF ThreadTypes, ObjectTypes, CreationsAgree
  <2>9. LeaseProtects'
    BY <1>4, <1>1 DEF ThreadTypes, ObjectTypes, LeaseProtects, Leased, LeasedBeyond
  <2> QED
    BY <2>1, <2>2, <2>3, <2>4, <2>5, <2>6, <2>7, <2>8, <2>9 DEF Inv
<1> QED
  BY <1>2, <1>3, <1>4

LEMMA BeginCallOwned ==
    ASSUME Inv, NEW t \in Threads, NEW c \in Commands,
           NEW o \in Objects \cup {NoObject}, NEW new \in Objects \cup {NoObject}, BeginCall(t, c, o, new)
    PROVE  Inv'
<1> USE NoObjectAssumption DEF Inv
<1>1. /\ thread[t] = "ready" /\ command[c] = "unused" /\ o \in lease[t] \cup {NoObject}
      /\ \/ new = NoObject
         \/ /\ c \in SyncCommands /\ object[new] = "absent"
            /\ \A d \in Commands : creates[d] # new
      /\ UNCHANGED <<health, actor, commandQ, cleanupQ, dropping, object, registry>>
  BY DEF BeginCall, Uncreated
<1>2. \/ /\ thread' = [thread EXCEPT ![t] = "checked"]
         /\ call' = [call EXCEPT ![t] = c]
         /\ command' = [command EXCEPT ![c] = "building"]
         /\ captured' = [captured EXCEPT ![c] = {o} \ {NoObject}]
         /\ creates' = [creates EXCEPT ![c] = new]
         /\ lease' = lease \/ lease' = [lease EXCEPT ![t] = @ \ {o}]
         /\ outcome' = outcome
      \/ /\ outcome' = [outcome EXCEPT ![t] = UnavailableError]
         /\ command' = [command EXCEPT ![c] = "rejected"]
         /\ UNCHANGED <<thread, call, captured, creates, lease>>
  BY DEF BeginCall
<1>3. captured[c] = {}
  BY <1>1 DEF ClosuresAgree
<1>4. CASE /\ thread' = [thread EXCEPT ![t] = "checked"]
           /\ call' = [call EXCEPT ![t] = c]
           /\ command' = [command EXCEPT ![c] = "building"]
           /\ captured' = [captured EXCEPT ![c] = {o} \ {NoObject}]
           /\ creates' = [creates EXCEPT ![c] = new]
           /\ lease' = lease \/ lease' = [lease EXCEPT ![t] = @ \ {o}]
           /\ outcome' = outcome
  <2>1. QueueTypes'
    BY <1>4, <1>1 DEF QueueTypes
  <2>2. ThreadTypes'
    BY <1>4, <1>1 DEF ThreadTypes, ThreadStates, Outcomes
  <2>3. ObjectTypes'
    BY <1>4, <1>1 DEF ObjectTypes, CommandStates, ObjectStates
  <2>4. ThreadsAgree'
    BY <1>4, <1>1 DEF ThreadTypes, ObjectTypes, ThreadsAgree, InCall
  <2>5. QueuesAgree'
    BY <1>4, <1>1, QueuesStay DEF ThreadTypes, ObjectTypes
  <2>6. DropsAgree'
    BY <1>4, <1>1 DEF ThreadTypes, ObjectTypes, DropsAgree
  <2>7. ClosuresAgree'
    BY <1>4, <1>1 DEF ThreadTypes, ObjectTypes, ClosuresAgree
  <2>8. CreationsAgree'
    BY <1>4, <1>1 DEF ThreadTypes, ObjectTypes, CreationsAgree
  <2>9. LeaseProtects'
    BY <1>4, <1>1, <1>3 DEF ThreadTypes, ObjectTypes, LeaseProtects, Leased, LeasedBeyond
  <2> QED
    BY <2>1, <2>2, <2>3, <2>4, <2>5, <2>6, <2>7, <2>8, <2>9 DEF Inv
<1>5. CASE /\ outcome' = [outcome EXCEPT ![t] = UnavailableError]
           /\ command' = [command EXCEPT ![c] = "rejected"]
           /\ UNCHANGED <<thread, call, captured, creates, lease>>
  <2>1. QueueTypes'
    BY <1>5, <1>1 DEF QueueTypes
  <2>2. ThreadTypes'
    BY <1>5, <1>1 DEF ThreadTypes, ThreadStates, Outcomes, UnavailableError
  <2>3. ObjectTypes'
    BY <1>5, <1>1 DEF ObjectTypes, CommandStates, ObjectStates
  <2>4. ThreadsAgree'
    BY <1>5, <1>1 DEF ThreadTypes, ObjectTypes, ThreadsAgree, InCall
  <2>5. QueuesAgree'
    BY <1>5, <1>1, QueuesStay DEF ThreadTypes, ObjectTypes
  <2>6. DropsAgree'
    BY <1>5, <1>1 DEF ThreadTypes, ObjectTypes, DropsAgree
  <2>7. ClosuresAgree'
    BY <1>5, <1>1 DEF ThreadTypes, ObjectTypes, ClosuresAgree
  <2>8. CreationsAgree'
    BY <1>5, <1>1 DEF ThreadTypes, ObjectTypes, CreationsAgree
  <2>9. LeaseProtects'
    BY <1>5, <1>1 DEF ThreadTypes, ObjectTypes, LeaseProtects, Leased, LeasedBeyond
  <2> QED
    BY <2>1, <2>2, <2>3, <2>4, <2>5, <2>6, <2>7, <2>8, <2>9 DEF Inv
<1> QED
  BY <1>2, <1>4, <1>5

(* A rejected closure is dropped on its thread.                            *)
LEMMA RejectOwned ==
    ASSUME Inv, NEW t \in Threads, NEW why \in Outcomes, Reject(t, why), thread[t] = "checked", 
           UNCHANGED <<health, actor, cleanupQ, lease>>
    PROVE  Inv'
<1> USE NoObjectAssumption DEF Inv
<1> DEFINE c == call[t]
             last == LastHandles({c})
<1>1. /\ c \in Commands /\ command[c] = "building"
      /\ outcome' = [outcome EXCEPT ![t] = why]
      /\ command' = [command EXCEPT ![c] = "rejected"]
      /\ captured' = [captured EXCEPT ![c] = {}]
      /\ creates' = [creates EXCEPT ![c] = NoObject]
      /\ call' = [call EXCEPT ![t] = NoCommand]
      /\ registry' = registry \ last
      /\ object' = [o \in Objects |-> IF o \in last THEN "retired" ELSE object[o]]
      /\ UNCHANGED commandQ
  BY DEF Reject, ThreadsAgree
<1>2. \A o \in Objects : o \in last <=> o \in captured[c] /\ Leased(o) /\ ~Leased(o)'
  BY <1>1 DEF LastHandles, Leased, LeasedBeyond, ObjectTypes
<1>3. /\ last \subseteq Objects /\ \A o \in last : object[o] = "live"
      /\ \A o, p \in last : o = p
  <2>1. last \subseteq captured[c] /\ captured[c] \subseteq Objects
    BY <1>1 DEF LastHandles, ObjectTypes
  <2>2. \A o, p \in captured[c] : o = p
    BY <1>1 DEF ClosuresAgree
  <2> QED
    BY <1>2, <2>1, <2>2 DEF LeaseProtects
<1>4. \A o \in Objects : o \notin last => (Leased(o) <=> Leased(o)')
  BY <1>1, <1>2 DEF Leased, LeasedBeyond, LastHandles, ObjectTypes
<1>5. \/ last = {} /\ thread' = [thread EXCEPT ![t] = "ready"] /\ UNCHANGED dropping
      \/ /\ thread' = [thread EXCEPT ![t] = "dropping"]
         /\ \E o \in last : dropping' = [dropping EXCEPT ![t] = o]
  BY DEF Reject
<1> HIDE DEF c, last
<1>6. CASE last = {} /\ thread' = [thread EXCEPT ![t] = "ready"] /\ UNCHANGED dropping
  <2>1. QueueTypes'
    BY <1>6, <1>1 DEF QueueTypes, c
  <2>2. ThreadTypes'
    BY <1>6, <1>1 DEF ThreadTypes, ThreadStates, Outcomes, c
  <2>3. ObjectTypes'
    BY <1>6, <1>1 DEF ObjectTypes, CommandStates, ObjectStates, c
  <2>4. ThreadsAgree'
    BY <1>6, <1>1 DEF ThreadTypes, ObjectTypes, ThreadsAgree, InCall, c
  <2>5. QueuesAgree'
    BY <1>6, <1>1, QueuesStay DEF ThreadTypes, ObjectTypes, c
  <2>6. DropsAgree'
    BY <1>6, <1>1 DEF ThreadTypes, ObjectTypes, DropsAgree, c
  <2>7. ClosuresAgree'
    BY <1>6, <1>1 DEF ThreadTypes, ObjectTypes, ClosuresAgree, c
  <2>8. CreationsAgree'
    BY <1>6, <1>1 DEF ThreadTypes, ObjectTypes, CreationsAgree, c
  <2>9. LeaseProtects'
    BY <1>6, <1>1, <1>2, <1>4 DEF ThreadTypes, ObjectTypes, LeaseProtects, Leased, LeasedBeyond, c
  <2> QED
    BY <2>1, <2>2, <2>3, <2>4, <2>5, <2>6, <2>7, <2>8, <2>9 DEF Inv
<1>7. CASE /\ thread' = [thread EXCEPT ![t] = "dropping"]
           /\ \E o \in last : dropping' = [dropping EXCEPT ![t] = o]
  <2>1. QueueTypes'
    BY <1>7, <1>1, <1>3 DEF QueueTypes, c
  <2>2. ThreadTypes'
    BY <1>7, <1>1, <1>3 DEF ThreadTypes, ThreadStates, Outcomes, c
  <2>3. ObjectTypes'
    BY <1>7, <1>1, <1>3 DEF ObjectTypes, CommandStates, ObjectStates, c
  <2>4. ThreadsAgree'
    BY <1>7, <1>1, <1>3 DEF ThreadTypes, ObjectTypes, ThreadsAgree, InCall, c
  <2>5. QueuesAgree'
    BY <1>7, <1>1, <1>3, QueuesStay DEF ThreadTypes, ObjectTypes, c
  <2>6. DropsAgree'
    BY <1>7, <1>1, <1>3 DEF ThreadTypes, ObjectTypes, DropsAgree, c
  <2>7. ClosuresAgree'
    BY <1>7, <1>1, <1>3 DEF ThreadTypes, ObjectTypes, ClosuresAgree, c
  <2>8. CreationsAgree'
    BY <1>7, <1>1, <1>3 DEF ThreadTypes, ObjectTypes, CreationsAgree, c
  <2>9. LeaseProtects'
    BY <1>7, <1>1, <1>3, <1>2, <1>4 DEF ThreadTypes, ObjectTypes, LeaseProtects, Leased, LeasedBeyond, c
  <2> QED
    BY <2>1, <2>2, <2>3, <2>4, <2>5, <2>6, <2>7, <2>8, <2>9 DEF Inv
<1> QED
  BY <1>5, <1>6, <1>7

LEMMA SubmitOwned ==
    ASSUME Inv, NEW t \in Threads, SubmitCommand(t)
    PROVE  Inv'
<1> USE NoObjectAssumption DEF Inv
<1>1. /\ thread[t] = "checked" /\ UNCHANGED <<health, actor, cleanupQ, lease>>
      /\ \/ \E why \in Outcomes : Reject(t, why)
         \/ /\ Len(commandQ) < QueueCapacity
            /\ commandQ' = Append(commandQ, call[t])
            /\ command' = [command EXCEPT ![call[t]] = "queued"]
            /\ \/ /\ call[t] \in SyncCommands
                  /\ thread' = [thread EXCEPT ![t] = "waiting"]
                  /\ UNCHANGED <<call, outcome>>
               \/ /\ call[t] \notin SyncCommands
                  /\ thread' = [thread EXCEPT ![t] = "ready"]
                  /\ call' = [call EXCEPT ![t] = NoCommand]
                  /\ outcome' = [outcome EXCEPT ![t] = "ok"]
            /\ UNCHANGED <<captured, creates, dropping, object, registry>>
  BY DEF SubmitCommand, UnavailableError, Outcomes
<1>2. call[t] \in Commands /\ command[call[t]] = "building"
  BY <1>1 DEF ThreadsAgree
<1>3. CASE \E why \in Outcomes : Reject(t, why)
  BY <1>1, <1>3, RejectOwned
<1>4. commandQ \in Seq(Commands) /\ NoRepeat(commandQ) /\ call[t] \notin Elements(commandQ)
  BY <1>2 DEF QueueTypes, QueuesAgree
<1>5. CASE /\ Len(commandQ) < QueueCapacity
           /\ commandQ' = Append(commandQ, call[t])
           /\ command' = [command EXCEPT ![call[t]] = "queued"]
           /\ \/ /\ call[t] \in SyncCommands
                 /\ thread' = [thread EXCEPT ![t] = "waiting"]
                 /\ UNCHANGED <<call, outcome>>
              \/ /\ call[t] \notin SyncCommands
                 /\ thread' = [thread EXCEPT ![t] = "ready"]
                 /\ call' = [call EXCEPT ![t] = NoCommand]
                 /\ outcome' = [outcome EXCEPT ![t] = "ok"]
           /\ UNCHANGED <<captured, creates, dropping, object, registry>>
  <2>1. QueueTypes'
    BY <1>5, <1>1, <1>2, <1>4, AppendElements, CapacityAssumption DEF QueueTypes
  <2>2. ThreadTypes'
    BY <1>5, <1>1, <1>2 DEF ThreadTypes, ThreadStates, Outcomes
  <2>3. ObjectTypes'
    BY <1>5, <1>1, <1>2 DEF ObjectTypes, CommandStates, ObjectStates
  <2>4. ThreadsAgree'
    <3>1. CASE call[t] \in SyncCommands
      BY <1>5, <1>1, <1>2, <3>1 DEF ThreadTypes, ObjectTypes, ThreadsAgree, InCall
    <3>2. CASE call[t] \notin SyncCommands
      <4>1. /\ thread' = [thread EXCEPT ![t] = "ready"]
            /\ call' = [call EXCEPT ![t] = NoCommand]
            /\ command' = [command EXCEPT ![call[t]] = "queued"]
            /\ UNCHANGED creates
        BY <1>5, <3>2
      <4>2. \A u \in Threads : InCall(u)' => u # t /\ InCall(u) /\ call'[u] = call[u] /\ thread'[u] = thread[u]
        BY <4>1, <1>1 DEF ThreadTypes, InCall
      <4>3. \A u \in Threads \ {t} : InCall(u) => call[u] # call[t] /\ InCall(u)'
        BY <4>1, <1>1 DEF ThreadTypes, ThreadsAgree, InCall
      <4>4. \A d \in Commands : creates[d] # NoObject => d # call[t]
        BY <3>2 DEF ThreadsAgree
      <4> QED
        BY <4>1, <4>2, <4>3, <4>4, <1>1, <1>2 DEF ThreadTypes, ObjectTypes, ThreadsAgree, InCall
    <3> QED
      BY <3>1, <3>2
  <2>5. QueuesAgree'
    BY <1>5, <1>1, <1>2, AppendElements DEF ThreadTypes, ObjectTypes, QueuesAgree, QueueTypes
  <2>6. DropsAgree'
    BY <1>5, <1>1, <1>2 DEF ThreadTypes, ObjectTypes, DropsAgree
  <2>7. ClosuresAgree'
    BY <1>5, <1>1, <1>2 DEF ThreadTypes, ObjectTypes, ClosuresAgree
  <2>8. CreationsAgree'
    BY <1>5, <1>1, <1>2 DEF ThreadTypes, ObjectTypes, CreationsAgree
  <2>9. LeaseProtects'
    BY <1>5, <1>1, <1>2 DEF ThreadTypes, ObjectTypes, LeaseProtects, Leased, LeasedBeyond
  <2> QED
    BY <2>1, <2>2, <2>3, <2>4, <2>5, <2>6, <2>7, <2>8, <2>9 DEF Inv
<1> QED
  BY <1>1, <1>3, <1>5

LEMMA ReceiveOwned ==
    ASSUME Inv, NEW t \in Threads, ReceiveResult(t)
    PROVE  Inv'
<1> USE NoObjectAssumption DEF Inv
<1> DEFINE c == call[t]
<1>1. /\ thread[t] = "waiting" /\ c \in Commands /\ command[c] \in {"executed", "panicked", "dropped"}
      /\ thread' = [thread EXCEPT ![t] = "ready"]
      /\ call' = [call EXCEPT ![t] = NoCommand]
      /\ creates' = [creates EXCEPT ![c] = NoObject]
      /\ UNCHANGED <<health, actor, commandQ, cleanupQ, command, captured, dropping>>
  BY DEF ReceiveResult, ThreadsAgree
<1>2. \/ /\ command[c] = "executed" /\ creates[c] # NoObject
         /\ outcome' = [outcome EXCEPT ![t] = "ok"]
         /\ object' = [object EXCEPT ![creates[c]] = "live"]
         /\ registry' = registry \cup {creates[c]}
         /\ lease' = [lease EXCEPT ![t] = @ \cup {creates[c]}]
         /\ creates[c] \in Objects
      \/ /\ command[c] # "executed" \/ creates[c] = NoObject
         /\ \E why \in Outcomes : outcome' = [outcome EXCEPT ![t] = why]
         /\ UNCHANGED <<object, registry, lease>>
  BY <1>1 DEF ReceiveResult, UnavailableError, Outcomes, ObjectTypes
<1> HIDE DEF c
<1>3. CASE /\ command[c] = "executed" /\ creates[c] # NoObject
           /\ outcome' = [outcome EXCEPT ![t] = "ok"]
           /\ object' = [object EXCEPT ![creates[c]] = "live"]
           /\ registry' = registry \cup {creates[c]}
           /\ lease' = [lease EXCEPT ![t] = @ \cup {creates[c]}]
           /\ creates[c] \in Objects
  <2>1. QueueTypes'
    BY <1>3, <1>1 DEF QueueTypes, c
  <2>2. ThreadTypes'
    BY <1>3, <1>1 DEF ThreadTypes, ThreadStates, Outcomes, c
  <2>3. ObjectTypes'
    BY <1>3, <1>1 DEF ObjectTypes, CommandStates, ObjectStates, c
  <2>4. ThreadsAgree'
    BY <1>3, <1>1 DEF ThreadTypes, ObjectTypes, ThreadsAgree, InCall, c
  <2>5. QueuesAgree'
    BY <1>3, <1>1, QueuesStay DEF ThreadTypes, ObjectTypes, c, CreationsAgree
  <2>6. DropsAgree'
    BY <1>3, <1>1 DEF ThreadTypes, ObjectTypes, DropsAgree, c, CreationsAgree
  <2>7. ClosuresAgree'
    BY <1>3, <1>1 DEF ThreadTypes, ObjectTypes, ClosuresAgree, c
  <2>8. CreationsAgree'
    BY <1>3, <1>1 DEF ThreadTypes, ObjectTypes, CreationsAgree, c
  <2>9. LeaseProtects'
    BY <1>3, <1>1 DEF ThreadTypes, ObjectTypes, LeaseProtects, Leased, LeasedBeyond, c, CreationsAgree
  <2> QED
    BY <2>1, <2>2, <2>3, <2>4, <2>5, <2>6, <2>7, <2>8, <2>9 DEF Inv
<1>4. CASE /\ command[c] # "executed" \/ creates[c] = NoObject
           /\ \E why \in Outcomes : outcome' = [outcome EXCEPT ![t] = why]
           /\ UNCHANGED <<object, registry, lease>>
  <2>1. QueueTypes'
    BY <1>4, <1>1 DEF QueueTypes, c
  <2>2. ThreadTypes'
    BY <1>4, <1>1 DEF ThreadTypes, ThreadStates, Outcomes, c
  <2>3. ObjectTypes'
    BY <1>4, <1>1 DEF ObjectTypes, CommandStates, ObjectStates, c
  <2>4. ThreadsAgree'
    BY <1>4, <1>1 DEF ThreadTypes, ObjectTypes, ThreadsAgree, InCall, c
  <2>5. QueuesAgree'
    BY <1>4, <1>1, QueuesStay DEF ThreadTypes, ObjectTypes, c
  <2>6. DropsAgree'
    BY <1>4, <1>1 DEF ThreadTypes, ObjectTypes, DropsAgree, c
  <2>7. ClosuresAgree'
    BY <1>4, <1>1 DEF ThreadTypes, ObjectTypes, ClosuresAgree, c
  <2>8. CreationsAgree'
    BY <1>4, <1>1 DEF ThreadTypes, ObjectTypes, CreationsAgree, c
  <2>9. LeaseProtects'
    BY <1>4, <1>1 DEF ThreadTypes, ObjectTypes, LeaseProtects, Leased, LeasedBeyond, c
  <2> QED
    BY <2>1, <2>2, <2>3, <2>4, <2>5, <2>6, <2>7, <2>8, <2>9 DEF Inv
<1> QED
  BY <1>2, <1>3, <1>4

LEMMA DeferOwned ==
    ASSUME Inv, NEW t \in Threads, DeferCleanup(t)
    PROVE  Inv'
<1> USE NoObjectAssumption DEF Inv
<1> DEFINE o == dropping[t]
<1>1. /\ thread[t] = "dropping" /\ o \in Objects /\ object[o] = "retired"
      /\ thread' = [thread EXCEPT ![t] = "ready"]
      /\ dropping' = [dropping EXCEPT ![t] = NoObject]
      /\ UNCHANGED <<health, actor, commandQ, call, outcome, command, captured, creates, lease, registry>>
  BY DEF DeferCleanup, DropsAgree
<1>2. \/ object' = [object EXCEPT ![o] = "leaked"] /\ UNCHANGED cleanupQ
      \/ object' = [object EXCEPT ![o] = "queued"] /\ cleanupQ' = Append(cleanupQ, o)
  BY DEF DeferCleanup
<1> HIDE DEF o
<1>3. CASE object' = [object EXCEPT ![o] = "leaked"] /\ UNCHANGED cleanupQ
  <2>1. QueueTypes'
    BY <1>3, <1>1 DEF QueueTypes, o
  <2>2. ThreadTypes'
    BY <1>3, <1>1 DEF ThreadTypes, ThreadStates, Outcomes, o
  <2>3. ObjectTypes'
    BY <1>3, <1>1 DEF ObjectTypes, CommandStates, ObjectStates, o
  <2>4. ThreadsAgree'
    BY <1>3, <1>1 DEF ThreadTypes, ObjectTypes, ThreadsAgree, InCall, o
  <2>5. QueuesAgree'
    BY <1>3, <1>1, QueuesStay DEF ThreadTypes, ObjectTypes, o
  <2>6. DropsAgree'
    BY <1>3, <1>1 DEF ThreadTypes, ObjectTypes, DropsAgree, o
  <2>7. ClosuresAgree'
    BY <1>3, <1>1 DEF ThreadTypes, ObjectTypes, ClosuresAgree, o
  <2>8. CreationsAgree'
    BY <1>3, <1>1 DEF ThreadTypes, ObjectTypes, CreationsAgree, o
  <2>9. LeaseProtects'
    BY <1>3, <1>1 DEF ThreadTypes, ObjectTypes, LeaseProtects, Leased, LeasedBeyond, o
  <2> QED
    BY <2>1, <2>2, <2>3, <2>4, <2>5, <2>6, <2>7, <2>8, <2>9 DEF Inv
<1>4. CASE object' = [object EXCEPT ![o] = "queued"] /\ cleanupQ' = Append(cleanupQ, o)
  <2>1. QueueTypes'
    BY <1>4, <1>1, AppendElements DEF QueueTypes, o, QueuesAgree
  <2>2. ThreadTypes'
    BY <1>4, <1>1 DEF ThreadTypes, ThreadStates, Outcomes, o
  <2>3. ObjectTypes'
    BY <1>4, <1>1 DEF ObjectTypes, CommandStates, ObjectStates, o
  <2>4. ThreadsAgree'
    BY <1>4, <1>1 DEF ThreadTypes, ObjectTypes, ThreadsAgree, InCall, o
  <2>5. QueuesAgree'
    BY <1>4, <1>1, AppendElements DEF ThreadTypes, ObjectTypes, o, QueuesAgree, QueueTypes
  <2>6. DropsAgree'
    BY <1>4, <1>1 DEF ThreadTypes, ObjectTypes, DropsAgree, o
  <2>7. ClosuresAgree'
    BY <1>4, <1>1 DEF ThreadTypes, ObjectTypes, ClosuresAgree, o
  <2>8. CreationsAgree'
    BY <1>4, <1>1 DEF ThreadTypes, ObjectTypes, CreationsAgree, o
  <2>9. LeaseProtects'
    BY <1>4, <1>1 DEF ThreadTypes, ObjectTypes, LeaseProtects, Leased, LeasedBeyond, o
  <2> QED
    BY <2>1, <2>2, <2>3, <2>4, <2>5, <2>6, <2>7, <2>8, <2>9 DEF Inv
<1> QED
  BY <1>2, <1>3, <1>4

(* A command is taken from its queue and its closure dropped on the actor. *)
LEMMA TakenOwned ==
    ASSUME Inv, NEW to \in {"executed", "panicked", "dropped"},
           commandQ # <<>>, commandQ' = Tail(commandQ), UNCHANGED <<cleanupQ, creates, threadVars>>,
           actor' \in ActorStates, health' \in Healths, 
           command' = [command EXCEPT ![Head(commandQ)] = to],
           DropOnActor({Head(commandQ)},
                       [o \in Objects |-> IF to = "executed" /\ o = creates[Head(commandQ)] THEN "raw"
                                         ELSE object[o]])
    PROVE  Inv'
<1> USE NoObjectAssumption DEF Inv
<1> DEFINE c == Head(commandQ)
             next == [o \in Objects |-> IF to = "executed" /\ o = creates[c] THEN "raw" ELSE object[o]]
<1>1. /\ c \in Elements(commandQ) /\ c \in Commands /\ command[c] = "queued"
      /\ commandQ' \in Seq(Commands) /\ Len(commandQ') = Len(commandQ) - 1 /\ Len(commandQ) \in Nat
      /\ NoRepeat(commandQ') /\ Elements(commandQ') = Elements(commandQ) \ {c}
  BY TailElements DEF QueueTypes, QueuesAgree
<1>2. /\ command' = [command EXCEPT ![c] = to]
      /\ UNCHANGED <<cleanupQ, creates, thread, call, outcome, lease, dropping>>
  BY DEF threadVars
<1>3. creates[c] # NoObject => creates[c] \in Objects /\ object[creates[c]] = "absent"
  BY <1>1 DEF CreationsAgree, ObjectTypes
<1>4. /\ next \in [Objects -> ObjectStates]
      /\ \A o \in Objects : /\ object[o] = "live" <=> next[o] = "live"
                            /\ next[o] = IF to = "executed" /\ o = creates[c] THEN "raw" ELSE object[o]
  BY <1>3 DEF ObjectTypes, ObjectStates
<1> HIDE DEF c, next
<1>5. /\ captured' = [d \in Commands |-> IF d \in {c} THEN {} ELSE captured[d]]
      /\ captured' \in [Commands -> SUBSET Objects]
      /\ object' \in [Objects -> ObjectStates] /\ registry' \in SUBSET Objects
      /\ \A o \in Objects : \/ object'[o] = next[o]
                            \/ object[o] = "live" /\ object'[o] \in {"late", "released"}
      /\ LeaseProtects'
  <2>1. DropOnActor({c}, next) /\ {c} \in SUBSET Commands
    BY <1>1 DEF c, next
  <2> QED
    BY <1>2, <1>4, <2>1, DroppedClosures
<1>6. /\ \A o \in Objects : object'[o] = "queued" <=> object[o] = "queued"
      /\ \A o \in Objects : object'[o] = "retired" <=> object[o] = "retired"
      /\ \A o \in Objects : object[o] = "absent" => object'[o] = next[o]
      /\ \A o \in Objects : object'[o] = "raw" <=> next[o] = "raw"
  BY <1>3, <1>4, <1>5
<1>7. /\ {d \in Commands : command'[d] = "queued"} = {d \in Commands : command[d] = "queued"} \ {c}
      /\ {o \in Objects : object'[o] = "queued"} = {o \in Objects : object[o] = "queued"}
  BY <1>1, <1>2, <1>6 DEF ObjectTypes
<1> QED
  <2>1. QueueTypes'
    BY <1>1, <1>2, CapacityAssumption DEF QueueTypes
  <2>2. ThreadTypes'
    BY <1>1, <1>2 DEF ThreadTypes, ThreadStates, Outcomes
  <2>3. ObjectTypes'
    BY <1>1, <1>2, <1>5 DEF ObjectTypes, CommandStates, ObjectStates
  <2>4. ThreadsAgree'
    BY <1>1, <1>2 DEF ThreadTypes, ObjectTypes, ThreadsAgree, InCall
  <2>5. QueuesAgree'
    BY <1>1, <1>2, <1>7 DEF ThreadTypes, ObjectTypes, QueuesAgree
  <2>6. DropsAgree'
    BY <1>1, <1>2, <1>6 DEF ThreadTypes, ObjectTypes, DropsAgree
  <2>7. ClosuresAgree'
    BY <1>1, <1>2, <1>5 DEF ThreadTypes, ObjectTypes, ClosuresAgree
  <2>8. CreationsAgree'
    BY <1>1, <1>2, <1>3, <1>4, <1>6 DEF ThreadTypes, ObjectTypes, CreationsAgree
  <2>9. LeaseProtects'
    BY <1>1, <1>2, <1>5 DEF ThreadTypes, ObjectTypes, LeaseProtects, Leased, LeasedBeyond
  <2> QED
    BY <2>1, <2>2, <2>3, <2>4, <2>5, <2>6, <2>7, <2>8, <2>9 DEF Inv

(* It runs, panics or is dropped unexecuted.                               *)
LEMMA ExecuteOwned ==
    ASSUME Inv, ExecuteCommand \/ CommandPanic \/ DropCommand
    PROVE  Inv'
<1>1. /\ commandQ # <<>> /\ commandQ' = Tail(commandQ)
      /\ UNCHANGED <<cleanupQ, creates, threadVars>>
      /\ actor' \in ActorStates /\ health' \in Healths
  BY DEF ExecuteCommand, CommandPanic, DropCommand, Inv, QueueTypes, ActorStates
<1>2. CASE ExecuteCommand
  <2>1. command' = [command EXCEPT ![Head(commandQ)] = "executed"]
    BY <1>2 DEF ExecuteCommand
  <2>2. DropOnActor({Head(commandQ)}, [o \in Objects |-> IF "executed" = "executed" /\ o = creates[Head(commandQ)]
                                                        THEN "raw" ELSE object[o]])
    BY <1>2 DEF ExecuteCommand
  <2> QED
    BY <1>1, <2>1, <2>2, TakenOwned
<1>3. ASSUME NEW to \in {"panicked", "dropped"},
             command' = [command EXCEPT ![Head(commandQ)] = to], DropOnActor({Head(commandQ)}, object)
      PROVE  Inv'
  <2>1. object = [o \in Objects |-> IF to = "executed" /\ o = creates[Head(commandQ)] THEN "raw" ELSE object[o]]
    BY DEF Inv, ObjectTypes
  <2> QED
    BY <1>1, <1>3, <2>1, TakenOwned
<1>4. CASE CommandPanic
  BY <1>3, <1>4 DEF CommandPanic
<1>5. CASE DropCommand
  BY <1>3, <1>5 DEF DropCommand
<1> QED
  BY <1>2, <1>4, <1>5

(* A deferred cleanup releases its object or panics.                       *)
LEMMA CleanupOwned ==
    ASSUME Inv, RunCleanup \/ CleanupPanic
    PROVE  Inv'
<1> USE NoObjectAssumption DEF Inv
<1> DEFINE o == Head(cleanupQ)
<1>1. /\ o \in Elements(cleanupQ) /\ o \in Objects /\ object[o] = "queued"
      /\ Tail(cleanupQ) \in Seq(Objects)
      /\ NoRepeat(Tail(cleanupQ)) /\ Elements(Tail(cleanupQ)) = Elements(cleanupQ) \ {o}
  <2>1. cleanupQ # <<>>
    BY DEF RunCleanup, CleanupPanic
  <2> QED
    BY <2>1, TailElements DEF QueueTypes, QueuesAgree
<1>2. /\ cleanupQ' = Tail(cleanupQ) /\ actor' \in ActorStates
      /\ \E to \in {"released", "leaked"} : object' = [object EXCEPT ![o] = to]
      /\ UNCHANGED <<health, commandQ, command, captured, creates, registry,
                     thread, call, outcome, lease, dropping>>
  BY DEF RunCleanup, CleanupPanic, threadVars, QueueTypes, ActorStates
<1> HIDE DEF o
<1>3. /\ {p \in Objects : object'[p] = "queued"} = {p \in Objects : object[p] = "queued"} \ {o}
      /\ {c \in Commands : command'[c] = "queued"} = {c \in Commands : command[c] = "queued"}
  BY <1>1, <1>2 DEF ObjectTypes
<1> QED
  <2>1. QueueTypes'
    BY <1>1, <1>2 DEF QueueTypes
  <2>2. ThreadTypes'
    BY <1>1, <1>2 DEF ThreadTypes, ThreadStates, Outcomes
  <2>3. ObjectTypes'
    BY <1>1, <1>2 DEF ObjectTypes, CommandStates, ObjectStates
  <2>4. ThreadsAgree'
    BY <1>1, <1>2 DEF ThreadTypes, ObjectTypes, ThreadsAgree, InCall
  <2>5. QueuesAgree'
    BY <1>1, <1>2, <1>3 DEF ThreadTypes, ObjectTypes, QueuesAgree
  <2>6. DropsAgree'
    BY <1>1, <1>2 DEF ThreadTypes, ObjectTypes, DropsAgree
  <2>7. ClosuresAgree'
    BY <1>1, <1>2 DEF ThreadTypes, ObjectTypes, ClosuresAgree
  <2>8. CreationsAgree'
    BY <1>1, <1>2 DEF ThreadTypes, ObjectTypes, CreationsAgree
  <2>9. LeaseProtects'
    BY <1>1, <1>2 DEF ThreadTypes, ObjectTypes, LeaseProtects, Leased, LeasedBeyond
  <2> QED
    BY <2>1, <2>2, <2>3, <2>4, <2>5, <2>6, <2>7, <2>8, <2>9 DEF Inv

(* The actor goes from one phase to the next.                              *)
LEMMA PhaseOwned ==
    ASSUME Inv, LeaveLoop \/ StorePanicked \/ DrainEnds \/ ObsShutdown \/ DropGuard
    PROVE  Inv'
<1> USE NoObjectAssumption DEF Inv
<1>1. /\ actor' \in ActorStates /\ health' \in Healths
      /\ UNCHANGED <<commandQ, cleanupQ, thread, call, outcome, lease, dropping,
                     command, captured, creates, object, registry>>
  BY DEF LeaveLoop, StorePanicked, DrainEnds, ObsShutdown, DropGuard, threadVars, QueueTypes,
         ActorStates, Healths
<1> QED
  <2>1. QueueTypes'
    BY <1>1 DEF QueueTypes
  <2>2. ThreadTypes'
    BY <1>1 DEF ThreadTypes, ThreadStates, Outcomes
  <2>3. ObjectTypes'
    BY <1>1 DEF ObjectTypes, CommandStates, ObjectStates
  <2>4. ThreadsAgree'
    BY <1>1 DEF ThreadTypes, ObjectTypes, ThreadsAgree, InCall
  <2>5. QueuesAgree'
    BY <1>1, QueuesStay DEF ThreadTypes, ObjectTypes
  <2>6. DropsAgree'
    BY <1>1 DEF ThreadTypes, ObjectTypes, DropsAgree
  <2>7. ClosuresAgree'
    BY <1>1 DEF ThreadTypes, ObjectTypes, ClosuresAgree
  <2>8. CreationsAgree'
    BY <1>1 DEF ThreadTypes, ObjectTypes, CreationsAgree
  <2>9. LeaseProtects'
    BY <1>1 DEF ThreadTypes, ObjectTypes, LeaseProtects, Leased, LeasedBeyond
  <2> QED
    BY <2>1, <2>2, <2>3, <2>4, <2>5, <2>6, <2>7, <2>8, <2>9 DEF Inv

(* The receivers are dropped with what is still queued.                    *)
LEMMA ExitOwned ==
    ASSUME Inv, ActorExits
    PROVE  Inv'
<1> USE NoObjectAssumption DEF Inv
<1> DEFINE late == {c \in Commands : command[c] = "queued"}
             leaked == [o \in Objects |-> IF object[o] = "queued" THEN "leaked" ELSE object[o]]
<1>1. /\ actor' \in ActorStates /\ health' \in Healths
      /\ commandQ' = <<>> /\ cleanupQ' = <<>>
      /\ command' = [c \in Commands |-> IF c \in late THEN "dropped" ELSE command[c]]
      /\ UNCHANGED <<creates, thread, call, outcome, lease, dropping>>
  BY DEF ActorExits, threadVars, QueueTypes, ActorStates, Healths
<1>2. DropOnActor(late, leaked)
  <2>1. leaked = [o \in Objects |-> IF o \in {p \in Objects : object[p] = "queued"} THEN "leaked" ELSE object[o]]
    OBVIOUS
  <2> QED
    BY <2>1 DEF ActorExits
<1>3. /\ leaked \in [Objects -> ObjectStates]
      /\ \A o \in Objects : /\ object[o] = "live" <=> leaked[o] = "live"
                            /\ leaked[o] = IF object[o] = "queued" THEN "leaked" ELSE object[o]
  BY DEF ObjectTypes, ObjectStates
<1>4. late \in SUBSET Commands /\ \A c \in Commands : c \in late <=> command[c] = "queued"
  OBVIOUS
<1> HIDE DEF late, leaked
<1>5. /\ captured' = [c \in Commands |-> IF c \in late THEN {} ELSE captured[c]]
      /\ captured' \in [Commands -> SUBSET Objects]
      /\ object' \in [Objects -> ObjectStates] /\ registry' \in SUBSET Objects
      /\ \A o \in Objects : \/ object'[o] = leaked[o]
                            \/ object[o] = "live" /\ object'[o] \in {"late", "released"}
      /\ LeaseProtects'
  BY <1>1, <1>2, <1>3, <1>4, DroppedClosures
<1>6. \A o \in Objects :
          /\ object'[o] # "queued"
          /\ object[o] \in {"absent", "raw", "retired"} \/ object'[o] \in {"absent", "raw", "retired"} =>
                object'[o] = object[o]
  BY <1>3, <1>5
<1>7. {c \in Commands : command'[c] = "queued"} = {} /\ {o \in Objects : object'[o] = "queued"} = {}
  BY <1>1, <1>4, <1>6 DEF ObjectTypes
<1> QED
  <2>1. QueueTypes'
    BY <1>1, <1>4, CapacityAssumption DEF QueueTypes
  <2>2. ThreadTypes'
    BY <1>1, <1>4 DEF ThreadTypes, ThreadStates, Outcomes
  <2>3. ObjectTypes'
    BY <1>1, <1>4, <1>5 DEF ObjectTypes, CommandStates, ObjectStates
  <2>4. ThreadsAgree'
    BY <1>1, <1>4 DEF ThreadTypes, ObjectTypes, ThreadsAgree, InCall
  <2>5. QueuesAgree'
    BY <1>1, <1>4, <1>7, NoElements DEF ThreadTypes, ObjectTypes, QueuesAgree
  <2>6. DropsAgree'
    BY <1>1, <1>4, <1>6 DEF ThreadTypes, ObjectTypes, DropsAgree
  <2>7. ClosuresAgree'
    BY <1>1, <1>4, <1>5 DEF ThreadTypes, ObjectTypes, ClosuresAgree
  <2>8. CreationsAgree'
    BY <1>1, <1>4, <1>6 DEF ThreadTypes, ObjectTypes, CreationsAgree
  <2>9. LeaseProtects'
    BY <1>1, <1>4, <1>5 DEF ThreadTypes, ObjectTypes, LeaseProtects, Leased, LeasedBeyond
  <2> QED
    BY <2>1, <2>2, <2>3, <2>4, <2>5, <2>6, <2>7, <2>8, <2>9 DEF Inv

-----------------------------------------------------------------------------
(* The theorems *)

(* Whatever the threads and the actor do, the parts agree on who owns      *)
(* which command, closure and native object.                               *)
THEOREM OwnershipInvariant == Spec => []Inv
<1>1. Inv /\ [Next]_vars => Inv'
  <2> SUFFICES ASSUME Inv, [Next]_vars PROVE Inv'
    OBVIOUS
  <2>1. ASSUME StartCall PROVE Inv'
    BY <2>1, BeginCallOwned DEF StartCall
  <2>2. ASSUME NEW t \in Threads, FinishCall(t) PROVE Inv'
    BY <2>2, SubmitOwned, ReceiveOwned, DeferOwned DEF FinishCall
  <2>3. ASSUME NEW t \in Threads, NEW u \in Threads, NEW o \in Objects, ShareLease(t, u, o) PROVE Inv'
    BY <2>3, ShareLeaseOwned
  <2>4. ASSUME NEW t \in Threads, NEW o \in Objects, DropLease(t, o) PROVE Inv'
    BY <2>4, DropLeaseOwned
  <2>5. ASSUME NEW t \in Threads, DropHandle(t) PROVE Inv'
    BY <2>5, DropHandleOwned
  <2>6. CASE DropGuard
    BY <2>6, PhaseOwned
  <2>7. CASE ActorStep
    BY <2>7, ExecuteOwned, CleanupOwned, PhaseOwned, ExitOwned DEF ActorStep, TakeCommand, TakeCleanup
  <2>8. CASE UNCHANGED vars
    <3>1. QueueTypes' /\ ThreadTypes' /\ ObjectTypes'
      BY <2>8 DEF vars, Inv, QueueTypes, ThreadTypes, ObjectTypes
    <3>2. ThreadsAgree' /\ QueuesAgree' /\ DropsAgree' /\ ClosuresAgree' /\ CreationsAgree'
      BY <2>8 DEF vars, Inv, ThreadsAgree, InCall, QueuesAgree, DropsAgree, ClosuresAgree, CreationsAgree
    <3>3. LeaseProtects'
      BY <2>8 DEF vars, Inv, LeaseProtects, Leased, LeasedBeyond
    <3> QED
      BY <3>1, <3>2, <3>3 DEF Inv
  <2> QED
    BY <2>1, <2>2, <2>3, <2>4, <2>5, <2>6, <2>7, <2>8 DEF Next
<1> QED
  BY <1>1, InitOwned, PTL DEF Spec

(* The two flags are flags.                                                *)
LEMMA FlagTypesHold == Spec => []FlagTypes
<1>1. Init => FlagTypes
  BY DEF Init, FlagTypes
<1>2. FlagTypes /\ [Next]_vars => FlagTypes'
  <2> SUFFICES ASSUME FlagTypes, [Next]_vars
               PROVE  FlagTypes'
    OBVIOUS
  <2> USE DEF FlagTypes
  <2>1. CASE StartCall
    BY <2>1 DEF StartCall, BeginCall
  <2>2. ASSUME NEW t \in Threads, FinishCall(t)
        PROVE  FlagTypes'
    BY <2>2 DEF FinishCall, SubmitCommand, ReceiveResult, DeferCleanup
  <2>3. ASSUME NEW t \in Threads, NEW u \in Threads, NEW o \in Objects,
               ShareLease(t, u, o) \/ DropLease(t, o) \/ DropHandle(t)
        PROVE  FlagTypes'
    BY <2>3 DEF ShareLease, DropLease, DropHandle
  <2>4. CASE DropGuard \/ LeaveLoop \/ StorePanicked \/ DrainEnds \/ ObsShutdown
    BY <2>4 DEF DropGuard, LeaveLoop, StorePanicked, DrainEnds, ObsShutdown
  <2>5. CASE TakeCommand \/ TakeCleanup \/ DropCommand \/ ActorExits
    BY <2>5 DEF TakeCommand, TakeCleanup, ExecuteCommand, CommandPanic, RunCleanup, CleanupPanic,
                DropCommand, ActorExits
  <2>6. CASE UNCHANGED vars
    BY <2>6 DEF vars
  <2>7. \/ StartCall \/ DropGuard \/ TakeCommand \/ TakeCleanup \/ LeaveLoop \/ StorePanicked
        \/ DropCommand \/ DrainEnds \/ ObsShutdown \/ ActorExits \/ UNCHANGED vars
        \/ \E t \in Threads : FinishCall(t)
        \/ \E t, u \in Threads, o \in Objects : ShareLease(t, u, o)
        \/ \E t \in Threads, o \in Objects : DropLease(t, o)
        \/ \E t \in Threads : DropHandle(t)
    BY DEF Next, ActorStep
  <2>8. ASSUME NEW t \in Threads, DropHandle(t)
        PROVE  FlagTypes'
    BY <2>8 DEF DropHandle
  <2> QED
    BY <2>1, <2>2, <2>3, <2>4, <2>5, <2>6, <2>7, <2>8
<1> QED
  BY <1>1, <1>2, PTL DEF Spec

(* Every variable keeps its type; the command queue keeps to its capacity. *)
THEOREM TypeCorrect == Spec => []TypeOK
<1>1. Inv /\ FlagTypes => TypeOK
  BY DEF Inv, QueueTypes, ThreadTypes, ObjectTypes, FlagTypes, TypeOK
<1> QED
  BY <1>1, OwnershipInvariant, FlagTypesHold, PTL

(* A native object is alive exactly as long as somebody has a handle of    *)
(* it, and one that was created reaches the caller that waits for it.      *)
THEOREM ObjectsAlwaysOwned == Spec => []ObjectsAreOwned
<1>1. Inv => RawIsAwaited
  <2> SUFFICES ASSUME Inv, NEW o \in Objects, object[o] = "raw"
               PROVE  \E t \in Threads : /\ thread[t] = "waiting"
                                         /\ creates[call[t]] = o
                                         /\ command[call[t]] = "executed"
    BY DEF RawIsAwaited
  <2>1. PICK c \in Commands : creates[c] = o /\ command[c] = "executed"
    BY DEF Inv, CreationsAgree
  <2>2. PICK t \in Threads : InCall(t) /\ call[t] = c
    BY <2>1, NoObjectAssumption DEF Inv, ThreadsAgree
  <2> QED
    BY <2>1, <2>2 DEF Inv, ThreadsAgree, InCall
<1> QED
  BY <1>1, OwnershipInvariant, PTL DEF ObjectsAreOwned, Inv

(* Once every handle is gone, nobody calls or drops any more. *)
LEMMA HandlesStayGone ==
    ASSUME HandlesGone, [Next]_vars
    PROVE  HandlesGone' /\ (DropGuard \/ ActorStep \/ UNCHANGED vars)
<1>1. DropGuard \/ ActorStep \/ UNCHANGED vars
  <2>1. ASSUME NEW t \in Threads PROVE ~FinishCall(t)
    BY DEF HandlesGone, FinishCall, SubmitCommand, ReceiveResult, DeferCleanup
  <2>2. ~StartCall
    BY DEF HandlesGone, StartCall, BeginCall
  <2>3. ASSUME NEW t \in Threads, NEW u \in Threads, NEW o \in Objects
        PROVE  ~ShareLease(t, u, o) /\ ~DropLease(t, o)
    BY DEF HandlesGone, ShareLease, DropLease
  <2>4. ASSUME NEW t \in Threads PROVE ~DropHandle(t)
    BY DEF HandlesGone, DropHandle
  <2> QED
    BY <2>1, <2>2, <2>3, <2>4, Zenon DEF Next
<1>2. thread' = thread
  BY <1>1 DEF DropGuard, ActorStep, TakeCommand, TakeCleanup, ExecuteCommand, CommandPanic, RunCleanup,
              CleanupPanic, LeaveLoop, StorePanicked, DropCommand, DrainEnds, ObsShutdown, ActorExits,
              threadVars, vars
<1>3. UNCHANGED captured \/ \E cs : captured' = [c \in Commands |-> IF c \in cs THEN {} ELSE captured[c]]
  BY <1>1 DEF DropGuard, ActorStep, TakeCommand, TakeCleanup, ExecuteCommand, CommandPanic, RunCleanup,
              CleanupPanic, LeaveLoop, StorePanicked, DropCommand, DrainEnds, ObsShutdown, ActorExits,
              DropOnActor, vars
<1> QED
  BY <1>1, <1>2, <1>3 DEF HandlesGone

(* In its loop the actor loses nothing without a panic,                    *)
LEMMA LoopLosesNothing ==
    ASSUME Inv, NothingLost, actor = "loop", [Next]_vars, panicSeen' = panicSeen, ~panicSeen
    PROVE  NothingLost' /\ (actor' = "loop" \/ LeaveLoop)
<1> USE DEF NothingLost
<1>1. ASSUME StartCall PROVE NothingLost' /\ actor' = "loop"
  BY <1>1 DEF StartCall, BeginCall, Inv, ObjectTypes
<1>2. ASSUME NEW t \in Threads, SubmitCommand(t) PROVE NothingLost' /\ actor' = "loop"
  <2>1. \/ \E why : Reject(t, why)
        \/ command' = [command EXCEPT ![call[t]] = "queued"] /\ UNCHANGED object
    BY <1>2 DEF SubmitCommand
  <2>2. actor' = "loop"
    BY <1>2 DEF SubmitCommand
  <2>3. ASSUME NEW why, Reject(t, why) PROVE NothingLost'
    BY <2>3 DEF Reject, Inv, ObjectTypes
  <2> QED
    BY <2>1, <2>2, <2>3 DEF Inv, ObjectTypes
<1>3. ASSUME NEW t \in Threads, ReceiveResult(t) \/ DeferCleanup(t) \/ DropHandle(t)
      PROVE  NothingLost' /\ actor' = "loop"
  BY <1>3 DEF ReceiveResult, DeferCleanup, DropHandle, Inv, ObjectTypes
<1>4. ASSUME NEW t \in Threads, NEW u \in Threads, NEW o \in Objects, ShareLease(t, u, o) \/ DropLease(t, o)
      PROVE  NothingLost' /\ actor' = "loop"
  BY <1>4 DEF ShareLease, DropLease, Inv, ObjectTypes
<1>5. CASE DropGuard \/ UNCHANGED vars \/ LeaveLoop
  BY <1>5 DEF DropGuard, vars, LeaveLoop
<1>6. CASE ExecuteCommand
  <2>1. /\ actor' = "loop" /\ command' = [command EXCEPT ![Head(commandQ)] = "executed"]
        /\ \A o \in Objects : object'[o] \in {"raw", "released", object[o]}
    BY <1>6 DEF ExecuteCommand, DropOnActor
  <2> QED
    BY <2>1 DEF Inv, ObjectTypes
<1>7. CASE RunCleanup
  BY <1>7 DEF RunCleanup, Inv, ObjectTypes
<1>8. ~CommandPanic /\ ~CleanupPanic
  BY DEF CommandPanic, CleanupPanic
<1>9. ~StorePanicked /\ ~DropCommand /\ ~DrainEnds /\ ~ObsShutdown /\ ~ActorExits
  BY DEF StorePanicked, DropCommand, DrainEnds, ObsShutdown, ActorExits
<1>10. \/ StartCall \/ DropGuard \/ UNCHANGED vars \/ LeaveLoop \/ ExecuteCommand \/ RunCleanup
       \/ \E t \in Threads : SubmitCommand(t) \/ ReceiveResult(t) \/ DeferCleanup(t) \/ DropHandle(t)
       \/ \E t, u \in Threads, o \in Objects : ShareLease(t, u, o)
       \/ \E t \in Threads, o \in Objects : DropLease(t, o)
  BY <1>8, <1>9, Zenon DEF Next, ActorStep, TakeCommand, TakeCleanup, FinishCall
<1> QED
  BY <1>1, <1>2, <1>3, <1>4, <1>5, <1>6, <1>7, <1>10

(* The shutdown message has one sender, and no step forgets a panic. *)
LEMMA OnlyGuardSendsShutdown ==
    ASSUME [Next]_vars, ~shutdown, shutdown'
    PROVE  DropGuard
<1>1. ASSUME StartCall PROVE shutdown' = shutdown
  BY <1>1 DEF StartCall, BeginCall
<1>2. ASSUME NEW t \in Threads, FinishCall(t) PROVE shutdown' = shutdown
  BY <1>2 DEF FinishCall, SubmitCommand, ReceiveResult, DeferCleanup
<1>3. ASSUME NEW t \in Threads, NEW u \in Threads, NEW o \in Objects, ShareLease(t, u, o)
      PROVE  shutdown' = shutdown
  BY <1>3 DEF ShareLease
<1>4. ASSUME NEW t \in Threads, NEW o \in Objects, DropLease(t, o) PROVE shutdown' = shutdown
  BY <1>4 DEF DropLease
<1>5. ASSUME NEW t \in Threads, DropHandle(t) PROVE shutdown' = shutdown
  BY <1>5 DEF DropHandle
<1>6. CASE ActorStep
  BY <1>6 DEF ActorStep, TakeCommand, TakeCleanup, ExecuteCommand, CommandPanic, RunCleanup,
              CleanupPanic, LeaveLoop, StorePanicked, DropCommand, DrainEnds, ObsShutdown, ActorExits
<1>7. CASE UNCHANGED vars
  BY <1>7 DEF vars
<1> QED
  BY <1>1, <1>2, <1>3, <1>4, <1>5, <1>6, <1>7, Zenon DEF Next

LEMMA PanicsStaySeen ==
    ASSUME FlagTypes, [Next]_vars, ~panicSeen'
    PROVE  ~panicSeen /\ panicSeen' = panicSeen
<1> USE DEF FlagTypes
<1>1. ASSUME StartCall PROVE panicSeen' = panicSeen
  BY <1>1 DEF StartCall, BeginCall
<1>2. ASSUME NEW t \in Threads, FinishCall(t) PROVE panicSeen' = panicSeen
  BY <1>2 DEF FinishCall, SubmitCommand, ReceiveResult, DeferCleanup
<1>3. ASSUME NEW t \in Threads, NEW u \in Threads, NEW o \in Objects, ShareLease(t, u, o)
      PROVE  panicSeen' = panicSeen
  BY <1>3 DEF ShareLease
<1>4. ASSUME NEW t \in Threads, NEW o \in Objects, DropLease(t, o) PROVE panicSeen' = panicSeen
  BY <1>4 DEF DropLease
<1>5. ASSUME NEW t \in Threads, DropHandle(t) PROVE panicSeen' = panicSeen
  BY <1>5 DEF DropHandle
<1>6. ASSUME ActorStep PROVE panicSeen' = panicSeen
  <2>1. ~CommandPanic /\ ~CleanupPanic
    BY DEF CommandPanic, CleanupPanic
  <2> QED
    BY <1>6, <2>1 DEF ActorStep, TakeCommand, TakeCleanup, ExecuteCommand, RunCleanup, LeaveLoop,
                      StorePanicked, DropCommand, DrainEnds, ObsShutdown, ActorExits
<1>7. ASSUME DropGuard \/ UNCHANGED vars PROVE panicSeen' = panicSeen
  BY <1>7 DEF DropGuard, vars
<1>8. panicSeen' = panicSeen
  BY <1>1, <1>2, <1>3, <1>4, <1>5, <1>6, <1>7, Zenon DEF Next
<1> QED
  BY <1>8

(* A queued command is executed by no other action. *)
LEMMA OnlyRunningExecutes ==
    ASSUME Inv, [Next]_vars, ~ExecuteCommand, NEW c \in Commands, command[c] = "queued"
    PROVE  command'[c] # "executed"
<1> USE DEF Inv, ObjectTypes
<1>1. ASSUME StartCall PROVE command'[c] # "executed"
  BY <1>1 DEF StartCall, BeginCall
<1>2. ASSUME NEW t \in Threads, FinishCall(t) PROVE command'[c] # "executed"
  BY <1>2 DEF FinishCall, SubmitCommand, Reject, ReceiveResult, DeferCleanup
<1>3. ASSUME NEW t \in Threads, NEW u \in Threads, NEW o \in Objects, ShareLease(t, u, o)
      PROVE  command'[c] # "executed"
  BY <1>3 DEF ShareLease
<1>4. ASSUME NEW t \in Threads, NEW o \in Objects, DropLease(t, o) PROVE command'[c] # "executed"
  BY <1>4 DEF DropLease
<1>5. ASSUME NEW t \in Threads, DropHandle(t) PROVE command'[c] # "executed"
  BY <1>5 DEF DropHandle
<1>6. ASSUME ActorStep PROVE command'[c] # "executed"
  BY <1>6 DEF ActorStep, TakeCommand, TakeCleanup, CommandPanic, RunCleanup, CleanupPanic, LeaveLoop,
              StorePanicked, DropCommand, DrainEnds, ObsShutdown, ActorExits
<1>7. ASSUME DropGuard \/ UNCHANGED vars PROVE command'[c] # "executed"
  BY <1>7 DEF DropGuard, vars
<1> QED
  BY <1>1, <1>2, <1>3, <1>4, <1>5, <1>6, <1>7, Zenon DEF Next

(* The phases of a shutdown nobody panicked before. *)
Drained ==
    /\ actor \in {"drainCommands", "drainCleanups", "shutdown", "obsDown", "exited"}
    /\ actor \in {"drainCleanups", "shutdown", "obsDown", "exited"} => commandQ = <<>>
    /\ actor \in {"shutdown", "obsDown", "exited"} => cleanupQ = <<>>

(* nor when it drains, with every handle gone.                             *)
LEMMA DrainLosesNothing ==
    ASSUME Inv, NothingLost, HandlesGone, Drained, [Next]_vars, panicSeen' = panicSeen, ~panicSeen
    PROVE  NothingLost' /\ Drained'
<1> USE DEF NothingLost, Drained
<1>1. CASE DropGuard \/ UNCHANGED vars \/ ObsShutdown \/ DrainEnds
  BY <1>1 DEF DropGuard, vars, ObsShutdown, DrainEnds
<1>2. CASE ExecuteCommand
  <2>1. /\ actor = "drainCommands" /\ actor' = actor
        /\ command' = [command EXCEPT ![Head(commandQ)] = "executed"]
        /\ \A o \in Objects : object'[o] \in {"raw", "released", object[o]}
    BY <1>2 DEF ExecuteCommand, DropOnActor
  <2> QED
    BY <2>1 DEF Inv, ObjectTypes
<1>3. CASE RunCleanup
  BY <1>3 DEF RunCleanup, Inv, ObjectTypes
<1>4. CASE ActorExits
  <2>1. {c \in Commands : command[c] = "queued"} = {} /\ {o \in Objects : object[o] = "queued"} = {}
    BY <1>4, NoElements DEF ActorExits, Inv, QueuesAgree
  <2>2. LastHandles({c \in Commands : command[c] = "queued"}) = {}
    BY <2>1 DEF LastHandles
  <2>3. /\ command' = command /\ object' = object
        /\ actor' = "exited" /\ commandQ' = <<>> /\ cleanupQ' = <<>>
    BY <1>4, <2>1, <2>2 DEF ActorExits, DropOnActor, Inv, ObjectTypes
  <2> QED
    BY <2>3
<1>5. ~CommandPanic /\ ~CleanupPanic
  BY DEF CommandPanic, CleanupPanic
<1>6. ~StorePanicked /\ ~DropCommand /\ ~LeaveLoop
  BY DEF StorePanicked, DropCommand, LeaveLoop
<1>7. \/ DropGuard \/ UNCHANGED vars \/ ObsShutdown \/ DrainEnds
      \/ ExecuteCommand \/ RunCleanup \/ ActorExits
  BY <1>5, <1>6, HandlesStayGone DEF ActorStep, TakeCommand, TakeCleanup
<1> QED
  BY <1>1, <1>2, <1>3, <1>4, <1>7

(* Without a panic obs_shutdown finds every accepted command executed and  *)
(* every native object released.                                           *)
THEOREM ShutdownAlwaysDrains == Spec => []CleanShutdownDrains
<1>1. Init => DrainAgrees
  BY DEF Init, DrainAgrees, NothingLost
<1>2. Inv /\ FlagTypes /\ DrainAgrees /\ [Next]_vars => DrainAgrees'
  <2> SUFFICES ASSUME Inv, FlagTypes, DrainAgrees, [Next]_vars PROVE DrainAgrees'
    OBVIOUS
  <2>1. ASSUME shutdown' PROVE HandlesGone'
    <3>1. CASE shutdown
      BY <3>1, HandlesStayGone DEF DrainAgrees
    <3>2. CASE ~shutdown
      <4>1. DropGuard
        BY <2>1, <3>2, OnlyGuardSendsShutdown
      <4> QED
        BY <4>1, HandlesStayGone DEF DropGuard
    <3> QED
      BY <3>1, <3>2
  <2>2. ASSUME ~panicSeen', actor = "loop"
        PROVE  /\ NothingLost' /\ actor' \in {"loop", "drainCommands"}
               /\ actor' # "loop" => HandlesGone'
    <3>1. ~panicSeen /\ panicSeen' = panicSeen /\ NothingLost
      BY <2>2, PanicsStaySeen DEF DrainAgrees
    <3>2. NothingLost' /\ (actor' = "loop" \/ LeaveLoop)
      BY <2>2, <3>1, LoopLosesNothing
    <3>3. LeaveLoop => HandlesGone /\ actor' = "drainCommands"
      BY DEF LeaveLoop, DrainAgrees
    <3> QED
      BY <3>2, <3>3, HandlesStayGone
  <2>3. ASSUME ~panicSeen', actor # "loop"
        PROVE  NothingLost' /\ Drained' /\ HandlesGone'
    <3>1. ~panicSeen /\ panicSeen' = panicSeen
      BY <2>3, PanicsStaySeen
    <3>2. NothingLost /\ HandlesGone /\ Drained
      BY <2>3, <3>1 DEF DrainAgrees, Drained, Inv, QueueTypes, ActorStates
    <3> QED
      BY <3>1, <3>2, DrainLosesNothing, HandlesStayGone
  <2> QED
    BY <2>1, <2>2, <2>3 DEF DrainAgrees, Drained
<1>3. Inv /\ DrainAgrees => CleanShutdownDrains
  <2> SUFFICES ASSUME Inv, DrainAgrees, ~panicSeen, actor \in {"obsDown", "exited"}
               PROVE  /\ \A c \in Commands : command[c] \in {"unused", "executed", "rejected"}
                      /\ \A o \in Objects : object[o] \in {"absent", "released"}
    BY DEF CleanShutdownDrains
  <2>1. HandlesGone /\ commandQ = <<>> /\ cleanupQ = <<>> /\ NothingLost
    BY DEF DrainAgrees
  <2>2. \A c \in Commands : command[c] # "queued"
    BY <2>1, NoElements DEF Inv, QueuesAgree
  <2>3. \A c \in Commands : command[c] # "building"
    BY <2>1 DEF HandlesGone, Inv, ThreadsAgree
  <2>4. \A o \in Objects : object[o] # "queued"
    BY <2>1, NoElements DEF Inv, QueuesAgree
  <2>5. \A o \in Objects : object[o] # "retired"
    BY <2>1 DEF HandlesGone, Inv, DropsAgree
  <2>6. \A o \in Objects : object[o] # "live"
    BY <2>1 DEF HandlesGone, Inv, LeaseProtects, Leased, LeasedBeyond, ClosuresAgree
  <2>7. \A o \in Objects : object[o] # "raw"
    <3>1. \A c \in Commands : creates[c] = NoObject
      BY <2>1 DEF HandlesGone, Inv, ThreadsAgree, InCall
    <3> QED
      BY <3>1, NoObjectAssumption DEF Inv, CreationsAgree
  <2> QED
    BY <2>1, <2>2, <2>3, <2>4, <2>5, <2>6, <2>7 DEF NothingLost, Inv, ObjectTypes, CommandStates, ObjectStates
<1> QED
  BY <1>1, <1>2, <1>3, OwnershipInvariant, FlagTypesHold, PTL DEF Spec

(* Once the health flag tells of a panic no pending command is executed:   *)
(* the flag is stored when the actor has left for good the phases in which *)
(* it executes.                                                            *)
THEOREM NothingAfterPanic == Spec => NoWorkAfterPanic
<1> DEFINE Over == health = "panicked" =>
        actor \in {"dropCommands", "recoverCleanups", "shutdown", "obsDown", "exited"}
<1>1. Init => Over
  BY DEF Init
<1>2. Over /\ [Next]_vars => Over'
  <2> SUFFICES ASSUME Over, [Next]_vars PROVE Over'
    OBVIOUS
  <2>1. CASE StartCall
    BY <2>1 DEF StartCall, BeginCall
  <2>2. ASSUME NEW t \in Threads, FinishCall(t) PROVE Over'
    BY <2>2 DEF FinishCall, SubmitCommand, ReceiveResult, DeferCleanup
  <2>3. ASSUME NEW t \in Threads, NEW u \in Threads, NEW o \in Objects, ShareLease(t, u, o) PROVE Over'
    BY <2>3 DEF ShareLease
  <2>4. ASSUME NEW t \in Threads, NEW o \in Objects, DropLease(t, o) PROVE Over'
    BY <2>4 DEF DropLease
  <2>5. ASSUME NEW t \in Threads, DropHandle(t) PROVE Over'
    BY <2>5 DEF DropHandle
  <2>6. CASE DropGuard \/ UNCHANGED vars
    BY <2>6 DEF DropGuard, vars
  <2>7. CASE ActorStep
    BY <2>7 DEF ActorStep, TakeCommand, TakeCleanup, ExecuteCommand, CommandPanic, RunCleanup,
                CleanupPanic, LeaveLoop, StorePanicked, DropCommand, DrainEnds, ObsShutdown, ActorExits
  <2> QED
    BY <2>1, <2>2, <2>3, <2>4, <2>5, <2>6, <2>7 DEF Next
<1>3. Inv /\ Over /\ [Next]_vars =>
          [health = "panicked" =>
              \A c \in Commands : command[c] = "queued" => command'[c] # "executed"]_vars
  <2> SUFFICES ASSUME Inv, health = "panicked", Over, [Next]_vars,
                      NEW c \in Commands, command[c] = "queued"
               PROVE  command'[c] # "executed"
    OBVIOUS
  <2>1. ~ExecuteCommand
    BY DEF ExecuteCommand
  <2> QED
    BY <2>1, OnlyRunningExecutes
<1> QED
  BY <1>1, <1>2, <1>3, OwnershipInvariant, PTL DEF Spec, NoWorkAfterPanic

-----------------------------------------------------------------------------
(* Beside the queues each actor lives as it does alone: what is proved of  *)
(* RuntimeLifecycle for any set of runtimes and of faults carries over.    *)
LEMMA LivesImplementLifecycle == ActorsSpec => Life!Spec
<1>1. ActorsInit => Life!Init
  BY DEF ActorsInit
<1>2. [ActorsNext]_<<component, vars, lifeVars>> => [Life!Next]_Life!vars
  BY DEF ActorsNext, lifeVars, Life!vars
<1> QED
  BY <1>1, <1>2, PTL DEF ActorsSpec, Life!Spec

(* The assumptions of the instance. *)
LEMMA LivesInstance ==
    Life!NoThreadAssumption /\ Life!FaultsAssumption /\ Life!SequentialAssumption
BY RuntimesAssumption, ActorFaultsAssumption
   DEF Life!NoThreadAssumption, Life!FaultsAssumption, Life!SequentialAssumption, Life!AllFaults

(* Only the actor that started libobs uses it and shuts it down, however   *)
(* many contexts are created at once and whatever fails (context.rs,       *)
(* runtime.rs).                                                            *)
THEOREM NativeLibraryStaysOwned == ActorsSpec => []NativeLibraryIsOwned
<1>1. Life!Spec => []Life!NativeLibraryIsOwned
  BY LivesInstance, Life!NativeLibraryOwnership
<1> QED
  BY <1>1, LivesImplementLifecycle, PTL DEF NativeLibraryIsOwned

(* No start or panic strands the slot: once no call, handle or actor is    *)
(* left it is Idle (context.rs).                                           *)
THEOREM SlotStaysFree == ActorsSpec => []NoStrandedSlot
<1>1. Life!Spec => []Life!NoStrandedSlot
  BY LivesInstance, Life!SlotNeverStranded
<1> QED
  BY <1>1, LivesImplementLifecycle, PTL DEF NoStrandedSlot

=============================================================================
