--------------------------- MODULE SimpleOutputs ----------------------------
(***************************************************************************)
(* ManagedSimpleOutput (libobs-simple/src/output/simple.rs): a recording   *)
(* whose video encoder is chosen among the discovered ones, hardware       *)
(* first, and which is built again with the next candidate when an encoder *)
(* cannot be created or started.  An encoder type is known by its place in *)
(* the order of identifiers, and the attempts are recorded in a report.    *)
(***************************************************************************)
EXTENDS Naturals, Sequences, FiniteSets

CONSTANTS
    Catalogue,     \* encoder types: [codec, hardware, hidden], by number
    OutputTypes,   \* what the output's type may be: [codecs, flags]
    Codec,         \* the codec the program asks for
    MaxStarts      \* bound: calls of start

VARIABLES
    policy,        \* "auto", "hardware" or "explicit", with its encoder
    discovered,    \* the encoder types this OBS has
    outputType,
    pc,            \* "build", "create", "graph", "ready", "start", "active", "refused"
    at,            \* the candidate being created, counted from zero
    created,       \* the replacement's encoder, or 0
    pending,       \* the attempts in the replacement's report
    encoder,       \* the encoder of the configured output, or 0
    next,          \* next_candidate
    report,        \* the attempts in the configured output's report
    tried,         \* history: the candidates whose creation this call has asked for
    failed,        \* history: the encoders that have failed
    lost,          \* history: a replacement has failed, and its report with it
    starts

vars == <<policy, discovered, outputType, pc, at, created, pending, encoder, next,
          report, tried, failed, lost, starts>>

Policies == [kind : {"auto", "hardware"}, encoder : {0}]
            \cup [kind : {"explicit"}, encoder : DOMAIN Catalogue]
Attempt == [encoder : DOMAIN Catalogue, stage : {"creation", "start"}, ok : BOOLEAN]

TypeOK ==
    /\ policy \in Policies
    /\ discovered \subseteq DOMAIN Catalogue
    /\ outputType \in OutputTypes
    /\ lost \in BOOLEAN
    /\ pc \in {"build", "create", "graph", "ready", "start", "active", "refused"}
    /\ at \in Nat /\ next \in Nat
    /\ {created, encoder} \subseteq DOMAIN Catalogue \cup {0}
    /\ {pending, report} \subseteq Seq(Attempt)
    /\ tried \in Seq(Nat)
    /\ failed \subseteq DOMAIN Catalogue
    /\ starts \in 0..MaxStarts

-----------------------------------------------------------------------------
(* The members of ids from the first to the last of an order. *)
Ordered(ids, Before(_, _)) ==
    [k \in 1..Cardinality(ids) |->
        CHOOSE e \in ids : Cardinality({f \in ids : ~Before(e, f)}) = k]

(* Mutant: the order of identifiers only. *)
RankById(ids) == Ordered(ids, LAMBDA e, f : e < f)

(* EncoderSelector::matches with prefer_hardware: hardware first, then the *)
(* order of identifiers.                                                   *)
Rank(ids) ==
    LET Hardware(e) == Catalogue[e].hardware
    IN  Ordered(ids, LAMBDA e, f : IF Hardware(e) = Hardware(f) THEN e < f ELSE Hardware(e))

(* video_encoder_candidates; an explicit encoder has no substitute. *)
Candidates ==
    LET usable == {e \in discovered : Catalogue[e].codec = Codec /\ ~Catalogue[e].hidden}
    IN  IF policy.kind = "explicit"
        THEN IF policy.encoder \in discovered THEN <<policy.encoder>> ELSE <<>>
        ELSE Rank({e \in usable : policy.kind = "hardware" => Catalogue[e].hardware})

(* capability_list_supports: a type that lists no codecs takes any. *)
Supports(e) == outputType.codecs = {} \/ Catalogue[e].codec \in outputType.codecs

(* There is a candidate, and best_output_plan has an output for its codec  *)
(* and an encoder that is not hidden, as an explicit one may be.           *)
Planned(start) ==
    /\ start < Len(Candidates)
    /\ \E e \in discovered : /\ Catalogue[e].codec = Catalogue[Candidates[start + 1]].codec
                             /\ ~Catalogue[e].hidden
    /\ {"encoded", "video", "audio"} \subseteq outputType.flags
    /\ Supports(Candidates[start + 1])

(* ObsOutputPipelineBuilder::validate for a graph with one video encoder,  *)
(* audio encoders and no service.                                          *)
Valid(e) ==
    /\ {"encoded", "video", "audio"} \subseteq outputType.flags
    /\ "service" \notin outputType.flags
    /\ Supports(e)

-----------------------------------------------------------------------------
(* A build has failed: the first leaves no output, a later one the old.    *)
BuildFails ==
    /\ pc' = IF encoder = 0 THEN "refused" ELSE "ready"
    /\ pending' = <<>> /\ created' = 0
    /\ lost' = (lost \/ pending # <<>>)
    /\ UNCHANGED <<policy, discovered, outputType, at, encoder, next, report, tried, failed,
                   starts>>

PlanFails ==
    /\ pc = "build"
    /\ ~Planned(next)
    /\ BuildFails

(* build_with_report_from_candidate. *)
Plan ==
    /\ pc = "build"
    /\ Planned(next)
    /\ pc' = "create" /\ at' = next
    /\ UNCHANGED <<policy, discovered, outputType, created, pending, encoder, next, report,
                   tried, failed, lost, starts>>

(* A generic setting is refused, or the settings cannot be made; some of   *)
(* that ends a permissive build too.                                       *)
ConfigureFails ==
    /\ pc = "create" /\ at < Len(Candidates)
    /\ BuildFails

CreateEncoder(ok) ==
    /\ pc = "create" /\ at < Len(Candidates)
    /\ LET e == Candidates[at + 1]
       IN  /\ pending' = Append(pending, [encoder |-> e, stage |-> "creation", ok |-> ok])
           /\ tried' = Append(tried, at)
           /\ created' = IF ok THEN e ELSE 0
           /\ failed' = IF ok THEN failed ELSE failed \cup {e}
    /\ pc' = IF ok THEN "graph" ELSE "create"
    /\ at' = IF ok THEN at ELSE at + 1
    /\ UNCHANGED <<policy, discovered, outputType, encoder, next, report, lost, starts>>

(* A creation failure that allows no fallback, or no candidate is left. *)
CreationStops ==
    /\ pc = "create"
    /\ at > next
    /\ BuildFails

(* Mutant: the output that is built keeps the encoder there was. *)
GraphKeepsEncoder ==
    /\ pc = "graph" /\ Valid(created)
    /\ pc' = IF encoder = 0 THEN "ready" ELSE "start"
    /\ created' = 0
    /\ next' = at + 1
    /\ report' = report \o pending /\ pending' = <<>>
    /\ UNCHANGED <<policy, discovered, outputType, at, encoder, tried, failed, lost, starts>>

(* The output with its encoders takes the place of the one that failed,    *)
(* and is started.                                                         *)
GraphBuilt ==
    /\ pc = "graph" /\ Valid(created)
    /\ pc' = IF encoder = 0 THEN "ready" ELSE "start"
    /\ encoder' = created /\ created' = 0
    /\ next' = at + 1
    /\ report' = report \o pending /\ pending' = <<>>
    /\ UNCHANGED <<policy, discovered, outputType, at, tried, failed, lost, starts>>

(* No audio track, an audio encoder or a pipeline that is refused. *)
GraphFails == pc = "graph" /\ BuildFails

-----------------------------------------------------------------------------
Start ==
    /\ pc = "ready"
    /\ starts < MaxStarts
    /\ starts' = starts + 1
    /\ pc' = "start"
    /\ tried' = <<>>
    /\ UNCHANGED <<policy, discovered, outputType, at, created, pending, encoder, next,
                   report, failed, lost>>

(* A failure of the encoder, and of nothing else, is followed by a build;  *)
(* so it is not when the output is active or reconnecting.                 *)
StartOutput(outcome) ==
    /\ pc = "start"
    /\ report' = Append(report, [encoder |-> encoder, stage |-> "start", ok |-> outcome = "started"])
    /\ failed' = IF outcome = "encoder" THEN failed \cup {encoder} ELSE failed
    /\ pc' = CASE outcome = "started" -> "active"
               [] outcome = "encoder" -> "build"
               [] outcome = "destination" -> "ready"
    /\ UNCHANGED <<policy, discovered, outputType, at, created, pending, encoder, next,
                   tried, lost, starts>>

Stop ==
    /\ pc = "active"
    /\ pc' = "ready"
    /\ UNCHANGED <<policy, discovered, outputType, at, created, pending, encoder, next,
                   report, tried, failed, lost, starts>>

-----------------------------------------------------------------------------
Init ==
    /\ policy \in Policies
    /\ discovered \in SUBSET DOMAIN Catalogue
    /\ outputType \in OutputTypes
    /\ pc = "build"
    /\ at = 0 /\ next = 0 /\ created = 0 /\ encoder = 0
    /\ pending = <<>> /\ report = <<>>
    /\ tried = <<>> /\ failed = {} /\ lost = FALSE
    /\ starts = 0

Next ==
    \/ PlanFails \/ Plan \/ ConfigureFails \/ CreationStops \/ GraphBuilt \/ GraphFails
    \/ \E ok \in BOOLEAN : CreateEncoder(ok)
    \/ Start \/ Stop
    \/ \E outcome \in {"started", "encoder", "destination"} : StartOutput(outcome)

Spec == Init /\ [][Next]_vars

-----------------------------------------------------------------------------
(* Properties *)

(* One call of start goes down the candidates and asks for each at most    *)
(* once, whether creations or starts fail, so that it ends ("the remaining *)
(* compatible candidates", simple.rs:419).                                 *)
FallbackAdvances ==
    \A i, j \in DOMAIN tried : i < j => tried[i] < tried[j]

(* "prefers an available hardware encoder, and transparently falls back to *)
(* software only for encoder/backend failures" (libobs-simple/README.md:49): *)
(* with a software encoder, every hardware one has failed.                 *)
HardwareFirst ==
    (policy.kind = "auto" /\ encoder # 0 /\ ~Catalogue[encoder].hardware) =>
        \A e \in discovered :
            Catalogue[e].codec = Codec /\ Catalogue[e].hardware /\ ~Catalogue[e].hidden
                => e \in failed

(* The encoder of an output is found in the order of the candidates,       *)
(* hardware first, and the search ends (simple.rs:419).                    *)
FallbackIsInOrder == HardwareFirst /\ FallbackAdvances

(* Reports "expose the concrete backend ... and fallback attempts"         *)
(* (libobs-simple/README.md:49): unless a replacement could not be built,  *)
(* every encoder that has failed is in the report, and the configured one  *)
(* is the last that was created.                                           *)
ReportTellsTheFallback ==
    (encoder # 0 /\ pc \in {"ready", "start", "active"}) =>
        /\ \E k \in DOMAIN report :
               /\ report[k].stage = "creation" /\ report[k].encoder = encoder
               /\ \A n \in DOMAIN report : n > k => report[n].stage # "creation"
        /\ lost \/ \A e \in failed : \E k \in DOMAIN report :
                        report[k].encoder = e /\ ~report[k].ok

(* The fallback chooses in order, and its report tells what it did. *)
FallbackIsSound == FallbackIsInOrder /\ ReportTellsTheFallback

=============================================================================
