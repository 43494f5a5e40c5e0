-------------------------- MODULE GenericSettings ---------------------------
(***************************************************************************)
(* Settings whose properties are discovered at run time: the schema        *)
(* decides which values a property takes (libobs-wrapper/src/settings.rs), *)
(* and a simple output sets its generic encoder settings one by one and    *)
(* reports what became of each (libobs-simple/src/output/configure.rs,     *)
(* simple.rs).  A text is a number, and a value is [type, is]: "is" is a   *)
(* sequence, empty for a float that is not finite.                         *)
(***************************************************************************)
EXTENDS Integers, FiniteSets, SequencesExt

CONSTANTS
    Schemas,        \* sequences of properties, groups with properties of their own
    Encoders,       \* [x264, crf, bitrate, preset, options]: what the program asks for
    Others          \* further sequences of settings that may be asked for

VARIABLES
    schema, strict,
    requests,       \* the settings to make, each [name, value]
    refuses,        \* a CRF was asked for that this encoder has not
    pc,             \* "configure", "done", "failed"
    k,              \* the request made next
    data,           \* the settings that were made, by name
    report          \* [name, value, as] with "applied", "unsupported" or "rejected"

vars == <<schema, strict, requests, refuses, pc, k, data, report>>

Default == [type |-> "default", is |-> <<>>]
Whole(n) == [type |-> "integer", is |-> <<n>>]
Text(s) == [type |-> "string", is |-> <<s>>]

-----------------------------------------------------------------------------
(* Places of properties are <<i, 0>> and of a group's <<i, n>>. *)
Places ==
    {<<i, 0>> : i \in DOMAIN schema} \cup
    UNION {{<<i, n>> : n \in DOMAIN schema[i].properties} :
               i \in {m \in DOMAIN schema : schema[m].kind = "group"}}

At(p) == IF p[2] = 0 THEN schema[p[1]] ELSE schema[p[1]].properties[p[2]]

Names == {At(p).name : p \in Places}

(* find_property: the first in the order of the tree. *)
Property(name) ==
    LET named == {p \in Places : At(p).name = name}
    IN  At(CHOOSE p \in named : \A q \in named : p[1] < q[1] \/ (p[1] = q[1] /\ p[2] <= q[2]))

(* What a property of a kind that has no limits takes. *)
Takes(p) ==
    CASE p.kind = "bool" \/ (p.kind = "group" /\ p.checkable) -> "boolean"
      [] p.kind \in {"integer", "color"} -> "integer"
      [] p.kind = "float" -> "float"
      [] p.kind = "text" -> "string"
      [] p.kind = "list" -> p.format
      [] p.kind = "frame rate" -> "frame rate"
      [] p.kind = "button" \/ (p.kind = "group" /\ ~p.checkable) -> "nothing"

(* Mutant: the steps are counted from zero. *)
IntegerFromZero(p, n) ==
    CASE n < p.min \/ n > p.max          -> "out of range"
      [] p.step > 0 /\ n % p.step # 0    -> "not allowed"
      [] OTHER                           -> "ok"

IntegerIs(p, n) ==
    CASE n < p.min \/ n > p.max                  -> "out of range"
      [] p.step > 0 /\ (n - p.min) % p.step # 0  -> "not allowed"
      [] OTHER                                   -> "ok"

FloatIs(p, v) ==
    IF v.is = <<>> \/ v.is[1] < p.min \/ v.is[1] > p.max THEN "out of range" ELSE "ok"

(* validate_list_value: an editable list takes any value of its format. *)
ListIs(p, v) ==
    IF p.editable \/ \E i \in DOMAIN p.items : ~p.items[i].disabled /\ p.items[i].is = v.is
    THEN "ok" ELSE "not allowed"

(* A rate is <<numerator, denominator, option>>, with 0 for no option. *)
FrameRateInRange(v, range) ==
    LET AtMost(a, b) == a[1] * (IF b[2] = 0 THEN 1 ELSE b[2]) <= b[1] * (IF a[2] = 0 THEN 1 ELSE a[2])
    IN  AtMost(range.min, v) /\ AtMost(v, range.max)

FrameRateIs(p, v) ==
    CASE v[3] # 0 -> IF v[3] \in p.options THEN "ok" ELSE "not allowed"
      [] v[3] = 0 -> IF v[2] # 0 /\ (p.ranges = {} \/ \E r \in p.ranges : FrameRateInRange(v, r))
                     THEN "ok" ELSE "not allowed"

(* validate_property_value. *)
ValidateValue(p, v) ==
    CASE Takes(p) = "nothing"                        -> "unsupported"
      [] Takes(p) # "nothing" /\ Takes(p) # v.type   -> "mismatch"
      [] Takes(p) = v.type /\ p.kind = "integer"     -> IntegerIs(p, v.is[1])
      [] Takes(p) = v.type /\ p.kind = "float"       -> FloatIs(p, v)
      [] Takes(p) = v.type /\ p.kind = "list"        -> ListIs(p, v)
      [] Takes(p) = v.type /\ p.kind = "frame rate"  -> FrameRateIs(p, v.is)
      [] OTHER                                       -> "ok"

(* SettingsSchema::validate. *)
Validate(name, v) ==
    IF name \notin Names THEN "not found" ELSE ValidateValue(Property(name), v)

-----------------------------------------------------------------------------
(* configure_video_encoder: CRF is for x264 and has its own scale. *)
Crf(quality) == ((100 - (IF quality < 100 THEN quality ELSE 100)) * 51) \div 100

VideoRequests(e) ==
    LET Set(name, v) == [name |-> name, value |-> v]
        Chosen(name, s) == IF s = 0 THEN <<>> ELSE <<Set(name, Text(s))>>
    IN  (IF e.crf # <<>> /\ e.x264
         THEN <<Set("rate_control", Text(1)), Set("crf", Whole(Crf(e.crf[1])))>>
         ELSE <<Set("rate_control", Text(2)), Set("bitrate", Whole(e.bitrate))>>)
        \o Chosen("preset", e.preset) \o Chosen("x264opts", e.options)

Ask(list, refused) ==
    /\ requests = list
    /\ refuses = refused

(* Mutant: a rejected setting counts as applied. *)
SetReportedAsApplied ==
    LET r == requests[k]
        result == Validate(r.name, r.value)
        as == IF result = "not found" THEN "unsupported" ELSE "applied"
    IN  /\ pc = "configure" /\ k <= Len(requests)
        /\ data' = IF result = "ok" THEN [data EXCEPT ![r.name] = r.value] ELSE data
        /\ report' = Append(report, [name |-> r.name, value |-> r.value, as |-> as])
        /\ k' = k + 1
        /\ UNCHANGED <<schema, strict, requests, refuses, pc>>

Refused == refuses /\ strict /\ k = 3

(* Two kinds of refusal are permitted, and errors of another kind are not  *)
(* in the report.                                                          *)
SetReported ==
    LET r == requests[k]
        result == Validate(r.name, r.value)
        Tell(as) == report' = Append(report, [name |-> r.name, value |-> r.value, as |-> as])
        permitted == result \in {"not found", "not allowed", "mismatch"}
    IN  /\ pc = "configure" /\ k <= Len(requests) /\ ~Refused
        /\ data' = IF result = "ok" THEN [data EXCEPT ![r.name] = r.value] ELSE data
        /\ CASE result = "ok"                         -> Tell("applied")
             [] result = "not found"                  -> Tell("unsupported")
             [] result \in {"not allowed", "mismatch"} -> Tell("rejected")
             [] OTHER                                 -> UNCHANGED report
        /\ IF result = "ok" \/ (permitted /\ ~strict)
           THEN k' = k + 1 /\ UNCHANGED pc
           ELSE pc' = "failed" /\ UNCHANGED k
        /\ UNCHANGED <<schema, strict, requests, refuses>>

(* "CRF is x264-specific". *)
Refuse ==
    /\ pc = "configure" /\ Refused
    /\ pc' = "failed"
    /\ UNCHANGED <<schema, strict, requests, refuses, k, data, report>>

Finish ==
    /\ pc = "configure" /\ k > Len(requests) /\ ~Refused
    /\ pc' = "done"
    /\ UNCHANGED <<schema, strict, requests, refuses, k, data, report>>

-----------------------------------------------------------------------------
Init ==
    /\ schema \in Schemas /\ strict \in BOOLEAN
    /\ \/ \E e \in Encoders : Ask(VideoRequests(e), e.crf # <<>> /\ ~e.x264)
       \/ \E list \in Others : Ask(list, FALSE)
    /\ pc = "configure" /\ k = 1
    /\ data = [name \in Names \cup {r.name : r \in Range(requests)} |-> Default]
    /\ report = <<>>

Next == SetReported \/ Refuse \/ Finish

Spec == Init /\ [][Next]_vars

-----------------------------------------------------------------------------
(* Properties *)

TypeOK ==
    /\ schema \in Schemas /\ strict \in BOOLEAN /\ refuses \in BOOLEAN
    /\ pc \in {"configure", "done", "failed"}
    /\ k \in 1..(Len(requests) + 1)
    /\ \A name \in DOMAIN data : data[name] = Default \/ data[name] \in {r.value : r \in Range(requests)}
    /\ Len(report) <= Len(requests)

(* What OBS says that a number or a rate may be. *)
Legal(p, v) ==
    CASE p.kind = "integer" -> \E n \in 0..(p.max - p.min) :
                                   v.is[1] = p.min + n * (IF p.step > 0 THEN p.step ELSE 1)
                                   /\ v.is[1] <= p.max
      [] p.kind = "list"    -> p.editable \/ v.is \in {i.is : i \in {j \in Range(p.items) : ~j.disabled}}
      [] OTHER              -> TRUE

(* A setting is made only with a value that OBS takes; the settings are    *)
(* those the report calls applied and the others keep the default; strict  *)
(* ends well only when every setting was "accepted exactly" (simple.rs:608), *)
(* and permissive fails on no value but one outside of a range or for a    *)
(* property that takes none.                                               *)
SettingsAreExact ==
    /\ \A name \in DOMAIN data : data[name] # Default =>
           name \in Names /\ Legal(Property(name), data[name])
    /\ \A name \in DOMAIN data :
           LET applied == {n \in DOMAIN report : report[n].name = name /\ report[n].as = "applied"}
           IN  IF applied = {}
               THEN data[name] = Default
               ELSE \E n \in applied : data[name] = report[n].value /\ \A m \in applied : m <= n
    /\ pc = "done" =>
           /\ strict => Len(report) = Len(requests) /\ \A s \in Range(report) : s.as = "applied"
           /\ ~strict => Len(report) = Len(requests)
    /\ pc = "failed" /\ ~strict =>
           Validate(requests[k].name, requests[k].value) \in {"out of range", "unsupported"}

=============================================================================
