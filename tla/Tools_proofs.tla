---------------------------- MODULE Tools_proofs ----------------------------
(***************************************************************************)
(* Proofs about the encoder of a simple output (SimpleOutputs), settings   *)
(* by name (GenericSettings), the cache of a build (BuildCache), the       *)
(* installation of OBS at run time (Bootstrap) and the editor of scene     *)
(* collections (SceneCollectionEditor), as the instances of Tools, for     *)
(* every value of the constants, and what follows for the tools side by    *)
(* side.                                                                   *)
(***************************************************************************)
EXTENDS SceneCollectionRestore_proofs, SceneCollectionSave_proofs, FiniteSetTheorems, SequenceTheorems, WellFoundedInduction, TLAPS

(* A set of numbers has a least one. *)
LEMMA Least ==
    ASSUME NEW S, S \subseteq Nat, S # {}
    PROVE  \E m \in S : \A x \in S : m <= x
<1> DEFINE below == {p \in Nat \X Nat : p[1] < p[2]}
<1>1. IsWellFoundedOn(below, Nat)
  BY NatLessThanWellFounded DEF OpToRel
<1>2. PICK m \in S : \A x \in S : <<x, m>> \notin below
  <2> HIDE DEF below
  <2> QED
    BY <1>1, WFMin, Zenon
<1>3. ASSUME NEW x \in S PROVE m <= x
  <2>1. x \in Nat /\ m \in Nat /\ <<x, m>> \in Nat \X Nat
    OBVIOUS
  <2>2. ~(x < m)
    BY <1>2, <2>1
  <2> QED
    BY <2>1, <2>2
<1> QED
  BY <1>3

(* The elements of a finite set are numbered by how many come up to each.  *)
LEMMA Ranked ==
    ASSUME NEW S, IsFiniteSet(S), NEW upTo, NEW rank \in [S -> Nat],
           \A x \in S : x \in upTo[x] /\ upTo[x] \subseteq S /\ rank[x] = Cardinality(upTo[x]),
           \A x, y \in S : \/ x = y
                           \/ upTo[x] \subseteq upTo[y] /\ y \notin upTo[x]
                           \/ upTo[y] \subseteq upTo[x] /\ x \notin upTo[y]
    PROVE  /\ Cardinality(S) \in Nat
           /\ rank \in Bijection(S, 1..Cardinality(S))
           /\ \A x, y \in S : y \notin upTo[x] => rank[x] < rank[y]
<1> DEFINE n == Cardinality(S)
<1>1. n \in Nat
  BY FS_CardinalityType
<1>2. ASSUME NEW x \in S
      PROVE  IsFiniteSet(upTo[x]) /\ rank[x] \in 1..n
  <2>1. upTo[x] \in SUBSET S /\ upTo[x] # {} /\ rank[x] = Cardinality(upTo[x])
    BY <1>2
  <2>2. IsFiniteSet(upTo[x]) /\ Cardinality(upTo[x]) <= n
    BY <2>1, FS_Subset
  <2>3. Cardinality(upTo[x]) \in Nat /\ Cardinality(upTo[x]) # 0
    BY <2>1, <2>2, FS_CardinalityType, FS_EmptySet
  <2> QED
    BY <1>1, <2>1, <2>2, <2>3
<1>3. ASSUME NEW x \in S, NEW y \in S, y \notin upTo[x]
      PROVE  rank[x] < rank[y]
  <2>1. y \in upTo[y] /\ y \notin upTo[x]
    BY <1>3
  <2>2. upTo[x] \in SUBSET upTo[y] /\ upTo[x] # upTo[y]
    BY <1>3, <2>1
  <2>3. IsFiniteSet(upTo[x]) /\ IsFiniteSet(upTo[y])
    BY <1>2
  <2>4. Cardinality(upTo[x]) <= Cardinality(upTo[y])
        /\ (Cardinality(upTo[x]) = Cardinality(upTo[y]) => upTo[x] = upTo[y])
    BY <2>2, <2>3, FS_Subset
  <2>5. /\ rank[x] = Cardinality(upTo[x]) /\ rank[y] = Cardinality(upTo[y])
        /\ rank[x] \in Nat /\ rank[y] \in Nat
    OBVIOUS
  <2> QED
    BY <2>2, <2>4, <2>5
<1>4. rank \in Injection(S, 1..n)
  <2>1. ASSUME NEW x \in S, NEW y \in S, rank[x] = rank[y] PROVE x = y
    <3>1. rank[x] \in Nat /\ rank[y] \in Nat
      OBVIOUS
    <3>2. y \in upTo[x] /\ x \in upTo[y]
      BY <1>3, <2>1, <3>1
    <3> QED
      BY <3>2
  <2>2. rank \in [S -> 1..n]
    BY <1>2
  <2> QED
    BY <2>1, <2>2 DEF Injection, IsInjective
<1>5. IsFiniteSet(1..n) /\ Cardinality(1..n) = n
  <2>1. IsFiniteSet(1..n) /\ Cardinality(1..n) = IF 1 > n THEN 0 ELSE n - 1 + 1
    BY <1>1, FS_Interval
  <2> HIDE DEF n
  <2> QED
    BY <1>1, <2>1
<1>6. rank \in Surjection(S, 1..n)
  BY <1>4, <1>5, FS_Injection
<1> QED
  BY <1>1, <1>3, <1>4, <1>6 DEF Bijection

-----------------------------------------------------------------------------
(* Simple outputs *)

(* The search goes down the candidates: every candidate before the one of  *)
(* the output has failed, and so has that one when another is looked for.  *)
SearchIsInOrder ==
    LET candidates == Output!Candidates
    IN  /\ next \in 0..Len(candidates)
        /\ next = 0 => encoder = 0
        /\ next # 0 => encoder = candidates[next]
        /\ \A i \in 1..(next - 1) : candidates[i] \in failed
        /\ outputPc \in {"build", "create", "graph"} =>
               \A i \in 1..next : candidates[i] \in failed
        /\ outputPc \in {"create", "graph"} =>
               at \in next..Len(candidates) /\ \A i \in 1..at : candidates[i] \in failed
        /\ outputPc = "graph" => at < Len(candidates) /\ created = candidates[at + 1]
        /\ outputPc \in {"ready", "start", "active"} => next # 0

(* A call has asked for candidates before the one it is at only.           *)
CallsAdvance ==
    /\ \A i, j \in DOMAIN tried : i < j => tried[i] < tried[j]
    /\ \A i \in DOMAIN tried :
          /\ outputPc \in {"build", "start"} => tried[i] < next
          /\ outputPc = "create" => tried[i] < at
          /\ outputPc = "graph" => tried[i] <= at

(* In a report an attempt for e failed. *)
Told(e, log) == \E k \in DOMAIN log : log[k].encoder = e /\ ~log[k].ok

(* The last creation of a report made e. *)
LastMade(e, log) ==
    \E k \in DOMAIN log :
        /\ log[k].stage = "creation" /\ log[k].encoder = e
        /\ \A n \in DOMAIN log : n > k => log[n].stage # "creation"

(* The report, with the one of a replacement, has every failure.           *)
ReportIsComplete ==
    /\ outputPc \notin {"create", "graph"} => pending = <<>>
    /\ encoder # 0 => LastMade(encoder, attempts)
    /\ outputPc = "graph" => LastMade(created, pending)
    /\ \A e \in failed : lost \/ Told(e, attempts) \/ Told(e, pending)

(* The inductive invariant. *)
FallbackInv == Output!TypeOK /\ SearchIsInOrder /\ CallsAdvance /\ ReportIsComplete

(* What the standard operator is inside the instance. *)
LEMMA OutputCardinality == ASSUME NEW S PROVE Output!Cardinality(S) = Cardinality(S)
BY DEF Output!Cardinality, Cardinality

(* The order of two encoder types. *)
Prefers(e, f) ==
    IF Catalogue[e].hardware = Catalogue[f].hardware THEN e < f ELSE Catalogue[e].hardware

(* A rank has every encoder of a set once, hardware first. *)
LEMMA RankIs ==
    ASSUME NEW ids \in SUBSET DOMAIN Catalogue
    PROVE  /\ Output!Rank(ids) \in Seq(ids)
           /\ \A e \in ids : \E i \in DOMAIN Output!Rank(ids) : Output!Rank(ids)[i] = e
           /\ \A i, k \in DOMAIN Output!Rank(ids) :
                  /\ Catalogue[Output!Rank(ids)[i]].hardware
                  /\ ~Catalogue[Output!Rank(ids)[k]].hardware
                  => i < k
<1> DEFINE n == Output!Cardinality(ids)
           upTo == [x \in ids |-> {y \in ids : ~Prefers(x, y)}]
           rank == [x \in ids |-> Cardinality(upTo[x])]
           spot(k) == CHOOSE e \in ids : Output!Cardinality({f \in ids : ~Prefers(e, f)}) = k
<1>1. /\ DOMAIN Catalogue = 1..Len(Catalogue) /\ Len(Catalogue) \in Nat
      /\ \A e \in DOMAIN Catalogue : Catalogue[e].hardware \in BOOLEAN
  <2> DEFINE Type == [codec : STRING, hardware : BOOLEAN, hidden : BOOLEAN]
  <2>1. Catalogue \in Seq(Type)
    BY CatalogueAssumption
  <2> HIDE DEF Type
  <2>2. /\ DOMAIN Catalogue = 1..Len(Catalogue) /\ Len(Catalogue) \in Nat
        /\ \A e \in DOMAIN Catalogue : Catalogue[e] \in Type
    BY <2>1
  <2> QED
    BY <2>2 DEF Type
<1>2. IsFiniteSet(ids)
  <2>1. IsFiniteSet(1..Len(Catalogue))
    BY <1>1, FS_Interval
  <2> QED
    BY <1>1, <2>1, FS_Subset
<1>3. /\ \A x \in ids : ~Prefers(x, x)
      /\ \A x, y, z \in ids : Prefers(x, y) /\ Prefers(y, z) => Prefers(x, z)
      /\ \A x, y \in ids : x = y \/ Prefers(x, y) \/ Prefers(y, x)
      /\ \A x, y \in ids : Catalogue[x].hardware /\ ~Catalogue[y].hardware => Prefers(x, y)
  BY <1>1 DEF Prefers
<1>4. /\ \A x \in ids : x \in upTo[x] /\ upTo[x] \subseteq ids
      /\ \A x, y \in ids : y \in upTo[x] <=> ~Prefers(x, y)
      /\ \A x, y \in ids : Prefers(x, y) => upTo[x] \subseteq upTo[y] /\ y \notin upTo[x]
  BY <1>3
<1>5. /\ Cardinality(ids) \in Nat
      /\ rank \in Bijection(ids, 1..Cardinality(ids))
      /\ \A x, y \in ids : y \notin upTo[x] => rank[x] < rank[y]
  <2> HIDE DEF upTo
  <2>1. \A x \in ids : Cardinality(upTo[x]) \in Nat
    BY <1>2, <1>4, FS_Subset, FS_CardinalityType
  <2>2. rank \in [ids -> Nat] /\ \A x \in ids : rank[x] = Cardinality(upTo[x])
    BY <2>1
  <2>3. \A x, y \in ids : \/ x = y
                          \/ upTo[x] \subseteq upTo[y] /\ y \notin upTo[x]
                          \/ upTo[y] \subseteq upTo[x] /\ x \notin upTo[y]
    BY <1>3, <1>4
  <2>4. \A x \in ids : x \in upTo[x] /\ upTo[x] \subseteq ids /\ rank[x] = Cardinality(upTo[x])
    BY <1>4, <2>2
  <2>5. rank \in [ids -> Nat]
    BY <2>2
  <2> HIDE DEF rank
  <2> QED
    BY <1>2, <2>3, <2>4, <2>5, Ranked, Zenon
<1>6. n = Cardinality(ids)
  BY OutputCardinality
<1>7. \A e \in ids : rank[e] = Output!Cardinality({f \in ids : ~Prefers(e, f)})
  BY OutputCardinality
<1>8. /\ rank \in [ids -> 1..n] /\ \A k \in 1..n : \E e \in ids : rank[e] = k
      /\ \A x, y \in ids : rank[x] = rank[y] => x = y
  <2> HIDE DEF rank
  <2> QED
    BY <1>5, <1>6 DEF Bijection, Injection, Surjection, IsInjective
<1>9. ASSUME NEW k \in 1..n PROVE spot(k) \in ids /\ rank[spot(k)] = k
  <2>1. \E e \in ids : Output!Cardinality({f \in ids : ~Prefers(e, f)}) = k
    BY <1>7, <1>8
  <2>2. spot(k) \in ids /\ Output!Cardinality({f \in ids : ~Prefers(spot(k), f)}) = k
    BY <2>1, Zenon
  <2> QED
    BY <2>2, <1>7
<1>10. Output!Rank(ids) = [k \in 1..n |-> spot(k)]
  BY DEF Output!Rank, Output!Ordered, Prefers
<1> HIDE DEF rank, spot, n, upTo
<1>11. /\ Output!Rank(ids) \in Seq(ids) /\ DOMAIN Output!Rank(ids) = 1..n
       /\ \A k \in 1..n : Output!Rank(ids)[k] = spot(k)
  BY <1>5, <1>6, <1>9, <1>10
<1>12. \A e \in ids : rank[e] \in 1..n /\ spot(rank[e]) = e
  BY <1>8, <1>9
<1>13. ASSUME NEW i \in 1..n, NEW k \in 1..n, Catalogue[spot(i)].hardware, ~Catalogue[spot(k)].hardware
       PROVE  i < k
  <2>1. spot(k) \notin upTo[spot(i)]
    BY <1>3, <1>4, <1>9, <1>13
  <2> QED
    BY <2>1, <1>5, <1>9
<1> QED
  BY <1>11, <1>12, <1>13

(* The candidates of a policy are encoder types OBS has, and those of      *)
(* "auto" have every hardware encoder before the others.                   *)
LEMMA CandidatesAre ==
    ASSUME policy \in Output!Policies, discovered \subseteq DOMAIN Catalogue
    PROVE  /\ Output!Candidates \in Seq(DOMAIN Catalogue)
           /\ policy.kind = "auto" =>
                  \A k \in DOMAIN Output!Candidates, e \in discovered :
                      /\ ~Catalogue[Output!Candidates[k]].hardware
                      /\ Catalogue[e].hardware
                      /\ Catalogue[e].codec = Codec /\ ~Catalogue[e].hidden
                      => \E i \in 1..(k - 1) : Output!Candidates[i] = e
<1> DEFINE usable == {e \in discovered : Catalogue[e].codec = Codec /\ ~Catalogue[e].hidden}
           ids == {e \in usable : policy.kind = "hardware" => Catalogue[e].hardware}
<1>1. policy.kind = "explicit" => policy.encoder \in DOMAIN Catalogue
  BY DEF Output!Policies
<1>2. CASE policy.kind = "explicit"
  <2>1. CASE policy.encoder \in discovered
    <3>1. Output!Candidates = <<policy.encoder>>
      BY <1>2, <2>1 DEF Output!Candidates
    <3> QED
      BY <1>1, <1>2, <3>1
  <2>2. CASE policy.encoder \notin discovered
    <3>1. Output!Candidates = <<>>
      BY <1>2, <2>2 DEF Output!Candidates
    <3> QED
      BY <1>2, <3>1
  <2> QED
    BY <2>1, <2>2
<1>3. CASE policy.kind # "explicit"
  <2>1. Output!Candidates = Output!Rank(ids)
    BY <1>3 DEF Output!Candidates
  <2>2. ids \in SUBSET DOMAIN Catalogue
    OBVIOUS
  <2>3. \A e \in discovered : policy.kind = "auto" /\ Catalogue[e].codec = Codec /\ ~Catalogue[e].hidden
            => e \in ids
    OBVIOUS
  <2> HIDE DEF ids
  <2>4. /\ Output!Candidates \in Seq(ids)
        /\ \A e \in ids : \E i \in DOMAIN Output!Candidates : Output!Candidates[i] = e
        /\ \A i, k \in DOMAIN Output!Candidates :
               /\ Catalogue[Output!Candidates[i]].hardware
               /\ ~Catalogue[Output!Candidates[k]].hardware
               => i < k
    BY <2>1, <2>2, RankIs
  <2>5. Output!Candidates \in Seq(DOMAIN Catalogue)
    BY <2>2, <2>4
  <2>6. ASSUME NEW k \in DOMAIN Output!Candidates, NEW e \in ids,
               ~Catalogue[Output!Candidates[k]].hardware, Catalogue[e].hardware
        PROVE  \E i \in 1..(k - 1) : Output!Candidates[i] = e
    <3>1. PICK i \in DOMAIN Output!Candidates : Output!Candidates[i] = e
      BY <2>4
    <3>2. i < k
      BY <2>4, <2>6, <3>1
    <3> QED
      BY <2>4, <3>1, <3>2
  <2> QED
    BY <2>3, <2>5, <2>6
<1> QED
  BY <1>2, <1>3

(* Nothing after the first build changes them. *)
LEMMA CandidatesStay ==
    ASSUME UNCHANGED <<policy, discovered>>
    PROVE  Output!Candidates' = Output!Candidates
BY DEF Output!Candidates, Output!Rank, Output!Ordered

-----------------------------------------------------------------------------
(* Reports *)

(* What a report has more with one attempt. *)
LEMMA AttemptAdded ==
    ASSUME NEW log \in Seq(Output!Attempt), NEW a \in Output!Attempt, NEW e
    PROVE  /\ Append(log, a) \in Seq(Output!Attempt)
           /\ Told(e, log) => Told(e, Append(log, a))
           /\ a.encoder = e /\ ~a.ok => Told(e, Append(log, a))
           /\ a.stage # "creation" /\ LastMade(e, log) => LastMade(e, Append(log, a))
           /\ a.stage = "creation" /\ a.encoder = e => LastMade(e, Append(log, a))
<1> DEFINE longer == Append(log, a)
           n == Len(log)
<1>1. /\ longer \in Seq(Output!Attempt) /\ n \in Nat
      /\ DOMAIN log = 1..n /\ DOMAIN longer = 1..(n + 1)
      /\ \A k \in 1..n : longer[k] = log[k]
      /\ longer[n + 1] = a
  OBVIOUS
<1> HIDE DEF longer, n
<1>2. Told(e, log) => Told(e, longer)
  BY <1>1 DEF Told
<1>3. a.encoder = e /\ ~a.ok => Told(e, longer)
  <2>1. n + 1 \in 1..(n + 1)
    BY <1>1
  <2> QED
    BY <1>1, <2>1 DEF Told
<1>4. a.stage # "creation" /\ LastMade(e, log) => LastMade(e, longer)
  BY <1>1 DEF LastMade
<1>5. a.stage = "creation" /\ a.encoder = e => LastMade(e, longer)
  <2>1. n + 1 \in 1..(n + 1) /\ \A k \in 1..(n + 1) : ~(k > n + 1)
    BY <1>1
  <2> QED
    BY <1>1, <2>1 DEF LastMade
<1> QED
  BY <1>1, <1>2, <1>3, <1>4, <1>5 DEF longer

(* The reports of two stages, one after the other. *)
LEMMA ReportsJoined ==
    ASSUME NEW log \in Seq(Output!Attempt), NEW end \in Seq(Output!Attempt), NEW e
    PROVE  /\ log \o end \in Seq(Output!Attempt)
           /\ Told(e, log) \/ Told(e, end) => Told(e, log \o end)
           /\ LastMade(e, end) => LastMade(e, log \o end)
<1> DEFINE joined == log \o end
           n == Len(log)
           m == Len(end)
<1>1. /\ joined \in Seq(Output!Attempt) /\ n \in Nat /\ m \in Nat
      /\ DOMAIN log = 1..n /\ DOMAIN end = 1..m /\ DOMAIN joined = 1..(n + m)
      /\ \A k \in 1..n : joined[k] = log[k]
      /\ \A k \in 1..(n + m) : k > n => joined[k] = end[k - n]
  OBVIOUS
<1> HIDE DEF joined, n, m
<1>2. \A k \in 1..m : n + k \in 1..(n + m) /\ joined[n + k] = end[k]
  BY <1>1
<1>3. ASSUME Told(e, log) PROVE Told(e, joined)
  <2>1. PICK k \in 1..n : log[k].encoder = e /\ ~log[k].ok
    BY <1>1, <1>3 DEF Told
  <2>2. k \in 1..(n + m) /\ joined[k] = log[k]
    BY <1>1
  <2> QED
    BY <1>1, <2>1, <2>2 DEF Told
<1>4. ASSUME Told(e, end) PROVE Told(e, joined)
  <2>1. PICK k \in 1..m : end[k].encoder = e /\ ~end[k].ok
    BY <1>1, <1>4 DEF Told
  <2>2. n + k \in 1..(n + m) /\ joined[n + k] = end[k]
    BY <1>2
  <2> QED
    BY <1>1, <2>1, <2>2 DEF Told
<1>5. ASSUME LastMade(e, end) PROVE LastMade(e, joined)
  <2>1. PICK k \in 1..m : /\ end[k].stage = "creation" /\ end[k].encoder = e
                          /\ \A i \in 1..m : i > k => end[i].stage # "creation"
    BY <1>1, <1>5 DEF LastMade
  <2>2. n + k \in 1..(n + m) /\ joined[n + k] = end[k]
    BY <1>2
  <2>3. ASSUME NEW i \in 1..(n + m), i > n + k PROVE joined[i].stage # "creation"
    <3>1. i - n \in 1..m /\ i - n > k /\ joined[i] = end[i - n]
      BY <1>1, <2>3
    <3> QED
      BY <2>1, <3>1
  <2> QED
    BY <1>1, <2>1, <2>2, <2>3 DEF LastMade
<1> QED
  BY <1>1, <1>3, <1>4, <1>5 DEF joined

-----------------------------------------------------------------------------
(* Steps *)

(* What every step rests on. *)
FallbackBase ==
    /\ FallbackInv
    /\ Output!Candidates \in Seq(DOMAIN Catalogue)
    /\ Output!Candidates' = Output!Candidates

(* Encoder types are numbers. *)
LEMMA CatalogueNumbers == DOMAIN Catalogue \subseteq Nat \ {0}
BY CatalogueAssumption

(* A build that fails leaves the output there was, and its report is lost. *)
LEMMA FailedBuild ==
    ASSUME FallbackBase, outputPc \in {"build", "create", "graph"}, Output!BuildFails
    PROVE  FallbackInv'
<1> USE DEF FallbackBase, FallbackInv
<1>1. outputPc' = IF encoder = 0 THEN "refused" ELSE "ready"
  BY DEF Output!BuildFails
<1>2. Output!TypeOK'
  BY <1>1 DEF Output!BuildFails, Output!TypeOK, Output!Policies
<1>3. SearchIsInOrder'
  BY <1>1 DEF Output!BuildFails, SearchIsInOrder
<1>4. CallsAdvance'
  BY <1>1 DEF Output!BuildFails, CallsAdvance
<1>5. ReportIsComplete'
  <2>1. \A e : Told(e, pending) => pending # <<>>
    BY DEF Told
  <2> QED
    BY <1>1, <2>1 DEF Output!BuildFails, ReportIsComplete, Told, LastMade
<1> QED
  BY <1>2, <1>3, <1>4, <1>5

(* A build starts at the candidate after the last one used. *)
LEMMA Planned ==
    ASSUME FallbackBase, Output!Plan
    PROVE  FallbackInv'
<1> USE DEF FallbackBase, FallbackInv
<1>1. /\ outputPc = "build" /\ outputPc' = "create" /\ at' = next
      /\ UNCHANGED <<policy, discovered, outputType, created, pending, encoder, next,
                     attempts, tried, failed, lost, starts>>
  BY DEF Output!Plan
<1>2. Output!TypeOK'
  BY <1>1 DEF Output!TypeOK, Output!Policies
<1>3. SearchIsInOrder'
  BY <1>1 DEF SearchIsInOrder
<1>4. CallsAdvance'
  BY <1>1 DEF CallsAdvance
<1>5. ReportIsComplete'
  BY <1>1 DEF ReportIsComplete, Told, LastMade
<1> QED
  BY <1>2, <1>3, <1>4, <1>5

(* The creation of a candidate adds itself to the pending report. *)
LEMMA EncoderCreated ==
    ASSUME FallbackBase, NEW ok \in BOOLEAN, Output!CreateEncoder(ok)
    PROVE  FallbackInv'
<1> USE DEF FallbackBase, FallbackInv
<1> DEFINE e == Output!Candidates[at + 1]
           a == [encoder |-> e, stage |-> "creation", ok |-> ok]
<1>1. /\ outputPc = "create" /\ at < Len(Output!Candidates)
      /\ pending' = Append(pending, a)
      /\ tried' = Append(tried, at)
      /\ created' = IF ok THEN e ELSE 0
      /\ failed' = IF ok THEN failed ELSE failed \cup {e}
      /\ outputPc' = IF ok THEN "graph" ELSE "create"
      /\ at' = IF ok THEN at ELSE at + 1
      /\ UNCHANGED <<policy, discovered, outputType, encoder, next, attempts, lost, starts>>
  BY DEF Output!CreateEncoder
<1>2. at \in Nat /\ at + 1 \in 1..Len(Output!Candidates) /\ e \in DOMAIN Catalogue
  <2>1. at \in Nat
    BY DEF Output!TypeOK
  <2> QED
    BY <1>1, <2>1
<1>3. a \in Output!Attempt /\ a.encoder = e /\ a.stage = "creation" /\ a.ok = ok
  BY <1>2 DEF Output!Attempt
<1>4. pending \in Seq(Output!Attempt) /\ attempts \in Seq(Output!Attempt) /\ tried \in Seq(Nat)
  BY DEF Output!TypeOK
<1> HIDE DEF a
<1>5. /\ pending' \in Seq(Output!Attempt)
      /\ \A f : Told(f, pending) => Told(f, pending')
      /\ ~ok => Told(e, pending')
      /\ LastMade(e, pending')
  BY <1>1, <1>3, <1>4, AttemptAdded
<1>6. tried' \in Seq(Nat) /\ DOMAIN tried' = 1..(Len(tried) + 1) /\ tried'[Len(tried) + 1] = at
      /\ DOMAIN tried = 1..Len(tried) /\ Len(tried) \in Nat
      /\ \A i \in 1..Len(tried) : tried'[i] = tried[i] /\ tried[i] \in Nat
  BY <1>1, <1>2, <1>4
<1>7. Output!TypeOK'
  BY <1>1, <1>2, <1>5, <1>6 DEF Output!TypeOK, Output!Policies
<1>8. SearchIsInOrder'
  BY <1>1, <1>2 DEF SearchIsInOrder
<1>9. CallsAdvance'
  <2>1. /\ \A i, j \in 1..Len(tried) : i < j => tried[i] < tried[j]
        /\ \A i \in 1..Len(tried) : tried[i] < at
    BY <1>1, <1>6 DEF CallsAdvance
  <2>2. ASSUME NEW i \in DOMAIN tried' PROVE tried'[i] \in Nat /\ (tried'[i] < at \/ tried'[i] = at)
    <3>1. i \in 1..Len(tried) \/ i = Len(tried) + 1
      BY <1>6
    <3>2. CASE i \in 1..Len(tried)
      BY <1>6, <2>1, <3>2
    <3>3. CASE i = Len(tried) + 1
      BY <1>2, <1>6, <3>3
    <3> QED
      BY <3>1, <3>2, <3>3
  <2>3. ASSUME NEW i \in DOMAIN tried', NEW j \in DOMAIN tried', i < j PROVE tried'[i] < tried'[j]
    <3>1. i \in 1..Len(tried) /\ (j \in 1..Len(tried) \/ j = Len(tried) + 1)
      BY <1>6, <2>3
    <3>2. CASE j \in 1..Len(tried)
      BY <1>6, <2>1, <2>3, <3>1, <3>2
    <3>3. CASE j = Len(tried) + 1
      BY <1>6, <2>1, <3>1, <3>3
    <3> QED
      BY <3>1, <3>2, <3>3
  <2>4. /\ outputPc' = "graph" => at' = at
        /\ outputPc' = "create" => at' = at + 1
        /\ outputPc' \notin {"build", "start"}
    BY <1>1
  <2> QED
    BY <1>2, <2>2, <2>3, <2>4 DEF CallsAdvance
<1>10. ReportIsComplete'
  <2>1. \A f : Told(f, attempts) => Told(f, attempts')
    BY <1>1
  <2>2. encoder' # 0 => LastMade(encoder', attempts')
    BY <1>1 DEF ReportIsComplete
  <2>3. \A f \in failed' : lost' \/ Told(f, attempts') \/ Told(f, pending')
    BY <1>1, <1>5, <2>1 DEF ReportIsComplete
  <2>4. outputPc' \in {"create", "graph"} /\ (outputPc' = "graph" => ok)
    BY <1>1
  <2> QED
    BY <1>1, <1>5, <2>2, <2>3, <2>4 DEF ReportIsComplete
<1> QED
  BY <1>7, <1>8, <1>9, <1>10

(* The graph of a candidate replaces the one before and its report is added. *)
LEMMA OutputReplaced ==
    ASSUME FallbackBase, Output!GraphBuilt
    PROVE  FallbackInv'
<1> USE DEF FallbackBase, FallbackInv
<1>1. /\ outputPc = "graph"
      /\ outputPc' = IF encoder = 0 THEN "ready" ELSE "start"
      /\ encoder' = created /\ created' = 0
      /\ next' = at + 1
      /\ attempts' = attempts \o pending /\ pending' = <<>>
      /\ UNCHANGED <<policy, discovered, outputType, at, tried, failed, lost, starts>>
  BY DEF Output!GraphBuilt
<1>2. at \in Nat /\ at + 1 \in 1..Len(Output!Candidates) /\ created = Output!Candidates[at + 1]
      /\ created \in DOMAIN Catalogue
  <2>1. at \in Nat
    BY DEF Output!TypeOK
  <2> QED
    BY <1>1, <2>1 DEF SearchIsInOrder
<1>3. pending \in Seq(Output!Attempt) /\ attempts \in Seq(Output!Attempt) /\ tried \in Seq(Nat)
  BY DEF Output!TypeOK
<1>4. /\ attempts' \in Seq(Output!Attempt)
      /\ \A e : Told(e, attempts) \/ Told(e, pending) => Told(e, attempts')
      /\ LastMade(created, attempts')
  BY <1>1, <1>3, ReportsJoined DEF ReportIsComplete
<1>5. Output!TypeOK'
  BY <1>1, <1>2, <1>4 DEF Output!TypeOK, Output!Policies
<1>6. SearchIsInOrder'
  BY <1>1, <1>2 DEF SearchIsInOrder
<1>7. CallsAdvance'
  <2>1. \A i \in DOMAIN tried : tried[i] \in Nat
    BY <1>3
  <2> QED
    BY <1>1, <1>2, <2>1 DEF CallsAdvance
<1>8. ReportIsComplete'
  BY <1>1, <1>4 DEF ReportIsComplete
<1> QED
  BY <1>5, <1>6, <1>7, <1>8

(* A start ends the call, or fails the encoder in use and the next is looked *)
(* for.                                                                    *)
LEMMA OutputStarted ==
    ASSUME FallbackBase, NEW outcome \in {"started", "encoder", "destination"},
           Output!StartOutput(outcome)
    PROVE  FallbackInv'
<1> USE DEF FallbackBase, FallbackInv
<1> DEFINE a == [encoder |-> encoder, stage |-> "start", ok |-> outcome = "started"]
<1>1. /\ outputPc = "start"
      /\ attempts' = Append(attempts, a)
      /\ failed' = IF outcome = "encoder" THEN failed \cup {encoder} ELSE failed
      /\ UNCHANGED <<policy, discovered, outputType, at, created, pending, encoder, next,
                     tried, lost, starts>>
  BY DEF Output!StartOutput
<1>2. /\ outcome = "started" => outputPc' = "active"
      /\ outcome = "encoder" => outputPc' = "build"
      /\ outcome = "destination" => outputPc' = "ready"
  BY Zenon DEF Output!StartOutput
<1>3. /\ next \in 1..Len(Output!Candidates) /\ encoder = Output!Candidates[next]
      /\ encoder \in DOMAIN Catalogue
  BY <1>1 DEF SearchIsInOrder
<1>4. /\ a \in Output!Attempt /\ a.encoder = encoder /\ a.stage # "creation"
      /\ a.ok = (outcome = "started")
  BY <1>3 DEF Output!Attempt
<1>5. attempts \in Seq(Output!Attempt)
  BY DEF Output!TypeOK
<1>6. encoder # 0
  BY <1>3, CatalogueNumbers
<1> HIDE DEF a
<1>7. /\ attempts' \in Seq(Output!Attempt)
      /\ \A f : Told(f, attempts) => Told(f, attempts')
      /\ outcome # "started" => Told(encoder, attempts')
      /\ LastMade(encoder, attempts')
  BY <1>1, <1>4, <1>5, <1>6, AttemptAdded DEF ReportIsComplete
<1>8. Output!TypeOK'
  BY <1>1, <1>2, <1>3, <1>7 DEF Output!TypeOK, Output!Policies
<1>9. SearchIsInOrder'
  BY <1>1, <1>2, <1>3 DEF SearchIsInOrder
<1>10. CallsAdvance'
  BY <1>1, <1>2 DEF CallsAdvance
<1>11. ReportIsComplete'
  BY <1>1, <1>2, <1>7 DEF ReportIsComplete
<1> QED
  BY <1>8, <1>9, <1>10, <1>11

(* A call of start begins with no candidate asked for, and a stop leaves   *)
(* the output as it is.                                                    *)
LEMMA CallMade ==
    ASSUME FallbackBase, Output!Start \/ Output!Stop
    PROVE  FallbackInv'
<1> USE DEF FallbackBase, FallbackInv
<1>1. /\ outputPc \in {"ready", "active"} /\ outputPc' \in {"start", "ready"}
      /\ starts' \in {starts, starts + 1} /\ (starts' # starts => starts < MaxStarts)
      /\ tried' \in {tried, <<>>} /\ (outputPc' = "start" => tried' = <<>>)
      /\ UNCHANGED <<policy, discovered, outputType, at, created, pending, encoder, next,
                     attempts, failed, lost>>
  BY DEF Output!Start, Output!Stop
<1>2. Output!TypeOK'
  <2>1. MaxStarts \in Nat
    BY CatalogueAssumption
  <2>2. starts' \in 0..MaxStarts
    BY <1>1, <2>1 DEF Output!TypeOK
  <2>3. tried' \in Seq(Nat)
    <3>1. tried \in Seq(Nat) /\ <<>> \in Seq(Nat)
      BY DEF Output!TypeOK
    <3> QED
      BY <1>1, <3>1
  <2>4. outputPc' \in {"build", "create", "graph", "ready", "start", "active", "refused"}
    BY <1>1
  <2> QED
    BY <1>1, <2>2, <2>3, <2>4 DEF Output!TypeOK, Output!Policies
<1>3. SearchIsInOrder'
  BY <1>1 DEF SearchIsInOrder
<1>4. CallsAdvance'
  BY <1>1 DEF CallsAdvance
<1>5. ReportIsComplete'
  BY <1>1 DEF ReportIsComplete, Told, LastMade
<1> QED
  BY <1>2, <1>3, <1>4, <1>5

(* Every step keeps the invariant. *)
LEMMA FallbackStep == FallbackInv /\ [Output!Next]_Output!vars => FallbackInv'
<1> SUFFICES ASSUME FallbackInv, [Output!Next]_Output!vars PROVE FallbackInv'
  OBVIOUS
<1>1. Output!Candidates \in Seq(DOMAIN Catalogue)
  BY CandidatesAre DEF FallbackInv, Output!TypeOK
<1>2. CASE UNCHANGED Output!vars
  <2>1. Output!Candidates' = Output!Candidates
    BY <1>2, CandidatesStay DEF Output!vars
  <2> QED
    BY <1>2, <2>1 DEF FallbackInv, Output!vars, Output!TypeOK, SearchIsInOrder, CallsAdvance,
                      ReportIsComplete, Told, LastMade
<1>3. CASE Output!Next
  <2> USE DEF Output!PlanFails, Output!ConfigureFails, Output!CreationStops, Output!GraphFails
  <2>1. UNCHANGED <<policy, discovered>>
    BY <1>3 DEF Output!Next, Output!BuildFails, Output!Plan, Output!CreateEncoder,
                Output!GraphBuilt, Output!Start, Output!Stop, Output!StartOutput
  <2>2. FallbackBase
    BY <1>1, <2>1, CandidatesStay DEF FallbackBase
  <2>3. CASE Output!PlanFails \/ Output!ConfigureFails \/ Output!CreationStops \/ Output!GraphFails
    BY <2>2, <2>3, FailedBuild
  <2>4. CASE Output!Plan
    BY <2>2, <2>4, Planned
  <2>5. ASSUME NEW ok \in BOOLEAN, Output!CreateEncoder(ok) PROVE FallbackInv'
    BY <2>2, <2>5, EncoderCreated
  <2>6. CASE Output!GraphBuilt
    BY <2>2, <2>6, OutputReplaced
  <2>7. ASSUME NEW outcome \in {"started", "encoder", "destination"}, Output!StartOutput(outcome)
        PROVE  FallbackInv'
    BY <2>2, <2>7, OutputStarted
  <2>8. CASE Output!Start \/ Output!Stop
    BY <2>2, <2>8, CallMade
  <2> QED
    BY <1>3, <2>3, <2>4, <2>5, <2>6, <2>7, <2>8, Zenon DEF Output!Next
<1> QED
  BY <1>2, <1>3

(* The initial states satisfy the invariant. *)
LEMMA FallbackFirst == Output!Init => FallbackInv
<1> SUFFICES ASSUME Output!Init PROVE FallbackInv
  OBVIOUS
<1>1. discovered \subseteq DOMAIN Catalogue /\ policy \in Output!Policies
  BY DEF Output!Init
<1>2. Output!Candidates \in Seq(DOMAIN Catalogue)
  BY <1>1, CandidatesAre
<1>3. Output!TypeOK
  <2>1. MaxStarts \in Nat
    BY CatalogueAssumption
  <2>2. 0 \in 0..MaxStarts
    BY <2>1
  <2>3. /\ pending = <<>> /\ attempts = <<>> /\ tried = <<>>
        /\ pending \in Seq(Output!Attempt) /\ attempts \in Seq(Output!Attempt)
        /\ tried \in Seq(Nat)
    BY DEF Output!Init
  <2> QED
    BY <1>1, <2>2, <2>3 DEF Output!Init, Output!TypeOK
<1>4. SearchIsInOrder
  BY <1>2 DEF Output!Init, SearchIsInOrder
<1> QED
  BY <1>3, <1>4 DEF Output!Init, FallbackInv, CallsAdvance, ReportIsComplete

(* Whatever encoders there are and in whichever order creations and starts *)
(* fail: the candidates are tried in their order and at most once in a     *)
(* call, a software encoder is taken when every hardware encoder failed,   *)
(* and the report has every failure and ends with the encoder in use       *)
(* (ManagedSimpleOutput::start, build_with_report_from_candidate).         *)
THEOREM FallbackAlwaysSound == Output!Spec => [](Output!TypeOK /\ Output!FallbackIsSound)
<1>1. FallbackInv => Output!TypeOK /\ Output!FallbackIsSound
  <2> SUFFICES ASSUME FallbackInv PROVE Output!FallbackIsSound
    BY DEF FallbackInv
  <2>1. Output!Candidates \in Seq(DOMAIN Catalogue)
    BY CandidatesAre DEF FallbackInv, Output!TypeOK
  <2>2. Output!HardwareFirst
    <3> SUFFICES ASSUME policy.kind = "auto", encoder # 0, ~Catalogue[encoder].hardware,
                        NEW e \in discovered,
                        Catalogue[e].codec = Codec, Catalogue[e].hardware, ~Catalogue[e].hidden
                 PROVE  e \in failed
      BY DEF Output!HardwareFirst
    <3>1. next \in DOMAIN Output!Candidates /\ encoder = Output!Candidates[next]
      BY <2>1 DEF FallbackInv, SearchIsInOrder
    <3>2. PICK i \in 1..(next - 1) : Output!Candidates[i] = e
      BY <3>1, CandidatesAre DEF FallbackInv, Output!TypeOK
    <3> QED
      BY <3>2 DEF FallbackInv, SearchIsInOrder
  <2>3. Output!FallbackAdvances
    BY DEF FallbackInv, CallsAdvance, Output!FallbackAdvances
  <2>4. Output!ReportTellsTheFallback
    <3> SUFFICES ASSUME encoder # 0, outputPc \in {"ready", "start", "active"}
                 PROVE  /\ LastMade(encoder, attempts)
                        /\ lost \/ \A e \in failed : Told(e, attempts)
      BY DEF Output!ReportTellsTheFallback, LastMade, Told
    <3>1. \A e : ~Told(e, pending)
      BY DEF FallbackInv, ReportIsComplete, Told
    <3> QED
      BY <3>1 DEF FallbackInv, ReportIsComplete
  <2> QED
    BY <2>2, <2>3, <2>4 DEF Output!FallbackIsSound, Output!FallbackIsInOrder
<1> QED
  BY <1>1, FallbackFirst, FallbackStep, PTL DEF Output!Spec

-----------------------------------------------------------------------------
(* Generic settings *)

(* What is asked for does not change; whole numbers are numbers. *)
RequestsAreTyped ==
    /\ Len(requests) \in Nat /\ DOMAIN requests = 1..Len(requests)
    /\ \A n \in DOMAIN requests :
          /\ requests[n].value.type \in ValueTypes
          /\ requests[n].value.type = "integer" => requests[n].value.is[1] \in Int

(* Entries of a report on these requests. *)
Entries == {[name |-> requests[n].name, value |-> requests[n].value, as |-> as] :
               n \in DOMAIN requests, as \in {"applied", "unsupported", "rejected"}}

(* The types, with what a setting can be. *)
SettingsTypes ==
    /\ schema \in Schemas /\ strict \in BOOLEAN /\ refuses \in BOOLEAN
    /\ settingsPc \in {"configure", "done", "failed"}
    /\ request \in 1..(Len(requests) + 1)
    /\ report \in Seq(Entries)
    /\ data = [name \in DOMAIN data |-> data[name]]
    /\ \A n \in DOMAIN requests : requests[n].name \in DOMAIN data
    /\ \A name \in DOMAIN data :
          data[name] = Generic!Default \/ \E n \in DOMAIN requests : data[name] = requests[n].value

(* A setting differs from the default when OBS takes it. *)
SettingsAreLegal ==
    \A name \in DOMAIN data : data[name] # Generic!Default =>
        name \in Generic!Names /\ Generic!Legal(Generic!Property(name), data[name])

(* The value is the one that the report calls applied last. *)
LastApplied(name, value, log) ==
    LET applied == {n \in DOMAIN log : log[n].name = name /\ log[n].as = "applied"}
    IN  IF applied = {}
        THEN value = Generic!Default
        ELSE \E n \in applied : value = log[n].value /\ \A m \in applied : m <= n

(* Every setting is what the report says of it. *)
ReportIsTrue == \A name \in DOMAIN data : LastApplied(name, data[name], report)

(* Every request that was passed is in the report. *)
ReportIsWhole ==
    /\ settingsPc # "failed" => Len(report) = request - 1
    /\ settingsPc = "done" => request = Len(requests) + 1
    /\ Len(report) <= Len(requests)
    /\ strict /\ settingsPc # "failed" => \A n \in DOMAIN report : report[n].as = "applied"

(* What permissive does not forgive. *)
FailureIsKnown ==
    settingsPc = "failed" /\ ~strict =>
        Generic!Validate(requests[request].name, requests[request].value)
            \in {"out of range", "unsupported"}

(* The inductive invariant. *)
SettingsInv ==
    /\ RequestsAreTyped /\ SettingsTypes /\ SettingsAreLegal /\ ReportIsTrue /\ ReportIsWhole
    /\ FailureIsKnown

(* A property of a name that the schema has is of the schema. *)
LEMMA PropertyIs ==
    ASSUME schema \in Schemas, NEW name \in Generic!Names
    PROVE  /\ Generic!Property(name) \in Properties(schema)
           /\ Generic!Property(name).name = name
<1> DEFINE named == {p \in Generic!Places : Generic!At(p).name = name}
           rows == {p[1] : p \in named}
           Comes(p, q) == p[1] < q[1] \/ (p[1] = q[1] /\ p[2] <= q[2])
<1>1. /\ schema \in Seq(Elements(schema))
      /\ \A p \in Elements(schema) : p.kind = "group" => p.properties \in Seq(Elements(p.properties))
  BY SettingsAssumption DEF Properties
<1>2. \A i \in DOMAIN schema : i \in Nat /\ schema[i] \in Elements(schema)
  BY <1>1
<1>3. ASSUME NEW p \in Generic!Places
      PROVE  /\ p \in Nat \X Nat /\ p = <<p[1], p[2]>>
             /\ Generic!At(p) \in Properties(schema)
  <2>1. CASE \E i \in DOMAIN schema : p = <<i, 0>>
    BY <1>2, <2>1 DEF Generic!At, Properties
  <2>2. CASE \E i \in DOMAIN schema : schema[i].kind = "group"
                                      /\ \E n \in DOMAIN schema[i].properties : p = <<i, n>>
    <3>a. PICK i \in DOMAIN schema :
              schema[i].kind = "group" /\ \E n \in DOMAIN schema[i].properties : p = <<i, n>>
      BY <2>2
    <3>1. PICK n \in DOMAIN schema[i].properties : schema[i].kind = "group" /\ p = <<i, n>>
      BY <3>a
    <3>2. schema[i] \in Elements(schema) /\ schema[i].properties \in Seq(Elements(schema[i].properties))
      BY <1>1, <1>2, <3>1
    <3>3. n \in Nat \ {0} /\ schema[i].properties[n] \in Elements(schema[i].properties)
      BY <3>2 DEF Elements
    <3>4. Generic!At(p) = schema[i].properties[n]
      BY <3>1, <3>3 DEF Generic!At
    <3> QED
      BY <1>2, <3>1, <3>2, <3>3, <3>4 DEF Properties
  <2> QED
    BY <2>1, <2>2 DEF Generic!Places
<1>4. named # {}
  BY DEF Generic!Names
<1>5. PICK i \in rows : \A x \in rows : i <= x
  <2>1. rows \subseteq Nat /\ rows # {}
    BY <1>3, <1>4
  <2> HIDE DEF rows
  <2> QED
    BY <2>1, Least
<1> DEFINE columns == {p[2] : p \in {q \in named : q[1] = i}}
<1>6. PICK n \in columns : \A x \in columns : n <= x
  <2>1. columns \subseteq Nat /\ columns # {}
    BY <1>3, <1>5
  <2> HIDE DEF columns
  <2> QED
    BY <2>1, Least
<1>7. PICK first \in named : first[1] = i /\ first[2] = n
  BY <1>6
<1>8. \A q \in named : Comes(first, q)
  <2> SUFFICES ASSUME NEW q \in named PROVE Comes(first, q)
    OBVIOUS
  <2>1. q[1] \in rows /\ (q[1] = i => q[2] \in columns)
    OBVIOUS
  <2>2. i <= q[1] /\ (q[1] = i => n <= q[2])
    BY <1>5, <1>6, <2>1
  <2>3. q[1] \in Nat /\ q[2] \in Nat /\ i \in Nat
    BY <1>3, <1>7
  <2> QED
    BY <1>7, <2>2, <2>3
<1> DEFINE chosen == CHOOSE p \in named : \A q \in named : Comes(p, q)
<1>9. chosen \in named
  BY <1>8, Zenon
<1>10. Generic!Property(name) = Generic!At(chosen)
  BY DEF Generic!Property
<1> HIDE DEF chosen
<1> QED
  BY <1>3, <1>9, <1>10

-----------------------------------------------------------------------------
(* Values *)

(* A whole number is right between the limits, on a step from the least. *)
LEMMA IntegerResult ==
    ASSUME NEW p, NEW n
    PROVE  /\ Generic!IntegerIs(p, n) \in {"out of range", "not allowed", "ok"}
           /\ Generic!IntegerIs(p, n) = "ok" =>
                  /\ ~(n < p.min) /\ ~(n > p.max)
                  /\ ~(p.step > 0) \/ (n - p.min) % p.step = 0
<1> DEFINE outside == n < p.min \/ n > p.max
           between == p.step > 0 /\ (n - p.min) % p.step # 0
<1>1. Generic!IntegerIs(p, n) = CASE outside -> "out of range" [] between -> "not allowed" [] OTHER -> "ok"
  BY DEF Generic!IntegerIs
<1> HIDE DEF outside, between
<1>2. CASE outside /\ between
  <2>1. Generic!IntegerIs(p, n) \in {"out of range", "not allowed"}
    BY <1>1, <1>2, Zenon
  <2> QED
    BY <2>1
<1>3. CASE outside /\ ~between
  <2>1. Generic!IntegerIs(p, n) = "out of range"
    BY <1>1, <1>3, Zenon
  <2> QED
    BY <2>1
<1>4. CASE ~outside /\ between
  <2>1. Generic!IntegerIs(p, n) = "not allowed"
    BY <1>1, <1>4, Zenon
  <2> QED
    BY <2>1
<1>5. CASE ~outside /\ ~between
  <2>1. Generic!IntegerIs(p, n) = "ok"
    BY <1>1, <1>5, Zenon
  <2> QED
    BY <1>5, <2>1 DEF outside, between
<1> QED
  BY <1>2, <1>3, <1>4, <1>5

(* A number on a step between the limits is some steps from the first.     *)
LEMMA StepsFrom ==
    ASSUME NEW min \in Int, NEW max \in Int, NEW step \in Int, NEW n \in Int,
           ~(n < min), ~(n > max), ~(step > 0) \/ (n - min) % step = 0
    PROVE  /\ \E m \in 0..(max - min) : n = min + m * (IF step > 0 THEN step ELSE 1)
           /\ n <= max
<1> DEFINE d == n - min
<1>1. d \in 0..(max - min) /\ n <= max /\ n = min + d
  OBVIOUS
<1>2. CASE ~(step > 0)
  BY <1>1, <1>2
<1>3. CASE step > 0
  <2> DEFINE m == d \div step
  <2>1. d % step = 0 /\ step \in Nat /\ step > 0 /\ d \in Int
    BY <1>3
  <2> HIDE DEF d
  <2>2. m \in Int /\ d = (step * m) + (d % step)
    BY <2>1
  <2> HIDE DEF m
  <2>3. d = m * step
    BY <2>1, <2>2
  <2>4. m \in 0..d
    <3>1. ~(m < 0)
      <4> SUFFICES ASSUME m < 0 PROVE FALSE
        OBVIOUS
      <4>1. m * step < 0
        BY <2>1, <2>2
      <4> QED
        BY <4>1, <2>3, <1>1
    <3>2. m <= m * step
      BY <2>1, <2>2, <3>1
    <3> QED
      BY <2>2, <2>3, <3>1, <3>2
  <2>5. m \in 0..(max - min) /\ n = min + m * step
    BY <1>1, <2>2, <2>3, <2>4
  <2> QED
    BY <1>1, <1>3, <2>5
<1> QED
  BY <1>2, <1>3

(* The results of a validation. *)
Results == {"not found", "unsupported", "mismatch", "out of range", "not allowed", "ok"}

(* A value that is right is of the kind the property takes. *)
LEMMA ValidateIs ==
    ASSUME NEW name, NEW v, v.type \in ValueTypes
    PROVE  LET p == Generic!Property(name)
           IN  /\ Generic!Validate(name, v) \in Results
               /\ Generic!Validate(name, v) = "ok" =>
                      /\ name \in Generic!Names
                      /\ Generic!Takes(p) = v.type
                      /\ p.kind = "integer" => Generic!IntegerIs(p, v.is[1]) = "ok"
                      /\ p.kind = "list" => Generic!ListIs(p, v) = "ok"
<1> DEFINE p == Generic!Property(name)
           takes == Generic!Takes(p)
<1>1. CASE name \notin Generic!Names
  <2>1. Generic!Validate(name, v) = "not found"
    BY <1>1 DEF Generic!Validate
  <2> QED
    BY <2>1 DEF Results
<1>2. CASE name \in Generic!Names
  <2>1. Generic!Validate(name, v) =
          CASE takes = "nothing"                        -> "unsupported"
            [] takes # "nothing" /\ takes # v.type      -> "mismatch"
            [] takes = v.type /\ p.kind = "integer"     -> Generic!IntegerIs(p, v.is[1])
            [] takes = v.type /\ p.kind = "float"       -> Generic!FloatIs(p, v)
            [] takes = v.type /\ p.kind = "list"        -> Generic!ListIs(p, v)
            [] takes = v.type /\ p.kind = "frame rate"  -> Generic!FrameRateIs(p, v.is)
            [] OTHER                                    -> "ok"
    BY <1>2 DEF Generic!Validate, Generic!ValidateValue
  <2>2. Generic!IntegerIs(p, v.is[1]) \in {"out of range", "not allowed", "ok"}
    BY IntegerResult, Zenon
  <2>3. Generic!FloatIs(p, v) \in {"out of range", "ok"}
    BY DEF Generic!FloatIs
  <2>4. Generic!ListIs(p, v) \in {"not allowed", "ok"}
    BY DEF Generic!ListIs
  <2>5. Generic!FrameRateIs(p, v.is) \in {"not allowed", "ok"}
    <3> DEFINE rate == v.is
    <3>1. CASE rate[3] # 0
      <4>1. Generic!FrameRateIs(p, rate) = IF rate[3] \in p.options THEN "ok" ELSE "not allowed"
        BY <3>1, Zenon DEF Generic!FrameRateIs
      <4> QED
        BY <4>1
    <3>2. CASE rate[3] = 0
      <4>1. Generic!FrameRateIs(p, rate) =
              IF rate[2] # 0 /\ (p.ranges = {} \/ \E r \in p.ranges : Generic!FrameRateInRange(rate, r))
              THEN "ok" ELSE "not allowed"
        BY <3>2, Zenon DEF Generic!FrameRateIs
      <4> QED
        BY <4>1
    <3> QED
      BY <3>1, <3>2
  <2> HIDE DEF p, takes
  <2>6. CASE takes = "nothing" \/ takes # v.type
    <3>1. Generic!Validate(name, v) \in {"unsupported", "mismatch"}
      <4>a. CASE takes = "nothing" /\ takes # v.type
        BY <2>1, <4>a, Zenon
      <4>b. CASE takes # "nothing" /\ takes # v.type
        BY <2>1, <4>b, Zenon
      <4>c. v.type # "nothing"
        BY DEF ValueTypes
      <4> QED
        BY <2>6, <4>a, <4>b, <4>c
    <3> QED
      BY <3>1 DEF Results
  <2>7. CASE takes # "nothing" /\ takes = v.type
    <3>1. CASE p.kind = "integer"
      <4>1. p.kind # "float" /\ p.kind # "list" /\ p.kind # "frame rate"
        BY <3>1
      <4>2. Generic!Validate(name, v) = Generic!IntegerIs(p, v.is[1])
        BY <2>1, <2>7, <3>1, <4>1, Zenon
      <4> QED
        BY <1>2, <2>2, <2>7, <3>1, <4>2 DEF Results, p, takes
    <3>2. CASE p.kind = "float"
      <4>1. p.kind # "integer" /\ p.kind # "list" /\ p.kind # "frame rate"
        BY <3>2
      <4>2. Generic!Validate(name, v) = Generic!FloatIs(p, v)
        BY <2>1, <2>7, <3>2, <4>1, Zenon
      <4> QED
        BY <1>2, <2>3, <2>7, <3>2, <4>2 DEF Results, p, takes
    <3>3. CASE p.kind = "list"
      <4>1. p.kind # "integer" /\ p.kind # "float" /\ p.kind # "frame rate"
        BY <3>3
      <4>2. Generic!Validate(name, v) = Generic!ListIs(p, v)
        BY <2>1, <2>7, <3>3, <4>1, Zenon
      <4> QED
        BY <1>2, <2>4, <2>7, <3>3, <4>2 DEF Results, p, takes
    <3>4. CASE p.kind = "frame rate"
      <4>1. p.kind # "integer" /\ p.kind # "float" /\ p.kind # "list"
        BY <3>4
      <4>2. Generic!Validate(name, v) = Generic!FrameRateIs(p, v.is)
        BY <2>1, <2>7, <3>4, <4>1, Zenon
      <4> QED
        BY <1>2, <2>5, <2>7, <3>4, <4>2 DEF Results, p, takes
    <3>5. CASE p.kind \notin {"integer", "float", "list", "frame rate"}
      <4>1. p.kind # "integer" /\ p.kind # "float" /\ p.kind # "list" /\ p.kind # "frame rate"
        BY <3>5
      <4>2. Generic!Validate(name, v) = "ok"
        BY <2>1, <2>7, <4>1, Zenon
      <4> QED
        BY <1>2, <2>7, <4>1, <4>2 DEF Results, p, takes
    <3> QED
      BY <3>1, <3>2, <3>3, <3>4, <3>5
  <2> QED
    BY <2>6, <2>7
<1> QED
  BY <1>1, <1>2

(* A value that the schema takes is one that OBS takes. *)
LEMMA RightIsLegal ==
    ASSUME schema \in Schemas, NEW name, NEW v,
           v.type \in ValueTypes, v.type = "integer" => v.is[1] \in Int,
           Generic!Validate(name, v) = "ok"
    PROVE  name \in Generic!Names /\ Generic!Legal(Generic!Property(name), v)
<1> DEFINE p == Generic!Property(name)
<1>1. /\ name \in Generic!Names /\ Generic!Takes(p) = v.type
      /\ p.kind = "integer" => Generic!IntegerIs(p, v.is[1]) = "ok"
      /\ p.kind = "list" => Generic!ListIs(p, v) = "ok"
  BY ValidateIs
<1>2. p \in Properties(schema)
  BY <1>1, PropertyIs
<1> HIDE DEF p
<1>3. CASE p.kind = "integer"
  <2>1. ~(p.kind = "bool" \/ (p.kind = "group" /\ p.checkable)) /\ p.kind \in {"integer", "color"}
        /\ p.kind # "float" /\ p.kind # "text" /\ p.kind # "list" /\ p.kind # "frame rate"
        /\ ~(p.kind = "button" \/ (p.kind = "group" /\ ~p.checkable))
    BY <1>3
  <2>2. Generic!Takes(p) = "integer"
    BY <2>1, Zenon DEF Generic!Takes
  <2>3. /\ v.is[1] \in Int /\ p.min \in Int /\ p.max \in Int /\ p.step \in Int
        /\ ~(v.is[1] < p.min) /\ ~(v.is[1] > p.max)
        /\ ~(p.step > 0) \/ (v.is[1] - p.min) % p.step = 0
    BY <1>1, <1>2, <1>3, <2>2, IntegerResult, SettingsAssumption
  <2>4. /\ \E m \in 0..(p.max - p.min) : v.is[1] = p.min + m * (IF p.step > 0 THEN p.step ELSE 1)
        /\ v.is[1] <= p.max
    BY <2>3, StepsFrom
  <2>5. \E m \in 0..(p.max - p.min) : v.is[1] = p.min + m * (IF p.step > 0 THEN p.step ELSE 1)
                                      /\ v.is[1] <= p.max
    BY <2>4
  <2>6. Generic!Legal(p, v)
    BY <1>3, <2>1, <2>5, Zenon DEF Generic!Legal
  <2> QED
    BY <1>1, <2>6 DEF p
<1>4. CASE p.kind = "list"
  <2>1. p.editable \/ \E i \in DOMAIN p.items : ~p.items[i].disabled /\ p.items[i].is = v.is
    BY <1>1, <1>4 DEF Generic!ListIs
  <2>2. p.editable \/ v.is \in {i.is : i \in {j \in Generic!Range(p.items) : ~j.disabled}}
    BY <2>1 DEF Generic!Range
  <2>3. p.kind # "integer"
    BY <1>4
  <2>4. Generic!Legal(p, v)
    BY <1>4, <2>2, <2>3, Zenon DEF Generic!Legal
  <2> QED
    BY <1>1, <2>4 DEF p
<1>5. CASE p.kind # "integer" /\ p.kind # "list"
  <2>1. Generic!Legal(p, v)
    BY <1>5, Zenon DEF Generic!Legal
  <2> QED
    BY <1>1, <2>1 DEF p
<1> QED
  BY <1>3, <1>4, <1>5

-----------------------------------------------------------------------------
(* Reports *)

(* What a report calls applied last, with one entry more. *)
LEMMA ReportAdded ==
    ASSUME NEW S, NEW log \in Seq(S), NEW x \in S, NEW name, NEW value
    PROVE  /\ LastApplied(name, value, log) /\ ~(x.name = name /\ x.as = "applied")
                  => LastApplied(name, value, Append(log, x))
           /\ x.name = name /\ x.as = "applied" => LastApplied(name, x.value, Append(log, x))
<1> DEFINE longer == Append(log, x)
           m == Len(log)
           old == {n \in 1..m : log[n].name = name /\ log[n].as = "applied"}
           new == {n \in 1..(m + 1) : longer[n].name = name /\ longer[n].as = "applied"}
<1>1. /\ m \in Nat /\ DOMAIN log = 1..m /\ DOMAIN longer = 1..(m + 1)
      /\ \A n \in 1..m : longer[n] = log[n]
      /\ longer[m + 1] = x
  OBVIOUS
<1>2. /\ \A v : LastApplied(name, v, log) <=>
                IF old = {} THEN v = Generic!Default
                ELSE \E n \in old : v = log[n].value /\ \A k \in old : k <= n
      /\ \A v : LastApplied(name, v, longer) <=>
                IF new = {} THEN v = Generic!Default
                ELSE \E n \in new : v = longer[n].value /\ \A k \in new : k <= n
  <2> HIDE DEF m, longer
  <2> QED
    BY <1>1 DEF LastApplied
<1> HIDE DEF longer, m
<1>3. ASSUME ~(x.name = name /\ x.as = "applied") PROVE new = old
  <2>1. \A n : n \in new <=> n \in old
    BY <1>1, <1>3
  <2> HIDE DEF new, old
  <2> QED
    BY <2>1
<1>4. \A n \in old : n \in 1..m /\ longer[n] = log[n]
  BY <1>1
<1>5. ASSUME LastApplied(name, value, log), ~(x.name = name /\ x.as = "applied")
      PROVE  LastApplied(name, value, longer)
  <2>1. new = old
    BY <1>3, <1>5
  <2> HIDE DEF new, old
  <2>2. CASE old = {}
    BY <1>2, <1>5, <2>1, <2>2
  <2>3. CASE old # {}
    <3>1. PICK n \in old : value = log[n].value /\ \A k \in old : k <= n
      BY <1>2, <1>5, <2>3
    <3>2. value = longer[n].value
      BY <1>4, <3>1
    <3> QED
      BY <1>2, <2>1, <2>3, <3>1, <3>2
  <2> QED
    BY <2>2, <2>3
<1>6. ASSUME x.name = name, x.as = "applied" PROVE LastApplied(name, x.value, longer)
  <2>1. m + 1 \in new /\ \A k \in new : k <= m + 1
    BY <1>1, <1>6
  <2> HIDE DEF new, old
  <2> QED
    BY <1>1, <1>2, <2>1
<1> QED
  BY <1>5, <1>6 DEF longer

-----------------------------------------------------------------------------
(* Steps *)

(* The schema does not change, nor what it says. *)
LEMMA SchemaStays ==
    ASSUME UNCHANGED schema
    PROVE  /\ Generic!Names' = Generic!Names
           /\ \A name : Generic!Property(name)' = Generic!Property(name)
BY DEF Generic!Names, Generic!Property, Generic!Places, Generic!At

(* A setting is asked for: it is made, reported as what it is, or refused. *)
LEMMA SettingAsked ==
    ASSUME SettingsInv, Generic!SetReported
    PROVE  SettingsInv'
<1> USE DEF SettingsInv
<1> DEFINE r == requests[request]
           result == Generic!Validate(r.name, r.value)
           Entry(as) == [name |-> r.name, value |-> r.value, as |-> as]
           Said(as) == report' = Append(report, Entry(as))
           ok == result = "ok"
           passed == ok \/ (result \in {"not found", "not allowed", "mismatch"} /\ ~strict)
<1>1. /\ settingsPc = "configure" /\ request <= Len(requests)
      /\ data' = IF ok THEN [data EXCEPT ![r.name] = r.value] ELSE data
      /\ passed => request' = request + 1 /\ settingsPc' = settingsPc
      /\ ~passed => settingsPc' = "failed" /\ request' = request
      /\ UNCHANGED <<schema, strict, requests, refuses>>
  BY DEF Generic!SetReported
<1>2. request \in DOMAIN requests /\ request \in 1..Len(requests) /\ Len(requests) \in Nat
  <2>1. /\ request \in 1..(Len(requests) + 1)
        /\ Len(requests) \in Nat /\ DOMAIN requests = 1..Len(requests)
    BY Zenon DEF RequestsAreTyped, SettingsTypes
  <2>2. request <= Len(requests)
    BY <1>1
  <2> QED
    BY <2>1, <2>2
<1>3. /\ r.value.type \in ValueTypes
      /\ r.value.type = "integer" => r.value.is[1] \in Int
      /\ r.name \in DOMAIN data
  BY <1>2 DEF RequestsAreTyped, SettingsTypes
<1>4. result \in Results
  BY <1>3, ValidateIs
<1>5. /\ ok => Said("applied")
      /\ result = "not found" => Said("unsupported")
      /\ result \in {"not allowed", "mismatch"} => Said("rejected")
      /\ result \in {"out of range", "unsupported"} => report' = report
  <2> DEFINE rejected == result \in {"not allowed", "mismatch"}
  <2>1. (CASE ok                   -> Said("applied")
           [] result = "not found" -> Said("unsupported")
           [] rejected             -> Said("rejected")
           [] OTHER                -> UNCHANGED report)
    BY DEF Generic!SetReported
  <2>2. CASE ok
    <3>1. result # "not found" /\ ~rejected /\ result \notin {"out of range", "unsupported"}
      BY <2>2
    <3>2. Said("applied")
      BY <2>1, <2>2, <3>1, Zenon
    <3> QED
      BY <3>1, <3>2
  <2>3. CASE result = "not found"
    <3>1. ~ok /\ ~rejected /\ result \notin {"out of range", "unsupported"}
      BY <2>3
    <3>2. Said("unsupported")
      BY <2>1, <2>3, <3>1, Zenon
    <3> QED
      BY <3>1, <3>2
  <2>4. CASE rejected
    <3>1. ~ok /\ result # "not found" /\ result \notin {"out of range", "unsupported"}
      BY <2>4
    <3>2. Said("rejected")
      BY <2>1, <2>4, <3>1, Zenon
    <3> QED
      BY <3>1, <3>2
  <2>5. CASE result \in {"out of range", "unsupported"}
    <3>1. ~ok /\ result # "not found" /\ ~rejected
      BY <2>5
    <3>2. UNCHANGED report
      BY <2>1, <3>1, Zenon
    <3> QED
      BY <3>1, <3>2
  <2> QED
    BY <1>4, <2>2, <2>3, <2>4, <2>5 DEF Results
<1>6. passed => \E as \in {"applied", "unsupported", "rejected"} : Said(as)
  BY <1>5
<1>7. \/ report' = report
      \/ \E as \in {"applied", "unsupported", "rejected"} : Said(as)
  BY <1>4, <1>5 DEF Results
<1>8. \A as \in {"applied", "unsupported", "rejected"} :
          /\ Entry(as) \in Entries
          /\ Entry(as).name = r.name /\ Entry(as).value = r.value /\ Entry(as).as = as
  <2> SUFFICES ASSUME NEW as \in {"applied", "unsupported", "rejected"}
               PROVE  Entry(as) \in Entries
    OBVIOUS
  <2>1. \E n \in DOMAIN requests, a \in {"applied", "unsupported", "rejected"} :
            Entry(as) = [name |-> requests[n].name, value |-> requests[n].value, as |-> a]
    BY <1>2, Zenon
  <2> QED
    BY <2>1 DEF Entries
<1>9. report \in Seq(Entries) /\ Entries' = Entries
  <2>1. requests' = requests
    BY <1>1
  <2>2. Entries' = Entries
    BY <2>1 DEF Entries
  <2> QED
    BY <2>2 DEF SettingsTypes
<1> HIDE DEF Entry
<1>10. /\ DOMAIN data' = DOMAIN data
       /\ data' = [name \in DOMAIN data |-> IF ok /\ name = r.name THEN r.value ELSE data[name]]
  BY <1>1, <1>3 DEF SettingsTypes
<1> HIDE DEF result
<1>11. \A name \in DOMAIN data : data'[name] = IF ok /\ name = r.name THEN r.value ELSE data[name]
  BY <1>10
<1>12. RequestsAreTyped'
  BY <1>1 DEF RequestsAreTyped
<1>13. SettingsTypes'
  <2>1. report' \in Seq(Entries)
    BY <1>7, <1>8, <1>9
  <2>2. settingsPc' \in {"configure", "done", "failed"} /\ request' \in 1..(Len(requests) + 1)
    <3>1. \/ settingsPc' = settingsPc /\ request' = request + 1
          \/ settingsPc' = "failed" /\ request' = request
      <4>1. /\ passed => request' = request + 1 /\ settingsPc' = settingsPc
            /\ ~passed => settingsPc' = "failed" /\ request' = request
        BY <1>1
      <4> HIDE DEF passed
      <4> QED
        BY <4>1, Zenon
    <3>2. settingsPc = "configure"
      BY <1>1
    <3> QED
      BY <1>2, <3>1, <3>2
  <2>3. data' = [name \in DOMAIN data' |-> data'[name]]
    BY <1>10
  <2>4. \A name \in DOMAIN data :
           data'[name] = Generic!Default \/ \E n \in DOMAIN requests : data'[name] = requests[n].value
    BY <1>2, <1>11 DEF SettingsTypes
  <2> QED
    BY <1>1, <1>9, <1>10, <2>1, <2>2, <2>3, <2>4 DEF SettingsTypes, Generic!Default
<1>14. SettingsAreLegal'
  <2>1. ok => r.name \in Generic!Names /\ Generic!Legal(Generic!Property(r.name), r.value)
    <3>1. schema \in Schemas
      BY DEF SettingsTypes
    <3> QED
      BY <1>3, <3>1, RightIsLegal DEF result
  <2>2. ASSUME NEW name \in DOMAIN data, data'[name] # Generic!Default
        PROVE  name \in Generic!Names /\ Generic!Legal(Generic!Property(name), data'[name])
    BY <1>11, <2>1, <2>2 DEF SettingsAreLegal
  <2>3. Generic!Names' = Generic!Names /\ \A name : Generic!Property(name)' = Generic!Property(name)
    BY <1>1, SchemaStays
  <2> QED
    BY <1>10, <2>2, <2>3 DEF SettingsAreLegal, Generic!Default
<1>15. ReportIsTrue'
  <2>1. ASSUME NEW name \in DOMAIN data PROVE LastApplied(name, data'[name], report')
    <3>1. LastApplied(name, data[name], report)
      BY DEF ReportIsTrue
    <3>2. CASE ok
      <4>1. report' = Append(report, Entry("applied"))
        BY <1>5, <3>2
      <4>2. CASE name = r.name
        BY <1>8, <1>9, <1>11, <3>2, <4>1, <4>2, ReportAdded
      <4>3. CASE name # r.name
        <5>1. LastApplied(name, data[name], Append(report, Entry("applied")))
          BY <1>8, <1>9, <3>1, <4>3, ReportAdded
        <5> QED
          BY <1>11, <4>1, <4>3, <5>1
      <4> QED
        BY <4>2, <4>3
    <3>3. CASE ~ok
      <4>1. data'[name] = data[name]
        BY <1>11, <3>3
      <4>2. CASE report' = report
        BY <3>1, <4>1, <4>2
      <4>3. ASSUME NEW as \in {"unsupported", "rejected"}, Said(as)
            PROVE  LastApplied(name, data'[name], report')
        <5>1. LastApplied(name, data[name], Append(report, Entry(as)))
          BY <1>8, <1>9, <3>1, ReportAdded
        <5> QED
          BY <4>1, <4>3, <5>1
      <4> QED
        BY <1>4, <1>5, <3>3, <4>2, <4>3 DEF Results
    <3> QED
      BY <3>2, <3>3
  <2> QED
    BY <1>10, <2>1 DEF ReportIsTrue
<1>16. ReportIsWhole'
  <2>1. Len(report) = request - 1 /\ (strict => \A n \in DOMAIN report : report[n].as = "applied")
    BY <1>1 DEF ReportIsWhole
  <2>2. ASSUME NEW as \in {"applied", "unsupported", "rejected"}, Said(as)
        PROVE  /\ Len(report') = Len(report) + 1 /\ DOMAIN report' = 1..(Len(report) + 1)
               /\ \A n \in 1..Len(report) : report'[n] = report[n]
               /\ report'[Len(report) + 1].as = as
    <3>1. Entry(as) \in Entries /\ Entry(as).as = as
      BY <1>8
    <3>2. /\ Len(Append(report, Entry(as))) = Len(report) + 1
          /\ DOMAIN Append(report, Entry(as)) = 1..(Len(report) + 1)
          /\ \A n \in 1..Len(report) : Append(report, Entry(as))[n] = report[n]
          /\ Append(report, Entry(as))[Len(report) + 1] = Entry(as)
      <4> DEFINE x == Entry(as)
      <4>1. report \in Seq(Entries) /\ x \in Entries
        BY <1>9, <3>1
      <4> HIDE DEF x
      <4>2. /\ Len(Append(report, x)) = Len(report) + 1
            /\ DOMAIN Append(report, x) = 1..(Len(report) + 1)
            /\ \A n \in 1..Len(report) : Append(report, x)[n] = report[n]
            /\ Append(report, x)[Len(report) + 1] = x
        BY <4>1
      <4> QED
        BY <4>2 DEF x
    <3> QED
      BY <2>2, <3>1, <3>2
  <2>3. Len(report) \in Nat /\ DOMAIN report = 1..Len(report)
    BY <1>9
  <2>4. Len(report') <= Len(requests)
    BY <1>2, <1>7, <2>1, <2>2, <2>3
  <2>5. settingsPc' # "failed" => passed
    BY <1>1
  <2>6. passed => Len(report') = request' - 1
    <3> SUFFICES ASSUME passed PROVE Len(report') = request' - 1
      OBVIOUS
    <3>1. Len(report') = Len(report) + 1
      BY <1>6, <2>2
    <3>2. request' = request + 1
      BY <1>1
    <3> HIDE DEF passed
    <3> QED
      BY <1>2, <2>1, <2>3, <3>1, <3>2
  <2>7. strict /\ passed => \A n \in DOMAIN report' : report'[n].as = "applied"
    <3> SUFFICES ASSUME strict, passed PROVE \A n \in DOMAIN report' : report'[n].as = "applied"
      OBVIOUS
    <3>1. Said("applied")
      BY <1>5
    <3> QED
      BY <2>1, <2>2, <2>3, <3>1
  <2>8. settingsPc' # "done"
    BY <1>1
  <2> QED
    BY <1>1, <2>4, <2>5, <2>6, <2>7, <2>8 DEF ReportIsWhole
<1>17. FailureIsKnown'
  <2>1. settingsPc' = "failed" /\ ~strict => result \in {"out of range", "unsupported"} /\ request' = request
    BY <1>1, <1>4 DEF Results
  <2>2. schema' = schema /\ requests' = requests /\ strict' = strict
    BY <1>1
  <2>3. ASSUME settingsPc' = "failed", ~strict
        PROVE  Generic!Validate(requests[request].name, requests[request].value)' = result
    <3>1. request' = request
      BY <2>1, <2>3
    <3>2. Generic!Names' = Generic!Names /\ \A name : Generic!Property(name)' = Generic!Property(name)
      BY <2>2, SchemaStays
    <3> QED
      BY <2>2, <3>1, <3>2 DEF result, Generic!Validate
  <2> QED
    BY <2>1, <2>2, <2>3 DEF FailureIsKnown
<1> QED
  BY <1>12, <1>13, <1>14, <1>15, <1>16, <1>17

(* The end of the configuration, or its refusal. *)
LEMMA SettingsEnded ==
    ASSUME SettingsInv, Generic!Refuse \/ Generic!Finish \/ UNCHANGED Generic!vars
    PROVE  SettingsInv'
<1> USE DEF SettingsInv
<1>1. /\ settingsPc' \in {settingsPc, "done", "failed"}
      /\ settingsPc' # settingsPc => settingsPc = "configure"
      /\ settingsPc' = "failed" /\ settingsPc # "failed" => strict
      /\ settingsPc' = "done" /\ settingsPc # "done" => request > Len(requests)
      /\ UNCHANGED <<schema, strict, requests, refuses, request, data, report>>
  BY DEF Generic!Refuse, Generic!Finish, Generic!Refused, Generic!vars
<1>2. RequestsAreTyped'
  BY <1>1 DEF RequestsAreTyped
<1>3. SettingsTypes'
  BY <1>1 DEF SettingsTypes, Entries
<1>4. Generic!Names' = Generic!Names /\ \A name : Generic!Property(name)' = Generic!Property(name)
  BY <1>1, SchemaStays
<1>5. SettingsAreLegal'
  BY <1>1, <1>4 DEF SettingsAreLegal
<1>6. ReportIsTrue'
  BY <1>1 DEF ReportIsTrue, LastApplied
<1>7. ReportIsWhole'
  <2>1. request \in 1..(Len(requests) + 1) /\ Len(requests) \in Nat
    BY DEF RequestsAreTyped, SettingsTypes
  <2>2. settingsPc \in {"configure", "done", "failed"}
    BY DEF SettingsTypes
  <2> QED
    BY <1>1, <2>1, <2>2 DEF ReportIsWhole
<1>8. FailureIsKnown'
  <2>1. Generic!Validate(requests[request].name, requests[request].value)'
            = Generic!Validate(requests[request].name, requests[request].value)
    BY <1>1, <1>4 DEF Generic!Validate
  <2> QED
    BY <1>1, <2>1 DEF FailureIsKnown
<1> QED
  BY <1>2, <1>3, <1>5, <1>6, <1>7, <1>8

(* What a program asks for: lists of settings with values of known types.  *)
LEMMA RequestsFirst == Generic!Init => RequestsAreTyped
<1> SUFFICES ASSUME Generic!Init PROVE RequestsAreTyped
  OBVIOUS
<1>1. CASE \E e \in Encoders : requests = Generic!VideoRequests(e)
  <2>1. PICK e \in Encoders : requests = Generic!VideoRequests(e)
    BY <1>1
  <2> DEFINE Values == {Generic!Whole(n) : n \in Int} \cup {Generic!Text(m) : m \in {1, 2, e.preset, e.options}}
             R == [name : {"rate_control", "crf", "bitrate", "preset", "x264opts"}, value : Values]
             Set(name, v) == [name |-> name, value |-> v]
             Chosen(name, m) == IF m = 0 THEN <<>> ELSE <<Set(name, Generic!Text(m))>>
             rate == IF e.crf # <<>> /\ e.x264
                     THEN <<Set("rate_control", Generic!Text(1)), Set("crf", Generic!Whole(Generic!Crf(e.crf[1])))>>
                     ELSE <<Set("rate_control", Generic!Text(2)), Set("bitrate", Generic!Whole(e.bitrate))>>
  <2>2. requests = rate \o Chosen("preset", e.preset) \o Chosen("x264opts", e.options)
    BY <2>1 DEF Generic!VideoRequests
  <2>3. \A v \in Values : v.type \in ValueTypes /\ (v.type = "integer" => v.is[1] \in Int)
    <3>1. \A n \in Int : Generic!Whole(n).type = "integer" /\ Generic!Whole(n).is[1] \in Int
      BY DEF Generic!Whole
    <3>2. \A m : Generic!Text(m).type = "string"
      BY DEF Generic!Text
    <3>3. "integer" \in ValueTypes /\ "string" \in ValueTypes
      BY DEF ValueTypes
    <3> QED
      BY <3>1, <3>2, <3>3
  <2>4. e.bitrate \in Int /\ (e.crf # <<>> => Generic!Crf(e.crf[1]) \in Int)
    <3>1. \A q \in Int : Generic!Crf(q) \in Int
      BY DEF Generic!Crf
    <3> QED
      BY <3>1, SettingsAssumption
  <2>5. /\ \A n \in Int : Generic!Whole(n) \in Values
        /\ \A m \in {1, 2, e.preset, e.options} : Generic!Text(m) \in Values
    OBVIOUS
  <2> HIDE DEF Values
  <2>6. \A v \in Values : Set("rate_control", v) \in R /\ Set("crf", v) \in R /\ Set("bitrate", v) \in R
                          /\ Set("preset", v) \in R /\ Set("x264opts", v) \in R
    <3> SUFFICES ASSUME NEW v \in Values
                 PROVE  Set("rate_control", v) \in R /\ Set("crf", v) \in R /\ Set("bitrate", v) \in R
                        /\ Set("preset", v) \in R /\ Set("x264opts", v) \in R
      OBVIOUS
    <3>1. Set("rate_control", v) \in R /\ Set("crf", v) \in R
      OBVIOUS
    <3>2. Set("bitrate", v) \in R /\ Set("preset", v) \in R
      OBVIOUS
    <3>3. Set("x264opts", v) \in R
      OBVIOUS
    <3> QED
      BY <3>1, <3>2, <3>3, Zenon
  <2> HIDE DEF R, Set
  <2>7. rate \in Seq(R)
    BY <2>4, <2>5, <2>6
  <2>8. Chosen("preset", e.preset) \in Seq(R) /\ Chosen("x264opts", e.options) \in Seq(R)
    BY <2>5, <2>6
  <2> HIDE DEF rate, Chosen
  <2>9. requests \in Seq(R)
    BY <2>2, <2>7, <2>8
  <2>10. Len(requests) \in Nat /\ DOMAIN requests = 1..Len(requests)
         /\ \A n \in DOMAIN requests : requests[n] \in R
    BY <2>9
  <2>11. \A x \in R : x.value \in Values
    BY DEF R
  <2> QED
    BY <2>3, <2>10, <2>11 DEF RequestsAreTyped
<1>2. CASE requests \in Others
  <2>1. requests \in Seq(Elements(requests))
        /\ \A r \in Elements(requests) : /\ r.value.type \in ValueTypes
                                         /\ r.value.type = "integer" => r.value.is[1] \in Int
    BY <1>2, SettingsAssumption
  <2>2. Len(requests) \in Nat /\ DOMAIN requests = 1..Len(requests)
        /\ \A n \in DOMAIN requests : requests[n] \in Elements(requests)
    BY <2>1
  <2> QED
    BY <2>1, <2>2 DEF RequestsAreTyped
<1> QED
  BY <1>1, <1>2 DEF Generic!Init, Generic!Ask

(* The initial states satisfy the invariant. *)
LEMMA SettingsFirst == Generic!Init => SettingsInv
<1> SUFFICES ASSUME Generic!Init PROVE SettingsInv
  OBVIOUS
<1>1. RequestsAreTyped
  BY RequestsFirst
<1>2. /\ schema \in Schemas /\ strict \in BOOLEAN
      /\ settingsPc = "configure" /\ request = 1 /\ report = <<>>
      /\ data = [name \in Generic!Names \cup {r.name : r \in Generic!Range(requests)}
                     |-> Generic!Default]
  BY DEF Generic!Init
<1>3. refuses \in BOOLEAN
  BY Zenon DEF Generic!Init, Generic!Ask
<1>4. SettingsTypes
  <2>1. request \in 1..(Len(requests) + 1) /\ report \in Seq(Entries)
    BY <1>1, <1>2 DEF RequestsAreTyped
  <2>2. /\ \A n \in DOMAIN requests : requests[n].name \in DOMAIN data
        /\ \A name \in DOMAIN data : data[name] = Generic!Default
        /\ data = [name \in DOMAIN data |-> data[name]]
    BY <1>2 DEF Generic!Range
  <2> QED
    BY <1>2, <1>3, <2>1, <2>2 DEF SettingsTypes
<1>5. \A name \in DOMAIN data : data[name] = Generic!Default
  BY <1>2
<1>6. SettingsAreLegal /\ ReportIsTrue
  <2>1. DOMAIN report = {}
    BY <1>2
  <2> QED
    BY <1>5, <2>1 DEF SettingsAreLegal, ReportIsTrue, LastApplied
<1>7. ReportIsWhole /\ FailureIsKnown
  BY <1>1, <1>2 DEF ReportIsWhole, FailureIsKnown, RequestsAreTyped
<1> QED
  BY <1>1, <1>4, <1>6, <1>7 DEF SettingsInv

(* Whatever the schema and the settings asked for: a setting is made only  *)
(* with a value OBS takes, the report says what became of each, strict     *)
(* ends well when all were made, and permissive fails on ranges and on     *)
(* properties without a value only (set_reported, validate).               *)
THEOREM SettingsAlwaysExact == Generic!Spec => [](Generic!TypeOK /\ Generic!SettingsAreExact)
<1>1. SettingsInv => Generic!TypeOK /\ Generic!SettingsAreExact
  <2> SUFFICES ASSUME SettingsInv PROVE Generic!TypeOK /\ Generic!SettingsAreExact
    OBVIOUS
  <2> USE DEF SettingsInv
  <2>1. Generic!TypeOK
    <3>1. \A name \in DOMAIN data :
              data[name] = Generic!Default \/ data[name] \in {r.value : r \in Generic!Range(requests)}
      BY DEF SettingsTypes, Generic!Range
    <3> QED
      BY <3>1 DEF SettingsTypes, ReportIsWhole, Generic!TypeOK
  <2>2. settingsPc = "done" => Len(report) = Len(requests)
    BY DEF ReportIsWhole, RequestsAreTyped
  <2>3. settingsPc = "done" /\ strict => \A x \in Generic!Range(report) : x.as = "applied"
    BY DEF ReportIsWhole, Generic!Range
  <2> QED
    BY <2>1, <2>2, <2>3
    DEF Generic!SettingsAreExact, SettingsAreLegal, ReportIsTrue, LastApplied, FailureIsKnown
<1>2. SettingsInv /\ [Generic!Next]_Generic!vars => SettingsInv'
  BY SettingAsked, SettingsEnded DEF Generic!Next
<1> QED
  BY <1>1, <1>2, SettingsFirst, PTL DEF Generic!Spec

-----------------------------------------------------------------------------
(* Where a process changes the tree or its markers. *)
CacheWriting == {"clean", "build", "mark", "markVerified"}

(* A process that looks at the tree or changes it has the lock. *)
CacheLockIsHeld == \A p \in Processes : buildPc[p] \in CacheWriting \cup {"check"} <=> lock = p

(* Whenever nobody writes, the markers that are not stale are true. *)
MarkersAreTrue ==
    (\A p \in Processes : buildPc[p] \notin CacheWriting) =>
        /\ "verified" \in markers \ stale => "success" \in markers
        /\ \A f \in ReleaseFiles \ holes :
              /\ "success" \in markers \ stale => tree[f] # "none"
              /\ {"success", "verified"} \subseteq markers \ stale => tree[f] = "verified"

(* A build starts without the marker of checksums, or with a stale one,    *)
(* and what it marks is what it has made.                                  *)
MarkedIsMade ==
    \A p \in Processes :
        /\ buildPc[p] \in {"build", "mark", "markVerified"} => "verified" \notin markers \ stale
        /\ buildPc[p] \in {"mark", "markVerified"} =>
              \A f \in ReleaseFiles \ holes : tree[f] = IF verified[p] THEN "verified" ELSE "plain"
        /\ buildPc[p] = "markVerified" => verified[p] /\ "success" \in markers

(* A steady tree is as its process needs it, and so is its copy. *)
SteadyIsTrue ==
    \A p \in steady :
        /\ buildPc[p] \in {"copy", "installed"}
        /\ \A q \in Processes : buildPc[q] \notin CacheWriting
        /\ \A f \in ReleaseFiles \ holes : tree[f] # "none" /\ (verified[p] => tree[f] = "verified")
        /\ buildPc[p] = "installed" => \A f \in ReleaseFiles \ missed[p] : tree[f] \in {"none", out[p][f]}

(* The inductive invariant. *)
CacheInv == Cache!TypeOK /\ CacheLockIsHeld /\ MarkersAreTrue /\ MarkedIsMade /\ SteadyIsTrue

(* A step of process p. *)
CacheStep(p) ==
    \/ \E check, again \in BOOLEAN : Cache!Begin(p, check, again)
    \/ Cache!CreateDir(p) \/ Cache!AcquireLock(p)
    \/ Cache!UseTree(p) \/ Cache!StartToClean(p) \/ Cache!StartToBuild(p)
    \/ Cache!CleanMarker(p) \/ Cache!CleanFile(p) \/ Cache!Cleaned(p)
    \/ Cache!Extract(p) \/ Cache!Extracted(p) \/ Cache!Mark(p) \/ Cache!MarkVerified(p)
    \/ Cache!CopyFile(p) \/ Cache!Copied(p) \/ Cache!Exit(p)

-----------------------------------------------------------------------------
(* One step of one process, one part of the invariant after the other. *)

(* The state keeps its types. *)
LEMMA CacheStepTyped ==
    ASSUME Cache!TypeOK, MaxBuilds \in Nat, NEW p \in Processes, CacheStep(p)
    PROVE  Cache!TypeOK'
<1> USE DEF Cache!TypeOK, Cache!Goto, Cache!call, Cache!history
<1>1. ASSUME NEW check \in BOOLEAN, NEW again \in BOOLEAN, Cache!Begin(p, check, again)
      PROVE  Cache!TypeOK'
  <2>1. buildPc' = [buildPc EXCEPT ![p] = "lock"] \/ buildPc' = [buildPc EXCEPT ![p] = "create"]
    BY <1>1, Zenon DEF Cache!Begin
  <2>2. /\ verified' = [verified EXCEPT ![p] = check] /\ rebuild' = [rebuild EXCEPT ![p] = again]
        /\ existed' = [existed EXCEPT ![p] = dir]
        /\ UNCHANGED <<dir, tree, markers, lock, remains, out, stale, holes, missed, steady>>
        /\ builds < MaxBuilds /\ builds' = builds + 1
    BY <1>1 DEF Cache!Begin, Cache!history
  <2>3. builds' \in 0..MaxBuilds
    BY <2>2
  <2>4. /\ verified' \in [Processes -> BOOLEAN] /\ rebuild' \in [Processes -> BOOLEAN]
        /\ existed' \in [Processes -> BOOLEAN]
    <3>1. verified \in [Processes -> BOOLEAN] /\ rebuild \in [Processes -> BOOLEAN]
          /\ existed \in [Processes -> BOOLEAN] /\ dir \in BOOLEAN
      BY Zenon
    <3> QED
      BY <2>2, <3>1, Zenon
  <2> QED
    BY <2>1, <2>2, <2>3, <2>4
<1>2. CASE Cache!CreateDir(p)
  BY <1>2 DEF Cache!CreateDir
<1>3. CASE Cache!AcquireLock(p)
  BY <1>3 DEF Cache!AcquireLock
<1>4. CASE Cache!UseTree(p)
  BY <1>4 DEF Cache!UseTree
<1>5. CASE Cache!StartToClean(p)
  BY <1>5 DEF Cache!StartToClean
<1>6. CASE Cache!StartToBuild(p)
  BY <1>6 DEF Cache!StartToBuild
<1>7. CASE Cache!CleanMarker(p)
  BY <1>7 DEF Cache!CleanMarker
<1>8. CASE Cache!CleanFile(p)
  BY <1>8 DEF Cache!CleanFile
<1>9. CASE Cache!Cleaned(p)
  BY <1>9 DEF Cache!Cleaned
<1>10. CASE Cache!Extract(p)
  BY <1>10 DEF Cache!Extract, Cache!Made
<1>11. CASE Cache!Extracted(p)
  BY <1>11 DEF Cache!Extracted
<1>12. CASE Cache!Mark(p)
  BY <1>12 DEF Cache!Mark, Cache!Release
<1>13. CASE Cache!MarkVerified(p)
  BY <1>13 DEF Cache!MarkVerified, Cache!Release
<1>14. CASE Cache!CopyFile(p)
  BY <1>14 DEF Cache!CopyFile
<1>15. CASE Cache!Copied(p)
  BY <1>15 DEF Cache!Copied
<1>16. CASE Cache!Exit(p)
  BY <1>16 DEF Cache!Exit, Cache!Abandon, Cache!Absent
<1> QED
  BY <1>1, <1>2, <1>3, <1>4, <1>5, <1>6, <1>7, <1>8, <1>9, <1>10, <1>11, <1>12, <1>13, <1>14, <1>15, <1>16
     DEF CacheStep

(* Only the process with the lock looks at the tree. *)
LEMMA CacheStepLock ==
    ASSUME Cache!TypeOK, CacheLockIsHeld, None \notin Processes, NEW p \in Processes, CacheStep(p)
    PROVE  CacheLockIsHeld'
<1> USE DEF Cache!TypeOK, Cache!Goto, Cache!call, Cache!history, CacheLockIsHeld, CacheWriting
<1>1. ASSUME NEW check \in BOOLEAN, NEW again \in BOOLEAN, Cache!Begin(p, check, again)
      PROVE  CacheLockIsHeld'
  BY <1>1 DEF Cache!Begin
<1>2. CASE Cache!CreateDir(p)
  BY <1>2 DEF Cache!CreateDir
<1>3. CASE Cache!AcquireLock(p)
  BY <1>3 DEF Cache!AcquireLock
<1>4. CASE Cache!UseTree(p)
  BY <1>4 DEF Cache!UseTree
<1>5. CASE Cache!StartToClean(p)
  BY <1>5 DEF Cache!StartToClean
<1>6. CASE Cache!StartToBuild(p)
  BY <1>6 DEF Cache!StartToBuild
<1>7. CASE Cache!CleanMarker(p)
  BY <1>7 DEF Cache!CleanMarker
<1>8. CASE Cache!CleanFile(p)
  BY <1>8 DEF Cache!CleanFile
<1>9. CASE Cache!Cleaned(p)
  BY <1>9 DEF Cache!Cleaned
<1>10. CASE Cache!Extract(p)
  BY <1>10 DEF Cache!Extract
<1>11. CASE Cache!Extracted(p)
  BY <1>11 DEF Cache!Extracted
<1>12. CASE Cache!Mark(p)
  BY <1>12 DEF Cache!Mark, Cache!Release
<1>13. CASE Cache!MarkVerified(p)
  BY <1>13 DEF Cache!MarkVerified, Cache!Release
<1>14. CASE Cache!CopyFile(p)
  BY <1>14 DEF Cache!CopyFile
<1>15. CASE Cache!Copied(p)
  BY <1>15 DEF Cache!Copied
<1>16. CASE Cache!Exit(p)
  BY <1>16 DEF Cache!Exit
<1> QED
  BY <1>1, <1>2, <1>3, <1>4, <1>5, <1>6, <1>7, <1>8, <1>9, <1>10, <1>11, <1>12, <1>13, <1>14, <1>15, <1>16
     DEF CacheStep

(* The markers are true again when a process ends its writing, or stale. *)
LEMMA CacheStepMarkers ==
    ASSUME CacheInv, None \notin Processes, NEW p \in Processes, CacheStep(p)
    PROVE  MarkersAreTrue'
<1> USE DEF CacheInv, MarkersAreTrue, MarkedIsMade, Cache!TypeOK, Cache!Goto, Cache!call, Cache!history, CacheLockIsHeld, CacheWriting
<1>1. ASSUME NEW check \in BOOLEAN, NEW again \in BOOLEAN, Cache!Begin(p, check, again)
      PROVE  MarkersAreTrue'
  BY <1>1 DEF Cache!Begin
<1>2. CASE Cache!CreateDir(p)
  BY <1>2 DEF Cache!CreateDir
<1>3. CASE Cache!AcquireLock(p)
  BY <1>3 DEF Cache!AcquireLock
<1>4. CASE Cache!UseTree(p)
  BY <1>4 DEF Cache!UseTree, Cache!Hit, Cache!Needed
<1>5. CASE Cache!StartToClean(p)
  BY <1>5 DEF Cache!StartToClean, Cache!Hit, Cache!Needed
<1>6. CASE Cache!StartToBuild(p)
  BY <1>6 DEF Cache!StartToBuild, Cache!Hit, Cache!Needed
<1>7. CASE Cache!CleanMarker(p)
  BY <1>7 DEF Cache!CleanMarker
<1>8. CASE Cache!CleanFile(p)
  BY <1>8 DEF Cache!CleanFile
<1>9. CASE Cache!Cleaned(p)
  BY <1>9 DEF Cache!Cleaned
<1>10. CASE Cache!Extract(p)
  BY <1>10 DEF Cache!Extract, Cache!Made
<1>11. CASE Cache!Extracted(p)
  BY <1>11 DEF Cache!Extracted, Cache!Made
<1>12. CASE Cache!Mark(p)
  BY <1>12 DEF Cache!Mark, Cache!Release
<1>13. CASE Cache!MarkVerified(p)
  BY <1>13 DEF Cache!MarkVerified, Cache!Release
<1>14. CASE Cache!CopyFile(p)
  BY <1>14 DEF Cache!CopyFile
<1>15. CASE Cache!Copied(p)
  BY <1>15 DEF Cache!Copied
<1>16. CASE Cache!Exit(p)
  BY <1>16 DEF Cache!Exit, Cache!Abandon
<1> QED
  BY <1>1, <1>2, <1>3, <1>4, <1>5, <1>6, <1>7, <1>8, <1>9, <1>10, <1>11, <1>12, <1>13, <1>14, <1>15, <1>16
     DEF CacheStep

(* Nobody else touches what a process makes. *)
LEMMA CacheStepMade ==
    ASSUME CacheInv, None \notin Processes, NEW p \in Processes, CacheStep(p)
    PROVE  MarkedIsMade'
<1> USE DEF CacheInv, MarkersAreTrue, MarkedIsMade, Cache!TypeOK, Cache!Goto, Cache!call, Cache!history, CacheLockIsHeld, CacheWriting
<1>1. ASSUME NEW check \in BOOLEAN, NEW again \in BOOLEAN, Cache!Begin(p, check, again)
      PROVE  MarkedIsMade'
  BY <1>1 DEF Cache!Begin
<1>2. CASE Cache!CreateDir(p)
  BY <1>2 DEF Cache!CreateDir
<1>3. CASE Cache!AcquireLock(p)
  BY <1>3 DEF Cache!AcquireLock
<1>4. CASE Cache!UseTree(p)
  BY <1>4 DEF Cache!UseTree, Cache!Hit, Cache!Needed
<1>5. CASE Cache!StartToClean(p)
  BY <1>5 DEF Cache!StartToClean, Cache!Hit, Cache!Needed
<1>6. CASE Cache!StartToBuild(p)
  BY <1>6 DEF Cache!StartToBuild, Cache!Hit, Cache!Needed
<1>7. CASE Cache!CleanMarker(p)
  BY <1>7 DEF Cache!CleanMarker
<1>8. CASE Cache!CleanFile(p)
  BY <1>8 DEF Cache!CleanFile
<1>9. CASE Cache!Cleaned(p)
  BY <1>9 DEF Cache!Cleaned
<1>10. CASE Cache!Extract(p)
  BY <1>10 DEF Cache!Extract, Cache!Made
<1>11. CASE Cache!Extracted(p)
  BY <1>11 DEF Cache!Extracted, Cache!Made
<1>12. CASE Cache!Mark(p)
  BY <1>12 DEF Cache!Mark, Cache!Release
<1>13. CASE Cache!MarkVerified(p)
  BY <1>13 DEF Cache!MarkVerified, Cache!Release
<1>14. CASE Cache!CopyFile(p)
  BY <1>14 DEF Cache!CopyFile
<1>15. CASE Cache!Copied(p)
  BY <1>15 DEF Cache!Copied
<1>16. CASE Cache!Exit(p)
  BY <1>16 DEF Cache!Exit, Cache!Abandon
<1> QED
  BY <1>1, <1>2, <1>3, <1>4, <1>5, <1>6, <1>7, <1>8, <1>9, <1>10, <1>11, <1>12, <1>13, <1>14, <1>15, <1>16
     DEF CacheStep

(* Whoever prepares the tree again makes it unsteady before. *)
LEMMA CacheStepSteady ==
    ASSUME CacheInv, None \notin Processes, NEW p \in Processes, CacheStep(p)
    PROVE  SteadyIsTrue'
<1> USE DEF CacheInv, MarkersAreTrue, MarkedIsMade, SteadyIsTrue, Cache!TypeOK, Cache!Goto, Cache!call, Cache!history, CacheLockIsHeld, CacheWriting
<1>1. ASSUME NEW check \in BOOLEAN, NEW again \in BOOLEAN, Cache!Begin(p, check, again)
      PROVE  SteadyIsTrue'
  BY <1>1 DEF Cache!Begin
<1>2. CASE Cache!CreateDir(p)
  BY <1>2 DEF Cache!CreateDir
<1>3. CASE Cache!AcquireLock(p)
  BY <1>3 DEF Cache!AcquireLock
<1>4. CASE Cache!UseTree(p)
  BY <1>4 DEF Cache!UseTree, Cache!Hit, Cache!Needed
<1>5. CASE Cache!StartToClean(p)
  BY <1>5 DEF Cache!StartToClean, Cache!Hit, Cache!Needed
<1>6. CASE Cache!StartToBuild(p)
  BY <1>6 DEF Cache!StartToBuild, Cache!Hit, Cache!Needed
<1>7. CASE Cache!CleanMarker(p)
  BY <1>7 DEF Cache!CleanMarker
<1>8. CASE Cache!CleanFile(p)
  BY <1>8 DEF Cache!CleanFile
<1>9. CASE Cache!Cleaned(p)
  BY <1>9 DEF Cache!Cleaned
<1>10. CASE Cache!Extract(p)
  BY <1>10 DEF Cache!Extract, Cache!Made
<1>11. CASE Cache!Extracted(p)
  BY <1>11 DEF Cache!Extracted, Cache!Made
<1>12. CASE Cache!Mark(p)
  <2>1. CASE verified[p]
    BY <1>12, <2>1 DEF Cache!Mark
  <2>2. CASE ~verified[p]
    <3>1. \A q \in Processes \ {p} : buildPc[q] \notin CacheWriting
      BY <1>12 DEF Cache!Mark
    <3>2. steady = {}
      BY <1>12 DEF Cache!Mark
    <3>3. /\ steady' = {p} /\ buildPc' = [buildPc EXCEPT ![p] = "copy"]
          /\ UNCHANGED <<tree, holes, verified>>
      BY <1>12, <2>2, <3>2 DEF Cache!Mark, Cache!Release
    <3>4. \A f \in ReleaseFiles \ holes : tree[f] = "plain"
      BY <1>12, <2>2 DEF Cache!Mark
    <3> QED
      BY <2>2, <3>1, <3>3, <3>4
  <2> QED
    BY <2>1, <2>2
<1>13. CASE Cache!MarkVerified(p)
  BY <1>13 DEF Cache!MarkVerified, Cache!Release
<1>14. CASE Cache!CopyFile(p)
  BY <1>14 DEF Cache!CopyFile
<1>15. CASE Cache!Copied(p)
  BY <1>15 DEF Cache!Copied
<1>16. CASE Cache!Exit(p)
  BY <1>16 DEF Cache!Exit, Cache!Abandon
<1> QED
  BY <1>1, <1>2, <1>3, <1>4, <1>5, <1>6, <1>7, <1>8, <1>9, <1>10, <1>11, <1>12, <1>13, <1>14, <1>15, <1>16
     DEF CacheStep

-----------------------------------------------------------------------------
(* The state of a cache and of the processes that share it has its types,  *)
(* and the parts of the invariant hold.                                    *)
LEMMA CacheAlwaysInv ==
    ASSUME None \notin Processes, MaxBuilds \in Nat
    PROVE  Cache!Spec => []CacheInv
<1>1. Cache!Init => CacheInv
  <2> SUFFICES ASSUME Cache!Init PROVE CacheInv
    OBVIOUS
  <2>1. /\ builds \in 0..MaxBuilds
        /\ markers \subseteq {"success", "verified"} /\ lock \in Processes \cup {None}
    BY DEF Cache!Init
  <2>2. dir \in BOOLEAN
    BY Zenon DEF Cache!Init
  <2>3. /\ verified \in [Processes -> BOOLEAN] /\ rebuild \in [Processes -> BOOLEAN]
        /\ existed \in [Processes -> BOOLEAN]
    BY DEF Cache!Init
  <2>4. /\ tree \in [ReleaseFiles -> {"none", "plain", "verified"}]
        /\ out \in [Processes -> [ReleaseFiles -> {"none", "plain", "verified"}]]
    BY DEF Cache!Init, Cache!Absent
  <2>5. buildPc \in [Processes -> {"idle", "create", "lock", "check", "clean", "build", "mark",
                                  "markVerified", "copy", "installed"}]
    BY DEF Cache!Init
  <2>6. /\ remains \in [Processes -> SUBSET {"success", "verified", "tree"}]
        /\ stale \subseteq markers /\ holes \subseteq ReleaseFiles
        /\ missed \in [Processes -> SUBSET ReleaseFiles] /\ steady \subseteq Processes
    BY DEF Cache!Init
  <2>7. Cache!TypeOK
    BY <2>1, <2>2, <2>3, <2>4, <2>5, <2>6 DEF Cache!TypeOK
  <2>8. CacheLockIsHeld /\ MarkersAreTrue /\ MarkedIsMade /\ SteadyIsTrue
    BY DEF Cache!Init, CacheLockIsHeld, MarkersAreTrue, MarkedIsMade, SteadyIsTrue, CacheWriting
  <2> QED
    BY <2>7, <2>8 DEF CacheInv
<1>2. CacheInv /\ [Cache!Next]_Cache!vars => CacheInv'
  <2>1. ASSUME CacheInv, NEW p \in Processes, CacheStep(p) PROVE CacheInv'
    BY <2>1, CacheStepTyped, CacheStepLock, CacheStepMarkers, CacheStepMade, CacheStepSteady DEF CacheInv
  <2>2. ASSUME CacheInv, UNCHANGED Cache!vars PROVE CacheInv'
    BY <2>2 DEF Cache!vars, Cache!call, Cache!history, CacheInv, Cache!TypeOK, CacheLockIsHeld,
       MarkersAreTrue, MarkedIsMade, SteadyIsTrue
  <2> QED
    BY <2>1, <2>2 DEF Cache!Next, CacheStep
<1> QED
  BY <1>1, <1>2, PTL DEF Cache!Spec

(* The state of a cache and of the processes that share it has its types. *)
THEOREM CacheAlwaysTyped ==
    ASSUME None \notin Processes, MaxBuilds \in Nat
    PROVE  Cache!Spec => []Cache!TypeOK
<1>1. CacheInv => Cache!TypeOK
  BY DEF CacheInv
<1> QED
  BY <1>1, CacheAlwaysInv, PTL

-----------------------------------------------------------------------------
(* Whatever calls share the cache, whatever they ask for, whenever they    *)
(* are killed or fail, and whatever entries cannot be read: a tree that is *)
(* marked by the preparation that made it is complete, and a call that     *)
(* succeeds has copied a whole release, but for what was passed over, if   *)
(* nobody prepares the tree again while it copies.                         *)
THEOREM CacheAlwaysComplete ==
    ASSUME None \notin Processes, MaxBuilds \in Nat
    PROVE  Cache!Spec => []Cache!CacheIsComplete
<1>1. ASSUME CacheInv PROVE Cache!MarkedIsComplete
  <2>1. lock = None => \A p \in Processes : buildPc[p] \notin CacheWriting
    BY <1>1 DEF CacheInv, CacheLockIsHeld
  <2> QED
    BY <1>1, <2>1 DEF CacheInv, MarkersAreTrue, Cache!MarkedIsComplete
<1>2. ASSUME CacheInv PROVE Cache!InstalledIsComplete
  <2> SUFFICES ASSUME NEW p \in steady, buildPc[p] = "installed",
                      NEW f \in ReleaseFiles \ (holes \cup missed[p])
               PROVE  out[p][f] # "none" /\ (verified[p] => out[p][f] = "verified")
    BY DEF Cache!InstalledIsComplete
  <2>1. f \in ReleaseFiles \ holes /\ f \in ReleaseFiles \ missed[p]
    OBVIOUS
  <2>2. SteadyIsTrue
    BY <1>2 DEF CacheInv
  <2>3. tree[f] # "none" /\ (verified[p] => tree[f] = "verified")
    BY <2>1, <2>2 DEF SteadyIsTrue
  <2>4. tree[f] \in {"none", out[p][f]}
    BY <2>1, <2>2 DEF SteadyIsTrue
  <2> QED
    BY <2>3, <2>4
<1>3. CacheInv => Cache!CacheIsComplete
  BY <1>1, <1>2 DEF Cache!CacheIsComplete
<1> QED
  BY <1>3, CacheAlwaysInv, PTL

-----------------------------------------------------------------------------
(* What the instances take for granted of the constants. *)
BootInstance ==
    /\ Versions \subseteq Nat \X Nat \X Nat /\ Configured \in Versions
    /\ MaxInstalls \in Nat

(* The target is of the line that is asked for. *)
TargetIsOfLine ==
    /\ bootstrapPc = "resolve" \/ bootstrapPc = "failed" \/ bootstrapPc = "idle" \/
                   /\ target \in Versions
                   /\ mode = "exact" => target = Configured
                   /\ Setup!InLine(target, Configured, mode)

(* What has been copied is the target. *)
CopiedIsTarget ==
    bootstrapPc \in {"copy", "verify"} => \A f \in copied : installed[f] = target /\ f \notin torn

(* Only a copy that is broken off or passes over a file leaves files of    *)
(* two versions.                                                           *)
NeverBrokenOff ==
    ~partial => torn = {} /\ (bootstrapPc # "copy" => Setup!IsWhole)

(* The inductive invariant. *)
BootInv == Setup!TypeOK /\ TargetIsOfLine /\ CopiedIsTarget /\ NeverBrokenOff /\ Setup!BootstrapIsSound

(* Versions are compared part by part. *)
LEMMA VersionOrder ==
    ASSUME NEW v \in Nat \X Nat \X Nat, NEW w \in Nat \X Nat \X Nat
    PROVE  Setup!Less(v, w) <=> \/ v[1] < w[1]
                                \/ v[1] = w[1] /\ v[2] < w[2]
                                \/ v[1] = w[1] /\ v[2] = w[2] /\ v[3] < w[3]
<1>1. 1..(1 - 1) = {} /\ 1..(2 - 1) = {1} /\ 1..(3 - 1) = {1, 2} /\ 1..3 = {1, 2, 3}
  OBVIOUS
<1>2. ASSUME NEW i \in 1..3, v[i] < w[i], \A j \in 1..(i - 1) : v[j] = w[j]
      PROVE  \/ v[1] < w[1]
             \/ v[1] = w[1] /\ v[2] < w[2]
             \/ v[1] = w[1] /\ v[2] = w[2] /\ v[3] < w[3]
  <2>1. CASE i = 1
    BY <1>2
  <2>2. CASE i = 2
    BY <1>2
  <2>3. CASE i = 3
    BY <1>2
  <2> QED
    BY <2>1, <2>2, <2>3
<1>3. ASSUME v[1] < w[1] PROVE Setup!Less(v, w)
  BY <1>3 DEF Setup!Less
<1>4. ASSUME v[1] = w[1], v[2] < w[2] PROVE Setup!Less(v, w)
  BY <1>4 DEF Setup!Less
<1>5. ASSUME v[1] = w[1], v[2] = w[2], v[3] < w[3] PROVE Setup!Less(v, w)
  BY <1>5 DEF Setup!Less
<1> QED
  BY DEF Setup!Less

(* The order of versions is strict. *)
LEMMA VersionsAreOrdered ==
    ASSUME NEW v \in Nat \X Nat \X Nat, NEW w \in Nat \X Nat \X Nat
    PROVE  ~Setup!Less(v, v) /\ (Setup!Less(v, w) => ~Setup!Less(w, v))
BY VersionOrder

(* The invariant is inductive: one step for each action. *)
LEMMA BootStep ==
    ASSUME BootInstance, BootInv, [Setup!Next]_Setup!vars
    PROVE  BootInv'
<1> USE DEF BootInstance, BootInv, Setup!options, Setup!world, Setup!disk, Setup!Modes, Setup!Lines
<1>1. ASSUME NEW m \in Setup!Modes, NEW u \in BOOLEAN, Setup!Call(m, u) PROVE BootInv'
  BY <1>1 DEF Setup!Call, Setup!TypeOK, TargetIsOfLine, CopiedIsTarget, NeverBrokenOff,
     Setup!BootstrapIsSound, Setup!IsWhole
<1>2. ASSUME NEW f \in Setup!Files, Setup!Copy(f) PROVE BootInv'
  BY <1>2 DEF Setup!Copy, Setup!TypeOK, TargetIsOfLine, CopiedIsTarget, NeverBrokenOff,
     Setup!BootstrapIsSound
<1>3. ASSUME Setup!Publish PROVE BootInv'
  BY <1>3 DEF Setup!Publish, Setup!TypeOK, TargetIsOfLine, CopiedIsTarget, NeverBrokenOff,
     Setup!BootstrapIsSound, Setup!IsWhole
<1>4. ASSUME Setup!ResolveExact PROVE BootInv'
  BY <1>4 DEF Setup!ResolveExact, Setup!InLine, Setup!TypeOK, TargetIsOfLine, CopiedIsTarget,
     NeverBrokenOff, Setup!BootstrapIsSound, Setup!IsWhole
<1>5. ASSUME Setup!ResolveFromList PROVE BootInv'
  BY <1>5 DEF Setup!ResolveFromList, Setup!Choose, Setup!Fail, Setup!TypeOK, TargetIsOfLine,
     CopiedIsTarget, NeverBrokenOff, Setup!BootstrapIsSound, Setup!IsWhole
<1>6. ASSUME Setup!ResolveFromServer PROVE BootInv'
  BY <1>6, Zenon DEF Setup!ResolveFromServer, Setup!Choose, Setup!Fail, Setup!TypeOK, TargetIsOfLine,
     CopiedIsTarget, NeverBrokenOff, Setup!BootstrapIsSound, Setup!IsWhole, Setup!Files
<1>7. ASSUME Setup!Inspect PROVE BootInv'
  <2>1. (Setup!TypeOK /\ TargetIsOfLine /\ CopiedIsTarget /\ NeverBrokenOff)'
    BY <1>7 DEF Setup!Inspect, Setup!TypeOK, TargetIsOfLine, CopiedIsTarget, NeverBrokenOff,
       Setup!IsWhole
  <2>2. Setup!BootstrapIsSound'
    <3>1. /\ UNCHANGED <<Setup!world, Setup!disk, loaded, Setup!options, target>>
          /\ bootstrapPc = "inspect"
      BY <1>7 DEF Setup!Inspect
    <3>2. CASE Library \in torn
      <4>1. bootstrapPc' = IF update THEN "prepare" ELSE "failed"
        BY <1>7, <3>2 DEF Setup!Inspect
      <4>2. bootstrapPc' \notin {"provisioned", "none"}
        BY <4>1
      <4> QED
        BY <3>1, <3>2, <4>2 DEF Setup!BootstrapIsSound
    <3>3. CASE Library \notin torn /\ installed[Library] = NoVersion
      <4>1. bootstrapPc' = "prepare"
        BY <1>7, <3>3 DEF Setup!Inspect
      <4> QED
        BY <3>1, <3>3, <4>1 DEF Setup!BootstrapIsSound
    <3>4. CASE Library \notin torn /\ installed[Library] # NoVersion
      <4> DEFINE v == installed[Library]
      <4>1. bootstrapPc' = IF Setup!Satisfies(v) THEN "none" ELSE IF update THEN "prepare" ELSE "failed"
        BY <1>7, <3>4 DEF Setup!Inspect
      <4>2. /\ v \in Nat \X Nat \X Nat /\ target \in Nat \X Nat \X Nat
            /\ mode = "exact" => target = Configured
            /\ Setup!InLine(target, Configured, mode)
        BY <3>1, <3>4 DEF Setup!TypeOK, Setup!Files, TargetIsOfLine
      <4>3. CASE Setup!Satisfies(v)
        <5>1. Setup!InLine(v, Configured, mode) /\ ~Setup!Less(v, target)
          BY <4>2, <4>3, VersionsAreOrdered DEF Setup!Satisfies, Setup!InLine
        <5>2. partial \/ Setup!IsWhole
          BY <3>1 DEF NeverBrokenOff
        <5>3. bootstrapPc' = "none" /\ Setup!IsWhole' = Setup!IsWhole
          BY <3>1, <4>1, <4>3 DEF Setup!IsWhole
        <5> QED
          BY <3>1, <3>4, <5>1, <5>2, <5>3 DEF Setup!BootstrapIsSound
      <4>4. CASE ~Setup!Satisfies(v)
        <5>1. mode # "exact" => ~(Setup!InLine(v, target, mode) /\ Setup!Less(target, v))
          BY <4>2, <4>4, VersionsAreOrdered DEF Setup!Satisfies
        <5>2. bootstrapPc' \in {"prepare", "failed"}
          BY <4>1, <4>4
        <5> QED
          BY <3>1, <5>1, <5>2 DEF Setup!BootstrapIsSound
      <4> QED
        BY <4>3, <4>4
    <3> QED
      BY <3>2, <3>3, <3>4
  <2> QED
    BY <2>1, <2>2
<1>8. ASSUME Setup!Prepare PROVE BootInv'
  BY <1>8 DEF Setup!Prepare, Setup!Fail, Setup!TypeOK, TargetIsOfLine, CopiedIsTarget,
     NeverBrokenOff, Setup!BootstrapIsSound, Setup!IsWhole
<1>9. ASSUME Setup!CopyFails PROVE BootInv'
  BY <1>9 DEF Setup!CopyFails, Setup!BreakOff, Setup!TypeOK, TargetIsOfLine, CopiedIsTarget,
     NeverBrokenOff, Setup!BootstrapIsSound
<1>10. ASSUME Setup!Copied PROVE BootInv'
  BY <1>10 DEF Setup!Copied, Setup!TypeOK, TargetIsOfLine, CopiedIsTarget, NeverBrokenOff,
     Setup!BootstrapIsSound, Setup!IsWhole, Setup!Files
<1>11. ASSUME Setup!Verify PROVE BootInv'
  BY <1>11 DEF Setup!Verify, Setup!TypeOK, TargetIsOfLine, CopiedIsTarget, NeverBrokenOff,
     Setup!BootstrapIsSound, Setup!IsWhole
<1>12. ASSUME Setup!Return PROVE BootInv'
  BY <1>12, Zenon DEF Setup!Return, Setup!NoCall, Setup!TypeOK, TargetIsOfLine, CopiedIsTarget,
     NeverBrokenOff, Setup!BootstrapIsSound, Setup!IsWhole
<1>13. ASSUME Setup!Exit PROVE BootInv'
  <2>1. Setup!TypeOK'
    <3>1. partial' \in BOOLEAN /\ loaded' \in BOOLEAN /\ update' \in BOOLEAN
      BY <1>13, Zenon DEF Setup!Exit, Setup!BreakOff, Setup!NoCall, Setup!TypeOK
    <3>2. torn' \subseteq Setup!Files
      BY <1>13 DEF Setup!Exit, Setup!BreakOff, Setup!TypeOK
    <3> QED
      BY <1>13, <3>1, <3>2 DEF Setup!Exit, Setup!NoCall, Setup!TypeOK
  <2>2. (TargetIsOfLine /\ CopiedIsTarget /\ NeverBrokenOff /\ Setup!BootstrapIsSound)'
    BY <1>13 DEF Setup!Exit, Setup!BreakOff, Setup!NoCall, CopiedIsTarget, TargetIsOfLine,
       NeverBrokenOff, Setup!BootstrapIsSound, Setup!IsWhole
  <2> QED
    BY <2>1, <2>2
<1>14. ASSUME UNCHANGED Setup!vars PROVE BootInv'
  BY <1>14 DEF Setup!vars, Setup!TypeOK, TargetIsOfLine, CopiedIsTarget, NeverBrokenOff,
     Setup!BootstrapIsSound, Setup!IsWhole
<1> QED
  BY <1>1, <1>2, <1>3, <1>4, <1>5, <1>6, <1>7, <1>8, <1>9, <1>10, <1>11, <1>12, <1>13, <1>14
     DEF Setup!Next

(* The invariant holds at the start. *)
LEMMA BootFirst ==
    ASSUME BootInstance, Setup!Init
    PROVE  BootInv
<1>1. Setup!TypeOK
  <2>1. published \subseteq Versions
    BY DEF BootInstance, Setup!Init
  <2>2. /\ cached \subseteq Setup!Lines /\ list \in [Setup!Lines -> SUBSET Versions]
        /\ installed \in [Setup!Files -> Versions \cup {NoVersion}]
    BY DEF Setup!Init
  <2>3. loaded \in BOOLEAN /\ update \in BOOLEAN /\ partial \in BOOLEAN
    BY Zenon DEF Setup!Init
  <2>4. /\ mode = "exact" /\ bootstrapPc = "idle" /\ target = NoVersion /\ calls = 0 /\ torn = {}
        /\ copied = {}
    BY DEF Setup!Init
  <2> QED
    BY <2>1, <2>2, <2>3, <2>4 DEF BootInstance, Setup!TypeOK, Setup!Modes
<1>2. NeverBrokenOff
  BY DEF Setup!Init, NeverBrokenOff, Setup!IsWhole, Setup!Files
<1> QED
  BY <1>1, <1>2 DEF Setup!Init, BootInv, TargetIsOfLine, CopiedIsTarget, Setup!BootstrapIsSound

(* A bootstrap that reports an installation leaves the version it          *)
(* resolved, and one that finds nothing to do has a version of the line    *)
(* that is no older, whatever earlier runs left.                           *)
THEOREM BootstrapAlwaysSound ==
    ASSUME BootInstance
    PROVE  Setup!Spec => [](Setup!TypeOK /\ Setup!BootstrapIsSound)
<1>1. Setup!Init => BootInv
  BY BootFirst
<1>2. BootInv /\ [Setup!Next]_Setup!vars => BootInv'
  BY BootStep
<1>3. BootInv => Setup!TypeOK /\ Setup!BootstrapIsSound
  BY DEF BootInv
<1> QED
  BY <1>1, <1>2, <1>3, PTL DEF Setup!Spec

-----------------------------------------------------------------------------
(* Edits that must be refused are not tried: a refused edit can leave the  *)
(* document changed.                                                       *)
EditorInstance == ~Rejections /\ IsFiniteSet(Items) /\ States \subseteq Int

(* Nodes of a document. *)
Nodes == Editor!SourceItem \cup Editor!Group

(* The items of a node. *)
NodeIds(node) == IF Editor!IsGroup(node) THEN {node.items[k].id : k \in DOMAIN node.items} ELSE {node.id}

(* A document of the history, valid and with every item. *)
Complete(nodes) == nodes \in Editor!Document /\ Editor!Valid(nodes) /\ Editor!ItemIds(nodes) = Items

(* The entries of a history lead to the document, the newest last. *)
LeadsTo(entries, nodes) ==
    \A i \in 1..Len(entries) :
       /\ Complete(entries[i].before) /\ Complete(entries[i].after)
       /\ entries[i].after = IF i = Len(entries) THEN nodes ELSE entries[i + 1].before

(* The entries that can be redone lead away from it. *)
LeadsFrom(entries, nodes) ==
    \A i \in 1..Len(entries) :
       /\ Complete(entries[i].before) /\ Complete(entries[i].after)
       /\ entries[i].before = IF i = Len(entries) THEN nodes ELSE entries[i + 1].after

(* The inductive invariant. *)
EditorInv ==
    /\ undo \in Seq(Editor!Entry) /\ redo \in Seq(Editor!Entry)
    /\ Complete(document) /\ LeadsTo(undo, document) /\ LeadsFrom(redo, document)

-----------------------------------------------------------------------------
(* Sequences *)

(* The elements of a finite set of numbers are numbered in order. *)
LEMMA Ranks ==
    ASSUME NEW S, IsFiniteSet(S), S \subseteq Nat
    PROVE  /\ Cardinality(S) \in Nat
           /\ [x \in S |-> Cardinality({y \in S : y <= x})] \in Bijection(S, 1..Cardinality(S))
<1> DEFINE upTo == [x \in S |-> {y \in S : y <= x}]
           rank == [x \in S |-> Cardinality({y \in S : y <= x})]
<1>1. \A x, y \in S : \/ x = y
                      \/ upTo[x] \subseteq upTo[y] /\ y \notin upTo[x]
                      \/ upTo[y] \subseteq upTo[x] /\ x \notin upTo[y]
  <2>1. ASSUME NEW x \in S, NEW y \in S, x < y
        PROVE  upTo[x] \subseteq upTo[y] /\ y \notin upTo[x]
    <3>1. \A z \in S : z \in Nat
      OBVIOUS
    <3>2. ~(y <= x) /\ \A z \in S : z <= x => z <= y
      BY <2>1, <3>1
    <3> QED
      BY <3>2
  <2>2. \A x, y \in S : x = y \/ x < y \/ y < x
    OBVIOUS
  <2> HIDE DEF upTo
  <2> QED
    BY <2>1, <2>2, Zenon
<1>2. \A x \in S : x \in upTo[x] /\ upTo[x] \subseteq S /\ rank[x] = Cardinality(upTo[x])
  OBVIOUS
<1>3. rank \in [S -> Nat]
  <2>1. \A x \in S : Cardinality(upTo[x]) \in Nat
    <3> HIDE DEF upTo
    <3> QED
      BY <1>2, FS_Subset, FS_CardinalityType
  <2> QED
    BY <2>1
<1> HIDE DEF upTo, rank
<1>4. /\ Cardinality(S) \in Nat
      /\ rank \in Bijection(S, 1..Cardinality(S))
      /\ \A x, y \in S : y \notin upTo[x] => rank[x] < rank[y]
  BY <1>1, <1>2, <1>3, Ranked, Zenon
<1> QED
  BY <1>4 DEF rank

(* What the standard operator is inside the instance. *)
LEMMA EditorCardinality == ASSUME NEW S PROVE Editor!Cardinality(S) = Cardinality(S)
BY DEF Editor!Cardinality, Cardinality

(* The nodes at some places are those of the document there. *)
LEMMA NodesAtPlaces ==
    ASSUME NEW S, NEW nodes \in Seq(S), NEW places \in SUBSET DOMAIN nodes
    PROVE  /\ Editor!NodesAt(nodes, places) \in Seq(S)
           /\ Range(Editor!NodesAt(nodes, places)) = {nodes[i] : i \in places}
<1> DEFINE n == Editor!Cardinality(places)
           rank == [i \in places |-> Editor!Cardinality({j \in places : j <= i})]
           spot(k) == CHOOSE i \in places : Editor!Cardinality({j \in places : j <= i}) = k
<1>1. IsFiniteSet(places) /\ places \subseteq Nat
  <2>1. Len(nodes) \in Nat /\ DOMAIN nodes = 1..Len(nodes)
    OBVIOUS
  <2>2. IsFiniteSet(1..Len(nodes))
    BY <2>1, FS_Interval
  <2> QED
    BY <2>1, <2>2, FS_Subset
<1>2. n \in Nat /\ rank \in Bijection(places, 1..n)
  <2>1. n = Cardinality(places)
    BY EditorCardinality
  <2>2. rank = [i \in places |-> Cardinality({j \in places : j <= i})]
    BY EditorCardinality
  <2> QED
    BY <1>1, <2>1, <2>2, Ranks, Zenon
<1>3. \A i \in places : rank[i] = Editor!Cardinality({j \in places : j <= i})
  OBVIOUS
<1>4. /\ rank \in [places -> 1..n] /\ \A k \in 1..n : \E i \in places : rank[i] = k
      /\ \A i, j \in places : rank[i] = rank[j] => i = j
  <2> HIDE DEF rank
  <2> QED
    BY <1>2 DEF Bijection, Injection, Surjection, IsInjective
<1>5. ASSUME NEW k \in 1..n PROVE spot(k) \in places /\ rank[spot(k)] = k
  <2>1. \E i \in places : Editor!Cardinality({j \in places : j <= i}) = k
    BY <1>3, <1>4
  <2>2. spot(k) \in places /\ Editor!Cardinality({j \in places : j <= spot(k)}) = k
    BY <2>1, Zenon
  <2> QED
    BY <2>2, <1>3
<1>6. ASSUME NEW i \in places PROVE rank[i] \in 1..n /\ spot(rank[i]) = i
  BY <1>4, <1>5
<1>7. Editor!NodesAt(nodes, places) = [k \in 1..n |-> nodes[spot(k)]]
  BY DEF Editor!NodesAt
<1> HIDE DEF rank, spot, n
<1>8. Editor!NodesAt(nodes, places) \in [1..n -> S]
  BY <1>5, <1>7
<1>9. Editor!NodesAt(nodes, places) \in Seq(S) /\ DOMAIN Editor!NodesAt(nodes, places) = 1..n
  BY <1>2, <1>8
<1>10. \A i \in places : \E k \in 1..n : Editor!NodesAt(nodes, places)[k] = nodes[i]
  BY <1>6, <1>7
<1>11. \A k \in 1..n : \E i \in places : Editor!NodesAt(nodes, places)[k] = nodes[i]
  BY <1>5, <1>7
<1> QED
  BY <1>9, <1>10, <1>11 DEF Range

(* The least of a set of numbers. *)
LEMMA MinIs ==
    ASSUME NEW S, S \subseteq Nat, S # {}
    PROVE  Editor!Min(S) \in S /\ \A x \in S : Editor!Min(S) <= x
BY Least, Zenon DEF Editor!Min

(* The index of a node is that of a node with the identity. *)
LEMMA IndexOfIs ==
    ASSUME NEW nodes \in Seq(Nodes), NEW id
    PROVE  /\ Editor!IndexOf(nodes, id) \in 0..Len(nodes)
           /\ Editor!IndexOf(nodes, id) # 0 => nodes[Editor!IndexOf(nodes, id)].id = id
<1> DEFINE I == {i \in 1..Len(nodes) : nodes[i].id = id}
<1>1. Editor!IndexOf(nodes, id) = IF I # {} THEN Editor!Min(I) ELSE 0
  BY DEF Editor!SelectInSeq, Editor!IndexOf
<1>2. I \subseteq Nat /\ Len(nodes) \in Nat
  BY DEF Editor!Document
<1>3. CASE I = {}
  BY <1>1, <1>2, <1>3
<1>4. CASE I # {}
  <2>1. Editor!Min(I) \in I
    BY <1>2, <1>4, MinIs, Zenon
  <2> QED
    BY <1>1, <1>2, <1>4, <2>1
<1> QED
  BY <1>3, <1>4

(* A part of a sequence has the elements at its places. *)
LEMMA Part ==
    ASSUME NEW S, NEW s \in Seq(S), NEW m \in 1..Len(s) + 1, NEW n \in 0..Len(s)
    PROVE  /\ SubSeq(s, m, n) \in Seq(S) /\ Len(SubSeq(s, m, n)) = IF m <= n THEN n - m + 1 ELSE 0
           /\ Range(SubSeq(s, m, n)) = {s[j] : j \in m..n}
<1> DEFINE part == SubSeq(s, m, n)
<1>1. Len(s) \in Nat /\ \A j \in m..n : s[j] \in S
  OBVIOUS
<1>2. /\ part \in Seq(S) /\ Len(part) = IF m <= n THEN n - m + 1 ELSE 0
      /\ \A j \in 1..n - m + 1 : part[j] = s[m + j - 1]
  BY <1>1, SubSeqProperties
<1> HIDE DEF part
<1>3. DOMAIN part = 1..n - m + 1
  BY <1>1, <1>2
<1>4. \A j \in m..n : j - m + 1 \in 1..n - m + 1 /\ part[j - m + 1] = s[j]
  BY <1>1, <1>2
<1>5. \A j \in 1..n - m + 1 : m + j - 1 \in m..n
  BY <1>1
<1>6. Range(part) = {s[j] : j \in m..n}
  <2>1. \A e \in Range(part) : \E j \in m..n : e = s[j]
    BY <1>2, <1>3, <1>5, Zenon DEF Range
  <2>2. \A j \in m..n : s[j] \in Range(part)
    BY <1>3, <1>4 DEF Range
  <2> QED
    BY <2>1, <2>2
<1> QED
  BY <1>2, <1>6 DEF part

(* Two sequences joined have the elements of both. *)
LEMMA Joined ==
    ASSUME NEW S, NEW s \in Seq(S), NEW t \in Seq(S)
    PROVE  /\ s \o t \in Seq(S) /\ Len(s \o t) = Len(s) + Len(t)
           /\ Range(s \o t) = Range(s) \cup Range(t)
<1>1. s \o t \in Seq(S) /\ Len(s \o t) = Len(s) + Len(t)
  BY ConcatProperties
<1>2. Range(s \o t) = Range(s) \cup Range(t)
  BY RangeConcatenation, Zenon
<1> QED
  BY <1>1, <1>2

(* A sequence without its last element. *)
LEMMA Shortened ==
    ASSUME NEW S, NEW s \in Seq(S), s # <<>>
    PROVE  /\ Editor!Front(s) \in Seq(S) /\ Len(Editor!Front(s)) = Len(s) - 1
           /\ Len(s) \in Nat \ {0}
           /\ \A i \in 1..Len(s) - 1 : Editor!Front(s)[i] = s[i]
           /\ Editor!Last(s) = s[Len(s)] /\ Editor!Last(s) \in S
<1>1. Len(s) \in Nat \ {0}
  BY EmptySeq
<1>2. \A i \in 1..Len(s) - 1 : s[i] \in S
  BY <1>1
<1>3. Editor!Front(s) \in Seq(S) /\ \A i \in 1..Len(s) - 1 : Editor!Front(s)[i] = s[1 + i - 1]
  <2>1. \A i \in 1..Len(s) - 1 - 1 + 1 : SubSeq(s, 1, Len(s) - 1)[i] = s[1 + i - 1]
    BY <1>1, <1>2, SubSeqProperties
  <2>2. SubSeq(s, 1, Len(s) - 1) \in Seq(S) /\ Len(s) - 1 - 1 + 1 = Len(s) - 1
    BY <1>1, <1>2
  <2> QED
    BY <2>1, <2>2 DEF Editor!Front
<1>4. Editor!Last(s) = s[Len(s)] /\ s[Len(s)] \in S
  BY <1>1 DEF Editor!Last
<1>5. \A i \in 1..Len(s) - 1 : 1 + i - 1 = i
  BY <1>1
<1>6. Len(Editor!Front(s)) = Len(s) - 1
  <2> DEFINE n == Len(s) - 1
  <2>1. n \in Nat /\ \A i \in 1..n : s[i] \in S
    BY <1>1, <1>2
  <2> HIDE DEF n
  <2>2. CASE n = 0
    BY <2>1, <2>2, SubSeqEmpty DEF Editor!Front, n
  <2>3. CASE n # 0
    <3>1. Len(SubSeq(s, 1, n)) = n - 1 + 1
      BY <2>1, <2>3, SubSeqProperties
    <3> QED
      BY <2>1, <3>1 DEF Editor!Front, n
  <2> QED
    BY <2>2, <2>3
<1> QED
  BY <1>1, <1>3, <1>4, <1>5, <1>6

(* An insertion adds the element and loses none. *)
LEMMA Inserted ==
    ASSUME NEW S, NEW s \in Seq(S), NEW i \in 1..Len(s) + 1, NEW e \in S
    PROVE  Editor!InsertAt(s, i, e) \in Seq(S) /\ Range(Editor!InsertAt(s, i, e)) = Range(s) \cup {e}
<1> DEFINE earlier == SubSeq(s, 1, i - 1)
           after == SubSeq(s, i, Len(s))
<1>1. /\ Len(s) \in Nat /\ i \in 1..Len(s) + 1 /\ i - 1 \in 0..Len(s)
      /\ 1 \in 1..Len(s) + 1 /\ Len(s) \in 0..Len(s)
  OBVIOUS
<1>2. earlier \in Seq(S) /\ Range(earlier) = {s[j] : j \in 1..i - 1}
  BY <1>1, Part
<1>3. after \in Seq(S) /\ Range(after) = {s[j] : j \in i..Len(s)}
  BY <1>1, Part
<1>4. <<e>> \in Seq(S) /\ Range(<<e>>) = {e}
  BY DEF Range
<1>5. Editor!InsertAt(s, i, e) = (earlier \o <<e>>) \o after
  BY DEF Editor!InsertAt
<1>6. Range(s) = {s[j] : j \in 1..Len(s)}
  BY RangeEquality
<1> HIDE DEF earlier, after
<1> DEFINE start == earlier \o <<e>>
<1>7. start \in Seq(S) /\ Range(start) = Range(earlier) \cup {e}
  <2> DEFINE one == <<e>>
  <2> HIDE DEF one
  <2>1. one \in Seq(S) /\ Range(one) = {e}
    BY <1>4 DEF one
  <2>2. earlier \o one \in Seq(S) /\ Range(earlier \o one) = Range(earlier) \cup Range(one)
    BY <1>2, <2>1, Joined
  <2> QED
    BY <2>1, <2>2 DEF one
<1> HIDE DEF start
<1>8. start \o after \in Seq(S) /\ Range(start \o after) = Range(start) \cup Range(after)
  <2>1. start \in Seq(S) /\ after \in Seq(S)
    BY <1>3, <1>7
  <2> QED
    BY <2>1, Joined, Zenon
<1>9. 1..Len(s) = (1..i - 1) \cup (i..Len(s))
  BY <1>1
<1> QED
  BY <1>2, <1>3, <1>5, <1>6, <1>7, <1>8, <1>9, Zenon DEF start

(* A removal loses at most the element at the place. *)
LEMMA Removed ==
    ASSUME NEW S, NEW s \in Seq(S), NEW i \in 1..Len(s)
    PROVE  /\ Editor!RemoveAt(s, i) \in Seq(S) /\ Len(Editor!RemoveAt(s, i)) = Len(s) - 1
           /\ Range(Editor!RemoveAt(s, i)) \cup {s[i]} = Range(s)
<1> DEFINE earlier == SubSeq(s, 1, i - 1)
           after == SubSeq(s, i + 1, Len(s))
<1>1. Len(s) \in Nat /\ i + 1 \in 1..Len(s) + 1 /\ i - 1 \in 0..Len(s) /\ 1 \in 1..Len(s) + 1
  OBVIOUS
<1>2. earlier \in Seq(S) /\ Len(earlier) = i - 1 /\ Range(earlier) = {s[j] : j \in 1..i - 1}
  BY <1>1, Part
<1>3. after \in Seq(S) /\ Len(after) = Len(s) - i /\ Range(after) = {s[j] : j \in i + 1..Len(s)}
  BY <1>1, Part
<1>4. Editor!RemoveAt(s, i) = earlier \o after
  BY DEF Editor!RemoveAt
<1>5. Range(s) = {s[j] : j \in 1..Len(s)}
  BY RangeEquality
<1> HIDE DEF earlier, after
<1>6. /\ earlier \o after \in Seq(S) /\ Len(earlier \o after) = Len(earlier) + Len(after)
      /\ Range(earlier \o after) = Range(earlier) \cup Range(after)
  <2>1. earlier \in Seq(S) /\ after \in Seq(S)
    BY <1>2, <1>3
  <2> QED
    BY <2>1, Joined, Zenon
<1>7. 1..Len(s) = (1..i - 1) \cup {i} \cup (i + 1..Len(s))
  BY <1>1
<1> QED
  BY <1>1, <1>2, <1>3, <1>4, <1>5, <1>6, <1>7

-----------------------------------------------------------------------------
(* The items of a document *)

(* A node is a group or an item. *)
LEMMA NodeKinds ==
    ASSUME NEW node \in Nodes
    PROVE  /\ Editor!IsGroup(node) <=> node \in Editor!Group
           /\ ~Editor!IsGroup(node) <=> node \in Editor!SourceItem
BY DEF Nodes, Editor!IsGroup, Editor!Group, Editor!SourceItem

(* The items of a document are those of its nodes. *)
LEMMA ItemIdsAre ==
    ASSUME NEW nodes \in Editor!Document
    PROVE  \A id : id \in Editor!ItemIds(nodes) <=> \E i \in DOMAIN nodes : id \in NodeIds(nodes[i])
<1>1. \A i \in DOMAIN nodes : nodes[i] \in Nodes
  BY DEF Editor!Document, Nodes
<1>2. ASSUME NEW i \in DOMAIN nodes, Editor!IsGroup(nodes[i]), NEW k \in DOMAIN nodes[i].items
      PROVE  k # 0 /\ ~Editor!IsGroup(nodes[i].items[k])
  <2>1. nodes[i].items \in Seq(Editor!SourceItem)
    BY <1>1, <1>2, NodeKinds DEF Editor!Group
  <2>2. k \in 1..Len(nodes[i].items) /\ nodes[i].items[k] \in Editor!SourceItem
    BY <1>2, <2>1
  <2> QED
    BY <2>2, NodeKinds DEF Nodes
<1>3. ASSUME NEW id \in Editor!ItemIds(nodes)
      PROVE  \E i \in DOMAIN nodes : id \in NodeIds(nodes[i])
  <2>1. PICK p \in Editor!Places(nodes) : ~Editor!IsGroup(Editor!At(nodes, p)) /\ id = Editor!At(nodes, p).id
    BY DEF Editor!ItemIds, Editor!ItemPlaces
  <2>2. CASE \E i \in DOMAIN nodes : p = <<i, 0>>
    BY <2>1, <2>2 DEF Editor!At, NodeIds
  <2>3. CASE \E i \in DOMAIN nodes : Editor!IsGroup(nodes[i]) /\ \E k \in DOMAIN nodes[i].items : p = <<i, k>>
    BY <1>2, <2>1, <2>3 DEF Editor!At, NodeIds
  <2> QED
    BY <2>1, <2>2, <2>3 DEF Editor!Places
<1>4. ASSUME NEW i \in DOMAIN nodes, NEW id \in NodeIds(nodes[i])
      PROVE  id \in Editor!ItemIds(nodes)
  <2>1. CASE Editor!IsGroup(nodes[i])
    <3>1. PICK k \in DOMAIN nodes[i].items : id = nodes[i].items[k].id
      BY <2>1 DEF NodeIds
    <3>2. <<i, k>> \in Editor!Places(nodes) /\ Editor!At(nodes, <<i, k>>) = nodes[i].items[k]
      BY <1>2, <2>1 DEF Editor!Places, Editor!At
    <3> QED
      BY <1>2, <2>1, <3>1, <3>2 DEF Editor!ItemIds, Editor!ItemPlaces
  <2>2. CASE ~Editor!IsGroup(nodes[i])
    <3>1. <<i, 0>> \in Editor!Places(nodes) /\ Editor!At(nodes, <<i, 0>>) = nodes[i]
      BY DEF Editor!Places, Editor!At
    <3> QED
      BY <2>2, <3>1 DEF Editor!ItemIds, Editor!ItemPlaces, NodeIds
  <2> QED
    BY <2>1, <2>2
<1> QED
  BY <1>3, <1>4

(* The same, for the nodes wherever they are. *)
LEMMA ItemIdsOfNodes ==
    ASSUME NEW nodes \in Editor!Document, NEW id
    PROVE  id \in Editor!ItemIds(nodes) <=> \E node \in Range(nodes) : id \in NodeIds(node)
BY ItemIdsAre DEF Range

(* Documents whose nodes have the same items in the same places. *)
LEMMA SameItems ==
    ASSUME NEW nodes \in Editor!Document, NEW new \in Editor!Document, DOMAIN new = DOMAIN nodes,
           \A i \in DOMAIN nodes : NodeIds(new[i]) = NodeIds(nodes[i])
    PROVE  Editor!ItemIds(new) = Editor!ItemIds(nodes)
BY ItemIdsAre

(* New positions change no identity. *)
LEMMA Renumbered ==
    ASSUME NEW nodes \in Editor!Document
    PROVE  Editor!Renumber(nodes) \in Editor!Document /\ Editor!ItemIds(Editor!Renumber(nodes)) = Editor!ItemIds(nodes)
<1>1. ASSUME NEW node \in Nodes, NEW n \in Int
      PROVE  [node EXCEPT !.state = n] \in Nodes /\ NodeIds([node EXCEPT !.state = n]) = NodeIds(node)
  BY DEF Nodes, Editor!SourceItem, Editor!Group, NodeIds, Editor!IsGroup
<1>2. DOMAIN nodes = 1..Len(nodes) /\ Len(nodes) \in Nat /\ \A i \in DOMAIN nodes : nodes[i] \in Nodes
  BY DEF Editor!Document, Nodes
<1>3. Editor!Renumber(nodes) \in [1..Len(nodes) -> Nodes]
  BY <1>1, <1>2 DEF Editor!Renumber
<1>4. Editor!Renumber(nodes) \in Editor!Document
  BY <1>2, <1>3 DEF Editor!Document, Nodes
<1>5. \A i \in DOMAIN nodes : NodeIds(Editor!Renumber(nodes)[i]) = NodeIds(nodes[i])
  BY <1>1, <1>2 DEF Editor!Renumber
<1> QED
  BY <1>2, <1>3, <1>4, <1>5, SameItems

-----------------------------------------------------------------------------
(* The edits *)

(* What an edit does that succeeds: the document it makes is complete, and *)
(* is entered in the history.                                              *)
Edited ==
    /\ Complete(document')
    /\ undo' = Append(undo, [before |-> document, after |-> document'])
    /\ redo' = <<>>

(* An edit that keeps the items, and is accepted, is entered in the        *)
(* history.                                                                *)
LEMMA Transacted ==
    ASSUME EditorInstance, NEW nodes \in Editor!Document, Editor!ItemIds(nodes) = Items, Editor!Transact(nodes, TRUE)
    PROVE  Edited
BY DEF EditorInstance, Editor!Transact, Edited, Complete

(* Edits that must be refused are not tried. *)
LEMMA NothingRefused ==
    ASSUME EditorInstance, NEW nodes
    PROVE  ~Editor!Transact(nodes, FALSE)
BY DEF EditorInstance, Editor!Transact

(* set_item_state changes the state of one item. *)
LEMMA StateSet ==
    ASSUME EditorInstance, Complete(document), NEW id, NEW state \in States,
           Editor!SetItemState(id, state)
    PROVE  Edited
<1> DEFINE found == {p \in Editor!ItemPlaces(document) : Editor!At(document, p).id = id}
           Lowest(p) == \A q \in found : p[1] < q[1] \/ (p[1] = q[1] /\ p[2] <= q[2])
           first == CHOOSE p \in found : Lowest(p)
           nodes == IF first[2] = 0
                    THEN [document EXCEPT ![first[1]].state = state]
                    ELSE [document EXCEPT ![first[1]].items[first[2]].state = state]
<1>1. found # {} /\ Editor!Transact(nodes, TRUE)
  BY NothingRefused, Zenon DEF Editor!SetItemState
<1>2. /\ DOMAIN document = 1..Len(document) /\ Len(document) \in Nat
      /\ \A i \in DOMAIN document : document[i] \in Nodes
      /\ state \in Int
  BY DEF Complete, Editor!Document, Nodes, EditorInstance
<1>3. ASSUME NEW i \in DOMAIN document, Editor!IsGroup(document[i])
      PROVE  /\ document[i] \in Editor!Group /\ document[i].items \in Seq(Editor!SourceItem)
             /\ DOMAIN document[i].items = 1..Len(document[i].items)
             /\ Len(document[i].items) \in Nat
  BY <1>2, <1>3, NodeKinds DEF Editor!Group
<1>4. \A p \in found :
         /\ p = <<p[1], p[2]>> /\ p[1] \in DOMAIN document /\ p[2] \in Nat
         /\ p[2] = 0 \/ (Editor!IsGroup(document[p[1]]) /\ p[2] \in DOMAIN document[p[1]].items)
  BY <1>3 DEF Editor!ItemPlaces, Editor!Places
<1>5. first \in found
  <2> HIDE DEF found
  <2> DEFINE rows == {p[1] : p \in found}
             row == Editor!Min(rows)
             columns == {p[2] : p \in {q \in found : q[1] = row}}
             column == Editor!Min(columns)
  <2>1. rows \subseteq Nat /\ rows # {}
    <3>1. \A p \in found : p[1] \in Nat
      BY <1>2, <1>4
    <3> QED
      BY <1>1, <3>1, Zenon
  <2>2. row \in rows /\ \A x \in rows : row <= x
    <3> HIDE DEF rows
    <3> QED
      BY <2>1, MinIs, Zenon
  <2>3. columns \subseteq Nat /\ columns # {}
    BY <1>4, <2>2, Zenon
  <2>4. column \in columns /\ \A x \in columns : column <= x
    <3> HIDE DEF columns
    <3> QED
      BY <2>3, MinIs, Zenon
  <2>5. PICK p \in found : p[1] = row /\ p[2] = column
    BY <2>4, Zenon
  <2>6. ASSUME NEW q \in found
        PROVE  p[1] < q[1] \/ (p[1] = q[1] /\ p[2] <= q[2])
    <3>1. q[1] \in rows /\ (q[1] = row => q[2] \in columns)
      BY Zenon
    <3>2. row <= q[1] /\ (q[1] = row => column <= q[2]) /\ row \in Nat /\ q[1] \in Nat
      BY <2>1, <2>2, <2>4, <3>1, Zenon
    <3> HIDE DEF row, column
    <3> QED
      BY <2>5, <3>2
  <2>7. Lowest(p)
    BY <2>6
  <2> HIDE DEF Lowest
  <2> QED
    BY <2>5, <2>7
<1> HIDE DEF first, Lowest
<1>6. CASE first[2] = 0
  <2> DEFINE i == first[1]
             new == [document EXCEPT ![i].state = state]
  <2>1. i \in DOMAIN document
    BY <1>4, <1>5
  <2>2. document[i] \in Nodes
    BY <1>2, <2>1
  <2>3. /\ [document[i] EXCEPT !.state = state] \in Nodes
        /\ NodeIds([document[i] EXCEPT !.state = state]) = NodeIds(document[i])
    BY <1>2, <2>2 DEF Nodes, Editor!SourceItem, Editor!Group, NodeIds, Editor!IsGroup
  <2>4. new \in Editor!Document /\ Editor!ItemIds(new) = Editor!ItemIds(document)
    <3> HIDE DEF i
    <3>1. DOMAIN new = DOMAIN document /\ \A j \in DOMAIN document : new[j] \in Nodes
      BY <1>2, <2>1, <2>3
    <3>2. new \in Editor!Document
      <4>1. new \in [1..Len(document) -> Nodes]
        BY <1>2, <3>1, Zenon
      <4> QED
        BY <1>2, <4>1 DEF Editor!Document, Nodes
    <3>3. \A j \in DOMAIN document : NodeIds(new[j]) = NodeIds(document[j])
      BY <1>2, <2>1, <2>3
    <3> QED
      BY <3>1, <3>2, <3>3, SameItems DEF Complete
  <2> QED
    BY <1>1, <1>6, <2>4, Transacted, Zenon DEF Complete
<1>7. CASE first[2] # 0
  <2> DEFINE i == first[1]
             k == first[2]
             node == document[i]
             items == [node.items EXCEPT ![k].state = state]
             new == [document EXCEPT ![i].items[k].state = state]
  <2>1. i \in DOMAIN document /\ Editor!IsGroup(node) /\ k \in DOMAIN node.items
    BY <1>4, <1>5, <1>7
  <2>2. node \in Editor!Group /\ node.items \in Seq(Editor!SourceItem)
    BY <1>3, <2>1
  <2>3. /\ items \in Seq(Editor!SourceItem) /\ DOMAIN items = DOMAIN node.items
        /\ \A l \in DOMAIN items : items[l].id = node.items[l].id
    <3> HIDE DEF k, node
    <3>1. node.items[k] \in Editor!SourceItem
      BY <2>1, <2>2
    <3>2. /\ [node.items[k] EXCEPT !.state = state] \in Editor!SourceItem
          /\ [node.items[k] EXCEPT !.state = state].id = node.items[k].id
      BY <1>2, <3>1 DEF Editor!SourceItem
    <3> QED
      BY <2>1, <2>2, <3>2
  <2>4. new = [document EXCEPT ![i] = [document[i] EXCEPT !.items = items]]
    BY <2>1
  <2>5. /\ [node EXCEPT !.items = items] \in Nodes
        /\ NodeIds([node EXCEPT !.items = items]) = NodeIds(node)
    <3> HIDE DEF items, node
    <3> QED
      BY <2>1, <2>2, <2>3, Zenon DEF Nodes, Editor!Group, NodeIds, Editor!IsGroup
  <2>6. new \in Editor!Document /\ Editor!ItemIds(new) = Editor!ItemIds(document)
    <3>1. DOMAIN new = DOMAIN document /\ new[i] = [node EXCEPT !.items = items]
          /\ \A j \in DOMAIN document : j # i => new[j] = document[j]
      BY <2>1, <2>4
    <3> HIDE DEF i, new, items
    <3>2. new \in Editor!Document
      <4>1. \A j \in DOMAIN document : new[j] \in Nodes
        BY <1>2, <2>1, <2>5, <3>1
      <4>2. new \in [1..Len(document) -> Nodes]
        BY <1>2, <2>4, <3>1, <4>1, Zenon
      <4> QED
        BY <1>2, <4>2 DEF Editor!Document, Nodes
    <3>3. \A j \in DOMAIN document : NodeIds(new[j]) = NodeIds(document[j])
      BY <2>1, <2>5, <3>1
    <3> QED
      BY <3>1, <3>2, <3>3, SameItems DEF Complete
  <2> QED
    BY <1>1, <1>7, <2>6, Transacted, Zenon DEF Complete
<1> QED
  BY <1>6, <1>7

(* move_top_level_item takes a node out and puts it back at another place. *)
LEMMA Moved ==
    ASSUME EditorInstance, Complete(document), NEW id, NEW new \in Nat \ {0},
           Editor!MoveTopLevelItem(id, new)
    PROVE  Edited
<1> DEFINE old == Editor!IndexOf(document, id)
           without == Editor!RemoveAt(document, old)
           nodes == Editor!InsertAt(without, new, document[old])
<1>1. document \in Seq(Nodes) /\ Len(document) \in Nat
  BY DEF Complete, Editor!Document, Nodes
<1>2. new <= Len(document) /\ old # 0 /\ Editor!Transact(Editor!Renumber(nodes), TRUE)
  <2>1. ~Editor!Transact(document, FALSE)
    BY NothingRefused, Zenon
  <2>2. ~(new > Len(document)) /\ old # 0 /\ Editor!Transact(Editor!Renumber(nodes), TRUE)
    BY <2>1, Zenon DEF Editor!MoveTopLevelItem
  <2>3. new <= Len(document)
    BY <1>1, <2>2
  <2> QED
    BY <2>2, <2>3, Zenon
<1>3. old \in 1..Len(document)
  BY <1>1, <1>2, IndexOfIs
<1> HIDE DEF old
<1>4. document[old] \in Nodes
  BY <1>1, <1>3
<1>5. /\ without \in Seq(Nodes) /\ new \in 1..Len(without) + 1
      /\ Range(without) \cup {document[old]} = Range(document)
  BY <1>1, <1>2, <1>3, Removed
<1> HIDE DEF without
<1>6. nodes \in Editor!Document /\ Range(nodes) = Range(document)
  <2>1. nodes \in Seq(Nodes) /\ Range(nodes) = Range(without) \cup {document[old]}
    BY <1>4, <1>5, Inserted
  <2> QED
    BY <1>5, <2>1 DEF Editor!Document, Nodes
<1> HIDE DEF nodes
<1>7. Editor!ItemIds(nodes) = Items
  BY <1>6, ItemIdsOfNodes DEF Complete
<1> QED
  BY <1>2, <1>6, <1>7, Renumbered, Transacted, Zenon

(* replace_items_with_group puts the items it takes into the group. *)
LEMMA Grouped ==
    ASSUME EditorInstance, Complete(document), NEW selected, NEW group \in Editor!Group,
           Editor!ReplaceItemsWithGroup(selected, group)
    PROVE  Edited
<1> DEFINE chosen == {i \in DOMAIN document : document[i].id \in selected}
           rest == DOMAIN document \ chosen
           others == Editor!NodesAt(document, rest)
           spot == Editor!SelectInSeq(document, LAMBDA node : node.id \in selected)
           index == IF spot <= Len(others) THEN spot ELSE Len(others) + 1
           nodes == Editor!InsertAt(others, index, group)
<1>1. /\ selected # {} /\ selected = {group.items[k].id : k \in DOMAIN group.items}
      /\ \A i \in chosen : ~Editor!IsGroup(document[i])
      /\ {document[i].id : i \in chosen} = selected
      /\ Editor!Transact(Editor!Renumber(nodes), TRUE)
  BY NothingRefused, Zenon DEF Editor!ReplaceItemsWithGroup
<1>2. /\ document \in Seq(Nodes) /\ Len(document) \in Nat /\ group \in Nodes
      /\ DOMAIN document = 1..Len(document)
  BY DEF Complete, Editor!Document, Nodes
<1>3. others \in Seq(Nodes) /\ Range(others) = {document[i] : i \in rest}
  BY <1>2, NodesAtPlaces
<1>4. spot \in Nat \ {0}
  <2>1. {i \in 1..Len(document) : document[i].id \in selected} = chosen /\ chosen \subseteq Nat
    BY <1>2
  <2>2. chosen # {}
    BY <1>1
  <2>3. spot = IF chosen # {} THEN Editor!Min(chosen) ELSE 0
    BY <2>1, Zenon DEF Editor!SelectInSeq
  <2>4. Editor!Min(chosen) \in chosen
    <3> HIDE DEF chosen
    <3> QED
      BY <2>1, <2>2, MinIs
  <2> QED
    BY <1>2, <2>2, <2>3, <2>4
<1> HIDE DEF spot, others
<1>5. index \in 1..Len(others) + 1
  BY <1>3, <1>4
<1> HIDE DEF index
<1>6. nodes \in Editor!Document /\ Range(nodes) = {document[i] : i \in rest} \cup {group}
  BY <1>2, <1>3, <1>5, Inserted DEF Editor!Document, Nodes
<1>7. NodeIds(group) = selected
  BY <1>1, NodeKinds DEF NodeIds, Nodes
<1>8. \A i \in chosen : NodeIds(document[i]) = {document[i].id}
  BY <1>1 DEF NodeIds
<1>9. Editor!ItemIds(nodes) = Editor!ItemIds(document)
  <2> SUFFICES ASSUME NEW x PROVE x \in Editor!ItemIds(nodes) <=> x \in Editor!ItemIds(document)
    BY Zenon
  <2>1. x \in Editor!ItemIds(nodes) <=> (\E i \in rest : x \in NodeIds(document[i])) \/ x \in selected
    <3> HIDE DEF nodes, rest
    <3> QED
      BY <1>6, <1>7, ItemIdsOfNodes
  <2>2. x \in Editor!ItemIds(document) <=> \E i \in rest \cup chosen : x \in NodeIds(document[i])
    <3>1. DOMAIN document = rest \cup chosen
      BY Zenon
    <3> HIDE DEF rest, chosen
    <3> QED
      BY <3>1, ItemIdsAre DEF Complete
  <2>3. x \in selected <=> \E i \in chosen : x \in NodeIds(document[i])
    <3> HIDE DEF chosen
    <3> QED
      BY <1>1, <1>8, Zenon
  <2> HIDE DEF chosen, rest
  <2> QED
    BY <2>1, <2>2, <2>3
<1> HIDE DEF nodes
<1> QED
  BY <1>1, <1>6, <1>9, Renumbered, Transacted, Zenon DEF Complete

(* ungroup_with_replacements takes replacements with the identities of the *)
(* group's items.                                                          *)
LEMMA Ungrouped ==
    ASSUME EditorInstance, Complete(document), NEW id, NEW replacements \in Seq(Editor!SourceItem),
           Editor!UngroupWithReplacements(id, replacements)
    PROVE  Edited
<1> DEFINE index == Editor!IndexOf(document, id)
           Pairs(items) == {<<items[k].id, items[k].source>> : k \in DOMAIN items}
           items == document[index].items
           earlier == SubSeq(document, 1, index - 1)
           after == SubSeq(document, index + 1, Len(document))
           nodes == (earlier \o replacements) \o after
<1>1. /\ index # 0 /\ Editor!IsGroup(document[index]) /\ Pairs(items) = Pairs(replacements)
      /\ Editor!Transact(Editor!Renumber(nodes), TRUE)
  BY NothingRefused, Zenon DEF Editor!UngroupWithReplacements
<1>2. document \in Seq(Nodes) /\ Len(document) \in Nat /\ DOMAIN document = 1..Len(document)
  BY DEF Complete, Editor!Document, Nodes
<1>3. /\ index \in 1..Len(document) /\ index - 1 \in 0..Len(document)
      /\ index + 1 \in 1..Len(document) + 1 /\ 1 \in 1..Len(document) + 1
      /\ Len(document) \in 0..Len(document)
  <2>1. index \in 1..Len(document)
    BY <1>1, <1>2, IndexOfIs
  <2> HIDE DEF index
  <2> QED
    BY <1>2, <2>1
<1>4. replacements \in Seq(Nodes)
  BY DEF Nodes
<1>5. Range(replacements) = {replacements[k] : k \in DOMAIN replacements}
  BY DEF Range
<1>6. ASSUME NEW x
      PROVE  x \in NodeIds(document[index]) <=> \E node \in Range(replacements) : x \in NodeIds(node)
  <2>1. \A k \in DOMAIN replacements : NodeIds(replacements[k]) = {replacements[k].id}
    BY <1>4, NodeKinds DEF NodeIds, Nodes
  <2>2. {replacements[k].id : k \in DOMAIN replacements} = {items[k].id : k \in DOMAIN items}
    <3>1. \A k \in DOMAIN items : \E l \in DOMAIN replacements :
             <<items[k].id, items[k].source>> = <<replacements[l].id, replacements[l].source>>
      BY <1>1, Zenon
    <3>2. \A k \in DOMAIN replacements : \E l \in DOMAIN items :
             <<items[l].id, items[l].source>> = <<replacements[k].id, replacements[k].source>>
      BY <1>1, Zenon
    <3> HIDE DEF items
    <3> QED
      BY <3>1, <3>2
  <2>3. NodeIds(document[index]) = {items[k].id : k \in DOMAIN items}
    BY <1>1 DEF NodeIds
  <2>4. x \in NodeIds(document[index]) <=> \E k \in DOMAIN replacements : x = replacements[k].id
    BY <2>2, <2>3, Zenon
  <2> QED
    BY <1>5, <2>1, <2>4, Zenon
<1> HIDE DEF index
<1>7. /\ earlier \in Seq(Nodes) /\ Len(earlier) = IF 1 <= index - 1 THEN index - 1 - 1 + 1 ELSE 0
      /\ Range(earlier) = {document[j] : j \in 1..index - 1}
  BY <1>2, <1>3, Part
<1>8. /\ after \in Seq(Nodes)
      /\ Len(after) = IF index + 1 <= Len(document) THEN Len(document) - (index + 1) + 1 ELSE 0
      /\ Range(after) = {document[j] : j \in index + 1..Len(document)}
  BY <1>2, <1>3, Part
<1> HIDE DEF earlier, after
<1> DEFINE start == earlier \o replacements
<1>9. start \in Seq(Nodes) /\ Range(start) = Range(earlier) \cup Range(replacements)
  BY <1>4, <1>7, Joined
<1>10. /\ nodes \in Seq(Nodes)
       /\ Range(nodes) = Range(earlier) \cup Range(replacements) \cup Range(after)
  <2> HIDE DEF start
  <2>1. start \o after \in Seq(Nodes) /\ Range(start \o after) = Range(start) \cup Range(after)
    BY <1>8, <1>9, Joined
  <2> QED
    BY <1>9, <2>1 DEF start
<1> HIDE DEF nodes
<1>11. Range(document) = Range(earlier) \cup {document[index]} \cup Range(after)
  <2>1. 1..Len(document) = (1..index - 1) \cup {index} \cup (index + 1..Len(document))
    BY <1>2, <1>3
  <2> QED
    BY <1>2, <1>7, <1>8, <2>1, Zenon DEF Range
<1>12. Editor!ItemIds(nodes) = Editor!ItemIds(document)
  <2>1. nodes \in Editor!Document
    BY <1>10 DEF Editor!Document, Nodes
  <2> SUFFICES ASSUME NEW x PROVE x \in Editor!ItemIds(nodes) <=> x \in Editor!ItemIds(document)
    BY Zenon
  <2>2. x \in Editor!ItemIds(nodes) <=> \E node \in Range(nodes) : x \in NodeIds(node)
    BY <2>1, ItemIdsOfNodes
  <2>3. x \in Editor!ItemIds(document) <=> \E node \in Range(document) : x \in NodeIds(node)
    BY ItemIdsOfNodes DEF Complete
  <2> QED
    BY <1>6, <1>10, <1>11, <2>2, <2>3, Zenon
<1> QED
  BY <1>1, <1>10, <1>12, Renumbered, Transacted, Zenon DEF Editor!Document, Nodes, Complete

-----------------------------------------------------------------------------
(* The history *)

(* A step of the editor is an edit, or takes the newest entry of a history *)
(* to the other one.                                                       *)
LEMMA Steps ==
    ASSUME EditorInstance, Complete(document), Editor!Next
    PROVE  Edited \/ Editor!UndoEdit \/ Editor!RedoEdit
<1>1. ASSUME NEW id \in Items, NEW state \in States, Editor!SetItemState(id, state)
      PROVE  Edited
  BY <1>1, StateSet
<1>2. ASSUME NEW id \in Items \cup Groups, NEW new \in 1..Editor!Cardinality(Items), Editor!MoveTopLevelItem(id, new)
      PROVE  Edited
  <2>1. new \in Nat \ {0}
    BY FS_CardinalityType, EditorCardinality DEF EditorInstance
  <2> QED
    BY <1>2, <2>1, Moved
<1>3. ASSUME NEW given \in Editor!Lists
      PROVE  given \in Seq(Editor!SourceItem)
  <2>1. Editor!Cardinality(Items) \in Nat
    BY FS_CardinalityType, EditorCardinality DEF EditorInstance
  <2>2. PICK n \in 0..Editor!Cardinality(Items) :
           given \in [1..n -> [id : Items, source : Sources \cup {Unknown}, state : {0}]]
    BY DEF Editor!Lists, Editor!SeqOf
  <2>3. given \in [1..n -> Editor!SourceItem] /\ n \in Nat
    BY <2>1, <2>2 DEF Editor!SourceItem
  <2> QED
    BY <2>3
<1>4. ASSUME NEW selected \in SUBSET Items, NEW id \in Items \cup Groups, NEW items \in Editor!Lists,
             Editor!ReplaceItemsWithGroup(selected, [id |-> id, items |-> items, state |-> 0])
      PROVE  Edited
  <2>1. [id |-> id, items |-> items, state |-> 0] \in Editor!Group
    BY <1>3 DEF Editor!Group
  <2> QED
    BY <1>4, <2>1, Grouped
<1>5. ASSUME NEW id \in Items \cup Groups, NEW items \in Editor!Lists, Editor!UngroupWithReplacements(id, items)
      PROVE  Edited
  BY <1>3, <1>5, Ungrouped
<1> QED
  BY <1>1, <1>2, <1>4, <1>5, Zenon DEF Editor!Next

(* An entry that starts at the document can be appended to the undo        *)
(* history.                                                                *)
LEMMA Extended ==
    ASSUME NEW s \in Seq(Editor!Entry), NEW nodes, LeadsTo(s, nodes),
           NEW e \in Editor!Entry, Complete(e.before), Complete(e.after), e.before = nodes
    PROVE  LeadsTo(Append(s, e), e.after)
<1> DEFINE t == Append(s, e)
           n == Len(s)
<1>1. /\ t \in Seq(Editor!Entry) /\ Len(t) = n + 1 /\ n \in Nat
      /\ \A i \in 1..n : t[i] = s[i]
      /\ t[n + 1] = e
  BY AppendProperties
<1> HIDE DEF t, n
<1> SUFFICES ASSUME NEW i \in 1..n + 1
             PROVE  /\ Complete(t[i].before) /\ Complete(t[i].after)
                    /\ t[i].after = IF i = n + 1 THEN e.after ELSE t[i + 1].before
  BY <1>1 DEF LeadsTo, t
<1>2. CASE i = n + 1
  BY <1>1, <1>2
<1>3. CASE i # n + 1
  <2>1. i \in 1..n /\ t[i] = s[i]
    BY <1>1, <1>3
  <2>2. t[i + 1].before = IF i = n THEN nodes ELSE s[i + 1].before
    BY <1>1, <2>1
  <2>3. /\ Complete(s[i].before) /\ Complete(s[i].after)
        /\ s[i].after = IF i = n THEN nodes ELSE s[i + 1].before
    BY <2>1 DEF LeadsTo, n
  <2> QED
    BY <1>3, <2>1, <2>2, <2>3
<1> QED
  BY <1>2, <1>3

(* An entry that ends at the document can be appended to the redo history. *)
LEMMA Prepended ==
    ASSUME NEW s \in Seq(Editor!Entry), NEW nodes, LeadsFrom(s, nodes),
           NEW e \in Editor!Entry, Complete(e.before), Complete(e.after), e.after = nodes
    PROVE  LeadsFrom(Append(s, e), e.before)
<1> DEFINE t == Append(s, e)
           n == Len(s)
<1>1. /\ t \in Seq(Editor!Entry) /\ Len(t) = n + 1 /\ n \in Nat
      /\ \A i \in 1..n : t[i] = s[i]
      /\ t[n + 1] = e
  BY AppendProperties
<1> HIDE DEF t, n
<1> SUFFICES ASSUME NEW i \in 1..n + 1
             PROVE  /\ Complete(t[i].before) /\ Complete(t[i].after)
                    /\ t[i].before = IF i = n + 1 THEN e.before ELSE t[i + 1].after
  BY <1>1 DEF LeadsFrom, t
<1>2. CASE i = n + 1
  BY <1>1, <1>2
<1>3. CASE i # n + 1
  <2>1. i \in 1..n /\ t[i] = s[i]
    BY <1>1, <1>3
  <2>2. t[i + 1].after = IF i = n THEN nodes ELSE s[i + 1].after
    BY <1>1, <2>1
  <2>3. /\ Complete(s[i].before) /\ Complete(s[i].after)
        /\ s[i].before = IF i = n THEN nodes ELSE s[i + 1].after
    BY <2>1 DEF LeadsFrom, n
  <2> QED
    BY <1>3, <2>1, <2>2, <2>3
<1> QED
  BY <1>2, <1>3

(* The newest entry of the undo history ends at the document. *)
LEMMA NewestUndo ==
    ASSUME NEW s \in Seq(Editor!Entry), s # <<>>, NEW nodes, LeadsTo(s, nodes)
    PROVE  /\ Complete(Editor!Last(s).before) /\ Complete(Editor!Last(s).after)
           /\ Editor!Last(s).after = nodes
           /\ LeadsTo(Editor!Front(s), Editor!Last(s).before)
<1> DEFINE t == Editor!Front(s)
           n == Len(s)
<1>1. /\ t \in Seq(Editor!Entry) /\ Len(t) = n - 1 /\ n \in Nat \ {0}
      /\ \A i \in 1..n - 1 : t[i] = s[i]
      /\ Editor!Last(s) = s[n]
  BY Shortened, Zenon
<1>2. \A i \in 1..n : /\ Complete(s[i].before) /\ Complete(s[i].after)
                     /\ s[i].after = IF i = n THEN nodes ELSE s[i + 1].before
  BY DEF LeadsTo
<1> HIDE DEF t, n
<1>3. /\ Complete(Editor!Last(s).before) /\ Complete(Editor!Last(s).after)
      /\ Editor!Last(s).after = nodes
  BY <1>1, <1>2
<1>4. ASSUME NEW i \in 1..n - 1
      PROVE  /\ Complete(t[i].before) /\ Complete(t[i].after)
             /\ t[i].after = IF i = n - 1 THEN Editor!Last(s).before ELSE t[i + 1].before
  <2>1. i \in 1..n /\ i # n /\ t[i] = s[i] /\ s[i].after = s[i + 1].before
    BY <1>1, <1>2
  <2>2. IF i = n - 1 THEN s[i + 1] = Editor!Last(s) ELSE t[i + 1] = s[i + 1]
    BY <1>1
  <2> QED
    BY <1>2, <2>1, <2>2
<1>5. LeadsTo(t, Editor!Last(s).before)
  BY <1>1, <1>4 DEF LeadsTo
<1> QED
  BY <1>3, <1>5 DEF t

(* The newest entry of the redo history starts at the document. *)
LEMMA NewestRedo ==
    ASSUME NEW s \in Seq(Editor!Entry), s # <<>>, NEW nodes, LeadsFrom(s, nodes)
    PROVE  /\ Complete(Editor!Last(s).before) /\ Complete(Editor!Last(s).after)
           /\ Editor!Last(s).before = nodes
           /\ LeadsFrom(Editor!Front(s), Editor!Last(s).after)
<1> DEFINE t == Editor!Front(s)
           n == Len(s)
<1>1. /\ t \in Seq(Editor!Entry) /\ Len(t) = n - 1 /\ n \in Nat \ {0}
      /\ \A i \in 1..n - 1 : t[i] = s[i]
      /\ Editor!Last(s) = s[n]
  BY Shortened, Zenon
<1>2. \A i \in 1..n : /\ Complete(s[i].before) /\ Complete(s[i].after)
                     /\ s[i].before = IF i = n THEN nodes ELSE s[i + 1].after
  BY DEF LeadsFrom
<1> HIDE DEF t, n
<1>3. /\ Complete(Editor!Last(s).before) /\ Complete(Editor!Last(s).after)
      /\ Editor!Last(s).before = nodes
  BY <1>1, <1>2
<1>4. ASSUME NEW i \in 1..n - 1
      PROVE  /\ Complete(t[i].before) /\ Complete(t[i].after)
             /\ t[i].before = IF i = n - 1 THEN Editor!Last(s).after ELSE t[i + 1].after
  <2>1. i \in 1..n /\ i # n /\ t[i] = s[i] /\ s[i].before = s[i + 1].after
    BY <1>1, <1>2
  <2>2. IF i = n - 1 THEN s[i + 1] = Editor!Last(s) ELSE t[i + 1] = s[i + 1]
    BY <1>1
  <2> QED
    BY <1>2, <2>1, <2>2
<1>5. LeadsFrom(t, Editor!Last(s).after)
  BY <1>1, <1>4 DEF LeadsFrom
<1> QED
  BY <1>3, <1>5 DEF t

(* The invariant is inductive: an edit, an undo and a redo keep both       *)
(* chains.                                                                 *)
LEMMA EditorStep ==
    ASSUME EditorInstance, EditorInv, [Editor!Next]_Editor!vars
    PROVE  EditorInv'
<1>1. /\ undo \in Seq(Editor!Entry) /\ redo \in Seq(Editor!Entry) /\ Complete(document)
      /\ LeadsTo(undo, document) /\ LeadsFrom(redo, document)
  BY DEF EditorInv
<1>2. ASSUME undo' \in Seq(Editor!Entry), redo' \in Seq(Editor!Entry), Complete(document'),
             LeadsTo(undo', document'), LeadsFrom(redo', document')
      PROVE  EditorInv'
  BY <1>2 DEF EditorInv, LeadsTo, LeadsFrom, Complete, Editor!Entry
<1>3. CASE Edited
  <2> DEFINE entry == [before |-> document, after |-> document']
  <2>1. entry \in Editor!Entry /\ Complete(document')
    BY <1>1, <1>3 DEF Edited, Complete, Editor!Entry
  <2>2. undo' = Append(undo, entry) /\ redo' = <<>>
    BY <1>3 DEF Edited
  <2>3. LeadsTo(Append(undo, entry), document')
    BY <1>1, <2>1, Extended
  <2>4. LeadsFrom(redo', document')
    BY <2>2 DEF LeadsFrom
  <2> QED
    BY <1>1, <1>2, <2>1, <2>2, <2>3, <2>4
<1>4. CASE Editor!UndoEdit
  <2>1. /\ undo' = Editor!Front(undo) /\ redo' = Append(redo, Editor!Last(undo))
        /\ document' = Editor!Last(undo).before
        /\ undo # <<>>
    BY <1>4 DEF Editor!UndoEdit
  <2>2. Editor!Last(undo) \in Editor!Entry /\ undo' \in Seq(Editor!Entry)
    BY <1>1, <2>1, Shortened
  <2>3. /\ Complete(Editor!Last(undo).before) /\ Complete(Editor!Last(undo).after)
        /\ Editor!Last(undo).after = document
        /\ LeadsTo(Editor!Front(undo), Editor!Last(undo).before)
    BY <1>1, <2>1, NewestUndo
  <2>4. LeadsFrom(Append(redo, Editor!Last(undo)), Editor!Last(undo).before)
    BY <1>1, <2>2, <2>3, Prepended
  <2> QED
    BY <1>1, <1>2, <2>1, <2>2, <2>3, <2>4
<1>5. CASE Editor!RedoEdit
  <2>1. /\ redo' = Editor!Front(redo) /\ undo' = Append(undo, Editor!Last(redo))
        /\ document' = Editor!Last(redo).after
        /\ redo # <<>>
    BY <1>5 DEF Editor!RedoEdit
  <2>2. Editor!Last(redo) \in Editor!Entry /\ redo' \in Seq(Editor!Entry)
    BY <1>1, <2>1, Shortened
  <2>3. /\ Complete(Editor!Last(redo).before) /\ Complete(Editor!Last(redo).after)
        /\ Editor!Last(redo).before = document
        /\ LeadsFrom(Editor!Front(redo), Editor!Last(redo).after)
    BY <1>1, <2>1, NewestRedo
  <2>4. LeadsTo(Append(undo, Editor!Last(redo)), Editor!Last(redo).after)
    BY <1>1, <2>2, <2>3, Extended
  <2> QED
    BY <1>1, <1>2, <2>1, <2>2, <2>3, <2>4
<1>6. CASE UNCHANGED Editor!vars
  BY <1>1, <1>2, <1>6 DEF Editor!vars
<1> QED
  BY <1>1, <1>3, <1>4, <1>5, <1>6, Steps

(* The invariant holds at the start: a scene with every item once. *)
LEMMA EditorFirst ==
    ASSUME EditorInstance, Editor!Init
    PROVE  EditorInv
<1> DEFINE n == Cardinality(Items)
           id == [i \in 1..n |-> document[i].id]
<1>1. n \in Nat
  BY FS_CardinalityType DEF EditorInstance
<1>2. /\ document \in [1..n -> [id : Items, source : Sources, state : 0..(n - 1)]]
      /\ Editor!Valid(document)
  <2>1. n = Editor!Cardinality(Items)
    BY EditorCardinality
  <2> QED
    BY <2>1 DEF Editor!Init, Editor!Starts
<1> HIDE DEF n
<1>3. document \in [1..n -> Editor!SourceItem]
  BY <1>1, <1>2 DEF Editor!SourceItem
<1>4. document \in Editor!Document /\ DOMAIN document = 1..n /\ \A i \in 1..n : document[i] \in Editor!SourceItem
  BY <1>1, <1>3 DEF Editor!Document
<1>5. \A i \in 1..n : ~Editor!IsGroup(document[i]) /\ NodeIds(document[i]) = {document[i].id}
  BY <1>4, NodeKinds DEF Nodes, NodeIds
<1>6. \A i, j \in 1..n : document[i].id = document[j].id => i = j
  <2> SUFFICES ASSUME NEW i \in 1..n, NEW j \in 1..n, document[i].id = document[j].id
               PROVE  i = j
    OBVIOUS
  <2>1. <<i, 0>> \in Editor!Places(document) /\ <<j, 0>> \in Editor!Places(document)
    BY <1>4 DEF Editor!Places
  <2>2. Editor!At(document, <<i, 0>>) = document[i] /\ Editor!At(document, <<j, 0>>) = document[j]
    BY DEF Editor!At
  <2>3. <<i, 0>> = <<j, 0>>
    BY <1>2, <2>1, <2>2 DEF Editor!Valid
  <2> QED
    BY <2>3
<1>7. \A item \in Items : \E i \in 1..n : item = document[i].id
  <2>1. id \in [1..n -> Items] /\ \A i \in 1..n : id[i] = document[i].id
    BY <1>2
  <2> HIDE DEF id
  <2>2. id \in Injection(1..n, Items)
    BY <1>6, <2>1 DEF Injection, IsInjective
  <2>3. IsFiniteSet(1..n) /\ Cardinality(1..n) = n
    <3>1. IsFiniteSet(1..n) /\ Cardinality(1..n) = IF 1 > n THEN 0 ELSE n - 1 + 1
      BY <1>1, FS_Interval
    <3> QED
      BY <1>1, <3>1
  <2>4. id \in Surjection(1..n, Items)
    BY <2>2, <2>3, FS_Injection DEF EditorInstance, n
  <2> QED
    BY <2>1, <2>4 DEF Surjection
<1>8. Editor!ItemIds(document) = Items
  <2> SUFFICES ASSUME NEW item PROVE item \in Editor!ItemIds(document) <=> item \in Items
    OBVIOUS
  <2>1. item \in Editor!ItemIds(document) <=> \E i \in 1..n : item = document[i].id
    <3>1. item \in Editor!ItemIds(document) <=> \E i \in 1..n : item \in NodeIds(document[i])
      BY <1>4, ItemIdsAre, Zenon
    <3> QED
      BY <1>5, <3>1
  <2>2. \A i \in 1..n : document[i].id \in Items
    BY <1>2
  <2> QED
    BY <1>7, <2>1, <2>2
<1> QED
  BY <1>2, <1>4, <1>8 DEF Editor!Init, EditorInv, Complete, LeadsTo, LeadsFrom

(* No edit, undo or redo loses an item of the scene. *)
THEOREM ItemsAlwaysStay ==
    ASSUME EditorInstance
    PROVE  Editor!Spec => [](Editor!TypeOK /\ Editor!ItemsStay)
<1>1. Editor!Init => EditorInv
  BY EditorFirst
<1>2. EditorInv /\ [Editor!Next]_Editor!vars => EditorInv'
  BY EditorStep
<1>3. EditorInv => Editor!TypeOK /\ Editor!ItemsStay
  BY DEF EditorInv, Complete, Editor!TypeOK, Editor!ItemsStay
<1> QED
  BY <1>1, <1>2, <1>3, PTL DEF Editor!Spec

(* The entries of a history as the documents the abstract editor keeps. *)
LEMMA KeptDocuments ==
    ASSUME NEW s \in Seq(Editor!Entry), NEW e \in Editor!Entry
    PROVE  /\ [i \in DOMAIN Append(s, e) |-> Append(s, e)[i].before]
                  = Append([i \in DOMAIN s |-> s[i].before], e.before)
           /\ [i \in DOMAIN Append(s, e) |-> Append(s, e)[i].after]
                  = Append([i \in DOMAIN s |-> s[i].after], e.after)
<1> DEFINE n == Len(s)
           t == Append(s, e)
           earlier == [i \in DOMAIN s |-> s[i].before]
           after == [i \in DOMAIN s |-> s[i].after]
<1>1. n \in Nat /\ DOMAIN s = 1..n /\ \A i \in 1..n : s[i] \in Editor!Entry
  OBVIOUS
<1>2. /\ DOMAIN t = 1..n + 1 /\ \A i \in 1..n : t[i] = s[i]
      /\ t[n + 1] = e
  <2>1. /\ t \in Seq(Editor!Entry) /\ Len(t) = n + 1 /\ \A i \in 1..n : t[i] = s[i]
        /\ t[n + 1] = e
    BY AppendProperties
  <2> QED
    BY <2>1, LenProperties
<1>3. /\ earlier \in Seq(Editor!Document) /\ Len(earlier) = n /\ after \in Seq(Editor!Document)
      /\ Len(after) = n
  BY <1>1 DEF Editor!Entry
<1>4. /\ Append(earlier, e.before) = [i \in 1..n + 1 |-> IF i = n + 1 THEN e.before ELSE earlier[i]]
      /\ Append(after, e.after) = [i \in 1..n + 1 |-> IF i = n + 1 THEN e.after ELSE after[i]]
  BY <1>1, <1>3 DEF Editor!Entry
<1>5. \A i \in 1..n + 1 : IF i = n + 1 THEN t[i] = e ELSE i \in 1..n /\ t[i] = s[i]
  BY <1>1, <1>2
<1> HIDE DEF n, t
<1> QED
  BY <1>1, <1>2, <1>4, <1>5 DEF t

(* Taking the newest entry takes the nearest document. *)
LEMMA OlderDocuments ==
    ASSUME NEW s \in Seq(Editor!Entry), s # <<>>
    PROVE  LET earlier == [i \in DOMAIN s |-> s[i].before]
               after == [i \in DOMAIN s |-> s[i].after]
           IN  /\ earlier # <<>> /\ earlier[Len(earlier)] = Editor!Last(s).before
               /\ [i \in DOMAIN Editor!Front(s) |-> Editor!Front(s)[i].before] = SubSeq(earlier, 1, Len(earlier) - 1)
               /\ after # <<>> /\ after[Len(after)] = Editor!Last(s).after
               /\ [i \in DOMAIN Editor!Front(s) |-> Editor!Front(s)[i].after] = SubSeq(after, 1, Len(after) - 1)
<1> DEFINE n == Len(s)
           t == Editor!Front(s)
           earlier == [i \in DOMAIN s |-> s[i].before]
           after == [i \in DOMAIN s |-> s[i].after]
<1>1. n \in Nat \ {0} /\ DOMAIN s = 1..n /\ \A i \in 1..n : s[i] \in Editor!Entry
  BY EmptySeq
<1>2. DOMAIN t = 1..n - 1 /\ (\A i \in 1..n - 1 : t[i] = s[i]) /\ Editor!Last(s) = s[n]
  <2>1. /\ t \in Seq(Editor!Entry) /\ Len(t) = n - 1 /\ \A i \in 1..n - 1 : t[i] = s[i]
        /\ Editor!Last(s) = s[n]
    BY Shortened
  <2> QED
    BY <2>1, LenProperties
<1>3. /\ earlier \in Seq(Editor!Document) /\ Len(earlier) = n /\ after \in Seq(Editor!Document)
      /\ Len(after) = n
  BY <1>1 DEF Editor!Entry
<1>4. \A i \in 1..n : earlier[i] = s[i].before /\ after[i] = s[i].after
  BY <1>1
<1>5. /\ SubSeq(earlier, 1, n - 1) = [i \in 1..n - 1 |-> earlier[i]]
      /\ SubSeq(after, 1, n - 1) = [i \in 1..n - 1 |-> after[i]]
  <2> HIDE DEF n, earlier, after
  <2>1. n - 1 \in 0..Len(earlier) /\ n - 1 \in 0..Len(after)
    BY <1>1, <1>3
  <2> QED
    BY <1>3, <2>1, SubSeqRestrict DEF Restrict
<1>6. earlier # <<>> /\ after # <<>>
  BY <1>1, <1>3
<1>7. \A i \in 1..n - 1 : i \in 1..n /\ t[i] = s[i]
  BY <1>1, <1>2
<1> HIDE DEF n, t, earlier, after
<1>8. /\ [i \in DOMAIN t |-> t[i].before] = SubSeq(earlier, 1, n - 1)
      /\ [i \in DOMAIN t |-> t[i].after] = SubSeq(after, 1, n - 1)
  BY <1>2, <1>4, <1>5, <1>7
<1>9. earlier[n] = Editor!Last(s).before /\ after[n] = Editor!Last(s).after
  BY <1>1, <1>2, <1>4
<1> QED
  BY <1>3, <1>6, <1>8, <1>9, Zenon DEF t, earlier, after

(* A step of the editor is a step of the abstract one. *)
LEMMA HistoryStep ==
    ASSUME EditorInstance, EditorInv, [Editor!Next]_Editor!vars
    PROVE  [Editor!Line!Edit \/ Editor!Line!Undo \/ Editor!Line!Redo]_<<[i \in DOMAIN undo |-> undo[i].before], document,
                                                                        [i \in DOMAIN redo |-> redo[i].after]>>
<1> DEFINE past == [i \in DOMAIN undo |-> undo[i].before]
           future == [i \in DOMAIN redo |-> redo[i].after]
<1>1. undo \in Seq(Editor!Entry) /\ redo \in Seq(Editor!Entry) /\ Complete(document)
  BY DEF EditorInv
<1>2. CASE Edited
  <2>1. /\ undo' = Append(undo, [before |-> document, after |-> document']) /\ redo' = <<>>
        /\ Complete(document')
    BY <1>2 DEF Edited
  <2>2. [before |-> document, after |-> document'] \in Editor!Entry
    BY <1>1, <2>1 DEF Editor!Entry, Complete
  <2>3. past' = Append(past, document)
    BY <1>1, <2>1, <2>2, KeptDocuments, Zenon
  <2>4. future' = <<>>
    BY <2>1
  <2>5. document' \in {d \in Editor!Document : Editor!Valid(d)}
    BY <2>1 DEF Complete
  <2> QED
    BY <2>3, <2>4, <2>5, Zenon DEF Editor!Line!Edit
<1>3. CASE Editor!UndoEdit
  <2>1. /\ undo' = Editor!Front(undo) /\ redo' = Append(redo, Editor!Last(undo))
        /\ document' = Editor!Last(undo).before
        /\ undo # <<>>
    BY <1>3 DEF Editor!UndoEdit
  <2>2. Editor!Last(undo) \in Editor!Entry /\ Editor!Last(undo).after = document
    BY <1>1, <2>1, Shortened, NewestUndo DEF EditorInv
  <2>3. /\ past # <<>> /\ document' = past[Len(past)]
        /\ past' = SubSeq(past, 1, Len(past) - 1)
    BY <1>1, <2>1, OlderDocuments, Zenon
  <2>4. future' = Append(future, document)
    BY <1>1, <2>1, <2>2, KeptDocuments, Zenon
  <2> QED
    BY <2>3, <2>4, Zenon DEF Editor!Line!Undo, Editor!Line!Last, Editor!Line!Front
<1>4. CASE Editor!RedoEdit
  <2>1. /\ redo' = Editor!Front(redo) /\ undo' = Append(undo, Editor!Last(redo))
        /\ document' = Editor!Last(redo).after
        /\ redo # <<>>
    BY <1>4 DEF Editor!RedoEdit
  <2>2. Editor!Last(redo) \in Editor!Entry /\ Editor!Last(redo).before = document
    BY <1>1, <2>1, Shortened, NewestRedo DEF EditorInv
  <2>3. /\ future # <<>> /\ document' = future[Len(future)]
        /\ future' = SubSeq(future, 1, Len(future) - 1)
    BY <1>1, <2>1, OlderDocuments, Zenon
  <2>4. past' = Append(past, document)
    BY <1>1, <2>1, <2>2, KeptDocuments
  <2> QED
    BY <2>3, <2>4, Zenon DEF Editor!Line!Redo, Editor!Line!Last, Editor!Line!Front
<1>5. CASE UNCHANGED Editor!vars
  BY <1>5 DEF Editor!vars
<1> QED
  BY <1>1, <1>2, <1>3, <1>4, <1>5, Steps

(* The editor implements the abstract one. *)
THEOREM EditorKeepsOneLine ==
    ASSUME EditorInstance
    PROVE  Editor!Spec => Editor!History
<1>1. Editor!Init => EditorInv /\ Editor!Line!Init
  <2> SUFFICES ASSUME Editor!Init PROVE EditorInv /\ Editor!Line!Init
    OBVIOUS
  <2>1. EditorInv
    BY EditorFirst
  <2> QED
    BY <2>1 DEF Editor!Init, Editor!Line!Init, EditorInv, Complete
<1>2. EditorInv /\ [Editor!Next]_Editor!vars => EditorInv'
  BY EditorStep
<1>3. EditorInv /\ [Editor!Next]_Editor!vars
        => [Editor!Line!Edit \/ Editor!Line!Undo \/ Editor!Line!Redo]_<<[i \in DOMAIN undo |-> undo[i].before], document,
                                                                        [i \in DOMAIN redo |-> redo[i].after]>>
  BY HistoryStep
<1> QED
  BY <1>1, <1>2, <1>3, PTL DEF Editor!Spec, Editor!History, Editor!Line!Spec

-----------------------------------------------------------------------------
(* The tools side by side *)

toolsVars == <<component, vars, editorVars, restoreVars, settingsVars, buildVars, outputVars,
               bootstrapVars>>

(* Side by side each tool does what it does alone: a behaviour of Tools is *)
(* one of every component, a step of another being a stutter.              *)
THEOREM ToolsImplementComponents ==
    ToolsSpec => /\ Spec /\ Editor!Spec /\ Restore!Spec /\ Generic!Spec /\ Cache!Spec
                 /\ Output!Spec /\ Setup!Spec
<1>1. ToolsInit => /\ Init /\ Editor!Init /\ Restore!Init /\ Generic!Init /\ Cache!Init
                   /\ Output!Init /\ Setup!Init
  BY DEF ToolsInit
<1> DEFINE Moves == [ToolsNext]_toolsVars
<1>2. Moves => [Next]_vars
  BY DEF ToolsNext, toolsVars
<1>3. Moves => [Editor!Next]_Editor!vars
  BY DEF ToolsNext, toolsVars, Editor!vars, editorVars
<1>4. Moves => [Restore!Next]_Restore!vars
  BY DEF ToolsNext, toolsVars, Restore!vars, restoreVars
<1>5. Moves => [Generic!Next]_Generic!vars
  BY DEF ToolsNext, toolsVars, Generic!vars, settingsVars
<1>6. Moves => [Cache!Next]_Cache!vars
  BY DEF ToolsNext, toolsVars, Cache!vars, Cache!call, Cache!history, buildVars
<1>7. Moves => [Output!Next]_Output!vars
  BY DEF ToolsNext, toolsVars, Output!vars, outputVars
<1>8. Moves => [Setup!Next]_Setup!vars
  BY DEF ToolsNext, toolsVars, Setup!vars, bootstrapVars
<1> QED
  BY <1>1, <1>2, <1>3, <1>4, <1>5, <1>6, <1>7, <1>8, PTL
  DEF ToolsSpec, toolsVars, Spec, Editor!Spec, Restore!Spec, Generic!Spec, Cache!Spec,
      Output!Spec, Setup!Spec

(* No edit, undo or redo that is accepted loses an item of the scene, with *)
(* any number of items and groups and however long the history.            *)
THEOREM ItemsKeepStaying ==
    ASSUME ~Rejections
    PROVE  ToolsSpec => []ItemsStay
<1>1. EditorInstance
  BY DocumentAssumption DEF EditorInstance
<1> QED
  BY <1>1, ToolsImplementComponents, ItemsAlwaysStay, PTL DEF ItemsStay

(* Undo and redo walk along one line of valid documents: the editor        *)
(* implements EditHistory.                                                 *)
THEOREM EditorImplementsHistory ==
    ASSUME ~Rejections
    PROVE  ToolsSpec => History
<1>1. EditorInstance
  BY DocumentAssumption DEF EditorInstance
<1> QED
  BY <1>1, ToolsImplementComponents, EditorKeepsOneLine, PTL DEF History

(* A marked tree is complete, and so is a copy that nobody has disturbed,  *)
(* but for the entries that were passed over, with any number of calls and *)
(* files, whatever calls fail or are killed and trees are built again      *)
(* (cargo-obs-build/src/lib.rs).                                           *)
THEOREM CacheStaysComplete == ToolsSpec => []CacheIsComplete
<1>1. Cache!CacheIsComplete => CacheIsComplete
  BY DEF CacheIsComplete
<1> QED
  BY <1>1, ProcessesAssumption, ToolsImplementComponents, CacheAlwaysComplete, PTL

(* A call that provisions leaves every file it has read of the version it  *)
(* was to find, and one that does nothing a library of the line asked for, *)
(* whatever versions are published and earlier calls left.                 *)
THEOREM BootstrapStaysSound == ToolsSpec => []BootstrapIsSound
<1>1. BootInstance
  BY VersionsAssumption DEF BootInstance
<1>2. Setup!TypeOK /\ Setup!BootstrapIsSound => BootstrapIsSound
  BY DEF BootstrapIsSound
<1> QED
  BY <1>1, <1>2, ToolsImplementComponents, BootstrapAlwaysSound, PTL

(* A setting has a value of its own only if OBS takes it, the value is the *)
(* one that the report calls applied last, strict settings fail on the     *)
(* first that is not applied and permissive ones only where a value is     *)
(* meant for the property and not right (generic.rs, settings.rs).         *)
THEOREM SettingsStayExact == ToolsSpec => []SettingsAreExact
<1>1. Generic!SettingsAreExact => SettingsAreExact
  BY DEF SettingsAreExact
<1> QED
  BY <1>1, ToolsImplementComponents, SettingsAlwaysExact, PTL

(* Whatever encoders OBS has and whichever of them fail: the candidates    *)
(* are tried in order and once in a call, hardware goes before software,   *)
(* and the report has every failure (output/simple.rs).                    *)
THEOREM FallbackStaysSound == ToolsSpec => []FallbackIsSound
<1>1. Output!FallbackIsSound => FallbackIsSound
  BY DEF FallbackIsSound
<1> QED
  BY <1>1, ToolsImplementComponents, FallbackAlwaysSound, PTL

(* What the machine can restore of a document comes back in its order, and *)
(* the report has the rest; a strict restoration that misses something     *)
(* leaves no scene (scene_collection.rs).                                  *)
THEOREM RestoreStaysFaithful == ToolsSpec => []RestoreIsFaithful
<1>1. Restore!TypeOK /\ Restore!RestoreIsFaithful => RestoreIsFaithful
  BY DEF RestoreIsFaithful
<1> QED
  BY <1>1, ToolsImplementComponents, RestoreAlwaysFaithful, PTL
(* Saves by threads of processes of their own: whatever fails and whenever *)
(* a process or the power ends, the file is a whole collection and the      *)
(* outcome of a save is the one it reports.                                *)
THEOREM SaveStaysAtomic ==
    ASSUME Instance
    PROVE  ToolsSpec => []SaveIsAtomic
BY ToolsImplementComponents, SaveAlwaysAtomic, PTL

(* The state of every tool has its types, whichever of them runs.          *)
THEOREM ToolsStayTyped ==
    ASSUME ~Rejections, Instance
    PROVE  ToolsSpec => []ToolsTypeOK
<1>1. EditorInstance
  BY DocumentAssumption DEF EditorInstance
<1>2. BootInstance
  BY VersionsAssumption DEF BootInstance
<1>3. Editor!Spec => [](Editor!TypeOK /\ Editor!ItemsStay)
  BY <1>1, ItemsAlwaysStay
<1>4. Setup!Spec => [](Setup!TypeOK /\ Setup!BootstrapIsSound)
  BY <1>2, BootstrapAlwaysSound
<1>5. Cache!Spec => []Cache!TypeOK
  BY ProcessesAssumption, CacheAlwaysTyped
<1>6. /\ Editor!TypeOK /\ TypeOK /\ Restore!TypeOK /\ Generic!TypeOK /\ Cache!TypeOK
      /\ Output!TypeOK /\ Setup!TypeOK
      => ToolsTypeOK
  BY DEF ToolsTypeOK
<1> QED
  BY <1>3, <1>4, <1>5, <1>6, ToolsImplementComponents, SaveAlwaysAtomic, RestoreAlwaysFaithful,
     SettingsAlwaysExact, FallbackAlwaysSound, PTL

=============================================================================
