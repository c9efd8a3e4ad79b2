---------------------------- MODULE FeatureEngine ----------------------------
(***************************************************************************)
(* The feature graph and the engine that computes it pass by pass, whole   *)
(* or only what a set of changed raw sources can reach.                    *)
(*                                                                         *)
(* A declaration is a list of features [name, deps, raws, priors]: the     *)
(* features and raw sources it names as inputs, and the features whose     *)
(* previous value its function reads, which no declaration mentions.       *)
(* A computed value is what was read to compute it; names are numbers, in  *)
(* their order.                                                            *)
(***************************************************************************)
EXTENDS Integers, Sequences, FiniteSets, SequencesExt

CONSTANTS
  Declarations,   \* lists the engine may be built from
  Sources,        \* raw source keys
  Readings,       \* what a source may hold
  Broken,         \* a reading no feature can compute from
  MaxPasses

\* Names are in an order, and a feature names raw keys that exist.
ASSUME DeclarationAssumption ==
  \A list \in Declarations :
    /\ list \in Seq({list[i] : i \in DOMAIN list})
    /\ \A i \in DOMAIN list : list[i].name \in Nat /\ list[i].raws \subseteq Sources

VARIABLES
  declared,       \* <<>> until an engine is built
  raw,            \* source -> reading
  pending,        \* sources that moved since the last pass
  values, previous,
  passes

engineVars == <<declared, raw, pending, values, previous, passes>>

Missing == <<>>

-----------------------------------------------------------------------------
(* build_graph(). *)

NamesOf(list) == {list[i].name : i \in DOMAIN list}
ByName(list) == [n \in NamesOf(list) |-> list[CHOOSE i \in DOMAIN list : list[i].name = n]]

\* Kahn's algorithm, the least ready name first; shorter if there is a cycle.
TopologicalOrder(g) ==
  LET order[k \in 0..Cardinality(DOMAIN g)] ==
        IF k = 0 THEN <<>>
        ELSE LET done  == Range(order[k - 1])
                 ready == {n \in DOMAIN g \ done : g[n].deps \subseteq done}
             IN  order[k - 1] \o IF ready = {} THEN <<>> ELSE <<Min(ready)>>
  IN  order[Cardinality(DOMAIN g)]

\* Duplicate names, unknown dependencies and cycles are refused.
BuildRefused(list) ==
  \/ Cardinality(NamesOf(list)) < Len(list)
  \/ \E i \in DOMAIN list : ~(list[i].deps \subseteq NamesOf(list))
  \/ Len(TopologicalOrder(ByName(list))) < Len(list)

\* A slip: only the sources a feature names itself.
OwnSources(g) == [n \in DOMAIN g |-> g[n].raws]
SourcesOf(g) ==
  LET order == TopologicalOrder(g)
      found[k \in 0..Len(order)] ==
        IF k = 0 THEN [n \in DOMAIN g |-> {}]
        ELSE [found[k - 1] EXCEPT ![order[k]] =
                g[order[k]].raws \cup UNION {found[k - 1][d] : d \in g[order[k]].deps}]
  IN  found[Len(order)]

Impact(g, source) == {n \in DOMAIN g : source \in SourcesOf(g)[n]}
AffectedBy(g, sources) == {n \in DOMAIN g : \E s \in sources : n \in Impact(g, s)}

-----------------------------------------------------------------------------
(* A pass. *)

Evaluate(f, reading, computed, old) ==
  LET read == [raws   |-> [s \in f.raws |-> reading[s]],
               deps   |-> [d \in f.deps |-> computed[d]],
               priors |-> [p \in f.priors |-> old[p]]]
  IN  IF \/ \E s \in f.raws : reading[s] = Broken
         \/ \E d \in f.deps : computed[d] = Missing
         \/ \E p \in f.priors : p \notin DOMAIN old \/ old[p] = Missing
      THEN Missing ELSE read

\* The targets in topological order, each from what is computed by then.
Pass(g, targets, reading, held, old) ==
  LET order == TopologicalOrder(g)
      computed[k \in 0..Len(order)] ==
        IF k = 0 THEN held
        ELSE IF order[k] \notin targets THEN computed[k - 1]
        ELSE [computed[k - 1] EXCEPT ![order[k]] =
                Evaluate(g[order[k]], reading, computed[k - 1], old)]
  IN  computed[Len(order)]

-----------------------------------------------------------------------------
EngineInit ==
  /\ declared = <<>>
  /\ raw = [s \in Sources |-> 1]
  /\ pending = {}
  /\ values = <<>> /\ previous = <<>>
  /\ passes = 0

Cleared(list) ==
  /\ values' = [n \in NamesOf(list) |-> Missing]
  /\ previous' = <<>>
  /\ passes' = 0

BuildEngine(list) ==
  /\ declared = <<>>
  /\ ~BuildRefused(list)
  /\ declared' = list
  /\ Cleared(list)
  /\ UNCHANGED <<raw, pending>>

\* The market moves.
Moves(s, r) ==
  /\ declared # <<>> /\ passes < MaxPasses
  /\ r # raw[s]
  /\ raw' = [raw EXCEPT ![s] = r]
  /\ pending' = pending \cup {s}
  /\ UNCHANGED <<declared, values, previous, passes>>

Compute(targets) ==
  /\ declared # <<>> /\ passes < MaxPasses
  /\ values' = Pass(ByName(declared), targets, raw, values, previous)
  /\ previous' = values'
  /\ passes' = passes + 1
  /\ pending' = {}
  /\ UNCHANGED <<declared, raw>>

ComputeAll == Compute(NamesOf(declared))
\* An incremental pass follows a whole one.
ComputeChanged == passes > 0 /\ Compute(AffectedBy(ByName(declared), pending))

Reset ==
  /\ declared # <<>> /\ passes > 0
  /\ Cleared(declared)
  /\ UNCHANGED <<declared, raw, pending>>

EngineNext ==
  \/ \E list \in Declarations : BuildEngine(list)
  \/ \E s \in Sources, r \in Readings : Moves(s, r)
  \/ ComputeAll \/ ComputeChanged \/ Reset

EngineSpec == EngineInit /\ [][EngineNext]_engineVars

-----------------------------------------------------------------------------
(* Properties. *)

\* A list becomes an engine only if no feature can reach itself, and its
\* order puts every feature after its dependencies.
Reaches(g) ==
  LET step[k \in 0..Cardinality(DOMAIN g)] ==
        IF k = 0 THEN [n \in DOMAIN g |-> g[n].deps]
        ELSE [n \in DOMAIN g |-> step[k - 1][n] \cup UNION {step[k - 1][m] : m \in step[k - 1][n]}]
  IN  step[Cardinality(DOMAIN g)]
OrderIsSound(g) ==
  LET order == TopologicalOrder(g)
  IN  /\ \A n \in DOMAIN g : n \notin Reaches(g)[n]
      /\ \A i, j \in DOMAIN order : order[j] \in g[order[i]].deps => j < i

\* The features that read nothing of an earlier pass, directly or not.
Stateless(g) ==
  {n \in DOMAIN g : \A m \in {n} \cup Reaches(g)[n] : g[m].priors = {}}

\* tests/test_features.py:179, "recomputing less must not change the answer":
\* after any pass, whole or not, a feature that reads nothing of an earlier
\* pass holds what a fresh engine would compute from the raw state.
RecomputingLessChangesNothing ==
  declared # <<>> =>
    LET g     == ByName(declared)
        fresh == Pass(g, DOMAIN g, raw, [n \in DOMAIN g |-> Missing], <<>>)
    IN  /\ OrderIsSound(g)
        /\ passes > 0 /\ pending = {} => \A n \in Stateless(g) : values[n] = fresh[n]

=============================================================================
