---------------------------- MODULE SettlementSpec ----------------------------
(***************************************************************************)
(* How a market settles, read from what Gamma says of it                   *)
(* (settlement/parser.py with settlement/providers.py), scored by evidence *)
(* (settlement/spec.py) and held against the configuration                 *)
(* (settlement/verifier.py).                                               *)
(*                                                                         *)
(* A payload is what its channels say: the providers whose markers the     *)
(* resolution URL and the prose match, the pairs the prose names, the      *)
(* interval of the series and of the slug, the open of the event and of    *)
(* the slug, the close, and the tie and reference clauses of the prose.    *)
(* Missing is a channel that says nothing.  Confidence is in tenths.       *)
(***************************************************************************)
EXTENDS Integers, FiniteSetsExt

CONSTANTS
    Supports,         \* provider -> the pairs it publishes
    DefaultPair,      \* provider -> default_pair
    ExpectedSource,   \* settlement.expected_source
    ExpectedPair,     \* the canonical symbol configured for it, or Missing
    WindowSeconds,    \* app.window_seconds
    MinConfidence,    \* settlement.min_detection_confidence
    Payloads          \* what Gamma may answer

Missing == 0
UnknownSource == "unknown"
Providers == DOMAIN Supports

ASSUME SpecAssumption ==
    /\ DefaultPair \in [Providers -> UNION {Supports[p] : p \in Providers}]
    /\ UnknownSource \notin Providers /\ WindowSeconds \in Nat \ {0}

\* A payload names finitely many providers, pairs and rules, none by Missing.
ASSUME PayloadAssumption ==
    \A p \in Payloads :
      /\ p.urls \subseteq Providers /\ p.texts \subseteq Providers
      /\ IsFiniteSet(p.urls) /\ IsFiniteSet(p.texts) /\ IsFiniteSet(p.pairs) /\ IsFiniteSet(p.ties)
      /\ Missing \notin p.pairs \cup p.ties
      /\ p.recurrence \in Nat /\ p.slugInterval \in Nat
      /\ p.open \in Nat /\ p.slugOpen \in Nat /\ p.close \in Nat

Fact(value, confidence, conflict, missing) ==
    [value |-> value, confidence |-> confidence, conflict |-> conflict, missing |-> missing]
Absent(value) == Fact(value, 0, TRUE, TRUE)
Disputed(value) == Fact(value, 0, TRUE, FALSE)
Known(value, confidence) == Fact(value, confidence, FALSE, FALSE)
The(S) == CHOOSE x \in S : TRUE

\* One of the candidates, where they are one.
Agreed(candidates, confidence, nothing) ==
    IF candidates = {} THEN Absent(nothing)
    ELSE IF Cardinality(candidates) = 1 THEN Known(The(candidates), confidence)
    ELSE Disputed(nothing)

-----------------------------------------------------------------------------
(* The parser. *)

\* _detect_provider(): the URL goes before the prose, which must not differ.
ProviderOf(p) ==
    IF p.urls = {} THEN Agreed(p.texts, 7, UnknownSource)
    ELSE IF p.texts \in {{}, p.urls} THEN Agreed(p.urls, IF p.texts = {} THEN 9 ELSE 10, UnknownSource)
    ELSE Disputed(UnknownSource)

\* _detect_pair(): spellings that are not known have been dropped from `pairs`.
PairOf(p, provider) ==
    IF provider = UnknownSource THEN Absent(Missing)
    ELSE IF p.pairs = {} THEN Known(DefaultPair[provider], 9)
    ELSE IF p.pairs \subseteq Supports[provider] THEN Agreed(p.pairs, 10, Missing)
    ELSE Disputed(Missing)

\* A slip: the event's start is taken without a look at the slug.
OpenOfEvent(p) == IF p.open # Missing THEN Known(p.open, 10) ELSE Absent(Missing)

\* _detect_times()
OpenOf(p) ==
    LET confidence == IF p.open = Missing THEN 7 ELSE IF p.slugOpen = Missing THEN 9 ELSE 10
    IN  Agreed({p.open, p.slugOpen} \ {Missing}, confidence, Missing)
CloseOf(p) == IF p.close = Missing THEN Absent(Missing) ELSE Known(p.close, 10)

Derived(p) ==
    IF OpenOf(p).value # Missing /\ p.close > OpenOf(p).value THEN p.close - OpenOf(p).value ELSE Missing
Intervals(p) == {p.recurrence, p.slugInterval, Derived(p)} \ {Missing}
Channels(p) == Cardinality({c \in 1..3 : <<p.recurrence, p.slugInterval, Derived(p)>>[c] # Missing})

\* _detect_interval()
IntervalOf(p) == Agreed(Intervals(p), IF Channels(p) >= 2 THEN 10 ELSE 9, Missing)

\* _detect_tie_rule(), _detect_reference_rule()
TieRuleOf(p) == Agreed(p.ties, 10, Missing)
ReferenceOf(p) == IF p.reference = Missing THEN Absent(Missing) ELSE Known(p.reference, 10)

ParseSettlementSpec(p) ==
    LET provider == ProviderOf(p)
    IN  [provider |-> provider, pair |-> PairOf(p, provider.value), interval |-> IntervalOf(p),
         open |-> OpenOf(p), close |-> CloseOf(p), tie |-> TieRuleOf(p), reference |-> ReferenceOf(p),
         decimals |-> IF provider.value = UnknownSource THEN Absent(Missing) ELSE Known(Missing, 10)]

-----------------------------------------------------------------------------
(* The specification. *)

RequiredFields == {"provider", "pair", "interval", "open", "close", "tie", "decimals"}
Confidence(spec) == Min({spec[f].confidence : f \in RequiredFields})
Conflicts(spec) == {f \in DOMAIN spec : spec[f].conflict}
MissingFields(spec) == {f \in RequiredFields : spec[f].missing}

\* What spec_hash covers; venue, decimals and semantics follow the provider.
Mechanics(spec) == <<spec.provider.value, spec.pair.value, spec.interval.value,
                     spec.tie.value, spec.reference.value>>

-----------------------------------------------------------------------------
(* The verifier. *)

PairFits(spec) ==
    /\ spec.pair.value # Missing /\ spec.provider.value \in Providers
    /\ spec.pair.value \in Supports[spec.provider.value]
    /\ ExpectedPair \in {Missing, spec.pair.value}
TimingFits(spec) ==
    /\ spec.open.value # Missing /\ spec.close.value > spec.open.value
    /\ spec.close.value - spec.open.value = spec.interval.value
    /\ spec.open.value % WindowSeconds = 0

\* verify(); `known` is the fingerprint the series has, or Missing.
Failed(spec, known) ==
    LET fails == [no_source_conflict       |-> Conflicts(spec) # {},
                  required_fields_present  |-> MissingFields(spec) # {},
                  provider_matches_config  |-> spec.provider.value # ExpectedSource,
                  trading_pair_supported   |-> ~PairFits(spec),
                  interval_matches_config  |-> spec.interval.value # WindowSeconds,
                  window_timing_consistent |-> ~TimingFits(spec),
                  tie_rule_known           |-> spec.tie.value = Missing,
                  detection_confidence     |-> Confidence(spec) < MinConfidence,
                  settlement_unchanged     |-> known # <<>> /\ known # Mechanics(spec)]
    IN  {c \in DOMAIN fails : fails[c]}

\* _status_for(): the first of these that failed.
StatusFor(failed) ==
    IF failed = {} THEN "VERIFIED"
    ELSE IF "no_source_conflict" \in failed       THEN "REJECTED_CONFLICT"
    ELSE IF "settlement_unchanged" \in failed     THEN "REJECTED_PROVIDER_CHANGED"
    ELSE IF "provider_matches_config" \in failed  THEN "REJECTED_PROVIDER_MISMATCH"
    ELSE IF "interval_matches_config" \in failed  THEN "REJECTED_INTERVAL_MISMATCH"
    ELSE IF "trading_pair_supported" \in failed   THEN "REJECTED_PAIR_MISMATCH"
    ELSE IF "window_timing_consistent" \in failed THEN "REJECTED_TIMING"
    ELSE IF {"required_fields_present", "tie_rule_known"} \cap failed # {} THEN "REJECTED_INCOMPLETE"
    ELSE "REJECTED_LOW_CONFIDENCE"

-----------------------------------------------------------------------------
VARIABLES payload, knownMechanics, verdict
specVars == <<payload, knownMechanics, verdict>>

SpecInit == payload \in Payloads /\ knownMechanics = <<>> /\ verdict = "none"

\* record() of the settlement history: the series is known by its last spec.
Verify ==
    /\ verdict = "none"
    /\ verdict' = StatusFor(Failed(ParseSettlementSpec(payload), knownMechanics))
    /\ knownMechanics' = Mechanics(ParseSettlementSpec(payload))
    /\ UNCHANGED payload

NextMarket ==
    /\ verdict = "VERIFIED"
    /\ payload' \in Payloads /\ verdict' = "none"
    /\ UNCHANGED knownMechanics

SpecNext == Verify \/ NextMarket
SettlementSpecs == SpecInit /\ [][SpecNext]_specVars

-----------------------------------------------------------------------------
\* What a reader of the payload could swear to: one provider, in both channels,
\* the configured one; one pair, named, that it publishes; every channel that
\* speaks of the interval gives the configured one; event and slug give the
\* same aligned open, and the close is one interval later; one tie clause; a
\* reference clause.
BeyondDoubt(p) ==
    /\ p.urls = {ExpectedSource} /\ p.texts = {ExpectedSource}
    /\ \E pair \in Supports[ExpectedSource] : p.pairs = {pair} /\ ExpectedPair \in {Missing, pair}
    /\ p.recurrence \in {Missing, WindowSeconds} /\ p.slugInterval \in {Missing, WindowSeconds}
    /\ p.open # Missing /\ p.slugOpen = p.open /\ p.open % WindowSeconds = 0
    /\ p.close = p.open + WindowSeconds
    /\ Cardinality(p.ties) = 1 /\ p.reference # Missing

\* spec.py:16: "The gate in settlement.min_detection_confidence defaults to 1.0".
\* At that gate a market is verified exactly when nothing about its settlement
\* is in doubt, but for an interval nobody but the two instants states, and,
\* after a first market, when it settles as the one before.
SettlesBeyondDoubt ==
    verdict # "none" =>
      /\ verdict = "VERIFIED" => BeyondDoubt(payload)
      /\ BeyondDoubt(payload) /\ Channels(payload) >= 2 => verdict \in {"VERIFIED", "REJECTED_PROVIDER_CHANGED"}

=============================================================================
