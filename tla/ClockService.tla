----------------------------- MODULE ClockService -----------------------------
(***************************************************************************)
(* The corrected clock and the gate before an order (clock.py).            *)
(*                                                                         *)
(* True time `utc` runs; the machine's clock is `skew` behind it and may   *)
(* be set to another skew at any moment (NTP, a suspended machine).  Every *)
(* reference answers with its own time, off by at most half the round trip *)
(* and, where it counts in whole seconds, by up to a second.               *)
(***************************************************************************)
EXTENDS Integers, FiniteSetsExt

CONSTANTS
    References,       \* cfg.sources
    Grain,            \* reference -> the step it counts in, less one
    Skews,            \* what the machine's clock may be set to
    Halves,           \* half round trips
    MaxSampleRtt, MaxDrift, MaxUncertainty, StaleAfter, MinSamples,
    OrderSafety,      \* order_safety_window_seconds
    Settlements,      \* settlement instants asked about
    MaxUtc            \* bound

ASSUME ClockAssumption ==
    /\ Grain \in [References -> Nat] /\ Halves \subseteq Nat
    /\ OrderSafety \in Nat /\ StaleAfter \in Nat
    /\ Skews \subseteq Int /\ Settlements \subseteq Int

VARIABLES
    utc, skew,
    samples,          \* one ClockSample per source, or NoSample
    foreign           \* sources sampled before the clock was last set (history)

clockVars == <<utc, skew, samples, foreign>>

NoSample == [offset |-> 0, half |-> -1, taken |-> 0]
Local == utc - skew
Held == {r \in References : samples[r] # NoSample}
Offsets == {samples[r].offset : r \in Held}

-----------------------------------------------------------------------------
(* Twice the offset and twice the uncertainty, to stay in whole numbers. *)

\* statistics.median(); Rank places the held sources by offset.
Below(r) == {q \in Held : samples[q].offset < samples[r].offset}
UpTo(r) == {q \in Held : samples[q].offset <= samples[r].offset}
Ranked(k) == CHOOSE o \in Offsets :
    \E r \in Held : samples[r].offset = o /\ Cardinality(Below(r)) < k /\ k <= Cardinality(UpTo(r))
Median2 ==
    LET n == Cardinality(Held) IN Ranked((n + 1) \div 2) + Ranked((n \div 2) + 1)

Spread2 == Max(Offsets) - Min(Offsets)

\* A slip: how far the references disagree is left out.
BestOnly2 == 2 * Min({samples[r].half : r \in Held})

Uncertainty2 == 2 * Min({samples[r].half : r \in Held}) + Spread2

LastSync == Max({samples[r].taken : r \in Held})

Status ==
    IF Cardinality(Held) < MinSamples \/ Held = {} THEN "NEVER_SYNCED"
    ELSE IF Local - LastSync > StaleAfter THEN "STALE"
    ELSE IF Median2 > 2 * MaxDrift \/ -Median2 > 2 * MaxDrift THEN "DRIFTED"
    ELSE IF Uncertainty2 > 2 * MaxUncertainty THEN "UNCERTAIN" ELSE "HEALTHY"

Remaining2(settlement) == 2 * settlement - (2 * Local + Median2)

CanSubmitOrder(settlement) ==
    /\ Status = "HEALTHY"
    /\ Remaining2(settlement) > 0
    /\ Remaining2(settlement) - Uncertainty2 > 2 * OrderSafety

-----------------------------------------------------------------------------
\* _is_worse(): while the held sample is usable, a wider one does not replace it.
IsWorse(candidate, previous) ==
    /\ previous # NoSample
    /\ Local - previous.taken <= StaleAfter
    /\ previous.half <= MaxUncertainty
    /\ candidate.half > previous.half

AddSample(r, sample) ==
    /\ 2 * sample.half <= MaxSampleRtt
    /\ ~IsWorse(sample, samples[r])
    /\ samples' = [samples EXCEPT ![r] = sample]
    /\ foreign' = foreign \ {r}

ClockInit ==
    /\ utc = 0 /\ skew \in Skews
    /\ samples = [r \in References |-> NoSample]
    /\ foreign = {}

Pass == /\ utc < MaxUtc
        /\ utc' = utc + 1
        /\ UNCHANGED <<skew, samples, foreign>>

\* The machine's clock is set.
SetClock(s) ==
    /\ s # skew
    /\ skew' = s
    /\ foreign' = Held
    /\ UNCHANGED <<utc, samples>>

\* One fetch of sync(); one that fails or answers nothing changes nothing.
SyncOne(r) ==
    /\ \E half \in Halves : \E err \in -(half + Grain[r])..half :
         AddSample(r, [offset |-> skew + err, half |-> half, taken |-> Local])
    /\ UNCHANGED <<utc, skew>>

ClockNext ==
    \/ Pass
    \/ \E s \in Skews : SetClock(s)
    \/ \E r \in References : SyncOne(r)

ClockSpec == ClockInit /\ [][ClockNext]_clockVars

-----------------------------------------------------------------------------
CoarseStep == Max({Grain[r] : r \in References})

\* With two references, as configured: once every held sample was taken since
\* the machine's clock was last set, the correction misses true time by no more
\* than the uncertainty it states, but for the step of a coarse reference; and
\* an order is then let through only while the safety window is truly ahead,
\* but for that step.
ClockIsHonest ==
    Held # {} /\ foreign \cap Held = {} =>
      /\ Median2 - 2 * skew \in -(Uncertainty2 + 2 * CoarseStep)..(Uncertainty2 + 2 * CoarseStep)
      /\ \A s \in Settlements :
           CanSubmitOrder(s) => s - utc > OrderSafety - CoarseStep

=============================================================================
