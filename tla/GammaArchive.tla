----------------------------- MODULE GammaArchive -----------------------------
(***************************************************************************)
(* Archived responses and their replay: gamma/client.py writes a file per  *)
(* response, gamma/replay.py reads the markets out of all of them again    *)
(* and holds the parser's reading against a recorded baseline.             *)
(*                                                                         *)
(* A capture is the form a market had in a response; what the parser makes *)
(* of a form is `reading`, which a change of the parser changes.           *)
(***************************************************************************)
EXTENDS Integers, FiniteSets, Functions

CONSTANTS
    Markets, Forms,   \* condition ids; the forms a payload of one may have
    Endpoints,        \* numbered in the order of their file names
    Days, Moments,    \* a capture's day and its millisecond in it
    Readings,         \* interpretations, or NoReading for one not parseable
    NoReading,
    MaxCaptures, MaxParsers \* bounds

ASSUME ArchivedAssumption ==
    /\ Endpoints \subseteq Int /\ Days \subseteq Int /\ Moments \subseteq Int
    /\ IsFiniteSet(Days)

VARIABLES
    captures,         \* the archive, a capture per file
    dayOrder,         \* the order the file system lists the days in
    reading,          \* form -> what the parser makes of it
    baseline,         \* market -> reading recorded, or NoReading; <<>>: no file
    basis,            \* the archive the baseline was made of (history)
    report,           \* of the last comparison: differences, new and missing markets
    parsers

archiveReplayVars == <<captures, dayOrder, reading, baseline, basis, report, parsers>>

NoReport == [made |-> FALSE, differences |-> {}, new |-> {}, missing |-> {}]

-----------------------------------------------------------------------------
\* files(): by day as the file system lists them, in a day by file name, which
\* is the endpoint and then the millisecond.
Position(day) == CHOOSE i \in DOMAIN dayOrder : dayOrder[i] = day
Before(a, b) ==
    \/ Position(a.day) < Position(b.day)
    \/ a.day = b.day /\ a.endpoint < b.endpoint
    \/ a.day = b.day /\ a.endpoint = b.endpoint /\ a.at < b.at

\* iter_markets(): the last file of a market counts.
LastWins(market) == CHOOSE c \in {d \in captures : d.market = market} :
    \A d \in captures : d.market = market => d = c \/ Before(d, c)

\* interpret()
Archived == {c.market : c \in captures}
Interpret == [m \in Markets |-> IF m \in Archived THEN reading[LastWins(m).form] ELSE NoReading]
Read(interpretation) == {m \in Markets : interpretation[m] # NoReading}

ReplayInit ==
    /\ captures = {} /\ dayOrder \in {s \in [1..Cardinality(Days) -> Days] : IsInjective(s)}
    /\ reading \in [Forms -> Readings]
    /\ baseline = <<>> /\ basis = {} /\ report = NoReport
    /\ parsers = 0

\* ResponseArchive.write(), as time goes on; in one millisecond the file of an
\* endpoint is written over.
Capture(c) ==
    /\ Cardinality(captures) < MaxCaptures
    /\ \A d \in captures : d.day <= c.day /\ (d.day = c.day => d.at <= c.at)
    /\ captures' = {c} \cup
         {d \in captures : <<d.day, d.endpoint, d.at>> # <<c.day, c.endpoint, c.at>>}
    /\ report' = NoReport
    /\ UNCHANGED <<dayOrder, reading, baseline, basis, parsers>>

WriteBaseline ==
    /\ captures # {}
    /\ baseline' = Interpret /\ basis' = captures /\ report' = NoReport
    /\ UNCHANGED <<captures, dayOrder, reading, parsers>>

\* Another version of the parser.
ParserChanges(r) ==
    /\ parsers < MaxParsers /\ r # reading
    /\ parsers' = parsers + 1 /\ reading' = r /\ report' = NoReport
    /\ UNCHANGED <<captures, dayOrder, baseline, basis>>

Compared ==
    [made        |-> TRUE,
     differences |-> {m \in Read(Interpret) \cap Read(baseline) : Interpret[m] # baseline[m]},
     new         |-> Read(Interpret) \ Read(baseline),
     missing     |-> Read(baseline) \ Read(Interpret)]

\* compare_to_baseline()
CompareToBaseline ==
    /\ baseline # <<>>
    /\ report' = Compared
    /\ UNCHANGED <<captures, dayOrder, reading, baseline, basis, parsers>>

ReplayNext ==
    \/ \E c \in [day : Days, endpoint : Endpoints, at : Moments, market : Markets, form : Forms] : Capture(c)
    \/ WriteBaseline \/ CompareToBaseline
    \/ \E r \in [Forms -> Readings] : ParserChanges(r)

ReplaySpec == ReplayInit /\ [][ReplayNext]_archiveReplayVars

-----------------------------------------------------------------------------
FormsOf(archive, m) == {c.form : c \in {d \in archive : d.market = m}}

\* A difference is a change of the parser, or the market had more than one form
\* in the archive; and a parser that reads a market's only form otherwise than
\* the baseline does is always reported, as a difference or as a market lost.
DifferencesAreReal ==
    \A m \in Markets :
      /\ m \in report.differences => \/ parsers > 0
                                   \/ Cardinality(FormsOf(captures, m) \cup FormsOf(basis, m)) > 1
      /\ report.made /\ m \in Read(baseline) =>
           \A f \in FormsOf(captures, m) :
             FormsOf(captures, m) \cup FormsOf(basis, m) = {f} =>
               (m \in report.differences \cup report.missing <=> reading[f] # baseline[m])

=============================================================================
