---------------------------- MODULE SchemaRegistry ----------------------------
(***************************************************************************)
(* The shapes of Gamma's payloads (gamma/schema.py): a contract each       *)
(* payload is checked against, a fingerprint of its field names and types, *)
(* and a file that numbers the fingerprints in the order they were seen.   *)
(* Every process that discovers markets keeps the file's content in memory *)
(* and writes all of it at every check; nothing keeps two of them apart.   *)
(*                                                                         *)
(* A payload is three objects, each a function from field to JSON type,    *)
(* Lacking for a field it lacks; `eventsAre` and `seriesAre` are "list"    *)
(* where the list holds the inner object, else "empty" or "bare", a list   *)
(* of something else.                                                      *)
(***************************************************************************)
EXTENDS Integers, FiniteSetsExt, SequencesExt

CONSTANTS
    Contract,         \* scope -> field -> [types, required]
    Documents,        \* what Gamma may answer
    Checkers,         \* processes with a SchemaChecker
    Strict,           \* schema_check.strict
    MaxChecks         \* bound

Lacking == "absent"
Scopes == {"market", "event", "series"}

\* A series must have its slug and its recurrence.
ASSUME SchemaAssumption ==
    /\ DOMAIN Contract = Scopes /\ Strict \in BOOLEAN
    /\ \E f \in DOMAIN Contract["series"] : Contract["series"][f].required

VARIABLES
    file,             \* the registry file, or TornRegistry
    registry,         \* process -> _versions and _next_version, or Shut
    verdicts,         \* fingerprints and what check_or_raise() said (history)
    sighted,          \* the fingerprints in the order they were first numbered (history)
    answers,          \* fingerprints and the versions given them (history)
    spoilt,           \* a write undid another's, or the file was torn (history)
    checks

schemaVars == <<file, registry, verdicts, sighted, answers, spoilt, checks>>

NoShapes == [versions |-> {}, next |-> 1]
Shut == [versions |-> {}, next |-> 0]
TornRegistry == [versions |-> {}, next |-> -1]

-----------------------------------------------------------------------------
(* The contract. *)

\* The objects check() looks into.
Opened(p) ==
    {"market"} \cup (IF p.eventsAre = "list" THEN {"event"} ELSE {})
               \cup (IF p.eventsAre = "list" /\ p.seriesAre = "list" THEN {"series"} ELSE {})
TypeOf(p, scope, f) == IF f \in DOMAIN p[scope] THEN p[scope][f] ELSE Lacking

\* FieldContract.check()
Broken(p, scope, f) ==
    LET type == TypeOf(p, scope, f)
        spec == Contract[scope][f]
    IN  IF type \in {Lacking, "null"} THEN spec.required ELSE type \notin spec.types

Fields(p, required) ==
    {field \in UNION {{s} \X DOMAIN Contract[s] : s \in Opened(p)} :
        /\ Contract[field[1]][field[2]].required = required
        /\ Broken(p, field[1], field[2])}
Breaking(p) ==
    Fields(p, TRUE) \cup (IF p.eventsAre = "list" /\ p.seriesAre # "list" THEN {<<"event", "series">>} ELSE {})
Changed(p) == Fields(p, FALSE)

\* check_or_raise()
Accepts(p) == Breaking(p) = {} /\ (Strict => Changed(p) = {})

\* _fingerprint(): names and types; an empty list counts as one empty object.
Types(p, scope) == {<<scope, f, p[scope][f]>> : f \in {g \in DOMAIN p[scope] : p[scope][g] # Lacking}}
Fingerprint(p) == UNION {Types(p, s) : s \in Opened(p)}

-----------------------------------------------------------------------------
(* The registry. *)

VersionsOf(r, shape) == {v \in r.versions : v.shape = shape}
Numbered(r, shape) == [versions |-> r.versions \cup {[shape |-> shape, version |-> r.next]}, next |-> r.next + 1]

\* A slip: the file is written before the next version is counted up.
SavedEarly(r, shape) ==
    IF VersionsOf(r, shape) # {} THEN r ELSE [Numbered(r, shape) EXCEPT !.next = r.next]

\* version_for(): what it writes.
Saved(r, shape) == IF VersionsOf(r, shape) # {} THEN r ELSE Numbered(r, shape)

SchemaInit ==
    /\ file = NoShapes /\ registry = [c \in Checkers |-> Shut]
    /\ verdicts = {} /\ sighted = <<>> /\ answers = {} /\ spoilt = FALSE
    /\ checks = 0

\* _load(): a file that does not parse is an empty registry.
OpenChecker(c) ==
    /\ registry[c] = Shut
    /\ registry' = [registry EXCEPT ![c] = IF file = TornRegistry THEN NoShapes ELSE file]
    /\ UNCHANGED <<file, verdicts, sighted, answers, spoilt, checks>>

CloseChecker(c) ==
    /\ registry[c] # Shut
    /\ registry' = [registry EXCEPT ![c] = Shut]
    /\ UNCHANGED <<file, verdicts, sighted, answers, spoilt, checks>>

\* check_or_raise()
Check(c, p) ==
    /\ registry[c] # Shut /\ checks < MaxChecks
    /\ LET shape == Fingerprint(p)
           known == VersionsOf(registry[c], shape) # {}
       IN  /\ registry' = [registry EXCEPT ![c] = IF known THEN @ ELSE Numbered(@, shape)]
           /\ file' = Saved(registry[c], shape)
           /\ answers' = answers \cup VersionsOf(registry'[c], shape)
           /\ sighted' = IF known THEN sighted ELSE Append(sighted, shape)
           /\ verdicts' = verdicts \cup {[shape |-> shape, accepted |-> Accepts(p)]}
    /\ spoilt' = (spoilt \/ file # registry[c])
    /\ checks' = checks + 1

\* Killed while it writes the file.
KillChecker(c) ==
    /\ registry[c] # Shut
    /\ registry' = [registry EXCEPT ![c] = Shut]
    /\ file' = TornRegistry /\ spoilt' = TRUE
    /\ UNCHANGED <<verdicts, sighted, answers, checks>>

SchemaNext ==
    \E c \in Checkers : \/ OpenChecker(c) \/ CloseChecker(c) \/ KillChecker(c)
                        \/ \E p \in Documents : Check(c, p)

SchemaSpec == SchemaInit /\ [][SchemaNext]_schemaVars

-----------------------------------------------------------------------------
\* schema.py:22: "Every distinct field/type shape gets a fingerprint and a
\* monotonically increasing schema version, persisted".  Over restarts, and as
\* long as no process wrote over another's file and none was killed in a write,
\* the n-th shape ever seen has version n.
\* A fingerprint settles the verdict, so a shape that was reviewed stays
\* reviewed, but for the empty fingerprint of `events`, which an empty list
\* shares with a list of an empty object.
ShapesKeepTheirVersion ==
    /\ ~spoilt => answers = {[shape |-> sighted[i], version |-> i] : i \in DOMAIN sighted}
    /\ \A a, b \in verdicts :
         a.shape = b.shape /\ (\E t \in a.shape : t[1] = "event") => a.accepted = b.accepted

=============================================================================
