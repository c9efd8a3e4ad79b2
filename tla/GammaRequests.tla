---------------------------- MODULE GammaRequests ----------------------------
(***************************************************************************)
(* One lookup of a market by its condition id (gamma/client.py): queries,  *)
(* each a request with bounded retries, and what the venue may do to the   *)
(* market in between.  Gamma leaves closed markets out of a query that     *)
(* does not ask for them.                                                  *)
(***************************************************************************)
EXTENDS Integers, FiniteSets, Sequences

CONSTANTS
    MaxRetries        \* http.max_retries

ASSUME RequestAssumption == MaxRetries \in Nat

Life == {"open", "closed", "absent"}
Answers == {"ok", "refused", "busy", "timeout"}
Transient == {"busy", "timeout"}

VARIABLES
    market,           \* the market at the venue
    asked,            \* the `closed` argument of the lookup
    queries,          \* the filters still to ask with
    tries,            \* attempts of the request being made
    result,           \* "idle", "asking", "found", "none" or "error"
    saw, sent         \* states of the market, attempts, since the lookup began (history)

requestVars == <<market, asked, queries, tries, result, saw, sent>>

-----------------------------------------------------------------------------
\* market_by_condition_id(): the closed set first where it is not specified.
Queries(closed) == IF closed = "any" THEN <<"closed", "open">> ELSE <<closed>>

\* Time-outs, transport errors and _RETRYABLE_STATUS are tried again.
Retries(answer) == answer \in Transient /\ tries <= MaxRetries

RequestInit ==
    /\ market \in Life
    /\ asked = "any" /\ queries = <<>> /\ tries = 0 /\ result = "idle"
    /\ saw = {} /\ sent = 0

StartLookup(closed) ==
    /\ result = "idle"
    /\ asked' = closed /\ queries' = Queries(closed)
    /\ tries' = 1 /\ result' = "asking"
    /\ saw' = {market} /\ sent' = 0
    /\ UNCHANGED market

\* The market is listed, and closes for good.
MarketMoves(state) ==
    /\ <<market, state>> \in {<<"absent", "open">>, <<"open", "closed">>}
    /\ market' = state
    /\ saw' = IF result = "asking" THEN saw \cup {state} ELSE saw
    /\ UNCHANGED <<asked, queries, tries, result, sent>>

\* A response is read; the next query follows where it had no market.
Answered ==
    /\ result = "asking"
    /\ result' = IF market = Head(queries) THEN "found"
                 ELSE IF Len(queries) = 1 THEN "none" ELSE "asking"
    /\ queries' = Tail(queries) /\ tries' = 1
    /\ sent' = sent + 1
    /\ UNCHANGED <<market, asked, saw>>

\* An attempt of _request() fails: another one, or the error is raised.
RequestFails(answer) ==
    /\ result = "asking"
    /\ sent' = sent + 1
    /\ IF Retries(answer) THEN tries' = tries + 1 /\ UNCHANGED result
                          ELSE result' = "error" /\ UNCHANGED tries
    /\ UNCHANGED <<market, asked, queries, saw>>

Done == /\ result \in {"found", "none", "error"}
        /\ result' = "idle" /\ queries' = <<>> /\ tries' = 0 /\ saw' = {} /\ sent' = 0
        /\ UNCHANGED <<market, asked>>

RequestNext ==
    \/ \E closed \in {"any", "closed", "open"} : StartLookup(closed)
    \/ \E state \in Life : MarketMoves(state)
    \/ Answered
    \/ \E answer \in Answers \ {"ok"} : RequestFails(answer)
    \/ Done

RequestSpec == RequestInit /\ [][RequestNext]_requestVars

-----------------------------------------------------------------------------
\* An empty answer means what it says, although closed markets are out of an
\* unfiltered query and the market may close between the two queries: only a
\* market that was absent, in another state than the one asked for, or closing
\* meanwhile is not found.  A lookup sends no more than the configured retries
\* allow for its queries.
LookupIsConclusive ==
    /\ result = "none" => \/ "absent" \in saw \/ Cardinality(saw) > 1
                          \/ asked # "any" /\ saw # {asked}
    /\ sent <= 2 * (MaxRetries + 1)

=============================================================================
