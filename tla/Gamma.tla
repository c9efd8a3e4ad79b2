-------------------------------- MODULE Gamma --------------------------------
(***************************************************************************)
(* Gamma, the venue's catalogue of markets: the requests for a market, the *)
(* archived responses and their replay, and the shapes of the payloads.    *)
(* The three share no state; what is concluded from the answers is here.   *)
(***************************************************************************)
EXTENDS GammaRequests, GammaArchive, SchemaRegistry

\* That a market is not there, that an interpretation changed, that a payload
\* has a shape seen before: what is concluded from Gamma's answers is so
\* (gamma/client.py:126-245, gamma/replay.py:109-180, gamma/schema.py:215-329).
GammaIsReadRight == LookupIsConclusive /\ DifferencesAreReal /\ ShapesKeepTheirVersion

=============================================================================
