------------------------------ MODULE JsonlFile ------------------------------
(***************************************************************************)
(* The append-only JSONL file every store of this system keeps its records *)
(* in (PaperJournal, SettlementSpecStore, LifecycleStore, DatasetStore):   *)
(* a record is written as one line ending in a newline, and a reader skips *)
(* the lines that do not parse.  A write cut short leaves a line without   *)
(* its newline, and the next append continues on that line.                *)
(*                                                                         *)
(* A file is its finished lines and its unfinished one (a sequence of at   *)
(* most one entry); every record has a field kind.                         *)
(***************************************************************************)
EXTENDS Sequences, SequencesExt

Unparseable == [kind |-> "unparseable"]

EmptyFile == [lines |-> <<>>, tail |-> <<>>]

AppendUnterminated(f, rec) ==                \* variant: no newline is written
    [f EXCEPT !.tail = IF @ = <<>> THEN <<rec>> ELSE <<Unparseable>>]

\* handle.write(json.dumps(payload) + "\n") in mode "a".
AppendLine(f, rec) ==
    [lines |-> Append(f.lines, IF f.tail = <<>> THEN rec ELSE Unparseable),
     tail  |-> <<>>]

\* What may be on disk when that write is cut short: nothing of it, a part of
\* the line, or all of it but the newline.
AppendCutShort(f, rec) ==
    {f, [f EXCEPT !.tail = <<Unparseable>>]}
        \cup (IF f.tail = <<>> THEN {[f EXCEPT !.tail = <<rec>>]} ELSE {})

\* The records read_records() yields.
Readable(f) == ToSet(f.lines \o f.tail) \ {Unparseable}

=============================================================================
