----------------------------- MODULE TickArchive -----------------------------
(***************************************************************************)
(* The archive of raw frames (live/archive.py), for one feed: frames wait  *)
(* in a buffer, go to the gzip file of the hour of the newest of them, and *)
(* are read back for replay.  A file is a sequence of gzip members: every  *)
(* opening appends one, a close ends it, a kill leaves it without its end. *)
(* A kill may come between the frame and the flush it makes due, and a     *)
(* flush that fails keeps the buffer, whatever it had written of it.       *)
(*                                                                         *)
(* Frames are numbered as they arrive; frame n arrives in hour HourOf[n].  *)
(***************************************************************************)
EXTENDS Integers, SequencesExt

CONSTANTS
    HourOf,           \* the hours frames arrive in
    DayOf,            \* the day of an hour: the directory of its file
    BufferFrames,     \* archive_buffer_frames
    MaxKills,         \* bound
    MaxFaults         \* bound on the flushes that fail

ASSUME ArchiveAssumption ==
    /\ HourOf \in Seq(Nat \ {0}) /\ BufferFrames \in Nat \ {0}
    /\ \A i, j \in DOMAIN HourOf : i <= j => HourOf[i] <= HourOf[j]
    /\ DOMAIN DayOf = Range(HourOf)

VARIABLES
    arrived,          \* frames_written: the number of frames given to write()
    buffer,           \* _buffers[feed]
    due,              \* write() found the buffer full and has yet to flush it
    open,             \* _hours[feed]: the hour of the open file, or NoHour
    files,            \* hour -> members of its file
    kills, faults,    \* the kills, and the flushes that failed
    lost              \* frames that died in a buffer (history)

archiveVars == <<arrived, buffer, due, open, files, kills, faults, lost>>

NoHour == 0
Hours == Range(HourOf)
Member(frames, ended) == [frames |-> frames, ended |-> ended]

-----------------------------------------------------------------------------
\* _close_feed(): the end of the member is written.
Closed(f, hour) ==
    IF hour = NoHour THEN f
    ELSE [f EXCEPT ![hour] = [@ EXCEPT ![Len(@)].ended = TRUE]]

\* A slip: the file is opened for writing instead of appending.
OpenNew(f, hour) == [f EXCEPT ![hour] = <<Member(<<>>, FALSE)>>]

\* gzip.open(path, "at"): a new member behind those the file has.
OpenFor(f, hour) == [f EXCEPT ![hour] = Append(@, Member(<<>>, FALSE))]

\* _handle(): the file changes with the hour.
Handle(hour) == IF open = hour THEN files ELSE OpenFor(Closed(files, open), hour)

\* Frames behind those of the file of an hour.
Put(frames, hour) ==
    LET members == Handle(hour)[hour]
        filled == Member(Last(members).frames \o frames, Last(members).ended)
    IN  [Handle(hour) EXCEPT ![hour] = [members EXCEPT ![Len(members)] = filled]]

\* _flush_feed(): the whole buffer, into the file of its newest frame's hour.
BufferHour == HourOf[Last(buffer)]
Flushed == Put(buffer, BufferHour)

ArchiveInit ==
    /\ arrived = 0 /\ buffer = <<>> /\ due = FALSE /\ open = NoHour
    /\ files = [h \in Hours |-> <<>>]
    /\ kills = 0 /\ faults = 0 /\ lost = {}

\* write(), up to the flush of a full buffer.
Write ==
    /\ ~due /\ arrived < Len(HourOf)
    /\ arrived' = arrived + 1
    /\ buffer' = Append(buffer, arrived + 1)
    /\ due' = (Len(buffer) + 1 >= BufferFrames)
    /\ UNCHANGED <<open, files, kills, faults, lost>>

\* The flush that write() owes, or flush().
Flush ==
    /\ buffer # <<>>
    /\ files' = Flushed /\ open' = BufferHour /\ buffer' = <<>> /\ due' = FALSE
    /\ UNCHANGED <<arrived, kills, faults, lost>>

\* A flush that raises before buffer.clear(): while it changes files, with the
\* old one ended or not, or once it has written none, some or all of the buffer.
FlushFails ==
    /\ buffer # <<>> /\ faults < MaxFaults
    /\ faults' = faults + 1 /\ due' = FALSE
    /\ \/ /\ open # BufferHour /\ open' = NoHour
          /\ files' \in {files, Closed(files, open)}
       \/ /\ open' = BufferHour
          /\ \E n \in 0..Len(buffer) : files' = Put(SubSeq(buffer, 1, n), BufferHour)
    /\ UNCHANGED <<arrived, buffer, kills, lost>>

\* close() and a later start.
Close ==
    /\ ~due
    /\ buffer # <<>> \/ open # NoHour
    /\ files' = IF buffer = <<>> THEN Closed(files, open) ELSE Closed(Flushed, BufferHour)
    /\ buffer' = <<>> /\ open' = NoHour
    /\ UNCHANGED <<arrived, due, kills, faults, lost>>

\* A kill, or a close() whose flush fails.
KillArchive ==
    /\ kills < MaxKills
    /\ buffer # <<>> \/ open # NoHour
    /\ kills' = kills + 1
    /\ lost' = lost \cup Range(buffer)
    /\ buffer' = <<>> /\ open' = NoHour /\ due' = FALSE
    /\ UNCHANGED <<arrived, files, faults>>

ArchiveNext == Write \/ Flush \/ FlushFails \/ Close \/ KillArchive
ArchiveSpec == ArchiveInit /\ [][ArchiveNext]_archiveVars

-----------------------------------------------------------------------------
AllFrames(members) == FlattenSeq([i \in DOMAIN members |-> members[i].frames])

\* A member without its end, and another behind it: the decoder takes the next
\* header for a block and raises zlib.error, which read_frames() does not catch.
Unreadable(members) == \E i \in 1..(Len(members) - 1) : ~members[i].ended

\* read_frames(); the last member may lack its end.
ReadFrames(hour) == IF Unreadable(files[hour]) THEN <<>> ELSE AllFrames(files[hour])

\* files(): the days in the order the directory lists them, which is any; the
\* files of a day in the order of their names.
HoursOf(day) == {h \in Hours : DayOf[h] = day}
Replayed(day) == FlattenSeq([i \in 1..Cardinality(HoursOf(day)) |->
                   ReadFrames(CHOOSE h \in HoursOf(day) :
                                Cardinality({g \in HoursOf(day) : g < h}) = i - 1)])

\* Frames in the order they arrived, none twice; once a flush has failed, a
\* frame that was there before may come again.
InOrder(s) ==
    \A i, j \in DOMAIN s :
      i < j => s[i] < s[j] \/ (faults > 0 /\ \E k \in 1..i : s[k] = s[j])

\* Frames read back on some day, and frames in files that cannot be read.
ReadBack == UNION {Range(Replayed(DayOf[h])) : h \in Hours}
CutOff == UNION {Range(AllFrames(files[h])) : h \in {g \in Hours : Unreadable(files[g])}}

\* What is read back of a day came in the order it arrived, none twice but what
\* a failed flush left to be written again, in a file no earlier than its hour;
\* every frame that arrived is read back on some day, but those in the buffer,
\* those a kill took from it, a buffer each time and a frame more for each flush
\* that had failed, and those in a file that a kill cut and a restart within the
\* hour wrote on.
ReplayIsWhatArrived ==
    /\ \A h \in Hours : InOrder(Replayed(DayOf[h]))
    /\ \A h \in Hours : \A n \in Range(ReadFrames(h)) : HourOf[n] <= h
    /\ 1..arrived = ReadBack \cup Range(buffer) \cup lost \cup CutOff
    /\ Cardinality(lost) <= kills * (BufferFrames + faults)
    /\ kills = 0 /\ faults = 0 => \A h \in Hours : ~Unreadable(files[h])

=============================================================================
