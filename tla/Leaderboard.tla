----------------------------- MODULE Leaderboard -----------------------------
(***************************************************************************)
(* The leaderboard and its file (leaderboard/leaderboard.c): a table of    *)
(* three slots, kept in order of increasing time, that one run of the      *)
(* program reads from the file, adds entries to and writes back.           *)
(*                                                                         *)
(* An entry is an identity and a time; identities count the entries in the *)
(* order in which they are made, and 0 is a slot that was never assigned.  *)
(* A run uses the table in one of two ways.  Gamestate_init reads it and   *)
(* makes the leaderboard menu of it, without looking at the result of the  *)
(* reading.  The sequence in the comment of proj.c reads it, adds entries  *)
(* and writes it; it stops if the file cannot be read.                     *)
(***************************************************************************)
EXTENDS Integers, Sequences, FiniteSets

CONSTANTS
    Times,      \* the times an entry may have
    JunkTimes,  \* the times an unassigned slot may hold
    JunkCounts, \* the values an unassigned entry_count may have
    MaxAdds     \* bound: entries ever added

ASSUME TimesAssumption == Times \subseteq Nat /\ JunkTimes \subseteq Nat /\ JunkTimes # {}
ASSUME JunkCountsAssumption == JunkCounts \subseteq 0..255 /\ JunkCounts # {}
ASSUME MaxAddsAssumption == MaxAdds \in Nat

SLOTS == 3
Slots == 0..SLOTS - 1

VARIABLES
    phase,        \* "off": not running, "menu": the menu is made, "table": in
                  \* memory, "saving": file open
    entries,      \* leaderboard->entries
    entry_count,  \* leaderboard->entry_count
    opened,       \* the file could be opened for reading
    file,         \* the lines of leaderboard.txt
    made,         \* how many entries have been made
    known,        \* history: all entries this table is the outcome of
    saved,        \* history: all entries the file is the outcome of
    spoilt        \* history: a line that is no entry has been written

vars == <<phase, entries, entry_count, opened, file, made, known, saved, spoilt>>

Junk == [id : {0}, time : JunkTimes]

\* While the program does not run there is no table, and its memory is any.
AnyMemory == [i \in Slots |-> [id |-> 0, time |-> CHOOSE t \in JunkTimes : TRUE]]

Init ==
    /\ phase = "off"
    /\ entries = AnyMemory /\ entry_count = 0 /\ opened = FALSE /\ known = {}
    /\ file = << >>
    /\ made = 0 /\ saved = {} /\ spoilt = FALSE

-----------------------------------------------------------------------------
Least(a, b) == IF a <= b THEN a ELSE b

\* The lines Leaderboard_read_file looks at: it stops after three entries.
Seen == Least(SLOTS, Len(file))

ReadableShort == {n \in 0..Seen : \A i \in 1..Seen : file[i].id # 0 => i <= n + 1}

\* How many lines fscanf can take: the real ones, and then as many of the
\* others as happen to parse.
Readable == {n \in 0..Seen : \A i \in 1..Seen : file[i].id # 0 => i <= n}

\* The entries a file is the outcome of. Those a shorter file lost are lost.
Surviving == IF Len(file) < SLOTS THEN {e \in saved : \E i \in 1..Len(file) : e = file[i]}
                                  ELSE saved

\* Leaderboard_read_file, which returns 0.
Leaderboard_read_file ==
    /\ \E n \in Readable, junk \in [Slots -> Junk] :
          /\ entry_count' = n
          /\ entries' = [i \in Slots |-> IF i < n THEN file[i + 1] ELSE junk[i]]
    /\ opened' = TRUE
    /\ known' = Surviving
    /\ UNCHANGED <<file, made, saved, spoilt>>

\* Leaderboard_read_file, which returns 1: nothing is assigned.
CannotOpen ==
    /\ entries' \in [Slots -> Junk] /\ entry_count' \in JunkCounts
    /\ opened' = FALSE
    /\ UNCHANGED <<file, made, known, saved, spoilt>>

\* A run that shows the table: Menu_create_leaderboard makes a row of every
\* one of the first entry_count entries.
Gamestate_init ==
    /\ phase = "off"
    /\ Leaderboard_read_file \/ CannotOpen
    /\ phase' = "menu"

\* A run that changes the table.
Begin ==
    /\ phase = "off"
    /\ Leaderboard_read_file
    /\ phase' = "table"

PositionBeforeEqual(t) ==
    LET later == {i \in 0..entry_count - 1 : t <= entries[i].time}
    IN IF later = {} THEN entry_count ELSE CHOOSE i \in later : \A j \in later : i <= j

PositionPastEnd(t) ==
    LET later == {i \in 0..entry_count - 1 : t < entries[i].time}
    IN IF later = {} THEN entry_count + 1 ELSE CHOOSE i \in later : \A j \in later : i <= j

\* The first entry with a larger time makes room for the new one.
InsertPosition(t) ==
    LET later == {i \in 0..entry_count - 1 : t < entries[i].time}
    IN IF later = {} THEN entry_count ELSE CHOOSE i \in later : \A j \in later : i <= j

\* The entries from the position on move up by one, and the last one of a
\* full table falls out; a position behind a full table changes nothing.
Leaderboard_add_entry(t) ==
    LET new == [id |-> made + 1, time |-> t]
        pos == InsertPosition(t)
    IN /\ phase = "table" /\ made < MaxAdds
       /\ entries' = [i \in Slots |-> CASE i = pos -> new
                                        [] i > pos /\ i <= entry_count -> entries[i - 1]
                                        [] OTHER -> entries[i]]
       /\ entry_count' = IF pos < SLOTS /\ entry_count < SLOTS THEN entry_count + 1
                                                               ELSE entry_count
       /\ made' = made + 1
       /\ known' = known \cup {new}
       /\ UNCHANGED <<phase, opened, file, saved, spoilt>>

OpenKeepsFile ==
    /\ phase = "table"
    /\ phase' = "saving"
    /\ UNCHANGED <<entries, entry_count, opened, file, made, known, saved, spoilt>>

\* Leaderboard_write_file opens the file for writing, which empties it, ...
OpenForWriting ==
    /\ phase = "table"
    /\ phase' = "saving"
    /\ file' = << >>
    /\ UNCHANGED <<entries, entry_count, opened, made, known, saved, spoilt>>

\* ... and always prints three lines, ...
Lines == [i \in 1..SLOTS |-> entries[i - 1]]

\* ... which go to the beginning of the file, over what is there.
Overwritten(lines) == lines \o SubSeq(file, Len(lines) + 1, Len(file))

\* The stream holds them until it is closed. k lines reach the file then, and
\* perhaps the beginning of one more, which is no entry of the table.
Flush(k, rest) ==
    /\ phase = "saving"
    /\ file' = Overwritten(SubSeq(Lines, 1, k) \o rest)
    /\ saved' = known
    /\ spoilt' = (spoilt \/ k > entry_count \/ rest # << >>)
    /\ phase' = "table"
    /\ UNCHANGED <<entries, entry_count, opened, made, known>>

Close == Flush(SLOTS, << >>)

\* fclose fails, and its result is ignored.
CloseFails == \E k \in 0..SLOTS - 1, rest \in {<< >>} \cup {<<j>> : j \in Junk} : Flush(k, rest)

\* The run ends: without saving, or in the middle of it.
Stop ==
    /\ phase # "off"
    /\ phase' = "off"
    /\ entries' = AnyMemory /\ entry_count' = 0 /\ opened' = FALSE /\ known' = {}
    /\ UNCHANGED <<file, made, saved, spoilt>>

Next ==
    \/ Gamestate_init \/ Begin
    \/ \E t \in Times : Leaderboard_add_entry(t)
    \/ OpenForWriting \/ Close \/ CloseFails \/ Stop

Spec == Init /\ [][Next]_vars

-----------------------------------------------------------------------------
(* Properties. *)

\* The place of an entry among others: smaller times first, and of equal
\* times the one that was made first.
Place(e, s) == Cardinality({f \in s : f.time < e.time \/ (f.time = e.time /\ f.id < e.id)})

\* n entries, given as a function on 0..n-1, are the best of a set in order.
AreBest(es, n, s) ==
    /\ n = Least(SLOTS, Cardinality(s))
    /\ \A i \in 0..n - 1 : es[i] \in s /\ Place(es[i], s) = i

\* The table is the three best of everything that was ever added to it, in
\* order and with equal times in the order of adding, over any number of runs
\* of the program, saves and failing saves since the file was last empty,
\* unless a line was written that is no entry.
BestKept == (phase \in {"table", "saving"} /\ ~spoilt) => AreBest(entries, entry_count, known)

\* The rows of the leaderboard menu are the best of everything that was
\* written, and none is made of memory behind the table, unless the file
\* could not be opened or a line was written that is no entry.
MenuShowsFile ==
    (phase = "menu" /\ opened) =>
        /\ entry_count <= SLOTS
        /\ ~spoilt => AreBest(entries, entry_count, known)

\* A save that fails or is cut short costs the worst entries and no others:
\* the lines in the file are the best of all entries known when it was
\* written, best first, and never lines of two tables. It may be shorter than
\* the table, and is empty while a save is under way.
FileKeepsBest ==
    ~spoilt => \A i \in 1..Len(file) : file[i] \in saved /\ Place(file[i], saved) = i - 1

\* A slot that was never assigned, or a line that was cut off, is taken for an
\* entry only after a save of a table with fewer than three entries or one
\* that failed in the middle of a line.
JunkNeedsBadSave ==
    \A i \in Slots :
        (phase # "off" /\ opened /\ i < entry_count /\ entries[i].id = 0) => spoilt
=============================================================================
