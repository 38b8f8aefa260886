------------------------------ MODULE LogTail ------------------------------
(***************************************************************************)
(* How the detector reads a log: authmon/logtail.py with table log_offsets *)
(* of authmon/state.py, and the passes of detector/detect.py over one log, *)
(* while the service that writes it goes on and logrotate replaces it.     *)
(*                                                                         *)
(* A file is a sequence of pieces: what the writer flushed at once.  A     *)
(* line is one piece or several; the last one carries the newline.  Sizes  *)
(* and offsets count pieces.  What the detector makes of a line is not     *)
(* modelled here: a line is scored when its signals are committed.         *)
(***************************************************************************)
EXTENDS Integers, Sequences, FiniteSetsExt

CONSTANTS
    Inodes,       \* inode numbers the path may have
    MaxChunk,     \* MAX_BYTES_PER_READ
    MaxLine,      \* the longest line the service writes
    MaxPieces,    \* bound on what is written
    MaxRotations, \* bound on rotations and truncations
    MaxCrashes    \* bound on crashes of the detector

ASSUME TailAssumption ==
    /\ Inodes # {} /\ Inodes \subseteq Nat
    /\ MaxChunk \in Nat \ {0} /\ MaxLine \in 1..MaxChunk
    /\ {MaxPieces, MaxRotations, MaxCrashes} \subseteq Nat

VARIABLES
    file,      \* the file at the path: pieces [line, first, last]
    inode,     \* its inode
    lines,     \* lines begun so far
    saved,     \* the row of table log_offsets, or NoOffset
    pc,        \* where the detector's pass is
    stat,      \* the inode that os.stat returned
    offset,    \* where the pass resumes
    chunk,     \* what it read
    batch,     \* the lines it is about to score
    scored,    \* the lines scored, in order
    written, rotations, crashes,  \* how much of their bounds is used
    complete,  \* history: the lines that got their newline
    savedFor,  \* history: the value of rotations when the saved file was new
    statFor,   \* history: the same for the file of the pass
    excused,   \* history: lines lost by a rotation or a crash
    raced      \* history: was the file replaced between stat and open?

disk == <<file, inode, lines, written, rotations, complete>>
pass == <<pc, stat, statFor, offset, chunk, batch>>
table == <<saved, savedFor>>
tailVars == <<disk, pass, table, scored, crashes, excused, raced>>

NoOffset == [inode |-> -1, offset |-> 0]

Elements(s) == {s[i] : i \in DOMAIN s}
LinesOf(pieces) == {piece.line : piece \in Elements(pieces)}

----------------------------------------------------------------------------
(* The service and logrotate.                                              *)

\* The line at the end of the file, if it has no newline yet.
OpenPieces == {i \in DOMAIN file : /\ file[i].line = file[Len(file)].line
                                   /\ ~file[Len(file)].last}

Write(last) ==
    /\ written < MaxPieces
    /\ last \/ Cardinality(OpenPieces) + 1 < MaxLine
    /\ lines' = IF OpenPieces = {} THEN lines + 1 ELSE lines
    /\ file' = Append(file, [line |-> lines', first |-> OpenPieces = {},
                             last |-> last])
    /\ complete' = IF last THEN complete \cup {lines'} ELSE complete
    /\ written' = written + 1
    /\ UNCHANGED <<inode, rotations, pass, table, scored, crashes, excused,
                   raced>>

\* A new file takes the path, perhaps with the inode of a deleted one; with
\* the same inode it is also what copytruncate does.  The lines that nobody
\* read go with the old file.
Rotate(i) ==
    /\ rotations < MaxRotations
    /\ rotations' = rotations + 1
    /\ inode' = i
    /\ file' = <<>>
    /\ excused' = excused \cup
                  (LinesOf(file) \ (Elements(scored) \cup Elements(batch)
                                       \cup LinesOf(chunk)))
    /\ raced' = (raced \/ pc = "open")
    /\ UNCHANGED <<lines, written, complete, pass, table, scored, crashes>>

----------------------------------------------------------------------------
(* read_new_lines and the pass around it.                                  *)

\* Mutant: no check that the file still has the saved length.
Resumed_unchecked == IF saved.inode = inode THEN saved.offset ELSE 0

\* Where to resume: at the saved offset in the same file, unless that file
\* got shorter.
Resumed ==
    IF saved.inode = inode /\ saved.offset <= Len(file)
    THEN saved.offset ELSE 0

\* os.stat and get_offset.  An offset saved for another file with the same
\* inode makes the pass skip lines of the new one.
StatFile ==
    /\ pc = "idle"
    /\ excused' = IF savedFor = rotations THEN excused
                  ELSE excused \cup {file[i].line :
                                        i \in (1..Resumed) \cap DOMAIN file}
    /\ stat' = inode
    /\ statFor' = rotations
    /\ offset' = Resumed
    /\ pc' = IF Resumed = Len(file) THEN "uptodate" ELSE "open"
    /\ UNCHANGED <<disk, chunk, batch, table, scored, crashes, raced>>

\* Nothing new: the offset is saved if it is not there yet.
UpToDate ==
    /\ pc = "uptodate"
    /\ saved' = [inode |-> stat, offset |-> offset]
    /\ savedFor' = statFor
    /\ pc' = "idle"
    /\ UNCHANGED <<disk, stat, statFor, offset, chunk, batch, scored, crashes,
                   excused, raced>>

\* open, seek and read, of the file that has the path by now; then the
\* incomplete line at the end is left out.
Read == SubSeq(file, offset + 1,
               IF offset + MaxChunk < Len(file) THEN offset + MaxChunk
                                                ELSE Len(file))

\* Mutant: a trailing partial line is consumed.
Consumed_whole(pieces) == pieces

\* chunk[: last_newline + 1]
Consumed(pieces) ==
    SubSeq(pieces, 1, Max({0} \cup {i \in DOMAIN pieces : pieces[i].last}))

ReadChunk ==
    /\ pc = "open"
    /\ chunk' = Consumed(Read)
    /\ pc' = "save"
    /\ UNCHANGED <<disk, stat, statFor, offset, batch, table, scored, crashes,
                   excused, raced>>

\* The lines of a chunk, from the first that begins in it to the last newline;
\* a file has them one after the other.  The end of a line whose beginning is
\* not in the chunk is some other text.
LinesIn(pieces) ==
    LET starts == {i \in DOMAIN pieces : pieces[i].first}
        newlines == {i \in DOMAIN pieces : pieces[i].last}
        begin == pieces[Min(starts)].line
        end == pieces[Max(newlines)].line
    IN  IF {} \in {starts, newlines} THEN <<>>
        ELSE [k \in 1..(end - begin + 1) |-> begin + k - 1]

\* Mutant: the length of the chunk is not added to the offset.
NewOffset_relative == Len(chunk)

NewOffset == offset + Len(chunk)

\* save_offset (state.py:286-294), committed before the lines are returned.
SaveOffset ==
    /\ pc = "save"
    /\ saved' = [inode |-> stat, offset |-> NewOffset]
    /\ savedFor' = statFor
    /\ batch' = LinesIn(chunk)
    /\ chunk' = <<>>
    /\ pc' = "score"
    /\ UNCHANGED <<disk, stat, statFor, offset, scored, crashes, excused,
                   raced>>

\* The handlers of all lines and the commit of their signals.
Score ==
    /\ pc = "score"
    /\ scored' = scored \o batch
    /\ batch' = <<>>
    /\ pc' = "idle"
    /\ UNCHANGED <<disk, stat, statFor, offset, chunk, table, crashes,
                   excused, raced>>

\* The pass dies; the timer starts another.
Crash ==
    /\ pc # "idle"
    /\ crashes < MaxCrashes
    /\ crashes' = crashes + 1
    /\ pc' = "idle"
    /\ chunk' = <<>> /\ batch' = <<>>
    /\ excused' = excused \cup Elements(batch)
                          \cup (LinesOf(chunk) \ LinesOf(file))
    /\ UNCHANGED <<disk, stat, statFor, offset, table, scored, raced>>

----------------------------------------------------------------------------
TailInit ==
    /\ file = <<>> /\ inode \in Inodes
    /\ lines = 0
    /\ saved = NoOffset
    /\ pc = "idle"
    /\ stat = -1 /\ offset = 0
    /\ chunk = <<>> /\ batch = <<>>
    /\ scored = <<>>
    /\ written = 0 /\ rotations = 0 /\ crashes = 0
    /\ complete = {}
    /\ savedFor = 0 /\ statFor = 0
    /\ excused = {}
    /\ raced = FALSE

PassStep == StatFile \/ UpToDate \/ ReadChunk \/ SaveOffset \/ Score

TailNext ==
    \/ \E last \in BOOLEAN : Write(last)
    \/ \E i \in Inodes : Rotate(i)
    \/ PassStep
    \/ Crash

TailSpec == TailInit /\ [][TailNext]_tailVars

----------------------------------------------------------------------------
\* Types of all variables.
Piece == [line : Nat, first : BOOLEAN, last : BOOLEAN]

TailTypeOK ==
    /\ file \in Seq(Piece) /\ chunk \in Seq(Piece)
    /\ inode \in Inodes
    /\ saved \in [inode : Inodes \cup {-1}, offset : 0..written]
    /\ pc \in {"idle", "uptodate", "open", "save", "score"}
    /\ stat \in Inodes \cup {-1} /\ offset \in 0..MaxPieces
    /\ batch \in Seq(Nat) /\ scored \in Seq(Nat)
    /\ written \in 0..MaxPieces /\ lines \in 0..written
    /\ rotations \in 0..MaxRotations /\ crashes \in 0..MaxCrashes
    /\ {savedFor, statFor} \subseteq 0..rotations
    /\ complete \cup excused \subseteq 1..lines
    /\ raced \in BOOLEAN

\* "reads exactly the new bytes once" (logtail.py:7): no line is scored
\* twice or before an earlier one, through rotations, truncations, reused
\* inodes and crashes, unless the file was replaced between stat and open.
ScoredOnceInOrder ==
    ~raced => \A i, j \in DOMAIN scored : i < j => scored[i] < scored[j]

\* No line is passed over: a line before a scored one was scored too, or is
\* one of those the code does lose: with a rotated file, under a reused inode
\* or in a crash (excused).  So nothing else loses a line; that a rotation
\* does lose some is what RotationLosesNothing refutes.
NothingSkipped ==
    ~raced => \A i \in DOMAIN scored : \A line \in 1..scored[i] :
                 line \in Elements(scored) \cup excused

\* Every line that got its newline and stays in the file until it is read is
\* scored by some pass: it waits for the end of half-written lines, full
\* chunks and crashes, but not for ever.  Lines that were lost (excused) or
\* raced for are the ones left out.
LineIsScored ==
    \A line \in 1..MaxPieces :
        line \in complete ~> (line \in Elements(scored) \cup excused \/ raced)

\* "rotation of the log causes no loss" (README-v5.md:52; "rotation-safe",
\* logtail.py:2): without crash and race, a complete line is scored, held by
\* the pass or in the file.  The code refutes it: it opens the path only, and
\* what the old file had not given up yet is never read.
RotationLosesNothing ==
    crashes = 0 /\ ~raced =>
        complete \subseteq Elements(scored) \cup Elements(batch)
                               \cup LinesOf(chunk) \cup LinesOf(file)
=============================================================================
