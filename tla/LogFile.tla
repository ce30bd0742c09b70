------------------------------- MODULE LogFile -------------------------------
(***************************************************************************)
(* The log an agent reads, as the detectors see it: a path, the files that *)
(* were behind it, a writer that appends, someone who rotates, inotify,    *)
(* and the one descriptor of the detector (src/log_tailer.cpp and          *)
(* src/suricata_adapter.cpp say what they use of it).                      *)
(*                                                                         *)
(* A line is three pieces: half of its text, the rest of its text, the     *)
(* newline.  The content of a file is the number of its pieces; a write    *)
(* appends some.  Files are numbered as they are created and are never     *)
(* truncated.                                                              *)
(***************************************************************************)
EXTENDS Integers, Sequences

CONSTANTS MaxFiles,     \* bound on the files created at the path
          MaxLength,    \* bound on the pieces of a file
          MaxChanges    \* bound on the renames and removals

ASSUME FileAssumption == MaxFiles \in Nat /\ MaxLength \in Nat /\ MaxChanges \in Nat

VARIABLES path,      \* the file behind the path
          length,    \* pieces in each file
          created,   \* files created so far
          unlinked,  \* files that have no name any more
          changes,   \* history: the files renamed or removed, in order
          writer,    \* the file the logging program has open
          watched,   \* the file with an inotify watch
          wd,        \* the watch descriptor given out last
          events,    \* inotify's queue
          file,      \* the file the detector has open
          offset     \* its read position

nameVars  == <<path, created, unlinked, changes>>
watchVars == <<watched, wd, events>>
fileVars  == <<nameVars, length, writer, watchVars, file, offset>>

None  == 0
Files == 1..MaxFiles
Kinds == {"modify", "moveSelf", "deleteSelf", "ignored"}
Event == [wd : Nat, kind : Kinds]

FileTypeOK ==
    /\ path \in 0..created /\ writer \in 0..created
    /\ watched \in 0..created /\ file \in 0..created
    /\ created \in 0..MaxFiles /\ unlinked \subseteq Files
    /\ length \in [Files -> 0..MaxLength] /\ changes \in Seq(Files)
    /\ wd \in Nat /\ events \in Seq(Event)
    /\ offset \in 0..MaxLength
-----------------------------------------------------------------------------
\* The newline that ends the line piece p + 1 belongs to.
NextNewline(p) == 3 * (p \div 3) + 3

\* The pieces from p + 1 to q of a file, in order.
Pieces(f, p, q) == [i \in 1..(q - p) |-> <<f, p + i>>]

\* An event is queued for the watch on f, unless it repeats the last one waiting.
Notify(f, kind) ==
    LET e == [wd |-> wd, kind |-> kind]
    IN  events' = IF watched # f \/ (events # <<>> /\ events[Len(events)] = e)
                  THEN events ELSE Append(events, e)

\* A file without a name goes when nobody has it open, and its watch with it.
Vanish(f) ==
    /\ UNCHANGED wd
    /\ IF watched = f
       THEN /\ watched' = None
            /\ events' = events \o << [wd |-> wd, kind |-> "deleteSelf"],
                                      [wd |-> wd, kind |-> "ignored"] >>
       ELSE UNCHANGED <<watched, events>>
-----------------------------------------------------------------------------
\* The program writes n pieces at once.
Write(n) ==
    /\ writer # None /\ length[writer] + n <= MaxLength
    /\ length' = [length EXCEPT ![writer] = @ + n]
    /\ Notify(writer, "modify")
    /\ UNCHANGED <<nameVars, writer, watched, wd, file, offset>>

\* The program opens the log, first or again, and creates it where it is missing.
WriterOpens ==
    /\ writer # path \/ path = None
    /\ \/ path # None /\ UNCHANGED <<path, created>>
       \/ /\ path = None /\ created < MaxFiles
          /\ created' = created + 1 /\ path' = created'
    /\ writer' = path'
    /\ IF writer \in unlinked /\ writer # file THEN Vanish(writer) ELSE UNCHANGED watchVars
    /\ UNCHANGED <<length, unlinked, changes, file, offset>>

MayChange(f) == f \in (1..created) \ unlinked /\ Len(changes) < MaxChanges

Changed(f) == changes' = Append(changes, f)

\* Rotation by renaming; a file renamed already may be renamed once more, or back.
Rename(f) ==
    /\ MayChange(f) /\ Changed(f)
    /\ \/ f = path /\ path' = None
       \/ f # path /\ path' = path
       \/ f # path /\ path = None /\ path' = f
    /\ Notify(f, "moveSelf")
    /\ UNCHANGED <<length, created, unlinked, writer, watched, wd, file, offset>>

\* Removal: as long as the writer or the detector has the file open, inotify
\* says nothing that a watch for modifications, moves and deletions would get.
Unlink(f) ==
    /\ MayChange(f) /\ Changed(f)
    /\ unlinked' = unlinked \cup {f}
    /\ path' = IF f = path THEN None ELSE path
    /\ IF f \notin {writer, file} THEN Vanish(f) ELSE UNCHANGED watchVars
    /\ UNCHANGED <<length, created, writer, file, offset>>

\* The detector starts on a log that is missing, or has some content already.
FileInit ==
    /\ path \in {None, 1} /\ path <= MaxFiles /\ created = path /\ unlinked = {}
    /\ \E n \in 0..MaxLength : length = [f \in Files |-> IF f = path THEN n ELSE 0]
    /\ changes = <<>>
    /\ writer = path
    /\ watched = None /\ wd = 0 /\ events = <<>>
    /\ file = None /\ offset = 0

FileNext == \/ \E n \in 1..3 : Write(n)
            \/ WriterOpens
            \/ \E f \in Files : Rename(f) \/ Unlink(f)
=============================================================================
