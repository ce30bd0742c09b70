------------------------------ MODULE LogTailer ------------------------------
(***************************************************************************)
(* dlads::LogTailer (src/log_tailer.cpp): the thread of the built-in       *)
(* detector, which follows the log through inotify and hands each complete *)
(* line to the agent's callback.  `tailer' is where run() stands.  Between *)
(* any two of its system calls the log may grow or be rotated.             *)
(***************************************************************************)
EXTENDS LogFile

CONSTANTS ReadBuf,    \* READ_BUF, in pieces
          EventBuf    \* INOTIFY_BUF, in events

ASSUME TailerAssumption == ReadBuf \in Nat \ {0} /\ EventBuf \in Nat \ {0}

VARIABLES tailer,       \* where run() stands
          seekEnd,      \* still in the loop of the initial open
          batch,        \* events of the last read() not handled yet
          rotated,
          parsed,       \* how much of the file drain() has split
          partial,      \* partial_
          delivered,    \* history: strings delivered from the file now open
          start,        \* history: where in this file reading began
          quiet,        \* history: its length when the watch was added
          due,          \* history: its length when the batch was read
          known,        \* history: files a string was delivered from
          again         \* history: one of them was opened again

tailerVars == <<tailer, seekEnd, batch, rotated, parsed, partial,
                delivered, start, quiet, due, known, again>>

Piece == Files \X (1..MaxLength)

TailerTypeOK ==
    /\ tailer \in {"off", "open", "watch", "poll", "event", "read", "split", "stopped"}
    /\ seekEnd \in BOOLEAN /\ rotated \in BOOLEAN /\ again \in BOOLEAN
    /\ batch \in Seq(Event)
    /\ parsed \in 0..MaxLength /\ start \in 0..MaxLength /\ quiet \in 0..MaxLength
    /\ due \in 0..MaxLength
    /\ partial \in Seq(Piece) /\ delivered \in Seq(Seq(Piece))
    /\ known \subseteq Files
-----------------------------------------------------------------------------
\* attach(): open_file().  The first time the end is sought; what is there stays
\* unread.  When there is no file the loop sleeps and tries again.
Open ==
    /\ tailer = "open" /\ path # None
    /\ tailer' = "watch" /\ file' = path
    /\ offset' = IF seekEnd THEN length[path] ELSE 0
    /\ parsed' = offset' /\ start' = offset' /\ delivered' = <<>>
    /\ again' = (again \/ path \in known)
    /\ UNCHANGED <<nameVars, length, writer, watchVars,
                   seekEnd, batch, rotated, partial, quiet, due, known>>

\* attach(): inotify_add_watch(), on whatever is behind the path by now.
AddWatch ==
    /\ tailer = "watch" /\ path # None
    /\ tailer' = "poll" /\ seekEnd' = FALSE
    /\ watched' = path /\ wd' = wd + 1 /\ quiet' = length[file]
    /\ UNCHANGED <<nameVars, length, writer, events, file, offset, batch, rotated,
                   parsed, partial, delivered, start, due, known, again>>

\* It fails: no such file any more, or no watch to be had.
AddWatchFails ==
    /\ tailer = "watch"
    /\ tailer' = "open" /\ file' = None
    /\ UNCHANGED <<nameVars, length, writer, watchVars, offset, seekEnd, batch, rotated,
                   parsed, partial, delivered, start, quiet, due, known, again>>

\* A bug: rotated outlives the batch that set it.
ReadEventsKeepsRotated ==
    /\ tailer = "poll" /\ events # <<>>
    /\ batch' = events /\ events' = <<>>
    /\ tailer' = "event" /\ due' = length[file]
    /\ UNCHANGED <<nameVars, length, writer, watched, wd, file, offset, seekEnd, rotated,
                   parsed, partial, delivered, start, quiet, known, again>>

\* poll() and read() of the inotify descriptor.
ReadEvents ==
    /\ tailer = "poll" /\ events # <<>>
    /\ LET n == IF Len(events) < EventBuf THEN Len(events) ELSE EventBuf
       IN  /\ batch' = SubSeq(events, 1, n)
           /\ events' = SubSeq(events, n + 1, Len(events))
    /\ tailer' = "event" /\ rotated' = FALSE /\ due' = length[file]
    /\ UNCHANGED <<nameVars, length, writer, watched, wd, file, offset, seekEnd,
                   parsed, partial, delivered, start, quiet, known, again>>

\* Bugs: no drain before the file is left; renames are not watched for.
DrainsOnModify == {"modify"}
RotatesOnDeletion == {"deleteSelf"}

\* The kinds that make the tailer drain, and those that make it leave the file.
\* Which watch an event belongs to is not looked at.
Drains == {"modify", "moveSelf", "deleteSelf"}

Rotates == {"moveSelf", "deleteSelf"}

\* The next event of the batch: drain() for it, or nothing.
HandleEvent ==
    /\ tailer = "event" /\ batch # <<>>
    /\ batch' = Tail(batch)
    /\ rotated' = (rotated \/ Head(batch).kind \in Rotates)
    /\ tailer' = IF Head(batch).kind \in Drains THEN "read" ELSE "event"
    /\ UNCHANGED <<fileVars, seekEnd, parsed, partial, delivered, start, quiet, due, known, again>>

\* drain(): one read() of the file.
ReadChunk ==
    /\ tailer = "read" /\ offset < length[file]
    /\ tailer' = "split"
    /\ offset' = IF length[file] - offset < ReadBuf THEN length[file] ELSE offset + ReadBuf
    /\ UNCHANGED <<nameVars, length, writer, watchVars, file, seekEnd, batch, rotated,
                   parsed, partial, delivered, start, quiet, due, known, again>>

\* A bug: the drain ends after a read that was interrupted.
EndOfFileEarly ==
    /\ tailer = "read"
    /\ tailer' = "event"
    /\ UNCHANGED <<fileVars, seekEnd, batch, rotated, parsed, partial, delivered, start,
                   quiet, due, known, again>>

\* drain(): nothing more right now.
EndOfFile ==
    /\ tailer = "read" /\ offset = length[file]
    /\ tailer' = "event"
    /\ UNCHANGED <<fileVars, seekEnd, batch, rotated, parsed, partial, delivered, start,
                   quiet, due, known, again>>

\* drain(): the chunk has a newline; the callback gets the line before it.
DeliverLine ==
    /\ tailer = "split" /\ NextNewline(parsed) <= offset
    /\ parsed' = NextNewline(parsed)
    /\ delivered' = Append(delivered, partial \o Pieces(file, parsed, parsed' - 1))
    /\ partial' = <<>>
    /\ known' = known \cup {file}
    /\ tailer' = IF parsed' = offset THEN "read" ELSE "split"
    /\ UNCHANGED <<fileVars, seekEnd, batch, rotated, start, quiet, due, again>>

\* drain(): no newline, the rest of the chunk waits in partial_.
BufferRest ==
    /\ tailer = "split" /\ NextNewline(parsed) > offset
    /\ partial' = partial \o Pieces(file, parsed, offset)
    /\ parsed' = offset /\ tailer' = "read"
    /\ UNCHANGED <<fileVars, seekEnd, batch, rotated, delivered, start, quiet, due, known, again>>

\* The batch is handled and nothing was rotated.
NotRotated ==
    /\ tailer = "event" /\ batch = <<>> /\ ~rotated
    /\ tailer' = "poll"
    /\ UNCHANGED <<fileVars, seekEnd, batch, rotated, parsed, partial, delivered, start,
                   quiet, due, known, again>>

\* A bug: the unfinished line of the old file becomes the beginning of the new.
RotateKeepsPartial ==
    /\ tailer = "event" /\ batch = <<>> /\ rotated
    /\ tailer' = "open" /\ file' = None /\ watched' = None
    /\ UNCHANGED <<nameVars, length, writer, wd, events, offset, seekEnd, batch, rotated,
                   parsed, partial, delivered, start, quiet, due, known, again>>

\* inotify_rm_watch(), which leaves the events already queued, then close().
Rotate ==
    /\ tailer = "event" /\ batch = <<>> /\ rotated
    /\ tailer' = "open" /\ file' = None /\ partial' = <<>>
    /\ watched' = None
    /\ events' = IF watched = None THEN events
                 ELSE Append(events, [wd |-> wd, kind |-> "ignored"])
    /\ UNCHANGED <<nameVars, length, writer, wd, offset, seekEnd, batch, rotated,
                   parsed, delivered, start, quiet, due, known, again>>

\* stop_ is seen at the head of either loop; the descriptors are closed.
StopTailer ==
    /\ tailer \in {"open", "poll"}
    /\ tailer' = "stopped" /\ file' = None
    /\ watched' = None /\ events' = <<>>
    /\ UNCHANGED <<nameVars, length, writer, wd, offset, seekEnd, batch, rotated,
                   parsed, partial, delivered, start, quiet, due, known, again>>

TailerInit(state) ==
    /\ tailer = state /\ seekEnd = TRUE /\ batch = <<>> /\ rotated = FALSE
    /\ parsed = 0 /\ partial = <<>> /\ delivered = <<>>
    /\ start = 0 /\ quiet = 0 /\ due = 0 /\ known = {} /\ again = FALSE

TailerStep == \/ Open \/ AddWatch \/ AddWatchFails \/ ReadEvents \/ HandleEvent
              \/ ReadChunk \/ EndOfFile \/ DeliverLine \/ BufferRest
              \/ NotRotated \/ Rotate
=============================================================================
