-------------------------------- MODULE Feed --------------------------------
(***************************************************************************)
(* The agent's feed of lines: the detector that src/agent_main.cpp starts  *)
(* for its ids_mode, the LogTailer or the SuricataAdapter, on a log that   *)
(* is written and rotated meanwhile.                                       *)
(***************************************************************************)
EXTENDS LogTailer, SuricataAdapter

vars == <<fileVars, tailerVars, adapterVars>>

TypeOK == FileTypeOK /\ TailerTypeOK /\ AdapterTypeOK

\* One of the two runs.
Init == /\ FileInit
        /\ \/ TailerInit("open") /\ AdapterInit("off")
           \/ TailerInit("off") /\ AdapterInit("open")

Next == \/ FileNext /\ UNCHANGED <<tailerVars, adapterVars>>
        \/ (TailerStep \/ StopTailer) /\ UNCHANGED adapterVars
        \/ (AdapterStep \/ StopAdapter) /\ UNCHANGED tailerVars

\* A detector's thread runs when it can.  Nobody has to write or rotate.
Fairness == /\ WF_vars(TailerStep /\ UNCHANGED adapterVars)
            /\ WF_vars(AdapterStep /\ UNCHANGED tailerVars)

Spec == Init /\ [][Next]_vars /\ Fairness
-----------------------------------------------------------------------------
\* The strings between two positions: every line that ends there, the first
\* without what lies before.
LinesBetween(f, p, q) ==
    [i \in 1..(q \div 3 - p \div 3) |->
        Pieces(f, IF i = 1 THEN p ELSE 3 * (p \div 3 + i - 1), 3 * (p \div 3 + i) - 1)]

\* Each string the callback gets is one whole line of the file now open, in order
\* and none left out, however writes and read buffers cut it; what follows the
\* last newline waits in partial_.  Only the first may lack what was there before.
LinesAreWhole ==
    tailer \in {"watch", "poll", "event", "read", "split"} =>
        /\ delivered = LinesBetween(file, start, parsed)
        /\ partial = Pieces(file, IF parsed \div 3 = start \div 3 THEN start
                                  ELSE 3 * (parsed \div 3), parsed)

\* While the tailer waits and no event does, its watch is on the file behind the
\* path; but a file that was removed is followed as long as it is open.
NoticesRotation ==
    tailer = "poll" /\ events = <<>> =>
        \/ watched = path
        \/ watched \in unlinked /\ (watched = file \/ watched = writer)

\* A tailer that leaves a file has read all of it that was written before it
\* learnt of the rotation.
LeavesNothingBehind ==
    [][tailer = "event" /\ tailer' = "open" => offset >= due]_vars

Repeats == \E i, j \in 1..Len(changes) : i < j /\ changes[i] = changes[j]

\* No line is delivered twice unless some file was renamed or removed twice (back
\* to the path, or once more before the tailer took its watch away).
ReadsOnce == again => Repeats

Following == file # None /\ (tailer = "off" \/ watched = file)

\* What is appended to the file the detector has open, and watches, is read,
\* unless it leaves the file first.
AppendsAreRead ==
    \A n \in 1..MaxLength :
        (Following /\ length[file] >= n /\ n > quiet) ~> (~Following \/ offset >= n)

\* The adapter converts each line once and in order, and all that it has passed
\* but those that the end of the file cut in half under its eyes.
MissedWereTorn ==
    /\ \A i, j \in 1..Len(converted) : i < j => converted[i] < converted[j]
    /\ adapter = "read" =>
          \A p \in begun..offset :
             p % 3 = 0 /\ p + 2 <= offset =>
                 LineOf(p) \in torn \cup {converted[i] : i \in 1..Len(converted)}
-----------------------------------------------------------------------------
(* What makes these inductive. *)

Attached == {"poll", "event", "read", "split"}
Holding == Attached \cup {"watch"}

\* The reader is behind the writer, and what it has split behind what it has read.
InOrder ==
    /\ tailer = "off" \/ adapter = "off"
    /\ tailer = "open" => partial = <<>>
    /\ tailer = "watch" => parsed = start
    /\ tailer \in Holding => /\ file # None /\ start <= parsed
                             /\ parsed <= offset /\ offset <= length[file]
                             /\ tailer # "split" => parsed = offset
    /\ adapter = "read" => file # None /\ begun <= offset /\ offset <= length[file]

\* The tailer is going to leave its file.
WillRotate == \/ tailer # "poll" /\ rotated
              \/ \E i \in 1..Len(batch) : batch[i].kind \in Rotates
              \/ \E i \in 1..Len(events) : events[i].kind \in Rotates

IsInformed ==
    /\ tailer \in {"open", "watch", "poll"} => batch = <<>>
    /\ tailer \in Attached => \/ WillRotate
                              \/ watched = path /\ path # None
                              \/ watched \in unlinked /\ (watched = file \/ watched = writer)

\* A rotation is acted upon after a drain that began when it was known.
IsDrained ==
    tailer \in {"event", "read", "split"} =>
        due <= length[file] /\ (tailer = "event" /\ rotated => offset >= due)

\* The adapter has passed the text of each line it converted, and a line of which
\* it has had the first half only is torn.
IsPassed ==
    /\ adapter = "open" => converted = <<>>
    /\ adapter = "read" =>
        /\ \A i \in 1..Len(converted) : 3 * converted[i] - 1 <= offset
        /\ offset % 3 = 1 /\ begun < offset => LineOf(offset) \in torn

IInv == /\ TypeOK /\ InOrder /\ IsInformed /\ IsDrained /\ IsPassed
        /\ LinesAreWhole /\ MissedWereTorn
-----------------------------------------------------------------------------
\* No modification goes unnoticed: a tailer that waits, with no event queued, on the
\* file it watches has read it to its end, or nothing was appended since the watch
\* was added.  AppendsAreRead rests on it.
NothingWaits ==
    tailer = "poll" /\ events = <<>> /\ watched = file =>
        offset = length[file] \/ length[file] <= quiet

\* What makes it inductive: what was appended is being read, or an event that makes
\* the tailer drain is in the batch or in the queue.  The last one waiting may stand
\* for many writes.
Asks(s) == \E i \in 1..Len(s) : s[i].kind \in Drains

IsAsked ==
    tailer \in Attached /\ watched = file =>
        \/ offset = length[file] \/ length[file] <= quiet
        \/ tailer \in {"read", "split"}
        \/ Asks(batch) \/ Asks(events)
-----------------------------------------------------------------------------
(* What makes ReadsOnce inductive, beside the above. *)

WasChanged(f) == \E i \in 1..Len(changes) : changes[i] = f

\* Events that tell of a rotation, in the queue or in the batch.
Tells(s) == \E i \in 1..Len(s) : s[i].kind \in Rotates
TellsOnce(s) == \A i, j \in 1..Len(s) : s[i].kind \in Rotates /\ s[j].kind \in Rotates => i = j

Leaving == tailer \in {"event", "read", "split"} /\ rotated

IsKnown == /\ known \subseteq 1..created
           /\ \A f \in unlinked : WasChanged(f)
           /\ \A f \in Files : WasChanged(f) => f <= created
           /\ tailer \notin Attached => watched = None

\* While no file was changed twice, the one behind the path is the one that was not;
StillNamed == \A f \in 1..created : f = path <=> ~WasChanged(f)

\* a change is told of once, by the watch on the file that was changed;
ToldOnce ==
    /\ Leaving \/ Tells(batch) \/ Tells(events) =>
          /\ tailer \in Attached /\ watched \notin unlinked
          /\ watched = None \/ WasChanged(watched)
    /\ TellsOnce(batch) /\ TellsOnce(events)
    /\ Tells(batch) => ~Tells(events)
    /\ Leaving => ~Tells(batch) /\ ~Tells(events)

\* and the tailer stays with the file behind the path, once it delivered from it.
StaysWithPath ==
    /\ tailer \in Attached /\ file = path => watched = path
    /\ path \in known => tailer = "stopped" \/ (tailer \in Attached /\ watched = path)

OnceInv == /\ ReadsOnce /\ IsKnown
           /\ ~Repeats => StillNamed /\ ToldOnce /\ StaysWithPath
=============================================================================
