--------------------------- MODULE SuricataAdapter ---------------------------
(***************************************************************************)
(* dlads::SuricataAdapter (src/suricata_adapter.cpp): the thread of the    *)
(* Suricata detector, which opens eve.json once, seeks its end and reads   *)
(* line after line with std::getline, polling when it meets the end.  It   *)
(* has no inotify watch.                                                   *)
(*                                                                         *)
(* getline at the end of the file hands out what there is of a line, with  *)
(* the stream's end flag up; the next call fails for the flag alone.  The  *)
(* text of a line parses as JSON when both halves are there.               *)
(***************************************************************************)
EXTENDS LogFile

VARIABLES adapter,     \* where run() stands
          atEnd,       \* the stream's end flag
          begun,       \* history: where it began to read
          converted,   \* history: lines that became alerts, in order
          torn         \* history: lines cut between their halves by the end flag

adapterVars == <<adapter, atEnd, begun, converted, torn>>

AdapterTypeOK ==
    /\ adapter \in {"off", "open", "read", "stopped"} /\ atEnd \in BOOLEAN
    /\ begun \in 0..MaxLength
    /\ converted \in Seq(Nat) /\ torn \subseteq Nat
-----------------------------------------------------------------------------
LineOf(p) == p \div 3 + 1

\* The file is opened and its end sought, or the thread ends.
OpenEve ==
    /\ adapter = "open"
    /\ IF path = None
       THEN adapter' = "stopped" /\ UNCHANGED <<file, offset, begun>>
       ELSE /\ adapter' = "read" /\ file' = path
            /\ offset' = length[path] /\ begun' = offset'
    /\ UNCHANGED <<nameVars, length, writer, watchVars, atEnd, converted, torn>>

\* parse_eve_line() and the callback, for the pieces from p + 1 to q: nothing,
\* half a line, its text, its second half.
Convert(p, q) ==
    converted' = IF p % 3 = 0 /\ q = p + 2 THEN Append(converted, LineOf(p)) ELSE converted

\* getline() finds the newline.
GetLine ==
    /\ adapter = "read" /\ ~atEnd
    /\ NextNewline(offset) <= length[file]
    /\ offset' = NextNewline(offset)
    /\ Convert(offset, offset' - 1)
    /\ UNCHANGED <<nameVars, length, writer, watchVars, file, adapter, atEnd, begun, torn>>

\* getline() meets the end of the file after some characters.
GetTornLine ==
    /\ adapter = "read" /\ ~atEnd
    /\ offset < length[file] /\ length[file] < NextNewline(offset)
    /\ offset' = length[file] /\ atEnd' = TRUE
    /\ Convert(offset, offset')
    /\ torn' = IF offset' % 3 = 1 THEN torn \cup {LineOf(offset)} ELSE torn
    /\ UNCHANGED <<nameVars, length, writer, watchVars, file, adapter, begun>>

\* A bug: the end is sought again after each poll.
ClearEndSeeksEnd ==
    /\ adapter = "read" /\ (atEnd \/ offset = length[file])
    /\ atEnd' = FALSE /\ offset' = length[file]
    /\ UNCHANGED <<nameVars, length, writer, watchVars, file, adapter, begun, converted, torn>>

\* getline() fails: the flag is up, or nothing is left.  clear(), and sleep.
ClearEnd ==
    /\ adapter = "read" /\ (atEnd \/ offset = length[file])
    /\ atEnd' = FALSE
    /\ UNCHANGED <<fileVars, adapter, begun, converted, torn>>

\* stop_ is seen at the head of the loop.
StopAdapter ==
    /\ adapter = "read"
    /\ adapter' = "stopped" /\ file' = None
    /\ UNCHANGED <<nameVars, length, writer, watchVars, offset, atEnd, begun, converted, torn>>

AdapterInit(state) ==
    /\ adapter = state /\ atEnd = FALSE /\ begun = 0
    /\ converted = <<>> /\ torn = {}

AdapterStep == OpenEve \/ GetLine \/ GetTornLine \/ ClearEnd
=============================================================================
