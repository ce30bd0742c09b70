----------------------------- MODULE FeedProofs -----------------------------
(***************************************************************************)
(* What the two detectors make of the log, for every number of files,      *)
(* writes and rotations and every size of the buffers.                     *)
(***************************************************************************)
EXTENDS Feed, SequenceTheorems, TLAPS

-----------------------------------------------------------------------------
(* Lines and pieces. *)

LEMMA Thirds ==
    ASSUME NEW p \in Nat
    PROVE  /\ p \div 3 \in Nat /\ p % 3 \in 0..2 /\ p = (3 * (p \div 3)) + (p % 3)
           /\ NextNewline(p) \in Nat /\ p < NextNewline(p) /\ NextNewline(p) <= p + 3
           /\ NextNewline(p) \div 3 = (p \div 3) + 1 /\ NextNewline(p) % 3 = 0
           /\ NextNewline(p) = 3 * ((p \div 3) + 1)
BY DEF NextNewline

LEMMA SameLine ==
    ASSUME NEW p \in Nat, NEW q \in Nat, p <= q, q < NextNewline(p)
    PROVE  q \div 3 = p \div 3
BY DEF NextNewline

LEMMA PiecesSeq ==
    ASSUME NEW f \in Nat, NEW p \in Nat, NEW q \in Nat, p <= q
    PROVE  /\ Pieces(f, p, q) \in Seq(Nat \X Nat)
           /\ Len(Pieces(f, p, q)) = q - p
           /\ \A i \in 1..(q - p) : Pieces(f, p, q)[i] = <<f, p + i>>
BY DEF Pieces

LEMMA PiecesTyped ==
    ASSUME NEW f \in Files, NEW p \in Nat, NEW q \in 0..MaxLength, p <= q
    PROVE  Pieces(f, p, q) \in Seq(Piece)
BY FileAssumption DEF Pieces, Piece, Files

LEMMA PiecesJoin ==
    ASSUME NEW f \in Nat, NEW p \in Nat, NEW q \in Nat, NEW r \in Nat, p <= q, q <= r
    PROVE  Pieces(f, p, q) \o Pieces(f, q, r) = Pieces(f, p, r)
<1> DEFINE a == Pieces(f, p, q)
           b == Pieces(f, q, r)
           c == Pieces(f, p, r)
           T == Nat \X Nat
<1>1. /\ a \in Seq(T) /\ b \in Seq(T) /\ c \in Seq(T)
      /\ Len(a) = q - p /\ Len(b) = r - q /\ Len(c) = r - p
      /\ \A i \in 1..(q - p) : a[i] = <<f, p + i>>
      /\ \A i \in 1..(r - q) : b[i] = <<f, q + i>>
      /\ \A i \in 1..(r - p) : c[i] = <<f, p + i>>
  <2>1. a \in Seq(T) /\ Len(a) = q - p /\ \A i \in 1..(q - p) : a[i] = <<f, p + i>>
    BY DEF Pieces
  <2>2. b \in Seq(T) /\ Len(b) = r - q /\ \A i \in 1..(r - q) : b[i] = <<f, q + i>>
    BY DEF Pieces
  <2>3. c \in Seq(T) /\ Len(c) = r - p /\ \A i \in 1..(r - p) : c[i] = <<f, p + i>>
    <3>1. p <= r
      OBVIOUS
    <3>. QED
      BY <3>1 DEF Pieces
  <2>. QED
    BY <2>1, <2>2, <2>3
<1> HIDE DEF a, b, c, T
<1>2. /\ a \o b \in Seq(T) /\ Len(a \o b) = r - p
      /\ \A i \in 1..(r - p) : (a \o b)[i] = IF i <= q - p THEN a[i] ELSE b[i - (q - p)]
  <2>1. /\ a \o b \in Seq(T) /\ Len(a \o b) = Len(a) + Len(b)
        /\ \A i \in 1..(Len(a) + Len(b)) :
              (a \o b)[i] = IF i <= Len(a) THEN a[i] ELSE b[i - Len(a)]
    BY <1>1, ConcatProperties
  <2>2. Len(a) + Len(b) = r - p
    BY <1>1
  <2>. QED
    BY <1>1, <2>1, <2>2
<1>3. \A i \in 1..(r - p) : (a \o b)[i] = c[i]
  <2> SUFFICES ASSUME NEW i \in 1..(r - p) PROVE (a \o b)[i] = c[i]
    OBVIOUS
  <2>1. CASE i <= q - p
    <3>1. i \in 1..(q - p) /\ (a \o b)[i] = a[i]
      BY <1>2, <2>1
    <3>. QED
      BY <1>1, <3>1
  <2>2. CASE ~(i <= q - p)
    <3>1. i - (q - p) \in 1..(r - q) /\ q + (i - (q - p)) = p + i
      BY <2>2
    <3>2. (a \o b)[i] = b[i - (q - p)]
      BY <1>2, <2>2
    <3>3. b[i - (q - p)] = <<f, q + (i - (q - p))>>
      BY <1>1, <3>1
    <3>. QED
      BY <1>1, <3>1, <3>2, <3>3
  <2>. QED
    BY <2>1, <2>2
<1>. QED
  BY <1>1, <1>2, <1>3, SeqEqual DEF a, b, c

LEMMA NoPieces ==
    ASSUME NEW f \in Nat, NEW p \in Nat
    PROVE  Pieces(f, p, p) = <<>>
<1>1. Pieces(f, p, p) \in Seq(Nat \X Nat) /\ Len(Pieces(f, p, p)) = 0
  BY PiecesSeq
<1>. QED
  BY <1>1, EmptySeq

\* The first piece of the line that position q is in, of those read from p on.
FirstOf(p, q) == IF q \div 3 = p \div 3 THEN p ELSE 3 * (q \div 3)

Strings == Seq(Nat \X Nat)

\* The i-th string of those read from p on.
LineAt(f, p, i) ==
    Pieces(f, IF i = 1 THEN p ELSE 3 * ((p \div 3) + i - 1), 3 * ((p \div 3) + i) - 1)

LEMMA LineAtIsString ==
    ASSUME NEW f \in Nat, NEW p \in Nat, NEW i \in Nat \ {0}
    PROVE  LineAt(f, p, i) \in Strings
<1> DEFINE d == p \div 3
           from == IF i = 1 THEN p ELSE 3 * (d + i - 1)
           to == 3 * (d + i) - 1
<1>1. d \in Nat /\ p < 3 * (d + 1)
  BY Thirds
<1> HIDE DEF d
<1>2. from \in Nat /\ to \in Nat /\ from <= to
  BY <1>1, SMTT(30)
<1> HIDE DEF from, to
<1>3. Pieces(f, from, to) \in Seq(Nat \X Nat)
  BY <1>2, PiecesSeq
<1>. QED
  BY <1>3 DEF LineAt, Strings, from, to, d

LEMMA LinesAre ==
    ASSUME NEW f \in Nat, NEW p \in Nat, NEW q \in Nat, p <= q
    PROVE  /\ (q \div 3) - (p \div 3) \in Nat
           /\ LinesBetween(f, p, q) =
                 [i \in 1..((q \div 3) - (p \div 3)) |-> LineAt(f, p, i)]
           /\ \A i \in 1..((q \div 3) - (p \div 3)) : LineAt(f, p, i) \in Strings
<1>1. (q \div 3) - (p \div 3) \in Nat
  BY SMTT(30)
<1>2. LinesBetween(f, p, q) = [i \in 1..((q \div 3) - (p \div 3)) |-> LineAt(f, p, i)]
  BY DEF LinesBetween, LineAt
<1> DEFINE K == (q \div 3) - (p \div 3)
<1> HIDE DEF K
<1>3. \A i \in 1..K : LineAt(f, p, i) \in Strings
  BY <1>1, LineAtIsString DEF K
<1>. QED
  BY <1>1, <1>2, <1>3 DEF K

LEMMA LinesSeq ==
    ASSUME NEW f \in Nat, NEW p \in Nat, NEW q \in Nat, p <= q
    PROVE  LinesBetween(f, p, q) \in Seq(Strings)
<1> DEFINE K == (q \div 3) - (p \div 3)
<1>1. /\ K \in Nat /\ LinesBetween(f, p, q) = [i \in 1..K |-> LineAt(f, p, i)]
      /\ \A i \in 1..K : LineAt(f, p, i) \in Strings
  BY LinesAre
<1> HIDE DEF K
<1>. QED
  BY <1>1

LEMMA LinesLen ==
    ASSUME NEW f \in Nat, NEW p \in Nat, NEW q \in Nat, p <= q
    PROVE  Len(LinesBetween(f, p, q)) = (q \div 3) - (p \div 3)
<1> DEFINE K == (q \div 3) - (p \div 3)
<1>1. /\ K \in Nat /\ LinesBetween(f, p, q) = [i \in 1..K |-> LineAt(f, p, i)]
  BY LinesAre
<1> HIDE DEF K
<1>2. Len(LinesBetween(f, p, q)) = K
  BY <1>1
<1>. QED
  BY <1>2 DEF K

LEMMA LinesAt ==
    ASSUME NEW f \in Nat, NEW p \in Nat, NEW q \in Nat, p <= q,
           NEW i \in 1..Len(LinesBetween(f, p, q))
    PROVE  LinesBetween(f, p, q)[i] = LineAt(f, p, i)
<1> DEFINE K == (q \div 3) - (p \div 3)
<1>1. /\ K \in Nat /\ LinesBetween(f, p, q) = [j \in 1..K |-> LineAt(f, p, j)]
  BY LinesAre
<1> HIDE DEF K
<1>2. Len(LinesBetween(f, p, q)) = K
  BY <1>1
<1>. QED
  BY <1>1, <1>2

LEMMA NoLines ==
    ASSUME NEW f \in Nat, NEW p \in Nat
    PROVE  LinesBetween(f, p, p) = <<>>
<1>1. LinesBetween(f, p, p) = [i \in 1..((p \div 3) - (p \div 3)) |-> LineAt(f, p, i)]
  BY DEF LinesBetween, LineAt
<1>2. (p \div 3) - (p \div 3) = 0
  BY Thirds
<1>. QED
  BY <1>1, <1>2

\* What ends one line later has one string more.
LEMMA OneLineMore ==
    ASSUME NEW f \in Nat, NEW p \in Nat, NEW q \in Nat, p <= q
    PROVE  LinesBetween(f, p, NextNewline(q)) =
              Append(LinesBetween(f, p, q), LineAt(f, p, Len(LinesBetween(f, p, q)) + 1))
<1>1. PICK n \in Nat : n = NextNewline(q) /\ p <= n /\ n \div 3 = (q \div 3) + 1
  <2>1. /\ NextNewline(q) \in Nat /\ q < NextNewline(q)
        /\ NextNewline(q) \div 3 = (q \div 3) + 1
    BY Thirds
  <2>2. p <= NextNewline(q)
    BY <2>1
  <2>. QED
    BY <2>1, <2>2, Zenon
<1> DEFINE a == LinesBetween(f, p, q)
           b == LinesBetween(f, p, n)
           K == Len(a)
           e == LineAt(f, p, K + 1)
<1>2. a \in Seq(Strings) /\ \A i \in 1..K : a[i] = LineAt(f, p, i)
  BY LinesSeq, LinesAt
<1>3. b \in Seq(Strings) /\ \A i \in 1..Len(b) : b[i] = LineAt(f, p, i)
  <2>1. p <= n
    BY <1>1
  <2>. QED
    BY <2>1, LinesSeq, LinesAt
<1>4. K = (q \div 3) - (p \div 3) /\ Len(b) = (n \div 3) - (p \div 3)
  <2>1. p <= n
    BY <1>1
  <2>. QED
    BY <2>1, LinesLen
<1>5. K \in Nat
  BY <1>2
<1>6. p \div 3 \in Nat /\ q \div 3 \in Nat /\ n \div 3 = (q \div 3) + 1
  BY <1>1, Thirds
<1> HIDE DEF a, b, K
<1>7. Len(b) = K + 1
  BY <1>4, <1>6
<1>8. e \in Strings /\ b[K + 1] = e
  <2>1. K + 1 \in Nat \ {0} /\ K + 1 \in 1..Len(b)
    BY <1>5, <1>7
  <2>. QED
    BY <1>3, <2>1, LineAtIsString
<1> HIDE DEF e
<1>9. /\ Append(a, e) \in Seq(Strings) /\ Len(Append(a, e)) = K + 1
      /\ \A i \in 1..(K + 1) : Append(a, e)[i] = IF i = K + 1 THEN e ELSE a[i]
  <2>1. a \in Seq(Strings) /\ e \in Strings /\ Len(a) = K /\ K \in Nat
    BY <1>2, <1>5, <1>8 DEF K
  <2>. QED
    BY <2>1, AppendProperties
<1>20. \A i \in 1..(K + 1) : b[i] = Append(a, e)[i]
  <2> SUFFICES ASSUME NEW i \in 1..(K + 1) PROVE b[i] = Append(a, e)[i]
    OBVIOUS
  <2>1. CASE i = K + 1
    BY <1>8, <1>9, <2>1
  <2>2. CASE i # K + 1
    <3>1. i \in 1..K
      BY <1>5, <2>2
    <3>2. b[i] = a[i]
      <4>1. i \in 1..Len(b)
        BY <1>5, <1>7
      <4>. QED
        BY <1>2, <1>3, <3>1, <4>1
    <3>. QED
      BY <1>9, <2>2, <3>2
  <2>. QED
    BY <2>1, <2>2
<1>11. b = Append(a, e)
  BY <1>3, <1>7, <1>9, <1>20, SeqEqual
<1>. QED
  BY <1>1, <1>11 DEF a, b, e, K

LEMMA LinesGrow ==
    ASSUME NEW f \in Nat, NEW p \in Nat, NEW q \in Nat, p <= q
    PROVE  LinesBetween(f, p, NextNewline(q)) =
              Append(LinesBetween(f, p, q), Pieces(f, FirstOf(p, q), NextNewline(q) - 1))
<1>1. PICK c \in Nat, d \in Nat : /\ c = p \div 3 /\ d = q \div 3
                                  /\ NextNewline(q) = 3 * (d + 1)
  BY Thirds
<1>2. LineAt(f, p, (d - c) + 1) = Pieces(f, FirstOf(p, q), NextNewline(q) - 1)
  <2>1. /\ (d - c) + 1 = 1 <=> d = c
        /\ c + ((d - c) + 1) - 1 = d /\ c + ((d - c) + 1) = d + 1
    OBVIOUS
  <2>2. FirstOf(p, q) = IF (d - c) + 1 = 1 THEN p ELSE 3 * (c + ((d - c) + 1) - 1)
    BY <1>1, <2>1 DEF FirstOf
  <2>3. NextNewline(q) - 1 = 3 * (c + ((d - c) + 1)) - 1
    BY <1>1, <2>1
  <2>. QED
    BY <1>1, <2>2, <2>3 DEF LineAt
<1>3. Len(LinesBetween(f, p, q)) = d - c
  <2>1. Len(LinesBetween(f, p, q)) = (q \div 3) - (p \div 3)
    BY LinesLen
  <2>. QED
    BY <1>1, <2>1
<1>4. LinesBetween(f, p, NextNewline(q)) =
         Append(LinesBetween(f, p, q), LineAt(f, p, Len(LinesBetween(f, p, q)) + 1))
  BY OneLineMore
<1>. QED
  BY <1>2, <1>3, <1>4

-----------------------------------------------------------------------------
(* The log itself. *)

\* inotify's queue grows at its end.
EventsGrow == \A i \in 1..Len(events) : i \in 1..Len(events') /\ events'[i] = events[i]

Told(f) == watched = f => \E i \in 1..Len(events') : events'[i].kind \in Rotates

LEMMA NotifyFacts ==
    ASSUME FileTypeOK, NEW f, NEW kind \in Kinds, Notify(f, kind)
    PROVE  events' \in Seq(Event) /\ EventsGrow /\ (kind \in Rotates => Told(f))
<1> DEFINE e == [wd |-> wd, kind |-> kind]
<1>1. events \in Seq(Event) /\ e \in Event /\ e.kind = kind
  BY DEF FileTypeOK, Event
<1>2. \/ events' = Append(events, e)
      \/ events' = events /\ (watched = f => events # <<>> /\ events[Len(events)] = e)
  BY DEF Notify
<1> HIDE DEF e
<1>3. CASE events' = Append(events, e)
  <2>1. /\ events' \in Seq(Event) /\ Len(events') = Len(events) + 1 /\ Len(events) \in Nat
        /\ \A i \in 1..Len(events) : events'[i] = events[i]
        /\ events'[Len(events) + 1] = e
    BY <1>1, <1>3, AppendProperties, LenProperties
  <2>. QED
    BY <1>1, <2>1 DEF EventsGrow, Told
<1>4. CASE events' = events /\ (watched = f => events # <<>> /\ events[Len(events)] = e)
  BY <1>1, <1>4, EmptySeq DEF EventsGrow, Told
<1>. QED
  BY <1>2, <1>3, <1>4

LEMMA VanishFacts ==
    ASSUME FileTypeOK, NEW f, Vanish(f)
    PROVE  /\ events' \in Seq(Event) /\ EventsGrow /\ Told(f)
           /\ wd' = wd /\ watched' = IF watched = f THEN None ELSE watched
<1> DEFINE d == [wd |-> wd, kind |-> "deleteSelf"]
           g == [wd |-> wd, kind |-> "ignored"]
<1>1. /\ events \in Seq(Event) /\ d \in Event /\ g \in Event
      /\ d.kind \in Rotates
  BY DEF FileTypeOK, Event, Kinds, Rotates
<1>2. /\ wd' = wd /\ watched' = IF watched = f THEN None ELSE watched
      /\ events' = IF watched = f THEN events \o <<d, g>> ELSE events
  BY DEF Vanish
<1> HIDE DEF d, g
<1>3. CASE watched = f
  <2>1. <<d, g>> \in Seq(Event) /\ Len(<<d, g>>) = 2 /\ <<d, g>>[1] = d
    BY <1>1
  <2>2. /\ events \o <<d, g>> \in Seq(Event)
        /\ Len(events \o <<d, g>>) = Len(events) + 2 /\ Len(events) \in Nat
        /\ \A i \in 1..(Len(events) + 2) : (events \o <<d, g>>)[i] =
              IF i <= Len(events) THEN events[i] ELSE <<d, g>>[i - Len(events)]
    BY <1>1, <2>1, ConcatProperties, LenProperties
  <2>3. events' = events \o <<d, g>>
    BY <1>2, <1>3
  <2>4. events'[Len(events) + 1] = d
    BY <2>1, <2>2, <2>3
  <2>. QED
    BY <1>1, <1>2, <2>2, <2>3, <2>4 DEF EventsGrow, Told
<1>4. CASE watched # f
  BY <1>1, <1>2, <1>4 DEF EventsGrow, Told
<1>. QED
  BY <1>3, <1>4

\* The log grows under the detector's feet and its queue of events with it.
LEMMA LogGrows ==
    ASSUME FileTypeOK, FileNext
    PROVE  /\ FileTypeOK'
           /\ file' = file /\ offset' = offset
           /\ \A f \in Files : length[f] <= length'[f]
           /\ EventsGrow
<1>1. /\ path \in 0..created /\ writer \in 0..created
      /\ watched \in 0..created /\ file \in 0..created
      /\ created \in 0..MaxFiles /\ unlinked \subseteq Files
      /\ length \in [Files -> 0..MaxLength] /\ changes \in Seq(Files)
      /\ wd \in Nat /\ events \in Seq(Event) /\ offset \in 0..MaxLength
      /\ MaxLength \in Nat /\ MaxFiles \in Nat
  BY FileAssumption DEF FileTypeOK
<1>2. ASSUME NEW n \in 1..3, Write(n)
      PROVE  /\ FileTypeOK' /\ file' = file /\ offset' = offset
             /\ \A f \in Files : length[f] <= length'[f]
             /\ EventsGrow
  <2>1. events' \in Seq(Event) /\ EventsGrow
    BY <1>2, NotifyFacts DEF Write, Kinds
  <2>2. writer \in Files /\ length[writer] \in Nat /\ length[writer] + n \in 0..MaxLength
    BY <1>1, <1>2 DEF Write, None, Files
  <2>3. /\ length' \in [Files -> 0..MaxLength]
        /\ \A f \in Files : length'[f] = IF f = writer THEN length[f] + n ELSE length[f]
    BY <1>1, <1>2, <2>2 DEF Write
  <2>4. \A f \in Files : length[f] \in Nat
    BY <1>1
  <2>5. \A f \in Files : length[f] <= length'[f]
    BY <2>3, <2>4
  <2>. QED
    BY <1>1, <1>2, <2>1, <2>3, <2>5 DEF Write, FileTypeOK, nameVars
<1>3. CASE WriterOpens
  <2>1. /\ path' \in 0..created' /\ created' \in 0..MaxFiles /\ created <= created'
        /\ writer' = path' /\ UNCHANGED <<length, unlinked, changes, file, offset>>
        /\ Vanish(writer) \/ UNCHANGED watchVars
    BY <1>1, <1>3 DEF WriterOpens, None
  <2>2. /\ events' \in Seq(Event) /\ wd' = wd /\ EventsGrow
        /\ watched' \in {None, watched}
    BY <1>1, <2>1, VanishFacts DEF watchVars, EventsGrow
  <2>. QED
    BY <1>1, <2>1, <2>2 DEF FileTypeOK, None
<1>4. ASSUME NEW f \in Files, Rename(f)
      PROVE  /\ FileTypeOK' /\ file' = file /\ offset' = offset
             /\ \A g \in Files : length[g] <= length'[g]
             /\ EventsGrow
  <2>1. events' \in Seq(Event) /\ EventsGrow
    BY <1>4, NotifyFacts DEF Rename, Kinds
  <2>2. changes' \in Seq(Files) /\ path' \in 0..created
    <3>1. changes' = Append(changes, f)
      BY <1>4 DEF Rename, Changed
    <3>2. path' \in {None, path, f} /\ f \in 1..created
      BY <1>4 DEF Rename, MayChange
    <3>. QED
      BY <1>1, <3>1, <3>2 DEF None
  <2>3. \A g \in Files : length[g] \in Nat
    BY <1>1
  <2>. QED
    BY <1>1, <1>4, <2>1, <2>2, <2>3 DEF Rename, FileTypeOK
<1>5. ASSUME NEW f \in Files, Unlink(f)
      PROVE  /\ FileTypeOK' /\ file' = file /\ offset' = offset
             /\ \A g \in Files : length[g] <= length'[g]
             /\ EventsGrow
  <2>1. /\ events' \in Seq(Event) /\ wd' = wd /\ EventsGrow
        /\ watched' \in {None, watched}
    <3>1. Vanish(f) \/ UNCHANGED watchVars
      BY <1>5 DEF Unlink
    <3>. QED
      BY <1>1, <3>1, VanishFacts DEF watchVars, EventsGrow
  <2>2. changes' \in Seq(Files) /\ path' \in 0..created /\ unlinked' \subseteq Files
    <3>1. changes' = Append(changes, f)
      BY <1>5 DEF Unlink, Changed
    <3>2. path' \in {None, path} /\ unlinked' = unlinked \cup {f}
      BY <1>5 DEF Unlink
    <3>. QED
      BY <1>1, <3>1, <3>2 DEF None
  <2>3. \A g \in Files : length[g] \in Nat
    BY <1>1
  <2>. QED
    BY <1>1, <1>5, <2>1, <2>2, <2>3 DEF Unlink, FileTypeOK, None
<1>6. \A f \in Files : length[f] \in Nat
  BY <1>1
<1>. QED
  BY <1>2, <1>3, <1>4, <1>5, <1>6 DEF FileNext, WriterOpens

-----------------------------------------------------------------------------
(* The invariant, action by action. *)

LEMMA Unfold ==
    ASSUME IInv
    PROVE  /\ FileTypeOK /\ TailerTypeOK /\ AdapterTypeOK
           /\ path \in 0..created /\ writer \in 0..created /\ created \in 0..MaxFiles
           /\ watched \in 0..created /\ file \in 0..created
           /\ unlinked \subseteq Files
           /\ wd \in Nat /\ events \in Seq(Event)
           /\ offset \in 0..MaxLength /\ parsed \in 0..MaxLength
           /\ start \in 0..MaxLength /\ due \in 0..MaxLength /\ begun \in 0..MaxLength
           /\ MaxLength \in Nat /\ MaxFiles \in Nat
           /\ length \in [Files -> 0..MaxLength]
           /\ \A f \in Files : length[f] \in 0..MaxLength
           /\ file # None => file \in Files /\ file \in Nat
           /\ path # None => path \in Files /\ path \in Nat
<1>1. FileTypeOK /\ TailerTypeOK /\ AdapterTypeOK
  BY DEF IInv, TypeOK
<1>2. /\ path \in 0..created /\ writer \in 0..created /\ created \in 0..MaxFiles
      /\ watched \in 0..created /\ file \in 0..created
      /\ unlinked \subseteq Files /\ wd \in Nat /\ events \in Seq(Event)
      /\ offset \in 0..MaxLength /\ length \in [Files -> 0..MaxLength]
  BY <1>1 DEF FileTypeOK
<1>3. /\ parsed \in 0..MaxLength /\ start \in 0..MaxLength /\ due \in 0..MaxLength
  BY <1>1 DEF TailerTypeOK
<1>4. begun \in 0..MaxLength
  BY <1>1 DEF AdapterTypeOK
<1>. QED
  BY <1>1, <1>2, <1>3, <1>4, FileAssumption DEF None, Files

LEMMA InitInvariant == Init => IInv
<1> SUFFICES ASSUME Init PROVE IInv
  OBVIOUS
<1>1. /\ FileInit /\ tailer \in {"open", "off"} /\ adapter \in {"off", "open"}
      /\ tailer = "off" \/ adapter = "off"
      /\ TailerInit(tailer) /\ AdapterInit(adapter)
  BY DEF Init, TailerInit, AdapterInit
<1>2. FileTypeOK
  <2>1. /\ path \in {0, 1} /\ path <= MaxFiles /\ MaxFiles \in Nat /\ MaxLength \in Nat
    BY <1>1, FileAssumption DEF FileInit, None
  <2>2. length \in [Files -> 0..MaxLength]
    BY <1>1, <2>1 DEF FileInit
  <2>. QED
    BY <1>1, <2>1, <2>2 DEF FileInit, FileTypeOK, None
<1>3. TypeOK
  <2>1. seekEnd \in BOOLEAN /\ rotated \in BOOLEAN /\ again \in BOOLEAN /\ atEnd \in BOOLEAN
    BY <1>1, Zenon DEF TailerInit, AdapterInit
  <2>2. /\ batch \in Seq(Event) /\ partial \in Seq(Piece) /\ delivered \in Seq(Seq(Piece))
        /\ converted \in Seq(Nat) /\ torn \subseteq Nat /\ known \subseteq Files
    BY <1>1 DEF TailerInit, AdapterInit
  <2>3. /\ parsed \in 0..MaxLength /\ start \in 0..MaxLength /\ quiet \in 0..MaxLength
        /\ due \in 0..MaxLength /\ begun \in 0..MaxLength
    BY <1>1, FileAssumption DEF TailerInit, AdapterInit
  <2>. QED
    BY <1>1, <1>2, <2>1, <2>2, <2>3 DEF TypeOK, TailerTypeOK, AdapterTypeOK
<1>4. InOrder /\ IsInformed /\ IsDrained /\ IsPassed
  BY <1>1 DEF InOrder, IsInformed, IsDrained, IsPassed, Holding, Attached, TailerInit,
            AdapterInit
<1>5. LinesAreWhole /\ MissedWereTorn
  BY <1>1 DEF LinesAreWhole, MissedWereTorn, AdapterInit
<1>. QED
  BY <1>3, <1>4, <1>5 DEF IInv

\* The detector that does not run has nothing to keep.
LEMMA AdapterIdle ==
    ASSUME IInv, tailer # "off", UNCHANGED adapterVars
    PROVE  adapter' = "off" /\ AdapterTypeOK' /\ IsPassed' /\ MissedWereTorn'
<1>1. adapter = "off"
  BY DEF IInv, InOrder
<1>. QED
  BY <1>1 DEF IInv, TypeOK, AdapterTypeOK, IsPassed, MissedWereTorn, adapterVars

LEMMA TailerIdle ==
    ASSUME IInv, tailer = "off", UNCHANGED tailerVars
    PROVE  /\ tailer' = "off" /\ TailerTypeOK'
           /\ IsInformed' /\ IsDrained' /\ LinesAreWhole'
BY DEF IInv, TypeOK, TailerTypeOK, IsInformed, IsDrained, LinesAreWhole, Attached, tailerVars

\* A rename, a removal or a new file reaches the tailer as an event, unless the
\* watched file lives on without a name.
LEMMA LogInforms ==
    ASSUME IInv, FileNext, UNCHANGED tailerVars, tailer \in Attached
    PROVE  IsInformed'
<1>1. EventsGrow
  BY Unfold, LogGrows
<1>2. tailer' = tailer /\ rotated' = rotated /\ batch' = batch /\ file' = file
  BY Unfold, LogGrows DEF tailerVars
<1>3. tailer \in {"open", "watch", "poll"} => batch = <<>>
  BY DEF IInv, IsInformed
<1>4. WillRotate => WillRotate'
  BY <1>1, <1>2 DEF WillRotate, EventsGrow
<1>5. (\E i \in 1..Len(events') : events'[i].kind \in Rotates) => WillRotate'
  BY DEF WillRotate
<1>6. file # None
  BY DEF IInv, InOrder, Holding
<1>7. \/ WillRotate
      \/ watched = path /\ path # None
      \/ watched \in unlinked /\ (watched = file \/ watched = writer)
  BY DEF IInv, IsInformed
<1> SUFFICES ASSUME ~WillRotate'
             PROVE  \/ watched' = path' /\ path' # None
                    \/ watched' \in unlinked' /\ (watched' = file' \/ watched' = writer')
  BY <1>2, <1>3 DEF IsInformed
<1>8. ~WillRotate
  BY <1>4
<1>9. ASSUME NEW n \in 1..3, Write(n)
      PROVE  \/ watched' = path' /\ path' # None
             \/ watched' \in unlinked' /\ (watched' = file' \/ watched' = writer')
  BY <1>7, <1>8, <1>9 DEF Write, nameVars
<1>10. CASE WriterOpens
  <2>1. path # None => path' = path
    BY <1>10 DEF WriterOpens
  <2>2. UNCHANGED <<unlinked, file>>
    BY <1>10 DEF WriterOpens
  <2>3. CASE writer \in unlinked /\ writer # file
    <3>1. Vanish(writer)
      BY <1>10, <2>3 DEF WriterOpens
    <3>2. watched # writer /\ watched' = watched
      BY <1>5, <3>1, Unfold, VanishFacts DEF Told
    <3>. QED
      BY <1>7, <1>8, <2>1, <2>2, <3>2
  <2>4. CASE ~(writer \in unlinked /\ writer # file)
    <3>1. watched' = watched
      BY <1>10, <2>4 DEF WriterOpens, watchVars
    <3>. QED
      BY <1>7, <1>8, <2>1, <2>2, <2>4, <3>1
  <2>. QED
    BY <2>3, <2>4
<1>11. ASSUME NEW f \in Files, Rename(f)
       PROVE  \/ watched' = path' /\ path' # None
              \/ watched' \in unlinked' /\ (watched' = file' \/ watched' = writer')
  <2>1. Told(f)
    BY <1>11, Unfold, NotifyFacts DEF Rename, Kinds, Rotates
  <2>2. watched # f
    BY <1>5, <2>1 DEF Told
  <2>3. UNCHANGED <<unlinked, watched, writer, file>>
    BY <1>11 DEF Rename
  <2>4. watched = path /\ path # None => path' = path
    BY <1>11, <2>2 DEF Rename
  <2>. QED
    BY <1>7, <1>8, <2>3, <2>4
<1>12. ASSUME NEW f \in Files, Unlink(f)
       PROVE  \/ watched' = path' /\ path' # None
              \/ watched' \in unlinked' /\ (watched' = file' \/ watched' = writer')
  <2>1. /\ unlinked' = unlinked \cup {f} /\ UNCHANGED <<writer, file>>
        /\ path' = IF f = path THEN None ELSE path
    BY <1>12 DEF Unlink
  <2>2. CASE f \notin {writer, file}
    <3>1. Vanish(f)
      BY <1>12, <2>2 DEF Unlink
    <3>2. watched # f /\ watched' = watched
      BY <1>5, <3>1, Unfold, VanishFacts DEF Told
    <3>. QED
      BY <1>7, <1>8, <2>1, <3>2
  <2>3. CASE f \in {writer, file}
    <3>1. watched' = watched
      BY <1>12, <2>3 DEF Unlink, watchVars
    <3>. QED
      BY <1>7, <1>8, <2>1, <2>3, <3>1
  <2>. QED
    BY <2>2, <2>3
<1>. QED
  BY <1>9, <1>10, <1>11, <1>12 DEF FileNext

LEMMA LogInvariant ==
    ASSUME IInv, FileNext, UNCHANGED <<tailerVars, adapterVars>>
    PROVE  IInv'
<1>1. /\ FileTypeOK' /\ file' = file /\ offset' = offset
      /\ \A f \in Files : length[f] <= length'[f]
  BY Unfold, LogGrows
<1>2. TypeOK'
  BY <1>1 DEF IInv, TypeOK, TailerTypeOK, AdapterTypeOK, tailerVars, adapterVars
<1>3. file # None => file \in Files /\ length[file] \in Nat /\ length'[file] \in Nat
  BY <1>1, Unfold DEF FileTypeOK
<1>4. InOrder'
  <2>1. offset \in Nat
    BY Unfold
  <2>. QED
    BY <1>1, <1>3, <2>1 DEF IInv, InOrder, tailerVars, adapterVars
<1>5. IsInformed'
  <2>1. CASE tailer \in Attached
    BY <2>1, LogInforms DEF tailerVars
  <2>2. CASE tailer \notin Attached
    BY <2>2 DEF IInv, IsInformed, Attached, tailerVars
  <2>. QED
    BY <2>1, <2>2
<1>6. IsDrained'
  <2>1. tailer \in {"event", "read", "split"} => file # None
    BY DEF IInv, InOrder, Holding, Attached
  <2>2. due \in Nat
    BY Unfold
  <2>. QED
    BY <1>1, <1>3, <2>1, <2>2 DEF IInv, IsDrained, tailerVars
<1>7. IsPassed' /\ MissedWereTorn'
  BY <1>1 DEF IInv, IsPassed, MissedWereTorn, adapterVars
<1>8. LinesAreWhole'
  BY <1>1 DEF IInv, LinesAreWhole, tailerVars
<1>. QED
  BY <1>2, <1>4, <1>5, <1>6, <1>7, <1>8 DEF IInv

\* What a step of the tailer has to keep.
Kept == /\ FileTypeOK /\ TailerTypeOK
        /\ tailer = "open" => partial = <<>>
        /\ tailer = "watch" => parsed = start
        /\ tailer \in Holding => /\ file # None /\ start <= parsed
                                 /\ parsed <= offset /\ offset <= length[file]
                                 /\ tailer # "split" => parsed = offset
        /\ IsInformed /\ IsDrained /\ LinesAreWhole

LEMMA KeptIsEnough ==
    ASSUME IInv, tailer # "off", UNCHANGED adapterVars, Kept'
    PROVE  IInv'
<1>1. adapter' = "off" /\ AdapterTypeOK' /\ IsPassed' /\ MissedWereTorn'
  BY AdapterIdle
<1>2. InOrder'
  BY <1>1 DEF InOrder, Kept
<1>. QED
  BY <1>1, <1>2 DEF IInv, TypeOK, Kept

LEMMA Keeps == IInv => Kept
BY DEF IInv, TypeOK, InOrder, Kept

LEMMA OpenInvariant ==
    ASSUME IInv, Open
    PROVE  Kept'
<1>1. /\ tailer = "open" /\ path # None /\ tailer' = "watch" /\ file' = path
      /\ offset' = (IF seekEnd THEN length[path] ELSE 0)
      /\ parsed' = offset' /\ start' = offset' /\ delivered' = <<>>
      /\ again' = (again \/ path \in known)
      /\ UNCHANGED <<nameVars, length, writer, watchVars,
                     seekEnd, batch, rotated, partial, quiet, due, known>>
  BY DEF Open
<1>2. partial = <<>> /\ TailerTypeOK
  BY <1>1, Keeps DEF Kept
<1>3. offset' \in 0..MaxLength /\ offset' <= length[path] /\ path \in Files /\ path \in Nat
  BY <1>1, Unfold
<1>4. FileTypeOK'
  BY <1>1, <1>3, Unfold DEF FileTypeOK, nameVars, watchVars
<1>5. TailerTypeOK'
  <2>1. again' \in BOOLEAN
    BY <1>1, Zenon
  <2>. QED
    BY <1>1, <1>2, <1>3, <2>1, EmptySeq DEF TailerTypeOK
<1>6. LinesAreWhole'
  <2>1. LinesBetween(path, offset', offset') = <<>>
    BY <1>3, NoLines
  <2>2. Pieces(path, offset', offset') = <<>>
    BY <1>3, NoPieces
  <2>. QED
    BY <1>1, <1>2, <2>1, <2>2 DEF LinesAreWhole
<1>7. IsInformed' /\ IsDrained'
  BY <1>1, Keeps DEF Kept, IsInformed, IsDrained, Attached
<1>8. offset' <= length'[file'] /\ start' <= parsed' /\ parsed' <= offset'
  BY <1>1, <1>3
<1>. QED
  BY <1>1, <1>3, <1>4, <1>5, <1>6, <1>7, <1>8 DEF Kept

LEMMA AddWatchInvariant ==
    ASSUME IInv, AddWatch
    PROVE  Kept'
<1>1. /\ tailer = "watch" /\ path # None /\ tailer' = "poll" /\ seekEnd' = FALSE
      /\ watched' = path /\ wd' = wd + 1 /\ quiet' = length[file]
      /\ UNCHANGED <<nameVars, length, writer, events, file, offset, batch, rotated,
                     parsed, partial, delivered, start, due, known, again>>
  BY DEF AddWatch
<1>2. Kept
  BY Keeps
<1>3. file # None /\ file \in Files
  BY <1>1, <1>2, Unfold DEF Kept, Holding
<1>4. FileTypeOK'
  <2>1. path \in 0..created /\ wd + 1 \in Nat
    BY Unfold
  <2>. QED
    BY <1>1, <1>2, <2>1 DEF Kept, FileTypeOK, nameVars
<1>5. TailerTypeOK'
  <2>1. seekEnd' \in BOOLEAN
    BY <1>1, Zenon
  <2>2. quiet' \in 0..MaxLength
    BY <1>1, <1>3, Unfold
  <2>. QED
    BY <1>1, <1>2, <2>1, <2>2 DEF Kept, TailerTypeOK
<1>6. LinesAreWhole'
  BY <1>1, <1>2 DEF Kept, LinesAreWhole
<1>7. IsInformed' /\ IsDrained'
  <2>1. batch = <<>>
    BY <1>1, <1>2 DEF Kept, IsInformed
  <2>. QED
    BY <1>1, <2>1 DEF IsInformed, IsDrained, Attached, nameVars
<1>. QED
  BY <1>1, <1>2, <1>4, <1>5, <1>6, <1>7 DEF Kept, Holding

LEMMA AddWatchFailsInvariant ==
    ASSUME IInv, AddWatchFails
    PROVE  Kept'
<1>1. /\ tailer = "watch" /\ tailer' = "open" /\ file' = None
      /\ UNCHANGED <<nameVars, length, writer, watchVars, offset, seekEnd, batch, rotated,
                     parsed, partial, delivered, start, quiet, due, known, again>>
  BY DEF AddWatchFails
<1>2. Kept
  BY Keeps
<1>3. created \in 0..MaxFiles /\ MaxFiles \in Nat
  BY Unfold
<1>4. FileTypeOK'
  BY <1>1, <1>2, <1>3 DEF Kept, FileTypeOK, nameVars, watchVars, None
<1>5. TailerTypeOK'
  BY <1>1, <1>2 DEF Kept, TailerTypeOK
<1>6. LinesAreWhole' /\ IsInformed' /\ IsDrained'
  BY <1>1, <1>2 DEF Kept, LinesAreWhole, IsInformed, IsDrained, Attached
<1>7. partial = <<>>
  <2>1. parsed \in Nat /\ start = parsed /\ file # None
    BY <1>1, <1>2, Unfold DEF Kept, Holding
  <2>2. partial = Pieces(file, IF parsed \div 3 = start \div 3 THEN start
                               ELSE 3 * (parsed \div 3), parsed)
    BY <1>1, <1>2 DEF Kept, LinesAreWhole
  <2>3. partial = Pieces(file, parsed, parsed)
    BY <2>1, <2>2
  <2>4. file \in Nat
    BY <2>1, Unfold
  <2>. QED
    BY <2>1, <2>3, <2>4, NoPieces
<1>. QED
  BY <1>1, <1>4, <1>5, <1>6, <1>7 DEF Kept, Holding, Attached

LEMMA ReadEventsInvariant ==
    ASSUME IInv, ReadEvents
    PROVE  Kept'
<1> DEFINE n == IF Len(events) < EventBuf THEN Len(events) ELSE EventBuf
<1>1. /\ tailer = "poll" /\ tailer' = "event" /\ rotated' = FALSE /\ due' = length[file]
      /\ batch' = SubSeq(events, 1, n) /\ events' = SubSeq(events, n + 1, Len(events))
      /\ UNCHANGED <<nameVars, length, writer, watched, wd, file, offset, seekEnd,
                     parsed, partial, delivered, start, quiet, known, again>>
  BY DEF ReadEvents
<1>2. Kept /\ events \in Seq(Event)
  BY Keeps, Unfold
<1>3. n \in 0..Len(events) /\ Len(events) \in Nat
  BY <1>2, TailerAssumption, LenProperties
<1> HIDE DEF n
<1>4. /\ batch' \in Seq(Event) /\ Len(batch') = n
      /\ \A i \in 1..n : batch'[i] = events[i]
  <2>1. n = 0 => batch' = <<>>
    BY <1>1, <1>2, SubSeqProperties
  <2>. QED
    BY <1>1, <1>2, <1>3, <2>1, SubSeqProperties
<1>5. /\ events' \in Seq(Event) /\ Len(events') = Len(events) - n
      /\ \A i \in 1..(Len(events) - n) : events'[i] = events[n + i]
  <2> DEFINE m == n + 1
             k == Len(events)
  <2>1. m \in 1..(k + 1) /\ k \in Nat /\ m <= k + 1
    BY <1>3
  <2>2. /\ SubSeq(events, m, k) \in Seq(Event)
        /\ Len(SubSeq(events, m, k)) = IF m <= k THEN k - m + 1 ELSE 0
        /\ \A i \in 1..(k - m + 1) : SubSeq(events, m, k)[i] = events[m + i - 1]
    BY <1>2, <2>1, SubSeqProperties
  <2>3. (IF m <= k THEN k - m + 1 ELSE 0) = k - n /\ k - m + 1 = k - n
    BY <1>3
  <2>4. \A i \in 1..(k - n) : m + i - 1 = n + i
    BY <1>3
  <2>. QED
    BY <1>1, <2>2, <2>3, <2>4
<1>6. FileTypeOK'
  BY <1>1, <1>2, <1>5 DEF Kept, FileTypeOK, nameVars
<1>7. TailerTypeOK'
  <2>1. rotated' \in BOOLEAN
    BY <1>1, Zenon
  <2>2. due' \in 0..MaxLength
    BY <1>1, <1>2, Unfold DEF Kept, Holding, Attached
  <2>. QED
    BY <1>1, <1>2, <1>4, <2>1, <2>2 DEF Kept, TailerTypeOK
<1>8. WillRotate => WillRotate'
  <2>1. Len(batch) = 0
    <3>1. batch = <<>>
      BY <1>1, <1>2 DEF Kept, IsInformed
    <3>. QED
      BY <3>1
  <2> SUFFICES ASSUME NEW i \in 1..Len(events), events[i].kind \in Rotates PROVE WillRotate'
    <3>1. WillRotate => \E i \in 1..Len(events) : events[i].kind \in Rotates
      BY <1>1, <2>1 DEF WillRotate
    <3>. QED
      BY <3>1
  <2>2. CASE i <= n
    <3>1. i \in 1..Len(batch') /\ batch'[i] = events[i]
      BY <1>3, <1>4, <2>2
    <3>. QED
      BY <3>1 DEF WillRotate
  <2>3. CASE ~(i <= n)
    <3>1. i - n \in 1..Len(events') /\ n + (i - n) = i
      BY <1>3, <1>5, <2>3
    <3>2. events'[i - n] = events[i]
      BY <1>5, <3>1
    <3>. QED
      BY <3>1, <3>2 DEF WillRotate
  <2>. QED
    BY <2>2, <2>3
<1>9. IsInformed'
  BY <1>1, <1>2, <1>8 DEF Kept, IsInformed, Attached, nameVars
<1>10. LinesAreWhole'
  BY <1>1, <1>2 DEF Kept, LinesAreWhole
<1>11. IsDrained'
  <2>1. length[file] \in 0..MaxLength /\ rotated' = FALSE
    BY <1>1, <1>2, Unfold DEF Kept, Holding, Attached
  <2>. QED
    BY <1>1, <2>1 DEF IsDrained
<1>. QED
  BY <1>1, <1>2, <1>6, <1>7, <1>9, <1>10, <1>11 DEF Kept, Holding, Attached

LEMMA HandleEventInvariant ==
    ASSUME IInv, HandleEvent
    PROVE  Kept'
<1>1. /\ tailer = "event" /\ batch # <<>> /\ batch' = Tail(batch)
      /\ rotated' = (rotated \/ Head(batch).kind \in Rotates)
      /\ tailer' = (IF Head(batch).kind \in Drains THEN "read" ELSE "event")
      /\ UNCHANGED <<fileVars, seekEnd, parsed, partial, delivered, start, quiet, due,
                     known, again>>
  BY DEF HandleEvent
<1>2. Kept /\ TailerTypeOK
  BY Keeps, Unfold
<1>3. /\ batch \in Seq(Event) /\ batch' \in Seq(Event) /\ Len(batch') = Len(batch) - 1
      /\ Len(batch) \in Nat /\ Head(batch) = batch[1]
      /\ \A i \in 1..(Len(batch) - 1) : batch'[i] = batch[i + 1]
  <2>1. batch \in Seq(Event)
    BY <1>2 DEF TailerTypeOK
  <2>. QED
    BY <1>1, <2>1, HeadTailProperties, LenProperties
<1>4. FileTypeOK'
  BY <1>1, <1>2 DEF Kept, FileTypeOK, fileVars, nameVars, watchVars
<1>5. TailerTypeOK'
  <2>1. rotated' \in BOOLEAN
    BY <1>1, Zenon
  <2>. QED
    BY <1>1, <1>2, <1>3, <2>1 DEF TailerTypeOK
<1>6. WillRotate => WillRotate'
  <2>1. rotated => rotated'
    BY <1>1
  <2>2. tailer' # "poll"
    BY <1>1
  <2>3. ASSUME NEW i \in 1..Len(batch), batch[i].kind \in Rotates PROVE WillRotate'
    <3>1. CASE i = 1
      BY <1>1, <1>3, <2>2, <2>3, <3>1 DEF WillRotate
    <3>2. CASE i # 1
      <4>1. i - 1 \in 1..Len(batch') /\ (i - 1) + 1 = i
        BY <1>3, <3>2
      <4>2. batch'[i - 1] = batch[i]
        BY <1>3, <4>1
      <4>. QED
        BY <2>3, <4>1, <4>2 DEF WillRotate
    <3>. QED
      BY <3>1, <3>2
  <2>. QED
    BY <1>1, <2>1, <2>2, <2>3 DEF WillRotate, fileVars, watchVars
<1>7. IsInformed'
  BY <1>1, <1>2, <1>6 DEF Kept, IsInformed, Attached, fileVars, nameVars, watchVars
<1>8. IsDrained'
  <2>1. tailer' = "event" => (rotated' <=> rotated)
    BY <1>1 DEF Drains, Rotates
  <2>2. tailer' \in {"read", "event"}
    BY <1>1
  <2>. QED
    BY <1>1, <1>2, <2>1, <2>2 DEF Kept, IsDrained, fileVars
<1>9. LinesAreWhole'
  BY <1>1, <1>2 DEF Kept, LinesAreWhole, fileVars
<1>. QED
  BY <1>1, <1>2, <1>4, <1>5, <1>7, <1>8, <1>9 DEF Kept, Holding, Attached, fileVars

LEMMA ReadChunkInvariant ==
    ASSUME IInv, ReadChunk
    PROVE  Kept'
<1>1. /\ tailer = "read" /\ offset < length[file] /\ tailer' = "split"
      /\ offset' = (IF length[file] - offset < ReadBuf THEN length[file] ELSE offset + ReadBuf)
      /\ UNCHANGED <<nameVars, length, writer, watchVars, file, seekEnd, batch, rotated,
                     parsed, partial, delivered, start, quiet, due, known, again>>
  BY DEF ReadChunk
<1>2. Kept /\ TailerTypeOK /\ FileTypeOK
  BY Keeps, Unfold
<1>3. length[file] \in 0..MaxLength /\ offset \in Nat
  BY <1>1, <1>2, Unfold DEF Kept, Holding, Attached
<1>4. offset' \in 0..MaxLength /\ offset <= offset' /\ offset' <= length[file]
  <2>1. CASE length[file] - offset < ReadBuf
    BY <1>1, <1>3, <2>1
  <2>2. CASE ~(length[file] - offset < ReadBuf)
    <3>1. ReadBuf \in Nat /\ MaxLength \in Nat
      BY TailerAssumption, FileAssumption
    <3>2. offset' = offset + ReadBuf
      BY <1>1, <2>2
    <3>. QED
      BY <1>3, <2>2, <3>1, <3>2
  <2>. QED
    BY <2>1, <2>2
<1>5. FileTypeOK'
  BY <1>1, <1>2, <1>4 DEF FileTypeOK, nameVars, watchVars
<1>6. TailerTypeOK'
  BY <1>1, <1>2 DEF TailerTypeOK
<1>7. IsInformed'
  BY <1>1, <1>2 DEF Kept, IsInformed, WillRotate, Attached, nameVars, watchVars
<1>8. IsDrained' /\ LinesAreWhole'
  BY <1>1, <1>2 DEF Kept, IsDrained, LinesAreWhole
<1>9. parsed <= offset'
  BY <1>1, <1>2, <1>3, <1>4, Unfold DEF Kept, Holding, Attached
<1>. QED
  BY <1>1, <1>2, <1>4, <1>5, <1>6, <1>7, <1>8, <1>9 DEF Kept, Holding, Attached

LEMMA EndOfFileInvariant ==
    ASSUME IInv, EndOfFile
    PROVE  Kept'
<1>1. /\ tailer = "read" /\ offset = length[file] /\ tailer' = "event"
      /\ UNCHANGED <<fileVars, seekEnd, batch, rotated, parsed, partial, delivered, start,
                     quiet, due, known, again>>
  BY DEF EndOfFile
<1>2. Kept /\ TailerTypeOK /\ FileTypeOK
  BY Keeps, Unfold
<1>3. FileTypeOK' /\ TailerTypeOK'
  BY <1>1, <1>2 DEF FileTypeOK, TailerTypeOK, fileVars, nameVars, watchVars
<1>4. IsInformed'
  BY <1>1, <1>2 DEF Kept, IsInformed, WillRotate, Attached, fileVars, nameVars, watchVars
<1>5. IsDrained' /\ LinesAreWhole'
  BY <1>1, <1>2 DEF Kept, IsDrained, LinesAreWhole, fileVars
<1>. QED
  BY <1>1, <1>2, <1>3, <1>4, <1>5 DEF Kept, Holding, Attached, fileVars

LEMMA NotRotatedInvariant ==
    ASSUME IInv, NotRotated
    PROVE  Kept'
<1>1. /\ tailer = "event" /\ batch = <<>> /\ ~rotated /\ tailer' = "poll"
      /\ UNCHANGED <<fileVars, seekEnd, batch, rotated, parsed, partial, delivered, start,
                     quiet, due, known, again>>
  BY DEF NotRotated
<1>2. Kept /\ TailerTypeOK /\ FileTypeOK
  BY Keeps, Unfold
<1>3. FileTypeOK' /\ TailerTypeOK'
  BY <1>1, <1>2 DEF FileTypeOK, TailerTypeOK, fileVars, nameVars, watchVars
<1>4. IsInformed'
  <2>1. WillRotate => WillRotate'
    BY <1>1 DEF WillRotate, fileVars, watchVars
  <2>. QED
    BY <1>1, <1>2, <2>1 DEF Kept, IsInformed, Attached, fileVars, nameVars, watchVars
<1>5. IsDrained' /\ LinesAreWhole'
  BY <1>1, <1>2 DEF Kept, IsDrained, LinesAreWhole, fileVars
<1>. QED
  BY <1>1, <1>2, <1>3, <1>4, <1>5 DEF Kept, Holding, Attached, fileVars

LEMMA LeavesFile ==
    ASSUME IInv, tailer \in {"event", "open", "poll"}, tailer' \in {"open", "stopped"},
           file' = None, watched' = None, events' \in Seq(Event),
           tailer' = "open" => partial' = <<>>,
           partial' \in {partial, <<>>}, batch = <<>>,
           UNCHANGED <<nameVars, length, writer, wd, offset, seekEnd, batch, rotated,
                       parsed, delivered, start, quiet, due, known, again>>
    PROVE  Kept'
<1>1. Kept /\ TailerTypeOK /\ FileTypeOK
  BY Keeps, Unfold
<1>2. created \in 0..MaxFiles /\ MaxFiles \in Nat
  BY Unfold
<1>3. FileTypeOK'
  BY <1>1, <1>2 DEF FileTypeOK, nameVars, None
<1>4. TailerTypeOK'
  BY <1>1, EmptySeq DEF TailerTypeOK
<1>5. IsInformed' /\ IsDrained' /\ LinesAreWhole'
  BY DEF IsInformed, IsDrained, LinesAreWhole, Attached
<1>. QED
  BY <1>3, <1>4, <1>5 DEF Kept, Holding, Attached

LEMMA RotateInvariant ==
    ASSUME IInv, Rotate
    PROVE  Kept'
<1> DEFINE e == [wd |-> wd, kind |-> "ignored"]
<1>1. events' \in Seq(Event)
  <2>1. events \in Seq(Event) /\ e \in Event
    BY Unfold DEF Event, Kinds
  <2>2. events' = events \/ events' = Append(events, e)
    BY DEF Rotate
  <2> HIDE DEF e
  <2>. QED
    BY <2>1, <2>2, AppendProperties
<1>2. /\ tailer = "event" /\ batch = <<>> /\ tailer' = "open"
      /\ file' = None /\ watched' = None /\ partial' = <<>>
      /\ UNCHANGED <<nameVars, length, writer, wd, offset, seekEnd, batch, rotated,
                     parsed, delivered, start, quiet, due, known, again>>
  BY DEF Rotate
<1>. QED
  BY <1>1, <1>2, LeavesFile

LEMMA StopTailerInvariant ==
    ASSUME IInv, StopTailer
    PROVE  Kept'
<1>1. /\ tailer \in {"open", "poll"} /\ tailer' = "stopped"
      /\ file' = None /\ watched' = None /\ events' = <<>>
      /\ UNCHANGED <<nameVars, length, writer, wd, offset, seekEnd, batch, rotated,
                     parsed, partial, delivered, start, quiet, due, known, again>>
  BY DEF StopTailer
<1>2. batch = <<>>
  BY <1>1, Keeps DEF Kept, IsInformed
<1>3. events' \in Seq(Event)
  BY <1>1
<1>. QED
  BY <1>1, <1>2, <1>3, LeavesFile

\* Where the tailer splits: after the pieces that wait in partial_.
LEMMA SplitFacts ==
    ASSUME IInv, tailer = "split"
    PROVE  /\ file \in Files /\ file \in Nat /\ length[file] \in 0..MaxLength
           /\ start \in Nat /\ parsed \in Nat /\ offset \in 0..MaxLength
           /\ start <= parsed /\ parsed <= offset /\ offset <= length[file]
           /\ delivered = LinesBetween(file, start, parsed)
           /\ partial = Pieces(file, FirstOf(start, parsed), parsed)
           /\ FirstOf(start, parsed) \in Nat /\ FirstOf(start, parsed) <= parsed
<1>1. Kept
  BY Keeps
<1>2. file # None /\ start <= parsed /\ parsed <= offset /\ offset <= length[file]
  BY <1>1 DEF Kept, Holding, Attached
<1>3. /\ file \in Files /\ file \in Nat /\ length[file] \in 0..MaxLength
      /\ start \in Nat /\ parsed \in Nat /\ offset \in 0..MaxLength
  BY <1>2, Unfold
<1>4. /\ delivered = LinesBetween(file, start, parsed)
      /\ partial = Pieces(file, FirstOf(start, parsed), parsed)
  BY <1>1 DEF Kept, LinesAreWhole, FirstOf
<1>5. FirstOf(start, parsed) \in Nat /\ FirstOf(start, parsed) <= parsed
  <2>1. 3 * (parsed \div 3) \in Nat /\ 3 * (parsed \div 3) <= parsed
    <3>1. parsed \in Nat
      BY <1>3
    <3>. QED
      BY <3>1, SMTT(30)
  <2>2. FirstOf(start, parsed) = start \/ FirstOf(start, parsed) = 3 * (parsed \div 3)
    BY DEF FirstOf
  <2>. QED
    BY <1>2, <1>3, <2>1, <2>2
<1>. QED
  BY <1>2, <1>3, <1>4, <1>5

LEMMA DeliverLineInvariant ==
    ASSUME IInv, DeliverLine
    PROVE  Kept'
<1> DEFINE n == NextNewline(parsed)
           line == Pieces(file, FirstOf(start, parsed), n - 1)
<1>1. /\ tailer = "split" /\ n <= offset /\ parsed' = n
      /\ delivered' = Append(delivered, partial \o Pieces(file, parsed, n - 1))
      /\ partial' = <<>> /\ known' = known \cup {file}
      /\ tailer' = (IF parsed' = offset THEN "read" ELSE "split")
      /\ UNCHANGED <<fileVars, seekEnd, batch, rotated, start, quiet, due, again>>
  BY DEF DeliverLine
<1>2. Kept /\ TailerTypeOK /\ FileTypeOK
  BY Keeps, Unfold
<1>3. /\ n \in Nat /\ parsed < n /\ n = 3 * ((parsed \div 3) + 1)
      /\ n \div 3 = (parsed \div 3) + 1 /\ parsed \div 3 \in Nat /\ start \div 3 \in Nat
  BY <1>1, SplitFacts, Thirds
<1>4. n - 1 \in 0..MaxLength /\ n \in 0..MaxLength /\ parsed <= n - 1 /\ start <= n
  <2>1. /\ parsed \in Nat /\ start \in Nat /\ start <= parsed
        /\ offset \in Nat /\ offset <= MaxLength /\ MaxLength \in Nat
    BY <1>1, SplitFacts, FileAssumption
  <2>2. n \in Nat /\ parsed < n /\ n <= offset
    BY <1>1, <1>3
  <2> HIDE DEF n
  <2>. QED
    BY <2>1, <2>2
<1> HIDE DEF n
<1>5. partial \o Pieces(file, parsed, n - 1) = line
  <2>1. /\ file \in Nat /\ parsed \in Nat /\ n - 1 \in Nat /\ parsed <= n - 1
        /\ FirstOf(start, parsed) \in Nat /\ FirstOf(start, parsed) <= parsed
        /\ partial = Pieces(file, FirstOf(start, parsed), parsed)
    BY <1>1, <1>4, SplitFacts
  <2>2. PICK f \in Nat, p \in Nat, q \in Nat, r \in Nat :
            f = file /\ p = FirstOf(start, parsed) /\ q = parsed /\ r = n - 1
    BY <2>1, Zenon
  <2>3. p <= q /\ q <= r
    BY <2>1, <2>2
  <2>4. Pieces(f, p, q) \o Pieces(f, q, r) = Pieces(f, p, r)
    BY <2>3, PiecesJoin, ZenonT(60)
  <2>. QED
    BY <2>1, <2>2, <2>4 DEF line
<1>6. LinesBetween(file, start, n) = Append(LinesBetween(file, start, parsed), line)
  <2>1. file \in Nat /\ start \in Nat /\ parsed \in Nat /\ start <= parsed
    BY <1>1, SplitFacts
  <2>. QED
    BY <2>1, LinesGrow, Zenon DEF n
<1>7. line \in Seq(Piece)
  BY <1>1, <1>4, SplitFacts, PiecesTyped
<1> HIDE DEF line
<1>8. TailerTypeOK'
  <2>1. delivered \in Seq(Seq(Piece)) /\ delivered' = Append(delivered, line)
    BY <1>1, <1>2, <1>5 DEF TailerTypeOK
  <2>2. delivered' \in Seq(Seq(Piece))
    BY <1>7, <2>1, AppendProperties
  <2>3. known' \subseteq Files
    BY <1>1, <1>2, SplitFacts DEF TailerTypeOK
  <2>. QED
    BY <1>1, <1>2, <1>4, <2>2, <2>3, EmptySeq DEF TailerTypeOK
<1>9. FileTypeOK'
  BY <1>1, <1>2 DEF FileTypeOK, fileVars, nameVars, watchVars
<1>10. LinesAreWhole'
  <2>1. delivered' = LinesBetween(file, start, n)
    BY <1>1, <1>5, <1>6, SplitFacts
  <2>2. n \div 3 # start \div 3 /\ 3 * (n \div 3) = n
    <3>1. start \div 3 <= parsed \div 3
      <4>1. start \in Nat /\ parsed \in Nat /\ start <= parsed
        BY <1>1, SplitFacts
      <4>. QED
        BY <4>1, SMTT(30)
    <3>. QED
      BY <1>3, <3>1
  <2>3. Pieces(file, n, n) = <<>>
    BY <1>1, <1>3, SplitFacts, NoPieces
  <2>4. /\ start' = start /\ file' = file /\ parsed' = n /\ partial' = <<>>
    BY <1>1 DEF fileVars
  <2>. QED
    BY <2>1, <2>2, <2>3, <2>4 DEF LinesAreWhole
<1>11. IsInformed'
  BY <1>1, <1>2 DEF Kept, IsInformed, WillRotate, Attached, fileVars, nameVars, watchVars
<1>12. IsDrained'
  BY <1>1, <1>2 DEF Kept, IsDrained, fileVars
<1>13. /\ tailer' \in {"read", "split"} /\ file' # None /\ start' <= parsed' /\ parsed' <= offset'
       /\ offset' <= length'[file'] /\ (tailer' # "split" => parsed' = offset')
  BY <1>1, <1>2, <1>4, SplitFacts DEF Kept, Holding, Attached, fileVars
<1>. QED
  BY <1>8, <1>9, <1>10, <1>11, <1>12, <1>13 DEF Kept

LEMMA BufferRestInvariant ==
    ASSUME IInv, BufferRest
    PROVE  Kept'
<1>1. /\ tailer = "split" /\ NextNewline(parsed) > offset
      /\ partial' = partial \o Pieces(file, parsed, offset)
      /\ parsed' = offset /\ tailer' = "read"
      /\ UNCHANGED <<fileVars, seekEnd, batch, rotated, delivered, start, quiet, due,
                     known, again>>
  BY DEF BufferRest
<1>2. Kept /\ TailerTypeOK /\ FileTypeOK
  BY Keeps, Unfold
<1>3. offset \div 3 = parsed \div 3
  <2>1. /\ parsed \in Nat /\ offset \in Nat /\ parsed <= offset
        /\ NextNewline(parsed) \in Nat /\ offset < NextNewline(parsed)
    BY <1>1, SplitFacts, Thirds
  <2>. QED
    BY <2>1, SameLine
<1>4. FirstOf(start, offset) = FirstOf(start, parsed)
  BY <1>3 DEF FirstOf
<1>5. partial' = Pieces(file, FirstOf(start, offset), offset)
  <2>1. /\ file \in Nat /\ parsed \in Nat /\ offset \in Nat /\ parsed <= offset
        /\ FirstOf(start, parsed) \in Nat /\ FirstOf(start, parsed) <= parsed
        /\ partial = Pieces(file, FirstOf(start, parsed), parsed)
    BY <1>1, SplitFacts
  <2>2. Pieces(file, FirstOf(start, parsed), parsed) \o Pieces(file, parsed, offset) =
           Pieces(file, FirstOf(start, parsed), offset)
    BY <2>1, PiecesJoin, ZenonT(60)
  <2>. QED
    BY <1>1, <1>4, <2>1, <2>2
<1>6. TailerTypeOK'
  <2>1. FirstOf(start, offset) \in Nat /\ FirstOf(start, offset) <= offset
    BY <1>1, <1>4, SplitFacts
  <2>2. partial' \in Seq(Piece)
    BY <1>1, <1>5, <2>1, SplitFacts, PiecesTyped
  <2>3. parsed' \in 0..MaxLength
    BY <1>1, SplitFacts
  <2>. QED
    BY <1>1, <1>2, <2>2, <2>3 DEF TailerTypeOK
<1>7. FileTypeOK'
  BY <1>1, <1>2 DEF FileTypeOK, fileVars, nameVars, watchVars
<1>8. LinesAreWhole'
  <2>1. LinesBetween(file, start, offset) = LinesBetween(file, start, parsed)
    BY <1>3 DEF LinesBetween
  <2>2. /\ start' = start /\ file' = file /\ parsed' = offset /\ delivered' = delivered
    BY <1>1 DEF fileVars
  <2>. QED
    BY <1>1, <1>5, <2>1, <2>2, SplitFacts DEF LinesAreWhole, FirstOf
<1>9. IsInformed'
  BY <1>1, <1>2 DEF Kept, IsInformed, WillRotate, Attached, fileVars, nameVars, watchVars
<1>10. IsDrained'
  BY <1>1, <1>2 DEF Kept, IsDrained, fileVars
<1>11. /\ tailer' = "read" /\ file' # None /\ start' <= parsed' /\ parsed' <= offset'
       /\ offset' <= length'[file'] /\ parsed' = offset'
  BY <1>1, <1>2, SplitFacts DEF Kept, Holding, Attached, fileVars
<1>. QED
  BY <1>6, <1>7, <1>8, <1>9, <1>10, <1>11 DEF Kept

\* What a step of the adapter has to keep.
Passes == /\ FileTypeOK /\ AdapterTypeOK
          /\ adapter = "read" => file # None /\ begun <= offset /\ offset <= length[file]
          /\ IsPassed /\ MissedWereTorn

LEMMA PassesIsEnough ==
    ASSUME IInv, tailer = "off", UNCHANGED tailerVars, Passes'
    PROVE  IInv'
<1>1. /\ tailer' = "off" /\ TailerTypeOK'
      /\ IsInformed' /\ IsDrained' /\ LinesAreWhole'
  BY TailerIdle
<1>2. InOrder'
  BY <1>1 DEF InOrder, Passes, Holding, Attached
<1>. QED
  BY <1>1, <1>2 DEF IInv, TypeOK, Passes

LEMMA DoesPass == IInv => Passes
BY DEF IInv, TypeOK, InOrder, Passes

\* The adapter gets on to position q, its line's newline or the end of the file.
LEMMA GettingOn ==
    ASSUME IInv, adapter = "read", NEW q \in Nat, NEW e \in Nat,
           offset < q, q <= NextNewline(offset),
           e = IF q = NextNewline(offset) THEN q - 1 ELSE q,
           Convert(offset, e), torn \subseteq torn',
           q % 3 = 1 => LineOf(offset) \in torn',
           offset' = q, begun' = begun, adapter' = "read"
    PROVE  converted' \in Seq(Nat) /\ IsPassed' /\ MissedWereTorn'
<1> DEFINE k == offset \div 3
           Got(c) == c \in {converted[i] : i \in 1..Len(converted)}
<1>1. /\ offset \in Nat /\ begun \in Nat /\ begun <= offset /\ converted \in Seq(Nat)
  BY DoesPass, Unfold DEF Passes, AdapterTypeOK
<1>2. /\ k \in Nat /\ offset % 3 \in 0..2 /\ offset = (3 * k) + (offset % 3)
      /\ NextNewline(offset) = (3 * k) + 3 /\ LineOf(offset) = k + 1
  <2>1. NextNewline(offset) = 3 * (k + 1)
    BY <1>1, Thirds
  <2>2. k \in Nat /\ offset % 3 \in 0..2 /\ offset = (3 * k) + (offset % 3)
    BY <1>1, Thirds
  <2>. QED
    BY <2>1, <2>2 DEF LineOf
<1>3. /\ \A i \in 1..Len(converted) : 3 * converted[i] - 1 <= offset
      /\ offset % 3 = 1 /\ begun < offset => k + 1 \in torn
      /\ \A i, j \in 1..Len(converted) : i < j => converted[i] < converted[j]
      /\ \A p \in begun..offset : p % 3 = 0 /\ p + 2 <= offset => LineOf(p) \in torn \/ Got(LineOf(p))
  BY <1>2, DoesPass DEF Passes, IsPassed, MissedWereTorn
<1> DEFINE adds == offset % 3 = 0 /\ (3 * k) + 2 <= q
<1>4. converted' = IF adds THEN Append(converted, k + 1) ELSE converted
  <2>1. offset % 3 = 0 /\ e = offset + 2 <=> adds
    BY <1>1, <1>2
  <2>. QED
    BY <1>2, <2>1 DEF Convert
<1> HIDE DEF k, adds
<1>5. /\ converted' \in Seq(Nat)
      /\ \A i \in 1..Len(converted) : i \in 1..Len(converted') /\ converted'[i] = converted[i]
      /\ \A i \in 1..Len(converted') :
            i \notin 1..Len(converted) => adds /\ i = Len(converted) + 1 /\ converted'[i] = k + 1
      /\ adds => Len(converted) + 1 \in 1..Len(converted') /\ converted'[Len(converted) + 1] = k + 1
  <2>1. CASE adds
    <3>1. /\ converted' = Append(converted, k + 1) /\ k + 1 \in Nat /\ Len(converted) \in Nat
      BY <1>1, <1>2, <1>4, <2>1, LenProperties
    <3>2. /\ converted' \in Seq(Nat) /\ Len(converted') = Len(converted) + 1
          /\ \A i \in 1..Len(converted) : converted'[i] = converted[i]
          /\ converted'[Len(converted) + 1] = k + 1
      BY <1>1, <3>1, AppendProperties
    <3>. QED
      BY <2>1, <3>1, <3>2
  <2>2. CASE ~adds
    BY <1>1, <1>4, <2>2
  <2>. QED
    BY <2>1, <2>2
<1>6. \A i \in 1..Len(converted) : converted[i] \in Nat
  BY <1>1, ElementOfSeq
<1>7. IsPassed'
  <2>1. ASSUME NEW i \in 1..Len(converted') PROVE 3 * converted'[i] - 1 <= q
    <3>1. CASE i \in 1..Len(converted)
      <4>1. converted'[i] = converted[i] /\ converted[i] \in Nat /\ 3 * converted[i] - 1 <= offset
        BY <1>3, <1>5, <1>6, <3>1
      <4>. QED
        BY <1>1, <4>1
    <3>2. CASE i \notin 1..Len(converted)
      <4>1. adds /\ converted'[i] = k + 1
        BY <1>5, <3>2
      <4>. QED
        BY <1>2, <4>1 DEF adds
    <3>. QED
      BY <3>1, <3>2
  <2>2. q % 3 = 1 => LineOf(q) \in torn'
    <3>1. SUFFICES ASSUME q % 3 = 1 PROVE LineOf(q) \in torn'
      OBVIOUS
    <3>2. q < NextNewline(offset)
      BY <1>2, <3>1
    <3>3. q \div 3 = offset \div 3
      BY <1>1, <3>2, SameLine
    <3>. QED
      BY <3>1, <3>3 DEF LineOf
  <2>. QED
    BY <2>1, <2>2 DEF IsPassed
<1>8. ASSUME NEW i \in 1..Len(converted'), NEW j \in 1..Len(converted'), i < j
      PROVE  converted'[i] < converted'[j]
  <2>0. Len(converted) \in Nat
    BY <1>1, LenProperties
  <2>1. i \in 1..Len(converted)
    <3>1. SUFFICES ASSUME i \notin 1..Len(converted) PROVE FALSE
      OBVIOUS
    <3>2. i = Len(converted) + 1
      BY <1>5, <3>1
    <3>3. j \notin 1..Len(converted)
      BY <1>8, <2>0, <3>2
    <3>4. j = Len(converted) + 1
      BY <1>5, <3>3
    <3>. QED
      BY <1>8, <2>0, <3>2, <3>4
  <2>2. CASE j \in 1..Len(converted)
    <3>1. converted'[i] = converted[i] /\ converted'[j] = converted[j]
      BY <1>5, <2>1, <2>2
    <3>. QED
      BY <1>3, <1>8, <2>1, <2>2, <3>1
  <2>3. CASE j \notin 1..Len(converted)
    <3>1. adds /\ converted'[j] = k + 1 /\ converted'[i] = converted[i]
      BY <1>5, <2>1, <2>3
    <3>2. converted[i] \in Nat /\ 3 * converted[i] - 1 <= offset
      BY <1>3, <1>6, <2>1
    <3>3. offset = 3 * k
      BY <1>2, <3>1 DEF adds
    <3>. QED
      BY <1>2, <3>1, <3>2, <3>3
  <2>. QED
    BY <2>2, <2>3
<1>9. ASSUME NEW p \in begun..q, p % 3 = 0, p + 2 <= q
      PROVE  LineOf(p) \in torn' \cup {converted'[i] : i \in 1..Len(converted')}
  <2>1. p \in Nat /\ begun <= p
    BY <1>1
  <2>2. CASE p + 2 <= offset
    <3>1. p \in begun..offset
      BY <1>1, <2>1, <2>2
    <3>2. LineOf(p) \in torn \/ Got(LineOf(p))
      BY <1>3, <1>9, <2>2, <3>1
    <3>3. Got(LineOf(p)) => LineOf(p) \in {converted'[i] : i \in 1..Len(converted')}
      BY <1>5
    <3>. QED
      BY <3>2, <3>3
  <2>3. CASE ~(p + 2 <= offset)
    <3>1. PICK j \in Nat : p = 3 * j /\ LineOf(p) = j + 1
      <4>1. p = 3 * (p \div 3) /\ p \div 3 \in Nat
        <5>1. p = (3 * (p \div 3)) + (p % 3) /\ p \div 3 \in Nat
          BY <2>1, Thirds
        <5>. QED
          BY <1>9, <5>1
      <4>. QED
        BY <4>1 DEF LineOf
    <3>2. j = k
      BY <1>1, <1>2, <1>9, <2>3, <3>1
    <3>3. CASE offset % 3 = 0
      <4>1. adds
        BY <1>2, <1>9, <3>1, <3>2, <3>3 DEF adds
      <4>2. Len(converted) + 1 \in 1..Len(converted') /\ converted'[Len(converted) + 1] = k + 1
        BY <1>5, <4>1
      <4>. QED
        BY <3>1, <3>2, <4>2
    <3>4. CASE offset % 3 # 0
      <4>1. offset % 3 = 1 /\ begun < offset
        BY <1>1, <1>2, <2>1, <2>3, <3>1, <3>2, <3>4
      <4>. QED
        BY <1>3, <3>1, <3>2, <4>1
    <3>. QED
      BY <3>3, <3>4
  <2>. QED
    BY <2>2, <2>3
<1>. QED
  BY <1>5, <1>7, <1>8, <1>9 DEF MissedWereTorn

LEMMA OpenEveInvariant ==
    ASSUME IInv, OpenEve
    PROVE  Passes'
<1>1. Passes /\ adapter = "open" /\ AdapterTypeOK /\ FileTypeOK
  BY DoesPass, Unfold DEF OpenEve
<1>2. /\ converted = <<>> /\ converted' = converted /\ atEnd' = atEnd /\ torn' = torn
      /\ UNCHANGED <<nameVars, length, writer, watchVars>>
  BY <1>1 DEF OpenEve, Passes, IsPassed
<1>3. CASE path = None
  <2>1. adapter' = "stopped" /\ UNCHANGED <<file, offset, begun>>
    BY <1>3 DEF OpenEve
  <2>2. FileTypeOK' /\ AdapterTypeOK'
    BY <1>1, <1>2, <2>1 DEF FileTypeOK, AdapterTypeOK, nameVars, watchVars
  <2>3. IsPassed' /\ MissedWereTorn'
    BY <1>1, <1>2, <2>1 DEF Passes, IsPassed, MissedWereTorn
  <2>. QED
    BY <2>1, <2>2, <2>3 DEF Passes
<1>4. CASE path # None
  <2>1. adapter' = "read" /\ file' = path /\ offset' = length[path] /\ begun' = offset'
    BY <1>4 DEF OpenEve
  <2>2. path \in Files /\ path \in 0..created /\ offset' \in 0..MaxLength
    BY <1>4, <2>1, Unfold
  <2>3. FileTypeOK'
    BY <1>1, <1>2, <2>1, <2>2 DEF FileTypeOK, nameVars, watchVars
  <2>4. AdapterTypeOK'
    BY <1>1, <1>2, <2>1, <2>2 DEF AdapterTypeOK
  <2>5. Len(converted') = 0
    BY <1>2
  <2>6. IsPassed'
    BY <2>1, <2>2, <2>5 DEF IsPassed
  <2>7. MissedWereTorn'
    <3>1. \A p \in begun'..offset' : ~(p + 2 <= offset')
      BY <2>1, <2>2
    <3>. QED
      BY <2>5, <3>1 DEF MissedWereTorn
  <2>8. file' # None /\ begun' <= offset' /\ offset' <= length'[file']
    BY <1>2, <1>4, <2>1, <2>2
  <2>. QED
    BY <2>3, <2>4, <2>6, <2>7, <2>8 DEF Passes
<1>. QED
  BY <1>3, <1>4

LEMMA AtFile ==
    ASSUME IInv, adapter = "read"
    PROVE  /\ file # None /\ file \in Files /\ length[file] \in 0..MaxLength
           /\ offset \in Nat /\ begun \in Nat /\ begun <= offset /\ offset <= length[file]
           /\ MaxLength \in Nat /\ offset < NextNewline(offset) /\ NextNewline(offset) \in Nat
<1>1. file # None /\ begun <= offset /\ offset <= length[file]
  BY DoesPass DEF Passes
<1>2. offset \in Nat
  BY Unfold
<1>3. NextNewline(offset) \in Nat /\ offset < NextNewline(offset)
  BY <1>2, Thirds
<1>. QED
  BY <1>1, <1>2, <1>3, Unfold

LEMMA GetLineInvariant ==
    ASSUME IInv, GetLine
    PROVE  Passes'
<1> DEFINE n == NextNewline(offset)
<1>1. /\ adapter = "read" /\ n <= length[file] /\ offset' = n
      /\ Convert(offset, n - 1) /\ torn' = torn
      /\ UNCHANGED <<nameVars, length, writer, watchVars, file, adapter, atEnd, begun>>
  BY DEF GetLine
<1>2. /\ n \in Nat /\ offset < n /\ n % 3 = 0 /\ begun <= n /\ n - 1 \in Nat
      /\ n \in 0..MaxLength
  <2>1. n \in Nat /\ offset < n /\ n % 3 = 0 /\ offset \in Nat /\ begun \in Nat /\ begun <= offset
    BY <1>1, AtFile, Thirds
  <2>2. n <= MaxLength /\ MaxLength \in Nat
    <3>1. n <= length[file] /\ length[file] \in 0..MaxLength /\ MaxLength \in Nat
      BY <1>1, AtFile
    <3> HIDE DEF n
    <3>. QED
      BY <2>1, <3>1
  <2> HIDE DEF n
  <2>3. n - 1 \in Nat /\ n \in 0..MaxLength /\ begun <= n
    BY <2>1, <2>2
  <2>. QED
    BY <2>1, <2>3
<1>3. converted' \in Seq(Nat) /\ IsPassed' /\ MissedWereTorn'
  <2>1. n - 1 = IF n = n THEN n - 1 ELSE n
    OBVIOUS
  <2>2. n % 3 = 1 => LineOf(offset) \in torn'
    BY <1>2
  <2>3. n <= n
    BY <1>2
  <2>. QED
    BY <1>1, <1>2, <2>1, <2>2, <2>3, GettingOn
<1>4. FileTypeOK' /\ AdapterTypeOK'
  <2>1. Passes
    BY DoesPass
  <2>. QED
    BY <1>1, <1>2, <1>3, <2>1 DEF Passes, FileTypeOK, AdapterTypeOK, nameVars, watchVars
<1>5. file' # None /\ begun' <= offset' /\ offset' <= length'[file']
  BY <1>1, <1>2, AtFile
<1>. QED
  BY <1>3, <1>4, <1>5 DEF Passes

LEMMA GetTornLineInvariant ==
    ASSUME IInv, GetTornLine
    PROVE  Passes'
<1> DEFINE q == length[file]
<1>1. /\ adapter = "read" /\ offset < q /\ q < NextNewline(offset)
      /\ offset' = q /\ atEnd' = TRUE /\ Convert(offset, q)
      /\ torn' = (IF q % 3 = 1 THEN torn \cup {LineOf(offset)} ELSE torn)
      /\ UNCHANGED <<nameVars, length, writer, watchVars, file, adapter, begun>>
  BY DEF GetTornLine
<1>2. q \in 0..MaxLength /\ begun <= q /\ NextNewline(offset) \in Nat /\ q \in Nat
      /\ LineOf(offset) \in Nat
  <2>1. offset \div 3 \in Nat
    BY <1>1, AtFile, Thirds
  <2>. QED
    BY <1>1, <2>1, AtFile DEF LineOf
<1> HIDE DEF q
<1>3. converted' \in Seq(Nat) /\ IsPassed' /\ MissedWereTorn'
  <2>1. q = IF q = NextNewline(offset) THEN q - 1 ELSE q
    BY <1>1, <1>2
  <2>2. /\ q % 3 = 1 => LineOf(offset) \in torn'
        /\ torn \subseteq torn' /\ q <= NextNewline(offset)
    BY <1>1, <1>2
  <2>. QED
    BY <1>1, <1>2, <2>1, <2>2, GettingOn
<1>4. FileTypeOK' /\ AdapterTypeOK'
  <2>1. Passes
    BY DoesPass
  <2>2. FileTypeOK'
    BY <1>1, <1>2, <2>1 DEF Passes, FileTypeOK, nameVars, watchVars
  <2>3. atEnd' \in BOOLEAN
    BY <1>1, Zenon
  <2>4. torn' \subseteq Nat
    BY <1>1, <1>2, <2>1 DEF Passes, AdapterTypeOK
  <2>. QED
    BY <1>1, <1>3, <2>1, <2>2, <2>3, <2>4 DEF Passes, AdapterTypeOK
<1>5. file' # None /\ begun' <= offset' /\ offset' <= length'[file']
  BY <1>1, <1>2, AtFile DEF q
<1>. QED
  BY <1>3, <1>4, <1>5 DEF Passes

LEMMA ClearEndInvariant ==
    ASSUME IInv, ClearEnd
    PROVE  Passes'
<1>1. atEnd' = FALSE /\ UNCHANGED <<fileVars, adapter, begun, converted, torn>>
  BY DEF ClearEnd
<1>2. Passes
  BY DoesPass
<1>3. AdapterTypeOK'
  <2>1. atEnd' \in BOOLEAN
    BY <1>1, Zenon
  <2>. QED
    BY <1>1, <1>2, <2>1 DEF Passes, AdapterTypeOK
<1>4. FileTypeOK'
  BY <1>1, <1>2 DEF Passes, FileTypeOK, fileVars, nameVars, watchVars
<1>5. IsPassed' /\ MissedWereTorn'
  BY <1>1, <1>2 DEF Passes, IsPassed, MissedWereTorn, fileVars
<1>. QED
  BY <1>1, <1>2, <1>3, <1>4, <1>5 DEF Passes, fileVars

LEMMA StopAdapterInvariant ==
    ASSUME IInv, StopAdapter
    PROVE  Passes'
<1>1. /\ adapter = "read" /\ adapter' = "stopped" /\ file' = None
      /\ UNCHANGED <<nameVars, length, writer, watchVars, offset, atEnd, begun, converted, torn>>
  BY DEF StopAdapter
<1>2. Passes
  BY DoesPass
<1>3. AdapterTypeOK'
  BY <1>1, <1>2 DEF Passes, AdapterTypeOK
<1>4. FileTypeOK'
  <2>1. created \in 0..MaxFiles /\ MaxFiles \in Nat
    BY Unfold
  <2>. QED
    BY <1>1, <1>2, <2>1 DEF Passes, FileTypeOK, nameVars, watchVars, None
<1>5. IsPassed' /\ MissedWereTorn'
  BY <1>1, <1>2 DEF Passes, IsPassed, MissedWereTorn
<1>. QED
  BY <1>1, <1>3, <1>4, <1>5 DEF Passes

LEMMA TailerInvariant ==
    ASSUME IInv, TailerStep \/ StopTailer, UNCHANGED adapterVars
    PROVE  IInv'
<1>1. tailer # "off"
  BY DEF TailerStep, Open, AddWatch, AddWatchFails, ReadEvents, HandleEvent, ReadChunk,
         EndOfFile, DeliverLine, BufferRest, NotRotated, Rotate, StopTailer
<1>2. Kept'
  BY OpenInvariant, AddWatchInvariant, AddWatchFailsInvariant, ReadEventsInvariant,
     HandleEventInvariant, ReadChunkInvariant, EndOfFileInvariant, DeliverLineInvariant,
     BufferRestInvariant, NotRotatedInvariant, RotateInvariant, StopTailerInvariant
     DEF TailerStep
<1>. QED
  BY <1>1, <1>2, KeptIsEnough

LEMMA AdapterInvariant ==
    ASSUME IInv, AdapterStep \/ StopAdapter, UNCHANGED tailerVars
    PROVE  IInv'
<1>1. adapter # "off"
  BY DEF AdapterStep, OpenEve, GetLine, GetTornLine, ClearEnd, StopAdapter
<1>2. tailer = "off"
  BY <1>1 DEF IInv, InOrder
<1>3. Passes'
  BY OpenEveInvariant, GetLineInvariant, GetTornLineInvariant, ClearEndInvariant,
     StopAdapterInvariant DEF AdapterStep
<1>. QED
  BY <1>2, <1>3, PassesIsEnough

LEMMA StutterInvariant ==
    ASSUME IInv, UNCHANGED vars
    PROVE  IInv'
<1>1. UNCHANGED <<fileVars, tailerVars, adapterVars>>
  BY DEF vars
<1>2. TypeOK'
  BY <1>1 DEF IInv, TypeOK, FileTypeOK, TailerTypeOK, AdapterTypeOK, fileVars, nameVars,
              watchVars, tailerVars, adapterVars
<1>3. InOrder' /\ IsInformed' /\ IsDrained'
  BY <1>1 DEF IInv, InOrder, IsInformed, WillRotate, IsDrained, fileVars, nameVars,
              watchVars, tailerVars, adapterVars
<1>4. IsPassed' /\ LinesAreWhole' /\ MissedWereTorn'
  BY <1>1 DEF IInv, IsPassed, LinesAreWhole, MissedWereTorn, fileVars, tailerVars, adapterVars
<1>. QED
  BY <1>2, <1>3, <1>4 DEF IInv

LEMMA NextInvariant == IInv /\ [Next]_vars => IInv'
<1> SUFFICES ASSUME IInv, [Next]_vars PROVE IInv'
  OBVIOUS
<1>1. CASE FileNext /\ UNCHANGED <<tailerVars, adapterVars>>
  BY <1>1, LogInvariant
<1>2. CASE (TailerStep \/ StopTailer) /\ UNCHANGED adapterVars
  BY <1>2, TailerInvariant
<1>3. CASE (AdapterStep \/ StopAdapter) /\ UNCHANGED tailerVars
  BY <1>3, AdapterInvariant
<1>4. CASE UNCHANGED vars
  BY <1>4, StutterInvariant
<1>. QED
  BY <1>1, <1>2, <1>3, <1>4 DEF Next

-----------------------------------------------------------------------------
(* Lines are read once. *)

\* What a queue of events tells when it grows, is split or loses its head.
LEMMA TellsAppend ==
    ASSUME NEW s \in Seq(Event), NEW e \in Event
    PROVE  /\ Append(s, e) \in Seq(Event)
           /\ Tells(Append(s, e)) <=> Tells(s) \/ e.kind \in Rotates
           /\ TellsOnce(s) /\ (Tells(s) => e.kind \notin Rotates) => TellsOnce(Append(s, e))
<1> DEFINE a == Append(s, e)
           n == Len(s)
<1>1. /\ a \in Seq(Event) /\ Len(a) = n + 1 /\ n \in Nat
      /\ \A i \in 1..n : a[i] = s[i]
      /\ a[n + 1] = e
  BY AppendProperties, LenProperties
<1> HIDE DEF a
<1>2. Tells(a) <=> Tells(s) \/ e.kind \in Rotates
  <2>1. Tells(a) => Tells(s) \/ e.kind \in Rotates
    <3> SUFFICES ASSUME NEW i \in 1..(n + 1), a[i].kind \in Rotates
                 PROVE  Tells(s) \/ e.kind \in Rotates
      BY <1>1 DEF Tells
    <3>1. i \in 1..n \/ i = n + 1
      BY <1>1
    <3>. QED
      BY <1>1, <3>1 DEF Tells
  <2>2. Tells(s) => Tells(a)
    <3> SUFFICES ASSUME NEW i \in 1..n, s[i].kind \in Rotates PROVE Tells(a)
      BY DEF Tells
    <3>1. i \in 1..Len(a) /\ a[i] = s[i]
      BY <1>1
    <3>. QED
      BY <3>1 DEF Tells
  <2>3. e.kind \in Rotates => Tells(a)
    <3>1. n + 1 \in 1..Len(a)
      BY <1>1
    <3>. QED
      BY <1>1, <3>1 DEF Tells
  <2>. QED
    BY <2>1, <2>2, <2>3
<1>3. ASSUME TellsOnce(s), Tells(s) => e.kind \notin Rotates PROVE TellsOnce(a)
  <2> SUFFICES ASSUME NEW i \in 1..(n + 1), NEW j \in 1..(n + 1),
                      a[i].kind \in Rotates, a[j].kind \in Rotates
               PROVE  i = j
    BY <1>1 DEF TellsOnce
  <2>1. (i \in 1..n \/ i = n + 1) /\ (j \in 1..n \/ j = n + 1)
    BY <1>1
  <2>2. CASE i \in 1..n /\ j \in 1..n
    BY <1>1, <1>3, <2>2 DEF TellsOnce
  <2>3. CASE i \in 1..n /\ j = n + 1
    BY <1>1, <1>3, <2>3 DEF Tells
  <2>4. CASE i = n + 1 /\ j \in 1..n
    BY <1>1, <1>3, <2>4 DEF Tells
  <2>. QED
    BY <2>1, <2>2, <2>3, <2>4
<1>. QED
  BY <1>1, <1>2, <1>3 DEF a

LEMMA TellsSplit ==
    ASSUME NEW s \in Seq(Event), NEW n \in 0..Len(s)
    PROVE  LET a == SubSeq(s, 1, n)
               b == SubSeq(s, n + 1, Len(s))
           IN  /\ Tells(a) \/ Tells(b) => Tells(s)
               /\ TellsOnce(s) => TellsOnce(a) /\ TellsOnce(b) /\ (Tells(a) => ~Tells(b))
<1> DEFINE a == SubSeq(s, 1, n)
           b == SubSeq(s, n + 1, Len(s))
<1>1. Len(s) \in Nat /\ n \in Nat /\ n <= Len(s)
  BY LenProperties
<1>2. Len(a) = n /\ \A i \in 1..n : i \in 1..Len(s) /\ a[i] = s[i]
  BY <1>1
<1>3. /\ Len(b) = Len(s) - n
      /\ \A i \in 1..(Len(s) - n) : n + i \in 1..Len(s) /\ b[i] = s[n + i]
  <2>1. n + 1 \in 1..(Len(s) + 1)
    BY <1>1
  <2>2. Len(b) = Len(s) - n
    BY <1>1, <2>1
  <2>3. ASSUME NEW i \in 1..(Len(s) - n) PROVE n + i \in 1..Len(s) /\ b[i] = s[n + i]
    BY <1>1, <2>1, <2>2
  <2>. QED
    BY <2>2, <2>3
<1> HIDE DEF a, b
<1>4. Tells(a) \/ Tells(b) => Tells(s)
  BY <1>2, <1>3 DEF Tells
<1>5. TellsOnce(s) => TellsOnce(a)
  BY <1>2 DEF TellsOnce
<1>6. TellsOnce(s) => TellsOnce(b)
  <2> SUFFICES ASSUME TellsOnce(s), NEW i \in 1..(Len(s) - n), NEW j \in 1..(Len(s) - n),
                      b[i].kind \in Rotates, b[j].kind \in Rotates
               PROVE  i = j
    BY <1>3 DEF TellsOnce
  <2>1. n + i = n + j
    BY <1>3 DEF TellsOnce
  <2>. QED
    BY <1>1, <2>1
<1>7. TellsOnce(s) => ~(Tells(a) /\ Tells(b))
  <2> SUFFICES ASSUME TellsOnce(s), NEW i \in 1..n, NEW j \in 1..(Len(s) - n),
                      a[i].kind \in Rotates, b[j].kind \in Rotates
               PROVE  FALSE
    BY <1>2, <1>3 DEF Tells
  <2>1. i = n + j
    BY <1>2, <1>3 DEF TellsOnce
  <2>. QED
    BY <1>1, <2>1
<1>. QED
  BY <1>4, <1>5, <1>6, <1>7 DEF a, b

LEMMA TellsTail ==
    ASSUME NEW s \in Seq(Event), s # <<>>
    PROVE  /\ Tells(s) <=> Head(s).kind \in Rotates \/ Tells(Tail(s))
           /\ TellsOnce(s) => /\ TellsOnce(Tail(s))
                              /\ Head(s).kind \in Rotates => ~Tells(Tail(s))
<1> DEFINE t == Tail(s)
           n == Len(s)
<1>1. /\ n \in Nat \ {0} /\ Head(s) = s[1] /\ Len(t) = n - 1
      /\ \A i \in 1..(n - 1) : t[i] = s[i + 1]
  <2>1. n \in Nat \ {0}
    BY EmptySeq, LenProperties
  <2>. QED
    BY <2>1, HeadTailProperties
<1> HIDE DEF t, n
<1>2. \A i \in 1..n : i = 1 \/ (i - 1 \in 1..(n - 1) /\ t[i - 1] = s[i])
  <2> SUFFICES ASSUME NEW i \in 1..n, i # 1 PROVE i - 1 \in 1..(n - 1) /\ t[i - 1] = s[i]
    OBVIOUS
  <2>1. i - 1 \in 1..(n - 1) /\ (i - 1) + 1 = i
    BY <1>1
  <2>. QED
    BY <1>1, <2>1
<1>3. Tells(s) <=> Head(s).kind \in Rotates \/ Tells(t)
  <2>1. Tells(s) => Head(s).kind \in Rotates \/ Tells(t)
    BY <1>1, <1>2 DEF Tells, n
  <2>2. Head(s).kind \in Rotates => Tells(s)
    BY <1>1 DEF Tells, n
  <2>3. Tells(t) => Tells(s)
    <3> SUFFICES ASSUME NEW i \in 1..(n - 1), t[i].kind \in Rotates PROVE Tells(s)
      BY <1>1 DEF Tells
    <3>1. i + 1 \in 1..n
      BY <1>1
    <3>. QED
      BY <1>1, <3>1 DEF Tells, n
  <2>. QED
    BY <2>1, <2>2, <2>3
<1>4. ASSUME TellsOnce(s)
      PROVE  TellsOnce(t) /\ (Head(s).kind \in Rotates => ~Tells(t))
  <2>1. ASSUME NEW i \in 1..(n - 1), NEW j \in 1..n, t[i].kind \in Rotates, s[j].kind \in Rotates
        PROVE  j = i + 1
    <3>1. i + 1 \in 1..n /\ s[i + 1].kind \in Rotates
      BY <1>1, <2>1
    <3>. QED
      BY <1>4, <2>1, <3>1 DEF TellsOnce, n
  <2>2. TellsOnce(t)
    <3> SUFFICES ASSUME NEW i \in 1..(n - 1), NEW j \in 1..(n - 1),
                        t[i].kind \in Rotates, t[j].kind \in Rotates
                 PROVE  i = j
      BY <1>1 DEF TellsOnce
    <3>1. j + 1 \in 1..n /\ s[j + 1].kind \in Rotates
      BY <1>1
    <3>2. j + 1 = i + 1
      BY <2>1, <3>1
    <3>. QED
      BY <1>1, <3>2
  <2>3. Head(s).kind \in Rotates => ~Tells(t)
    <3> SUFFICES ASSUME Head(s).kind \in Rotates, NEW i \in 1..(n - 1), t[i].kind \in Rotates
                 PROVE  FALSE
      BY <1>1 DEF Tells
    <3>1. 1 = i + 1
      BY <1>1, <2>1
    <3>. QED
      BY <1>1, <3>1
  <2>. QED
    BY <2>2, <2>3
<1>. QED
  BY <1>3, <1>4 DEF t

\* Changes are only added to.
LEMMA ChangesAppend ==
    ASSUME changes \in Seq(Files), NEW f \in Files, Changed(f)
    PROVE  /\ \A g : WasChanged(g)' <=> WasChanged(g) \/ g = f
           /\ Repeats \/ WasChanged(f) => Repeats'
<1> DEFINE n == Len(changes)
<1>1. /\ n \in Nat /\ Len(changes') = n + 1
      /\ \A i \in 1..n : changes'[i] = changes[i]
      /\ changes'[n + 1] = f
  BY AppendProperties, LenProperties DEF Changed
<1>2. \A i \in 1..n : i \in 1..Len(changes') /\ i < n + 1
  BY <1>1
<1>3. n + 1 \in 1..Len(changes') /\ \A i \in 1..Len(changes') : i \in 1..n \/ i = n + 1
  BY <1>1
<1>4. ASSUME NEW g PROVE WasChanged(g)' <=> WasChanged(g) \/ g = f
  BY <1>1, <1>2, <1>3 DEF WasChanged
<1>5. Repeats => Repeats'
  BY <1>1, <1>2 DEF Repeats
<1>6. WasChanged(f) => Repeats'
  BY <1>1, <1>2, <1>3 DEF WasChanged, Repeats
<1>. QED
  BY <1>4, <1>5, <1>6

LEMMA NoChange ==
    ASSUME changes' = changes
    PROVE  (Repeats' <=> Repeats) /\ \A g : WasChanged(g)' <=> WasChanged(g)
BY DEF Repeats, WasChanged

\* There is a rotation the tailer has not acted upon.
Pending == Leaving \/ Tells(batch) \/ Tells(events)

\* A first change of a file is that of the file behind the path, and nothing was
\* told of it before.
LEMMA FirstChange ==
    ASSUME IInv, OnceInv, NEW f \in Files, MayChange(f), Changed(f), ~Repeats'
    PROVE  /\ ~Repeats /\ f = path /\ f \in 1..created /\ f \notin unlinked
           /\ \A g \in 1..created : WasChanged(g)'
           /\ watched = f => tailer \in Attached /\ ~Pending
<1>1. FileTypeOK /\ f \in 1..created /\ f \notin unlinked
  BY Unfold DEF MayChange
<1>2. changes \in Seq(Files)
  BY <1>1 DEF FileTypeOK
<1>3. ~Repeats /\ ~WasChanged(f) /\ \A g : WasChanged(g)' <=> WasChanged(g) \/ g = f
  BY <1>2, ChangesAppend
<1>4. StillNamed /\ ToldOnce /\ IsKnown
  BY <1>3 DEF OnceInv
<1>5. f = path
  BY <1>1, <1>3, <1>4 DEF StillNamed
<1>6. \A g \in 1..created : WasChanged(g)'
  BY <1>3, <1>4, <1>5 DEF StillNamed
<1>7. ASSUME watched = f PROVE tailer \in Attached /\ ~Pending
  <2>1. watched # None
    BY <1>1, <1>7 DEF None
  <2>2. tailer \in Attached
    BY <1>4, <2>1 DEF IsKnown
  <2>3. ~Pending
    BY <1>3, <1>4, <1>7, <2>1 DEF ToldOnce, Pending
  <2>. QED
    BY <2>2, <2>3
<1>. QED
  BY <1>1, <1>3, <1>5, <1>6, <1>7

LEMMA NotifyTells ==
    ASSUME FileTypeOK, NEW f, NEW kind \in Kinds, Notify(f, kind)
    PROVE  /\ kind \notin Rotates \/ watched # f =>
                 (Tells(events') <=> Tells(events)) /\ (TellsOnce(events) => TellsOnce(events'))
           /\ ~Tells(events) => TellsOnce(events')
<1> DEFINE e == [wd |-> wd, kind |-> kind]
<1>1. events \in Seq(Event) /\ e \in Event /\ e.kind = kind
  BY DEF FileTypeOK, Event
<1>2. \/ events' = Append(events, e) /\ watched = f
      \/ events' = events
  BY DEF Notify
<1>3. ~Tells(events) => TellsOnce(events)
  BY DEF Tells, TellsOnce
<1> HIDE DEF e
<1>4. CASE events' = Append(events, e) /\ watched = f
  BY <1>1, <1>3, <1>4, TellsAppend
<1>5. CASE events' = events
  BY <1>3, <1>5
<1>. QED
  BY <1>2, <1>4, <1>5

LEMMA VanishTells ==
    ASSUME FileTypeOK, NEW f, Vanish(f)
    PROVE  /\ watched # f => events' = events /\ watched' = watched
           /\ watched = f => watched' = None /\ (~Tells(events) => TellsOnce(events'))
<1> DEFINE d == [wd |-> wd, kind |-> "deleteSelf"]
           g == [wd |-> wd, kind |-> "ignored"]
           s == Append(events, d)
<1>1. /\ events \in Seq(Event) /\ d \in Event /\ g \in Event
      /\ g.kind \notin Rotates
  BY DEF FileTypeOK, Event, Kinds, Rotates
<1>2. IF watched = f THEN watched' = None /\ events' = events \o <<d, g>>
      ELSE watched' = watched /\ events' = events
  BY DEF Vanish
<1> HIDE DEF d, g
<1>3. events \o <<d, g>> = Append(s, g)
  BY <1>1
<1>4. ASSUME ~Tells(events) PROVE TellsOnce(Append(s, g))
  <2>1. TellsOnce(events)
    BY <1>4 DEF Tells, TellsOnce
  <2>2. s \in Seq(Event) /\ TellsOnce(s)
    BY <1>1, <1>4, <2>1, TellsAppend
  <2> HIDE DEF s
  <2>. QED
    BY <1>1, <2>2, TellsAppend
<1>. QED
  BY <1>2, <1>3, <1>4

\* What the writer and the rotation do leaves the tailer where it is.
LEMMA WriteOnce ==
    ASSUME IInv, OnceInv, NEW n \in 1..3, Write(n), UNCHANGED tailerVars
    PROVE  OnceInv'
<1>1. /\ UNCHANGED <<path, created, unlinked, changes, watched, file>>
      /\ UNCHANGED <<tailer, batch, rotated, known, again>>
      /\ Notify(writer, "modify")
  BY DEF Write, nameVars, tailerVars
<1>2. FileTypeOK
  BY Unfold
<1>3. Tells(events') <=> Tells(events)
  BY <1>1, <1>2, NotifyTells DEF Kinds, Rotates
<1>4. TellsOnce(events) => TellsOnce(events')
  BY <1>1, <1>2, NotifyTells DEF Kinds, Rotates
<1>5. (Repeats' <=> Repeats) /\ \A g : WasChanged(g)' <=> WasChanged(g)
  BY <1>1, NoChange
<1>6. ReadsOnce' /\ IsKnown'
  BY <1>1, <1>5 DEF OnceInv, ReadsOnce, IsKnown
<1>7. ASSUME ~Repeats' PROVE StillNamed' /\ ToldOnce' /\ StaysWithPath'
  <2>1. StillNamed /\ ToldOnce /\ StaysWithPath
    BY <1>5, <1>7 DEF OnceInv
  <2>2. StillNamed' /\ StaysWithPath'
    BY <1>1, <1>5, <2>1 DEF StillNamed, StaysWithPath
  <2>3. ToldOnce'
    BY <1>1, <1>3, <1>4, <1>5, <2>1 DEF ToldOnce, Leaving
  <2>. QED
    BY <2>2, <2>3
<1>. QED
  BY <1>6, <1>7 DEF OnceInv

LEMMA WriterOpensOnce ==
    ASSUME IInv, OnceInv, WriterOpens, UNCHANGED tailerVars
    PROVE  OnceInv'
<1>1. /\ UNCHANGED <<unlinked, changes, file, tailer, batch, rotated, known, again>>
      /\ \/ UNCHANGED <<path, created>>
         \/ path = None /\ created' = created + 1 /\ path' = created + 1
      /\ \/ writer \in unlinked /\ Vanish(writer)
         \/ UNCHANGED <<watched, events>>
  BY DEF WriterOpens, tailerVars, watchVars
<1>2. /\ FileTypeOK /\ created \in Nat /\ file \in 0..created /\ unlinked \subseteq Files
      /\ known \subseteq 1..created /\ path \in 0..created
      /\ created' \in Nat /\ created <= created'
  <2>1. /\ FileTypeOK /\ created \in 0..MaxFiles /\ file \in 0..created /\ unlinked \subseteq Files
        /\ path \in 0..created /\ MaxFiles \in Nat
    BY Unfold
  <2>. QED
    BY <1>1, <2>1 DEF OnceInv, IsKnown
<1>3. \/ events' = events /\ watched' = watched
      \/ /\ watched \in unlinked /\ watched' = None
         /\ ~Tells(events) => TellsOnce(events')
  BY <1>1, <1>2, VanishTells
<1>4. (Repeats' <=> Repeats) /\ \A g : WasChanged(g)' <=> WasChanged(g)
  BY <1>1, NoChange
<1>5. ReadsOnce' /\ IsKnown'
  <2>1. known \subseteq 1..created'
    BY <1>2
  <2>2. \A f \in Files : WasChanged(f) => f <= created'
    <3> SUFFICES ASSUME NEW f \in Files, WasChanged(f) PROVE f <= created'
      OBVIOUS
    <3>1. f <= created
      BY DEF OnceInv, IsKnown
    <3>2. f \in Nat
      BY DEF Files
    <3>. QED
      BY <1>2, <3>1, <3>2
  <2>. QED
    BY <1>1, <1>3, <1>4, <2>1, <2>2 DEF OnceInv, ReadsOnce, IsKnown
<1>6. ASSUME ~Repeats' PROVE StillNamed' /\ ToldOnce' /\ StaysWithPath'
  <2>1. StillNamed /\ ToldOnce /\ StaysWithPath /\ IsKnown
    BY <1>4, <1>6 DEF OnceInv
  <2>2. StillNamed'
    <3>1. CASE UNCHANGED <<path, created>>
      BY <1>4, <2>1, <3>1 DEF StillNamed
    <3>2. CASE path = None /\ created' = created + 1 /\ path' = created + 1
      <4> SUFFICES ASSUME NEW f \in 1..(created + 1)
                   PROVE  f = path' <=> ~WasChanged(f)
        BY <1>4, <3>2 DEF StillNamed
      <4>1. CASE f \in 1..created
        <5>1. f # path /\ f # path'
          BY <1>2, <3>2, <4>1 DEF None
        <5>. QED
          BY <2>1, <4>1, <5>1 DEF StillNamed
      <4>2. CASE f = created + 1
        <5>1. ~(f <= created)
          BY <1>2, <4>2
        <5>2. f \in Files
          <6>1. created' \in 0..MaxFiles /\ created' = f
            BY <3>2, <4>2, LogGrows, Unfold DEF FileNext, FileTypeOK
          <6>. QED
            BY <1>2, <4>2, <6>1, FileAssumption DEF Files
        <5>. QED
          BY <2>1, <3>2, <4>2, <5>1, <5>2 DEF IsKnown
      <4>. QED
        BY <1>2, <4>1, <4>2
    <3>. QED
      BY <1>1, <3>1, <3>2
  <2>3. ToldOnce'
    <3>1. CASE events' = events /\ watched' = watched
      BY <1>1, <1>4, <2>1, <3>1 DEF ToldOnce, Leaving
    <3>2. CASE /\ watched \in unlinked /\ watched' = None
               /\ ~Tells(events) => TellsOnce(events')
      <4>1. ~Leaving /\ ~Tells(batch) /\ ~Tells(events)
        BY <2>1, <3>2 DEF ToldOnce
      <4>2. tailer \in Attached /\ None \notin unlinked
        <5>1. None \notin unlinked
          BY <1>2 DEF Files, None
        <5>. QED
          BY <2>1, <3>2, <5>1 DEF IsKnown
      <4>3. Leaving' <=> Leaving
        BY <1>1 DEF Leaving
      <4>. QED
        BY <1>1, <2>1, <3>2, <4>1, <4>2, <4>3 DEF ToldOnce
    <3>. QED
      BY <1>3, <3>1, <3>2
  <2>4. StaysWithPath'
    <3>1. CASE UNCHANGED <<path, created>>
      <4>1. CASE watched' = watched
        BY <1>1, <2>1, <3>1, <4>1 DEF StaysWithPath
      <4>2. CASE watched \in unlinked
        <5>1. WasChanged(watched) /\ watched \in Files
          BY <1>2, <2>1, <4>2 DEF IsKnown
        <5>2. watched <= created /\ watched \in Nat \ {0}
          BY <2>1, <5>1 DEF IsKnown, Files
        <5>3. watched \in 1..created
          BY <1>2, <5>2
        <5>4. watched # path
          BY <2>1, <5>1, <5>3 DEF StillNamed
        <5>. QED
          BY <1>1, <2>1, <3>1, <5>4 DEF StaysWithPath
      <4>. QED
        BY <1>3, <4>1, <4>2
    <3>2. CASE path = None /\ created' = created + 1 /\ path' = created + 1
      <4>1. path' # file /\ path' \notin known
        BY <1>2, <3>2
      <4>. QED
        BY <1>1, <4>1 DEF StaysWithPath
    <3>. QED
      BY <1>1, <3>1, <3>2
  <2>. QED
    BY <2>2, <2>3, <2>4
<1>. QED
  BY <1>5, <1>6 DEF OnceInv

\* The path is without a file after the first change of one.
LEMMA ChangedOnce ==
    ASSUME IInv, OnceInv, NEW f \in Files, MayChange(f), Changed(f), ~Repeats', path' = None,
           UNCHANGED <<created, file, tailerVars>>
    PROVE  StillNamed' /\ StaysWithPath'
<1>1. /\ \A g \in 1..created : WasChanged(g)'
      /\ ~Repeats
  BY FirstChange
<1>2. UNCHANGED <<tailer, known>>
  BY DEF tailerVars
<1>3. None \notin 1..created /\ known \subseteq 1..created
  BY DEF None, OnceInv, IsKnown
<1>4. tailer \in Attached => file # None
  BY DEF IInv, InOrder, Holding, Attached
<1>5. StillNamed'
  BY <1>1, <1>3 DEF StillNamed
<1>6. StaysWithPath'
  BY <1>2, <1>3, <1>4 DEF StaysWithPath
<1>. QED
  BY <1>5, <1>6

\* What a change leaves of the rest of the invariant.
LEMMA ChangedKnown ==
    ASSUME IInv, OnceInv, NEW f \in Files, MayChange(f), Changed(f),
           UNCHANGED <<created, tailerVars>>,
           unlinked' \subseteq unlinked \cup {f}, watched' \in {watched, None}
    PROVE  ReadsOnce' /\ IsKnown'
<1>1. /\ UNCHANGED <<tailer, known, again>> /\ f \in 1..created
      /\ changes \in Seq(Files)
  BY Unfold DEF tailerVars, MayChange, FileTypeOK
<1>2. (\A g : WasChanged(g)' <=> WasChanged(g) \/ g = f) /\ (Repeats => Repeats')
  BY <1>1, ChangesAppend
<1>3. f <= created
  BY <1>1
<1>. QED
  BY <1>1, <1>2, <1>3 DEF OnceInv, ReadsOnce, IsKnown

LEMMA RenameOnce ==
    ASSUME IInv, OnceInv, NEW f \in Files, Rename(f), UNCHANGED tailerVars
    PROVE  OnceInv'
<1>1. /\ MayChange(f) /\ Changed(f) /\ Notify(f, "moveSelf")
      /\ f = path => path' = None
      /\ UNCHANGED <<created, unlinked, watched, file>>
      /\ UNCHANGED <<tailer, batch, rotated, known, again>>
  BY DEF Rename, tailerVars
<1>2. FileTypeOK
  BY Unfold
<1>3. ReadsOnce' /\ IsKnown'
  BY <1>1, ChangedKnown
<1>4. ASSUME ~Repeats' PROVE StillNamed' /\ ToldOnce' /\ StaysWithPath'
  <2>1. /\ ~Repeats /\ f = path /\ f \in 1..created /\ f \notin unlinked
        /\ \A g \in 1..created : WasChanged(g)'
        /\ watched = f => tailer \in Attached /\ ~Pending
    BY <1>1, <1>4, FirstChange
  <2>2. StillNamed' /\ StaysWithPath'
    BY <1>1, <1>4, <2>1, ChangedOnce
  <2>3. ToldOnce
    BY <2>1 DEF OnceInv
  <2>4. ToldOnce'
    <3>1. Leaving' <=> Leaving
      BY <1>1 DEF Leaving
    <3>2. CASE watched = f
      <4>1. TellsOnce(events') /\ ~Leaving /\ ~Tells(batch)
        BY <1>1, <1>2, <2>1, <3>2, NotifyTells DEF Kinds, Pending
      <4>. QED
        BY <1>1, <2>1, <2>3, <3>1, <3>2, <4>1 DEF ToldOnce
    <3>3. CASE watched # f
      <4>1. /\ Tells(events') <=> Tells(events)
            /\ TellsOnce(events) => TellsOnce(events')
        BY <1>1, <1>2, <3>3, NotifyTells DEF Kinds
      <4>2. \A g : WasChanged(g) => WasChanged(g)'
        BY <1>1, <1>2, ChangesAppend DEF FileTypeOK
      <4>. QED
        BY <1>1, <2>3, <3>1, <4>1, <4>2 DEF ToldOnce
    <3>. QED
      BY <3>2, <3>3
  <2>. QED
    BY <2>2, <2>4
<1>. QED
  BY <1>3, <1>4 DEF OnceInv

LEMMA UnlinkOnce ==
    ASSUME IInv, OnceInv, NEW f \in Files, Unlink(f), UNCHANGED tailerVars
    PROVE  OnceInv'
<1>1. /\ MayChange(f) /\ Changed(f)
      /\ Vanish(f) \/ UNCHANGED <<watched, events>>
      /\ f = path => path' = None
      /\ unlinked' = unlinked \cup {f}
      /\ UNCHANGED <<created, file>>
      /\ UNCHANGED <<tailer, batch, rotated, known, again>>
  BY DEF Unlink, tailerVars, watchVars
<1>2. FileTypeOK /\ f # None
  BY Unfold DEF Files, None
<1>3. \/ watched' = watched /\ events' = events
      \/ watched = f /\ watched' = None /\ (~Tells(events) => TellsOnce(events'))
  BY <1>1, <1>2, VanishTells
<1>4. ReadsOnce' /\ IsKnown'
  BY <1>1, <1>3, ChangedKnown
<1>5. ASSUME ~Repeats' PROVE StillNamed' /\ ToldOnce' /\ StaysWithPath'
  <2>1. /\ ~Repeats /\ f = path /\ f \in 1..created /\ f \notin unlinked
        /\ \A g \in 1..created : WasChanged(g)'
        /\ watched = f => tailer \in Attached /\ ~Pending
    BY <1>1, <1>5, FirstChange
  <2>2. StillNamed' /\ StaysWithPath'
    BY <1>1, <1>5, <2>1, ChangedOnce
  <2>3. ToldOnce
    BY <2>1 DEF OnceInv
  <2>4. ToldOnce'
    <3>1. Leaving' <=> Leaving
      BY <1>1 DEF Leaving
    <3>2. CASE watched' = watched /\ events' = events
      <4>1. Pending => watched \notin unlinked'
        BY <1>1, <2>1, <2>3 DEF ToldOnce, Pending
      <4>2. \A g : WasChanged(g) => WasChanged(g)'
        BY <1>1, <1>2, ChangesAppend DEF FileTypeOK
      <4>. QED
        BY <1>1, <2>3, <3>1, <3>2, <4>1, <4>2 DEF ToldOnce, Pending
    <3>3. CASE watched = f /\ watched' = None /\ (~Tells(events) => TellsOnce(events'))
      <4>1. ~Leaving /\ ~Tells(batch) /\ TellsOnce(events') /\ tailer \in Attached
        BY <2>1, <3>3 DEF Pending
      <4>2. None \notin unlinked'
        BY <1>1, <1>2, Unfold DEF Files, None
      <4>. QED
        BY <1>1, <2>3, <3>1, <3>3, <4>1, <4>2 DEF ToldOnce
    <3>. QED
      BY <1>3, <3>2, <3>3
  <2>. QED
    BY <2>2, <2>4
<1>. QED
  BY <1>4, <1>5 DEF OnceInv

\* Nothing is told of where nothing is queued.
LEMMA NothingTold == ~Tells(<<>>) /\ TellsOnce(<<>>)
<1>1. Len(<<>>) = 0
  BY EmptySeq
<1>. QED
  BY <1>1 DEF Tells, TellsOnce

\* Where the tailer has no watch, it was told of nothing and delivered nothing
\* from the file behind the path.
LEMMA Detached ==
    ASSUME OnceInv, tailer \notin Attached
    PROVE  /\ watched = None
           /\ ~Repeats => ~Pending /\ (path \in known => tailer = "stopped")
BY DEF OnceInv, IsKnown, ToldOnce, StaysWithPath, Pending

\* The tailer moves about in a file, or lets go of one it has no watch on.
LEMMA MovesOnce ==
    ASSUME OnceInv, UNCHANGED <<path, created, unlinked, changes, watched>>,
           UNCHANGED <<known, again>>,
           tailer' \in Attached => tailer \in Attached /\ file' = file,
           tailer' \in Attached <=> tailer \in Attached,
           tailer' = "stopped" <=> tailer = "stopped",
           ~Repeats => /\ Pending' => Pending
                       /\ TellsOnce(batch') /\ TellsOnce(events')
                       /\ Tells(batch') => ~Tells(events')
                       /\ Leaving' => ~Tells(batch') /\ ~Tells(events')
    PROVE  OnceInv'
<1>1. (Repeats' <=> Repeats) /\ \A g : WasChanged(g)' <=> WasChanged(g)
  BY NoChange
<1>2. ReadsOnce' /\ IsKnown'
  BY <1>1 DEF OnceInv, ReadsOnce, IsKnown
<1>3. ASSUME ~Repeats' PROVE StillNamed' /\ ToldOnce' /\ StaysWithPath'
  <2>1. StillNamed /\ ToldOnce /\ StaysWithPath /\ ~Repeats
    BY <1>1, <1>3 DEF OnceInv
  <2>2. StillNamed'
    BY <1>1, <2>1 DEF StillNamed
  <2>3. ToldOnce'
    BY <1>1, <2>1 DEF ToldOnce, Pending
  <2>4. StaysWithPath'
    BY <2>1 DEF StaysWithPath
  <2>. QED
    BY <2>2, <2>3, <2>4
<1>. QED
  BY <1>2, <1>3 DEF OnceInv

LEMMA OpenOnce ==
    ASSUME OnceInv, Open
    PROVE  OnceInv'
<1>1. /\ tailer = "open" /\ tailer' = "watch"
      /\ UNCHANGED <<path, created, unlinked, changes, watched, events, batch, rotated, known>>
      /\ again' = (again \/ path \in known)
  BY DEF Open, nameVars, watchVars
<1>2. (Repeats' <=> Repeats) /\ \A g : WasChanged(g)' <=> WasChanged(g)
  BY <1>1, NoChange
<1>3. watched = None /\ (~Repeats => ~Pending /\ path \notin known)
  BY <1>1, Detached DEF Attached
<1>4. ReadsOnce'
  BY <1>1, <1>2, <1>3 DEF OnceInv, ReadsOnce
<1>5. IsKnown'
  BY <1>1, <1>2, <1>3 DEF OnceInv, IsKnown
<1>6. ASSUME ~Repeats' PROVE StillNamed' /\ ToldOnce' /\ StaysWithPath'
  <2>1. StillNamed /\ ToldOnce /\ StaysWithPath /\ ~Pending /\ path \notin known
    BY <1>2, <1>3, <1>6 DEF OnceInv
  <2>2. StillNamed'
    BY <1>1, <1>2, <2>1 DEF StillNamed
  <2>3. ToldOnce'
    BY <1>1, <2>1 DEF ToldOnce, Pending, Leaving
  <2>4. StaysWithPath'
    BY <1>1, <2>1 DEF StaysWithPath, Attached
  <2>. QED
    BY <2>2, <2>3, <2>4
<1>. QED
  BY <1>4, <1>5, <1>6 DEF OnceInv

LEMMA AddWatchOnce ==
    ASSUME OnceInv, AddWatch
    PROVE  OnceInv'
<1>1. /\ tailer = "watch" /\ tailer' = "poll" /\ watched' = path
      /\ UNCHANGED <<path, created, unlinked, changes, events, batch, rotated, known, again>>
  BY DEF AddWatch, nameVars
<1>2. (Repeats' <=> Repeats) /\ \A g : WasChanged(g)' <=> WasChanged(g)
  BY <1>1, NoChange
<1>3. ~Repeats => ~Pending /\ path \notin known
  BY <1>1, Detached DEF Attached
<1>4. ReadsOnce' /\ IsKnown'
  BY <1>1, <1>2 DEF OnceInv, ReadsOnce, IsKnown, Attached
<1>5. ASSUME ~Repeats' PROVE StillNamed' /\ ToldOnce' /\ StaysWithPath'
  <2>1. StillNamed /\ ToldOnce /\ StaysWithPath /\ ~Pending /\ path \notin known
    BY <1>2, <1>3, <1>5 DEF OnceInv
  <2>2. StillNamed'
    BY <1>1, <1>2, <2>1 DEF StillNamed
  <2>3. ToldOnce'
    BY <1>1, <2>1 DEF ToldOnce, Pending, Leaving
  <2>4. StaysWithPath'
    BY <1>1, <2>1 DEF StaysWithPath
  <2>. QED
    BY <2>2, <2>3, <2>4
<1>. QED
  BY <1>4, <1>5 DEF OnceInv

LEMMA AddWatchFailsOnce ==
    ASSUME OnceInv, AddWatchFails
    PROVE  OnceInv'
<1>1. /\ tailer = "watch" /\ tailer' = "open"
      /\ UNCHANGED <<path, created, unlinked, changes, watched>>
      /\ UNCHANGED <<events, batch, rotated, known, again>>
  BY DEF AddWatchFails, nameVars, watchVars
<1>2. tailer \notin Attached /\ tailer' \notin Attached
  BY <1>1 DEF Attached
<1>3. ~Repeats => ToldOnce /\ ~Pending
  BY <1>2, Detached DEF OnceInv
<1>4. Leaving' => Leaving
  BY <1>1 DEF Leaving
<1>. QED
  BY <1>1, <1>2, <1>3, <1>4, MovesOnce DEF Pending, ToldOnce

LEMMA ReadEventsOnce ==
    ASSUME IInv, OnceInv, ReadEvents
    PROVE  OnceInv'
<1> DEFINE n == IF Len(events) < EventBuf THEN Len(events) ELSE EventBuf
<1>1. /\ tailer = "poll" /\ tailer' = "event"
      /\ batch' = SubSeq(events, 1, n) /\ events' = SubSeq(events, n + 1, Len(events))
      /\ ~rotated'
      /\ UNCHANGED <<path, created, unlinked, changes, watched, file, known, again>>
  BY DEF ReadEvents, nameVars
<1>2. events \in Seq(Event) /\ Len(events) \in Nat
  BY Unfold, LenProperties
<1>3. n \in 0..Len(events)
  BY <1>2, TailerAssumption
<1> HIDE DEF n
<1>4. /\ Tells(batch') \/ Tells(events') => Tells(events)
      /\ TellsOnce(events) => /\ TellsOnce(batch') /\ TellsOnce(events')
                              /\ Tells(batch') => ~Tells(events')
  BY <1>1, <1>2, <1>3, TellsSplit
<1>5. ~Leaving'
  BY <1>1 DEF Leaving
<1>6. tailer \in Attached /\ tailer' \in Attached
  BY <1>1 DEF Attached
<1>7. Pending' => Pending
  BY <1>4, <1>5 DEF Pending
<1>8. ~Repeats => TellsOnce(events)
  BY DEF OnceInv, ToldOnce
<1>. QED
  BY <1>1, <1>4, <1>5, <1>6, <1>7, <1>8, MovesOnce

LEMMA HandleEventOnce ==
    ASSUME IInv, OnceInv, HandleEvent
    PROVE  OnceInv'
<1>1. /\ tailer = "event" /\ batch # <<>> /\ batch' = Tail(batch)
      /\ tailer' \in {"read", "event"} /\ tailer' # "stopped" /\ tailer # "stopped"
      /\ UNCHANGED <<path, created, unlinked, changes, watched, file>>
      /\ UNCHANGED <<events, known, again>>
  BY DEF HandleEvent, fileVars, nameVars, watchVars
<1>2. Leaving' => Leaving \/ Head(batch).kind \in Rotates
  BY <1>1 DEF Leaving, HandleEvent
<1>3. batch \in Seq(Event)
  BY DEF IInv, TypeOK, TailerTypeOK
<1>4. /\ Tells(batch) <=> Head(batch).kind \in Rotates \/ Tells(batch')
      /\ TellsOnce(batch) => /\ TellsOnce(batch')
                             /\ Head(batch).kind \in Rotates => ~Tells(batch')
  BY <1>1, <1>3, TellsTail
<1>5. tailer \in Attached /\ tailer' \in Attached
  BY <1>1 DEF Attached
<1>6. Pending' => Pending
  BY <1>1, <1>2, <1>4 DEF Pending
<1>7. ASSUME ~Repeats
      PROVE  /\ TellsOnce(batch') /\ TellsOnce(events')
             /\ Tells(batch') => ~Tells(events')
             /\ Leaving' => ~Tells(batch') /\ ~Tells(events')
  <2>1. /\ TellsOnce(batch) /\ TellsOnce(events)
        /\ Tells(batch) => ~Tells(events)
        /\ Leaving => ~Tells(batch) /\ ~Tells(events)
    BY <1>7 DEF OnceInv, ToldOnce
  <2>. QED
    BY <1>1, <1>2, <1>4, <2>1
<1>. QED
  BY <1>1, <1>5, <1>6, <1>7, MovesOnce

\* drain() without a line, and the end of a batch that told of no rotation.
LEMMA DrainOnce ==
    ASSUME OnceInv, ReadChunk \/ EndOfFile \/ BufferRest \/ NotRotated
    PROVE  OnceInv'
<1>1. /\ tailer \in {"event", "read", "split"}
      /\ tailer' \in {"event", "read", "split", "poll"}
      /\ UNCHANGED <<path, created, unlinked, changes, watched, file>>
      /\ UNCHANGED <<events, batch, rotated, known, again>>
  BY DEF ReadChunk, EndOfFile, BufferRest, NotRotated, fileVars, nameVars, watchVars
<1>2. Leaving' => Leaving
  BY <1>1 DEF Leaving
<1>3. tailer \in Attached /\ tailer' \in Attached /\ tailer # "stopped" /\ tailer' # "stopped"
  BY <1>1 DEF Attached
<1>4. ~Repeats => ToldOnce
  BY DEF OnceInv
<1>5. Pending' => Pending
  BY <1>1, <1>2 DEF Pending
<1>. QED
  BY <1>1, <1>2, <1>3, <1>4, <1>5, MovesOnce DEF ToldOnce

LEMMA DeliverLineOnce ==
    ASSUME IInv, OnceInv, DeliverLine
    PROVE  OnceInv'
<1>1. /\ tailer = "split" /\ tailer' \in {"read", "split"}
      /\ known' = known \cup {file}
      /\ UNCHANGED <<path, created, unlinked, changes, watched, file>>
      /\ UNCHANGED <<events, batch, rotated, again>>
  BY DEF DeliverLine, fileVars, nameVars, watchVars
<1>2. (Repeats' <=> Repeats) /\ \A g : WasChanged(g)' <=> WasChanged(g)
  BY <1>1, NoChange
<1>3. tailer \in Attached /\ tailer' \in Attached /\ tailer # "stopped"
  BY <1>1 DEF Attached
<1>4. file \in 1..created
  <2>1. file # None /\ file \in 0..created /\ created \in 0..MaxFiles /\ MaxFiles \in Nat
    BY <1>3, Unfold DEF IInv, InOrder, Holding
  <2>. QED
    BY <2>1 DEF None
<1>5. ReadsOnce' /\ IsKnown'
  BY <1>1, <1>2, <1>3, <1>4 DEF OnceInv, ReadsOnce, IsKnown
<1>6. ASSUME ~Repeats' PROVE StillNamed' /\ ToldOnce' /\ StaysWithPath'
  <2>1. StillNamed /\ ToldOnce /\ StaysWithPath
    BY <1>2, <1>6 DEF OnceInv
  <2>2. StillNamed'
    BY <1>1, <1>2, <2>1 DEF StillNamed
  <2>3. Leaving' <=> Leaving
    BY <1>1 DEF Leaving
  <2>4. ToldOnce'
    BY <1>1, <1>2, <1>3, <2>1, <2>3 DEF ToldOnce
  <2>5. StaysWithPath'
    BY <1>1, <1>3, <2>1 DEF StaysWithPath
  <2>. QED
    BY <2>2, <2>4, <2>5
<1>. QED
  BY <1>5, <1>6 DEF OnceInv

\* A tailer that leaves a file leaves none that is behind the path unchanged.
LEMMA RotateOnce ==
    ASSUME IInv, OnceInv, Rotate
    PROVE  OnceInv'
<1>1. /\ tailer = "event" /\ tailer' = "open" /\ rotated /\ watched' = None
      /\ \/ events' = events
         \/ events' = Append(events, [wd |-> wd, kind |-> "ignored"])
      /\ UNCHANGED <<path, created, unlinked, changes>>
      /\ UNCHANGED <<batch, rotated, known, again>>
  BY DEF Rotate, nameVars
<1>2. (Repeats' <=> Repeats) /\ \A g : WasChanged(g)' <=> WasChanged(g)
  BY <1>1, NoChange
<1>3. ReadsOnce' /\ IsKnown'
  BY <1>1, <1>2 DEF OnceInv, ReadsOnce, IsKnown
<1>4. ASSUME ~Repeats' PROVE StillNamed' /\ ToldOnce' /\ StaysWithPath'
  <2>1. StillNamed /\ ToldOnce /\ StaysWithPath /\ IsKnown
    BY <1>2, <1>4 DEF OnceInv
  <2>2. StillNamed'
    BY <1>1, <1>2, <2>1 DEF StillNamed
  <2>3. Leaving
    BY <1>1 DEF Leaving
  <2>4. ~Tells(batch) /\ ~Tells(events) /\ (watched = None \/ WasChanged(watched))
    BY <2>1, <2>3 DEF ToldOnce
  <2>5. ~Tells(events') /\ TellsOnce(events')
    <3>1. TellsOnce(events)
      BY <2>1 DEF ToldOnce
    <3> DEFINE g == [wd |-> wd, kind |-> "ignored"]
    <3>2. events \in Seq(Event) /\ g \in Event /\ g.kind \notin Rotates
      BY Unfold DEF Event, Kinds, Rotates
    <3>3. events' = events \/ events' = Append(events, g)
      BY <1>1
    <3> HIDE DEF g
    <3>4. /\ Tells(Append(events, g)) <=> Tells(events)
          /\ TellsOnce(events) /\ (Tells(events) => g.kind \notin Rotates)
                => TellsOnce(Append(events, g))
      BY <3>2, TellsAppend
    <3>5. CASE events' = events
      BY <2>4, <3>1, <3>5
    <3>6. CASE events' = Append(events, g)
      BY <2>4, <3>1, <3>2, <3>4, <3>6
    <3>. QED
      BY <3>3, <3>5, <3>6
  <2>6. path \notin known
    <3> SUFFICES ASSUME path \in known PROVE FALSE
      OBVIOUS
    <3>1. path \in 1..created /\ watched = path
      BY <1>1, <2>1 DEF IsKnown, StaysWithPath
    <3>2. watched # None
      BY <3>1 DEF None
    <3>. QED
      BY <2>1, <2>4, <3>1, <3>2 DEF StillNamed
  <2>7. ToldOnce'
    <3>1. ~Leaving'
      BY <1>1 DEF Leaving
    <3>2. TellsOnce(batch')
      BY <1>1, <2>1 DEF ToldOnce
    <3>. QED
      BY <1>1, <2>4, <2>5, <3>1, <3>2 DEF ToldOnce
  <2>8. StaysWithPath'
    BY <1>1, <2>6 DEF StaysWithPath, Attached
  <2>. QED
    BY <2>2, <2>7, <2>8
<1>. QED
  BY <1>3, <1>4 DEF OnceInv

LEMMA StopTailerOnce ==
    ASSUME IInv, OnceInv, StopTailer
    PROVE  OnceInv'
<1>1. /\ tailer \in {"open", "poll"} /\ tailer' = "stopped" /\ watched' = None /\ events' = <<>>
      /\ UNCHANGED <<path, created, unlinked, changes, batch, known, again>>
  BY DEF StopTailer, nameVars
<1>2. (Repeats' <=> Repeats) /\ \A g : WasChanged(g)' <=> WasChanged(g)
  BY <1>1, NoChange
<1>3. ReadsOnce' /\ IsKnown'
  BY <1>1, <1>2 DEF OnceInv, ReadsOnce, IsKnown
<1>4. batch' = <<>>
  BY <1>1 DEF IInv, IsInformed
<1>5. ~Leaving'
  BY <1>1 DEF Leaving
<1>6. ToldOnce'
  BY <1>1, <1>4, <1>5, NothingTold DEF ToldOnce
<1>7. StaysWithPath'
  BY <1>1 DEF StaysWithPath, Attached
<1>8. ~Repeats => StillNamed'
  BY <1>1, <1>2 DEF OnceInv, StillNamed
<1>. QED
  BY <1>2, <1>3, <1>6, <1>7, <1>8 DEF OnceInv

LEMMA AdapterOnce ==
    ASSUME IInv, OnceInv, AdapterStep \/ StopAdapter, UNCHANGED tailerVars
    PROVE  OnceInv'
<1>1. tailer = "off"
  BY DEF IInv, InOrder, AdapterStep, OpenEve, GetLine, GetTornLine, ClearEnd, StopAdapter
<1>2. /\ UNCHANGED <<path, created, unlinked, changes, watched>>
      /\ UNCHANGED <<tailer, events, batch, rotated, known, again>>
  BY DEF AdapterStep, OpenEve, GetLine, GetTornLine, ClearEnd, StopAdapter, fileVars, nameVars,
         watchVars, tailerVars
<1>3. tailer \notin Attached
  BY <1>1 DEF Attached
<1>4. Leaving' <=> Leaving
  BY <1>2 DEF Leaving
<1>5. ~Repeats => ToldOnce
  BY DEF OnceInv
<1>6. Pending' => Pending
  BY <1>2, <1>4 DEF Pending
<1>. QED
  BY <1>2, <1>3, <1>4, <1>5, <1>6, MovesOnce DEF ToldOnce

LEMMA InitOnce == Init => OnceInv
<1> SUFFICES ASSUME Init PROVE OnceInv
  OBVIOUS
<1>1. /\ path \in {None, 1} /\ created = path /\ unlinked = {} /\ changes = <<>>
      /\ watched = None /\ events = <<>>
  BY DEF Init, FileInit
<1>2. /\ batch = <<>> /\ rotated = FALSE /\ known = {} /\ again = FALSE
      /\ tailer \notin Attached
  BY DEF Init, TailerInit, Attached
<1>3. \A f : ~WasChanged(f)
  BY <1>1, EmptySeq DEF WasChanged
<1>4. ReadsOnce /\ IsKnown
  BY <1>1, <1>2, <1>3 DEF ReadsOnce, IsKnown
<1>5. StillNamed
  BY <1>1, <1>3 DEF StillNamed, None
<1>6. ToldOnce
  BY <1>1, <1>2, NothingTold DEF ToldOnce, Leaving
<1>7. StaysWithPath
  BY <1>1, <1>2 DEF StaysWithPath
<1>. QED
  BY <1>4, <1>5, <1>6, <1>7 DEF OnceInv

LEMMA NextOnce == IInv /\ OnceInv /\ [Next]_vars => OnceInv'
<1> SUFFICES ASSUME IInv, OnceInv, [Next]_vars PROVE OnceInv'
  OBVIOUS
<1>1. CASE FileNext /\ UNCHANGED <<tailerVars, adapterVars>>
  BY <1>1, WriteOnce, WriterOpensOnce, RenameOnce, UnlinkOnce DEF FileNext
<1>2. CASE (TailerStep \/ StopTailer) /\ UNCHANGED adapterVars
  BY <1>2, OpenOnce, AddWatchOnce, AddWatchFailsOnce, ReadEventsOnce, HandleEventOnce,
     DrainOnce, DeliverLineOnce, RotateOnce, StopTailerOnce DEF TailerStep
<1>3. CASE (AdapterStep \/ StopAdapter) /\ UNCHANGED tailerVars
  BY <1>3, AdapterOnce
<1>4. CASE UNCHANGED vars
  <2>1. /\ UNCHANGED <<path, created, unlinked, changes, watched, file>>
        /\ UNCHANGED <<tailer, events, batch, rotated, known, again>>
    BY <1>4 DEF vars, fileVars, nameVars, watchVars, tailerVars
  <2>2. Leaving' <=> Leaving
    BY <2>1 DEF Leaving
  <2>3. ~Repeats => ToldOnce
    BY DEF OnceInv
  <2>4. Pending' => Pending
    BY <2>1, <2>2 DEF Pending
  <2>. QED
    BY <2>1, <2>2, <2>3, <2>4, MovesOnce DEF ToldOnce
<1>. QED
  BY <1>1, <1>2, <1>3, <1>4 DEF Next

-----------------------------------------------------------------------------
(* What is appended is asked for. *)

LEMMA NobodyAsks == ~Asks(<<>>)
<1>1. Len(<<>>) = 0
  BY EmptySeq
<1>. QED
  BY <1>1 DEF Asks

LEMMA AsksSplit ==
    ASSUME NEW s \in Seq(Event), NEW n \in 0..Len(s), Asks(s)
    PROVE  Asks(SubSeq(s, 1, n)) \/ Asks(SubSeq(s, n + 1, Len(s)))
<1> DEFINE a == SubSeq(s, 1, n)
           b == SubSeq(s, n + 1, Len(s))
<1>1. Len(s) \in Nat /\ n \in Nat /\ n <= Len(s)
  BY LenProperties
<1>2. Len(a) = n /\ \A i \in 1..n : a[i] = s[i]
  BY <1>1
<1>3. Len(b) = Len(s) - n /\ \A i \in 1..(Len(s) - n) : b[i] = s[n + i]
  BY <1>1
<1> HIDE DEF a, b
<1>4. PICK i \in 1..Len(s) : s[i].kind \in Drains
  BY DEF Asks
<1>5. CASE i <= n
  <2>1. i \in 1..n
    BY <1>1, <1>5
  <2>. QED
    BY <1>2, <1>4, <2>1 DEF Asks, a
<1>6. CASE ~(i <= n)
  <2>1. i - n \in 1..(Len(s) - n) /\ n + (i - n) = i
    BY <1>1, <1>6
  <2>2. b[i - n] = s[i]
    BY <1>3, <2>1
  <2>. QED
    BY <1>3, <1>4, <2>1, <2>2 DEF Asks, b
<1>. QED
  BY <1>5, <1>6

LEMMA AsksTail ==
    ASSUME NEW s \in Seq(Event), s # <<>>, Asks(s)
    PROVE  Head(s).kind \in Drains \/ Asks(Tail(s))
<1>1. /\ Len(s) \in Nat \ {0} /\ Head(s) = s[1]
      /\ Len(Tail(s)) = Len(s) - 1
      /\ \A i \in 1..(Len(s) - 1) : Tail(s)[i] = s[i + 1]
  BY HeadTailProperties, EmptySeq, LenProperties
<1>2. PICK i \in 1..Len(s) : s[i].kind \in Drains
  BY DEF Asks
<1>3. CASE i = 1
  BY <1>1, <1>2, <1>3
<1>4. CASE i # 1
  <2>1. i - 1 \in 1..(Len(s) - 1) /\ (i - 1) + 1 = i
    BY <1>1, <1>4
  <2>2. Tail(s)[i - 1] = s[i]
    BY <1>1, <2>1
  <2>. QED
    BY <1>1, <1>2, <2>1, <2>2 DEF Asks
<1>. QED
  BY <1>3, <1>4

LEMMA StillAsks ==
    ASSUME EventsGrow, Asks(events)
    PROVE  Asks(events')
BY DEF EventsGrow, Asks

\* A write to the watched file leaves an event waiting, its own or the last one.
LEMMA WriteAsks ==
    ASSUME FileTypeOK, NEW f, Notify(f, "modify"), watched = f
    PROVE  Asks(events')
<1> DEFINE e == [wd |-> wd, kind |-> "modify"]
<1>1. events \in Seq(Event) /\ e \in Event /\ e.kind \in Drains
  BY DEF FileTypeOK, Event, Kinds, Drains
<1>2. \/ events' = Append(events, e)
      \/ events' = events /\ events # <<>> /\ events[Len(events)] = e
  BY DEF Notify
<1> HIDE DEF e
<1>3. CASE events' = Append(events, e)
  <2>1. /\ Len(events') = Len(events) + 1 /\ Len(events) \in Nat
        /\ events'[Len(events) + 1] = e
    BY <1>1, <1>3, AppendProperties, LenProperties
  <2>. QED
    BY <1>1, <2>1 DEF Asks
<1>4. CASE events' = events /\ events # <<>> /\ events[Len(events)] = e
  <2>1. Len(events) \in 1..Len(events)
    BY <1>1, <1>4, EmptySeq, LenProperties
  <2>. QED
    BY <1>1, <1>4, <2>1 DEF Asks
<1>. QED
  BY <1>2, <1>3, <1>4

LEMMA LogAsked ==
    ASSUME IInv, IsAsked, FileNext, UNCHANGED tailerVars
    PROVE  IsAsked'
<1>1. /\ FileTypeOK /\ file' = file /\ offset' = offset /\ EventsGrow
      /\ UNCHANGED <<tailer, batch, quiet>>
  BY LogGrows DEF IInv, TypeOK, tailerVars
<1> SUFFICES ASSUME tailer \in Attached, watched' = file,
                    ~(tailer \in {"read", "split"}), ~Asks(batch), ~Asks(events')
             PROVE  offset = length'[file] \/ length'[file] <= quiet
  BY <1>1 DEF IsAsked
<1>2. file # None /\ file \in 0..created /\ file \in Files
  <2>1. file # None /\ file \in 0..created /\ created \in 0..MaxFiles /\ MaxFiles \in Nat
    BY Unfold DEF IInv, InOrder, Holding
  <2>. QED
    BY <2>1 DEF None, Files
<1>3. ~Asks(events)
  BY <1>1, StillAsks
<1>4. watched = file => offset = length[file] \/ length[file] <= quiet
  BY <1>3 DEF IsAsked
<1>5. ASSUME NEW n \in 1..3, Write(n)
      PROVE  offset = length'[file] \/ length'[file] <= quiet
  <2>1. watched = file
    BY <1>5 DEF Write
  <2>2. writer # file
    BY <1>1, <1>5, <2>1, WriteAsks DEF Write
  <2>3. length'[file] = length[file]
    <3>1. length \in [Files -> 0..MaxLength]
      BY <1>1 DEF FileTypeOK
    <3>. QED
      BY <1>2, <1>5, <2>2, <3>1 DEF Write
  <2>. QED
    BY <1>4, <2>1, <2>3
<1>6. CASE WriterOpens
  <2>1. length' = length /\ watched = file
    BY <1>2, <1>6 DEF WriterOpens, Vanish, watchVars
  <2>. QED
    BY <1>4, <2>1
<1>7. ASSUME NEW f \in Files, Rename(f)
      PROVE  offset = length'[file] \/ length'[file] <= quiet
  <2>1. length' = length /\ watched = file
    BY <1>7 DEF Rename
  <2>. QED
    BY <1>4, <2>1
<1>8. ASSUME NEW f \in Files, Unlink(f)
      PROVE  offset = length'[file] \/ length'[file] <= quiet
  <2>1. length' = length /\ watched = file
    BY <1>2, <1>8 DEF Unlink, Vanish, watchVars
  <2>. QED
    BY <1>4, <2>1
<1>. QED
  BY <1>5, <1>6, <1>7, <1>8 DEF FileNext

LEMMA ReadEventsAsked ==
    ASSUME IInv, IsAsked, ReadEvents
    PROVE  IsAsked'
<1> DEFINE n == IF Len(events) < EventBuf THEN Len(events) ELSE EventBuf
<1>1. /\ tailer = "poll"
      /\ batch' = SubSeq(events, 1, n) /\ events' = SubSeq(events, n + 1, Len(events))
      /\ UNCHANGED <<watched, file, length, offset, quiet>>
  BY DEF ReadEvents
<1>2. events \in Seq(Event) /\ Len(events) \in Nat
  BY Unfold, LenProperties
<1>3. n \in 0..Len(events)
  BY <1>2, TailerAssumption
<1> HIDE DEF n
<1>4. Asks(events) => Asks(batch') \/ Asks(events')
  BY <1>1, <1>2, <1>3, AsksSplit
<1>5. ~Asks(batch)
  BY <1>1, NobodyAsks DEF IInv, IsInformed
<1>. QED
  BY <1>1, <1>4, <1>5 DEF IsAsked, Attached

LEMMA HandleEventAsked ==
    ASSUME IInv, IsAsked, HandleEvent
    PROVE  IsAsked'
<1>1. /\ tailer = "event" /\ batch # <<>> /\ batch' = Tail(batch)
      /\ tailer' = IF Head(batch).kind \in Drains THEN "read" ELSE "event"
      /\ UNCHANGED <<watched, events, file, length, offset, quiet>>
  BY DEF HandleEvent, fileVars, watchVars
<1>2. batch \in Seq(Event)
  BY DEF IInv, TypeOK, TailerTypeOK
<1>3. Asks(batch) => tailer' = "read" \/ Asks(batch')
  BY <1>1, <1>2, AsksTail
<1>. QED
  BY <1>1, <1>3 DEF IsAsked, Attached

\* The steps that leave a tailer which follows no file, and those of drain().
LEMMA MovesAsked ==
    ASSUME IInv, IsAsked,
           \/ Open \/ AddWatch \/ AddWatchFails \/ Rotate \/ StopTailer
           \/ ReadChunk \/ DeliverLine \/ BufferRest \/ EndOfFile \/ NotRotated
    PROVE  IsAsked'
<1>1. CASE Open \/ AddWatchFails \/ Rotate \/ StopTailer
  <2>1. tailer' \in {"watch", "open", "stopped"}
    BY <1>1 DEF Open, AddWatchFails, Rotate, StopTailer
  <2>. QED
    BY <2>1 DEF IsAsked, Attached
<1>2. CASE AddWatch
  <2>1. quiet' = length'[file'] /\ length'[file'] \in Nat
    <3>1. quiet' = length[file] /\ length' = length /\ file' = file /\ tailer = "watch"
      BY <1>2 DEF AddWatch
    <3>2. file # None /\ file \in 0..created /\ created \in 0..MaxFiles /\ MaxFiles \in Nat
      BY <3>1, Unfold DEF IInv, InOrder, Holding
    <3>3. file \in Files
      BY <3>2 DEF None, Files
    <3>4. length \in [Files -> 0..MaxLength] /\ MaxLength \in Nat
      BY FileAssumption DEF IInv, TypeOK, FileTypeOK
    <3>. QED
      BY <3>1, <3>3, <3>4
  <2>. QED
    BY <2>1 DEF IsAsked
<1>3. CASE ReadChunk \/ DeliverLine \/ BufferRest
  <2>1. tailer' \in {"read", "split"}
    BY <1>3 DEF ReadChunk, DeliverLine, BufferRest
  <2>. QED
    BY <2>1 DEF IsAsked
<1>4. CASE EndOfFile
  <2>1. offset' = length'[file']
    BY <1>4 DEF EndOfFile, fileVars
  <2>. QED
    BY <2>1 DEF IsAsked
<1>5. CASE NotRotated
  <2>1. /\ tailer = "event"
        /\ UNCHANGED <<watched, events, file, length, offset, quiet, batch>>
    BY <1>5 DEF NotRotated, fileVars, watchVars
  <2>. QED
    BY <2>1 DEF IsAsked, Attached
<1>. QED
  BY <1>1, <1>2, <1>3, <1>4, <1>5

LEMMA InitAsked == Init => IsAsked
BY DEF Init, TailerInit, IsAsked, Attached

LEMMA NextAsked == IInv /\ IsAsked /\ [Next]_vars => IsAsked'
<1> SUFFICES ASSUME IInv, IsAsked, [Next]_vars PROVE IsAsked'
  OBVIOUS
<1>1. CASE FileNext /\ UNCHANGED <<tailerVars, adapterVars>>
  BY <1>1, LogAsked
<1>2. CASE (TailerStep \/ StopTailer) /\ UNCHANGED adapterVars
  BY <1>2, ReadEventsAsked, HandleEventAsked, MovesAsked DEF TailerStep
<1>3. CASE (AdapterStep \/ StopAdapter) /\ UNCHANGED tailerVars
  <2>1. tailer = "off"
    BY <1>3 DEF IInv, InOrder, AdapterStep, OpenEve, GetLine, GetTornLine, ClearEnd, StopAdapter
  <2>2. tailer' = tailer
    BY <1>3 DEF tailerVars
  <2>. QED
    BY <2>1, <2>2 DEF IsAsked, Attached
<1>4. CASE UNCHANGED vars
  <2>1. UNCHANGED <<tailer, watched, events, file, length, offset, quiet, batch>>
    BY <1>4 DEF vars, fileVars, watchVars, tailerVars
  <2>. QED
    BY <2>1 DEF IsAsked
<1>. QED
  BY <1>1, <1>2, <1>3, <1>4 DEF Next

-----------------------------------------------------------------------------
(* The theorems. *)

\* The strengthening below holds in every state the feed reaches.
THEOREM FeedInvariant == Spec => []IInv
<1> HIDE DEF Next, IInv
<1>. QED
  BY InitInvariant, NextInvariant, PTL DEF Spec

\* Every variable of the log, the tailer and the adapter keeps its type.
THEOREM FeedTypes == Spec => []TypeOK
<1>1. IInv => TypeOK
  BY DEF IInv
<1> HIDE DEF IInv, TypeOK
<1>. QED
  BY <1>1, FeedInvariant, PTL

\* drain() hands out whole lines, in order and none left out, however the writes
\* and the read buffer of any size cut them.
THEOREM DeliveredLinesAreWhole == Spec => []LinesAreWhole
<1>1. IInv => LinesAreWhole
  BY DEF IInv
<1> HIDE DEF IInv, LinesAreWhole
<1>. QED
  BY <1>1, FeedInvariant, PTL

\* A tailer that waits, with nothing queued, watches the file behind the path or
\* one that was removed and is still open.
THEOREM RotationsAreNoticed == Spec => []NoticesRotation
<1>1. IInv => NoticesRotation
  <2> SUFFICES ASSUME IInv, tailer = "poll", events = <<>>
               PROVE  \/ watched = path
                      \/ watched \in unlinked /\ (watched = file \/ watched = writer)
    BY DEF NoticesRotation
  <2>1. Len(batch) = 0 /\ Len(events) = 0
    <3>1. batch = <<>>
      BY DEF IInv, IsInformed
    <3>. QED
      BY <3>1
  <2>2. ~WillRotate
    BY <2>1 DEF WillRotate
  <2>. QED
    BY <2>2 DEF IInv, IsInformed, Attached
<1> HIDE DEF IInv, NoticesRotation
<1>. QED
  BY <1>1, FeedInvariant, PTL

\* Before it follows a rotation, the tailer has read all that the old file held
\* when the notice of the rotation was read.
THEOREM NothingIsLeftBehind == Spec => LeavesNothingBehind
<1>1. IInv /\ [Next]_vars => [tailer = "event" /\ tailer' = "open" => offset >= due]_vars
  <2> SUFFICES ASSUME IInv, Next, tailer = "event", tailer' = "open"
               PROVE  offset >= due
    OBVIOUS
  <2>1. rotated
    <3>1. CASE FileNext /\ UNCHANGED <<tailerVars, adapterVars>>
      BY <3>1 DEF tailerVars
    <3>2. CASE (TailerStep \/ StopTailer) /\ UNCHANGED adapterVars
      BY <3>2 DEF TailerStep, Open, AddWatch, AddWatchFails, ReadEvents, HandleEvent,
                  ReadChunk, EndOfFile, DeliverLine, BufferRest, NotRotated, Rotate, StopTailer
    <3>3. CASE (AdapterStep \/ StopAdapter) /\ UNCHANGED tailerVars
      BY <3>3 DEF tailerVars
    <3>. QED
      BY <3>1, <3>2, <3>3 DEF Next
  <2>. QED
    BY <2>1 DEF IInv, IsDrained
<1> HIDE DEF Next, IInv
<1>. QED
  BY <1>1, FeedInvariant, PTL DEF Spec, LeavesNothingBehind

\* The Suricata adapter converts every line it passes, once and in order, except
\* those whose halves the end of the file parted.
THEOREM OnlyTornLinesAreMissed == Spec => []MissedWereTorn
<1>1. IInv => MissedWereTorn
  BY DEF IInv
<1> HIDE DEF IInv, MissedWereTorn
<1>. QED
  BY <1>1, FeedInvariant, PTL

\* The tailer opens a file it delivered lines from once more only after some file
\* was renamed or removed twice: a rotation is told of once, and a file that is
\* behind the path unchanged is never left.
THEOREM LinesAreReadOnce == Spec => []ReadsOnce
<1>1. OnceInv => ReadsOnce
  BY DEF OnceInv
<1> HIDE DEF Next, IInv, OnceInv, ReadsOnce
<1>. QED
  BY <1>1, FeedInvariant, InitOnce, NextOnce, PTL DEF Spec
\* A tailer that waits, with no event queued, on the file it watches has read all
\* that was appended since the watch was added: poll() never sleeps on a write.
THEOREM NothingWaitsUnread == Spec => []NothingWaits
<1>1. IInv /\ IsAsked => NothingWaits
  <2> SUFFICES ASSUME IInv, IsAsked, tailer = "poll", events = <<>>, watched = file
               PROVE  offset = length[file] \/ length[file] <= quiet
    BY DEF NothingWaits
  <2>1. ~Asks(batch) /\ ~Asks(events)
    BY NobodyAsks DEF IInv, IsInformed
  <2>. QED
    BY <2>1 DEF IsAsked, Attached
<1> HIDE DEF Next, IInv, IsAsked, NothingWaits
<1>. QED
  BY <1>1, FeedInvariant, InitAsked, NextAsked, PTL DEF Spec
=============================================================================
