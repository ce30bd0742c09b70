------------------------------ MODULE LogParser ------------------------------
(***************************************************************************)
(* The time stamps dlads::LogParser (src/log_parser.cpp) gives to a line,  *)
(* by the form of the line.  A tick is a tick of the wall clock and years  *)
(* have YearLen of them.  The host's own clock, which its programs stamp   *)
(* their lines with, is Zone ahead of UTC, and in summer Saving more.      *)
(***************************************************************************)
EXTENDS Integers

CONSTANTS YearLen,   \* ticks in a year
          Day,       \* ticks in 24 hours
          Zone,      \* the zone's standard offset from UTC, negative in the west
          Saving,    \* what summer time adds to it
          Summer     \* the moments at which summer time is in force

ASSUME ParserAssumption ==
    /\ YearLen \in Nat \ {0} /\ Day \in Nat /\ Day < YearLen
    /\ Zone \in Int /\ Saving \in Nat /\ Saving <= Day
    /\ {Zone, Zone + Saving} \subseteq -Day..Day

\* parse() tries the three parsers in this order; the last finds no date in a line
\* of key=value pairs.
Forms == {"syslog", "nginx", "kv"}

\* gmtime: the year in UTC.
CurrentYear(now) == now \div YearLen

\* How far the host's clock is ahead of standard time, and what it shows: the year on
\* its calendar, and the part of it that a stamp without year says.
Ahead(t) == IF t \in Summer THEN Saving ELSE 0
LocalClock(t) == t + Zone + Ahead(t)
LocalYear(t) == LocalClock(t) \div YearLen
SinceNewYear(t) == LocalClock(t) % YearLen

\* make_timepoint(): mktime with tm_isdst = 0 reads the parts as local standard time,
\* in summer too.
MakeTimepoint(year, since) == year * YearLen + since - Zone

\* A bug: the rollover is forgotten.
SyslogStampNoRollover(written, now) == MakeTimepoint(CurrentYear(now), SinceNewYear(written))

\* parse_syslog_timestamp(): the current year, or the year before when that is
\* more than a day ahead.
SyslogStamp(written, now) ==
    LET thisYear == MakeTimepoint(CurrentYear(now), SinceNewYear(written))
        lastYear == MakeTimepoint(CurrentYear(now) - 1, SinceNewYear(written))
    IN  IF thisYear > now + Day THEN lastYear ELSE thisYear

\* parse_iso_timestamp(): the year is in the line.
IsoStamp(written) == MakeTimepoint(LocalYear(written), SinceNewYear(written))

\* The stamp of a line written at one moment and parsed at another.
Stamp(form, written, now) == CASE form = "syslog" -> SyslogStamp(written, now)
                               [] form = "nginx"  -> IsoStamp(written)
                               [] form = "kv"     -> now
=============================================================================
