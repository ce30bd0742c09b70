----------------------------- MODULE RuleEngine -----------------------------
(***************************************************************************)
(* The built-in detector of an agent: the callback of src/agent_main.cpp   *)
(* pushes an event into the ring and hands the snapshot to                 *)
(* dlads::RuleEngine (src/rule_engine.cpp), whose four rules and cooldowns *)
(* decide the alerts.  The callback runs under g_ids_swap_mtx, so it is    *)
(* one action; the ring is RingBuffer, the stamps are LogParser's.         *)
(*                                                                         *)
(* An event is what the rules tell apart: its log source, the class of its *)
(* text, the address, the port and the sudo user they parse out of it, and *)
(* the users its text mentions.  Its stamp is what the parser makes of the *)
(* time the log wrote; the cooldowns run on the wall clock `now'.  One     *)
(* tick is a second for both, and the window of every rule is in ticks.    *)
(***************************************************************************)
EXTENDS RingBuffer, LogParser, FiniteSets

CONSTANTS Ips, NoIp,        \* addresses; extract_src_ip found none
          Users, NoUser,    \* sudo users; parse_sudo_user found none
          Host,             \* source_host of this agent
          Shapes,           \* the events that may be logged, without stamps
          SshThreshold, ScanThreshold, MinServices,
          RuleWindow,       \* rule -> its window or history
          Cooldown,         \* rule -> its cooldown
          IndexSpan,        \* what build_index keeps, 24 hours
          Skews,            \* how far a line may be behind when it is read
          Boot,             \* when the agent starts
          MaxEvents, MaxTime   \* bounds on the events and on the clock

Rules == {"ssh", "scan", "priv", "multi"}

Texts == {"failedPassword", "authFailure", "sessionOpened", "reject", "dpt", "other"}

Shape == [form : Forms, text : Texts,
          source : {"sshd", "sshd-session", "su", "sudo", "kernel", "nginx"},
          ip : Ips \cup {NoIp}, port : Nat, user : Users \cup {NoUser},
          mentions : SUBSET Users]

ASSUME RuleEngineAssumption ==
    /\ Shapes \subseteq Shape
    /\ \A s \in Shapes : s.user # NoUser => s.user \in s.mentions
    /\ NoIp \notin Ips /\ NoUser \notin Users /\ Host \notin Ips
    /\ IndexSpan \in Nat
    /\ Skews \subseteq Nat /\ \A skew \in Skews : skew + Day < YearLen
    /\ SshThreshold \in Nat /\ ScanThreshold \in Nat /\ MinServices \in Nat
    /\ RuleWindow \in [Rules -> Nat] /\ Cooldown \in [Rules -> Nat]
    /\ MaxEvents \in Nat /\ MaxTime \in Nat /\ Boot \in 0..MaxTime

VARIABLES until,     \* cooldown_map_: rule and address -> end of the cooldown
          results,   \* what the last process() returned
          now,
          log,       \* history: every event of this agent
          lastAlert  \* history: when this engine last alerted on a key

vars == <<ringVars, until, results, now, log, lastAlert>>

Keys == Rules \X (Ips \cup {NoIp, Host})
Never == -1

\* What the ring may hold: every event this agent can log.
ASSUME ValuesAssumption ==
    /\ Values \subseteq [shape : Shapes, stamp : Int]
    /\ \A s \in Shapes : \A t \in Boot..MaxTime : \A skew \in Skews :
          [shape |-> s, stamp |-> Stamp(s.form, t - skew, t)] \in Values

TypeOK ==
    /\ RingTypeOK
    /\ until \in [Keys -> Nat] /\ lastAlert \in [Keys -> Nat \cup {Never}]
    /\ results \subseteq [rule : Rules, key : Keys]
    /\ now \in Boot..MaxTime
    /\ log \in Seq(Values) /\ Len(log) <= MaxEvents
-----------------------------------------------------------------------------
\* The events of a sequence that carry a property of theirs.
Places(events) == 1..Len(events)

SshFailure(s) == s.source \in {"sshd", "sshd-session"} /\ s.text = "failedPassword"
AuthFailure(s) == s.text \in {"failedPassword", "authFailure"}
PortHit(s) == s.source = "kernel" /\ s.text = "dpt" /\ s.port > 0
SudoSession(s) == s.source = "sudo" /\ s.text = "sessionOpened"

\* build_index(): the places of the snapshot young enough to be looked at.
Indexed(events, e) == {i \in Places(events) : events[i].stamp >= e.stamp - IndexSpan}

\* A bug: the rule's own window is forgotten.
InWindowAlways(rule, events, e) == Indexed(events, e)

\* Those also inside the rule's window before the event.
InWindow(rule, events, e) ==
    {i \in Indexed(events, e) : events[i].stamp >= e.stamp - RuleWindow[rule]}

SameIp(rule, events, e) == {i \in InWindow(rule, events, e) : events[i].shape.ip = e.shape.ip}

\* A bug: the count starts from the snapshot alone and must exceed the threshold.
SshFiresLate(e, events) ==
    /\ SshFailure(e.shape) /\ e.shape.ip # NoIp
    /\ Cardinality({i \in SameIp("ssh", events, e) : SshFailure(events[i].shape)})
            > SshThreshold

\* SshBruteForceRule: the event is counted once for itself and once more as the
\* newest of the snapshot.
SshFires(e, events) ==
    /\ SshFailure(e.shape) /\ e.shape.ip # NoIp
    /\ 1 + Cardinality({i \in SameIp("ssh", events, e) : SshFailure(events[i].shape)})
            >= SshThreshold

\* PortScanRule: distinct ports.
ScanFires(e, events) ==
    /\ e.shape.source = "kernel" /\ e.shape.text \in {"reject", "dpt"} /\ e.shape.ip # NoIp
    /\ LET hits == {i \in SameIp("scan", events, e) : PortHit(events[i].shape)}
           own  == IF PortHit(e.shape) THEN {e.shape.port} ELSE {}
       IN  Cardinality(own \cup {events[i].shape.port : i \in hits}) >= ScanThreshold

\* PrivEscRule: no earlier session whose text has the user's name in it.
PrivFires(e, events) ==
    /\ SudoSession(e.shape) /\ e.shape.user # NoUser
    /\ ~\E i \in InWindow("priv", events, e) :
          /\ events[i].stamp < e.stamp
          /\ SudoSession(events[i].shape)
          /\ e.shape.user \in events[i].shape.mentions

\* MultiServiceAuthRule: distinct services.
MultiFires(e, events) ==
    /\ AuthFailure(e.shape) /\ e.shape.ip # NoIp
    /\ LET failures == {i \in SameIp("multi", events, e) : AuthFailure(events[i].shape)}
       IN  Cardinality({e.shape.source} \cup {events[i].shape.source : i \in failures})
              >= MinServices

Fires(rule, e, events) == \/ rule = "ssh" /\ SshFires(e, events)
                          \/ rule = "scan" /\ ScanFires(e, events)
                          \/ rule = "priv" /\ PrivFires(e, events)
                          \/ rule = "multi" /\ MultiFires(e, events)

\* The dedup key: the alert's src_ip, which the sudo rule's alert does not have.
KeyOf(rule, e) == <<rule, IF rule = "priv" THEN Host ELSE e.shape.ip>>

\* A bug: the cooldown ends a second early.
InCooldownShort(key) == now + 1 < until[key]

InCooldown(key) == now < until[key]

\* process() on the snapshot taken after the push.
Process(e, events) ==
    LET firing == {rule \in Rules : /\ Fires(rule, e, events)
                                    /\ ~InCooldown(KeyOf(rule, e))}
        keys == {KeyOf(rule, e) : rule \in firing}
    IN  /\ results' = {[rule |-> rule, key |-> KeyOf(rule, e)] : rule \in firing}
        /\ until' = [k \in Keys |-> IF k \in keys THEN now + Cooldown[k[1]] ELSE until[k]]
        /\ lastAlert' = [k \in Keys |-> IF k \in keys THEN now ELSE lastAlert[k]]

\* The callback of the tailer, for a line that parses.
OnEvent(s) ==
    /\ Len(log) < MaxEvents
    /\ \E skew \in Skews :
          LET e == [shape |-> s, stamp |-> Stamp(s.form, now - skew, now)]
          IN  /\ Push(e)
              /\ \E events \in {Snapshot'} : Process(e, events)
              /\ log' = Append(log, e)
    /\ UNCHANGED now

\* A swap to Suricata and back makes a new RuleEngine; the ring stays.
SwapBack ==
    /\ until' = [k \in Keys |-> 0]
    /\ lastAlert' = [k \in Keys |-> Never]
    /\ results' = {}
    /\ UNCHANGED <<ringVars, now, log>>

Tick == now < MaxTime /\ now' = now + 1 /\ UNCHANGED <<ringVars, until, results, log, lastAlert>>

Init == /\ RingInit
        /\ log = <<>> /\ now = Boot /\ results = {}
        /\ until = [k \in Keys |-> 0]
        /\ lastAlert = [k \in Keys |-> Never]

Next == \/ \E s \in Shapes : OnEvent(s)
        \/ SwapBack \/ Tick

Spec == Init /\ [][Next]_vars
-----------------------------------------------------------------------------
(* What every step preserves. *)

\* The snapshot is the end of the log, as much of it as the ring holds.
RingHoldsLog ==
    /\ size = IF Len(log) < Cap THEN Len(log) ELSE Cap
    /\ \A i \in 1..size : Snapshot[i] = log[Len(log) - size + i]

\* A cooldown runs exactly as long after the last alert as its rule says.
CooldownsRun ==
    \A k \in Keys : IF lastAlert[k] = Never
                    THEN until[k] = 0
                    ELSE /\ lastAlert[k] <= now
                         /\ until[k] = lastAlert[k] + Cooldown[k[1]]

EngineInv == IInv /\ TypeOK /\ RingHoldsLog /\ CooldownsRun
-----------------------------------------------------------------------------
(* Evidence, counted over the history of the log and not over the ring.    *)

Newest == log[Len(log)]

\* The last events before the ring forgets, of the rule's window and address.
Evidence(rule) ==
    {i \in 1..Len(log) : /\ i > Len(log) - Cap
                         /\ log[i].stamp >= Newest.stamp - RuleWindow[rule]
                         /\ log[i].stamp >= Newest.stamp - IndexSpan
                         /\ log[i].shape.ip = Newest.shape.ip}

Failures == Cardinality({i \in Evidence("ssh") : SshFailure(log[i].shape)})
Ports == {log[i].shape.port : i \in {j \in Evidence("scan") : PortHit(log[j].shape)}}
Services == {log[i].shape.source : i \in {j \in Evidence("multi") : AuthFailure(log[j].shape)}}

\* No alert without its evidence in the log: at least that many failed logins,
\* distinct ports, services, and for sudo nobody's session that bears the name.
\* One failed login fewer than the threshold is enough, see SshFires.
AlertsAreJustified ==
    [][log' # log => \A r \in results' :
         \/ r.rule = "ssh"   /\ Failures' >= SshThreshold - 1
         \/ r.rule = "scan"  /\ Cardinality(Ports') >= ScanThreshold
         \/ r.rule = "multi" /\ Cardinality(Services') >= MinServices
         \/ /\ r.rule = "priv" /\ SudoSession(Newest'.shape)
            /\ \A i \in 1..Len(log) :
                 /\ i > Len(log) + 1 - Cap
                 /\ log[i].stamp < Newest'.stamp
                 /\ log[i].stamp >= Newest'.stamp - RuleWindow["priv"]
                 /\ log[i].stamp >= Newest'.stamp - IndexSpan
                 /\ SudoSession(log[i].shape)
                 => log[i].shape.user # Newest'.shape.user]_vars

\* No burst goes unalerted, nor a user's first sudo session: when the newest event
\* completes the evidence, its key was alerted on by this engine now or within the
\* cooldown before.  For sudo the key is the host, whoever the user was, and a
\* session that names the user is evidence against.
Alerted(rule) == LET key == KeyOf(rule, Newest)
                 IN  /\ lastAlert[key] # Never
                     /\ now = lastAlert[key] \/ now < lastAlert[key] + Cooldown[rule]

NamedBefore ==
    \E i \in 1..Len(log) :
        /\ i > Len(log) - Cap
        /\ log[i].stamp < Newest.stamp
        /\ log[i].stamp >= Newest.stamp - RuleWindow["priv"]
        /\ log[i].stamp >= Newest.stamp - IndexSpan
        /\ SudoSession(log[i].shape)
        /\ Newest.shape.user \in log[i].shape.mentions

BurstsAreAlerted ==
    [][log' # log =>
         /\ SshFailure(Newest'.shape) /\ Newest'.shape.ip # NoIp /\ Failures' >= SshThreshold
                => Alerted("ssh")'
         /\ PortHit(Newest'.shape) /\ Newest'.shape.ip # NoIp
                /\ Cardinality(Ports') >= ScanThreshold => Alerted("scan")'
         /\ AuthFailure(Newest'.shape) /\ Newest'.shape.ip # NoIp
                /\ Cardinality(Services') >= MinServices => Alerted("multi")'
         /\ SudoSession(Newest'.shape) /\ Newest'.shape.user # NoUser /\ ~NamedBefore'
                => Alerted("priv")']_vars

\* Two alerts of one engine on one key are a cooldown apart on the wall clock,
\* whatever the stamps of the log say.
CooldownsHold ==
    [][\A r \in results' : log' # log /\ lastAlert[r.key] # Never =>
          now >= lastAlert[r.key] + Cooldown[r.rule]]_vars

\* A stamp is wrong in two ways only, around New Year and over the changes of the
\* clock too.  A line of key=value pairs is stamped now; any other with the time it was
\* written, but one written in summer time comes out Saving too late, and a syslog line
\* of a year that has begun on the host's calendar and not in UTC a year early.
StampErrors ==
    [][log' # log => \E skew \in Skews :
         LET s == Newest'.shape
             written == now - skew
             shifted == written + Ahead(written)
         IN  \/ s.form = "kv" /\ Newest'.stamp = now
             \/ s.form # "kv" /\ Newest'.stamp = shifted
             \/ /\ s.form = "syslog" /\ LocalYear(written) > CurrentYear(now)
                /\ Newest'.stamp = shifted - YearLen]_vars
=============================================================================
