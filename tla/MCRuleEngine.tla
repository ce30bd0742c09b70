---------------------------- MODULE MCRuleEngine ----------------------------
(* One address fails at sshd and at a web server and hits two ports; alice *)
(* and root use sudo.  The ring holds three of four events.  The agent     *)
(* starts in the last second of summer time, three before a New Year that  *)
(* comes to the host one second before it comes to UTC.                    *)
EXTENDS RuleEngine

CONSTANTS ip1, alice, root

MCSkews == {0, 2}

Line(form, source, text, ip, port, user, mentions) ==
    [form |-> form, source |-> source, text |-> text, ip |-> ip, port |-> port,
     user |-> user, mentions |-> mentions]

MCShapes ==
    { Line("syslog", "sshd",   "failedPassword", ip1,  0,  NoUser, {}),
      Line("nginx",  "nginx",  "authFailure",    ip1,  0,  NoUser, {}),
      Line("syslog", "kernel", "dpt",            ip1,  22, NoUser, {}),
      Line("kv",     "kernel", "dpt",            ip1,  80, NoUser, {}),
      Line("syslog", "sudo",   "sessionOpened",  NoIp, 0,  alice,  {alice, root}),
      Line("syslog", "sudo",   "sessionOpened",  NoIp, 0,  root,   {root}) }

\* A line of summer time may be stamped after the moment it is read.  The second
\* between the two New Years is stamped a year early; without the rollover a line of
\* the old year, read in the new, would be a year late.
MCSummer == {Boot - 2, Boot - 1, Boot}
MCValues == [shape : MCShapes,
             stamp : (Boot - 2)..MaxTime \cup {Boot + 2 - YearLen, Boot + 1 + YearLen}]

MCWindow == [rule \in Rules |-> IF rule = "priv" THEN 2 ELSE 1]
MCCooldown == [rule \in Rules |-> IF rule = "multi" THEN 2 ELSE 1]
=============================================================================
