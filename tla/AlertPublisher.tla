--------------------------- MODULE AlertPublisher ---------------------------
(***************************************************************************)
(* dlads::AlertPublisher (src/alert_publisher.cpp): detector threads       *)
(* publish() into a bounded queue, a send thread empties it into a ZeroMQ  *)
(* PUB socket, and the owner thread starts and stops the whole.  Alert i   *)
(* is the one of the i-th call of publish().                               *)
(*                                                                         *)
(* `owner' is where the owner thread stands inside stop(), `sender' where  *)
(* the send thread stands inside send_loop(): about to test the condition  *)
(* (check), blocked in wait() (asleep), in zmq_send() with an alert in     *)
(* hand (sending), returned (exited), or not started (none).               *)
(***************************************************************************)
EXTENDS Integers, Sequences

CONSTANTS Capacity,     \* QUEUE_CAPACITY, 1024 in alert_publisher.hpp
          MaxPublish,   \* bound on the calls of publish()
          MaxStarts     \* bound on the calls of start() that start a thread

ASSUME PublisherAssumption ==
    Capacity \in Nat \ {0} /\ MaxPublish \in Nat /\ MaxStarts \in Nat

VARIABLES queue,       \* queue_
          running,     \* running_
          stopFlag,    \* stop_flag_
          sock,        \* zmq_sock_ is open
          sent,        \* sent_
          dropped,     \* dropped_
          sender, inHand, owner,
          published,   \* calls of publish() so far
          starts,      \* threads started so far
          sendLog,     \* history: the alerts handed to ZeroMQ, in order
          lost,        \* history: alerts that failed in zmq_send()
          exitMark     \* history: published when the last send thread exited

vars == <<queue, running, stopFlag, sock, sent, dropped, sender, inHand, owner,
          published, starts, sendLog, lost, exitMark>>

ownerVars  == <<running, stopFlag, sock, owner, starts>>
senderVars == <<sent, inHand, sendLog, lost, exitMark>>

Alerts == 1..MaxPublish

TypeOK ==
    /\ queue \in Seq(Alerts) /\ Len(queue) <= Capacity
    /\ running \in BOOLEAN /\ stopFlag \in BOOLEAN /\ sock \in BOOLEAN
    /\ sent \in Nat /\ dropped \in Nat /\ lost \in Nat /\ starts \in Nat
    /\ sender \in {"none", "check", "asleep", "sending", "exited"}
    /\ inHand \in Alerts \cup {0}
    /\ owner \in {"idle", "notify", "join"}
    /\ published \in 0..MaxPublish /\ exitMark \in 0..MaxPublish
    /\ sendLog \in Seq(Alerts)
-----------------------------------------------------------------------------
Woken(s) == IF s = "asleep" THEN "check" ELSE s

\* Bugs in publish(): no bound on the queue, a drop that is not counted.
PublishUnbounded ==
    /\ published < MaxPublish
    /\ published' = published + 1
    /\ queue' = Append(queue, published + 1)
    /\ sender' = Woken(sender)
    /\ UNCHANGED <<dropped, ownerVars, senderVars>>
PublishDropUncounted ==
    /\ published < MaxPublish
    /\ published' = published + 1
    /\ IF Len(queue) >= Capacity
       THEN UNCHANGED <<queue, sender>>
       ELSE queue' = Append(queue, published + 1) /\ sender' = Woken(sender)
    /\ UNCHANGED <<dropped, ownerVars, senderVars>>

\* A bug: the sleeping send thread is not notified.
PublishSilent ==
    /\ published < MaxPublish
    /\ published' = published + 1
    /\ IF Len(queue) >= Capacity
       THEN dropped' = dropped + 1 /\ UNCHANGED queue
       ELSE queue' = Append(queue, published + 1) /\ UNCHANGED dropped
    /\ UNCHANGED <<sender, ownerVars, senderVars>>

\* A detector thread publishes, under queue_mtx_.
Publish ==
    /\ published < MaxPublish
    /\ published' = published + 1
    /\ \/ /\ Len(queue) >= Capacity
          /\ dropped' = dropped + 1
          /\ UNCHANGED <<queue, sender>>
       \/ /\ Len(queue) < Capacity
          /\ queue' = Append(queue, published + 1)
          /\ sender' = Woken(sender)
          /\ UNCHANGED dropped
    /\ UNCHANGED <<ownerVars, senderVars>>
-----------------------------------------------------------------------------
\* The owner starts the publisher.  Without a context, a socket or an address
\* start() throws before it changes anything.
Starting ==
    /\ owner = "idle" /\ ~running
    /\ starts < MaxStarts
    /\ sock' = TRUE
    /\ stopFlag' = FALSE
    /\ running' = TRUE
    /\ UNCHANGED <<queue, dropped, owner, published, senderVars>>

Start == /\ Starting
         /\ starts' = starts + 1
         /\ sender' = "check"

\* std::thread throws: the publisher passes for running, and has no send thread.
StartThrows == Starting /\ UNCHANGED <<starts, sender>>

\* stop(): raise the flag under the mutex ...
StopFlag ==
    /\ owner = "idle" /\ running
    /\ stopFlag' = TRUE
    /\ owner' = "notify"
    /\ UNCHANGED <<queue, dropped, sender, running, sock, starts, published, senderVars>>

\* A bug: the flag is raised but the sleeping thread is not told.
StopNotifyMissing ==
    /\ owner = "notify"
    /\ owner' = "join"
    /\ UNCHANGED <<queue, dropped, sender, running, stopFlag, sock, starts, published, senderVars>>

\* ... wake the send thread ...
StopNotify ==
    /\ owner = "notify"
    /\ sender' = Woken(sender)
    /\ owner' = "join"
    /\ UNCHANGED <<queue, dropped, running, stopFlag, sock, starts, published, senderVars>>

\* A bug: the socket is closed without waiting for the send thread.
StopWithoutJoin ==
    /\ owner = "join"
    /\ sock' = FALSE
    /\ running' = FALSE
    /\ owner' = "idle"
    /\ UNCHANGED <<queue, dropped, sender, stopFlag, starts, published, senderVars>>

\* ... and wait for it, if there is one, to return before closing the socket.
StopJoin ==
    /\ owner = "join"
    /\ sender \in {"exited", "none"}
    /\ sender' = "none"
    /\ sock' = FALSE
    /\ running' = FALSE
    /\ owner' = "idle"
    /\ UNCHANGED <<queue, dropped, stopFlag, starts, published, senderVars>>
-----------------------------------------------------------------------------
\* A bug in the loop: an alert is copied from the queue, not moved.
TakeKeepsFront ==
    /\ sender = "check" /\ queue # <<>>
    /\ inHand' = Head(queue)
    /\ sender' = "sending"
    /\ UNCHANGED <<queue, dropped, ownerVars, published, sent, sendLog, lost, exitMark>>

\* The send thread, holding queue_mtx_, takes the front of the queue ...
Take ==
    /\ sender = "check" /\ queue # <<>>
    /\ inHand' = Head(queue)
    /\ queue' = Tail(queue)
    /\ sender' = "sending"
    /\ UNCHANGED <<dropped, ownerVars, published, sent, sendLog, lost, exitMark>>

\* ... or waits while there is nothing to do ...
Sleep ==
    /\ sender = "check" /\ queue = <<>> /\ ~stopFlag
    /\ sender' = "asleep"
    /\ UNCHANGED <<queue, dropped, ownerVars, published, senderVars>>

\* A bug in the loop: the flag is honoured before the queue is empty.
ExitAtOnce ==
    /\ sender = "check" /\ stopFlag
    /\ sender' = "exited"
    /\ exitMark' = published
    /\ UNCHANGED <<queue, dropped, ownerVars, published, sent, inHand, sendLog, lost>>

\* ... or returns, told to stop and with the queue empty.
Exit ==
    /\ sender = "check" /\ queue = <<>> /\ stopFlag
    /\ sender' = "exited"
    /\ exitMark' = published
    /\ UNCHANGED <<queue, dropped, ownerVars, published, sent, inHand, sendLog, lost>>

\* zmq_send() outside the mutex: a PUB socket does not block.
Send ==
    /\ sender = "sending"
    /\ sent' = sent + 1
    /\ sendLog' = Append(sendLog, inHand)
    /\ inHand' = 0
    /\ sender' = "check"
    /\ UNCHANGED <<queue, dropped, ownerVars, published, lost, exitMark>>

\* It fails: the thread returns, the alert is gone and counted nowhere.
SendFails ==
    /\ sender = "sending"
    /\ lost' = lost + 1
    /\ inHand' = 0
    /\ sender' = "exited"
    /\ exitMark' = published
    /\ UNCHANGED <<queue, dropped, ownerVars, published, sent, sendLog>>

Init ==
    /\ queue = <<>> /\ running = FALSE /\ stopFlag = FALSE /\ sock = FALSE
    /\ sent = 0 /\ dropped = 0 /\ sender = "none" /\ inHand = 0 /\ owner = "idle"
    /\ published = 0 /\ starts = 0 /\ sendLog = <<>> /\ lost = 0 /\ exitMark = 0

SendLoop == Take \/ Sleep \/ Exit \/ Send \/ SendFails

Next == Publish \/ Start \/ StartThrows \/ StopFlag \/ StopNotify \/ StopJoin \/ SendLoop

\* The operating system schedules the send thread and the owner inside stop();
\* nobody has to call publish(), start() or stop().
Fairness == WF_vars(SendLoop) /\ WF_vars(StopNotify) /\ WF_vars(StopJoin)

Spec == Init /\ [][Next]_vars /\ Fairness
-----------------------------------------------------------------------------
\* Every published alert is sent, counted as dropped, waiting, in hand, or was
\* in hand of a send that failed: between the threads nothing vanishes.
Conservation ==
    published = sent + dropped + Len(queue) + lost
                + (IF sender = "sending" THEN 1 ELSE 0)

\* The send thread never touches the socket outside its life: stop() closes it
\* only after the thread returned, and a restart does not race the old thread.
SocketOpenWhileSending == sender \in {"check", "asleep", "sending"} => sock /\ running

\* What the invariants above and below need of the alert in hand and of the
\* ids: nothing is queued or in hand that was not published, and a thread
\* that exited did so in the past.
IdsPublished ==
    /\ sender = "sending" => inHand \in Alerts
    /\ exitMark <= published

\* stop() drains: unless a send failed, whatever is still queued when no send
\* thread runs was published after the last one returned.  The test's count
\* sent + dropped = published rests on it.
StopDrains ==
    lost = 0 /\ starts > 0 /\ sender \in {"none", "exited"} =>
        \A i \in 1..Len(queue) : queue[i] > exitMark

IInv == /\ TypeOK /\ Conservation /\ SocketOpenWhileSending
        /\ IdsPublished /\ StopDrains

\* No wakeup is lost.  A send thread that sleeps has nothing to send, and one that is
\* to stop is still to be notified; stop() never waits for a thread that
\* sleeps.  StopReturns and AcceptedIsSent rest on it.
NoLostWakeup ==
    /\ sender = "asleep" => queue = <<>> /\ (stopFlag => owner = "notify")
    /\ owner = "join" => sender # "asleep"

\* What NoLostWakeup needs of the owner: who waits has raised the flag, and while a
\* thread is there the publisher runs.
OwnerInOrder ==
    /\ owner # "idle" => stopFlag /\ running
    /\ sender # "none" => running

\* The publisher is a lossy channel: in order, at most once, never waiting.
Channel == INSTANCE LossyChannel WITH
    offered <- published,
    pipe <- (IF sender = "sending" THEN <<inHand>> ELSE <<>>) \o queue,
    delivered <- sendLog

IsLossyChannel == Channel!Spec

\* stop() returns, whatever the send thread was doing when the flag was raised.
StopReturns == (owner # "idle") ~> (owner = "idle")

\* An accepted alert reaches the socket while the send thread lives.
AcceptedIsSent ==
    \A i \in Alerts :
        (sender \in {"check", "asleep", "sending"} /\ \E j \in 1..Len(queue) : queue[j] = i)
            ~> (lost > 0 \/ \E j \in 1..Len(sendLog) : sendLog[j] = i)
=============================================================================
