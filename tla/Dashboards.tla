----------------------------- MODULE Dashboards -----------------------------
(***************************************************************************)
(* The two readers of the coordinator's REST API: the fetch thread of the  *)
(* terminal dashboard (src/dashboard.cpp) and the polling hook of the web  *)
(* dashboard (dashboard/agent/src/hooks/useApi.ts).  They see alerts and   *)
(* threats; /nodes is fetched in the same way and left out.  Neither       *)
(* changes anything the other sees, so one of them is open.                *)
(*                                                                         *)
(* What the coordinator holds is a sliding window per list, see            *)
(* Coordinator.AlertsAreRecent, which a restart empties.  Its entries are  *)
(* numbered as they arrive, over all restarts.                             *)
(***************************************************************************)
EXTENDS Integers, Sequences, SequencesExt

CONSTANTS Cap,           \* list -> size of the coordinator's cache, 100 and 50
          Rows,          \* list -> rows the terminal keeps, 20 and 10
          MaxEntries,    \* list -> bound on its entries
          MaxRestarts,   \* bound on the coordinator's restarts
          MaxFailures,   \* bound on the requests that are not answered
          Polls          \* the hook's polls that may be under way at a time

Lists == {"alerts", "threats"}

ASSUME DashboardAssumption ==
    /\ Cap \in [Lists -> Nat \ {0}] /\ Rows \in [Lists -> Nat]
    /\ MaxEntries \in [Lists -> Nat] /\ MaxRestarts \in Nat /\ MaxFailures \in Nat

VARIABLES cache,      \* recent_alerts_, recent_threats_
          arrived,    \* entries of each list so far
          life,       \* restarts of the coordinator so far
          failures,   \* requests not answered so far
          viewer,     \* the one that is open
          turn,       \* the terminal's next request, by its place in Requests
          answers,    \* what it got this round: request -> at most one answer
          total,      \* total_alerts, total_threats
          shown,      \* state.alerts, state.threats
          whole,      \* history: its last refresh had every answer from one life
          poll,       \* the hook's polls: no answer yet, or one under way
          data        \* the hook's data for /alerts; empty is null

serverVars   == <<cache, arrived, life>>
terminalVars == <<turn, answers, total, shown, whole>>
hookVars     == <<poll, data>>
vars == <<serverVars, failures, viewer, terminalVars, hookVars>>

Idle  == [is |-> "idle"]
Asked == [is |-> "asked"]
Answered(entries) == [is |-> "answered", entries |-> entries]

TypeOK ==
    /\ cache \in [Lists -> Seq(Nat)] /\ arrived \in [Lists -> Nat]
    /\ life \in 0..MaxRestarts /\ failures \in 0..MaxFailures
    /\ viewer \in {"terminal", "web"}
    /\ turn \in 1..4 /\ whole \in BOOLEAN
    /\ total \in [Lists -> Nat] /\ shown \in [Lists -> Seq(Nat)]
    /\ \A l \in Lists : /\ Len(cache[l]) <= Cap[l] /\ arrived[l] <= MaxEntries[l]
                        /\ total[l] <= Cap[l] /\ Len(shown[l]) <= Rows[l]
    /\ poll \in [Polls -> {Idle, Asked} \cup [is : {"answered"}, entries : Seq(Nat)]]
    /\ \A p \in Polls : poll[p].is = "answered" => Len(poll[p].entries) <= Cap["alerts"]
    /\ data \in Seq(Nat) /\ Len(data) <= Cap["alerts"]
-----------------------------------------------------------------------------
(* The coordinator.                                                        *)

\* save_alert() or save_threat().
Arrives(l) ==
    /\ arrived[l] < MaxEntries[l]
    /\ arrived' = [arrived EXCEPT ![l] = @ + 1]
    /\ cache' = [cache EXCEPT ![l] = IF Len(@) < Cap[l] THEN Append(@, arrived'[l])
                                     ELSE Append(Tail(@), arrived'[l])]
    /\ UNCHANGED <<life, failures, viewer, terminalVars, hookVars>>

Restart ==
    /\ life < MaxRestarts /\ life' = life + 1
    /\ cache' = [l \in Lists |-> <<>>]
    /\ UNCHANGED <<arrived, failures, viewer, terminalVars, hookVars>>

\* The handlers of GET /stats, /alerts and /threats.
Answer(request) == IF request = "stats" THEN [l \in Lists |-> Len(cache[l])]
                   ELSE cache[request]

Fails == failures < MaxFailures /\ failures' = failures + 1
-----------------------------------------------------------------------------
(* The terminal: fetch_data().                                             *)

\* A bug: the totals are asked for last.
RequestsTotalsLast == <<"alerts", "threats", "stats">>

Requests == <<"stats", "alerts", "threats">>

\* One http_get(); a request that fails or is cut short leaves no answer.
Fetch ==
    /\ viewer = "terminal" /\ turn \in DOMAIN Requests
    /\ turn' = turn + 1
    /\ \/ /\ answers' = [answers EXCEPT ![Requests[turn]] =
                                    {[life |-> life, value |-> Answer(Requests[turn])]}]
          /\ UNCHANGED failures
       \/ Fails /\ UNCHANGED answers
    /\ UNCHANGED <<serverVars, viewer, total, shown, whole, hookVars>>

\* std::reverse, then resize.
NewestFirst(entries, n) ==
    SubSeq(Reverse(entries), 1, IF Len(entries) > n THEN n ELSE Len(entries))

\* Under the lock: what was answered replaces what was shown.
Refresh ==
    /\ turn = Len(Requests) + 1 /\ turn' = 1
    /\ total' = IF answers["stats"] = {} THEN total
                ELSE (CHOOSE a \in answers["stats"] : TRUE).value
    /\ shown' = [l \in Lists |-> IF answers[l] = {} THEN shown[l]
                    ELSE NewestFirst((CHOOSE a \in answers[l] : TRUE).value, Rows[l])]
    /\ answers' = [r \in DOMAIN answers |-> {}]
    /\ whole' = \E n \in 0..MaxRestarts : \A r \in DOMAIN answers :
                    \E a \in answers[r] : a.life = n
    /\ UNCHANGED <<serverVars, failures, viewer, hookVars>>
-----------------------------------------------------------------------------
(* The web dashboard: useApi('/api/alerts').  setInterval starts a poll     *)
(* whether or not the ones before have been answered.                      *)

Poll(p) ==
    /\ viewer = "web" /\ poll[p] = Idle
    /\ poll' = [poll EXCEPT ![p] = Asked]
    /\ UNCHANGED <<serverVars, failures, viewer, terminalVars, data>>

\* The coordinator answers; the answer may be overtaken by later ones.
PollAnswered(p) ==
    /\ poll[p] = Asked
    /\ poll' = [poll EXCEPT ![p] = Answered(cache["alerts"])]
    /\ UNCHANGED <<serverVars, failures, viewer, terminalVars, data>>

\* A bug: an answer as long as what is shown is taken for no change.
PollArrivesIfLonger(p) ==
    /\ poll[p].is = "answered"
    /\ data' = IF Len(poll[p].entries) = Len(data) THEN data ELSE poll[p].entries
    /\ poll' = [poll EXCEPT ![p] = Idle]
    /\ UNCHANGED <<serverVars, failures, viewer, terminalVars>>

\* setData, but never to an empty list.
PollArrives(p) ==
    /\ poll[p].is = "answered"
    /\ data' = IF poll[p].entries = <<>> THEN data ELSE poll[p].entries
    /\ poll' = [poll EXCEPT ![p] = Idle]
    /\ UNCHANGED <<serverVars, failures, viewer, terminalVars>>

\* setError; the data stay.
PollFails(p) ==
    /\ poll[p] # Idle /\ Fails
    /\ poll' = [poll EXCEPT ![p] = Idle]
    /\ UNCHANGED <<serverVars, viewer, terminalVars, data>>
-----------------------------------------------------------------------------
Init == /\ cache = [l \in Lists |-> <<>>] /\ arrived = [l \in Lists |-> 0]
        /\ life = 0 /\ failures = 0 /\ viewer \in {"terminal", "web"}
        /\ turn = 1 /\ answers = [r \in Lists \cup {"stats"} |-> {}]
        /\ total = [l \in Lists |-> 0] /\ shown = [l \in Lists |-> <<>>]
        /\ whole = FALSE
        /\ poll = [p \in Polls |-> Idle] /\ data = <<>>

Next == \/ \E l \in Lists : Arrives(l)
        \/ Restart \/ Fetch \/ Refresh
        \/ \E p \in Polls : Poll(p) \/ PollAnswered(p) \/ PollArrives(p) \/ PollFails(p)

\* The fetch thread goes round, the timer fires, and what was asked is answered.
Fairness == /\ WF_vars(Fetch \/ Refresh)
            /\ \A p \in Polls : WF_vars(Poll(p) \/ PollAnswered(p) \/ PollArrives(p))

Spec == Init /\ [][Next]_vars /\ Fairness
-----------------------------------------------------------------------------
\* What one refresh shows fits together when every answer came from one life of
\* the coordinator: the totals, asked for first, never count an alert or a threat
\* that the rows do not show, unless there are more than the screen keeps.
RefreshFitsTogether ==
    whole => \A l \in Lists : Len(shown[l]) = Rows[l] \/ total[l] <= Len(shown[l])
-----------------------------------------------------------------------------
(* What makes RefreshFitsTogether inductive: what the round under way has   *)
(* got so far.                                                             *)

AnswersTypeOK ==
    /\ DOMAIN answers = Lists \cup {"stats"}
    /\ answers["stats"] \subseteq [life : 0..MaxRestarts, value : [Lists -> Nat]]
    /\ \A l \in Lists : answers[l] \subseteq [life : 0..MaxRestarts, value : Seq(Nat)]

\* At most one answer to a request, none to one still to come, and none from a life
\* the coordinator has yet to begin; none is longer than the coordinator's cache.
AnswersInOrder ==
    /\ \A r \in Lists \cup {"stats"} : \A a, b \in answers[r] : a = b /\ a.life <= life
    /\ \A i \in turn..Len(Requests) : answers[Requests[i]] = {}
    /\ \A l \in Lists : /\ \A a \in answers["stats"] : a.value[l] <= Cap[l]
                        /\ \A b \in answers[l] : Len(b.value) <= Cap[l]

\* The totals count nothing that a list of the same life lacks: neither one already
\* answered nor, a list not growing shorter within a life, one that will be.
TotalsFit ==
    \A l \in Lists : \A a \in answers["stats"] :
        /\ a.life = life => a.value[l] <= Len(cache[l])
        /\ \A b \in answers[l] : a.life = b.life => a.value[l] <= Len(b.value)

IInv == TypeOK /\ AnswersTypeOK /\ AnswersInOrder /\ TotalsFit /\ RefreshFitsTogether
-----------------------------------------------------------------------------
\* When nothing arrives any more, both views come to show what the coordinator
\* holds, however polls overtook each other meanwhile: the terminal newest first, the
\* web in the order of the answer.  The web keeps the last list it had while the
\* coordinator's is empty.
ViewsCatchUp ==
    <>[](/\ viewer = "terminal" =>
               \A l \in Lists : \A i \in 1..Rows[l] :
                   /\ total[l] = Len(cache[l])
                   /\ i \in DOMAIN shown[l] <=> i <= Len(cache[l])
                   /\ i <= Len(cache[l]) => shown[l][i] = cache[l][Len(cache[l]) + 1 - i]
         /\ viewer = "web" => cache["alerts"] = <<>> \/ data = cache["alerts"])
=============================================================================
