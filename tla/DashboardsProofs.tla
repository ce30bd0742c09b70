--------------------------- MODULE DashboardsProofs ---------------------------
(***************************************************************************)
(* What a refresh of the terminal shows fits together, for every size of   *)
(* the coordinator's caches and of the screen, and any number of entries,  *)
(* restarts and failures: an answer got later in a round is never behind   *)
(* one got earlier, as long as both are from the same life.                *)
(***************************************************************************)
EXTENDS Dashboards, SequenceTheorems, TLAPS

\* What the assumptions give about the constants.
LEMMA Sizes ==
    /\ "alerts" \in Lists /\ "threats" \in Lists /\ "stats" \notin Lists
    /\ MaxEntries \in [Lists -> Nat] /\ MaxRestarts \in Nat /\ MaxFailures \in Nat
    /\ \A l \in Lists : Cap[l] \in Nat /\ Cap[l] > 0 /\ Rows[l] \in Nat
BY DashboardAssumption DEF Lists

\* The rows a list becomes: all of it, or as many as the screen keeps.
LEMMA NewestFirstFacts ==
    ASSUME NEW s \in Seq(Nat), NEW n \in Nat
    PROVE  /\ NewestFirst(s, n) \in Seq(Nat)
           /\ Len(NewestFirst(s, n)) = IF Len(s) > n THEN n ELSE Len(s)
<1> DEFINE k == IF Len(s) > n THEN n ELSE Len(s)
<1>1. Len(s) \in Nat /\ \A i \in 1..Len(s) : s[i] \in Nat
  BY ElementOfSeq, LenProperties
<1>2. k \in Nat /\ k <= Len(s)
  BY <1>1
<1>3. \A i \in 1..k : Reverse(s)[i] \in Nat
  <2> SUFFICES ASSUME NEW i \in 1..k PROVE Reverse(s)[i] \in Nat
    OBVIOUS
  <2>1. i \in 1..Len(s) /\ (Len(s) - i) + 1 \in 1..Len(s)
    BY <1>1, <1>2
  <2>2. Reverse(s)[i] = s[(Len(s) - i) + 1]
    BY <2>1 DEF Reverse
  <2>. QED
    BY <1>1, <2>1, <2>2
<1>4. NewestFirst(s, n) = SubSeq(Reverse(s), 1, k)
  BY DEF NewestFirst
<1> HIDE DEF k
<1>5. /\ SubSeq(Reverse(s), 1, k) \in Seq(Nat)
      /\ Len(SubSeq(Reverse(s), 1, k)) = IF 1 <= k THEN k - 1 + 1 ELSE 0
  BY <1>2, <1>3, SubSeqProperties
<1>6. Len(SubSeq(Reverse(s), 1, k)) = k
  BY <1>2, <1>5
<1>. QED
  BY <1>4, <1>5, <1>6 DEF k

\* Which request the terminal makes at which turn.
LEMMA RequestsInTurn ==
    /\ Len(Requests) = 3 /\ DOMAIN Requests = 1..3
    /\ Requests[1] = "stats" /\ Requests[2] = "alerts" /\ Requests[3] = "threats"
    /\ \A i \in 1..3 : Requests[i] \in Lists \cup {"stats"}
    /\ \A i, j \in 1..3 : Requests[i] = Requests[j] => i = j
BY DEF Requests, Lists

LEMMA InitInvariant == Init => IInv
<1> SUFFICES ASSUME Init PROVE IInv
  OBVIOUS
<1>1. <<>> \in Seq(Nat) /\ Len(<<>>) = 0
  BY EmptySeq
<1>2. /\ cache = [l \in Lists |-> <<>>] /\ arrived = [l \in Lists |-> 0]
      /\ life = 0 /\ failures = 0 /\ viewer \in {"terminal", "web"}
      /\ turn = 1 /\ answers = [r \in Lists \cup {"stats"} |-> {}]
      /\ total = [l \in Lists |-> 0] /\ shown = [l \in Lists |-> <<>>]
      /\ whole = FALSE
      /\ poll = [p \in Polls |-> Idle] /\ data = <<>>
  BY DEF Init
<1>3. \A l \in Lists : /\ cache[l] = <<>> /\ arrived[l] = 0 /\ total[l] = 0
                       /\ shown[l] = <<>> /\ answers[l] = {}
  BY <1>2
<1>4. TypeOK
  <2>1. \A l \in Lists : /\ Len(cache[l]) <= Cap[l] /\ arrived[l] <= MaxEntries[l]
                         /\ total[l] <= Cap[l] /\ Len(shown[l]) <= Rows[l]
    BY <1>1, <1>3, Sizes
  <2>2. \A p \in Polls : poll[p].is # "answered"
    BY <1>2 DEF Idle
  <2>3. data \in Seq(Nat) /\ Len(data) <= Cap["alerts"]
    BY <1>1, <1>2, Sizes
  <2>4. poll \in [Polls -> {Idle, Asked} \cup [is : {"answered"}, entries : Seq(Nat)]]
    BY <1>2
  <2>5. /\ cache \in [Lists -> Seq(Nat)] /\ arrived \in [Lists -> Nat]
        /\ total \in [Lists -> Nat] /\ shown \in [Lists -> Seq(Nat)]
    BY <1>1, <1>2
  <2>6. /\ life \in 0..MaxRestarts /\ failures \in 0..MaxFailures
        /\ viewer \in {"terminal", "web"} /\ turn \in 1..4 /\ whole \in BOOLEAN
    <3>1. 0 \in 0..MaxRestarts /\ 0 \in 0..MaxFailures /\ 1 \in 1..4 /\ FALSE \in BOOLEAN
      BY Sizes
    <3>. QED
      BY <1>2, <3>1
  <2>. QED
    BY <2>1, <2>2, <2>3, <2>4, <2>5, <2>6 DEF TypeOK
<1>5. answers["stats"] = {}
  BY <1>2
<1>6. AnswersTypeOK /\ TotalsFit
  BY <1>2, <1>3, <1>5 DEF AnswersTypeOK, TotalsFit
<1>7. AnswersInOrder
  BY <1>2, <1>3, <1>5, RequestsInTurn DEF AnswersInOrder
<1>8. RefreshFitsTogether
  BY <1>2 DEF RefreshFitsTogether
<1>. QED
  BY <1>4, <1>6, <1>7, <1>8 DEF IInv

\* What a step of the coordinator leaves alone.
LEMMA ServerStep ==
    ASSUME IInv, UNCHANGED <<failures, viewer, terminalVars, hookVars>>,
           cache' \in [Lists -> Seq(Nat)], arrived' \in [Lists -> Nat], life' \in 0..MaxRestarts,
           \A l \in Lists : Len(cache'[l]) <= Cap[l] /\ arrived'[l] <= MaxEntries[l],
           life <= life',
           life' = life => \A l \in Lists : Len(cache[l]) <= Len(cache'[l])
    PROVE  IInv'
<1>1. TypeOK'
  BY DEF IInv, TypeOK, terminalVars, hookVars
<1>2. UNCHANGED <<turn, answers, total, shown, whole>>
  BY DEF terminalVars
<1>3. AnswersTypeOK' /\ RefreshFitsTogether'
  BY <1>2 DEF IInv, AnswersTypeOK, RefreshFitsTogether
<1>4. life \in Nat /\ life' \in Nat
  BY Sizes DEF IInv, TypeOK
<1>5. AnswersInOrder'
  <2>1. \A r \in Lists \cup {"stats"} : \A a \in answers[r] : a.life \in Nat /\ a.life <= life
    BY Sizes DEF IInv, AnswersTypeOK, AnswersInOrder
  <2>2. \A r \in Lists \cup {"stats"} : \A a \in answers[r] : a.life <= life'
    BY <1>4, <2>1
  <2>. QED
    BY <1>2, <2>2 DEF IInv, AnswersInOrder
<1>6. TotalsFit'
  <2> SUFFICES ASSUME NEW l \in Lists, NEW a \in answers["stats"]
               PROVE  /\ a.life = life' => a.value[l] <= Len(cache'[l])
                      /\ \A b \in answers[l] : a.life = b.life => a.value[l] <= Len(b.value)
    BY <1>2 DEF TotalsFit
  <2>1. \A b \in answers[l] : a.life = b.life => a.value[l] <= Len(b.value)
    BY DEF IInv, TotalsFit
  <2>2. ASSUME a.life = life' PROVE a.value[l] <= Len(cache'[l])
    <3>1. a.life \in Nat /\ a.life <= life /\ a.value[l] \in Nat
      BY Sizes DEF IInv, AnswersTypeOK, AnswersInOrder
    <3>2. life' = life
      BY <1>4, <2>2, <3>1
    <3>3. a.value[l] <= Len(cache[l]) /\ Len(cache[l]) <= Len(cache'[l])
      BY <2>2, <3>2 DEF IInv, TotalsFit
    <3>4. Len(cache[l]) \in Nat /\ Len(cache'[l]) \in Nat
      BY LenProperties DEF IInv, TypeOK
    <3>. QED
      BY <3>1, <3>3, <3>4
  <2>. QED
    BY <2>1, <2>2
<1>. QED
  BY <1>1, <1>3, <1>5, <1>6 DEF IInv

LEMMA ArrivesInvariant == ASSUME IInv, NEW l \in Lists, Arrives(l) PROVE IInv'
<1>1. /\ arrived' = [arrived EXCEPT ![l] = arrived[l] + 1]
      /\ arrived[l] < MaxEntries[l]
      /\ cache' = [cache EXCEPT ![l] = IF Len(cache[l]) < Cap[l]
                                       THEN Append(cache[l], arrived'[l])
                                       ELSE Append(Tail(cache[l]), arrived'[l])]
      /\ life' = life
      /\ UNCHANGED <<failures, viewer, terminalVars, hookVars>>
  BY DEF Arrives
<1>2. /\ cache \in [Lists -> Seq(Nat)] /\ arrived \in [Lists -> Nat]
      /\ \A k \in Lists : Len(cache[k]) <= Cap[k] /\ arrived[k] <= MaxEntries[k]
      /\ life \in 0..MaxRestarts
  BY DEF IInv, TypeOK
<1>3. /\ MaxEntries[l] \in Nat /\ Cap[l] \in Nat /\ Cap[l] > 0
      /\ \A k \in Lists : Len(cache[k]) \in Nat
  BY <1>2, Sizes, LenProperties
<1>4. /\ arrived'[l] = arrived[l] + 1 /\ \A k \in Lists \ {l} : arrived'[k] = arrived[k]
      /\ arrived' \in [Lists -> Nat] /\ arrived'[l] \in Nat
  BY <1>1, <1>2
<1>5. \A k \in Lists : arrived'[k] <= MaxEntries[k]
  BY <1>1, <1>2, <1>3, <1>4
<1>6. PICK t \in Seq(Nat) : /\ cache' = [cache EXCEPT ![l] = Append(t, arrived'[l])]
                            /\ Len(t) \in Nat /\ Len(t) + 1 <= Cap[l]
                            /\ Len(cache[l]) <= Len(t) + 1
  <2>1. CASE Len(cache[l]) < Cap[l]
    <3>1. /\ cache' = [cache EXCEPT ![l] = Append(cache[l], arrived'[l])]
          /\ cache[l] \in Seq(Nat)
      BY <1>1, <1>2, <2>1
    <3>2. /\ Len(cache[l]) \in Nat /\ Len(cache[l]) + 1 <= Cap[l]
          /\ Len(cache[l]) <= Len(cache[l]) + 1
      BY <1>3, <2>1
    <3>. QED
      BY <3>1, <3>2
  <2>2. CASE ~(Len(cache[l]) < Cap[l])
    <3>1. cache[l] # <<>>
      BY <1>3, <2>2, EmptySeq
    <3>2. Tail(cache[l]) \in Seq(Nat) /\ Len(Tail(cache[l])) = Len(cache[l]) - 1
      BY <1>2, <3>1, HeadTailProperties
    <3>3. cache' = [cache EXCEPT ![l] = Append(Tail(cache[l]), arrived'[l])]
      BY <1>1, <2>2
    <3>4. Len(cache[l]) = Cap[l]
      BY <1>2, <1>3, <2>2
    <3>5. /\ Len(Tail(cache[l])) \in Nat /\ Len(Tail(cache[l])) + 1 <= Cap[l]
          /\ Len(cache[l]) <= Len(Tail(cache[l])) + 1
      BY <1>3, <3>2, <3>4
    <3>. QED
      BY <3>2, <3>3, <3>5
  <2>. QED
    BY <2>1, <2>2
<1>7. /\ Append(t, arrived'[l]) \in Seq(Nat)
      /\ Len(Append(t, arrived'[l])) = Len(t) + 1
  BY <1>4, AppendProperties
<1>8. cache' \in [Lists -> Seq(Nat)]
  BY <1>2, <1>6, <1>7
<1>9. \A k \in Lists : /\ Len(cache[k]) <= Len(cache'[k])
                       /\ Len(cache'[k]) <= Cap[k]
  <2> SUFFICES ASSUME NEW k \in Lists
               PROVE  Len(cache[k]) <= Len(cache'[k]) /\ Len(cache'[k]) <= Cap[k]
    OBVIOUS
  <2>1. CASE k = l
    <3>1. cache'[l] = Append(t, arrived'[l])
      BY <1>2, <1>6
    <3>. QED
      BY <1>6, <1>7, <2>1, <3>1
  <2>2. CASE k # l
    <3>1. cache'[k] = cache[k]
      BY <1>2, <1>6, <2>2
    <3>. QED
      BY <1>2, <1>3, <3>1
  <2>. QED
    BY <2>1, <2>2
<1>10. life <= life'
  BY <1>1, <1>2, Sizes
<1>. QED
  BY <1>1, <1>2, <1>4, <1>5, <1>8, <1>9, <1>10, ServerStep

LEMMA RestartInvariant == ASSUME IInv, Restart PROVE IInv'
<1>1. /\ life < MaxRestarts /\ life' = life + 1 /\ arrived' = arrived
      /\ cache' = [l \in Lists |-> <<>>]
      /\ UNCHANGED <<failures, viewer, terminalVars, hookVars>>
  BY DEF Restart
<1>2. /\ life \in 0..MaxRestarts /\ arrived \in [Lists -> Nat]
      /\ \A l \in Lists : arrived[l] <= MaxEntries[l]
  BY DEF IInv, TypeOK
<1>3. life' \in 0..MaxRestarts /\ life <= life' /\ life' # life
  BY <1>1, <1>2, Sizes
<1>4. <<>> \in Seq(Nat) /\ Len(<<>>) = 0
  BY EmptySeq
<1>5. /\ cache' \in [Lists -> Seq(Nat)]
      /\ \A l \in Lists : Len(cache'[l]) <= Cap[l]
  BY <1>1, <1>4, Sizes
<1>. QED
  BY <1>1, <1>2, <1>3, <1>5, ServerStep

\* What a step of either dashboard leaves alone.
LEMMA AnswersKept ==
    ASSUME IInv, UNCHANGED <<serverVars, turn, answers>>
    PROVE  AnswersTypeOK' /\ AnswersInOrder' /\ TotalsFit'
<1>1. /\ UNCHANGED <<turn, answers, life>> /\ cache' = cache
  BY DEF serverVars
<1>2. AnswersTypeOK' /\ AnswersInOrder'
  BY <1>1 DEF IInv, AnswersTypeOK, AnswersInOrder
<1>3. TotalsFit'
  BY <1>1 DEF IInv, TotalsFit
<1>. QED
  BY <1>2, <1>3

LEMMA FailsBounded == ASSUME TypeOK, Fails PROVE failures' \in 0..MaxFailures
<1>1. failures \in 0..MaxFailures /\ failures < MaxFailures /\ failures' = failures + 1
  BY DEF TypeOK, Fails
<1>. QED
  BY <1>1, Sizes

\* The coordinator's answer to a request, as long as its cache at the most.
LEMMA AnswerFacts ==
    ASSUME TypeOK
    PROVE  /\ Answer("stats") \in [Lists -> Nat]
           /\ \A l \in Lists : /\ Answer("stats")[l] = Len(cache[l])
                               /\ Answer(l) = cache[l]
                               /\ cache[l] \in Seq(Nat)
                               /\ Len(cache[l]) \in Nat /\ Len(cache[l]) <= Cap[l]
<1>1. \A l \in Lists : cache[l] \in Seq(Nat) /\ Len(cache[l]) \in Nat /\ Len(cache[l]) <= Cap[l]
  BY LenProperties DEF TypeOK
<1>2. Answer("stats") = [l \in Lists |-> Len(cache[l])]
  BY DEF Answer
<1>3. \A l \in Lists : Answer(l) = cache[l]
  BY Sizes DEF Answer
<1>. QED
  BY <1>1, <1>2, <1>3

\* A request of the terminal that is answered.  What it answers is as the coordinator
\* is now, and so is at least what the totals were in the same life.
LEMMA FetchAnswered ==
    ASSUME IInv, turn \in 1..3, turn' = turn + 1,
           answers' = [answers EXCEPT ![Requests[turn]] =
                           {[life |-> life, value |-> Answer(Requests[turn])]}],
           UNCHANGED serverVars
    PROVE  AnswersTypeOK' /\ AnswersInOrder' /\ TotalsFit'
<1> DEFINE q == Requests[turn]
           e == [life |-> life, value |-> Answer(Requests[turn])]
<1>1. UNCHANGED <<life, cache>> /\ life \in 0..MaxRestarts /\ turn \in Nat
  BY DEF serverVars, IInv, TypeOK
<1>2. DOMAIN answers = Lists \cup {"stats"} /\ q \in Lists \cup {"stats"}
  BY RequestsInTurn DEF IInv, AnswersTypeOK
<1>3. /\ DOMAIN answers' = Lists \cup {"stats"} /\ answers'[q] = {e}
      /\ \A r \in Lists \cup {"stats"} : r # q => answers'[r] = answers[r]
  BY <1>2
<1>4. e.life = life /\ e.value = Answer(q)
  OBVIOUS
<1>5. TypeOK
  BY DEF IInv
<1>6. /\ q = "stats" => e \in [life : 0..MaxRestarts, value : [Lists -> Nat]]
      /\ \A l \in Lists : q = l => e \in [life : 0..MaxRestarts, value : Seq(Nat)]
  BY <1>1, <1>5, AnswerFacts
<1> HIDE DEF q, e
<1>7. AnswersTypeOK'
  BY <1>3, <1>6 DEF IInv, AnswersTypeOK
<1>8. AnswersInOrder'
  <2>1. \A r \in Lists \cup {"stats"} : \A a, b \in answers'[r] : a = b /\ a.life <= life
    <3> SUFFICES ASSUME NEW r \in Lists \cup {"stats"}, NEW a \in answers'[r], NEW b \in answers'[r]
                 PROVE  a = b /\ a.life <= life
      OBVIOUS
    <3>1. CASE r = q
      <4>1. a = e /\ b = e
        BY <1>3, <3>1
      <4>. QED
        BY <1>1, <1>4, <4>1, Sizes
    <3>2. CASE r # q
      BY <1>3, <3>2 DEF IInv, AnswersInOrder
    <3>. QED
      BY <3>1, <3>2
  <2>2. \A i \in turn'..Len(Requests) : answers'[Requests[i]] = {}
    <3> SUFFICES ASSUME NEW i \in turn'..3 PROVE answers'[Requests[i]] = {}
      BY RequestsInTurn
    <3>1. i \in turn..3 /\ i \in 1..3 /\ i # turn
      BY <1>1
    <3>2. Requests[i] # q /\ Requests[i] \in Lists \cup {"stats"}
      BY <3>1, RequestsInTurn DEF q
    <3>3. answers[Requests[i]] = {}
      BY <3>1, RequestsInTurn DEF IInv, AnswersInOrder
    <3>. QED
      BY <1>3, <3>2, <3>3
  <2>3. \A l \in Lists : \A a \in answers'["stats"] : a.value[l] <= Cap[l]
    <3>1. CASE q = "stats"
      <4>1. \A a \in answers'["stats"] : a.value = Answer("stats")
        BY <1>3, <1>4, <3>1
      <4>. QED
        BY <1>5, <4>1, AnswerFacts
    <3>2. CASE q # "stats"
      BY <1>3, <3>2 DEF IInv, AnswersInOrder
    <3>. QED
      BY <3>1, <3>2
  <2>4. \A l \in Lists : \A b \in answers'[l] : Len(b.value) <= Cap[l]
    <3> SUFFICES ASSUME NEW l \in Lists, NEW b \in answers'[l] PROVE Len(b.value) <= Cap[l]
      OBVIOUS
    <3>1. CASE l = q
      <4>1. b.value = cache[l]
        BY <1>3, <1>4, <1>5, <3>1, AnswerFacts
      <4>. QED
        BY <1>5, <4>1, AnswerFacts
    <3>2. CASE l # q
      BY <1>3, <3>2 DEF IInv, AnswersInOrder
    <3>. QED
      BY <3>1, <3>2
  <2>. QED
    BY <1>1, <2>1, <2>2, <2>3, <2>4 DEF AnswersInOrder
<1>9. TotalsFit'
  <2> SUFFICES ASSUME NEW l \in Lists, NEW a \in answers'["stats"]
               PROVE  /\ a.life = life => a.value[l] <= Len(cache[l])
                      /\ \A b \in answers'[l] : a.life = b.life => a.value[l] <= Len(b.value)
    BY <1>1 DEF TotalsFit
  <2>1. CASE q = "stats"
    <3>1. a.value[l] = Len(cache[l]) /\ Len(cache[l]) \in Nat
      BY <1>3, <1>4, <1>5, <2>1, AnswerFacts
    <3>2. turn = 1
      BY <2>1, RequestsInTurn DEF q
    <3>3. answers[l] = {}
      <4>1. l = Requests[2] \/ l = Requests[3]
        BY RequestsInTurn DEF Lists
      <4>2. 2 \in turn..3 /\ 3 \in turn..3
        BY <3>2
      <4>. QED
        BY <4>1, <4>2, RequestsInTurn DEF IInv, AnswersInOrder
    <3>4. answers'[l] = {}
      BY <1>3, <2>1, <3>3, Sizes
    <3>. QED
      BY <3>1, <3>4
  <2>2. CASE q # "stats"
    <3>1. a \in answers["stats"]
      BY <1>3, <2>2
    <3>2. a.life = life => a.value[l] <= Len(cache[l])
      BY <3>1 DEF IInv, TotalsFit
    <3>3. ASSUME NEW b \in answers'[l], a.life = b.life PROVE a.value[l] <= Len(b.value)
      <4>1. CASE l = q
        <5>1. b.life = life /\ b.value = cache[l]
          BY <1>3, <1>4, <1>5, <4>1, AnswerFacts
        <5>. QED
          BY <3>2, <3>3, <5>1
      <4>2. CASE l # q
        <5>1. b \in answers[l]
          BY <1>3, <4>2
        <5>. QED
          BY <3>1, <3>3, <5>1 DEF IInv, TotalsFit
      <4>. QED
        BY <4>1, <4>2
    <3>. QED
      BY <3>2, <3>3
  <2>. QED
    BY <2>1, <2>2
<1>. QED
  BY <1>7, <1>8, <1>9

\* A request that is not answered.
LEMMA FetchFailed ==
    ASSUME IInv, turn \in 1..3, turn' = turn + 1, UNCHANGED <<answers, serverVars>>
    PROVE  AnswersTypeOK' /\ AnswersInOrder' /\ TotalsFit'
<1>1. UNCHANGED <<life, cache, answers>> /\ turn \in Nat
  BY DEF serverVars
<1>2. AnswersTypeOK' /\ TotalsFit'
  BY <1>1 DEF IInv, AnswersTypeOK, TotalsFit
<1>3. \A i \in turn'..3 : i \in turn..3
  BY <1>1
<1>4. AnswersInOrder'
  BY <1>1, <1>3, RequestsInTurn DEF IInv, AnswersInOrder
<1>. QED
  BY <1>2, <1>4

LEMMA FetchInvariant == ASSUME IInv, Fetch PROVE IInv'
<1>1. turn \in 1..3 /\ turn' = turn + 1 /\ turn' \in 1..4
  BY RequestsInTurn DEF Fetch
<1>2. UNCHANGED <<serverVars, viewer, total, shown, whole, hookVars>>
  BY DEF Fetch
<1>3. TypeOK
  BY DEF IInv
<1>4. failures' \in 0..MaxFailures
  <2>1. failures' = failures \/ Fails
    BY DEF Fetch
  <2>. QED
    BY <1>3, <2>1, FailsBounded DEF TypeOK
<1>5. TypeOK'
  BY <1>1, <1>2, <1>3, <1>4 DEF TypeOK, serverVars, hookVars
<1>6. RefreshFitsTogether'
  BY <1>2 DEF IInv, RefreshFitsTogether
<1>7. AnswersTypeOK' /\ AnswersInOrder' /\ TotalsFit'
  BY <1>1, <1>2, FetchAnswered, FetchFailed DEF Fetch
<1>. QED
  BY <1>5, <1>6, <1>7 DEF IInv

\* A refresh shows what was answered.  Where every answer is from one life, the list
\* is no shorter than its total, and only the screen can cut it.
LEMMA RefreshInvariant == ASSUME IInv, Refresh PROVE IInv'
<1> DEFINE stats == CHOOSE a \in answers["stats"] : TRUE
           list(l) == CHOOSE a \in answers[l] : TRUE
<1>1. /\ turn = 4 /\ turn' = 1
      /\ total' = IF answers["stats"] = {} THEN total ELSE stats.value
      /\ shown' = [l \in Lists |-> IF answers[l] = {} THEN shown[l]
                                   ELSE NewestFirst(list(l).value, Rows[l])]
      /\ answers' = [r \in DOMAIN answers |-> {}]
      /\ whole' = \E n \in 0..MaxRestarts : \A r \in DOMAIN answers :
                      \E a \in answers[r] : a.life = n
      /\ UNCHANGED <<serverVars, failures, viewer, hookVars>>
  BY RequestsInTurn DEF Refresh
<1>2. answers["stats"] # {} =>
          /\ stats \in answers["stats"] /\ stats.value \in [Lists -> Nat]
          /\ \A l \in Lists : stats.value[l] <= Cap[l]
  BY DEF IInv, AnswersTypeOK, AnswersInOrder
<1>3. \A l \in Lists : answers[l] # {} => list(l) \in answers[l] /\ list(l).value \in Seq(Nat)
  BY DEF IInv, AnswersTypeOK
<1> HIDE DEF stats, list
<1>4. total' \in [Lists -> Nat] /\ \A l \in Lists : total'[l] <= Cap[l]
  BY <1>1, <1>2 DEF IInv, TypeOK
<1>5. \A l \in Lists : /\ NewestFirst(list(l).value, Rows[l]) = shown'[l] \/ answers[l] = {}
                       /\ shown'[l] \in Seq(Nat) /\ Len(shown'[l]) <= Rows[l]
  <2> SUFFICES ASSUME NEW l \in Lists
               PROVE  /\ NewestFirst(list(l).value, Rows[l]) = shown'[l] \/ answers[l] = {}
                      /\ shown'[l] \in Seq(Nat) /\ Len(shown'[l]) <= Rows[l]
    OBVIOUS
  <2>1. CASE answers[l] = {}
    BY <1>1, <2>1 DEF IInv, TypeOK
  <2>2. CASE answers[l] # {}
    <3>1. shown'[l] = NewestFirst(list(l).value, Rows[l])
      BY <1>1, <2>2
    <3>2. list(l).value \in Seq(Nat) /\ Rows[l] \in Nat /\ Len(list(l).value) \in Nat
      BY <1>3, <2>2, Sizes, LenProperties
    <3>. QED
      BY <3>1, <3>2, NewestFirstFacts
  <2>. QED
    BY <2>1, <2>2
<1>6. shown' \in [Lists -> Seq(Nat)]
  <2>1. DOMAIN shown' = Lists /\ shown' = [l \in Lists |-> shown'[l]]
    BY <1>1
  <2>. QED
    BY <1>5, <2>1
<1>7. whole' \in BOOLEAN
  BY <1>1
<1>8. TypeOK'
  <2>1. turn' \in 1..4 /\ UNCHANGED <<cache, arrived, life, failures, viewer, poll, data>>
    BY <1>1 DEF serverVars, hookVars
  <2>2. TypeOK
    BY DEF IInv
  <2>3. \A l \in Lists : /\ Len(cache'[l]) <= Cap[l] /\ arrived'[l] <= MaxEntries[l]
                         /\ total'[l] <= Cap[l] /\ Len(shown'[l]) <= Rows[l]
    BY <1>4, <1>5, <2>1, <2>2 DEF TypeOK
  <2>. QED
    BY <1>4, <1>6, <1>7, <2>1, <2>2, <2>3 DEF TypeOK
<1>9. DOMAIN answers' = Lists \cup {"stats"} /\ \A r \in Lists \cup {"stats"} : answers'[r] = {}
  BY <1>1 DEF IInv, AnswersTypeOK
<1>10. AnswersTypeOK' /\ TotalsFit'
  BY <1>9 DEF AnswersTypeOK, TotalsFit
<1>11. AnswersInOrder'
  BY <1>1, <1>9, RequestsInTurn DEF AnswersInOrder
<1>12. RefreshFitsTogether'
  <2> SUFFICES ASSUME whole', NEW l \in Lists
               PROVE  Len(shown'[l]) = Rows[l] \/ total'[l] <= Len(shown'[l])
    BY DEF RefreshFitsTogether
  <2>1. PICK n \in 0..MaxRestarts : \A r \in Lists \cup {"stats"} : \E a \in answers[r] : a.life = n
    BY <1>1 DEF IInv, AnswersTypeOK
  <2>2. answers["stats"] # {} /\ stats.life = n
    BY <1>2, <2>1 DEF IInv, AnswersInOrder
  <2>3. answers[l] # {} /\ list(l).life = n
    BY <1>3, <2>1 DEF IInv, AnswersInOrder
  <2>4. stats.value[l] <= Len(list(l).value)
    BY <1>2, <1>3, <2>2, <2>3 DEF IInv, TotalsFit
  <2>5. total'[l] = stats.value[l] /\ stats.value[l] \in Nat
    BY <1>1, <1>2, <2>2
  <2>6. /\ shown'[l] = NewestFirst(list(l).value, Rows[l])
        /\ list(l).value \in Seq(Nat) /\ Rows[l] \in Nat /\ Len(list(l).value) \in Nat
    BY <1>3, <1>5, <2>3, Sizes, LenProperties
  <2>7. Len(shown'[l]) = IF Len(list(l).value) > Rows[l] THEN Rows[l] ELSE Len(list(l).value)
    BY <2>6, NewestFirstFacts
  <2>. QED
    BY <2>4, <2>5, <2>6, <2>7
<1>. QED
  BY <1>8, <1>10, <1>11, <1>12 DEF IInv

\* The web dashboard's polls, which leave coordinator and terminal alone.
LEMMA HookStep ==
    ASSUME IInv, UNCHANGED <<serverVars, viewer, terminalVars>>,
           failures' \in 0..MaxFailures,
           poll' \in [Polls -> {Idle, Asked} \cup [is : {"answered"}, entries : Seq(Nat)]],
           \A p \in Polls : poll'[p].is = "answered" => Len(poll'[p].entries) <= Cap["alerts"],
           data' \in Seq(Nat), Len(data') <= Cap["alerts"]
    PROVE  IInv'
<1>1. TypeOK'
  BY DEF IInv, TypeOK, serverVars, terminalVars
<1>2. AnswersTypeOK' /\ AnswersInOrder' /\ TotalsFit'
  BY AnswersKept DEF terminalVars
<1>3. RefreshFitsTogether'
  BY DEF IInv, RefreshFitsTogether, terminalVars
<1>. QED
  BY <1>1, <1>2, <1>3 DEF IInv

LEMMA PollInvariant ==
    ASSUME IInv, NEW p \in Polls, Poll(p) \/ PollAnswered(p) \/ PollArrives(p) \/ PollFails(p)
    PROVE  IInv'
<1> DEFINE Entry == [is : {"answered"}, entries : Seq(Nat)]
<1>1. UNCHANGED <<serverVars, viewer, terminalVars>>
  BY DEF Poll, PollAnswered, PollArrives, PollFails
<1>2. TypeOK
  BY DEF IInv
<1>3. failures' \in 0..MaxFailures
  BY <1>2, FailsBounded DEF Poll, PollAnswered, PollArrives, PollFails, TypeOK
<1>4. PICK v \in {Idle, Asked, Answered(cache["alerts"])} : poll' = [poll EXCEPT ![p] = v]
  BY DEF Poll, PollAnswered, PollArrives, PollFails
<1>5. poll \in [Polls -> {Idle, Asked} \cup Entry]
  BY <1>2 DEF TypeOK
<1>6. /\ cache["alerts"] \in Seq(Nat) /\ Len(cache["alerts"]) <= Cap["alerts"]
      /\ Answered(cache["alerts"]) \in Entry
      /\ Answered(cache["alerts"]).entries = cache["alerts"]
  BY <1>2, Sizes DEF TypeOK, Answered
<1>7. Idle.is # "answered" /\ Asked.is # "answered"
  BY DEF Idle, Asked
<1>8. /\ v \in {Idle, Asked} \cup Entry
      /\ v.is = "answered" => Len(v.entries) <= Cap["alerts"]
  BY <1>6, <1>7
<1>9. poll' \in [Polls -> {Idle, Asked} \cup Entry]
  BY <1>4, <1>5, <1>8
<1>10. \A r \in Polls : poll'[r].is = "answered" => Len(poll'[r].entries) <= Cap["alerts"]
  <2>1. \A r \in Polls : poll'[r] = IF r = p THEN v ELSE poll[r]
    BY <1>4, <1>5
  <2>. QED
    BY <1>2, <1>8, <2>1 DEF TypeOK
<1>11. data' \in Seq(Nat) /\ Len(data') <= Cap["alerts"]
  <2>1. CASE data' = data
    BY <1>2, <2>1 DEF TypeOK
  <2>2. CASE poll[p].is = "answered" /\ data' = poll[p].entries
    <3>1. poll[p] \in Entry
      BY <1>5, <1>7, <2>2
    <3>. QED
      BY <1>2, <2>2, <3>1 DEF TypeOK
  <2>. QED
    BY <2>1, <2>2 DEF Poll, PollAnswered, PollArrives, PollFails
<1>. QED
  BY <1>1, <1>3, <1>9, <1>10, <1>11, HookStep

LEMMA NextInvariant == IInv /\ [Next]_vars => IInv'
<1> SUFFICES ASSUME IInv, [Next]_vars PROVE IInv'
  OBVIOUS
<1>1. CASE \E l \in Lists : Arrives(l)
  BY <1>1, ArrivesInvariant
<1>2. CASE Restart
  BY <1>2, RestartInvariant
<1>3. CASE Fetch
  BY <1>3, FetchInvariant
<1>4. CASE Refresh
  BY <1>4, RefreshInvariant
<1>5. CASE \E p \in Polls : Poll(p) \/ PollAnswered(p) \/ PollArrives(p) \/ PollFails(p)
  BY <1>5, PollInvariant
<1>6. CASE UNCHANGED vars
  <2>1. UNCHANGED <<serverVars, failures, viewer, terminalVars, hookVars>>
    BY <1>6 DEF vars
  <2>2. failures' \in 0..MaxFailures /\ UNCHANGED <<poll, data>>
    BY <2>1 DEF IInv, TypeOK, hookVars
  <2>. QED
    BY <2>1, <2>2, HookStep DEF IInv, TypeOK
<1>. QED
  BY <1>1, <1>2, <1>3, <1>4, <1>5, <1>6 DEF Next
-----------------------------------------------------------------------------
\* Every reachable state satisfies the inductive invariant: what one round of requests
\* has got so far is in the order the coordinator's caches went through.
THEOREM DashboardInvariant == Spec => []IInv
BY InitInvariant, NextInvariant, PTL DEF Spec

\* Type correctness; in particular neither dashboard ever shows more than it keeps
\* rows for, or more than the coordinator's cache can hold.
THEOREM DashboardTypes == Spec => []TypeOK
<1>1. IInv => TypeOK
  BY DEF IInv
<1>. QED
  BY <1>1, DashboardInvariant, PTL

\* fetch_data() asks for the totals before the lists: whenever its answers are all of
\* one life, what it shows never counts an alert or a threat that it does not list.
THEOREM RefreshesFitTogether == Spec => []RefreshFitsTogether
<1>1. IInv => RefreshFitsTogether
  BY DEF IInv
<1>. QED
  BY <1>1, DashboardInvariant, PTL
===============================================================================
