------------------------ MODULE Idempotency_proofs ------------------------
(***************************************************************************)
(* Theorems about the idempotency layer, for any number of posts, keys,    *)
(* expiries and crashes and any fingerprint; AnswersAreJustified needs a   *)
(* fingerprint that tells payloads apart exactly as their meaning does.    *)
(***************************************************************************)
EXTENDS Idempotency, TLAPS

\* Two posts have the same fingerprint exactly when they ask for the same.
FingerprintFaithful ==
  \A p, q \in Posts : PrintOf(p) = PrintOf(q) <=> MeaningOf(p) = MeaningOf(q)

TableOK(table) ==
  /\ DOMAIN table \subseteq Headers
  /\ table \in [DOMAIN table -> RecordRow]

-----------------------------------------------------------------------------
(* The table *)

LEMMA FreshEffect ==
  /\ Fresh = [k \in DOMAIN Fresh |-> records[k]]
  /\ DOMAIN Fresh = {k \in DOMAIN records : ~records[k].expired}
  /\ \A k \in DOMAIN Fresh : Fresh[k] = records[k]
BY DEF Fresh

LEMMA SetEffect ==
  ASSUME NEW table, NEW p \in Posts
  PROVE  /\ KeyOf(p) \in DOMAIN set(table, p)
         /\ set(table, p)[KeyOf(p)].response = p
         /\ ~set(table, p)[KeyOf(p)].expired
BY DEF set

LEMMA KeyType == ASSUME NEW p \in Posts PROVE KeyOf(p) \in Headers \union {NoKey}
BY SentAssumption DEF KeyOf

LEMMA LookedUpOK ==
  ASSUME IdemTypeOK, NEW p \in Posts
  PROVE  /\ TableOK(records)
         /\ TableOK(Fresh)
         /\ TableOK(LookedUp(p))
<1>1. TableOK(records)
  BY DEF IdemTypeOK, TableOK
<1>2. TableOK(Fresh)
  BY <1>1, FreshEffect DEF TableOK
<1> QED BY <1>1, <1>2 DEF LookedUp

LEMMA StoredOK ==
  ASSUME NEW table, TableOK(table), NEW p \in Posts
  PROVE  TableOK(Stored(table, p))
<1>1. CASE KeyOf(p) = NoKey
  BY <1>1 DEF Stored
<1>2. CASE KeyOf(p) # NoKey
  <2>1. Stored(table, p) = set(table, p) /\ KeyOf(p) \in Headers
    BY <1>2, KeyType DEF Stored
  <2>2. [fingerprint |-> PrintOf(p), response |-> p, expired |-> FALSE] \in RecordRow
    BY DEF RecordRow
  <2> QED BY <2>1, <2>2 DEF TableOK, set
<1> QED BY <1>1, <1>2

-----------------------------------------------------------------------------
(* Type correctness *)

\* Answering a post makes it done and answered.
LEMMA AnswerOK ==
  ASSUME IdemTypeOK, NEW p \in Posts, NEW q \in Posts,
         NEW kind \in AnswerKinds \ {"none"}, Answer(p, kind, q)
  PROVE  /\ stage' \in [Posts -> {"new", "running", "done"}]
         /\ answer' \in [Posts -> [kind : AnswerKinds, by : Posts]]
         /\ \A x \in Posts : answer'[x].kind # "none" <=> stage'[x] = "done"
         /\ answer'[p] = [kind |-> kind, by |-> q]
         /\ stage'[p] = "done"
         /\ \A x \in Posts : x # p => answer'[x] = answer[x] /\ stage'[x] = stage[x]
<1>1. [kind |-> kind, by |-> q] \in [kind : AnswerKinds, by : Posts]
  OBVIOUS
<1> QED BY <1>1 DEF IdemTypeOK, Answer

LEMMA DieOK ==
  ASSUME IdemTypeOK, NEW S \in SUBSET Posts, Die(S)
  PROVE  /\ stage' \in [Posts -> {"new", "running", "done"}]
         /\ answer' \in [Posts -> [kind : AnswerKinds, by : Posts]]
         /\ \A x \in Posts : answer'[x].kind # "none" <=> stage'[x] = "done"
         /\ \A x \in Posts : answer'[x] = answer[x] \/ answer'[x].kind = "lost"
         /\ \A x \in Posts : stage'[x] # "running"
<1>1. \A x \in Posts : [kind |-> "lost", by |-> x] \in [kind : AnswerKinds, by : Posts]
  BY DEF AnswerKinds
<1>2. /\ stage' \in [Posts -> {"new", "running", "done"}]
      /\ \A x \in Posts : stage'[x] # "running"
  BY DEF IdemTypeOK, Die
<1>3. /\ answer' \in [Posts -> [kind : AnswerKinds, by : Posts]]
      /\ \A x \in Posts : answer'[x] = answer[x] \/ answer'[x].kind = "lost"
  BY <1>1 DEF IdemTypeOK, Die
<1>4. \A x \in Posts : answer'[x].kind # "none" <=> stage'[x] = "done"
  BY DEF IdemTypeOK, Die
<1> QED BY <1>2, <1>3, <1>4

LEMMA IdemTypeInit == IdemInit => IdemTypeOK
BY DEF IdemInit, IdemTypeOK, AnswerKinds

LEMMA IdemTypeStep == IdemTypeOK /\ [IdemNext]_ivars => IdemTypeOK'
<1> SUFFICES ASSUME IdemTypeOK, [IdemNext]_ivars PROVE IdemTypeOK'
  OBVIOUS
<1>0. {"ok", "conflict", "error"} \subseteq AnswerKinds \ {"none"}
  BY DEF AnswerKinds
<1>1. ASSUME NEW p \in Posts, Replay(p) PROVE IdemTypeOK'
  <2>1. Fresh[KeyOf(p)].response \in Posts
    BY <1>1, LookedUpOK DEF Replay, Found, TableOK, RecordRow
  <2>2. records' = Fresh /\ TableOK(Fresh)
    BY <1>1, LookedUpOK DEF Replay
  <2>3. Answer(p, "ok", Fresh[KeyOf(p)].response) /\ UNCHANGED <<executed, forgotten, cut>>
    BY <1>1 DEF Replay
  <2> QED BY <1>0, <2>1, <2>2, <2>3, AnswerOK DEF IdemTypeOK, TableOK
<1>2. ASSUME NEW p \in Posts, Conflict(p) PROVE IdemTypeOK'
  <2>1. records' = Fresh /\ TableOK(Fresh)
    BY <1>2, LookedUpOK DEF Conflict
  <2>2. Answer(p, "conflict", p) /\ UNCHANGED <<executed, forgotten, cut>>
    BY <1>2 DEF Conflict
  <2> QED BY <1>0, <2>1, <2>2, AnswerOK DEF IdemTypeOK, TableOK
<1>3. ASSUME NEW p \in Posts, Execute(p) PROVE IdemTypeOK'
  <2>1. TableOK(records')
    BY <1>3, LookedUpOK, StoredOK DEF Execute
  <2>2. Answer(p, "ok", p) /\ executed' = executed \union {p} /\ UNCHANGED <<forgotten, cut>>
    BY <1>3 DEF Execute
  <2> QED BY <1>0, <2>1, <2>2, AnswerOK DEF IdemTypeOK, TableOK
<1>4. ASSUME NEW p \in Posts, Begin(p) PROVE IdemTypeOK'
  <2>1. TableOK(records')
    BY <1>4, LookedUpOK DEF Begin
  <2>2. /\ stage[p] = "new" /\ stage' = [stage EXCEPT ![p] = "running"]
        /\ UNCHANGED <<answer, executed, forgotten, cut>>
    BY <1>4 DEF Begin, Admitted
  <2> QED BY <2>1, <2>2 DEF IdemTypeOK, TableOK
<1>5. ASSUME NEW p \in Posts, Finish(p) PROVE IdemTypeOK'
  <2>1. TableOK(records')
    BY <1>5, LookedUpOK, StoredOK DEF Finish
  <2>2. Answer(p, "ok", p) /\ executed' = executed \union {p} /\ UNCHANGED <<forgotten, cut>>
    BY <1>5 DEF Finish
  <2> QED BY <1>0, <2>1, <2>2, AnswerOK DEF IdemTypeOK, TableOK
<1>6. ASSUME NEW p \in Posts, Throw(p) PROVE IdemTypeOK'
  <2>1. TableOK(records')
    BY <1>6, LookedUpOK DEF Throw
  <2>2. Answer(p, "error", p) /\ UNCHANGED <<executed, forgotten, cut>>
    BY <1>6 DEF Throw
  <2> QED BY <1>0, <2>1, <2>2, AnswerOK DEF IdemTypeOK, TableOK
<1>7. ASSUME NEW p \in Posts, CrashBeforeSet(p) PROVE IdemTypeOK'
  <2>1. TableOK(records')
    BY <1>7, LookedUpOK DEF CrashBeforeSet
  <2>2. /\ Die({p}) /\ {p} \in SUBSET Posts /\ executed' = executed \union {p}
        /\ cut' = cut \union {KeyOf(p)} /\ UNCHANGED forgotten
    BY <1>7 DEF CrashBeforeSet
  <2>3. KeyOf(p) \in Headers \union {NoKey}
    BY KeyType
  <2> QED BY <2>1, <2>2, <2>3, DieOK DEF IdemTypeOK, TableOK
<1>8. ASSUME CrashRunning PROVE IdemTypeOK'
  <2>1. PICK S \in SUBSET {p \in Posts : stage[p] = "running"} :
               /\ executed' = executed \union S
               /\ cut' = cut \union {KeyOf(p) : p \in S}
    BY <1>8 DEF CrashRunning
  <2>2. Die({}) /\ {} \in SUBSET Posts /\ UNCHANGED <<records, forgotten>>
    BY <1>8 DEF CrashRunning
  <2>3. {KeyOf(p) : p \in S} \subseteq Headers \union {NoKey}
    BY KeyType
  <2> QED BY <2>1, <2>2, <2>3, DieOK DEF IdemTypeOK
<1>9. ASSUME NEW k \in Headers, Expire(k) PROVE IdemTypeOK'
  <2>1. [records[k] EXCEPT !.expired = TRUE] \in RecordRow
    BY <1>9 DEF Expire, IdemTypeOK, RecordRow
  <2> QED BY <1>9, <2>1 DEF Expire, IdemTypeOK
<1>10. CASE UNCHANGED ivars
  BY <1>10 DEF ivars, IdemTypeOK
<1> QED BY <1>1, <1>2, <1>3, <1>4, <1>5, <1>6, <1>7, <1>8, <1>9, <1>10 DEF IdemNext

\* Type correctness; a post is answered exactly when it is done.
THEOREM IdemTypeCorrect == IdemSpec => []IdemTypeOK
<1> QED BY IdemTypeInit, IdemTypeStep, PTL DEF IdemSpec

-----------------------------------------------------------------------------
(* Records hold answers of executions *)

\* The row that set writes under the key of p.
RowOf(p) == [fingerprint |-> PrintOf(p), response |-> p, expired |-> FALSE]

\* Every row after a step was there before, with the same answer and
\* fingerprint, or is that of a post the step executed.
RowsExplained ==
  \A k \in DOMAIN records' :
    \/ /\ k \in DOMAIN records
       /\ records'[k].response = records[k].response
       /\ records'[k].fingerprint = records[k].fingerprint
    \/ \E p \in executed' : KeyOf(p) = k /\ records'[k] = RowOf(p)

LEMMA StoredRows ==
  ASSUME NEW table, NEW p \in Posts, NEW k \in DOMAIN Stored(table, p)
  PROVE  \/ k \in DOMAIN table /\ Stored(table, p)[k] = table[k]
         \/ KeyOf(p) = k /\ Stored(table, p)[k] = RowOf(p)
BY DEF Stored, set, RowOf

LEMMA StoredKeeps ==
  ASSUME NEW table, NEW p \in Posts, NEW k \in DOMAIN table, k # KeyOf(p)
  PROVE  k \in DOMAIN Stored(table, p) /\ Stored(table, p)[k] = table[k]
BY DEF Stored, set

LEMMA RecordsExplained ==
  ASSUME IdemTypeOK, [IdemNext]_ivars
  PROVE  RowsExplained
<1>0. /\ \A k \in DOMAIN Fresh : k \in DOMAIN records /\ Fresh[k] = records[k]
      /\ \A p \in Posts : \A k \in DOMAIN LookedUp(p) :
           k \in DOMAIN records /\ LookedUp(p)[k] = records[k]
  BY DEF Fresh, LookedUp
<1>1. ASSUME \/ records' = Fresh
             \/ UNCHANGED records
             \/ \E p \in Posts : records' = LookedUp(p)
      PROVE  RowsExplained
  BY <1>0, <1>1 DEF RowsExplained
<1>2. ASSUME NEW p \in Posts,
             Replay(p) \/ Conflict(p) \/ Begin(p) \/ Throw(p) \/ CrashBeforeSet(p)
      PROVE  RowsExplained
  BY <1>1, <1>2 DEF Replay, Conflict, Begin, Throw, CrashBeforeSet
<1>3. ASSUME NEW p \in Posts, Execute(p) PROVE RowsExplained
  <2>1. records' = Stored(LookedUp(p), p) /\ p \in executed'
    BY <1>3 DEF Execute
  <2> QED BY <1>0, <2>1, StoredRows DEF RowsExplained
<1>4. ASSUME NEW p \in Posts, Finish(p) PROVE RowsExplained
  <2>1. records' = Stored(records, p) /\ p \in executed'
    BY <1>4 DEF Finish
  <2> QED BY <2>1, StoredRows DEF RowsExplained
<1>5. CASE CrashRunning
  BY <1>1, <1>5 DEF CrashRunning
<1>6. ASSUME NEW k \in Headers, Expire(k) PROVE RowsExplained
  <2>1. records[k] \in RecordRow
    BY <1>6 DEF Expire, IdemTypeOK
  <2>2. \A j \in DOMAIN records : /\ records'[j].response = records[j].response
                                 /\ records'[j].fingerprint = records[j].fingerprint
    BY <1>6, <2>1 DEF Expire, IdemTypeOK, RecordRow
  <2> QED BY <1>6, <2>2 DEF Expire, RowsExplained
<1>7. CASE UNCHANGED ivars
  BY <1>1, <1>7 DEF ivars
<1> QED BY <1>2, <1>3, <1>4, <1>5, <1>6, <1>7 DEF IdemNext

\* The histories only grow.
LEMMA HistoriesGrow ==
  ASSUME [IdemNext]_ivars
  PROVE  /\ executed \subseteq executed'
         /\ forgotten \subseteq forgotten'
         /\ cut \subseteq cut'
BY DEF IdemNext, ivars, Replay, Conflict, Execute, Begin, Finish, Throw, CrashRunning,
       CrashBeforeSet, Expire

LEMMA RecordsTrueStep ==
  ASSUME IdemTypeOK, RecordsTrue, [IdemNext]_ivars
  PROVE  RecordsTrue'
<1> SUFFICES ASSUME NEW k \in DOMAIN records'
             PROVE  LET q == records'[k].response IN
                    /\ q \in executed' /\ KeyOf(q) = k
                    /\ records'[k].fingerprint = PrintOf(q)
  BY DEF RecordsTrue, KeyOf, PrintOf
<1>1. CASE /\ k \in DOMAIN records
           /\ records'[k].response = records[k].response
           /\ records'[k].fingerprint = records[k].fingerprint
  BY <1>1, HistoriesGrow DEF RecordsTrue
<1>2. CASE \E p \in executed' : KeyOf(p) = k /\ records'[k] = RowOf(p)
  BY <1>2 DEF RowOf
<1> QED BY <1>1, <1>2, RecordsExplained DEF RowsExplained

-----------------------------------------------------------------------------
(* How posts progress and records are kept *)

LEMMA RunningAwaitsStep ==
  ASSUME IdemTypeOK, RunningAwaits, [IdemNext]_ivars
  PROVE  RunningAwaits'
<1> SUFFICES ASSUME NEW x \in Posts, stage'[x] = "running" PROVE Awaits(x)
  BY DEF RunningAwaits, Awaits
<1>1. ASSUME NEW p \in Posts, NEW q, NEW kind, Answer(p, kind, q) PROVE stage[x] = "running"
  BY <1>1 DEF Answer, IdemTypeOK
<1>2. ASSUME NEW S, Die(S) PROVE stage[x] = "running"
  BY <1>2 DEF Die, IdemTypeOK
<1>3. ASSUME NEW p \in Posts,
             Replay(p) \/ Conflict(p) \/ Execute(p) \/ Finish(p) \/ Throw(p)
      PROVE  stage[x] = "running"
  BY <1>1, <1>3 DEF Replay, Conflict, Execute, Finish, Throw
<1>4. ASSUME NEW p \in Posts, Begin(p) PROVE stage[x] = "running" \/ Awaits(x)
  BY <1>4 DEF Begin, IdemTypeOK
<1>5. ASSUME CrashRunning \/ \E p \in Posts : CrashBeforeSet(p)
      PROVE  stage[x] = "running"
  BY <1>2, <1>5 DEF CrashRunning, CrashBeforeSet
<1>6. ASSUME (\E k \in Headers : Expire(k)) \/ UNCHANGED ivars PROVE stage[x] = "running"
  BY <1>6 DEF Expire, ivars
<1> QED BY <1>3, <1>4, <1>5, <1>6 DEF IdemNext, RunningAwaits

LEMMA LookedUpRows ==
  ASSUME NEW p \in Posts
  PROVE  /\ \A k \in DOMAIN LookedUp(p) : k \in DOMAIN records /\ LookedUp(p)[k] = records[k]
         /\ \A k \in DOMAIN records : ~records[k].expired =>
              k \in DOMAIN LookedUp(p) /\ LookedUp(p)[k] = records[k]
BY DEF LookedUp, Fresh

LEMMA FreshRows ==
  /\ \A k \in DOMAIN Fresh : k \in DOMAIN records /\ Fresh[k] = records[k]
  /\ \A k \in DOMAIN records : ~records[k].expired =>
       k \in DOMAIN Fresh /\ Fresh[k] = records[k]
BY DEF Fresh

LEMMA ExpiredForgottenStep ==
  ASSUME IdemTypeOK, ExpiredForgotten, [IdemNext]_ivars
  PROVE  ExpiredForgotten'
<1> SUFFICES ASSUME NEW k \in DOMAIN records', records'[k].expired PROVE k \in forgotten'
  BY DEF ExpiredForgotten
<1>1. (k \in DOMAIN records /\ records'[k] = records[k]) => k \in forgotten'
  BY HistoriesGrow DEF ExpiredForgotten
<1>2. ASSUME NEW p \in Posts,
             Replay(p) \/ Conflict(p) \/ Begin(p) \/ Throw(p) \/ CrashBeforeSet(p)
      PROVE  k \in DOMAIN records /\ records'[k] = records[k]
  BY <1>2, FreshRows, LookedUpRows DEF Replay, Conflict, Begin, Throw, CrashBeforeSet
<1>3. ASSUME NEW p \in Posts, Execute(p) \/ Finish(p)
      PROVE  k \in DOMAIN records /\ records'[k] = records[k]
  <2>1. \/ records' = Stored(LookedUp(p), p)
        \/ records' = Stored(records, p)
    BY <1>3 DEF Execute, Finish
  <2>2. records'[k] # RowOf(p)
    BY DEF RowOf
  <2> QED BY <2>1, <2>2, StoredRows, LookedUpRows
<1>4. CASE CrashRunning \/ UNCHANGED ivars
  BY <1>1, <1>4 DEF CrashRunning, ivars
<1>5. ASSUME NEW j \in Headers, Expire(j) PROVE k \in forgotten'
  BY <1>1, <1>5 DEF Expire, IdemTypeOK
<1> QED BY <1>1, <1>2, <1>3, <1>4, <1>5 DEF IdemNext

\* A record of handlers that await nothing serves on until it expires.
LEMMA ServesStep ==
  ASSUME IdemTypeOK, RunningAwaits, [IdemNext]_ivars,
         NEW k, NEW q, Immediate(k), Serves(k, q)
  PROVE  Serves(k, q)' \/ k \in forgotten'
<1>0. k \in DOMAIN records /\ ~records[k].expired /\ records[k].response = q
  BY DEF Serves
<1>1. (k \in DOMAIN records' /\ records'[k] = records[k]) => Serves(k, q)'
  BY <1>0 DEF Serves
<1>2. ASSUME NEW p \in Posts,
             Replay(p) \/ Conflict(p) \/ Begin(p) \/ Throw(p) \/ CrashBeforeSet(p)
      PROVE  k \in DOMAIN records' /\ records'[k] = records[k]
  BY <1>0, <1>2, FreshRows, LookedUpRows DEF Replay, Conflict, Begin, Throw, CrashBeforeSet
<1>3. ASSUME NEW p \in Posts, Execute(p)
      PROVE  k \in DOMAIN records' /\ records'[k] = records[k]
  <2>1. KeyOf(p) # k
    BY <1>0, <1>3, FreshRows DEF Execute, Admitted, Found, Immediate
  <2>2. k \in DOMAIN LookedUp(p) /\ LookedUp(p)[k] = records[k]
    BY <1>0, LookedUpRows
  <2> QED BY <1>3, <2>1, <2>2, StoredKeeps DEF Execute
<1>4. ASSUME NEW p \in Posts, Finish(p)
      PROVE  k \in DOMAIN records' /\ records'[k] = records[k]
  <2>1. KeyOf(p) # k
    BY <1>4 DEF Finish, RunningAwaits, Immediate
  <2> QED BY <1>0, <1>4, <2>1, StoredKeeps DEF Finish
<1>5. CASE CrashRunning \/ UNCHANGED ivars
  BY <1>0, <1>1, <1>5 DEF CrashRunning, ivars
<1>6. ASSUME NEW j \in Headers, Expire(j) PROVE Serves(k, q)' \/ k \in forgotten'
  BY <1>0, <1>1, <1>6 DEF Expire, IdemTypeOK
<1> QED BY <1>1, <1>2, <1>3, <1>4, <1>5, <1>6 DEF IdemNext

-----------------------------------------------------------------------------
(* What clients were told, and what was executed *)

LEMMA AnswerEffect ==
  ASSUME IdemTypeOK, NEW p \in Posts, NEW kind, NEW q, Answer(p, kind, q), NEW x \in Posts
  PROVE  \/ answer'[x] = answer[x]
         \/ x = p /\ answer'[x].kind = kind /\ answer'[x].by = q
BY DEF Answer, IdemTypeOK

\* The step after which p is answered with an execution's answer replays the
\* record of its key or stores one.
LEMMA NewAnswers ==
  ASSUME IdemTypeOK, RunningAwaits, [IdemNext]_ivars,
         NEW x \in Posts, answer'[x].kind = "ok", answer'[x] # answer[x],
         Immediate(KeyOf(x))
  PROVE  Serves(KeyOf(x), answer[x].by)'
<1>0. KeyOf(x) # NoKey /\ ~Awaits(x)
  BY DEF Immediate
<1>1. ASSUME NEW p \in Posts, Replay(p) PROVE Serves(KeyOf(x), answer[x].by)'
  <2>1. Fresh[KeyOf(p)].response \in Posts
    BY <1>1, LookedUpOK DEF Replay, Found, TableOK, RecordRow
  <2>2. x = p /\ answer'[x].by = Fresh[KeyOf(p)].response
    BY <1>1, <2>1, AnswerEffect DEF Replay
  <2>3. KeyOf(p) \in DOMAIN Fresh /\ ~Fresh[KeyOf(p)].expired
    BY <1>1, FreshEffect DEF Replay, Found
  <2>4. records' = Fresh
    BY <1>1 DEF Replay
  <2>5. /\ KeyOf(x) \in DOMAIN records' /\ ~records'[KeyOf(x)].expired
        /\ records'[KeyOf(x)].response = answer'[x].by
    BY <2>2, <2>3, <2>4
  <2> QED BY <2>5 DEF Serves, KeyOf
<1>2. ASSUME NEW p \in Posts, Execute(p) PROVE Serves(KeyOf(x), answer[x].by)'
  <2>1. x = p /\ answer'[x].by = p
    BY <1>2, AnswerEffect DEF Execute
  <2>2. records' = set(LookedUp(p), p)
    BY <1>0, <1>2, <2>1 DEF Execute, Stored
  <2>3. /\ KeyOf(x) \in DOMAIN records' /\ ~records'[KeyOf(x)].expired
        /\ records'[KeyOf(x)].response = answer'[x].by
    BY <2>1, <2>2, SetEffect
  <2> QED BY <2>3 DEF Serves, KeyOf
<1>3. ASSUME NEW p \in Posts, Finish(p) PROVE FALSE
  <2>1. x = p
    BY <1>3, AnswerEffect DEF Finish
  <2> QED BY <1>0, <1>3, <2>1 DEF Finish, RunningAwaits
<1>4. ASSUME NEW p \in Posts, Conflict(p) \/ Throw(p) PROVE FALSE
  BY <1>4, AnswerEffect DEF Conflict, Throw
<1>5. ASSUME NEW p \in Posts, CrashBeforeSet(p) PROVE FALSE
  <2>1. Die({p}) /\ {p} \in SUBSET Posts
    BY <1>5 DEF CrashBeforeSet
  <2> QED BY <2>1, DieOK
<1>6. ASSUME CrashRunning PROVE FALSE
  <2>1. Die({}) /\ {} \in SUBSET Posts
    BY <1>6 DEF CrashRunning
  <2> QED BY <2>1, DieOK
<1>7. ASSUME (\E p \in Posts : Begin(p)) \/ (\E k \in Headers : Expire(k)) \/ UNCHANGED ivars
      PROVE  FALSE
  BY <1>7 DEF Begin, Expire, ivars
<1> QED BY <1>1, <1>2, <1>3, <1>4, <1>5, <1>6, <1>7 DEF IdemNext

LEMMA AnswersServedStep ==
  ASSUME IdemTypeOK, RunningAwaits, AnswersServed, [IdemNext]_ivars
  PROVE  AnswersServed'
<1> SUFFICES ASSUME NEW p \in Posts, answer'[p].kind = "ok", Immediate(KeyOf(p)),
                    KeyOf(p) \notin forgotten'
             PROVE  Serves(KeyOf(p), answer[p].by)'
  BY DEF AnswersServed, Immediate, KeyOf, Awaits, Serves
<1>1. CASE answer'[p] # answer[p]
  BY <1>1, NewAnswers
<1>2. CASE answer'[p] = answer[p]
  <2>1. Serves(KeyOf(p), answer[p].by)
    BY <1>2, HistoriesGrow DEF AnswersServed
  <2>2. PICK q : q = answer[p].by
    OBVIOUS
  <2>3. Serves(KeyOf(p), q)'
    BY <2>1, <2>2, ServesStep
  <2> QED BY <1>2, <2>2, <2>3 DEF Serves
<1> QED BY <1>1, <1>2

\* A newly executed post has its record stored, or a crash prevented that.
LEMMA NewExecutions ==
  ASSUME IdemTypeOK, RunningAwaits, [IdemNext]_ivars,
         NEW x \in executed', x \notin executed, Immediate(KeyOf(x))
  PROVE  Serves(KeyOf(x), x)' \/ KeyOf(x) \in cut'
<1>0. KeyOf(x) # NoKey /\ (x \in Posts => ~Awaits(x))
  BY DEF Immediate
<1>1. ASSUME NEW p \in Posts, Execute(p) PROVE Serves(KeyOf(x), x)'
  <2>1. x = p
    BY <1>1 DEF Execute
  <2>2. records' = set(LookedUp(p), p)
    BY <1>0, <1>1, <2>1 DEF Execute, Stored
  <2>3. /\ KeyOf(x) \in DOMAIN records' /\ ~records'[KeyOf(x)].expired
        /\ records'[KeyOf(x)].response = x
    BY <2>1, <2>2, SetEffect
  <2> QED BY <2>3 DEF Serves, KeyOf
<1>2. ASSUME NEW p \in Posts, Finish(p) PROVE FALSE
  BY <1>0, <1>2 DEF Finish, RunningAwaits
<1>3. ASSUME NEW p \in Posts, CrashBeforeSet(p) PROVE KeyOf(x) \in cut'
  BY <1>3 DEF CrashBeforeSet, KeyOf
<1>4. ASSUME CrashRunning PROVE KeyOf(x) \in cut'
  BY <1>4 DEF CrashRunning, KeyOf
<1>5. ASSUME NEW p \in Posts, Replay(p) \/ Conflict(p) \/ Begin(p) \/ Throw(p) PROVE FALSE
  BY <1>5 DEF Replay, Conflict, Begin, Throw
<1>6. ASSUME (\E k \in Headers : Expire(k)) \/ UNCHANGED ivars PROVE FALSE
  BY <1>6 DEF Expire, ivars
<1> QED BY <1>1, <1>2, <1>3, <1>4, <1>5, <1>6 DEF IdemNext

LEMMA ExecutionsServedStep ==
  ASSUME IdemTypeOK, RunningAwaits, ExecutionsServed, [IdemNext]_ivars
  PROVE  ExecutionsServed'
<1> SUFFICES ASSUME NEW p \in executed', Immediate(KeyOf(p)),
                    KeyOf(p) \notin forgotten' \union cut'
             PROVE  Serves(KeyOf(p), p)'
  BY DEF ExecutionsServed, Immediate, KeyOf, Awaits
<1>1. CASE p \notin executed
  BY <1>1, NewExecutions
<1>2. CASE p \in executed
  BY <1>2, HistoriesGrow, ServesStep DEF ExecutionsServed
<1> QED BY <1>1, <1>2

LEMMA IdemInvInit == IdemInit => IdemInv
BY IdemTypeInit DEF IdemInit, IdemInv, RecordsTrue, RunningAwaits, ExpiredForgotten,
                    AnswersServed, ExecutionsServed

LEMMA IdemInvStep == IdemInv /\ [IdemNext]_ivars => IdemInv'
BY IdemTypeStep, RecordsTrueStep, RunningAwaitsStep, ExpiredForgottenStep,
   AnswersServedStep, ExecutionsServedStep DEF IdemInv

THEOREM IdemInvariant == IdemSpec => []IdemInv
<1> QED BY IdemInvInit, IdemInvStep, PTL DEF IdemSpec

\* As long as a record lives, every client that uses its key gets the one
\* answer, through any number of crashes.
THEOREM OneAnswerPerKey == IdemSpec => []AnswersAgree
<1>1. IdemInv => AnswersAgree
  BY DEF IdemInv, AnswersServed, AnswersAgree, Serves
<1> QED BY <1>1, IdemInvariant, PTL

\* A request is executed once per key unless its record expired or a crash
\* fell between the execution and the record.
THEOREM OneExecutionPerKey == IdemSpec => []ExecutedOnce
<1>1. IdemInv => ExecutedOnce
  BY DEF IdemInv, IdemTypeOK, ExecutionsServed, ExecutedOnce, Serves
<1> QED BY <1>1, IdemInvariant, PTL

-----------------------------------------------------------------------------
(* With fingerprints that tell payloads apart as their meaning does *)

LEMMA PrintsTellMeaning ==
  ASSUME FingerprintFaithful, NEW p \in Posts, NEW q \in Posts
  PROVE  PrintOf(p) = PrintOf(q) <=> MeaningOf(p) = MeaningOf(q)
BY DEF FingerprintFaithful

\* p was answered truthfully: the body of AnswerJustified.
Justified(p) ==
  /\ answer[p].kind = "ok" =>
       LET q == answer[p].by IN
       /\ q \in executed
       /\ KeyOf(q) = KeyOf(p)
       /\ MeaningOf(q) = MeaningOf(p)
       /\ KeyOf(p) = NoKey => q = p
  /\ answer[p].kind = "conflict" =>
       \E q \in executed : KeyOf(q) = KeyOf(p) /\ MeaningOf(q) # MeaningOf(p)

\* The record a lookup finds is that of an executed post with the same key.
LEMMA FoundRecord ==
  ASSUME IdemTypeOK, RecordsTrue, NEW p \in Posts, Found(p),
         NEW q, q = Fresh[KeyOf(p)].response
  PROVE  /\ q \in Posts /\ q \in executed /\ KeyOf(q) = KeyOf(p)
         /\ SameFingerprint(p) <=> PrintOf(q) = PrintOf(p)
         /\ KeyOf(p) # NoKey
<1>1. KeyOf(p) \in DOMAIN records /\ Fresh[KeyOf(p)] = records[KeyOf(p)]
  BY FreshEffect DEF Found
<1>2. q \in executed /\ KeyOf(q) = KeyOf(p) /\ records[KeyOf(p)].fingerprint = PrintOf(q)
  BY <1>1 DEF RecordsTrue
<1> QED BY <1>1, <1>2 DEF Found, SameFingerprint, IdemTypeOK

LEMMA AnswerJustifiedStep ==
  ASSUME FingerprintFaithful, IdemInv, AnswerJustified, [IdemNext]_ivars
  PROVE  AnswerJustified'
<1> USE DEF IdemInv
<1> SUFFICES ASSUME NEW x \in Posts PROVE Justified(x)'
  BY DEF AnswerJustified, Justified, KeyOf, MeaningOf
<1>1. ASSUME answer'[x] = answer[x] PROVE Justified(x)'
  <2>1. Justified(x)
    BY DEF AnswerJustified, Justified
  <2> QED BY <1>1, <2>1, HistoriesGrow DEF Justified, KeyOf, MeaningOf
<1>2. ASSUME answer'[x].kind \notin {"ok", "conflict"} PROVE Justified(x)'
  BY <1>2 DEF Justified
<1>3. ASSUME NEW p \in Posts, Replay(p) PROVE Justified(x)'
  <2>1. PICK q : q = Fresh[KeyOf(p)].response
    OBVIOUS
  <2>2. Answer(p, "ok", q) /\ Found(p) /\ SameFingerprint(p) /\ executed' = executed
    BY <1>3, <2>1 DEF Replay
  <2>3. /\ q \in executed' /\ KeyOf(q) = KeyOf(p) /\ MeaningOf(q) = MeaningOf(p)
        /\ KeyOf(p) # NoKey
    BY <2>1, <2>2, FoundRecord, PrintsTellMeaning
  <2>4. CASE x = p /\ answer'[x].kind = "ok" /\ answer'[x].by = q
    BY <2>3, <2>4 DEF Justified, KeyOf, MeaningOf
  <2> QED BY <1>1, <2>2, <2>4, AnswerEffect
<1>4. ASSUME NEW p \in Posts, Conflict(p) PROVE Justified(x)'
  <2>1. PICK q : q = Fresh[KeyOf(p)].response
    OBVIOUS
  <2>2. Answer(p, "conflict", p) /\ Found(p) /\ ~SameFingerprint(p) /\ executed' = executed
    BY <1>4 DEF Conflict
  <2>3. q \in executed' /\ KeyOf(q) = KeyOf(p) /\ MeaningOf(q) # MeaningOf(p)
    BY <2>1, <2>2, FoundRecord, PrintsTellMeaning
  <2>4. CASE x = p /\ answer'[x].kind = "conflict" /\ answer'[x].by = p
    BY <2>3, <2>4 DEF Justified, KeyOf, MeaningOf
  <2> QED BY <1>1, <2>2, <2>4, AnswerEffect
<1>5. ASSUME NEW p \in Posts, Execute(p) \/ Finish(p) PROVE Justified(x)'
  <2>1. Answer(p, "ok", p) /\ p \in executed'
    BY <1>5 DEF Execute, Finish
  <2>2. CASE x = p /\ answer'[x].kind = "ok" /\ answer'[x].by = p
    BY <2>1, <2>2 DEF Justified, KeyOf, MeaningOf
  <2> QED BY <1>1, <2>1, <2>2, AnswerEffect
<1>6. ASSUME NEW p \in Posts, Throw(p) PROVE Justified(x)'
  <2>1. Answer(p, "error", p)
    BY <1>6 DEF Throw
  <2> QED BY <1>1, <1>2, <2>1, AnswerEffect
<1>7. ASSUME CrashRunning \/ \E p \in Posts : CrashBeforeSet(p) PROVE Justified(x)'
  <2>1. \E S \in SUBSET Posts : Die(S)
    BY <1>7 DEF CrashRunning, CrashBeforeSet
  <2> QED BY <1>1, <1>2, <2>1, DieOK
<1>8. ASSUME (\E p \in Posts : Begin(p)) \/ (\E k \in Headers : Expire(k)) \/ UNCHANGED ivars
      PROVE  Justified(x)'
  BY <1>1, <1>8 DEF Begin, Expire, ivars
<1> QED BY <1>3, <1>4, <1>5, <1>6, <1>7, <1>8 DEF IdemNext

\* An answer is that of an execution of the same request under the same key,
\* and a conflict is reported only for a key that served another request.
THEOREM AnswersAreJustified == ASSUME FingerprintFaithful PROVE IdemSpec => []AnswerJustified
<1>1. IdemInit => AnswerJustified
  <2> SUFFICES ASSUME IdemInit, NEW p \in Posts PROVE answer[p].kind \notin {"ok", "conflict"}
    BY DEF AnswerJustified
  <2>1. answer = [q \in Posts |-> [kind |-> "none", by |-> q]]
    BY DEF IdemInit
  <2>2. answer[p] = [kind |-> "none", by |-> p]
    BY <2>1
  <2> QED BY <2>2
<1>2. IdemInv /\ AnswerJustified /\ [IdemNext]_ivars => AnswerJustified'
  BY AnswerJustifiedStep
<1> QED BY <1>1, <1>2, IdemInvariant, PTL DEF IdemSpec

=============================================================================
