---------------------------- MODULE Idempotency ----------------------------
(***************************************************************************)
(* IdempotencyInterceptor and IdempotencyService in front of every POST.   *)
(*                                                                         *)
(* A post carries a payload (url and body) and perhaps an Idempotency-Key. *)
(* The interceptor looks the key up, lets the handler run if it finds      *)
(* nothing, and stores the answer once the handler has returned.  Lookup,  *)
(* handler and store are one step of the event loop when the handler       *)
(* awaits nothing (only microtasks lie between them); reconcile and        *)
(* outbound/process await HCM, and other posts are served meanwhile.  The  *)
(* handler commits before the answer is stored, so a crash can separate    *)
(* the two.  Retries are posts of their own with the same key and payload. *)
(*                                                                         *)
(* Every execution has an answer of its own, named after the post that     *)
(* was executed.                                                           *)
(***************************************************************************)
EXTENDS Naturals

CONSTANTS
  Posts,        \* the posts clients send
  Headers,      \* idempotency keys
  NoKey,        \* the header is absent
  Payloads,     \* { url, body }
  Sent,         \* post -> [key, payload]
  Awaiting,     \* payloads whose handler awaits HCM
  Fingerprint,  \* payload -> its canonicalFingerprint
  Meaning,      \* payload -> what it asks for, the order of members aside
  MaxCrashes    \* bound on the number of crashes explored

ASSUME SentAssumption ==
  Sent \in [Posts -> [key : Headers \union {NoKey}, payload : Payloads]]
ASSUME NoKeyAssumption == NoKey \notin Headers
ASSUME AwaitingAssumption == Awaiting \subseteq Payloads
ASSUME IdempotencyCrashesAssumption == MaxCrashes \in Nat

VARIABLES
  records,    \* idempotency_records: key -> [fingerprint, response, expired]
  stage,      \* post -> new, running (its handler awaits) or done
  answer,     \* post -> what its client got
  executed,   \* history: posts whose handler completed
  forgotten,  \* history: keys whose record expired
  cut,        \* history: keys whose execution a crash kept from being stored
  crashes

ivars == <<records, stage, answer, executed, forgotten, cut, crashes>>

KeyOf(p) == Sent[p].key
PrintOf(p) == Fingerprint[Sent[p].payload]
MeaningOf(p) == Meaning[Sent[p].payload]
Awaits(p) == Sent[p].payload \in Awaiting

\* lost: the connection breaks when the process dies.
AnswerKinds == {"none", "ok", "conflict", "error", "lost"}

\* A row of idempotency_records; a response is named after its execution.
RecordRow == [fingerprint : {PrintOf(p) : p \in Posts}, response : Posts,
              expired : BOOLEAN]

----------------------------------------------------------------------------
(* IdempotencyService *)

\* A slip: the comparison with expires_at is turned round.
KeepsExpired ==
  [k \in {j \in DOMAIN records : records[j].expired} |-> records[k]]

\* cleanupExpired: DELETE ... WHERE expires_at <= now
Fresh == [k \in {j \in DOMAIN records : ~records[j].expired} |-> records[k]]

\* set: INSERT OR REPLACE, with a new expires_at
set(table, p) ==
  [k \in DOMAIN table \union {KeyOf(p)} |->
     IF k = KeyOf(p) THEN [fingerprint |-> PrintOf(p), response |-> p,
                           expired |-> FALSE]
                     ELSE table[k]]

\* What lookup (get cleans up first) and store leave behind; without the
\* header the interceptor does neither.
LookedUp(p) == IF KeyOf(p) = NoKey THEN records ELSE Fresh
Stored(table, p) == IF KeyOf(p) = NoKey THEN table ELSE set(table, p)

Found(p) == KeyOf(p) # NoKey /\ KeyOf(p) \in DOMAIN Fresh

\* A slip: the fingerprints are not compared.
AnyFingerprint(p) == TRUE

\* existing.fingerprint === fingerprint
SameFingerprint(p) == Fresh[KeyOf(p)].fingerprint = PrintOf(p)

----------------------------------------------------------------------------
IdemInit ==
  /\ records = [k \in {} |-> NoKey]
  /\ stage = [p \in Posts |-> "new"]
  /\ answer = [p \in Posts |-> [kind |-> "none", by |-> p]]
  /\ executed = {}
  /\ forgotten = {}
  /\ cut = {}
  /\ crashes = 0

Answer(p, kind, q) ==
  /\ stage' = [stage EXCEPT ![p] = "done"]
  /\ answer' = [answer EXCEPT ![p] = [kind |-> kind, by |-> q]]

\* return of(existing.responseBody)
Replay(p) ==
  /\ stage[p] = "new" /\ Found(p) /\ SameFingerprint(p)
  /\ Answer(p, "ok", Fresh[KeyOf(p)].response)
  /\ records' = Fresh
  /\ UNCHANGED <<executed, forgotten, cut, crashes>>

\* A slip: the error is built and not thrown.
ConflictNotThrown(p) ==
  /\ stage[p] = "new" /\ Found(p) /\ ~SameFingerprint(p)
  /\ answer' = [answer EXCEPT ![p] = [kind |-> "conflict", by |-> p]]
  /\ records' = Fresh
  /\ UNCHANGED <<stage, executed, forgotten, cut, crashes>>

\* IDEMPOTENCY_KEY_CONFLICT
Conflict(p) ==
  /\ stage[p] = "new" /\ Found(p) /\ ~SameFingerprint(p)
  /\ Answer(p, "conflict", p)
  /\ records' = Fresh
  /\ UNCHANGED <<executed, forgotten, cut, crashes>>

\* A slip: a key used for another payload is taken over.
AdmittedIfDifferent(p) == stage[p] = "new" /\ ~(Found(p) /\ SameFingerprint(p))

\* The interceptor calls next.handle().
Admitted(p) == stage[p] = "new" /\ ~Found(p)

\* A handler that awaits nothing runs and its answer is stored.
Execute(p) ==
  /\ Admitted(p)
  /\ ~Awaits(p)
  /\ executed' = executed \union {p}
  /\ records' = Stored(LookedUp(p), p)
  /\ Answer(p, "ok", p)
  /\ UNCHANGED <<forgotten, cut, crashes>>

\* A handler that awaits HCM is under way.
Begin(p) ==
  /\ Admitted(p)
  /\ Awaits(p)
  /\ stage' = [stage EXCEPT ![p] = "running"]
  /\ records' = LookedUp(p)
  /\ UNCHANGED <<answer, executed, forgotten, cut, crashes>>

\* Its promise resolves.  The key is not looked up again.
Finish(p) ==
  /\ stage[p] = "running"
  /\ executed' = executed \union {p}
  /\ records' = Stored(records, p)
  /\ Answer(p, "ok", p)
  /\ UNCHANGED <<forgotten, cut, crashes>>

\* The handler throws: tap sees no value, nothing is stored.
Throw(p) ==
  /\ \/ Admitted(p) /\ ~Awaits(p) /\ records' = LookedUp(p)
     \/ stage[p] = "running" /\ UNCHANGED records
  /\ Answer(p, "error", p)
  /\ UNCHANGED <<executed, forgotten, cut, crashes>>

\* The process dies: the posts in S and those that were running get no answer.
Die(S) ==
  LET gone == S \union {p \in Posts : stage[p] = "running"} IN
  /\ crashes < MaxCrashes
  /\ crashes' = crashes + 1
  /\ stage' = [p \in Posts |-> IF p \in gone THEN "done" ELSE stage[p]]
  /\ answer' = [p \in Posts |-> IF p \in gone THEN [kind |-> "lost", by |-> p]
                                              ELSE answer[p]]

\* While handlers await; some of them have done their work.
CrashRunning ==
  /\ \E p \in Posts : stage[p] = "running"
  /\ Die({})
  /\ \E S \in SUBSET {p \in Posts : stage[p] = "running"} :
       /\ executed' = executed \union S
       /\ cut' = cut \union {KeyOf(p) : p \in S}
  /\ UNCHANGED <<records, forgotten>>

\* Between the commit of a handler and idempotencyService.set.
CrashBeforeSet(p) ==
  /\ Admitted(p)
  /\ ~Awaits(p)
  /\ Die({p})
  /\ executed' = executed \union {p}
  /\ cut' = cut \union {KeyOf(p)}
  /\ records' = LookedUp(p)
  /\ UNCHANGED forgotten

\* IDEMPOTENCY_TTL_SEC have passed.
Expire(k) ==
  /\ k \in DOMAIN records
  /\ ~records[k].expired
  /\ records' = [records EXCEPT ![k].expired = TRUE]
  /\ forgotten' = forgotten \union {k}
  /\ UNCHANGED <<stage, answer, executed, cut, crashes>>

IdemNext ==
  \/ \E p \in Posts : \/ Replay(p) \/ Conflict(p) \/ Execute(p) \/ Begin(p)
                      \/ Finish(p) \/ Throw(p) \/ CrashBeforeSet(p)
  \/ CrashRunning
  \/ \E k \in Headers : Expire(k)

IdemSpec == IdemInit /\ [][IdemNext]_ivars

----------------------------------------------------------------------------
(* Properties *)

\* Types, and: a post is answered exactly when it is done.
IdemTypeOK ==
  /\ DOMAIN records \subseteq Headers
  /\ records \in [DOMAIN records -> RecordRow]
  /\ stage \in [Posts -> {"new", "running", "done"}]
  /\ answer \in [Posts -> [kind : AnswerKinds, by : Posts]]
  /\ executed \subseteq Posts
  /\ forgotten \subseteq Headers
  /\ cut \subseteq Headers \union {NoKey}
  /\ \A p \in Posts : answer[p].kind # "none" <=> stage[p] = "done"

\* A record is replayed to exactly the posts that mean what the executed one
\* meant, whatever the order of members at any depth: every other payload is
\* told apart from it.
RecordsRecognise ==
  \A k \in DOMAIN records, q \in Payloads :
    records[k].fingerprint = Fingerprint[q]
      <=> MeaningOf(records[k].response) = Meaning[q]

\* "Replays with same fingerprint return original response; mismatched payload
\* returns conflict" (docs/trd/05), measured by what the payloads mean: an
\* answer is that of an execution of the same request under the same key, and
\* a conflict is only ever reported for a key that served another request.
AnswerJustified ==
  \A p \in Posts :
    /\ answer[p].kind = "ok" =>
         LET q == answer[p].by IN
         /\ q \in executed
         /\ KeyOf(q) = KeyOf(p)
         /\ MeaningOf(q) = MeaningOf(p)
         /\ KeyOf(p) = NoKey => q = p
    /\ answer[p].kind = "conflict" =>
         \E q \in executed : KeyOf(q) = KeyOf(p) /\ MeaningOf(q) # MeaningOf(p)

\* No post under key k has a handler that awaits.
Immediate(k) == k # NoKey /\ \A p \in Posts : KeyOf(p) = k => ~Awaits(p)

\* As long as the record lives, all clients that use a key see one answer,
\* even if a crash made the service execute the request again.
AnswersAgree ==
  \A p, q \in Posts :
    (/\ answer[p].kind = "ok" /\ answer[q].kind = "ok"
     /\ KeyOf(p) = KeyOf(q)
     /\ Immediate(KeyOf(p))
     /\ KeyOf(p) \notin forgotten)
      => answer[p].by = answer[q].by

\* A request is executed once per key, whatever the clients repeat, reuse or
\* reorder: only expiry and a crash before the answer is stored excuse a
\* second execution.
ExecutedOnce ==
  \A p, q \in executed :
    (/\ KeyOf(p) = KeyOf(q)
     /\ Immediate(KeyOf(p))
     /\ KeyOf(p) \notin forgotten \union cut)
      => p = q

----------------------------------------------------------------------------
(* Why they hold *)

\* A record holds the answer and the fingerprint of an executed post.
RecordsTrue ==
  \A k \in DOMAIN records :
    LET q == records[k].response IN
    q \in executed /\ KeyOf(q) = k /\ records[k].fingerprint = PrintOf(q)

RunningAwaits == \A p \in Posts : stage[p] = "running" => Awaits(p)

ExpiredForgotten ==
  \A k \in DOMAIN records : records[k].expired => k \in forgotten

\* The record under key k would be replayed with the answer of q.
Serves(k, q) ==
  k \in DOMAIN records /\ ~records[k].expired /\ records[k].response = q

AnswersServed ==
  \A p \in Posts :
    (/\ answer[p].kind = "ok" /\ Immediate(KeyOf(p))
     /\ KeyOf(p) \notin forgotten)
      => Serves(KeyOf(p), answer[p].by)

ExecutionsServed ==
  \A p \in executed :
    (Immediate(KeyOf(p)) /\ KeyOf(p) \notin forgotten \union cut)
      => Serves(KeyOf(p), p)

\* Inductive, whatever the fingerprint; what payloads mean is not in it.
IdemInv ==
  /\ IdemTypeOK
  /\ RecordsTrue
  /\ RunningAwaits
  /\ ExpiredForgotten
  /\ AnswersServed
  /\ ExecutionsServed
=============================================================================
