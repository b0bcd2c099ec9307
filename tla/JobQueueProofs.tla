--------------------------- MODULE JobQueueProofs ---------------------------
(***************************************************************************)
(* Theorems about JobQueue, for any set of albums, any retry budget and    *)
(* any number of requests, with or without store faults.                   *)
(*                                                                         *)
(* Everything rests on one fact: a row that is there keeps its id, because *)
(* whoever writes a row holds that id (IdsKept).  The copies that requests *)
(* and the worker hold can be stale in every other respect.                *)
(***************************************************************************)
EXTENDS JobQueue, TLAPS

\* The initial copy and the absent row.
LEMMA NobodyFacts == Nobody \in Copy /\ NoRow \in Row /\ NoRow.id = 0
                     /\ NoRow.status = "none"
  <1>1. (CHOOSE a \in Albums : TRUE) \in Albums
    BY QueueAssumption
  <1> QED
    BY <1>1 DEF Nobody, NoRow, Copy, Row, Status

\* A copy that is read is of the row it was read from.
LEMMA CopyOfFacts ==
    ASSUME rows \in [Albums -> Row], NEW a \in Albums
    PROVE  /\ CopyOf(a) \in Copy
           /\ CopyOf(a).album = a /\ CopyOf(a).id = rows[a].id
           /\ CopyOf(a).attempts = rows[a].attempts
  BY DEF CopyOf, Copy, Row

\* What Store.Update changes.
LEMMA WriteFacts ==
    ASSUME rows \in [Albums -> Row], NEW copy \in Copy, NEW status \in Status,
           Write(copy, status)
    PROVE  /\ rows' \in [Albums -> Row]
           /\ copy.album \in Albums
           /\ rows'[copy.album].id = copy.id
           /\ rows'[copy.album].status = status
           /\ \A b \in Albums : b # copy.album => rows'[b] = rows[b]
  BY DEF Write, Copy, Row

\* A step of a request keeps the types.
LEMMA GoesFacts ==
    ASSUME calls \in SUBSET Call, NEW call \in calls,
           Goes(call, "refind")
    PROVE  /\ calls' \in SUBSET Call
           /\ \A k \in calls' :
                k \in calls \/ (k.step = "refind" /\ k.copy = call.copy)
  <1> DEFINE moved == [call EXCEPT !.step = "refind"]
  <1>1. moved \in Call /\ moved.step = "refind" /\ moved.copy = call.copy
    BY DEF Call
  <1>2. calls' = (calls \ {call}) \cup {moved}
    BY DEF Goes
  <1> HIDE DEF moved
  <1> QED
    BY <1>1, <1>2

-----------------------------------------------------------------------------
\* Every step keeps every variable in its type.
LEMMA TypeOKStep ==
    ASSUME TypeOK, [Next]_vars
    PROVE  TypeOK'
  <1> USE DEF TypeOK, table, clients, worker
  <1>0. \A s \in {"queued", "running", "publishing", "completed", "failed"} : s \in Status
    BY DEF Status
  <1>1. ASSUME NEW a \in Albums, Find(a) \/ Get(a) \/ GetCompleted(a)
        PROVE  TypeOK'
    <2>1. /\ CopyOf(a) \in Copy /\ rows[a].id \in Nat
          /\ \A n \in Nat : [album |-> a, id |-> n, attempts |-> 0] \in Copy
      BY CopyOfFacts DEF Copy, Row
    <2>2. \A n \in Nat, c \in Copy, s \in {"create", "enqueue", "retry", "skip"} :
            [n |-> n, step |-> s, copy |-> c] \in Call
      BY DEF Call
    <2>3. [album |-> a, id |-> rows[a].id] \in Answer
      BY <2>1 DEF Answer
    <2>4. requests + 1 \in Nat
      OBVIOUS
    <2>5. CASE Find(a)
      <3>1. CASE rows[a].status = "failed"
                 /\ calls' = calls \cup
                      {[n |-> requests', step |-> "enqueue", copy |-> CopyOf(a)]}
        BY <2>1, <2>2, <2>4, <2>5, <3>1 DEF Find, Say
      <3>2. CASE calls' = calls \cup
                {[n |-> requests', step |-> "create",
                  copy |-> [album |-> a, id |-> requests', attempts |-> 0]]}
        <4>1. requests' \in Nat
          BY <2>4, <2>5 DEF Find
        <4>2. [album |-> a, id |-> requests', attempts |-> 0] \in Copy
          BY <2>1, <4>1
        <4>3. calls' \in SUBSET Call
          BY <2>2, <3>2, <4>1, <4>2
        <4>4. answers' \in SUBSET Answer
          BY <2>3, <2>5 DEF Find, Say
        <4> QED
          BY <2>5, <4>1, <4>3, <4>4 DEF Find
      <3>3. CASE Say(a, rows[a].id) /\ UNCHANGED calls
        BY <2>3, <2>4, <2>5, <3>3 DEF Find, Say
      <3> QED
        BY <2>5, <3>1, <3>2, <3>3 DEF Find
    <2>6. CASE Get(a)
      BY <2>1, <2>2, <2>4, <2>6 DEF Get
    <2>7. CASE GetCompleted(a)
      BY <2>1, <2>2, <2>4, <2>7 DEF GetCompleted
    <2> QED
      BY <1>1, <2>5, <2>6, <2>7
  <1>2. ASSUME NEW call \in calls,
               Create(call) \/ Refind(call) \/ Requeue(call) \/ Retry(call)
                 \/ Skip(call)
        PROVE  TypeOK'
    <2>1. call.copy \in Copy /\ call.copy.album \in Albums /\ call.copy.id \in Nat
      BY DEF Call, Copy
    <2>2. rows[call.copy.album].id \in Nat
      BY <2>1 DEF Row
    <2>3. \A n \in Nat : [album |-> call.copy.album, id |-> n] \in Answer
      BY <2>1 DEF Answer
    <2>4. calls' \in SUBSET Call
      BY <1>2, GoesFacts DEF Create, Refind, Requeue, Retry, Skip
    <2>5. answers' \in SUBSET Answer
      BY <1>2, <2>1, <2>2, <2>3 DEF Create, Refind, Requeue, Retry, Skip, Say
    <2>6. rows' \in [Albums -> Row]
      BY <1>0, <1>2, <2>1, WriteFacts DEF Create, Refind, Requeue, Retry, Skip
    <2> QED
      BY <1>2, <2>4, <2>5, <2>6 DEF Create, Refind, Requeue, Retry, Skip
  <1>3. CASE Start \/ Tick \/ Leave \/ Work
    BY <1>3 DEF Start, Tick, Leave, Work, Steps
  <1>4. CASE ListPublishing
    <2>1. {CopyOf(a) : a \in {b \in Albums : rows[b].status = "publishing"}} \in SUBSET Copy
      BY CopyOfFacts
    <2> QED
      BY <1>4, <2>1 DEF ListPublishing, RecoveryGivesUp, RecoverNext, AfterRecovery, Steps
  <1>5. ASSUME NEW copy \in todo, RecoverJob(copy)
        PROVE  TypeOK'
    <2>1. rows' \in [Albums -> Row]
      BY <1>0, <1>5, WriteFacts DEF RecoverJob, Recovers
    <2>2. pc' \in Steps
      BY <1>5 DEF RecoverJob, Recovers, RecoverNext, AfterRecovery, Steps
    <2>3. job' \in Copy /\ todo' \in SUBSET Copy
      BY <1>5 DEF RecoverJob, Recovers
    <2> QED
      BY <1>5, <2>1, <2>2, <2>3 DEF RecoverJob
  <1>6. CASE RecoverRunning
    <2>1. rows' \in [Albums -> Row]
      BY <1>0, <1>6 DEF RecoverRunning, Row
    <2> QED
      BY <1>6, <2>1 DEF RecoverRunning, Steps
  <1>7. CASE Claim
    <2>1. rows' \in [Albums -> Row] /\ job' \in Copy
      BY <1>0, <1>7, CopyOfFacts DEF Claim, Row
    <2> QED
      BY <1>7, <2>1 DEF Claim, Steps
  <1>8. CASE Begin
    <2>1. [job EXCEPT !.attempts = @ + 1] \in Copy
      BY DEF Copy
    <2>2. rows' \in [Albums -> Row] /\ job' \in Copy
      BY <1>0, <1>8, <2>1, WriteFacts DEF Begin
    <2> QED
      BY <1>8, <2>2 DEF Begin, Steps
  <1>9. CASE Exhausted \/ Intent \/ Complete \/ FailJob \/ Hook \/ RecoverHook
    <2>1. rows' \in [Albums -> Row]
      BY <1>0, <1>9, WriteFacts
      DEF Exhausted, Intent, Complete, FailJob, Hook, RecoverHook, HookWrite, Update
    <2>2. job' \in Copy
      BY <1>9, NobodyFacts
      DEF Exhausted, Intent, Complete, FailJob, Hook, RecoverHook, HookWrite, Update
    <2>3. pc' \in Steps
      BY <1>9 DEF Exhausted, Intent, Complete, FailJob, Hook, RecoverHook, RecoverNext,
                  AfterRecovery, Update, Steps
    <2> QED
      BY <1>9, <2>1, <2>2, <2>3
      DEF Exhausted, Intent, Complete, FailJob, Hook, RecoverHook, HookWrite, Update
  <1>10. CASE ApplyFailure
    <2>1. \A n \in Nat : [job EXCEPT !.attempts = n] \in Copy
      BY DEF Copy
    <2>2. job.attempts \in Nat
      BY DEF Copy
    <2>3. rows' \in [Albums -> Row]
      BY <1>0, <1>10, <2>1, <2>2, WriteFacts DEF ApplyFailure
    <2> QED
      BY <1>10, <2>3, NobodyFacts DEF ApplyFailure, Steps
  <1>11. CASE Publish
    BY <1>11, NobodyFacts DEF Publish, Steps, Copy
  <1>12. CASE ProcessEnds \/ CalmDown
    BY <1>12, NobodyFacts DEF ProcessEnds, CalmDown, Steps
  <1>13. CASE UNCHANGED vars
    BY <1>13 DEF vars
  <1> QED
    BY <1>1, <1>2, <1>3, <1>4, <1>5, <1>6, <1>7, <1>8, <1>9, <1>10, <1>11, <1>12, <1>13
    DEF Next, Request, Answering, Worker

LEMMA InitTypeOK == Init => TypeOK
  <1> SUFFICES ASSUME Init
               PROVE  TypeOK
    OBVIOUS
  <1>1. rows \in [Albums -> Row]
    BY NobodyFacts DEF Init
  <1>2. job \in Copy /\ todo \in SUBSET Copy
    BY NobodyFacts DEF Init
  <1>3. calls \in SUBSET Call /\ answers \in SUBSET Answer /\ live \in SUBSET Albums
        /\ requests \in Nat
    BY DEF Init
  <1>4. pc \in Steps
    BY DEF Init, Steps
  <1>5. isolate \in BOOLEAN /\ calm \in BOOLEAN
    BY DEF Init
  <1> QED
    BY <1>1, <1>2, <1>3, <1>4, <1>5 DEF TypeOK

\* Every variable keeps its type: see TypeOK.
THEOREM TypeCorrect == Spec => []TypeOK
  <1>1. TypeOK /\ [Next]_vars => TypeOK'
    BY TypeOKStep
  <1> QED
    BY InitTypeOK, <1>1, PTL DEF Spec

-----------------------------------------------------------------------------
\* Rows keep their ids.

\* The rows after the step: types kept, ids kept, a row that is there has a
\* status.
IdsKept ==
    /\ \A a \in Albums : rows[a].id # 0 => rows'[a].id = rows[a].id
    /\ \A a \in Albums : rows'[a] = NoRow \/ (rows'[a].id # 0 /\ rows'[a].status # "none")

Filled == \A a \in Albums : rows[a] = NoRow \/ (rows[a].id # 0 /\ rows[a].status # "none")

\* Writing a copy that matches its row keeps the ids, ...
LEMMA WriteMatching ==
    ASSUME TypeOK, Filled, NEW copy \in Copy, Matches(copy),
           NEW status \in Status \ {"none"}, Write(copy, status)
    PROVE  IdsKept
  <1>1. /\ copy.album \in Albums
        /\ rows'[copy.album].id = copy.id /\ rows'[copy.album].status = status
        /\ \A b \in Albums : b # copy.album => rows'[b] = rows[b]
    BY WriteFacts DEF TypeOK
  <1> QED
    BY <1>1 DEF Filled, IdsKept, Matches

\* ... also a copy of which only the number of attempts was changed.
LEMMA AttemptsFacts ==
    ASSUME NEW copy \in Copy, NEW n \in Nat
    PROVE  LET c == [copy EXCEPT !.attempts = n] IN
           c \in Copy /\ c.album = copy.album /\ c.id = copy.id
  BY DEF Copy

\* If the ids are kept, whatever matches goes on to match.
LEMMA MatchesKept ==
    ASSUME IdsKept, NEW copy \in Copy, Matches(copy)
    PROVE  copy.id # 0 /\ copy.id = rows'[copy.album].id
  BY DEF IdsKept, Matches, Copy

\* The step of a request or of the worker keeps IdsInv if it keeps the ids
\* and every copy, call and answer that is new matches its row.
NewMatches ==
    /\ \A copy \in HeldCopies' :
        copy \in HeldCopies \/ (copy.id # 0 /\ copy.id = rows'[copy.album].id)
    /\ \A call \in calls' :
        \/ call \in calls
        \/ /\ call.step = "create" => call.copy.id # 0
           /\ call.step = "refind" => rows'[call.copy.album].id # 0
    /\ \A x \in answers' :
        x \in answers \/ (x.id # 0 /\ x.id = rows'[x.album].id)

LEMMA HeldAreCopies == TypeOK => HeldCopies \in SUBSET Copy
  BY DEF TypeOK, HeldCopies, Call

LEMMA IdsInvKept ==
    ASSUME TypeOK, IdsInv, IdsKept, NewMatches
    PROVE  IdsInv'
  <1>1. CopiesMatchRows'
    BY HeldAreCopies, MatchesKept DEF IdsInv, CopiesMatchRows, NewMatches, Matches
  <1>2. \A call \in calls :
          call.copy.album \in Albums
    BY DEF TypeOK, Call, Copy
  <1>3. \A call \in calls' :
          /\ call.step = "create" => call.copy.id # 0
          /\ call.step = "refind" => rows'[call.copy.album].id # 0
    BY <1>2 DEF IdsInv, IdsKept, NewMatches
  <1>4. \A x \in answers : x.album \in Albums
    BY DEF TypeOK, Answer
  <1>5. \A x \in answers' : x.id # 0 /\ x.id = rows'[x.album].id
    BY <1>4 DEF IdsInv, IdsKept, NewMatches
  <1>6. Filled'
    BY DEF IdsKept, Filled
  <1> QED
    BY <1>1, <1>3, <1>5, <1>6 DEF IdsInv, Filled

\* A step that leaves rows and answers alone and adds no copy.
LEMMA IdsInvStill ==
    ASSUME TypeOK, IdsInv, UNCHANGED <<rows, answers>>,
           HeldCopies' \subseteq HeldCopies, calls' \subseteq calls
    PROVE  IdsInv'
  BY DEF IdsInv, CopiesMatchRows, Matches

LEMMA IdsInvStep ==
    ASSUME TypeOK, IdsInv, [Next]_vars
    PROVE  IdsInv'
  <1>0. /\ \A s \in {"queued", "running", "publishing", "completed", "failed"} :
             s \in Status \ {"none"}
        /\ Filled
        /\ rows \in [Albums -> Row] /\ job \in Copy /\ todo \in SUBSET Copy
        /\ calls \in SUBSET Call
    BY DEF Status, IdsInv, Filled, TypeOK
  <1>1. ASSUME NEW a \in Albums, Find(a) \/ Get(a) \/ GetCompleted(a)
        PROVE  IdsInv'
    <2>1. /\ CopyOf(a).album = a /\ CopyOf(a).id = rows[a].id
          /\ requests + 1 # 0
          /\ rows' = rows /\ pc' = pc /\ todo' = todo /\ job' = job
          /\ rows[a] # NoRow => rows[a].id # 0
      BY <1>0, <1>1, CopyOfFacts DEF Find, Get, GetCompleted, TypeOK, table, worker, Filled
    <2>2. IdsKept
      BY <1>0, <2>1 DEF IdsKept, Filled
    <2>3. rows[a].status \in {"none", "failed"} \/ rows[a].status \notin {"none", "failed"}
      OBVIOUS
    <2>4. rows[a].status # "none" => rows[a] # NoRow
      BY NobodyFacts
    <2>5. CASE UNCHANGED answers /\ \E n \in Nat, s \in {"enqueue", "retry", "skip"} : \E c :
                 /\ c.id # 0 /\ c.id = rows[a].id /\ c.album = a
                 /\ calls' = calls \cup {[n |-> n, step |-> s, copy |-> c]}
      BY <2>1, <2>2, <2>5, IdsInvKept DEF NewMatches, HeldCopies
    <2>6. CASE UNCHANGED answers /\ \E n \in Nat : \E c :
                 /\ c.id # 0
                 /\ calls' = calls \cup {[n |-> n, step |-> "create", copy |-> c]}
      BY <2>1, <2>2, <2>6, IdsInvKept DEF NewMatches, HeldCopies
    <2>7. CASE UNCHANGED calls /\ rows[a].id # 0 /\ Say(a, rows[a].id)
      BY <2>1, <2>2, <2>7, IdsInvKept DEF NewMatches, HeldCopies, Say
    <2>8. requests' = requests + 1 /\ requests' \in Nat
      BY <1>1 DEF Find, Get, GetCompleted, TypeOK
    <2>9. CASE Find(a)
      <3>1. CASE rows[a].status = "failed" /\ UNCHANGED answers
                 /\ calls' = calls \cup
                      {[n |-> requests', step |-> "enqueue", copy |-> CopyOf(a)]}
        BY <2>1, <2>4, <2>5, <2>8, <3>1
      <3>2. CASE UNCHANGED answers /\ calls' = calls \cup
                {[n |-> requests', step |-> "create",
                  copy |-> [album |-> a, id |-> requests', attempts |-> 0]]}
        BY <2>1, <2>6, <2>8, <3>2
      <3>3. CASE rows[a].status \notin {"none", "failed"} /\ Say(a, rows[a].id)
                 /\ UNCHANGED calls
        BY <2>1, <2>4, <2>7, <3>3
      <3> QED
        BY <2>9, <3>1, <3>2, <3>3 DEF Find
    <2>10. CASE Get(a)
      BY <2>1, <2>4, <2>5, <2>8, <2>10 DEF Get
    <2>11. CASE GetCompleted(a)
      BY <2>1, <2>4, <2>5, <2>8, <2>11 DEF GetCompleted
    <2> QED
      BY <1>1, <2>9, <2>10, <2>11
  <1>2. ASSUME NEW call \in calls,
               Create(call) \/ Refind(call) \/ Requeue(call) \/ Retry(call)
                 \/ Skip(call)
        PROVE  IdsInv'
    <2>1. call.copy \in Copy /\ call.copy.album \in Albums
      BY DEF TypeOK, Call, Copy
    <2>2. pc' = pc /\ todo' = todo /\ job' = job
      BY <1>2 DEF Create, Refind, Requeue, Retry, Skip, worker
    <2>3. CASE UNCHANGED <<rows, answers>> /\ calls' = calls \ {call}
      BY <2>2, <2>3, IdsInvStill DEF HeldCopies
    <2>4. CASE /\ call.step \in {"enqueue", "retry", "skip"}
               /\ Write(call.copy, "queued") \/ Write(call.copy, "completed")
               /\ calls' = calls \ {call}
               /\ UNCHANGED answers \/ Say(call.copy.album, call.copy.id)
      <3>1. Matches(call.copy)
        BY <2>4 DEF IdsInv, CopiesMatchRows, HeldCopies
      <3>2. IdsKept
        BY <1>0, <2>1, <2>4, <3>1, WriteMatching
      <3>3. call.copy.id # 0 /\ call.copy.id = rows'[call.copy.album].id
        BY <2>1, <3>1, <3>2, MatchesKept
      <3>4. NewMatches
        BY <2>2, <2>4, <3>3 DEF NewMatches, HeldCopies, Say
      <3> QED
        BY <3>2, <3>4, IdsInvKept
    <2>5. CASE Create(call)
      <3>1. call.copy.id # 0
        BY <2>5 DEF Create, IdsInv
      <3>2. CASE /\ rows[call.copy.album] = NoRow
                 /\ Write(call.copy, "queued")
                 /\ Say(call.copy.album, call.copy.id)
                 /\ calls' = calls \ {call}
        <4>1. /\ rows'[call.copy.album].id = call.copy.id
              /\ rows'[call.copy.album].status = "queued"
              /\ \A b \in Albums : b # call.copy.album => rows'[b] = rows[b]
          BY <1>0, <2>1, <3>2, WriteFacts
        <4>2. IdsKept
          BY <1>0, <2>1, <3>1, <3>2, <4>1, NobodyFacts DEF IdsKept, Filled
        <4>3. NewMatches
          BY <2>2, <3>1, <3>2, <4>1 DEF NewMatches, HeldCopies, Say
        <4> QED
          BY <4>2, <4>3, IdsInvKept
      <3>3. CASE /\ rows[call.copy.album] # NoRow
                 /\ Goes(call, "refind")
                 /\ UNCHANGED <<rows, answers>>
        <4>1. rows'[call.copy.album].id # 0
          BY <1>0, <2>1, <3>3 DEF Filled
        <4>2. \A k \in calls' :
                k \in calls \/ (k.step = "refind" /\ k.copy = call.copy)
          BY <1>0, <3>3, GoesFacts
        <4>3. IdsKept
          BY <1>0, <3>3 DEF IdsKept, Filled
        <4>4. NewMatches
          BY <2>2, <3>3, <4>1, <4>2 DEF NewMatches, HeldCopies
        <4> QED
          BY <4>3, <4>4, IdsInvKept
      <3> QED
        BY <2>3, <2>5, <3>2, <3>3 DEF Create
    <2>6. CASE Refind(call)
      <3>1. rows[call.copy.album].id # 0 /\ rows' = rows /\ calls' \subseteq calls
        BY <2>6 DEF Refind, IdsInv, table
      <3>2. IdsKept
        BY <1>0, <3>1 DEF IdsKept, Filled
      <3>3. NewMatches
        BY <2>2, <2>6, <3>1 DEF Refind, NewMatches, HeldCopies, Say
      <3> QED
        BY <3>2, <3>3, IdsInvKept
    <2>7. CASE Requeue(call)
      BY <2>3, <2>4, <2>7 DEF Requeue
    <2>8. CASE Retry(call)
      BY <2>3, <2>4, <2>8 DEF Retry
    <2>9. CASE Skip(call)
      BY <2>3, <2>4, <2>9 DEF Skip
    <2> QED
      BY <1>2, <2>5, <2>6, <2>7, <2>8, <2>9
  <1>3. CASE Start \/ Tick \/ Leave \/ Work
    BY <1>3, IdsInvStill
    DEF Start, Tick, Leave, Work, table, clients, worker, HeldCopies, InRun
  <1>4. CASE ListPublishing
    <2>1. IdsKept /\ rows' = rows /\ calls' = calls /\ answers' = answers
          /\ pc' \notin InRun \cup {"recoverHook"}
      BY <1>0, <1>4 DEF ListPublishing, RecoveryGivesUp, RecoverNext, AfterRecovery, InRun, IdsKept, Filled, table, clients
    <2>2. CASE todo' = {CopyOf(a) : a \in {b \in Albums : rows[b].status = "publishing"}}
      <3>1. \A copy \in todo' : copy.id # 0 /\ copy.id = rows'[copy.album].id
        BY <1>0, <2>1, <2>2, CopyOfFacts, NobodyFacts DEF Filled
      <3> QED
        BY <2>1, <3>1, IdsInvKept DEF NewMatches, HeldCopies
    <2>3. CASE todo' = todo
      BY <2>1, <2>3, IdsInvStill DEF HeldCopies
    <2> QED
      BY <1>4, <2>2, <2>3 DEF ListPublishing
  <1>5. ASSUME NEW copy \in todo, RecoverJob(copy)
        PROVE  IdsInv'
    <2>1. copy \in Copy /\ Matches(copy)
      BY <1>0 DEF IdsInv, CopiesMatchRows, HeldCopies
    <2>2. /\ calls' = calls /\ answers' = answers /\ todo' \subseteq todo
          /\ pc' \notin InRun
          /\ pc' = "recoverHook" => job' = copy
      BY <1>5 DEF RecoverJob, Recovers, RecoverNext, AfterRecovery, clients, InRun
    <2>3. IdsKept
      BY <1>0, <1>5, <2>1, WriteMatching DEF RecoverJob, Recovers, IdsKept, Filled
    <2>4. NewMatches
      BY <2>2 DEF NewMatches, HeldCopies
    <2> QED
      BY <2>3, <2>4, IdsInvKept
  <1>6. CASE RecoverRunning
    <2>1. IdsKept
      BY <1>0, <1>6, NobodyFacts DEF RecoverRunning, IdsKept, Filled, Row
    <2>2. NewMatches
      BY <1>6 DEF RecoverRunning, NewMatches, HeldCopies, InRun, clients, worker
    <2> QED
      BY <2>1, <2>2, IdsInvKept
  <1>7. CASE Claim
    <2>1. calls' = calls /\ answers' = answers /\ todo' = todo
      BY <1>7 DEF Claim, clients
    <2>2. ASSUME NEW a \in Albums, rows[a].status = "queued", job' = CopyOf(a),
                 rows' = [rows EXCEPT ![a].status = "running"]
          PROVE  IdsInv'
      <3>1. /\ rows'[a].id = rows[a].id /\ rows'[a].status = "running"
            /\ \A b \in Albums : b # a => rows'[b] = rows[b]
            /\ rows[a].id # 0
        BY <1>0, <2>2, NobodyFacts DEF Row, Filled
      <3>2. IdsKept
        BY <1>0, <3>1 DEF IdsKept, Filled
      <3>3. job'.id # 0 /\ job'.id = rows'[job'.album].id
        BY <1>0, <2>2, <3>1, CopyOfFacts
      <3>4. NewMatches
        BY <2>1, <3>3 DEF NewMatches, HeldCopies
      <3> QED
        BY <3>2, <3>4, IdsInvKept
    <2>3. CASE UNCHANGED <<rows, job>> /\ pc' = "idle"
      BY <2>1, <2>3, IdsInvStill DEF HeldCopies, InRun
    <2> QED
      BY <1>7, <2>2, <2>3 DEF Claim
  <1>8. ASSUME Exhausted \/ Begin \/ Intent \/ Publish \/ Complete \/ Hook \/ RecoverHook
               \/ FailJob \/ ApplyFailure
        PROVE  IdsInv'
    <2>1. calls' = calls /\ answers' = answers /\ todo' = todo
      BY <1>8 DEF Exhausted, Begin, Intent, Publish, Complete, Hook, RecoverHook, FailJob,
                  ApplyFailure, clients, worker
    <2>2. Matches(job) /\ job.attempts \in Nat
      BY <1>0, <1>8
      DEF Exhausted, Begin, Intent, Publish, Complete, Hook, RecoverHook, FailJob,
          ApplyFailure, InRun, IdsInv, CopiesMatchRows, HeldCopies, Copy
    <2>3. \A n \in Nat : LET c == [job EXCEPT !.attempts = n] IN
            c \in Copy /\ Matches(c) /\ c.album = job.album /\ c.id = job.id
      BY <1>0, <2>2, AttemptsFacts DEF Matches
    <2>4. IdsKept
      <3>1. CASE UNCHANGED rows
        BY <1>0, <3>1 DEF IdsKept, Filled
      <3>2. CASE Begin
        BY <1>0, <2>2, <2>3, <3>1, <3>2, WriteMatching DEF Begin
      <3>3. CASE ApplyFailure
        BY <1>0, <2>2, <2>3, <3>1, <3>3, WriteMatching DEF ApplyFailure
      <3>4. CASE Exhausted \/ Intent \/ Complete \/ FailJob
        BY <1>0, <2>2, <3>1, <3>4, WriteMatching
        DEF Exhausted, Intent, Complete, FailJob, Update
      <3>5. CASE Hook \/ RecoverHook
        BY <1>0, <2>2, <3>1, <3>5, WriteMatching DEF Hook, RecoverHook, HookWrite
      <3> QED
        BY <1>8, <3>1, <3>2, <3>3, <3>4, <3>5 DEF Publish
    <2>5. pc' \in InRun \cup {"recoverHook"} => job'.id = job.id /\ job'.album = job.album
      <3>1. CASE job' = job \/ pc' = "idle"
        BY <3>1 DEF InRun
      <3>3. CASE RecoverHook \/ Hook
        <4>1. pc' \in {"idle", "claim", "requeueRunning", "recover"}
          BY <3>3 DEF RecoverHook, Hook, RecoverNext, AfterRecovery
        <4> QED
          BY <4>1 DEF InRun
      <3>2. CASE Begin
        <4> DEFINE n == job.attempts + 1
        <4>1. job' = job \/ job' = [job EXCEPT !.attempts = n]
          BY <3>2 DEF Begin
        <4>2. n \in Nat
          BY <2>2
        <4> HIDE DEF n
        <4>3. [job EXCEPT !.attempts = n].id = job.id
              /\ [job EXCEPT !.attempts = n].album = job.album
          BY <1>0, <4>2, AttemptsFacts
        <4> QED
          BY <4>1, <4>3
      <3> QED
        BY <1>8, <3>1, <3>2, <3>3
        DEF Exhausted, Intent, Publish, Complete, FailJob, ApplyFailure, Update, worker
    <2>6. pc' \in InRun \cup {"recoverHook"} => job'.id # 0 /\ job'.id = rows'[job'.album].id
      BY <1>0, <2>2, <2>4, <2>5, MatchesKept
    <2>7. NewMatches
      BY <2>1, <2>6 DEF NewMatches, HeldCopies
    <2> QED
      BY <2>4, <2>7, IdsInvKept
  <1>9. CASE ProcessEnds \/ CalmDown
    BY <1>9, IdsInvStill DEF ProcessEnds, CalmDown, table, clients, worker, HeldCopies, InRun
  <1>10. CASE UNCHANGED vars
    BY <1>10, IdsInvStill DEF vars, table, clients, worker, HeldCopies
  <1> QED
    BY <1>1, <1>2, <1>3, <1>4, <1>5, <1>6, <1>7, <1>8, <1>9, <1>10
    DEF Next, Request, Answering, Worker

LEMMA InitIdsInv == Init => IdsInv
  <1> SUFFICES ASSUME Init
               PROVE  IdsInv
    OBVIOUS
  <1>1. /\ \A a \in Albums : rows[a] = NoRow
        /\ calls = {} /\ answers = {} /\ todo = {} /\ pc = "down"
    BY DEF Init
  <1>2. HeldCopies = {}
    BY <1>1 DEF HeldCopies, InRun
  <1> QED
    BY <1>1, <1>2 DEF IdsInv, CopiesMatchRows

-----------------------------------------------------------------------------
\* Startup settles every publication.

\* Requests put a job in no other state than queued or completed.
LEMMA RequestsWrite ==
    ASSUME TypeOK, Request \/ Answering
    PROVE  /\ pc' = pc /\ todo' = todo /\ isolate' = isolate /\ job' = job
           /\ \A a \in Albums :
                rows'[a].status \in {rows[a].status, "queued", "completed"}
  <1>1. CASE Request
    BY <1>1 DEF Request, Find, Get, GetCompleted, table, worker
  <1>2. ASSUME NEW call \in calls,
               Create(call) \/ Refind(call) \/ Requeue(call) \/ Retry(call)
                 \/ Skip(call)
        PROVE  /\ pc' = pc /\ todo' = todo /\ isolate' = isolate /\ job' = job
               /\ \A a \in Albums :
                    rows'[a].status \in {rows[a].status, "queued", "completed"}
    <2>1. call.copy \in Copy
      BY DEF TypeOK, Call
    <2>2. rows' = rows \/ Write(call.copy, "queued") \/ Write(call.copy, "completed")
      BY <1>2 DEF Create, Refind, Requeue, Retry, Skip, table
    <2>3. \A a \in Albums :
            rows'[a].status \in {rows[a].status, "queued", "completed"}
      BY <2>1, <2>2, WriteFacts DEF TypeOK, Status
    <2> QED
      BY <1>2, <2>3 DEF Create, Refind, Requeue, Retry, Skip, worker
  <1> QED
    BY <1>1, <1>2 DEF Answering

LEMMA StartupInvStep ==
    ASSUME TypeOK, StartupInv, [Next]_vars
    PROVE  StartupInv'
  <1> USE DEF StartupInv, StartupSettlesPublications
  <1>1. CASE Request \/ Answering
    BY <1>1, RequestsWrite
  <1>2. CASE ListPublishing
    <2>1. rows' = rows /\ isolate' = isolate
      BY <1>2 DEF ListPublishing, table
    <2>2. CASE todo' = {CopyOf(a) : a \in {b \in Albums : rows[b].status = "publishing"}}
               /\ RecoverNext
      BY <2>1, <2>2, CopyOfFacts DEF RecoverNext, AfterRecovery, TypeOK
    <2>3. CASE pc' = RecoveryGivesUp
      BY <2>3 DEF RecoveryGivesUp
    <2> QED
      BY <1>2, <2>2, <2>3 DEF ListPublishing
  <1>3. ASSUME NEW copy \in todo, RecoverJob(copy)
        PROVE  StartupInv'
    <2>1. pc = "recover" /\ isolate' = isolate
      BY <1>3 DEF RecoverJob
    <2>2. CASE pc' = "exited"
      BY <2>2
    <2>3. CASE isolate
      BY <1>3, <2>1, <2>3 DEF RecoverJob, Recovers, RecoverNext, AfterRecovery
    <2>4. CASE ~isolate /\ Recovers(copy)
      <3>1. PICK status \in {"completed", "queued"} : Write(copy, status)
        BY <2>4 DEF Recovers
      <3>2. todo' = todo \ {copy}
        BY <2>4 DEF Recovers
      <3>3. /\ copy \in Copy /\ status \in Status /\ rows \in [Albums -> Row]
        BY DEF TypeOK, Status
      <3>4. /\ rows'[copy.album].status # "publishing"
            /\ \A b \in Albums : b # copy.album => rows'[b] = rows[b]
        BY <3>1, <3>3, WriteFacts
      <3>5. ASSUME NEW a \in Albums, rows'[a].status = "publishing"
            PROVE  \E c \in todo' : c.album = a
        <4>1. a # copy.album /\ rows[a].status = "publishing"
          BY <3>4, <3>5
        <4>2. PICK c \in todo : c.album = a
          BY <2>1, <2>4, <4>1
        <4> QED
          BY <3>2, <4>1, <4>2
      <3>6. \/ pc' = "recoverHook"
            \/ pc' = IF todo' = {} THEN "requeueRunning" ELSE "recover"
        BY <2>4 DEF Recovers, RecoverNext, AfterRecovery
      <3> QED
        BY <2>1, <2>4, <3>5, <3>6
    <2> QED
      BY <1>3, <2>2, <2>3, <2>4 DEF RecoverJob
  <1>6. CASE RecoverHook
    <2>1. /\ pc = "recoverHook" /\ todo' = todo /\ isolate' = isolate
          /\ pc' = IF todo' = {} THEN AfterRecovery ELSE "recover"
      BY <1>6 DEF RecoverHook, RecoverNext
    <2>2. \A a \in Albums : rows'[a].status \in {rows[a].status, "completed"}
      BY <1>6, WriteFacts DEF RecoverHook, HookWrite, TypeOK, Status
    <2> QED
      BY <2>1, <2>2 DEF AfterRecovery
  <1>4. CASE Start \/ Tick \/ Leave \/ RecoverRunning \/ Claim \/ Exhausted \/ Begin \/ Work
             \/ Intent \/ Publish \/ Complete \/ Hook \/ FailJob \/ ApplyFailure \/ ProcessEnds
    <2>1. pc' \notin {"recover", "recoverHook", "requeueRunning"}
      BY <1>4 DEF Start, Tick, Leave, RecoverRunning, Claim, Exhausted, Begin, Work, Intent,
                  Publish, Complete, Hook, FailJob, ApplyFailure, ProcessEnds, Update
    <2> QED
      BY <2>1
  <1>5. CASE CalmDown \/ UNCHANGED vars
    BY <1>5 DEF CalmDown, vars, table, worker
  <1> QED
    BY <1>1, <1>2, <1>3, <1>4, <1>5, <1>6 DEF Next, Worker

-----------------------------------------------------------------------------
\* The theorems.

\* The inductive invariant holds in every reachable state: see IInv.
THEOREM Invariance == Spec => []IInv
  <1>1. Init => IInv
    BY InitTypeOK, InitIdsInv DEF IInv, StartupInv, StartupSettlesPublications, Init
  <1>2. IInv /\ [Next]_vars => IInv'
    BY TypeOKStep, IdsInvStep, StartupInvStep DEF IInv
  <1> QED
    BY <1>1, <1>2, PTL DEF Spec

\* It also holds from where module Publication starts: one job has just been
\* enqueued and the process is down.
THEOREM InvarianceFromEnqueued ==
    ASSUME NEW a \in Albums
    PROVE  Enqueued(a) /\ [][Next]_vars => []IInv
  <1>1. Enqueued(a) => IInv
    <2> SUFFICES ASSUME Enqueued(a)
                 PROVE  IInv
      OBVIOUS
    <2>1. TypeOK
      <3>1. [id |-> 1, status |-> "queued", attempts |-> 0] \in Row
        BY DEF Row, Status
      <3>2. rows \in [Albums -> Row]
        BY <3>1, NobodyFacts DEF Enqueued
      <3>3. [album |-> a, id |-> 1] \in Answer
        BY DEF Answer
      <3>4. calls \in SUBSET Call /\ answers \in SUBSET Answer /\ live \in SUBSET Albums
            /\ requests \in Nat
        BY <3>3 DEF Enqueued
      <3>5. job \in Copy /\ todo \in SUBSET Copy /\ pc \in Steps
        BY NobodyFacts DEF Enqueued, Steps
      <3>6. isolate \in BOOLEAN /\ calm \in BOOLEAN
        BY DEF Enqueued
      <3> QED
        BY <3>2, <3>4, <3>5, <3>6 DEF TypeOK
    <2>2. IdsInv
      <3>1. HeldCopies = {}
        BY DEF Enqueued, HeldCopies, InRun
      <3>2. \A b \in Albums : rows[b] = IF b = a
                THEN [id |-> 1, status |-> "queued", attempts |-> 0] ELSE NoRow
        BY DEF Enqueued
      <3>3. rows[a].id = 1 /\ rows[a].status = "queued"
        BY <3>2
      <3>4. \A b \in Albums : rows[b] = NoRow \/ b = a
        BY <3>2
      <3>5. calls = {} /\ answers = {[album |-> a, id |-> 1]}
        BY DEF Enqueued
      <3> QED
        BY <3>1, <3>3, <3>4, <3>5 DEF IdsInv, CopiesMatchRows
    <2>3. StartupInv
      BY DEF Enqueued, StartupInv, StartupSettlesPublications
    <2> QED
      BY <2>1, <2>2, <2>3 DEF IInv
  <1>2. IInv /\ [Next]_vars => IInv'
    BY TypeOKStep, IdsInvStep, StartupInvStep DEF IInv
  <1> QED
    BY <1>1, <1>2, PTL

\* Racing requests for an album all answer with the job of its row: the UNIQUE
\* index and the second look after ErrConflict in Enqueue.
THEOREM OneJob == Spec => []OneJobPerAlbum
  <1>1. IInv => OneJobPerAlbum
    BY DEF IInv, IdsInv, OneJobPerAlbum
  <1> QED
    BY <1>1, Invariance, PTL

\* A stale copy that Store.Update writes back belongs to the row it overwrites.
THEOREM CopiesMatch == Spec => []CopiesMatchRows
  <1>1. IInv => CopiesMatchRows
    BY DEF IInv, IdsInv
  <1> QED
    BY <1>1, Invariance, PTL

\* recoverPublications at startup lets the worker go on only when no job is
\* publishing, whatever requests do in the meantime.
THEOREM StartupSettles == Spec => []StartupSettlesPublications
  <1>1. IInv => StartupSettlesPublications
    BY DEF IInv, StartupInv
  <1> QED
    BY <1>1, Invariance, PTL

-----------------------------------------------------------------------------
\* Without store faults no job stays running.

LEMMA RunningInvStep ==
    ASSUME DbFaults = FALSE, TypeOK, RunningInv, [Next]_vars
    PROVE  RunningInv'
  <1> USE DEF RunningInv
  <1>0. /\ ~DbFails
        /\ rows \in [Albums -> Row] /\ job \in Copy /\ todo \in SUBSET Copy
        /\ \A s \in {"queued", "running", "publishing", "completed", "failed"} : s \in Status
        /\ job.album \in Albums
    BY DEF DbFails, TypeOK, Status, Copy
  <1>1. CASE Request \/ Answering
    <2>1. /\ pc' = pc /\ isolate' = isolate /\ job' = job
          /\ \A a \in Albums : rows'[a].status = "running" => rows[a].status = "running"
      BY <1>1, RequestsWrite
    <2> QED
      BY <1>0, <2>1
  <1>2. CASE Start \/ Tick \/ Leave \/ ListPublishing
    BY <1>0, <1>2 DEF Start, Tick, Leave, ListPublishing, RecoverNext, AfterRecovery, table,
                      worker, InRun
  <1>3. ASSUME NEW copy \in todo, RecoverJob(copy)
        PROVE  RunningInv'
    <2>1. PICK status \in {"completed", "queued", "failed"} :
            rows' = rows \/ Write(copy, status)
      BY <1>3 DEF RecoverJob, Recovers
    <2>2. copy \in Copy /\ status \in Status /\ status # "running"
      BY <1>0
    <2>3. \A a \in Albums : rows'[a].status = "running" => rows[a].status = "running"
      BY <1>0, <2>1, <2>2, WriteFacts
    <2>4. /\ pc = "recover" /\ isolate' = isolate
          /\ \/ pc' \in {"recover", "recoverHook", "exited"}
             \/ pc' = IF isolate THEN "claim" ELSE "requeueRunning"
      BY <1>3 DEF RecoverJob, Recovers, RecoverNext, AfterRecovery
    <2> QED
      BY <2>3, <2>4 DEF InRun
  <1>12. CASE RecoverHook
    <2>1. \A a \in Albums : rows'[a].status = "running" => rows[a].status = "running"
      BY <1>0, <1>12, WriteFacts DEF RecoverHook, HookWrite
    <2>2. /\ pc = "recoverHook" /\ isolate' = isolate
          /\ pc' \in {"recover", IF isolate THEN "claim" ELSE "requeueRunning"}
      BY <1>12 DEF RecoverHook, RecoverNext, AfterRecovery
    <2> QED
      BY <2>1, <2>2 DEF InRun
  <1>4. CASE RecoverRunning
    <2>1. rows' = [a \in Albums |->
                    IF rows[a].status = "running"
                    THEN [rows[a] EXCEPT !.status = "queued"] ELSE rows[a]]
          /\ pc' = "idle"
      BY <1>0, <1>4 DEF RecoverRunning
    <2>2. \A a \in Albums : rows'[a].status # "running"
      BY <1>0, <2>1 DEF Row
    <2> QED
      BY <2>1, <2>2
  <1>5. CASE Claim
    <2>1. \A a \in Albums : rows[a].status # "running"
      BY <1>5 DEF Claim, InRun
    <2>2. ASSUME NEW a \in Albums, job' = CopyOf(a), pc' \in {"exhausted", "begin"},
                 rows' = [rows EXCEPT ![a].status = "running"]
          PROVE  RunningInv'
      <3>1. job'.album = a /\ \A b \in Albums : b # a => rows'[b] = rows[b]
        BY <1>0, <2>2, CopyOfFacts
      <3> QED
        BY <2>1, <2>2, <3>1 DEF InRun
    <2>3. CASE UNCHANGED <<rows, job>> /\ pc' = "idle"
      BY <2>1, <2>3
    <2> QED
      BY <1>5, <2>2, <2>3 DEF Claim
  <1>6. CASE Work
    BY <1>6 DEF Work, table, worker, InRun
  <1>7. CASE Begin
    <2> DEFINE begun == [job EXCEPT !.attempts = job.attempts + 1]
    <2>1. begun \in Copy /\ begun.album = job.album
      BY <1>0, AttemptsFacts DEF Copy
    <2>2. Write(begun, "running") /\ job' = begun /\ pc' = "work" /\ pc \in InRun
      BY <1>0, <1>7 DEF Begin, InRun
    <2> HIDE DEF begun
    <2>3. \A b \in Albums : b # job.album => rows'[b] = rows[b]
      BY <1>0, <2>1, <2>2, WriteFacts
    <2>4. pc = "begin"
      BY <1>7 DEF Begin
    <2> QED
      BY <2>1, <2>2, <2>3, <2>4 DEF InRun
  <1>13. CASE Hook
    <2>1. \A a \in Albums : rows'[a].status = "running" => rows[a].status = "running"
      BY <1>0, <1>13, WriteFacts DEF Hook, HookWrite
    <2>2. \A a \in Albums : rows[a].status # "running"
      BY <1>0, <1>13 DEF Hook
    <2> QED
      BY <1>13, <2>1, <2>2 DEF Hook
  <1>8. CASE Exhausted \/ Intent \/ Complete \/ FailJob \/ ApplyFailure
    <2>1. PICK c \in Copy, status \in {"queued", "publishing", "completed", "failed"} :
            c.album = job.album /\ Write(c, status)
      <3>1. CASE Exhausted \/ Intent \/ Complete \/ FailJob
        BY <1>0, <3>1 DEF Exhausted, Intent, Complete, FailJob, Update
      <3>2. CASE ApplyFailure
        <4> DEFINE n == IF job.attempts < 1 THEN 1 ELSE job.attempts
        <4>1. n \in Nat
          BY <1>0 DEF Copy
        <4>2. Write([job EXCEPT !.attempts = n], IF n < MaxAttempts THEN "queued" ELSE "failed")
          BY <1>0, <3>2 DEF ApplyFailure
        <4> HIDE DEF n
        <4>3. [job EXCEPT !.attempts = n] \in Copy
              /\ [job EXCEPT !.attempts = n].album = job.album
          BY <1>0, <4>1, AttemptsFacts
        <4> QED
          BY <4>2, <4>3
      <3> QED
        BY <1>8, <3>1, <3>2
    <2>2. /\ rows'[job.album].status # "running"
          /\ \A b \in Albums : b # job.album => rows'[b] = rows[b]
      BY <1>0, <2>1, WriteFacts
    <2>3. /\ pc \notin {"down", "exited", "requeueRunning", "list", "recover", "recoverHook"}
          /\ job' = job \/ pc' = "idle"
      BY <1>8 DEF Exhausted, Intent, Complete, FailJob, ApplyFailure, Update, InRun, worker
    <2>4. \A a \in Albums : rows'[a].status # "running"
      BY <1>0, <2>2, <2>3
    <2> QED
      BY <1>0, <2>3, <2>4
  <1>9. CASE Publish
    BY <1>9 DEF Publish, InRun, worker
  <1>10. CASE ProcessEnds
    BY <1>10 DEF ProcessEnds, table
  <1>11. CASE CalmDown \/ UNCHANGED vars
    BY <1>11 DEF CalmDown, vars, table, worker
  <1> QED
    BY <1>1, <1>2, <1>3, <1>4, <1>5, <1>6, <1>7, <1>8, <1>9, <1>10, <1>11, <1>12, <1>13
    DEF Next, Worker

\* While the store answers, a tick of the worker leaves no job running that
\* only a restart would requeue, however requests interleave.
THEOREM NoOrphan ==
    ASSUME DbFaults = FALSE
    PROVE  Spec => []NoOrphanRunning
  <1>1. Init => RunningInv
    <2> SUFFICES ASSUME Init
                 PROVE  RunningInv
      OBVIOUS
    <2>1. \A a \in Albums : rows[a].status = "none"
      BY NobodyFacts DEF Init
    <2> QED
      BY <2>1 DEF Init, RunningInv
  <1>2. TypeOK /\ RunningInv /\ [Next]_vars => RunningInv'
    BY RunningInvStep
  <1>3. RunningInv => NoOrphanRunning
    BY DEF RunningInv, NoOrphanRunning, InRun
  <1> QED
    BY <1>1, <1>2, <1>3, TypeCorrect, PTL DEF Spec
=============================================================================
