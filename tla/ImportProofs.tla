---------------------------- MODULE ImportProofs ----------------------------
(***************************************************************************)
(* Theorems about Import, for any number of manual requests, any cooldown, *)
(* any delays and any settings.                                            *)
(*                                                                         *)
(* IInv is inductive whatever the delays are, and gives that an outcome in *)
(* the row is that of the latest claim.  Lease is inductive when an actor  *)
(* is done before its claim can expire, and gives that no two requests of  *)
(* one completion of the job are in flight and that none follows a success.*)
(* The whole-row writes of other copies reset the columns of the import    *)
(* (Resets), but then the job is not completed, and nobody can claim.      *)
(***************************************************************************)
EXTENDS Import, TLAPS

\* The operators that steps are written with.
LEMMA FreshFacts ==
    ASSUME NEW job \in JobStatus
    PROVE  /\ Fresh(job) \in Row
           /\ Fresh(job).job = job /\ Fresh(job).status = "none"
  BY CooldownAssumption, MaxLagAssumption DEF Fresh, Row, Status, MaxAge

LEMMA AtFacts ==
    ASSUME NEW step \in Steps, NEW s \in BOOLEAN
    PROVE  At(step, s) \in Actor /\ At(step, s).step = step
  BY MaxLagAssumption DEF At, Actor, Result

LEMMA HoldingFacts ==
    ASSUME act \in [Actors -> Actor], NEW a \in Actors,
           NEW step \in Steps, NEW n \in Nat, NEW r \in Result, NEW run \in Nat
    PROVE  LET x == Holding(step, a, n, r, run) IN
           /\ x \in Actor
           /\ x.step = step /\ x.claim = n /\ x.result = r /\ x.run = run
           /\ x.lag = act[a].lag
  BY DEF Holding, Actor

LEMMA BecomesFacts ==
    ASSUME act \in [Actors -> Actor], NEW a \in Actors, NEW x \in Actor,
           Becomes(a, x)
    PROVE  /\ act' \in [Actors -> Actor]
           /\ act'[a] = x
           /\ \A b \in Actors : b # a => act'[b] = act[b]
  BY DEF Becomes

\* Whoever is not one of the manual requests.
LEMMA ActorNames ==
    /\ "worker" \in Actors /\ "poller" \in Actors
    /\ \A m \in Manual : m \in Actors
  BY DEF Actors

LEMMA RestingFacts == Resting \in Actor /\ Resting.step = "idle"
  BY AtFacts DEF Resting, Steps

LEMMA WaitingFacts ==
    ASSUME TypeOK
    PROVE  Waiting \in Actor /\ Waiting.step = "waiting"
  <1>1. At("waiting", importing) \in Actor /\ At("waiting", importing).step = "waiting"
    BY AtFacts DEF TypeOK, Steps
  <1> QED
    BY <1>1 DEF TypeOK, Waiting, Actor

\* Initially nobody has claimed anything.
LEMMA InitFacts ==
    ASSUME Init
    PROVE  /\ act \in [Actors -> Actor]
           /\ \A a \in Actors : act[a].step = "idle"
  BY RestingFacts DEF Init

-----------------------------------------------------------------------------
\* Every step is of one of eight kinds, by what it does to the row and to the
\* actors that have a claim.

\* Nobody gets a claim; one that is given up is.
NoClaim ==
    /\ UNCHANGED <<claims, accepted>>
    /\ \A b \in Actors : act'[b].step \in {"send", "finish"} => act'[b] = act[b]

Quiet == NoClaim /\ UNCHANGED <<row, runs>>

\* The whole row is written, of a job that is not completed.
Resets ==
    /\ NoClaim /\ UNCHANGED runs
    /\ row'.status = "none" /\ row'.job # "completed"

Completes == NoClaim /\ row' = Fresh("completed") /\ runs' = runs + 1

Elsewhere(a) == \A b \in Actors : b # a => act'[b] = act[b]

Skips(a) ==
    /\ ~InFlight(a)
    /\ act'[a] = Resting /\ Elsewhere(a)
    /\ row'.job = "completed" /\ row'.status = "skipped"
    /\ UNCHANGED <<runs, claims, accepted>>

Claims(a) ==
    /\ act[a].step = "claim"
    /\ row.job = "completed" /\ MayClaim(act[a].lag)
    /\ claims' = claims + 1
    /\ act'[a] = Holding("send", a, claims', "failed", runs) /\ Elsewhere(a)
    /\ row' = [job |-> "completed", status |-> "requested", claim |-> claims',
               age |-> act[a].lag]
    /\ UNCHANGED <<runs, accepted>>

Sends(a) ==
    /\ act[a].step = "send"
    /\ Elsewhere(a)
    /\ \/ /\ act'[a] = Holding("finish", a, act[a].claim, "imported", act[a].run)
          /\ accepted' = accepted \cup {act[a].claim}
       \/ /\ act'[a] = Holding("finish", a, act[a].claim, "failed", act[a].run)
          /\ accepted' = accepted
    /\ UNCHANGED <<row, runs, claims>>

Finishes(a) ==
    /\ act[a].step = "finish"
    /\ act'[a] = Resting /\ Elsewhere(a)
    /\ row.status = "requested" /\ row.claim = act[a].claim
    /\ row'.status = act[a].result /\ row'.claim = row.claim /\ row'.job = row.job
    /\ UNCHANGED <<runs, claims, accepted>>

Kinds ==
    \/ Quiet \/ Resets \/ Completes
    \/ \E a \in Actors : Skips(a) \/ Claims(a) \/ Sends(a) \/ Finishes(a)
    \/ Tick

\* Who has claimed, and who has asked, as two cases of Holding.
LEMMA ClaimsFacts ==
    ASSUME TypeOK, NEW a \in Actors, Claims(a)
    PROVE  /\ act'[a].step = "send" /\ act'[a].claim = claims'
           /\ act'[a].lag = act[a].lag /\ act'[a].run = runs
  <1>1. claims' \in Nat /\ runs \in Nat /\ act \in [Actors -> Actor]
    BY DEF Claims, TypeOK
  <1>2. "send" \in Steps /\ "failed" \in Result
    BY DEF Steps, Result
  <1>3. act'[a] = Holding("send", a, claims', "failed", runs)
    BY DEF Claims
  <1> QED
    BY <1>1, <1>2, <1>3, HoldingFacts

LEMMA SendsFacts ==
    ASSUME TypeOK, NEW a \in Actors, Sends(a)
    PROVE  /\ act'[a].step = "finish" /\ act'[a].claim = act[a].claim
           /\ act'[a].lag = act[a].lag /\ act'[a].run = act[a].run
           /\ \/ act'[a].result = "imported" /\ accepted' = accepted \cup {act[a].claim}
              \/ act'[a].result = "failed" /\ accepted' = accepted
  <1>1. act[a].claim \in Nat /\ act[a].run \in Nat /\ act \in [Actors -> Actor]
    BY DEF TypeOK, Actor
  <1>2. "finish" \in Steps /\ "failed" \in Result /\ "imported" \in Result
    BY DEF Steps, Result
  <1>3. PICK r \in Result :
          /\ act'[a] = Holding("finish", a, act[a].claim, r, act[a].run)
          /\ \/ r = "imported" /\ accepted' = accepted \cup {act[a].claim}
             \/ r = "failed" /\ accepted' = accepted
    BY <1>2 DEF Sends
  <1>4. LET x == Holding("finish", a, act[a].claim, r, act[a].run) IN
        /\ x.step = "finish" /\ x.claim = act[a].claim /\ x.result = r
        /\ x.run = act[a].run /\ x.lag = act[a].lag
    BY <1>1, <1>2, HoldingFacts
  <1> QED
    BY <1>3, <1>4

\* A step that moves one actor to a step without a claim, and no more.
LEMMA QuietMove ==
    ASSUME act \in [Actors -> Actor], NEW a \in Actors, NEW x \in Actor,
           x.step \notin {"send", "finish"}, Becomes(a, x),
           UNCHANGED <<claims, accepted>>
    PROVE  act' \in [Actors -> Actor] /\ NoClaim
  BY BecomesFacts DEF NoClaim

LEMMA QuietAfter ==
    ASSUME act \in [Actors -> Actor], NEW a \in Actors, NEW s \in BOOLEAN,
           NEW found, AfterSplitComplete(a, s, found),
           UNCHANGED <<claims, accepted>>
    PROVE  act' \in [Actors -> Actor] /\ NoClaim
  <1>1. /\ At("claim", s) \in Actor /\ At("claim", s).step = "claim"
        /\ At("skip", s) \in Actor /\ At("skip", s).step = "skip"
    BY AtFacts DEF Steps
  <1>2. CASE s
    BY <1>1, <1>2, QuietMove DEF AfterSplitComplete
  <1>3. CASE ~s /\ found = "none"
    BY <1>1, <1>3, QuietMove DEF AfterSplitComplete
  <1>4. CASE ~s /\ found # "none"
    BY RestingFacts, <1>4, QuietMove DEF AfterSplitComplete
  <1> QED
    BY <1>2, <1>3, <1>4

\* The steps of any actor.
LEMMA StepKind ==
    ASSUME TypeOK, NEW a \in Actors, Step(a)
    PROVE  TypeOK' /\ Kinds
  <1> USE DEF TypeOK, jobvars, settings
  <1>0. act[a] \in Actor /\ act[a].claim \in Nat /\ act[a].lag \in 0 .. MaxLag
        /\ act[a].importing \in BOOLEAN /\ act[a].result \in Result
        /\ act[a].run \in Nat
    BY DEF Actor
  <1>1. CASE Get(a)
    <2>1. act' \in [Actors -> Actor] /\ NoClaim
      BY <1>0, <1>1, QuietAfter, QuietMove, RestingFacts DEF Get, Ends
    <2> QED
      BY <1>1, <2>1 DEF Get, Kinds, Quiet
  <1>2. CASE Skip(a)
    <2>1. /\ act' \in [Actors -> Actor]
          /\ act'[a] = Resting /\ Elsewhere(a)
      BY <1>2, BecomesFacts, RestingFacts DEF Skip, Ends, Elsewhere
    <2>2. CASE row' = row
      BY <1>2, <2>1, <2>2, QuietMove, RestingFacts DEF Skip, Ends, Kinds, Quiet
    <2>3. CASE row' = [Fresh("completed") EXCEPT !.status = "skipped"]
      <3>1. row' \in Row /\ row'.job = "completed" /\ row'.status = "skipped"
        BY <2>3, MaxLagAssumption, CooldownAssumption
        DEF Fresh, Row, JobStatus, Status, MaxAge
      <3>2. Skips(a)
        BY <1>2, <2>1, <3>1 DEF Skip, Skips, InFlight
      <3> QED
        BY <1>2, <2>1, <3>1, <3>2 DEF Skip, Kinds
    <2> QED
      BY <1>2, <2>2, <2>3 DEF Skip
  <1>3. CASE Claim(a)
    <2>1. CASE UNCHANGED <<row, claims>>
      <3>1. Ends(a) \/ claims' = claims + 1
        BY <1>3 DEF Claim
      <3>2. Ends(a)
        BY <2>1, <3>1
      <3> QED
        BY <1>3, <2>1, <3>2, QuietMove, RestingFacts DEF Claim, Ends, Kinds, Quiet
    <2>2. CASE /\ row.job = "completed" /\ MayClaim(act[a].lag)
               /\ claims' = claims + 1
               /\ row' = [job |-> "completed", status |-> "requested",
                          claim |-> claims', age |-> act[a].lag]
               /\ Becomes(a, Holding("send", a, claims', "failed", runs))
      <3>1. Holding("send", a, claims', "failed", runs) \in Actor
        BY <2>2, HoldingFacts DEF Steps, Result
      <3>2. /\ act' \in [Actors -> Actor]
            /\ act'[a] = Holding("send", a, claims', "failed", runs) /\ Elsewhere(a)
        BY <2>2, <3>1, BecomesFacts DEF Elsewhere
      <3>3. row' \in Row
        BY <1>0, <2>2, MaxLagAssumption, CooldownAssumption
        DEF Row, JobStatus, Status, MaxAge
      <3>4. Claims(a)
        BY <1>3, <2>2, <3>2 DEF Claim, Claims
      <3> QED
        BY <1>3, <2>2, <3>2, <3>3, <3>4 DEF Claim, Kinds
    <2> QED
      BY <1>3, <2>1, <2>2 DEF Claim
  <1>4. CASE Send(a)
    <2>1. /\ Holding("finish", a, act[a].claim, "imported", act[a].run) \in Actor
          /\ Holding("finish", a, act[a].claim, "failed", act[a].run) \in Actor
      BY <1>0, HoldingFacts DEF Steps, Result
    <2>2. CASE /\ accepted' = accepted \cup {act[a].claim}
               /\ Becomes(a, Holding("finish", a, act[a].claim, "imported", act[a].run))
      <3>1. /\ act' \in [Actors -> Actor]
            /\ act'[a] = Holding("finish", a, act[a].claim, "imported", act[a].run)
            /\ Elsewhere(a)
        BY <2>1, <2>2, BecomesFacts DEF Elsewhere
      <3>2. Sends(a)
        BY <1>4, <2>2, <3>1 DEF Send, Sends
      <3> QED
        BY <1>0, <1>4, <2>2, <3>1, <3>2 DEF Send, Kinds
    <2>3. CASE /\ accepted' = accepted
               /\ Becomes(a, Holding("finish", a, act[a].claim, "failed", act[a].run))
      <3>1. /\ act' \in [Actors -> Actor]
            /\ act'[a] = Holding("finish", a, act[a].claim, "failed", act[a].run)
            /\ Elsewhere(a)
        BY <2>1, <2>3, BecomesFacts DEF Elsewhere
      <3>2. Sends(a)
        BY <1>4, <2>3, <3>1 DEF Send, Sends
      <3> QED
        BY <1>4, <2>3, <3>1, <3>2 DEF Send, Kinds
    <2> QED
      BY <1>4, <2>2, <2>3 DEF Send
  <1>5. CASE FinishImport(a)
    <2>1. /\ act' \in [Actors -> Actor]
          /\ act'[a] = Resting /\ Elsewhere(a)
      BY <1>5, BecomesFacts, RestingFacts DEF FinishImport, Ends, Elsewhere
    <2>2. CASE row' = row
      BY <1>5, <2>1, <2>2, QuietMove, RestingFacts
      DEF FinishImport, Ends, Kinds, Quiet
    <2>3. CASE /\ row.status = "requested" /\ row.claim = act[a].claim
               /\ row' = [row EXCEPT !.status = act[a].result, !.age = 0]
      <3>1. /\ row' \in Row
            /\ row'.status = act[a].result /\ row'.claim = row.claim
            /\ row'.job = row.job
        <4>1. row' = [job |-> row.job, status |-> act[a].result,
                      claim |-> row.claim, age |-> 0]
          BY <2>3 DEF Row
        <4> QED
          BY <1>0, <4>1, MaxLagAssumption, CooldownAssumption
          DEF Row, Status, Result, MaxAge
      <3>2. Finishes(a)
        BY <1>5, <2>1, <2>3, <3>1 DEF FinishImport, Finishes
      <3> QED
        BY <1>5, <2>1, <3>1, <3>2 DEF FinishImport, Kinds
    <2> QED
      BY <1>5, <2>2, <2>3 DEF FinishImport
  <1> QED
    BY <1>1, <1>2, <1>3, <1>4, <1>5 DEF Step

\* A run of the job: the worker has no claim, and writes the whole row.
LEMMA RunKind ==
    ASSUME TypeOK, JobInv, Run
    PROVE  TypeOK' /\ Kinds
  <1> USE ActorNames DEF TypeOK, jobvars, settings
  <1>1. \A step \in {"idle", "run", "hook"} :
          At(step, FALSE) \in Actor /\ At(step, FALSE).step = step
    BY AtFacts DEF Steps
  <1>2. CASE TakeUp
    <2>1. act' \in [Actors -> Actor] /\ NoClaim
      BY <1>1, <1>2, QuietMove DEF TakeUp, Worker
    <2>2. CASE row' = row
      BY <1>2, <2>1, <2>2 DEF TakeUp, Kinds, Quiet
    <2>3. CASE row.job = "queued" /\ row' = [row EXCEPT !.job = "running"]
      <3>1. row' \in Row /\ row'.status = row.status /\ row'.job = "running"
        BY <2>3 DEF Row, JobStatus
      <3>2. row.status = "none"
        BY <2>3 DEF JobInv
      <3> QED
        BY <1>2, <2>1, <3>1, <3>2 DEF TakeUp, Kinds, Resets
    <2> QED
      BY <1>2, <2>2, <2>3 DEF TakeUp
  <1>3. CASE Working
    <2>1. act' \in [Actors -> Actor] /\ NoClaim
      BY <1>1, <1>3, QuietMove DEF Working, Worker
    <2>2. row' \in Row /\ row'.status = "none" /\ row'.job # "completed"
      BY <1>3, FreshFacts DEF Working, JobStatus
    <2> QED
      BY <1>3, <2>1, <2>2 DEF Working, Kinds, Resets
  <1>4. CASE GiveUp
    <2>1. act' \in [Actors -> Actor] /\ NoClaim
      BY <1>1, <1>4, QuietMove DEF GiveUp, Worker
    <2>2. CASE row' = row
      BY <1>4, <2>1, <2>2 DEF GiveUp, Kinds, Quiet
    <2>3. CASE row' \in {Fresh("queued"), Fresh("failed")}
      <3>1. row' \in Row /\ row'.status = "none" /\ row'.job # "completed"
        BY <2>3, FreshFacts DEF JobStatus
      <3> QED
        BY <1>4, <2>1, <3>1 DEF GiveUp, Kinds, Resets
    <2> QED
      BY <1>4, <2>2, <2>3 DEF GiveUp
  <1>5. CASE Complete
    <2>1. act' \in [Actors -> Actor] /\ NoClaim
      BY <1>1, <1>5, QuietMove DEF Complete, Worker
    <2>2. row' \in Row
      BY <1>5, FreshFacts DEF Complete, JobStatus
    <2> QED
      BY <1>5, <2>1, <2>2 DEF Complete, Kinds, Completes
  <1> QED
    BY <1>2, <1>3, <1>4, <1>5 DEF Run

\* Every step of the module keeps the types and is of one of the eight kinds.
LEMMA NextKind ==
    ASSUME TypeOK, JobInv, [Next]_vars
    PROVE  TypeOK' /\ Kinds
  <1> USE ActorNames DEF TypeOK, jobvars, settings
  <1>1. ASSUME NEW a \in Actors
        PROVE  act[a] \in Actor /\ act[a].importing \in BOOLEAN
    BY <1>1 DEF Actor
  <1>2. CASE Hook
    <2>1. act' \in [Actors -> Actor] /\ NoClaim
      BY <1>2, QuietAfter DEF Hook
    <2> QED
      BY <1>2, <2>1 DEF Hook, Kinds, Quiet
  <1>3. CASE Poller
    <2>1. \A s \in BOOLEAN :
            /\ At("list", s) \in Actor /\ At("list", s).step = "list"
            /\ At("get", s) \in Actor /\ At("get", s).step = "get"
      BY AtFacts DEF Steps
    <2>2. CASE Wait
      <3>1. act' \in [Actors -> Actor] /\ NoClaim
        BY WaitingFacts, <2>2, QuietMove DEF Wait
      <3> QED
        BY <2>2, <3>1 DEF Wait, Kinds, Quiet
    <2>3. CASE WaitAgain
      <3>1. act' \in [Actors -> Actor] /\ NoClaim
        BY WaitingFacts, <2>3, QuietMove DEF WaitAgain
      <3> QED
        BY <2>3, <3>1 DEF WaitAgain, Kinds, Quiet
    <2>4. CASE Poll
      <3>1. act' \in [Actors -> Actor] /\ NoClaim
        BY <1>1, <2>1, <2>4, QuietMove DEF Poll
      <3> QED
        BY <2>4, <3>1 DEF Poll, Kinds, Quiet
    <2>5. CASE List
      <3>1. act' \in [Actors -> Actor] /\ NoClaim
        BY <1>1, <2>1, <2>5, QuietMove, RestingFacts DEF List, Ends
      <3> QED
        BY <2>5, <3>1 DEF List, Kinds, Quiet
    <2>6. CASE Step("poller")
      BY <2>6, StepKind
    <2> QED
      BY <1>3, <2>2, <2>3, <2>4, <2>5, <2>6 DEF Poller
  <1>4. ASSUME NEW m \in Manual, Request(m)
        PROVE  TypeOK' /\ Kinds
    <2>1. At("get", importing) \in Actor /\ At("get", importing).step = "get"
      BY AtFacts DEF Steps
    <2>2. act' \in [Actors -> Actor] /\ NoClaim
      BY <1>4, <2>1, QuietMove DEF Request
    <2> QED
      BY <1>4, <2>2 DEF Request, Kinds, Quiet
  <1>5. CASE ChangeSettings
    <2>1. polling' \in BOOLEAN
      BY <1>5, PollsAssumption DEF ChangeSettings
    <2> QED
      BY <1>5, <2>1 DEF ChangeSettings, Kinds, Quiet, NoClaim
  <1>6. CASE Tick
    <2>1. row' \in Row
      BY <1>6, MaxLagAssumption, CooldownAssumption DEF Tick, Row, MaxAge
    <2>2. ASSUME NEW a \in Actors, Timed(a)
          PROVE  [act[a] EXCEPT !.lag = @ + 1] \in Actor
      BY <1>1, <1>6, <2>2, MaxLagAssumption DEF Tick, Actor
    <2>3. act' \in [Actors -> Actor]
      BY <1>1, <1>6, <2>2 DEF Tick
    <2> QED
      BY <1>6, <2>1, <2>3 DEF Tick, Kinds
  <1>7. CASE Restart
    <2>1. act' \in [Actors -> Actor] /\ NoClaim
      BY <1>7, RestingFacts DEF Restart, NoClaim
    <2>2. CASE row.job = "running"
      <3>1. row' \in Row /\ row'.status = row.status /\ row'.job = "queued"
        BY <1>7, <2>2 DEF Restart, Row, JobStatus
      <3>2. row.status = "none"
        BY <2>2 DEF JobInv
      <3> QED
        BY <1>7, <2>1, <3>1, <3>2 DEF Restart, Kinds, Resets
    <2>3. CASE row.job # "running"
      BY <1>7, <2>1, <2>3 DEF Restart, Kinds, Quiet
    <2> QED
      BY <2>2, <2>3
  <1>8. CASE CalmDown
    BY <1>8 DEF CalmDown, Kinds, Quiet, NoClaim
  <1>9. CASE ReadFailed
    BY <1>9 DEF ReadFailed, Kinds, Quiet, NoClaim
  <1>10. CASE WriteQueued
    <2>1. CASE row' = row
      BY <1>10, <2>1 DEF WriteQueued, Kinds, Quiet, NoClaim
    <2>2. CASE row' = Fresh("queued")
      <3>1. row' \in Row /\ row'.status = "none" /\ row'.job = "queued"
        BY <2>2, FreshFacts DEF JobStatus
      <3> QED
        BY <1>10, <3>1 DEF WriteQueued, Kinds, Resets, NoClaim
    <2> QED
      BY <1>10, <2>1, <2>2 DEF WriteQueued
  <1>11. CASE UNCHANGED vars
    BY <1>11 DEF vars, Kinds, Quiet, NoClaim
  <1> QED
    BY <1>2, <1>3, <1>4, <1>5, <1>6, <1>7, <1>8, <1>9, <1>10, <1>11, StepKind, RunKind
    DEF Next

\* What a tick leaves alone, and what it makes older.
LEMMA TickFacts ==
    ASSUME TypeOK, Tick
    PROVE  /\ UNCHANGED <<runs, claims, accepted>>
           /\ row'.job = row.job /\ row'.status = row.status /\ row'.claim = row.claim
           /\ row.status = "requested" /\ row.age < MaxAge => row'.age = row.age + 1
           /\ \A b \in Actors :
                /\ act'[b].step = act[b].step /\ act'[b].claim = act[b].claim
                /\ act'[b].result = act[b].result /\ act'[b].run = act[b].run
                /\ InFlight(b) => act[b].lag < MaxLag /\ act'[b].lag = act[b].lag + 1
  <1>1. /\ UNCHANGED <<runs, claims, accepted>>
        /\ row'.job = row.job /\ row'.status = row.status /\ row'.claim = row.claim
        /\ row.status = "requested" /\ row.age < MaxAge => row'.age = row.age + 1
    BY DEF Tick, jobvars, TypeOK, Row
  <1>2. \A b \in Actors :
          /\ act'[b].step = act[b].step /\ act'[b].claim = act[b].claim
          /\ act'[b].result = act[b].result /\ act'[b].run = act[b].run
          /\ InFlight(b) => act[b].lag < MaxLag /\ act'[b].lag = act[b].lag + 1
    BY DEF Tick, TypeOK, Actor, Timed, InFlight
  <1> QED
    BY <1>1, <1>2

\* Only a completed job has anything in its import columns.
LEMMA JobInvStep ==
    ASSUME TypeOK, JobInv, [Next]_vars
    PROVE  JobInv'
  <1> USE DEF JobInv
  <1>1. Kinds
    BY NextKind
  <1>2. CASE Quiet \/ Resets \/ Completes
    BY <1>2, FreshFacts DEF Quiet, Resets, Completes, JobStatus
  <1>3. ASSUME NEW a \in Actors, Skips(a) \/ Claims(a) \/ Sends(a) \/ Finishes(a)
        PROVE  JobInv'
    BY <1>3 DEF Skips, Claims, Sends, Finishes
  <1>4. CASE Tick
    BY <1>4, TickFacts
  <1> QED
    BY <1>1, <1>2, <1>3, <1>4 DEF Kinds

\* The types, from the start.
LEMMA InitTypeOK == Init => TypeOK /\ JobInv
  <1> SUFFICES ASSUME Init PROVE TypeOK /\ JobInv
    OBVIOUS
  <1>1. row \in Row /\ row.status = "none"
    BY FreshFacts DEF Init, JobStatus
  <1>2. /\ accepted \in SUBSET Nat /\ claims \in Nat
        /\ stale \in Nat /\ requeues \in Nat /\ runs \in Nat
    BY DEF Init
  <1>3. importing \in BOOLEAN /\ polling \in BOOLEAN /\ calm \in BOOLEAN
    BY PollsAssumption DEF Init
  <1> QED
    BY <1>1, <1>2, <1>3, InitFacts DEF TypeOK, JobInv

\* Every variable keeps its type: see TypeOK.
THEOREM TypeCorrect == Spec => []TypeOK
  <1>1. TypeOK /\ JobInv /\ [Next]_vars => TypeOK' /\ JobInv'
    BY NextKind, JobInvStep
  <1> QED
    BY InitTypeOK, <1>1, PTL DEF Spec

-----------------------------------------------------------------------------
\* Outcomes.

LEMMA InitIInv == Init => IInv
  <1> SUFFICES ASSUME Init PROVE IInv
    OBVIOUS
  <1>1. \A a \in Actors : act[a].step \notin {"send", "finish"}
    BY InitFacts
  <1>2. row.status = "none"
    BY FreshFacts DEF Init, JobStatus
  <1> QED
    BY <1>1, <1>2, InitTypeOK DEF Init, IInv, ClaimsInv, OutcomeIsLatest, InFlight

\* One case per kind of step; ClaimsInv says who else can have the claim.
LEMMA IInvStep ==
    ASSUME IInv, [Next]_vars
    PROVE  IInv'
  <1> USE DEF IInv, ClaimsInv, OutcomeIsLatest, InFlight
  <1>1. TypeOK' /\ JobInv' /\ Kinds
    BY NextKind, JobInvStep
  <1>2. /\ \A a \in Actors : act[a].claim \in Nat /\ act[a].lag \in 0 .. MaxLag
                             /\ act[a].result \in Result /\ act[a].run \in Nat
        /\ row.claim \in Nat /\ row.status \in Status /\ claims \in Nat
        /\ accepted \in SUBSET Nat /\ runs \in Nat
    BY DEF TypeOK, Actor, Row
  <1>3. CASE Quiet \/ Resets \/ Completes
    <2>1. NoClaim /\ (row' = row \/ row'.status = "none")
      BY <1>3, FreshFacts DEF Quiet, Resets, Completes, JobStatus
    <2> QED
      BY <1>1, <2>1 DEF NoClaim
  <1>4. ASSUME NEW a \in Actors, Skips(a)
        PROVE  (ClaimsInv /\ OutcomeIsLatest)'
    BY <1>2, <1>4, RestingFacts DEF Skips, Elsewhere
  <1>5. ASSUME NEW a \in Actors, Claims(a)
        PROVE  (ClaimsInv /\ OutcomeIsLatest)'
    <2>1. claims' \in Nat /\ claims' = claims + 1 /\ claims + 1 > claims
      BY <1>2, <1>5 DEF Claims
    <2>2. act'[a].step = "send" /\ act'[a].claim = claims'
      BY <1>5, ClaimsFacts
    <2>3. \A b \in Actors : b # a => act'[b] = act[b]
      BY <1>5 DEF Claims, Elsewhere
    <2>4. \A n \in accepted : n <= claims /\ n # claims'
      BY <1>2, <2>1
    <2>5. row'.status = "requested" /\ row'.claim = claims' /\ accepted' = accepted
      BY <1>5 DEF Claims
    <2>6. \A b \in Actors : b # a /\ InFlight(b) => act[b].claim < claims'
      BY <1>2, <2>1
    <2>7. ASSUME NEW n \in accepted
          PROVE  n <= claims'
      <3>1. n \in Nat /\ n <= claims
        BY <1>2
      <3> QED
        BY <1>2, <2>1, <3>1
    <2>8. \A b \in Actors : InFlight(b)' =>
            /\ act'[b].claim <= claims'
            /\ \A c \in Actors : InFlight(c)' /\ act'[c].claim = act'[b].claim => c = b
      BY <1>2, <2>1, <2>2, <2>3, <2>6
    <2>9. \A b \in Actors : act'[b].step = "send" => act'[b].claim \notin accepted'
      BY <2>2, <2>3, <2>4, <2>5
    <2>10. \A b \in Actors : act'[b].step = "finish" =>
             (act'[b].result = "imported" <=> act'[b].claim \in accepted')
      BY <2>2, <2>3, <2>5
    <2> QED
      BY <2>5, <2>7, <2>8, <2>9, <2>10
  <1>6. ASSUME NEW a \in Actors, Sends(a)
        PROVE  (ClaimsInv /\ OutcomeIsLatest)'
    <2>1. /\ act'[a].step = "finish" /\ act'[a].claim = act[a].claim
          /\ \/ act'[a].result = "imported" /\ accepted' = accepted \cup {act[a].claim}
             \/ act'[a].result = "failed" /\ accepted' = accepted
      BY <1>6, SendsFacts
    <2>2. \A b \in Actors : b # a => act'[b] = act[b]
      BY <1>6 DEF Sends, Elsewhere
    <2>3. act[a].step = "send" /\ row' = row /\ claims' = claims
      BY <1>6 DEF Sends
    <2>4. \A b \in Actors : b # a /\ InFlight(b) => act[b].claim # act[a].claim
      BY <2>3
    <2>5. \A b \in Actors : InFlight(b)' <=> InFlight(b)
      BY <2>1, <2>2, <2>3
    <2>6. \A b \in Actors : act'[b].claim = act[b].claim
      BY <2>1, <2>2
    <2>7. OutcomeIsLatest'
      BY <2>1, <2>3
    <2>8. \A n \in accepted' : n <= claims'
      BY <2>1, <2>3
    <2>9. \A b \in Actors : act'[b].step = "send" => act'[b].claim \notin accepted'
      BY <2>1, <2>2, <2>4
    <2>10. \A b \in Actors : act'[b].step = "finish" =>
             (act'[b].result = "imported" <=> act'[b].claim \in accepted')
      BY <2>1, <2>2, <2>3, <2>4
    <2>11. \A b \in Actors : InFlight(b)' =>
            /\ act'[b].claim <= claims'
            /\ act'[b].claim = claims' => row'.status \notin {"imported", "failed"}
            /\ \A c \in Actors : InFlight(c)' /\ act'[c].claim = act'[b].claim => c = b
      BY <2>3, <2>5, <2>6
    <2> QED
      BY <2>3, <2>7, <2>8, <2>9, <2>10, <2>11
  <1>7. ASSUME NEW a \in Actors, Finishes(a)
        PROVE  (ClaimsInv /\ OutcomeIsLatest)'
    <2>1. /\ act'[a].step = "idle" /\ act[a].step = "finish"
          /\ row'.status = act[a].result /\ row'.claim = row.claim
          /\ row.status = "requested" /\ row.claim = act[a].claim
          /\ claims' = claims /\ accepted' = accepted
      BY <1>7, RestingFacts DEF Finishes
    <2>2. \A b \in Actors : b # a => act'[b] = act[b]
      BY <1>7 DEF Finishes, Elsewhere
    <2>3. row.claim = claims /\ act[a].result \in {"imported", "failed"}
      BY <1>2, <2>1 DEF Result
    <2>4. \A b \in Actors : b # a /\ InFlight(b) => act[b].claim # claims
      BY <2>1, <2>3
    <2>5. OutcomeIsLatest'
      BY <2>1, <2>3
    <2>6. \A b \in Actors : InFlight(b)' => b # a /\ InFlight(b) /\ act'[b] = act[b]
      BY <2>1, <2>2
    <2> QED
      BY <2>1, <2>3, <2>4, <2>5, <2>6
  <1>8. CASE Tick
    <2>1. /\ UNCHANGED <<claims, accepted>>
          /\ row'.status = row.status /\ row'.claim = row.claim
      BY <1>8, TickFacts
    <2>2. \A b \in Actors : /\ act'[b].step = act[b].step
                            /\ act'[b].claim = act[b].claim
                            /\ act'[b].result = act[b].result
      BY <1>8, TickFacts
    <2> QED
      BY <1>1, <2>1, <2>2
  <1> QED
    BY <1>1, <1>3, <1>4, <1>5, <1>6, <1>7, <1>8 DEF Kinds

\* What every claim and every actor that has one know: see ClaimsInv.
THEOREM Invariance == Spec => []IInv
  BY InitIInv, IInvStep, PTL DEF Spec

\* An outcome in the row is that of the latest claim: FinishImport compares
\* the claim, so a late answer to an older one is not written.
THEOREM OutcomesAreLatest == Spec => []OutcomeIsLatest
  <1>1. IInv => OutcomeIsLatest
    BY DEF IInv
  <1> QED
    BY <1>1, Invariance, PTL

-----------------------------------------------------------------------------
\* The lease.

LEMMA InitLease == Init => Lease
  <1> SUFFICES ASSUME Init PROVE Lease
    OBVIOUS
  <1>1. \A a \in Actors : ~InFlight(a)
    BY InitFacts DEF InFlight
  <1> QED
    BY <1>1 DEF Lease, RunsInv, OneRequestAtATime, ClaimKept, OfThisRun

\* A claim cannot be made while another actor of this run is in flight: the row
\* is skipped, or its age is the other's lag, less than the cooldown.
LEMMA LeaseStep ==
    ASSUME MaxLag < Cooldown, IInv, Lease, [Next]_vars
    PROVE  Lease'
  <1> USE DEF Lease, RunsInv, OneRequestAtATime, ClaimKept, OfThisRun, InFlight
  <1>0. TypeOK /\ JobInv
    BY DEF IInv
  <1>1. Kinds
    BY <1>0, NextKind
  <1>2. /\ \A a \in Actors : act[a].claim \in Nat /\ act[a].lag \in 0 .. MaxLag
                             /\ act[a].result \in Result /\ act[a].run \in Nat
        /\ row.claim \in Nat /\ row.status \in Status /\ row.age \in 0 .. MaxAge
        /\ claims \in Nat /\ runs \in Nat
    BY <1>0 DEF TypeOK, Actor, Row
  <1>3. CASE Quiet \/ Resets
    BY <1>3 DEF Quiet, Resets, NoClaim
  <1>4. CASE Completes
    <2>1. /\ runs' = runs + 1
          /\ \A b \in Actors : InFlight(b)' => InFlight(b) /\ act'[b] = act[b]
      BY <1>4 DEF Completes, NoClaim
    <2>2. \A b \in Actors : InFlight(b) => act[b].run <= runs /\ act[b].run # runs'
      BY <1>2, <2>1
    <2>3. \A b \in Actors : InFlight(b) => act[b].run <= runs'
      BY <1>2, <2>1
    <2> QED
      BY <2>1, <2>2, <2>3
  <1>5. ASSUME NEW a \in Actors, Skips(a)
        PROVE  Lease'
    BY <1>5, RestingFacts DEF Skips, Elsewhere
  <1>6. ASSUME NEW a \in Actors, Claims(a)
        PROVE  Lease'
    <2>1. /\ act'[a].step = "send" /\ act'[a].claim = claims'
          /\ act'[a].lag = act[a].lag /\ act'[a].run = runs
      BY <1>0, <1>6, ClaimsFacts
    <2>2. \A b \in Actors : ~OfThisRun(b)
      <3> SUFFICES ASSUME NEW b \in Actors, OfThisRun(b) PROVE FALSE
        OBVIOUS
      <3>1. row.status = "requested" /\ row.age = act[b].lag
        BY <1>6 DEF Claims, MayClaim
      <3>2. row.age >= Cooldown + act[a].lag
        BY <1>6, <3>1 DEF Claims, MayClaim
      <3> QED
        BY <1>2, <3>1, <3>2, MaxLagAssumption, CooldownAssumption
    <2>3. \A b \in Actors : b # a /\ InFlight(b)' =>
            InFlight(b) /\ act'[b] = act[b] /\ act[b].run # runs
      BY <1>6, <2>2 DEF Claims, Elsewhere
    <2>4. runs' = runs
      BY <1>6 DEF Claims
    <2>5. RunsInv'
      BY <1>2, <2>1, <2>3, <2>4
    <2>6. OneRequestAtATime'
      BY <2>1, <2>3
    <2>7. ClaimKept'
      BY <1>6, <2>1, <2>3, <2>4 DEF Claims
    <2> QED
      BY <2>5, <2>6, <2>7
  <1>7. ASSUME NEW a \in Actors, Sends(a)
        PROVE  Lease'
    <2>1. /\ act'[a].step = "finish" /\ act'[a].claim = act[a].claim
          /\ act'[a].lag = act[a].lag /\ act'[a].run = act[a].run
      BY <1>0, <1>7, SendsFacts
    <2> QED
      BY <1>7, <2>1 DEF Sends, Elsewhere
  <1>8. ASSUME NEW a \in Actors, Finishes(a)
        PROVE  Lease'
    <2>1. \A b \in Actors : InFlight(b)' => b # a /\ InFlight(b) /\ act'[b] = act[b]
      BY <1>8, RestingFacts DEF Finishes, Elsewhere
    <2>2. \A b \in Actors : InFlight(b) /\ b # a => act[b].claim # row.claim
      BY <1>8 DEF Finishes, IInv, ClaimsInv
    <2>3. row'.job = row.job /\ row.status = "requested" /\ runs' = runs
      BY <1>8 DEF Finishes
    <2>4. \A b \in Actors : OfThisRun(b)' => row'.job # "completed"
      BY <2>1, <2>2, <2>3
    <2> QED
      BY <2>1, <2>3, <2>4
  <1>9. CASE Tick
    <2>1. /\ runs' = runs
          /\ \A b \in Actors :
            /\ act'[b].step = act[b].step /\ act'[b].claim = act[b].claim
            /\ act'[b].run = act[b].run
            /\ InFlight(b) => act[b].lag < MaxLag /\ act'[b].lag = act[b].lag + 1
      BY <1>0, <1>9, TickFacts
    <2>2. /\ row'.job = row.job /\ row'.status = row.status /\ row'.claim = row.claim
          /\ row.status = "requested" /\ row.age < MaxAge => row'.age = row.age + 1
      BY <1>0, <1>9, TickFacts
    <2>3. ASSUME NEW b \in Actors, OfThisRun(b), row.status = "requested"
          PROVE  row.age < MaxAge
      <3>1. row.age = act[b].lag
        BY <1>0, <2>3 DEF JobInv
      <3> QED
        BY <1>2, <2>1, <2>3, <3>1, MaxLagAssumption, CooldownAssumption DEF MaxAge
    <2> QED
      BY <2>1, <2>2, <2>3
  <1> QED
    BY <1>1, <1>3, <1>4, <1>5, <1>6, <1>7, <1>8, <1>9 DEF Kinds

\* If an actor is done before its claim can expire, then of the actors that
\* claimed since the job was last completed (or between any two completions)
\* one at a time asks Lidarr: ClaimImport refuses a claim younger than the
\* cooldown, and a job that is not completed.  A stale requeue does not break
\* that: it takes the claim out of the row, but the status with it.
THEOREM OneRequest ==
    ASSUME MaxLag < Cooldown
    PROVE  Spec => []OneRequestAtATime
  <1>1. IInv /\ Lease /\ [Next]_vars => Lease'
    BY LeaseStep
  <1>2. Lease => OneRequestAtATime
    BY DEF Lease
  <1> QED
    BY InitLease, Invariance, <1>1, <1>2, PTL DEF Spec

\* Under the same condition the row carries the claim of whoever is in flight
\* since the job was last completed until its outcome is written, or says
\* skipped, or the job has been queued again.
THEOREM ClaimIsKept ==
    ASSUME MaxLag < Cooldown
    PROVE  Spec => []ClaimKept
  <1>1. IInv /\ Lease /\ [Next]_vars => Lease'
    BY LeaseStep
  <1>2. Lease => ClaimKept
    BY DEF Lease
  <1> QED
    BY InitLease, Invariance, <1>1, <1>2, PTL DEF Spec

\* Until the job is completed once more, who is not in flight does not get
\* there when the job is closed.
LEMMA ClosedStep ==
    ASSUME TypeOK, JobInv, Closed, [Next]_vars, runs' = runs
    PROVE  Closed'
  <1> USE DEF Closed, OfThisRun, InFlight
  <1>1. Kinds /\ runs \in Nat
    BY NextKind DEF TypeOK
  <1>2. CASE Quiet \/ Resets
    BY <1>2 DEF Quiet, Resets, NoClaim
  <1>3. CASE Completes
    BY <1>1, <1>3 DEF Completes
  <1>4. ASSUME NEW a \in Actors, Skips(a)
        PROVE  Closed'
    BY <1>4, RestingFacts DEF Skips, Elsewhere
  <1>5. ASSUME NEW a \in Actors, Claims(a) \/ Finishes(a)
        PROVE  FALSE
    BY <1>5 DEF Claims, MayClaim, Finishes, JobInv
  <1>6. ASSUME NEW a \in Actors, Sends(a)
        PROVE  Closed'
    <2>1. act'[a].run = act[a].run
      BY <1>6, SendsFacts
    <2>2. act[a].run # runs
      BY <1>6 DEF Sends
    <2> QED
      BY <1>6, <2>1, <2>2 DEF Sends, Elsewhere
  <1>7. CASE Tick
    <2>1. /\ row'.job = row.job /\ row'.status = row.status
          /\ \A b \in Actors : act'[b].step = act[b].step /\ act'[b].run = act[b].run
      BY <1>7, TickFacts
    <2> QED
      BY <2>1
  <1> QED
    BY <1>1, <1>2, <1>3, <1>4, <1>5, <1>6, <1>7 DEF Kinds

\* Under the same condition nobody who claimed since the job was completed asks
\* Lidarr once the row says "imported", then or until the job is completed once
\* more: whoever could still do so would have its claim in the row, and
\* ClaimImport makes no claim over an outcome.
THEOREM NobodyAsksAgain ==
    ASSUME MaxLag < Cooldown
    PROVE  Spec => NeverAskedAgain
  <1>1. IInv /\ Lease /\ [Next]_vars => Lease'
    BY LeaseStep
  <1>2. IInv /\ Lease /\ [Next]_vars =>
          [/\ row.status = "imported" => Closed
           /\ Closed /\ runs' = runs => Closed']_vars
    <2>1. IInv /\ Lease => (row.status = "imported" => Closed)
      BY DEF IInv, Lease, ClaimKept, JobInv, Closed
    <2>2. IInv => TypeOK /\ JobInv
      BY DEF IInv
    <2> QED
      BY <2>1, <2>2, ClosedStep
  <1> QED
    BY InitLease, Invariance, <1>1, <1>2, PTL DEF Spec, NeverAskedAgain
=============================================================================
