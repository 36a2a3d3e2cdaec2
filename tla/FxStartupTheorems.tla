--------------------------- MODULE FxStartupTheorems ---------------------------
(***************************************************************************)
(* For any number of processes and threads: the schema is committed whole  *)
(* or not at all, traffic finds it there, and starts and requests never    *)
(* wait for each other in a circle.                                        *)
(***************************************************************************)
EXTENDS FxStartup, FiniteSetTheorems, WellFoundedInduction, TLAPS

(* The locks of a start, one by one. *)
LEMMA StartPlanIs ==
    /\ Len(StartPlan) = 6
    /\ StartPlan[1] = "reject_modification"
    /\ StartPlan[2] = "quotes" /\ StartPlan[3] = "quote_legs" /\ StartPlan[4] = "executions"
    /\ StartPlan[5] = "ledger_entries" /\ StartPlan[6] = "rate_snapshots"
  BY DEF StartPlan, ImmutableTables

(* The tables whose triggers session.py replaces. *)
LEMMA RangeImmutable ==
    Range(ImmutableTables) =
      {"quotes", "quote_legs", "executions", "ledger_entries", "rate_snapshots"}
<1>1. DOMAIN ImmutableTables = 1 .. 5
  BY DEF ImmutableTables
<1> QED
  BY <1>1 DEF Range, ImmutableTables

(* What a start knows of the tables while it runs. Only one start at a time  *)
(* holds anything, and until it commits the tables stay as it found them.    *)
StartInv(p) ==
    /\ process[p] # "starting" => taken[p] = 0
    /\ process[p] = "serving" => guard = Guarded
    /\ missing[p] \in {{}, Tables}
    /\ process[p] = "starting" /\ missing[p] = {} => guard = Guarded
    /\ taken[p] > 0 /\ missing[p] = Tables => guard = Absent

CatalogInv ==
    /\ guard \in {Absent, Guarded}
    /\ process \in [Processes -> {"down", "starting", "serving"}]
    /\ missing \in [Processes -> SUBSET Tables]
    /\ taken \in [Sessions -> Nat]
    /\ overtaken \cup refused # {} => guard = Guarded
    /\ \A p \in Processes : StartInv(p)
    /\ \A p, q \in Processes : taken[p] > 0 /\ taken[q] > 0 => p = q

(* A start finds all tables missing, or none. *)
LEMMA MissingAllOrNone ==
    ASSUME guard \in {Absent, Guarded}
    PROVE  /\ guard = Absent => MissingTables = Tables
           /\ guard = Guarded => MissingTables = {}
           /\ Absent # Guarded
<1>1. "quotes" \in Tables
  BY RangeImmutable DEF Tables
<1>2. \A t \in Tables : Absent[t] = "absent" /\ Guarded[t] # "absent"
  BY DEF Absent, Guarded
<1> QED
  BY <1>1, <1>2 DEF MissingTables

(* Who takes the first lock of a start finds no other start with a lock.     *)
LEMMA FirstLockExcludes ==
    ASSUME CatalogInv, NEW p \in Processes, CanTake(p), taken[p] = 0,
           NEW q \in Processes, q # p
    PROVE  taken[q] = 0
<1> SUFFICES ASSUME taken[q] > 0
             PROVE  FALSE
  <2>1. taken[q] \in Nat
    BY DEF CatalogInv, Sessions
  <2> QED
    BY <2>1
<1>1. process[q] = "starting"
  BY DEF CatalogInv, StartInv
<1>2. NextLock(p) = "reject_modification"
  BY StartPlanIs DEF NextLock, Plan
<1>3. Plan(q)[1] = "reject_modification" /\ 1 \in 1 .. taken[q]
  BY StartPlanIs DEF Plan, CatalogInv, Sessions
<1>4. Holds(q, NextLock(p))
  BY <1>1, <1>2, <1>3 DEF Holds, Running
<1>5. Blocks(q, p)
  BY <1>4 DEF Blocks, Conflict
<1> QED
  BY <1>5 DEF CanTake, Sessions

(* The commit of a start leaves every table with its trigger. *)
LEMMA CreatedIsGuarded ==
    ASSUME CatalogInv, NEW p \in Processes, process[p] = "starting", Done(p)
    PROVE  Created(p) = Guarded
<1>1. taken[p] = 6 /\ Plan(p) = StartPlan
  BY StartPlanIs DEF Done, Plan
<1>2. \A t \in Range(ImmutableTables) : Holds(p, t)
  BY <1>1, StartPlanIs, RangeImmutable DEF Holds, Running
<1>3. ~Holds(p, "credit_adjustments")
  <2>1. \A i \in 1 .. 6 : StartPlan[i] # "credit_adjustments"
    <3>1. \A i \in 1 .. 6 : i = 1 \/ i = 2 \/ i = 3 \/ i = 4 \/ i = 5 \/ i = 6
      OBVIOUS
    <3> QED
      BY <3>1, StartPlanIs
  <2> QED
    BY <1>1, <2>1 DEF Holds
<1>4. "credit_adjustments" \notin Range(ImmutableTables)
  BY RangeImmutable
<1>5. \A t \in Tables : Created(p)[t] = Guarded[t]
  <2> SUFFICES ASSUME NEW t \in Tables
               PROVE  Created(p)[t] = Guarded[t]
    OBVIOUS
  <2>1. CASE t \in Range(ImmutableTables)
    BY <1>2, <2>1 DEF Created, Guarded
  <2>2. CASE t \notin Range(ImmutableTables)
    <3>1. t = "credit_adjustments"
      BY <2>2 DEF Tables
    <3>2. CASE missing[p] = Tables
      BY <1>3, <1>4, <3>1, <3>2 DEF Created, Guarded
    <3>3. CASE missing[p] = {}
      <4>1. guard = Guarded
        BY <3>3 DEF CatalogInv, StartInv
      <4> QED
        BY <1>3, <1>4, <3>1, <3>3, <4>1 DEF Created, Guarded
    <3> QED
      BY <3>2, <3>3 DEF CatalogInv, StartInv
  <2> QED
    BY <2>1, <2>2
<1> QED
  BY <1>5 DEF Created, Guarded

(* The locks of the other processes do not change with those of some         *)
(* threads, and threads of a process are no processes.                       *)
LEMMA TakeKeepsOthers ==
    ASSUME CatalogInv, NEW s \in Sessions, Take(s)
    PROVE  /\ taken' \in [Sessions -> Nat]
           /\ taken'[s] = taken[s] + 1
           /\ \A v \in Sessions : v # s => taken'[v] = taken[v]
  BY DEF CatalogInv, Take

(* Transactions that end change no other session's count. *)
LEMMA ReleaseKeepsOthers ==
    ASSUME CatalogInv, NEW ended \in SUBSET Sessions, Release(ended)
    PROVE  /\ taken' \in [Sessions -> Nat]
           /\ \A v \in ended : taken'[v] = 0
           /\ \A v \in Sessions \ ended : taken'[v] = taken[v]
  BY DEF CatalogInv, Release

(* A process that starts looks at a catalog that is whole. *)
LEMMA StartKeeps ==
    ASSUME CatalogInv, NEW p \in Processes, Start(p)
    PROVE  CatalogInv'
<1> USE DEF CatalogInv, StartInv
<1>1. /\ guard' = guard /\ overtaken' = overtaken /\ taken' = taken /\ refused' \subseteq refused
      /\ process' = [process EXCEPT ![p] = "starting"]
      /\ missing' = [missing EXCEPT ![p] = MissingTables]
      /\ process[p] = "down"
  BY DEF Start, locks
<1>2. MissingTables \in {{}, Tables} /\ (MissingTables = {} => guard = Guarded)
  <2>1. Tables # {}
    BY RangeImmutable DEF Tables
  <2> QED
    BY <2>1, MissingAllOrNone
<1>3. taken[p] = 0
  BY <1>1
<1>4. \A q \in Processes : StartInv(q)'
  BY <1>1, <1>2, <1>3
<1> QED
  BY <1>1, <1>2, <1>4

(* The start that defines the function is the only one that has. *)
LEMMA DefineFunctionKeeps ==
    ASSUME CatalogInv, NEW p \in Processes, DefineFunction(p)
    PROVE  CatalogInv'
<1>1. /\ CanTake(p) /\ Take(p) /\ taken[p] = 0 /\ ~Collides(p)
      /\ UNCHANGED <<guard, process, missing, overtaken, refused>>
  BY DEF DefineFunction, Take, starts
<1>2. \A q \in Processes : q # p => taken[q] = 0
  BY <1>1, FirstLockExcludes
<1>3. /\ taken' \in [Sessions -> Nat]
      /\ \A q \in Processes : q # p => taken'[q] = 0
  <2>1. p \in Sessions /\ \A q \in Processes : q \in Sessions
    BY DEF Sessions
  <2>2. /\ taken' \in [Sessions -> Nat]
        /\ \A v \in Sessions : v # p => taken'[v] = taken[v]
    BY <1>1, <2>1, TakeKeepsOthers
  <2> QED
    BY <1>2, <2>1, <2>2
<1>4. process[p] = "starting"
  BY <1>1 DEF CanTake, Running
<1>5. missing[p] = Tables => guard = Absent
  <2> SUFFICES ASSUME missing[p] = Tables, guard = Guarded
               PROVE  FALSE
    BY DEF CatalogInv
  <2>1. MissingTables = {} /\ Tables # {}
    BY MissingAllOrNone, RangeImmutable DEF Tables
  <2> QED
    BY <1>1, <2>1 DEF Collides
<1>6. \A q \in Processes : StartInv(q)'
  BY <1>1, <1>3, <1>4, <1>5 DEF CatalogInv, StartInv
<1> QED
  BY <1>1, <1>3, <1>6 DEF CatalogInv

(* A refused start leaves nothing behind; the one it met has committed. *)
LEMMA RefuseKeeps ==
    ASSUME CatalogInv, NEW p \in Processes, Refuse(p)
    PROVE  CatalogInv'
<1>1. /\ Collides(p) /\ Release({p}) /\ guard' = guard
      /\ process' = [process EXCEPT ![p] = "down"]
      /\ missing' = [missing EXCEPT ![p] = {}]
      /\ overtaken' \subseteq overtaken
  BY DEF Refuse
<1>2. guard = Guarded
  <2>1. CASE p \in overtaken
    BY <2>1 DEF CatalogInv
  <2>2. CASE missing[p] \cap MissingTables # missing[p]
    <3>1. missing[p] = Tables
      BY <2>2 DEF CatalogInv, StartInv
    <3>2. MissingTables # Tables
      BY <2>2, <3>1
    <3> QED
      BY <3>2, MissingAllOrNone DEF CatalogInv
  <2> QED
    BY <1>1, <2>1, <2>2 DEF Collides
<1>3. /\ taken' \in [Sessions -> Nat] /\ taken'[p] = 0
      /\ \A q \in Processes : q # p => taken'[q] = taken[q]
  BY <1>1, ReleaseKeepsOthers DEF Sessions
<1>4. \A q \in Processes : StartInv(q)'
  BY <1>1, <1>2, <1>3 DEF CatalogInv, StartInv
<1> QED
  BY <1>1, <1>2, <1>3, <1>4 DEF CatalogInv

(* The triggers of an open transaction are not seen by others. *)
LEMMA ReplaceTriggerKeeps ==
    ASSUME CatalogInv, NEW p \in Processes, ReplaceTrigger(p)
    PROVE  CatalogInv'
<1>1. /\ Take(p) /\ taken[p] > 0
      /\ UNCHANGED <<guard, process, missing, overtaken, refused>>
  BY DEF ReplaceTrigger, starts
<1>2. /\ taken' \in [Sessions -> Nat]
      /\ \A q \in Processes : q # p => taken'[q] = taken[q]
  BY <1>1, TakeKeepsOthers DEF Sessions
<1>3. process[p] = "starting"
  BY <1>1 DEF Take, CanTake, Running
<1>4. \A q \in Processes : StartInv(q)'
  BY <1>1, <1>2, <1>3 DEF CatalogInv, StartInv
<1> QED
  BY <1>1, <1>2, <1>4 DEF CatalogInv

(* The commit shows the whole schema, and marks who waited. *)
LEMMA CommitStartKeeps ==
    ASSUME CatalogInv, NEW p \in Processes, CommitStart(p)
    PROVE  CatalogInv'
<1>1. /\ process[p] = "starting" /\ Done(p) /\ Release({p}) /\ guard' = Guarded
      /\ process' = [process EXCEPT ![p] = "serving"]
      /\ missing' = [missing EXCEPT ![p] = {}]
  BY CreatedIsGuarded DEF CommitStart
<1>2. taken[p] > 0
  BY <1>1, StartPlanIs DEF Done, Plan
<1>3. \A q \in Processes : q # p => taken[q] = 0
  <2>1. \A q \in Processes : taken[q] \in Nat
    BY DEF CatalogInv, Sessions
  <2> QED
    BY <1>2, <2>1 DEF CatalogInv
<1>4. /\ taken' \in [Sessions -> Nat]
      /\ \A q \in Processes : taken'[q] = 0
  BY <1>1, <1>3, ReleaseKeepsOthers DEF Sessions
<1>5. \A q \in Processes : StartInv(q)'
  BY <1>1, <1>4 DEF CatalogInv, StartInv
<1> QED
  BY <1>1, <1>4, <1>5 DEF CatalogInv

(* A process that dies takes its uncommitted work with it. *)
LEMMA StopKeeps ==
    ASSUME CatalogInv, NEW p \in Processes, Stop(p)
    PROVE  CatalogInv'
<1> DEFINE ended == {p} \cup {w \in Workers : Home[w] = p}
<1>1. /\ Release(ended) /\ guard' = guard /\ refused' = refused
      /\ process' = [process EXCEPT ![p] = "down"]
      /\ missing' = [missing EXCEPT ![p] = {}]
      /\ overtaken' \subseteq overtaken
  BY DEF Stop
<1>2. ended \subseteq Sessions /\ p \in ended /\ \A q \in Processes : q # p => q \notin ended
  BY SessionsAssumption DEF Sessions
<1> HIDE DEF ended
<1>3. /\ taken' \in [Sessions -> Nat] /\ taken'[p] = 0
      /\ \A q \in Processes : q # p => taken'[q] = taken[q]
  BY <1>1, <1>2, ReleaseKeepsOthers DEF Sessions
<1>4. \A q \in Processes : StartInv(q)'
  BY <1>1, <1>3 DEF CatalogInv, StartInv
<1> QED
  BY <1>1, <1>3, <1>4 DEF CatalogInv

(* Requests leave the catalog and the starts as they are. *)
LEMMA OthersKeep ==
    ASSUME CatalogInv, UNCHANGED <<guard, starts>>, taken' \in [Sessions -> Nat],
           \A q \in Processes : taken'[q] = taken[q]
    PROVE  CatalogInv'
  BY DEF CatalogInv, StartInv, starts

(* Requests do not touch the catalog. *)
LEMMA RequestKeeps ==
    ASSUME CatalogInv, NEW w \in Workers,
           RequestLock(w) \/ Finish(w) \/ Abort(w) \/ \E j \in Jobs : Begin(w, j)
    PROVE  CatalogInv'
<1>1. w \in Sessions /\ w \notin Processes
  BY SessionsAssumption DEF Sessions
<1>2. UNCHANGED <<guard, starts>>
  BY DEF RequestLock, Finish, Abort, Begin
<1>3. CASE RequestLock(w)
  BY <1>1, <1>2, <1>3, TakeKeepsOthers, OthersKeep DEF RequestLock, Sessions
<1>4. CASE Finish(w) \/ Abort(w)
  <2>1. Release({w})
    BY <1>4 DEF Finish, Abort
  <2> QED
    BY <1>1, <1>2, <2>1, ReleaseKeepsOthers, OthersKeep DEF Sessions
<1>5. CASE \E j \in Jobs : Begin(w, j)
  BY <1>2, <1>5, OthersKeep DEF Begin, locks, CatalogInv
<1> QED
  BY <1>3, <1>4, <1>5

(* Nor does queueing. *)
LEMMA WaitKeeps ==
    ASSUME CatalogInv, NEW s \in Sessions, Wait(s)
    PROVE  CatalogInv'
  BY OthersKeep DEF Wait, CatalogInv

(* A database without tables is whole. *)
LEMMA CatalogInit == Init => CatalogInv
<1> SUFFICES ASSUME Init
             PROVE  CatalogInv
  OBVIOUS
<1>1. \A s \in Sessions : taken[s] = 0
  BY DEF Init
<1>2. \A p \in Processes : StartInv(p)
  BY <1>1 DEF Init, StartInv, Sessions
<1> QED
  BY <1>1, <1>2 DEF Init, CatalogInv, Sessions

(* While a start holds locks, the tables are as it found them, and nobody    *)
(* else holds locks of a start: this carries the schema through every step.  *)
THEOREM CatalogInvariance == Spec => []CatalogInv
<1>1. CatalogInv /\ [Next]_vars => CatalogInv'
  <2> SUFFICES ASSUME CatalogInv, [Next]_vars
               PROVE  CatalogInv'
    OBVIOUS
  <2>1. ASSUME NEW p \in Processes, Start(p) \/ StartStep(p) \/ Stop(p)
        PROVE  CatalogInv'
    BY <2>1, StartKeeps, DefineFunctionKeeps, RefuseKeeps, ReplaceTriggerKeeps, CommitStartKeeps,
       StopKeeps, WaitKeeps DEF StartStep, Sessions
  <2>2. ASSUME NEW w \in Workers, RequestStep(w) \/ Abort(w) \/ \E j \in Jobs : Begin(w, j)
        PROVE  CatalogInv'
    BY <2>2, RequestKeeps, WaitKeeps DEF RequestStep, Sessions
  <2>3. CASE UNCHANGED vars
    BY <2>3, OthersKeep DEF vars, locks, starts, CatalogInv
  <2> QED
    BY <2>1, <2>2, <2>3 DEF Next
<1> QED
  BY <1>1, CatalogInit, PTL DEF Spec

(* A committed table has its trigger at every moment, and all tables become  *)
(* visible together.                                                         *)
THEOREM SchemaWhole == Spec => []SchemaIsWhole
<1>1. CatalogInv => SchemaIsWhole
  BY DEF CatalogInv, SchemaIsWhole
<1> QED
  BY <1>1, CatalogInvariance, PTL

(* No process serves a request before the schema is there. *)
THEOREM ServedAfterSchema == Spec => []TrafficAfterSchema
<1>1. CatalogInv => TrafficAfterSchema
  BY DEF CatalogInv, StartInv, TrafficAfterSchema
<1> QED
  BY <1>1, CatalogInvariance, PTL

(* Of starts that collide, one has completed the schema. *)
THEOREM CollisionsAreHarmless == Spec => []RefusedAfterSuccess
<1>1. CatalogInv => RefusedAfterSuccess
  BY DEF CatalogInv, RefusedAfterSuccess
<1> QED
  BY <1>1, CatalogInvariance, PTL

-----------------------------------------------------------------------------
(* No deadlock *)

(* One order of all locks that every plan climbs. *)
Level(l) ==
    CASE l = "reject_modification" -> 0
      [] l = "key" -> 1
      [] l = "advisory" -> 2
      [] l = "quotes" -> 3
      [] l = "quote_legs" -> 4
      [] l = "quote" -> 5
      [] l = "executions" -> 6
      [] l = "balance" -> 7
      [] l = "credit_adjustments" -> 8
      [] l = "ledger_entries" -> 9
      [] l = "rate_snapshots" -> 10

Climbs(plan) ==
    /\ Len(plan) \in 0 .. 6
    /\ \A i \in 1 .. Len(plan) : Level(plan[i]) \in 0 .. 10
    /\ \A i, j \in 1 .. Len(plan) : i < j => Level(plan[i]) < Level(plan[j])

(* A start climbs, *)
LEMMA StartClimbs == Climbs(StartPlan)
<1>1. \A i \in 1 .. 6 : i = 1 \/ i = 2 \/ i = 3 \/ i = 4 \/ i = 5 \/ i = 6
  OBVIOUS
<1> QED
  BY <1>1, StartPlanIs DEF Climbs, Level

(* and so does an execution, *)
LEMMA ExecuteClimbs == Climbs(ExecutePlan)
<1>1. \A i \in 1 .. 6 : i = 1 \/ i = 2 \/ i = 3 \/ i = 4 \/ i = 5 \/ i = 6
  OBVIOUS
<1>2. Len(ExecutePlan) = 6
  BY DEF ExecutePlan
<1> QED
  BY <1>1, <1>2 DEF Climbs, Level, ExecutePlan

(* a credit, *)
LEMMA CreditClimbs == Climbs(CreditPlan)
<1>1. \A i \in 1 .. 3 : i = 1 \/ i = 2 \/ i = 3
  OBVIOUS
<1>2. Len(CreditPlan) = 3
  BY DEF CreditPlan
<1> QED
  BY <1>1, <1>2 DEF Climbs, Level, CreditPlan

(* a quote, *)
LEMMA QuoteClimbs == Climbs(QuotePlan)
<1>1. \A i \in 1 .. 3 : i = 1 \/ i = 2 \/ i = 3
  OBVIOUS
<1>2. Len(QuotePlan) = 3
  BY DEF QuotePlan
<1> QED
  BY <1>1, <1>2 DEF Climbs, Level, QuotePlan

(* a refresh, what a log reads again and no transaction at all. *)
LEMMA ShortPlansClimb ==
    /\ Climbs(RefreshPlan) /\ Climbs(ReadExecutedPlan) /\ Climbs(ReadBackPlan)
    /\ Climbs(<<>>)
<1>1. \A i \in 1 .. 2 : i = 1 \/ i = 2
  OBVIOUS
<1>2. /\ Len(RefreshPlan) = 2 /\ Len(ReadExecutedPlan) = 2
      /\ Len(ReadBackPlan) = 1 /\ Len(<<>>) = 0
  BY DEF RefreshPlan, ReadExecutedPlan, ReadBackPlan
<1> QED
  BY <1>1, <1>2 DEF Climbs, Level, RefreshPlan, ReadExecutedPlan, ReadBackPlan

(* Whatever a session runs, it takes its locks upwards. *)
LEMMA PlansClimb == ASSUME NEW s PROVE Climbs(Plan(s))
  BY StartClimbs, ExecuteClimbs, CreditClimbs, QuoteClimbs, ShortPlansClimb DEF Plan

(* Who runs nothing holds nothing and waits for nothing; who waits wants one *)
(* more lock, and what is in front of it wants the same one and has in front *)
(* of itself a part of the same queue.                                       *)
SessionInv(s) ==
    /\ taken[s] \in 0 .. Len(Plan(s))
    /\ ~Running(s) => taken[s] = 0
    /\ s \in waiting => Running(s) /\ ~Done(s)
    /\ s \notin waiting => ahead[s] = {}
    /\ ahead[s] \subseteq waiting \ {s}
    /\ \A v \in ahead[s] : NextLock(v) = NextLock(s) /\ ahead[v] \subseteq ahead[s]

QueueInv ==
    /\ taken \in [Sessions -> Nat]
    /\ process \in [Processes -> {"down", "starting", "serving"}]
    /\ DOMAIN job = Workers
    /\ waiting \subseteq Sessions
    /\ IsFiniteSet(waiting)
    /\ ahead \in [Sessions -> SUBSET Sessions]
    /\ \A s \in Sessions : SessionInv(s)

(* At first nobody holds or waits for anything. *)
LEMMA QueueInit == Init => QueueInv
<1> SUFFICES ASSUME Init
             PROVE  QueueInv
  OBVIOUS
<1>1. \A s \in Sessions : taken[s] = 0 /\ ahead[s] = {} /\ waiting = {}
  BY DEF Init
<1>2. \A s \in Sessions : SessionInv(s)
  BY <1>1, PlansClimb DEF SessionInv, Climbs
<1>3. IsFiniteSet(waiting)
  BY FS_EmptySet DEF Init
<1> QED
  BY <1>1, <1>2, <1>3 DEF Init, QueueInv

(* A transaction that does not end, nor move, keeps its plan and its place.  *)
Steady(s) == UNCHANGED <<Running(s), Plan(s), taken[s]>>

(* A session of which nothing changes wants the lock it wanted. *)
LEMMA SteadyNext == ASSUME NEW s, Steady(s) PROVE NextLock(s)' = NextLock(s) /\ Done(s)' = Done(s)
  BY DEF Steady, NextLock, Done

(* Transactions leave the queues: they end, or one of them takes a lock.     *)
LEMMA LeavingKeeps ==
    ASSUME QueueInv, NEW gone \in SUBSET Sessions, Dequeue(gone),
           taken' \in [Sessions -> Nat],
           process' \in [Processes -> {"down", "starting", "serving"}], DOMAIN job' = Workers,
           \A s \in Sessions \ gone : Steady(s),
           \A s \in gone : taken'[s] \in 0 .. Len(Plan(s)') /\ (~Running(s)' => taken'[s] = 0)
    PROVE  QueueInv'
<1>1. /\ waiting' = waiting \ gone
      /\ \A s \in gone : ahead'[s] = {}
      /\ \A s \in Sessions \ gone : ahead'[s] = ahead[s] \ gone
      /\ ahead' \in [Sessions -> SUBSET Sessions]
  BY DEF Dequeue, QueueInv
<1>2. IsFiniteSet(waiting')
  BY <1>1, FS_Subset DEF QueueInv
<1>3. ASSUME NEW s \in gone
      PROVE  SessionInv(s)'
  BY <1>1, <1>3 DEF SessionInv
<1>4. ASSUME NEW s \in Sessions \ gone
      PROVE  SessionInv(s)'
  <2>1. SessionInv(s) /\ Steady(s)
    BY DEF QueueInv
  <2>2. /\ taken'[s] \in 0 .. Len(Plan(s)')
        /\ ~Running(s)' => taken'[s] = 0
    BY <2>1 DEF SessionInv, Steady
  <2>3. s \in waiting' => Running(s)' /\ ~Done(s)'
    BY <1>1, <2>1, SteadyNext DEF SessionInv, Steady
  <2>4. ahead'[s] \subseteq waiting' \ {s} /\ (s \notin waiting' => ahead'[s] = {})
    BY <1>1, <2>1 DEF SessionInv
  <2>5. ASSUME NEW v \in ahead'[s]
        PROVE  NextLock(v)' = NextLock(s)' /\ ahead'[v] \subseteq ahead'[s]
    <3>1. v \in ahead[s] /\ v \in Sessions \ gone /\ Steady(v)
      BY <1>1, <2>1, <2>5 DEF SessionInv, QueueInv
    <3>2. NextLock(v) = NextLock(s) /\ ahead[v] \subseteq ahead[s]
      BY <2>1, <3>1 DEF SessionInv
    <3> QED
      BY <1>1, <2>1, <3>1, <3>2, SteadyNext
  <2> QED
    BY <2>2, <2>3, <2>4, <2>5 DEF SessionInv
<1> QED
  BY <1>1, <1>2, <1>3, <1>4 DEF QueueInv

(* A lock is taken. *)
LEMMA TakeQueue ==
    ASSUME QueueInv, NEW s \in Sessions, Take(s), UNCHANGED <<process, job>>
    PROVE  QueueInv'
<1>1. \A v \in Sessions : Plan(v)' = Plan(v) /\ Running(v)' = Running(v)
  BY DEF Plan, Running
<1>2. /\ taken' \in [Sessions -> Nat]
      /\ taken'[s] = taken[s] + 1
      /\ \A v \in Sessions \ {s} : taken'[v] = taken[v]
  BY DEF Take, QueueInv
<1>3. taken'[s] \in 0 .. Len(Plan(s)') /\ Running(s)'
  <2>1. taken[s] \in 0 .. Len(Plan(s)) /\ taken[s] # Len(Plan(s)) /\ Running(s)
    BY DEF QueueInv, SessionInv, Take, CanTake, Done
  <2>2. Len(Plan(s)) \in Nat
    BY PlansClimb DEF Climbs
  <2> QED
    BY <1>1, <1>2, <2>1, <2>2
<1>4. \A v \in Sessions \ {s} : Steady(v)
  BY <1>1, <1>2 DEF Steady
<1>5. Dequeue({s})
  BY DEF Take
<1> QED
  BY <1>2, <1>3, <1>4, <1>5, LeavingKeeps DEF QueueInv

(* Transactions end. *)
LEMMA ReleaseQueue ==
    ASSUME QueueInv, NEW ended \in SUBSET Sessions, Release(ended),
           process' \in [Processes -> {"down", "starting", "serving"}], DOMAIN job' = Workers,
           \A s \in Sessions \ ended : UNCHANGED <<Running(s), Plan(s)>>
    PROVE  QueueInv'
<1>1. /\ taken' \in [Sessions -> Nat]
      /\ \A s \in ended : taken'[s] = 0
      /\ \A s \in Sessions \ ended : taken'[s] = taken[s]
      /\ Dequeue(ended)
  BY DEF Release, QueueInv
<1>2. \A s \in Sessions \ ended : Steady(s)
  BY <1>1 DEF Steady
<1>3. \A s \in ended : taken'[s] \in 0 .. Len(Plan(s)')
  <2>1. \A s \in ended : Len(Plan(s)') \in Nat
    BY StartClimbs, ExecuteClimbs, CreditClimbs, QuoteClimbs, ShortPlansClimb DEF Plan, Climbs
  <2> QED
    BY <1>1, <2>1
<1> QED
  BY <1>1, <1>2, <1>3, LeavingKeeps

(* A transaction joins the queue of its next lock. *)
LEMMA WaitQueue ==
    ASSUME QueueInv, NEW s \in Sessions, Wait(s)
    PROVE  QueueInv'
<1>1. \A v \in Sessions : Steady(v)
  BY DEF Wait, Steady, Plan, Running, starts
<1>2. /\ s \notin waiting /\ Running(s) /\ ~Done(s)
      /\ waiting' = waiting \cup {s}
      /\ ahead' = [ahead EXCEPT ![s] = Queue(s)]
      /\ UNCHANGED <<process, job, taken>>
  BY DEF Wait, starts
<1>3. Queue(s) = {v \in waiting : NextLock(v) = NextLock(s)}
  BY <1>2 DEF Queue
<1>4. /\ ahead'[s] = Queue(s)
      /\ \A v \in Sessions \ {s} : ahead'[v] = ahead[v]
      /\ ahead' \in [Sessions -> SUBSET Sessions]
  BY <1>2, <1>3 DEF QueueInv
<1>5. \A v \in Sessions : s \notin ahead[v] /\ ahead[v] \subseteq waiting
  BY <1>2 DEF QueueInv, SessionInv
<1>6. IsFiniteSet(waiting')
  BY <1>2, FS_AddElement DEF QueueInv
<1>7. ASSUME NEW v \in Sessions
      PROVE  SessionInv(v)'
  <2>1. SessionInv(v) /\ Steady(v)
    BY <1>1 DEF QueueInv
  <2>2. /\ taken'[v] \in 0 .. Len(Plan(v)')
        /\ ~Running(v)' => taken'[v] = 0
        /\ v \in waiting' => Running(v)' /\ ~Done(v)'
    BY <1>2, <2>1, SteadyNext DEF SessionInv, Steady
  <2>3. ahead'[v] \subseteq waiting' \ {v} /\ (v \notin waiting' => ahead'[v] = {})
    BY <1>2, <1>3, <1>4, <2>1 DEF SessionInv
  <2>4. ASSUME NEW u \in ahead'[v]
        PROVE  NextLock(u)' = NextLock(v)' /\ ahead'[u] \subseteq ahead'[v]
    <3>1. u \in Sessions \ {s}
      BY <1>2, <1>3, <1>4, <1>5 DEF QueueInv
    <3>2. ahead'[u] = ahead[u] /\ NextLock(u)' = NextLock(u) /\ NextLock(v)' = NextLock(v)
      BY <1>1, <1>4, <3>1, SteadyNext
    <3>3. CASE v # s
      BY <1>4, <2>1, <3>2, <3>3 DEF SessionInv
    <3>4. CASE v = s
      <4>1. u \in waiting /\ NextLock(u) = NextLock(s)
        BY <1>3, <1>4, <3>4
      <4>2. \A x \in ahead[u] : x \in waiting /\ NextLock(x) = NextLock(u)
        BY <3>1 DEF QueueInv, SessionInv
      <4> QED
        BY <1>3, <1>4, <3>2, <3>4, <4>1, <4>2
    <3> QED
      BY <3>3, <3>4
  <2> QED
    BY <2>2, <2>3, <2>4 DEF SessionInv
<1> QED
  BY <1>2, <1>4, <1>6, <1>7 DEF QueueInv

(* The steps of a start. *)
LEMMA StartStepQueue ==
    ASSUME QueueInv, NEW p \in Processes, Start(p) \/ StartStep(p)
    PROVE  QueueInv'
<1>1. p \in Sessions
  BY DEF Sessions
<1>2. CASE Start(p)
  <2>1. /\ process[p] = "down" /\ process' = [process EXCEPT ![p] = "starting"]
        /\ UNCHANGED <<job, taken, waiting, ahead>>
    BY <1>2 DEF Start, locks
  <2>2. \A s \in Sessions \ {p} : Steady(s)
    BY <2>1 DEF Steady, Plan, Running, QueueInv
  <2>3. ~Running(p) /\ taken[p] = 0 /\ p \notin waiting
    BY <1>1, <2>1 DEF Running, QueueInv, SessionInv
  <2>4. Plan(p)' = Plan(p)
    BY <2>1 DEF Plan
  <2>5. ahead[p] = {} /\ \A s \in Sessions : p \notin ahead[s]
    BY <1>1, <2>3 DEF QueueInv, SessionInv
  <2>6. ASSUME NEW s \in Sessions
        PROVE  SessionInv(s)'
    <3>1. \A v \in ahead[s] : v \in Sessions \ {p}
      BY <2>5 DEF QueueInv
    <3>2. SessionInv(s)
      BY DEF QueueInv
    <3>3. CASE s = p
      BY <2>1, <2>3, <2>4, <2>5, <3>2, <3>3 DEF SessionInv
    <3>4. CASE s # p
      BY <2>1, <2>2, <3>1, <3>2, <3>4, SteadyNext DEF SessionInv, Steady
    <3> QED
      BY <3>3, <3>4
  <2> QED
    BY <2>1, <2>6 DEF QueueInv
<1>3. CASE DefineFunction(p) \/ ReplaceTrigger(p)
  BY <1>1, <1>3, TakeQueue DEF DefineFunction, ReplaceTrigger, starts
<1>4. CASE Refuse(p) \/ CommitStart(p)
  <2>1. Release({p}) /\ job' = job /\ \A q \in Processes \ {p} : process'[q] = process[q]
    BY <1>4 DEF Refuse, CommitStart, QueueInv
  <2>2. process' \in [Processes -> {"down", "starting", "serving"}]
    BY <1>4 DEF Refuse, CommitStart, QueueInv
  <2>3. \A s \in Sessions \ {p} : UNCHANGED <<Running(s), Plan(s)>>
    BY <2>1 DEF Running, Plan
  <2> QED
    BY <1>1, <2>1, <2>2, <2>3, ReleaseQueue DEF QueueInv
<1>5. CASE Wait(p)
  BY <1>1, <1>5, WaitQueue
<1> QED
  BY <1>2, <1>3, <1>4, <1>5 DEF StartStep

(* The end of a process. *)
LEMMA StopQueue ==
    ASSUME QueueInv, NEW p \in Processes, Stop(p)
    PROVE  QueueInv'
<1> DEFINE ended == {p} \cup {w \in Workers : Home[w] = p}
<1>1. /\ Release(ended)
      /\ process' = [process EXCEPT ![p] = "down"]
      /\ job' = [w \in Workers |-> IF Home[w] = p THEN None ELSE job[w]]
  BY DEF Stop
<1>2. ended \subseteq Sessions
  BY DEF Sessions
<1>3. \A s \in Sessions \ ended : UNCHANGED <<Running(s), Plan(s)>>
  BY <1>1 DEF Running, Plan, Sessions, QueueInv
<1>4. process' \in [Processes -> {"down", "starting", "serving"}] /\ DOMAIN job' = Workers
  BY <1>1 DEF QueueInv
<1> HIDE DEF ended
<1> QED
  BY <1>1, <1>2, <1>3, <1>4, ReleaseQueue

(* The steps of a request. *)
LEMMA RequestQueue ==
    ASSUME QueueInv, NEW w \in Workers,
           RequestStep(w) \/ Abort(w) \/ \E j \in Jobs : Begin(w, j)
    PROVE  QueueInv'
<1>1. w \in Sessions /\ w \notin Processes
  BY SessionsAssumption DEF Sessions
<1>2. CASE RequestLock(w)
  BY <1>1, <1>2, TakeQueue DEF RequestLock, starts
<1>3. CASE Wait(w)
  BY <1>1, <1>3, WaitQueue
<1>4. CASE Finish(w) \/ Abort(w)
  <2>1. /\ Release({w}) /\ process' = process /\ DOMAIN job' = Workers
        /\ \A v \in Workers \ {w} : job'[v] = job[v]
    BY <1>4 DEF Finish, Abort, starts, QueueInv
  <2>2. \A s \in Sessions \ {w} : UNCHANGED <<Running(s), Plan(s)>>
    BY <2>1 DEF Running, Plan, Sessions
  <2> QED
    BY <1>1, <2>1, <2>2, ReleaseQueue DEF QueueInv
<1>5. CASE \E j \in Jobs : Begin(w, j)
  <2>1. /\ job[w] = None /\ DOMAIN job' = Workers
        /\ \A v \in Workers \ {w} : job'[v] = job[v]
        /\ UNCHANGED <<process, taken, waiting, ahead>>
    BY <1>5 DEF Begin, starts, locks, QueueInv
  <2>2. taken[w] = 0 /\ w \notin waiting
    BY <1>1, <2>1 DEF QueueInv, SessionInv, Running
  <2>3. \A s \in Sessions \ {w} : Steady(s)
    BY <2>1 DEF Steady, Running, Plan, Sessions
  <2>4. Len(Plan(w)') \in Nat
    BY StartClimbs, ExecuteClimbs, CreditClimbs, QuoteClimbs, ShortPlansClimb DEF Plan, Climbs
  <2>5. \A s \in Sessions : w \notin ahead[s]
    BY <2>2 DEF QueueInv, SessionInv
  <2>6. ahead[w] = {}
    BY <1>1, <2>2 DEF QueueInv, SessionInv
  <2>7. ASSUME NEW s \in Sessions
        PROVE  SessionInv(s)'
    <3>1. CASE s = w
      BY <1>1, <2>1, <2>2, <2>4, <2>6, <3>1 DEF SessionInv
    <3>2. CASE s # w
      <4>1. SessionInv(s) /\ \A v \in ahead[s] : v \in Sessions \ {w}
        BY <2>5 DEF QueueInv
      <4> QED
        BY <2>1, <2>3, <3>2, <4>1, SteadyNext DEF SessionInv, Steady
    <3> QED
      BY <3>1, <3>2
  <2> QED
    BY <2>1, <2>7 DEF QueueInv
<1> QED
  BY <1>2, <1>3, <1>4, <1>5 DEF RequestStep

(* Queues stay queues: the invariant about locks and their waiters holds. *)
THEOREM QueueInvariance == Spec => []QueueInv
<1>1. QueueInv /\ [Next]_vars => QueueInv'
  <2> SUFFICES ASSUME QueueInv, [Next]_vars
               PROVE  QueueInv'
    OBVIOUS
  <2>1. CASE UNCHANGED vars
    <3>1. \A s \in Sessions : Steady(s)
      BY <2>1 DEF vars, locks, starts, Steady, Running, Plan
    <3>2. UNCHANGED <<process, job, taken, waiting, ahead>>
      BY <2>1 DEF vars, locks, starts
    <3>3. ASSUME NEW s \in Sessions
          PROVE  SessionInv(s)'
      <4>1. SessionInv(s) /\ ahead[s] \subseteq Sessions
        BY DEF QueueInv
      <4> QED
        BY <3>1, <3>2, <4>1, SteadyNext DEF SessionInv, Steady
    <3> QED
      BY <3>2, <3>3 DEF QueueInv
  <2> QED
    BY <2>1, StartStepQueue, StopQueue, RequestQueue DEF Next
<1> QED
  BY <1>1, QueueInit, PTL DEF Spec

(* A set of numbers that is not empty has a least one. *)
LEMMA LeastExists ==
    ASSUME NEW S, S \subseteq Nat, S # {}
    PROVE  \E m \in S : \A n \in S : ~(n < m)
<1>1. \E m \in S : \A n \in S : <<n, m>> \notin OpToRel(<, Nat)
  BY NatLessThanWellFounded, WFMin
<1> QED
  BY <1>1 DEF OpToRel

(* Of those who wait for the highest lock, take one with the fewest others   *)
(* in front. A holder of that lock would be waiting for a higher one, and    *)
(* who is in front has fewer in front of itself.                             *)
LEMMA QueuesMakeNoCycle == QueueInv => NoStartDeadlock
<1> SUFFICES ASSUME QueueInv, NEW group \in SUBSET Sessions, group # {},
                    \A s \in group : \E v \in group : WaitsFor(s, v)
             PROVE  FALSE
  BY DEF NoStartDeadlock
<1> DEFINE level(s) == Level(NextLock(s))
           heights == {10 - level(s) : s \in group}
<1>1. \A s \in group : s \in waiting /\ s \in Sessions
  BY DEF WaitsFor
<1>2. ASSUME NEW s \in group
      PROVE  /\ level(s) \in 0 .. 10
             /\ \A i \in 1 .. taken[s] : Level(Plan(s)[i]) < level(s)
  <2>1. taken[s] \in Nat /\ taken[s] + 1 \in 1 .. Len(Plan(s)) /\ Len(Plan(s)) \in Nat
    <3>1. taken[s] \in 0 .. Len(Plan(s)) /\ taken[s] # Len(Plan(s))
      BY <1>1 DEF QueueInv, SessionInv, Done
    <3>2. Len(Plan(s)) \in Nat
      BY PlansClimb DEF Climbs
    <3> QED
      BY <3>1, <3>2
  <2>2. \A i \in 1 .. taken[s] : i \in 1 .. Len(Plan(s)) /\ i < taken[s] + 1
    BY <2>1
  <2> QED
    BY <2>1, <2>2, PlansClimb DEF Climbs, NextLock
<1>3. heights \subseteq Nat /\ heights # {}
  BY <1>2
<1>4. PICK h \in heights : \A n \in heights : ~(n < h)
  <2> HIDE DEF heights
  <2> QED
    BY <1>3, LeastExists
<1>5. PICK t \in group : h = 10 - level(t)
  BY <1>4
<1>6. ASSUME NEW s \in group
      PROVE  level(s) <= level(t)
  <2>1. ~(10 - level(s) < 10 - level(t))
    BY <1>4, <1>5
  <2>2. level(s) \in 0 .. 10 /\ level(t) \in 0 .. 10
    BY <1>2
  <2> HIDE DEF level
  <2> QED
    BY <2>1, <2>2
<1> DEFINE top == {s \in group : NextLock(s) = NextLock(t)}
           sizes == {Cardinality(ahead[s]) : s \in top}
<1>7. ASSUME NEW s \in group
      PROVE  IsFiniteSet(ahead[s]) /\ Cardinality(ahead[s]) \in Nat
  <2>1. ahead[s] \subseteq waiting /\ IsFiniteSet(waiting)
    BY <1>1 DEF QueueInv, SessionInv
  <2> QED
    BY <2>1, FS_Subset, FS_CardinalityType
<1>8. sizes \subseteq Nat /\ sizes # {}
  BY <1>7
<1>9. PICK least \in sizes : \A n \in sizes : ~(n < least)
  <2> HIDE DEF sizes
  <2> QED
    BY <1>8, LeastExists
<1>10. PICK s \in top : least = Cardinality(ahead[s])
  BY <1>9
<1>11. PICK v \in group : WaitsFor(s, v)
  BY <1>10
<1>12. CASE Holds(v, NextLock(s))
  <2>1. PICK i \in 1 .. taken[v] : Plan(v)[i] = NextLock(t)
    BY <1>10, <1>12 DEF Holds
  <2>2. level(t) < level(v)
    BY <1>2, <2>1
  <2> QED
    BY <1>2, <1>6, <2>2
<1>13. CASE v \in ahead[s]
  <2>1. NextLock(v) = NextLock(s) /\ ahead[v] \subseteq ahead[s] /\ v \notin ahead[v]
    BY <1>1, <1>10, <1>13 DEF QueueInv, SessionInv
  <2>2. v \in top /\ ahead[v] # ahead[s]
    BY <1>10, <1>13, <2>1
  <2>3. Cardinality(ahead[v]) < Cardinality(ahead[s])
    <3>1. /\ Cardinality(ahead[v]) <= Cardinality(ahead[s])
          /\ Cardinality(ahead[s]) # Cardinality(ahead[v])
      BY <1>7, <1>10, <2>1, <2>2, FS_Subset
    <3> QED
      BY <1>7, <1>10, <3>1
  <2> QED
    BY <1>9, <1>10, <2>2, <2>3
<1> QED
  <2>1. Holds(v, NextLock(s)) \/ v \in ahead[s]
    BY <1>1, <1>10, <1>11 DEF WaitsFor, Blocks, Queue
  <2> QED
    BY <1>12, <1>13, <2>1

(* However many processes start while others serve however many requests,    *)
(* PostgreSQL has no deadlock to break.                                      *)
THEOREM StartsDoNotDeadlock == Spec => []NoStartDeadlock
  BY QueueInvariance, QueuesMakeNoCycle, PTL

-----------------------------------------------------------------------------
(* Types *)

JobTypes ==
    /\ job \in [Workers -> Jobs \cup {"read_executed", "read_back", None}]
    /\ overtaken \subseteq Processes /\ refused \subseteq Processes

(* Threads run jobs, and marks are on processes. *)
LEMMA JobTypesKept == JobTypes /\ [Next]_vars => JobTypes'
<1> SUFFICES ASSUME JobTypes, [Next]_vars
             PROVE  JobTypes'
  OBVIOUS
<1>1. CASE UNCHANGED <<job, overtaken, refused>>
  BY <1>1 DEF JobTypes
<1>2. ASSUME NEW p \in Processes, Start(p) \/ Refuse(p) \/ CommitStart(p)
      PROVE  JobTypes'
  BY <1>2 DEF JobTypes, Start, Refuse, CommitStart
<1>3. ASSUME NEW p \in Processes, Stop(p)
      PROVE  JobTypes'
  BY <1>3 DEF JobTypes, Stop
<1>4. ASSUME NEW w \in Workers, Finish(w) \/ Abort(w) \/ \E j \in Jobs : Begin(w, j)
      PROVE  JobTypes'
  BY <1>4 DEF JobTypes, Finish, Abort, Begin, starts
<1> QED
  BY <1>1, <1>2, <1>3, <1>4
     DEF Next, vars, StartStep, RequestStep, DefineFunction, ReplaceTrigger, RequestLock, Wait, starts

(* Everything stays in its type; in particular no transaction ever takes     *)
(* more locks than its plan has.                                             *)
THEOREM StartupTyped == Spec => []TypeOK
<1>1. Init => JobTypes
  BY DEF Init, JobTypes
<1>2. CatalogInv /\ QueueInv /\ JobTypes => TypeOK
  <2> SUFFICES ASSUME CatalogInv, QueueInv, JobTypes
               PROVE  TypeOK
    OBVIOUS
  <2>1. \A s \in Sessions : taken[s] \in 0 .. 6
    <3> SUFFICES ASSUME NEW s \in Sessions
                 PROVE  taken[s] \in 0 .. 6
      OBVIOUS
    <3>1. taken[s] \in 0 .. Len(Plan(s)) /\ Len(Plan(s)) \in 0 .. 6
      BY PlansClimb DEF QueueInv, SessionInv, Climbs
    <3>2. \A n \in 0 .. 6 : \A k \in 0 .. n : k \in 0 .. 6
      OBVIOUS
    <3> QED
      BY <3>1, <3>2
  <2>2. taken \in [Sessions -> 0 .. 6]
    BY <2>1 DEF QueueInv
  <2>3. guard \in [Tables -> Guards]
    BY DEF CatalogInv, Absent, Guarded, Guards
  <2> QED
    BY <2>2, <2>3 DEF CatalogInv, QueueInv, JobTypes, TypeOK
<1> QED
  BY <1>1, <1>2, JobTypesKept, CatalogInvariance, QueueInvariance, PTL DEF Spec
=============================================================================
