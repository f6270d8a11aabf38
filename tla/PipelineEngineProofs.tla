------------------------ MODULE PipelineEngineProofs ------------------------
(***************************************************************************)
(* Theorems about PipelineEngine, for every set of pipelines, every graph  *)
(* of stages, every set of locks and every capacity.                       *)
(***************************************************************************)
EXTENDS PipelineEngine, FiniteSetTheorems, WellFoundedInduction, TLAPS

-----------------------------------------------------------------------------
(* Resource locks.                                                         *)

\* A set of natural numbers has a least one.
LEMMA LeastNatural ==
    ASSUME NEW S \in SUBSET Nat, S # {}
    PROVE  \E m \in S : \A k \in S : m <= k
<1> DEFINE R == {ss \in Nat \X Nat : ss[1] < ss[2]}
<1>1. IsWellFoundedOn(R, Nat)
  BY NatLessThanWellFounded DEF OpToRel
<1>2. PICK m \in S : \A k \in S : <<k, m>> \notin R
  <2> HIDE DEF R
  <2> QED BY <1>1, WFMin
<1>3. ASSUME NEW k \in S PROVE m <= k
  <2>1. k \in Nat /\ m \in Nat /\ <<k, m>> \notin R
    BY <1>2
  <2>2. ~(k < m)
    BY <2>1
  <2> QED BY <2>1, <2>2
<1> QED BY <1>3

\* What a stage declares are locks, and the entries of Requires are numbered.
LEMMA LocksAreLocks ==
    ASSUME NEW s \in Stages
    PROVE  /\ DOMAIN Requires[s] = 1 .. Len(Requires[s]) /\ Len(Requires[s]) \in Nat
           /\ \A i \in DOMAIN Requires[s] : Requires[s][i] \in Locks
  BY PipelineAssumption

\* A task that misses a permit has a next entry, whose lock is of least rank.
LEMMA NextLockIsLeast ==
    ASSUME NEW t \in Tasks, Missing(t) # {}
    PROVE  /\ NextEntry(t) \in Missing(t)
           /\ NextLock(t) \in Locks
           /\ \A k \in Missing(t) : Lock(t, k) \in Locks /\ Rank[NextLock(t)] <= Rank[Lock(t, k)]
<1>1. \A k \in Missing(t) : Lock(t, k) \in Locks
  BY LocksAreLocks DEF Missing, Tasks, Lock
<1> DEFINE ranks == {Rank[Lock(t, k)] : k \in Missing(t)}
<1>2. ranks \in SUBSET Nat /\ ranks # {}
  BY <1>1, PipelineAssumption
<1>3. PICK m \in ranks : \A r \in ranks : m <= r
  <2> HIDE DEF ranks
  <2> QED BY <1>2, LeastNatural
<1>4. \E i \in Missing(t) : \A k \in Missing(t) : Rank[Lock(t, i)] <= Rank[Lock(t, k)]
  BY <1>3
<1>5. /\ NextEntry(t) \in Missing(t)
      /\ \A k \in Missing(t) : Rank[Lock(t, NextEntry(t))] <= Rank[Lock(t, k)]
  BY <1>4 DEF NextEntry
<1> QED BY <1>1, <1>5 DEF NextLock

\* A task takes its locks by rank: it has none before it is spawned, all when
\* it executes, and in between none that comes after one it misses.
TakenInOrder(t) ==
    /\ t.held \subseteq DOMAIN Requires[t.stage]
    /\ t.phase = "launching" => t.held = {}
    /\ t.phase = "executing" => t.held = DOMAIN Requires[t.stage]
    /\ t.phase = "locking" =>
         /\ Missing(t) # {}
         /\ \A k \in t.held, i \in Missing(t) : Rank[Lock(t, k)] <= Rank[Lock(t, i)]

\* The permits of l that are out.
Out(l) == PermitsOf(tasks, l)

\* The invariant of the semaphores.
LocksInv ==
    /\ IsFiniteSet(tasks)
    /\ \A t \in tasks : t.stage \in Stages /\ TakenInOrder(t)
    /\ \A l \in Locks : Cardinality(Out(l)) <= Capacity[l]

\* A permit is an entry of a task that holds it.
LEMMA PermitsAreHeld ==
    ASSUME NEW T, NEW l
    PROVE  /\ \A t, i : <<t, i>> \in PermitsOf(T, l) <=> t \in T /\ i \in t.held /\ Lock(t, i) = l
           /\ \A x \in PermitsOf(T, l) : x = <<x[1], x[2]>>
  BY DEF PermitsOf

\* A set that a function maps onto another is at least as large.
LEMMA ImageIsNotLarger ==
    ASSUME NEW S, IsFiniteSet(S), NEW T, NEW f \in [S -> T],
           \A y \in T : \E x \in S : f[x] = y
    PROVE  IsFiniteSet(T) /\ Cardinality(T) <= Cardinality(S)
<1>1. f \in Surjection(S, T)
  BY DEF Surjection
<1> QED BY <1>1, FS_Surjection

\* Finitely many tasks have finitely many permits.
LEMMA PermitsAreFinite ==
    ASSUME NEW T, IsFiniteSet(T), \A t \in T : t.stage \in Stages /\ TakenInOrder(t), NEW l
    PROVE  IsFiniteSet(PermitsOf(T, l)) /\ Cardinality(PermitsOf(T, l)) \in Nat
<1> DEFINE P(t) == {t} \X {i \in t.held : Lock(t, i) = l}
           F == [t \in T |-> P(t)]
           PP == {P(t) : t \in T}
<1>1. ASSUME NEW t \in T PROVE IsFiniteSet(P(t))
  <2> DEFINE I == {i \in t.held : Lock(t, i) = l}
             n == Len(Requires[t.stage])
  <2>1. I \in SUBSET (1 .. n) /\ n \in Nat
    BY LocksAreLocks DEF TakenInOrder
  <2>2. IsFiniteSet(1 .. n)
    BY <2>1, FS_Interval
  <2> HIDE DEF I, n
  <2>3. IsFiniteSet(I) /\ IsFiniteSet({t})
    BY <2>1, <2>2, FS_Subset, FS_Singleton
  <2>4. IsFiniteSet({t} \X I)
    BY <2>3, FS_Product
  <2> QED BY <2>4 DEF I
<1>2. IsFiniteSet(PP)
  <2>1. F \in [T -> PP] /\ \A y \in PP : \E x \in T : F[x] = y
    OBVIOUS
  <2> HIDE DEF F, PP
  <2> QED BY <2>1, ImageIsNotLarger
<1>3. \A X \in PP : IsFiniteSet(X)
  BY <1>1
<1>4. PermitsOf(T, l) = UNION PP
  BY DEF PermitsOf
<1> HIDE DEF PP
<1> QED BY <1>2, <1>3, <1>4, FS_UNION, FS_CardinalityType

\* The permits that are out are finitely many.
LEMMA OutIsFinite ==
    ASSUME LocksInv, NEW l
    PROVE  IsFiniteSet(Out(l)) /\ Cardinality(Out(l)) \in Nat
  BY PermitsAreFinite DEF LocksInv, Out

\* Tasks that hold nothing new do not overrun a semaphore: tasks that leave,
\* drop their permits or move on without one.
LEMMA NoPermitTaken ==
    ASSUME LocksInv, IsFiniteSet(tasks'),
           \A t \in tasks' : t.stage \in Stages /\ TakenInOrder(t),
           \A l \in Locks : Cardinality(Out(l)') <= Cardinality(Out(l))
    PROVE  LocksInv'
<1>1. ASSUME NEW l \in Locks PROVE Cardinality(Out(l)') \in Nat
  <2>1. Out(l)' = PermitsOf(tasks', l)
    BY DEF Out, PermitsOf, Lock
  <2> QED BY <2>1, PermitsAreFinite
<1>2. \A l \in Locks : Cardinality(Out(l)') <= Capacity[l]
  <2> SUFFICES ASSUME NEW l \in Locks PROVE Cardinality(Out(l)') <= Capacity[l]
    OBVIOUS
  <2>1. /\ Cardinality(Out(l)') \in Nat /\ Cardinality(Out(l)) \in Nat /\ Capacity[l] \in Nat
        /\ Cardinality(Out(l)) <= Capacity[l] /\ Cardinality(Out(l)') <= Cardinality(Out(l))
    BY <1>1, OutIsFinite, PipelineAssumption DEF LocksInv
  <2> QED BY <2>1
<1> QED BY <1>2 DEF LocksInv, TakenInOrder, Missing, Lock

\* A task ends: NoExecutor, Leave, LockFails, Complete and Fail.
LEMMA TaskEnds ==
    ASSUME LocksInv, NEW t, tasks' = tasks \ {t}
    PROVE  LocksInv'
<1>1. IsFiniteSet(tasks') /\ \A u \in tasks' : u.stage \in Stages /\ TakenInOrder(u)
  BY FS_RemoveElement DEF LocksInv
<1>2. ASSUME NEW l \in Locks PROVE Cardinality(Out(l)') <= Cardinality(Out(l))
  <2>1. Out(l)' \in SUBSET Out(l)
    BY DEF Out, PermitsOf, Lock
  <2> QED BY <2>1, OutIsFinite, FS_Subset
<1> QED BY <1>1, <1>2, NoPermitTaken

\* Task t goes on as u: those of the permits that are out then which t or
\* another task had before are not more than were out before.
LEMMA PermitsMove ==
    ASSUME LocksInv, NEW t \in tasks, NEW u, Moved(t, u), u.stage = t.stage,
           NEW l, NEW Q \in SUBSET Out(l)',
           \A i : <<u, i>> \in Q => i \in t.held
    PROVE  IsFiniteSet(Q) /\ Cardinality(Q) \in Nat /\ Cardinality(Q) <= Cardinality(Out(l))
<1> DEFINE g(x) == IF x[1] = t THEN <<u, x[2]>> ELSE x
           D == {x \in Out(l) : g(x) \in Q}
           f == [x \in D |-> g(x)]
<1>1. f \in [D -> Q]
  OBVIOUS
<1>2. ASSUME NEW y \in Q PROVE \E x \in D : f[x] = y
  <2>1. Out(l)' = PermitsOf(tasks', l)
    BY DEF Out, PermitsOf, Lock
  <2>a. PICK v \in tasks' : \E i \in v.held : y = <<v, i>> /\ Lock(v, i) = l
    BY <2>1 DEF PermitsOf
  <2>2. PICK i \in v.held : y = <<v, i>> /\ Lock(v, i) = l
    BY <2>a
  <2>3. CASE v = u
    <3>1. i \in t.held /\ Lock(t, i) = l
      BY <2>2, <2>3 DEF Lock
    <3>2. <<t, i>> \in Out(l)
      BY <3>1, PermitsAreHeld DEF Out
    <3>3. g(<<t, i>>) = y
      BY <2>2, <2>3
    <3> QED BY <3>2, <3>3
  <2>4. CASE v # u
    <3>1. v \in tasks /\ v # t
      BY <2>4 DEF Moved
    <3>2. <<v, i>> \in Out(l)
      BY <2>2, <3>1, PermitsAreHeld DEF Out
    <3>3. g(<<v, i>>) = y
      BY <2>2, <3>1
    <3> QED BY <2>2, <3>2, <3>3
  <2> QED BY <2>3, <2>4
<1>3. D \in SUBSET Out(l)
  OBVIOUS
<1> HIDE DEF D, f
<1>4. IsFiniteSet(D) /\ Cardinality(D) <= Cardinality(Out(l)) /\ Cardinality(Out(l)) \in Nat
  BY <1>3, OutIsFinite, FS_Subset
<1>5. IsFiniteSet(Q) /\ Cardinality(Q) <= Cardinality(D)
  BY <1>1, <1>2, <1>4, ImageIsNotLarger
<1>6. Cardinality(Q) \in Nat /\ Cardinality(D) \in Nat
  BY <1>4, <1>5, FS_CardinalityType
<1> QED BY <1>4, <1>5, <1>6

\* A task goes on without a new permit: Spawn and ExecutorReturns.
LEMMA TaskMovesOn ==
    ASSUME LocksInv, NEW t \in tasks, NEW u, Moved(t, u), u.stage = t.stage,
           u.held \subseteq t.held, TakenInOrder(u)
    PROVE  LocksInv'
<1>1. IsFiniteSet(tasks') /\ \A v \in tasks' : v.stage \in Stages /\ TakenInOrder(v)
  BY FS_RemoveElement, FS_AddElement DEF LocksInv, Moved
<1>2. ASSUME NEW l \in Locks PROVE Cardinality(Out(l)') <= Cardinality(Out(l))
  <2>1. Out(l)' = PermitsOf(tasks', l)
    BY DEF Out, PermitsOf, Lock
  <2>2. \A i : <<u, i>> \in Out(l)' => i \in t.held
    BY <2>1, PermitsAreHeld
  <2> QED BY <2>2, PermitsMove
<1> QED BY <1>1, <1>2, NoPermitTaken

\* A task goes on with one free permit more: Acquire.
LEMMA TaskTakesPermit ==
    ASSUME LocksInv, NEW t \in tasks, NEW u, Moved(t, u), u.stage = t.stage, TakenInOrder(u),
           NEW e, Lock(t, e) \in Locks, Free(Lock(t, e)), u.held = t.held \cup {e}
    PROVE  LocksInv'
<1>1. IsFiniteSet(tasks') /\ \A v \in tasks' : v.stage \in Stages /\ TakenInOrder(v)
  BY FS_RemoveElement, FS_AddElement DEF LocksInv, Moved
<1>2. ASSUME NEW l \in Locks PROVE Cardinality(Out(l)') <= Capacity[l]
  <2> DEFINE Q == Out(l)' \ {<<u, e>>}
  <2>0. Out(l)' = PermitsOf(tasks', l)
    BY DEF Out, PermitsOf, Lock
  <2>1. \A i : <<u, i>> \in Q => i \in t.held
    BY <2>0, PermitsAreHeld
  <2>2. IsFiniteSet(Q) /\ Cardinality(Q) \in Nat /\ Cardinality(Q) <= Cardinality(Out(l))
    <3>1. Q \in SUBSET Out(l)'
      OBVIOUS
    <3> HIDE DEF Q
    <3> QED BY <2>1, <3>1, PermitsMove
  <2>3. /\ Capacity[l] \in Nat /\ Cardinality(Out(l)) \in Nat
        /\ Cardinality(Out(l)) <= Capacity[l]
    BY OutIsFinite, PipelineAssumption DEF LocksInv
  <2>4. CASE <<u, e>> \notin Out(l)'
    <3>1. Q = Out(l)'
      BY <2>4
    <3> HIDE DEF Q
    <3>2. Cardinality(Q) <= Capacity[l]
      BY <2>2, <2>3
    <3> QED BY <3>1, <3>2
  <2>5. CASE <<u, e>> \in Out(l)'
    <3>1. l = Lock(t, e)
      BY <2>0, <2>5, PermitsAreHeld DEF Lock
    <3>2. Cardinality(Out(l)) < Capacity[l]
      BY <3>1 DEF Free, Out
    <3>3. Out(l)' = Q \cup {<<u, e>>} /\ <<u, e>> \notin Q
      BY <2>5
    <3> HIDE DEF Q
    <3>4. Cardinality(Out(l)') = Cardinality(Q) + 1
      BY <2>2, <3>3, FS_AddElement
    <3> QED BY <2>2, <2>3, <3>2, <3>4
  <2> QED BY <2>4, <2>5
<1> QED BY <1>1, <1>2 DEF LocksInv, TakenInOrder, Missing, Lock

\* A task is told to stop and holds what it held: Cancel.
ToldToStop(t, S) == [t EXCEPT !.cancelled = @ \/ t \in S]

LEMMA TasksAreTold ==
    ASSUME TypeOK, LocksInv, NEW S, tasks' = {ToldToStop(t, S) : t \in tasks}
    PROVE  LocksInv' /\ tasks' \subseteq Tasks
<1>1. \A t \in Tasks : /\ ToldToStop(t, S) \in Tasks
                       /\ ToldToStop(t, S).held = t.held
                       /\ ToldToStop(t, S).phase = t.phase
                       /\ ToldToStop(t, S).stage = t.stage
  BY DEF Tasks, ToldToStop
<1>2. ASSUME NEW u \in tasks' PROVE u \in Tasks /\ u.stage \in Stages /\ TakenInOrder(u)
  <2>1. PICK t \in tasks : u = ToldToStop(t, S)
    OBVIOUS
  <2>2. /\ t.stage \in Stages /\ TakenInOrder(t) /\ u \in Tasks
        /\ u.held = t.held /\ u.phase = t.phase /\ u.stage = t.stage
    BY <1>1, <2>1 DEF TypeOK, LocksInv
  <2> QED BY <2>2 DEF TakenInOrder, Missing, Lock
<1>3. IsFiniteSet(tasks')
  <2> DEFINE f == [t \in tasks |-> ToldToStop(t, S)]
  <2>1. f \in [tasks -> tasks'] /\ \A u \in tasks' : \E t \in tasks : f[t] = u
    OBVIOUS
  <2> HIDE DEF f
  <2> QED BY <2>1, ImageIsNotLarger DEF LocksInv
<1>4. ASSUME NEW l \in Locks PROVE Cardinality(Out(l)') <= Cardinality(Out(l))
  <2> DEFINE f == [x \in Out(l) |-> <<ToldToStop(x[1], S), x[2]>>]
  <2>0. Out(l)' = PermitsOf(tasks', l)
    BY DEF Out, PermitsOf, Lock
  <2>1. ASSUME NEW x \in Out(l) PROVE f[x] \in Out(l)'
    <3>a. PICK t \in tasks : \E i \in t.held : x = <<t, i>> /\ Lock(t, i) = l
      BY DEF Out, PermitsOf
    <3>1. PICK i \in t.held : x = <<t, i>> /\ Lock(t, i) = l
      BY <3>a
    <3>2. f[x] = <<ToldToStop(t, S), i>>
      BY <3>1
    <3>3. ToldToStop(t, S) \in tasks' /\ i \in ToldToStop(t, S).held
          /\ Lock(ToldToStop(t, S), i) = l
      BY <1>1, <3>1 DEF TypeOK, Lock
    <3> HIDE DEF f
    <3> QED BY <2>0, <3>2, <3>3, PermitsAreHeld
  <2>2. ASSUME NEW y \in Out(l)' PROVE \E x \in Out(l) : f[x] = y
    <3>a. PICK v \in tasks' : \E i \in v.held : y = <<v, i>> /\ Lock(v, i) = l
      BY <2>0 DEF PermitsOf
    <3>1. PICK i \in v.held : y = <<v, i>> /\ Lock(v, i) = l
      BY <3>a
    <3>2. PICK t \in tasks : v = ToldToStop(t, S)
      OBVIOUS
    <3>3. i \in t.held /\ Lock(t, i) = l
      BY <1>1, <3>1, <3>2 DEF TypeOK, Lock
    <3>4. <<t, i>> \in Out(l)
      BY <3>3, PermitsAreHeld DEF Out
    <3> QED BY <3>1, <3>2, <3>4
  <2>3. f \in [Out(l) -> Out(l)']
    BY <2>1
  <2> HIDE DEF f
  <2> QED BY <2>2, <2>3, OutIsFinite, ImageIsNotLarger
<1> QED BY <1>2, <1>3, <1>4, NoPermitTaken
-----------------------------------------------------------------------------
(* Type correctness, with the semaphores.                                  *)

\* The stages and attempts of one pipeline are replaced, or one of them.
LEMMA StagesAreTyped ==
    ASSUME TypeOK, NEW p \in Pipelines
    PROVE  /\ \A st \in [Stages -> StageStates] :
                [stage EXCEPT ![p] = st] \in [Pipelines -> [Stages -> StageStates]]
           /\ \A s \in Stages, x \in StageStates :
                [stage EXCEPT ![p][s] = x] \in [Pipelines -> [Stages -> StageStates]]
           /\ \A x \in PipelineStates :
                [pipe EXCEPT ![p] = x] \in [Pipelines -> PipelineStates]
  BY DEF TypeOK

\* An attempt is counted, and no stage has more than its own.
AttemptsOK(a) ==
    /\ a \in [Pipelines -> [Stages -> Nat]]
    /\ \A p \in Pipelines, s \in Stages : a[p][s] <= MaxAttempts[s]

LEMMA AttemptsAreTyped ==
    ASSUME AttemptsOK(attempts), NEW p \in Pipelines, NEW s \in Stages,
           NEW n \in Nat, n <= MaxAttempts[s]
    PROVE  AttemptsOK([attempts EXCEPT ![p][s] = n])
  BY DEF AttemptsOK

\* exhaust_stage leaves registry state.
LEMMA ExhaustIsTyped ==
    ASSUME TypeOK, NEW p \in Pipelines, NEW s \in Stages, Exhaust(p, s)
    PROVE  /\ pipe' \in [Pipelines -> PipelineStates]
           /\ stage' \in [Pipelines -> [Stages -> StageStates]]
           /\ AttemptsOK(attempts')
<1>1. pipe' \in [Pipelines -> PipelineStates]
  BY DEF Exhaust, TypeOK, PipelineStates
<1>2. stage' \in [Pipelines -> [Stages -> StageStates]]
  <2> DEFINE st == [x \in Stages |->
           IF x = s THEN "Exhausted"
           ELSE IF x \in Graph[p] /\ stage[p][x] \in {"Pending", "Failed"} THEN "Skipped"
           ELSE stage[p][x]]
  <2>1. st \in [Stages -> StageStates]
    BY DEF TypeOK, StageStates
  <2>2. stage' = [stage EXCEPT ![p] = st]
    BY DEF Exhaust
  <2> HIDE DEF st
  <2> QED BY <2>1, <2>2, StagesAreTyped
<1>3. AttemptsOK(attempts')
  <2>1. AttemptsOK(attempts)
    BY DEF TypeOK, AttemptsOK
  <2>2. MaxAttempts[s] \in Nat /\ MaxAttempts[s] <= MaxAttempts[s]
    BY PipelineAssumption
  <2> QED BY <2>1, <2>2, AttemptsAreTyped DEF Exhaust
<1> QED BY <1>1, <1>2, <1>3

\* So does mark_stage_failed.
LEMMA MarkFailedIsTyped ==
    ASSUME TypeOK, NEW p \in Pipelines, NEW s \in Stages, MarkFailed(p, s)
    PROVE  /\ pipe' \in [Pipelines -> PipelineStates]
           /\ stage' \in [Pipelines -> [Stages -> StageStates]]
           /\ AttemptsOK(attempts')
<1>1. CASE attempts[p][s] + 1 >= MaxAttempts[s]
  BY <1>1, ExhaustIsTyped DEF MarkFailed
<1>2. CASE ~(attempts[p][s] + 1 >= MaxAttempts[s])
  <2>1. /\ stage' = [stage EXCEPT ![p][s] = "Failed"]
        /\ attempts' = [attempts EXCEPT ![p][s] = attempts[p][s] + 1]
        /\ pipe' = pipe
    BY <1>2 DEF MarkFailed, TypeOK
  <2>2. attempts[p][s] + 1 \in Nat /\ attempts[p][s] + 1 <= MaxAttempts[s]
    BY <1>2, PipelineAssumption DEF TypeOK
  <2>3. AttemptsOK(attempts)
    BY DEF TypeOK, AttemptsOK
  <2>4. "Failed" \in StageStates
    BY DEF StageStates
  <2> QED BY <2>1, <2>2, <2>3, <2>4, AttemptsAreTyped, StagesAreTyped DEF TypeOK
<1> QED BY <1>1, <1>2

\* The failure path of an executor task.
LEMMA FinishFailureIsTyped ==
    ASSUME TypeOK, LocksInv, NEW t \in tasks, FinishFailure(t)
    PROVE  TypeOK' /\ LocksInv'
<1>1. t \in Tasks /\ t.stage \in Stages /\ tasks' = tasks \ {t}
  BY DEF TypeOK, Tasks, FinishFailure
<1>2. /\ pipe' \in [Pipelines -> PipelineStates]
      /\ stage' \in [Pipelines -> [Stages -> StageStates]]
      /\ AttemptsOK(attempts')
  <2>1. CASE UNCHANGED <<pipe, stage, attempts>>
    BY <2>1 DEF TypeOK, AttemptsOK
  <2>2. CASE \E p \in Pipelines : MarkFailed(p, t.stage)
    BY <1>1, <2>2, MarkFailedIsTyped
  <2> QED BY <2>1, <2>2 DEF FinishFailure, Owners
<1>3. timers' \in [Stages -> 0 .. MaxTimers]
  <2>1. timers[t.stage] + 1 \in 0 .. MaxTimers
    BY <1>1, PipelineAssumption DEF FinishFailure, TypeOK
  <2>2. timers' = timers \/ timers' = [timers EXCEPT ![t.stage] = timers[t.stage] + 1]
    BY DEF FinishFailure
  <2> QED BY <1>1, <2>1, <2>2 DEF TypeOK
<1>4. LocksInv'
  BY <1>1, TaskEnds
<1> QED BY <1>1, <1>2, <1>3, <1>4 DEF TypeOK, AttemptsOK, FinishFailure, Tasks, Phases

\* The engine starts with typed state and with every permit free.
LEMMA InitIsTyped == Init => TypeOK /\ LocksInv
<1> SUFFICES ASSUME Init PROVE TypeOK /\ LocksInv
  OBVIOUS
<1>1. TypeOK
  BY PipelineAssumption DEF Init, TypeOK, PipelineStates, StageStates
<1>2. ASSUME NEW l \in Locks PROVE Cardinality(Out(l)) <= Capacity[l]
  <2>1. Out(l) = {}
    BY DEF Init, Out, PermitsOf
  <2> QED BY <2>1, FS_EmptySet, PipelineAssumption
<1> QED BY <1>1, <1>2, FS_EmptySet DEF Init, LocksInv

\* Every action leaves the state typed and no semaphore overrun.
LEMMA StepIsTyped == TypeOK /\ LocksInv /\ [Next]_vars => TypeOK' /\ LocksInv'
<1> SUFFICES ASSUME TypeOK, LocksInv, [Next]_vars PROVE TypeOK' /\ LocksInv'
  OBVIOUS
<1>a. tasks' = tasks => LocksInv'
  BY DEF LocksInv, TakenInOrder, Missing, Lock, Out, PermitsOf
<1>b. \A t \in tasks : t \in Tasks /\ t.pipeline \in Pipelines /\ t.stage \in Stages
  BY DEF TypeOK, Tasks
<1>1. ASSUME NEW p \in Pipelines, Submit(p) PROVE TypeOK' /\ LocksInv'
  BY <1>1, <1>a DEF Submit, TypeOK, PipelineStates, Tasks
<1>2. ASSUME NEW p \in Pipelines, Cancel(p) PROVE TypeOK' /\ LocksInv'
  <2> DEFINE unsettled == {s \in Graph[p] : stage[p][s] \in {"Pending", "Running", "Failed"}}
             told == {t \in tasks : t.pipeline = p /\ t.stage \in unsettled}
             st == [s \in Stages |-> IF s \in unsettled THEN "Cancelled" ELSE stage[p][s]]
  <2>1. tasks' = {ToldToStop(t, told) : t \in tasks}
    BY <1>2 DEF Cancel, ToldToStop
  <2>2. tasks' \subseteq Tasks /\ LocksInv'
    <3> HIDE DEF told
    <3> QED BY <2>1, TasksAreTold
  <2>3. st \in [Stages -> StageStates] /\ stage' = [stage EXCEPT ![p] = st]
    BY <1>2 DEF Cancel, TypeOK, StageStates
  <2>4. stage' \in [Pipelines -> [Stages -> StageStates]]
    <3> HIDE DEF st
    <3> QED BY <2>3, StagesAreTyped
  <2> QED BY <1>2, <2>2, <2>4 DEF Cancel, TypeOK, PipelineStates
<1>3. ASSUME NEW s \in Stages, Retry(s) PROVE TypeOK' /\ LocksInv'
  <2>1. PICK p \in Pipelines, reset \in SUBSET Stages, fresh \in SUBSET Stages :
           /\ stage' = [stage EXCEPT ![p] = [x \in Stages |->
                  IF x \in reset THEN "Pending" ELSE stage[p][x]]]
           /\ attempts' = [attempts EXCEPT ![p] = [x \in Stages |->
                  IF x \in fresh THEN 0 ELSE attempts[p][x]]]
           /\ pipe' = [pipe EXCEPT ![p] = Reopened(p)]
    <3>1. PICK p \in Owners(s) :
           LET reset == {s} \cup
                  {x \in Graph[p] : /\ stage[p][s] = "Exhausted"
                                    /\ stage[p][x] \in {"Failed", "Exhausted", "Cancelled",
                                                        "Skipped"}}
               fresh == IF stage[p][s] = "Exhausted" THEN reset ELSE {}
           IN /\ stage' = [stage EXCEPT ![p] = [x \in Stages |->
                     IF x \in reset THEN "Pending" ELSE stage[p][x]]]
              /\ attempts' = [attempts EXCEPT ![p] = [x \in Stages |->
                     IF x \in fresh THEN 0 ELSE attempts[p][x]]]
              /\ pipe' = [pipe EXCEPT ![p] = Reopened(p)]
      BY <1>3 DEF Retry
    <3> DEFINE reset == {s} \cup
                  {x \in Graph[p] : /\ stage[p][s] = "Exhausted"
                                    /\ stage[p][x] \in {"Failed", "Exhausted", "Cancelled",
                                                        "Skipped"}}
               fresh == IF stage[p][s] = "Exhausted" THEN reset ELSE {}
    <3>2. p \in Pipelines /\ reset \in SUBSET Stages /\ fresh \in SUBSET Stages
      BY PipelineAssumption DEF Owners
    <3> HIDE DEF fresh
    <3> USE <3>2
    <3> WITNESS p \in Pipelines, reset \in SUBSET Stages, fresh \in SUBSET Stages
    <3> QED BY <3>1 DEF fresh
  <2>2. stage' \in [Pipelines -> [Stages -> StageStates]]
    <3> DEFINE st == [x \in Stages |-> IF x \in reset THEN "Pending" ELSE stage[p][x]]
    <3>1. st \in [Stages -> StageStates] /\ stage' = [stage EXCEPT ![p] = st]
      BY <2>1 DEF TypeOK, StageStates
    <3> HIDE DEF st
    <3> QED BY <3>1, StagesAreTyped
  <2>3. AttemptsOK(attempts')
    BY <2>1, PipelineAssumption DEF TypeOK, AttemptsOK
  <2>4. pipe' \in [Pipelines -> PipelineStates]
    BY <2>1 DEF TypeOK, Reopened, PipelineStates
  <2> QED BY <1>3, <1>a, <2>2, <2>3, <2>4 DEF Retry, TypeOK, AttemptsOK, Tasks, Phases
<1>4. CASE ReadReady
  BY <1>4, <1>a DEF ReadReady, TypeOK, ReadyStages, Tasks, Phases
<1>5. ASSUME NEW p \in Pipelines, NEW s \in Stages, Mark(p, s) PROVE TypeOK' /\ LocksInv'
  <2>1. CASE UNCHANGED <<pipe, stage, tasks>>
    BY <1>5, <1>a, <2>1 DEF Mark, TypeOK, Tasks, Phases
  <2>2. CASE ~UNCHANGED <<pipe, stage, tasks>>
    <3> DEFINE new(n) == [pipeline |-> p, stage |-> s, n |-> n, phase |-> "launching",
                          held |-> {}, cancelled |-> FALSE]
    <3>1. PICK n \in 1 .. MaxTasks : tasks' = tasks \cup {new(n)}
      BY <1>5, <2>2 DEF Mark
    <3>2. new(n) \in Tasks /\ new(n).held = {} /\ TakenInOrder(new(n))
      BY DEF Tasks, Phases, TakenInOrder
    <3> HIDE DEF new
    <3>3. IsFiniteSet(tasks')
      BY <3>1, FS_AddElement DEF LocksInv
    <3>4. \A l \in Locks : Out(l)' = Out(l)
      <4> SUFFICES ASSUME NEW l \in Locks
          PROVE  PermitsOf(tasks', l) = PermitsOf(tasks, l)
        BY DEF Out, PermitsOf, Lock
      <4>1. PermitsOf(tasks', l) = PermitsOf(tasks, l) \cup PermitsOf({new(n)}, l)
        BY <3>1 DEF PermitsOf
      <4>2. PermitsOf({new(n)}, l) = {}
        BY <3>2 DEF PermitsOf
      <4> QED BY <4>1, <4>2
    <3>5. LocksInv'
      BY <3>1, <3>2, <3>3, <3>4 DEF LocksInv, TakenInOrder, Missing, Lock, Tasks
    <3>6. /\ stage' = [stage EXCEPT ![p][s] = "Running"] /\ "Running" \in StageStates
          /\ pipe' = [pipe EXCEPT ![p] = "Running"] /\ "Running" \in PipelineStates
      BY <1>5, <2>2 DEF Mark, StageStates, PipelineStates
    <3>7. /\ stage' \in [Pipelines -> [Stages -> StageStates]]
          /\ pipe' \in [Pipelines -> PipelineStates]
      BY <3>6, StagesAreTyped
    <3> QED BY <1>5, <3>1, <3>2, <3>5, <3>7 DEF Mark, TypeOK
  <2> QED BY <2>1, <2>2
<1>6. ASSUME NEW t \in tasks, NoExecutor(t) PROVE TypeOK' /\ LocksInv'
  <2>1. CASE UNCHANGED <<pipe, stage, attempts>>
    BY <1>6, <2>1, TaskEnds DEF NoExecutor, TypeOK
  <2>2. CASE \E p \in Pipelines : Exhaust(p, t.stage)
    <3>1. /\ pipe' \in [Pipelines -> PipelineStates]
          /\ stage' \in [Pipelines -> [Stages -> StageStates]]
          /\ AttemptsOK(attempts')
      BY <1>b, <2>2, ExhaustIsTyped
    <3> QED BY <1>6, <3>1, TaskEnds DEF NoExecutor, TypeOK, AttemptsOK
  <2> QED BY <1>6, <2>1, <2>2 DEF NoExecutor, Owners
<1>7. ASSUME NEW t \in tasks, Spawn(t) PROVE TypeOK' /\ LocksInv'
  <2> DEFINE ph == IF Len(Requires[t.stage]) = 0 THEN "executing" ELSE "locking"
             u == [t EXCEPT !.phase = ph]
  <2>1. ph \in Phases /\ t.phase = "launching" /\ t.held = {}
    BY <1>7 DEF Phases, Spawn, LocksInv, TakenInOrder
  <2>2. u \in Tasks /\ u.held = {} /\ u.phase = ph /\ u.stage = t.stage
    <3> HIDE DEF ph
    <3> QED BY <1>b, <2>1 DEF Tasks
  <2>3. Moved(t, u)
    BY <1>7 DEF Spawn
  <2>4. TakenInOrder(u)
    <3>1. Len(Requires[t.stage]) = 0 <=> DOMAIN Requires[t.stage] = {}
      <4>1. \A n \in Nat : n = 0 <=> 1 .. n = {}
        <5> SUFFICES ASSUME NEW n \in Nat, n # 0 PROVE 1 .. n # {}
          OBVIOUS
        <5> QED BY 1 \in 1 .. n
      <4> QED BY <1>b, <4>1, LocksAreLocks
    <3> HIDE DEF u
    <3> QED BY <2>2, <3>1 DEF TakenInOrder, Missing
  <2> HIDE DEF u
  <2>5. LocksInv'
    BY <2>1, <2>2, <2>3, <2>4, TaskMovesOn
  <2> QED BY <1>7, <2>2, <2>3, <2>5 DEF Spawn, TypeOK, Moved
<1>8. ASSUME NEW t \in tasks, Acquire(t) PROVE TypeOK' /\ LocksInv'
  <2> DEFINE e == NextEntry(t)
             ph == IF Missing(t) = {e} THEN "executing" ELSE "locking"
             h == t.held \cup {e}
             u == [t EXCEPT !.phase = ph, !.held = h]
  <2>1. /\ t.phase = "locking" /\ Missing(t) # {} /\ t.held \subseteq DOMAIN Requires[t.stage]
        /\ \A k \in t.held, m \in Missing(t) : Rank[Lock(t, k)] <= Rank[Lock(t, m)]
    BY <1>8 DEF Acquire, LocksInv, TakenInOrder
  <2>2. /\ e \in Missing(t) /\ Lock(t, e) \in Locks
        /\ \A k \in Missing(t) : Lock(t, k) \in Locks /\ Rank[Lock(t, e)] <= Rank[Lock(t, k)]
    BY <1>b, <2>1, NextLockIsLeast DEF NextLock
  <2>3. ph \in Phases /\ h \in SUBSET Nat
    <3>1. e \in Nat
      BY <1>b, <2>2, LocksAreLocks DEF Missing
    <3> HIDE DEF e
    <3> QED BY <1>b, <3>1 DEF Phases, Tasks
  <2>4. u \in Tasks /\ u.held = h /\ u.phase = ph /\ u.stage = t.stage
    <3> HIDE DEF ph, h
    <3> QED BY <1>b, <2>3 DEF Tasks
  <2>5. Moved(t, u) /\ Free(Lock(t, e))
    BY <1>b, <1>8 DEF Acquire, Tasks, NextLock
  <2>6. TakenInOrder(u)
    <3>1. Missing(u) = Missing(t) \ {e} /\ \A i : Lock(u, i) = Lock(t, i)
      <4> HIDE DEF u
      <4> QED BY <2>4 DEF Missing, Lock
    <3>2. u.held \subseteq DOMAIN Requires[u.stage] /\ u.phase # "launching"
      <4> HIDE DEF u
      <4> QED BY <2>1, <2>2, <2>4 DEF Missing
    <3> HIDE DEF u
    <3>3. CASE Missing(t) = {e}
      BY <2>1, <2>2, <2>4, <3>2, <3>3 DEF TakenInOrder, Missing
    <3>4. CASE Missing(t) # {e}
      <4>1. u.phase = "locking" /\ Missing(u) # {}
        BY <2>2, <2>4, <3>1, <3>4
      <4>2. ASSUME NEW k \in u.held, NEW m \in Missing(u)
            PROVE  Rank[Lock(u, k)] <= Rank[Lock(u, m)]
        <5>1. m \in Missing(t)
          BY <3>1
        <5>2. CASE k \in t.held
          BY <2>1, <3>1, <5>1, <5>2
        <5>3. CASE k = e
          BY <2>2, <3>1, <5>1, <5>3
        <5> QED BY <2>4, <5>2, <5>3
      <4> QED BY <3>2, <4>1, <4>2 DEF TakenInOrder
    <3> QED BY <3>3, <3>4
  <2> HIDE DEF u, e
  <2>7. LocksInv'
    BY <2>2, <2>4, <2>5, <2>6, TaskTakesPermit
  <2>8. tasks' \subseteq Tasks
    BY <2>4, <2>5 DEF Moved, TypeOK
  <2> QED BY <1>8, <2>7, <2>8 DEF Acquire, TypeOK
<1>9. ASSUME NEW t \in tasks, Leave(t) PROVE TypeOK' /\ LocksInv'
  BY <1>9, TaskEnds DEF Leave, TypeOK
<1>10. ASSUME NEW t \in tasks, LockFails(t) \/ Fail(t) PROVE TypeOK' /\ LocksInv'
  BY <1>10, FinishFailureIsTyped DEF LockFails, Fail
<1>11. ASSUME NEW t \in tasks, ExecutorReturns(t) PROVE TypeOK' /\ LocksInv'
  <2>1. PICK ph \in {"succeeded", "erred"} : Moved(t, [t EXCEPT !.phase = ph, !.held = {}])
    BY <1>11 DEF ExecutorReturns
  <2> DEFINE u == [t EXCEPT !.phase = ph, !.held = {}]
  <2>2. u \in Tasks /\ u.held = {} /\ u.phase = ph /\ u.stage = t.stage /\ Moved(t, u)
    BY <1>b, <2>1 DEF Tasks, Phases
  <2> HIDE DEF u
  <2>3. TakenInOrder(u)
    BY <2>2 DEF TakenInOrder
  <2>4. LocksInv'
    BY <2>2, <2>3, TaskMovesOn
  <2> QED BY <1>11, <2>2, <2>4 DEF ExecutorReturns, TypeOK, Moved
<1>12. ASSUME NEW t \in tasks, Complete(t) PROVE TypeOK' /\ LocksInv'
  <2>1. LocksInv' /\ tasks' \subseteq Tasks /\ attempts' = attempts /\ timers' = timers
        /\ ready' = ready /\ wake' = TRUE
    BY <1>12, TaskEnds DEF Complete, TypeOK
  <2>2. CASE ~Accepts(t)
    BY <1>12, <2>1, <2>2 DEF Complete, TypeOK
  <2>3. CASE Accepts(t)
    <3> DEFINE st == [stage[t.pipeline] EXCEPT ![t.stage] = "Done"]
    <3>1. stage' = [stage EXCEPT ![t.pipeline] = st]
          /\ pipe' = [pipe EXCEPT ![t.pipeline] = Recomputed(t.pipeline, st)]
      BY <1>12, <2>3 DEF Complete
    <3>2. st \in [Stages -> StageStates]
      BY <1>b DEF TypeOK, StageStates
    <3> HIDE DEF st
    <3>3. Recomputed(t.pipeline, st) \in PipelineStates
      BY <1>b DEF Recomputed, PipelineStates, TypeOK
    <3>4. /\ stage' \in [Pipelines -> [Stages -> StageStates]]
          /\ pipe' \in [Pipelines -> PipelineStates]
      BY <1>b, <3>1, <3>2, <3>3, StagesAreTyped
    <3> QED BY <2>1, <3>4 DEF TypeOK
  <2> QED BY <2>2, <2>3
<1>13. ASSUME NEW s \in Stages, TimerFires(s) PROVE TypeOK' /\ LocksInv'
  <2>1. timers' \in [Stages -> 0 .. MaxTimers]
    <3>1. timers[s] - 1 \in 0 .. MaxTimers /\ timers' = [timers EXCEPT ![s] = timers[s] - 1]
      BY <1>13, PipelineAssumption DEF TimerFires, TypeOK
    <3> QED BY <3>1 DEF TypeOK
  <2>2. "Pending" \in StageStates
    BY DEF StageStates
  <2>3. stage' \in [Pipelines -> [Stages -> StageStates]] /\ wake' \in BOOLEAN
    <3>1. CASE stage' = stage /\ wake' = wake
      BY <3>1 DEF TypeOK
    <3>2. CASE (\E p \in Pipelines : stage' = [stage EXCEPT ![p][s] = "Pending"]) /\ wake' = TRUE
      BY <2>2, <3>2, StagesAreTyped
    <3> QED BY <1>13, <3>1, <3>2 DEF TimerFires, Owners
  <2> QED BY <1>13, <1>a, <2>1, <2>3 DEF TimerFires, TypeOK
<1>14. CASE Restart
  <2>1. \A l \in Locks : Out(l)' = {}
    BY <1>14 DEF Restart, Out, PermitsOf
  <2>2. ASSUME NEW l \in Locks PROVE Cardinality(Out(l)') <= Capacity[l]
    <3>1. Cardinality(Out(l)') = 0
      <4>1. Out(l)' = {}
        BY <2>1
      <4> QED BY <4>1, FS_EmptySet
    <3> QED BY <3>1, PipelineAssumption
  <2>3. LocksInv'
    BY <1>14, <2>2, FS_EmptySet DEF Restart, LocksInv
  <2> QED BY <1>14, <2>3, PipelineAssumption DEF Restart, TypeOK, StageStates, PipelineStates
<1>15. CASE UNCHANGED vars
  BY <1>15, <1>a DEF vars, TypeOK
<1> QED BY <1>1, <1>2, <1>3, <1>4, <1>5, <1>6, <1>7, <1>8, <1>9, <1>10, <1>11, <1>12, <1>13,
           <1>14, <1>15 DEF Next, Client, Dispatcher, TaskStep

\* The engine's state is well typed in every reachable state.
THEOREM EngineIsTyped == Spec => []TypeOK
<1>1. Spec => [](TypeOK /\ LocksInv)
  BY InitIsTyped, StepIsTyped, PTL DEF Spec
<1> QED BY <1>1, PTL

\* The semaphores hold what LocksInv says in every reachable state.
LEMMA LocksInvHolds == Spec => [](TypeOK /\ LocksInv)
  BY InitIsTyped, StepIsTyped, PTL DEF Spec

\* An executing task holds a permit for every entry of its stage, so executors
\* fit where permits do.
LEMMA ExecutorsHoldTheirLocks == LocksInv => WorkersFitTheLocks
<1> SUFFICES ASSUME LocksInv, NEW l \in Locks
    PROVE  Cardinality(UNION {Uses(t, l) : t \in {u \in tasks : u.phase = "executing"}})
               <= Capacity[l]
  BY DEF WorkersFitTheLocks
<1> DEFINE W == UNION {Uses(t, l) : t \in {u \in tasks : u.phase = "executing"}}
<1>1. W \in SUBSET Out(l)
  BY DEF LocksInv, TakenInOrder, Out, PermitsOf, Uses
<1> HIDE DEF W
<1>2. Cardinality(W) <= Cardinality(Out(l)) /\ Cardinality(W) \in Nat
  BY <1>1, OutIsFinite, FS_Subset, FS_CardinalityType
<1>3. /\ Capacity[l] \in Nat /\ Cardinality(Out(l)) \in Nat /\ Cardinality(Out(l)) <= Capacity[l]
  BY OutIsFinite, PipelineAssumption DEF LocksInv
<1>4. Cardinality(W) <= Capacity[l]
  BY <1>2, <1>3
<1> QED BY <1>4 DEF W

\* Resource locks exclude: for any pipelines and capacities, cancelled tasks
\* that still drain included.
THEOREM LocksExclude == Spec => []WorkersFitTheLocks
  BY LocksInvHolds, ExecutorsHoldTheirLocks, PTL

\* Of waiting tasks take one whose next lock has the fewest locks above it.  A
\* task that has a permit of this lock waits for a lock with fewer, and is not
\* among them, or for this lock again.
LEMMA SortedLocksDoNotDeadlock == TypeOK /\ LocksInv => NoLockDeadlock
<1> SUFFICES ASSUME TypeOK, LocksInv, NEW S \in SUBSET Waiting, S # {}
    PROVE  \E t \in S : \/ Free(NextLock(t))
                        \/ \E u \in tasks \ S : Holds(u, NextLock(t))
                        \/ Holds(t, NextLock(t))
  BY DEF NoLockDeadlock
<1> DEFINE Above(l) == {k \in Locks : Rank[k] > Rank[l]}
           sizes == {Cardinality(Above(NextLock(t))) : t \in S}
<1>1. ASSUME NEW t \in S
      PROVE  /\ t \in tasks /\ t \in Tasks /\ NextLock(t) \in Locks
             /\ \A k \in t.held : Rank[Lock(t, k)] <= Rank[NextLock(t)]
  <2>1. /\ t \in tasks /\ t \in Tasks /\ Missing(t) # {}
        /\ \A k \in t.held, i \in Missing(t) : Rank[Lock(t, k)] <= Rank[Lock(t, i)]
    BY DEF Waiting, LocksInv, TakenInOrder, TypeOK
  <2> QED BY <2>1, NextLockIsLeast DEF NextLock
<1>2. \A l : IsFiniteSet(Above(l)) /\ Cardinality(Above(l)) \in Nat
  <2>1. \A l : Above(l) \in SUBSET Locks
    OBVIOUS
  <2> HIDE DEF Above
  <2> QED BY <2>1, PipelineAssumption, FS_Subset, FS_CardinalityType
<1>3. PICK t \in S : \A u \in S :
          Cardinality(Above(NextLock(t))) <= Cardinality(Above(NextLock(u)))
  <2> HIDE DEF Above
  <2>1. sizes \in SUBSET Nat /\ sizes # {}
    BY <1>2
  <2>2. PICK m \in sizes : \A n \in sizes : m <= n
    <3> HIDE DEF sizes
    <3> QED BY <2>1, LeastNatural
  <2> QED BY <2>2
<1> DEFINE l == NextLock(t)
<1>4. CASE Free(l)
  BY <1>4
<1>5. CASE ~Free(l)
  <2>1. l \in Locks
    BY <1>1
  <2>2. PICK u \in tasks : Holds(u, l)
    <3>1. Out(l) # {}
      <4>1. ~(Cardinality(Out(l)) < Capacity[l]) /\ Capacity[l] \in Nat \ {0}
        BY <1>5, <2>1, PipelineAssumption DEF Free, Out
      <4> HIDE DEF l
      <4> QED BY <4>1, FS_EmptySet
    <3> QED BY <3>1 DEF Out, PermitsOf, Holds
  <2>3. CASE u \notin S
    BY <2>2, <2>3
  <2>4. CASE u \in S /\ NextLock(u) = l
    BY <2>2, <2>4
  <2>5. ~(u \in S /\ NextLock(u) # l)
    <3> SUFFICES ASSUME u \in S, NextLock(u) # l PROVE FALSE
      OBVIOUS
    <3> DEFINE k == NextLock(u)
    <3>1. k \in Locks /\ Rank[l] <= Rank[k]
      BY <1>1, <2>2 DEF Holds
    <3>2. Rank[l] < Rank[k] /\ Rank[l] \in Nat /\ Rank[k] \in Nat
      <4>1. Rank[l] \in Nat /\ Rank[k] \in Nat /\ Rank[l] # Rank[k]
        <5>1. k # l
          OBVIOUS
        <5> HIDE DEF k, l
        <5> QED BY <2>1, <3>1, <5>1, PipelineAssumption
      <4> HIDE DEF k, l
      <4> QED BY <3>1, <4>1
    <3>3. k \in Above(l) /\ k \notin Above(k) /\ Above(k) \in SUBSET Above(l)
      <4> HIDE DEF k, l
      <4> QED BY <2>1, <3>1, <3>2, PipelineAssumption
    <3>4. Cardinality(Above(l)) <= Cardinality(Above(k))
      BY <1>3
    <3> HIDE DEF Above, k, l
    <3>5. Cardinality(Above(k)) <= Cardinality(Above(l))
          /\ Cardinality(Above(l)) # Cardinality(Above(k))
      BY <1>2, <3>3, FS_Subset
    <3> QED BY <1>2, <3>4, <3>5
  <2> QED BY <2>3, <2>4, <2>5
<1> QED BY <1>4, <1>5

\* Tasks that take their locks by rank wait in a circle only where one waits for
\* more of a lock that it has a permit of (acquire_stage_locks, runtime.rs).
THEOREM NoLocksInACircle == Spec => []NoLockDeadlock
  BY LocksInvHolds, SortedLocksDoNotDeadlock, PTL

-----------------------------------------------------------------------------
(* The registry.                                                           *)

\* The inputs of stage s are done, in stage states st of its pipeline.
InputsDone(s, st) == \A i \in Inputs[s] : st[i] = "Done"

\* What holds between the state pp of pipeline p and its stage states st.  A
\* stage that is skipped stands beside an exhausted one, and what is pending
\* beside an exhausted one has run before; a cancelled one stands beside
\* settled ones.
Consistent(p, pp, st) ==
    /\ \A s \in Stages : st[s] # "Pending" => s \in Graph[p] /\ pp # "absent"
    /\ pp # "absent" => \A s \in Graph[p] : Inputs[s] \subseteq Graph[p]
    /\ \A s \in Graph[p] :
         st[s] \in {"Running", "Done", "Failed", "Exhausted"} => InputsDone(s, st)
    /\ \A s, x \in Graph[p] :
         st[x] \in {"Skipped", "Exhausted"} /\ st[s] = "Pending" => InputsDone(s, st)
    /\ \A s, x \in Graph[p] :
         st[x] = "Cancelled" => st[s] \notin {"Pending", "Running", "Failed"}
    /\ \A x \in Graph[p] :
         st[x] = "Skipped" => \E s \in Graph[p] : st[s] = "Exhausted"
    /\ pp = "Done" => \A s \in Graph[p] : st[s] = "Done"
    /\ pp = "Failed" => \E s \in Graph[p] : st[s] = "Exhausted"
    /\ pp = "Cancelled" => \A s \in Graph[p] : st[s] \notin {"Running", "Failed"}

\* The invariant of the registry and of the dispatcher's ready list, stale as
\* that may be.
RegistryInv ==
    /\ \A p \in Pipelines : Consistent(p, pipe[p], stage[p])
    /\ \A p \in Pipelines, s \in Stages : <<p, s>> \in ready =>
         s \in Graph[p] /\ pipe[p] # "absent" /\ InputsDone(s, stage[p])

\* Done stages stay done: what every update of a pipeline has to respect for
\* the ready list and for the stages that build on them.
Keeps(st, new) == \A s \in Stages : st[s] = "Done" => new[s] = "Done"

\* One pipeline changes.
LEMMA OnePipelineChanges ==
    ASSUME TypeOK, RegistryInv, NEW p \in Pipelines, NEW pp, NEW st,
           pipe' = [pipe EXCEPT ![p] = pp], stage' = [stage EXCEPT ![p] = st],
           pp # "absent", Consistent(p, pp, st), Keeps(stage[p], st), ready' \subseteq ready
    PROVE  RegistryInv'
<1>1. /\ pipe'[p] = pp /\ stage'[p] = st
      /\ \A q \in Pipelines : q # p => pipe'[q] = pipe[q] /\ stage'[q] = stage[q]
  BY DEF TypeOK
<1>2. ASSUME NEW q \in Pipelines PROVE Consistent(q, pipe'[q], stage'[q])
  BY <1>1 DEF RegistryInv
<1>3. ASSUME NEW q \in Pipelines, NEW s \in Stages, <<q, s>> \in ready'
      PROVE  s \in Graph[q] /\ pipe'[q] # "absent" /\ InputsDone(s, stage'[q])
  <2>1. s \in Graph[q] /\ pipe[q] # "absent" /\ InputsDone(s, stage[q])
    BY <1>3 DEF RegistryInv
  <2>2. Inputs[s] \subseteq Stages
    BY PipelineAssumption
  <2> QED BY <1>1, <2>1, <2>2 DEF InputsDone, Keeps
<1> QED BY <1>2, <1>3 DEF RegistryInv, Consistent, InputsDone

\* Graphs and inputs are sets of stages.
LEMMA GraphsAreStages ==
    /\ \A p \in Pipelines : Graph[p] \subseteq Stages
    /\ \A s \in Stages : Inputs[s] \subseteq Stages
  BY PipelineAssumption

\* A running stage is exhausted.
LEMMA ExhaustIsConsistent ==
    ASSUME TypeOK, RegistryInv, NEW p \in Pipelines, NEW s \in Stages,
           Exhaust(p, s), stage[p][s] = "Running", ready' = ready
    PROVE  RegistryInv'
<1> DEFINE st == [x \in Stages |->
           IF x = s THEN "Exhausted"
           ELSE IF x \in Graph[p] /\ stage[p][x] \in {"Pending", "Failed"} THEN "Skipped"
           ELSE stage[p][x]]
<1>1. /\ pipe' = [pipe EXCEPT ![p] = "Failed"] /\ stage' = [stage EXCEPT ![p] = st]
      /\ Keeps(stage[p], st)
  BY DEF Exhaust, Keeps
<1>2. Consistent(p, pipe[p], stage[p]) /\ s \in Graph[p]
  BY DEF RegistryInv, Consistent
<1>3. Consistent(p, "Failed", st)
  BY <1>2, GraphsAreStages DEF Consistent, InputsDone
<1> HIDE DEF st
<1> QED BY <1>1, <1>3, OnePipelineChanges

\* A running stage has failed and has attempts left.
LEMMA FailIsConsistent ==
    ASSUME TypeOK, RegistryInv, NEW p \in Pipelines, NEW s \in Stages,
           stage[p][s] = "Running", stage' = [stage EXCEPT ![p][s] = "Failed"],
           pipe' = pipe, ready' = ready
    PROVE  RegistryInv'
<1> DEFINE st == [stage[p] EXCEPT ![s] = "Failed"]
<1>1. /\ pipe' = [pipe EXCEPT ![p] = pipe[p]] /\ stage' = [stage EXCEPT ![p] = st]
      /\ Keeps(stage[p], st)
  BY DEF TypeOK, Keeps
<1>2. Consistent(p, pipe[p], stage[p]) /\ s \in Graph[p] /\ pipe[p] # "absent"
  BY DEF RegistryInv, Consistent
<1>3. Consistent(p, pipe[p], st)
  BY <1>2, GraphsAreStages DEF Consistent, InputsDone, TypeOK
<1> HIDE DEF st
<1> QED BY <1>1, <1>2, <1>3, OnePipelineChanges

\* The registry is empty at first.
LEMMA InitIsConsistent == Init => RegistryInv
  BY GraphsAreStages DEF Init, RegistryInv, Consistent

\* submit
LEMMA SubmitIsConsistent ==
    ASSUME TypeOK, RegistryInv, NEW p \in Pipelines, Submit(p)
    PROVE  RegistryInv'
<1>1. /\ pipe' = [pipe EXCEPT ![p] = "Pending"] /\ stage' = [stage EXCEPT ![p] = stage[p]]
      /\ ready' = ready /\ Keeps(stage[p], stage[p])
  BY DEF Submit, TypeOK, Keeps
<1>2. /\ Consistent(p, pipe[p], stage[p]) /\ pipe[p] = "absent"
      /\ \A s \in Graph[p] : Inputs[s] \subseteq Graph[p]
  BY DEF RegistryInv, Submit, Valid
<1>3. Consistent(p, "Pending", stage[p])
  BY <1>2, GraphsAreStages DEF Consistent
<1> QED BY <1>1, <1>3, OnePipelineChanges

\* cancel_pipeline
LEMMA CancelIsConsistent ==
    ASSUME TypeOK, RegistryInv, NEW p \in Pipelines, Cancel(p)
    PROVE  RegistryInv'
<1> DEFINE unsettled == {s \in Graph[p] : stage[p][s] \in {"Pending", "Running", "Failed"}}
           st == [s \in Stages |-> IF s \in unsettled THEN "Cancelled" ELSE stage[p][s]]
<1>1. /\ pipe' = [pipe EXCEPT ![p] = "Cancelled"] /\ stage' = [stage EXCEPT ![p] = st]
      /\ ready' = ready /\ Keeps(stage[p], st)
  BY DEF Cancel, Keeps
<1>2. Consistent(p, pipe[p], stage[p]) /\ pipe[p] # "absent"
  BY DEF RegistryInv, Cancel
<1>3. Consistent(p, "Cancelled", st)
  BY <1>2, GraphsAreStages DEF Consistent, InputsDone
<1> HIDE DEF st
<1> QED BY <1>1, <1>3, OnePipelineChanges

\* retry_stage
LEMMA RetryIsConsistent ==
    ASSUME TypeOK, RegistryInv, NEW s \in Stages, Retry(s)
    PROVE  RegistryInv'
<1>1. PICK p \in Pipelines :
         /\ pipe[p] # "absent" /\ s \in Graph[p]
         /\ stage[p][s] \in {"Failed", "Exhausted"}
         /\ stage' = [stage EXCEPT ![p] = [x \in Stages |->
                IF x \in {s} \cup
                     {y \in Graph[p] : /\ stage[p][s] = "Exhausted"
                                       /\ stage[p][y] \in {"Failed", "Exhausted", "Cancelled",
                                                           "Skipped"}}
                THEN "Pending" ELSE stage[p][x]]]
         /\ pipe' = [pipe EXCEPT ![p] = Reopened(p)]
         /\ ready' = ready
  BY DEF Retry, Owners
<1> DEFINE reset == {s} \cup
              {y \in Graph[p] : /\ stage[p][s] = "Exhausted"
                                /\ stage[p][y] \in {"Failed", "Exhausted", "Cancelled",
                                                    "Skipped"}}
           st == [x \in Stages |-> IF x \in reset THEN "Pending" ELSE stage[p][x]]
<1>2. /\ stage' = [stage EXCEPT ![p] = st] /\ Keeps(stage[p], st)
      /\ Reopened(p) \notin {"absent", "Failed"}
      /\ Reopened(p) \in {"Done", "Cancelled"} => Reopened(p) = pipe[p]
  BY <1>1 DEF Keeps, Reopened
<1>3. Consistent(p, pipe[p], stage[p])
  BY DEF RegistryInv
<1>4. CASE stage[p][s] = "Failed"
  <2>1. \A x \in Stages : st[x] = IF x = s THEN "Pending" ELSE stage[p][x]
    BY <1>4
  <2> HIDE DEF st
  <2>2. Consistent(p, Reopened(p), st)
    BY <1>1, <1>2, <1>3, <1>4, <2>1, GraphsAreStages DEF Consistent, InputsDone
  <2> QED BY <1>1, <1>2, <2>2, OnePipelineChanges
<1>5. CASE stage[p][s] = "Exhausted"
  <2>1. \A x \in Graph[p] : st[x] = IF stage[p][x] \in {"Failed", "Exhausted", "Cancelled",
                                                        "Skipped"}
                                    THEN "Pending" ELSE stage[p][x]
    BY <1>1, <1>5, GraphsAreStages
  <2>2. \A x \in Stages \ Graph[p] : st[x] = "Pending"
    BY <1>3 DEF Consistent
  <2> HIDE DEF st
  <2>3. Consistent(p, Reopened(p), st)
    BY <1>1, <1>2, <1>3, <1>5, <2>1, <2>2, GraphsAreStages DEF Consistent, InputsDone
  <2> QED BY <1>1, <1>2, <2>3, OnePipelineChanges
<1> QED BY <1>1, <1>4, <1>5

\* ready_stages: an input that is skipped beside a pending stage contradicts
\* the invariant, so what is ready has its inputs done.
LEMMA ReadReadyIsConsistent ==
    ASSUME TypeOK, RegistryInv, ReadReady
    PROVE  RegistryInv'
<1>1. ASSUME NEW p \in Pipelines, NEW s \in Stages, Ready(p, s)
      PROVE  s \in Graph[p] /\ pipe[p] # "absent" /\ InputsDone(s, stage[p])
  <2>1. s \in Graph[p] /\ pipe[p] # "absent" /\ stage[p][s] = "Pending"
        /\ \A i \in Inputs[s] : stage[p][i] \in {"Done", "Skipped"}
    BY <1>1 DEF Ready, Active
  <2>2. Consistent(p, pipe[p], stage[p])
    BY DEF RegistryInv
  <2> QED BY <2>1, <2>2 DEF Consistent, InputsDone
<1> QED BY <1>1 DEF ReadReady, ReadyStages, RegistryInv, InputsDone, Consistent

\* mark_stage_running, on what was ready when the list was read
LEMMA MarkIsConsistent ==
    ASSUME TypeOK, RegistryInv, NEW p \in Pipelines, NEW s \in Stages, Mark(p, s)
    PROVE  RegistryInv'
<1>1. CASE ~(stage[p][s] \in {"Pending", "Failed"})
  BY <1>1 DEF Mark, RegistryInv, InputsDone, Consistent
<1>2. CASE stage[p][s] \in {"Pending", "Failed"}
  <2> DEFINE st == [stage[p] EXCEPT ![s] = "Running"]
  <2>1. /\ pipe' = [pipe EXCEPT ![p] = "Running"] /\ stage' = [stage EXCEPT ![p] = st]
        /\ ready' \subseteq ready /\ Keeps(stage[p], st)
    BY <1>2 DEF Mark, TypeOK, Keeps
  <2>2. Consistent(p, pipe[p], stage[p]) /\ s \in Graph[p] /\ InputsDone(s, stage[p])
        /\ pipe[p] # "absent"
    BY DEF RegistryInv, Mark
  <2>3. \A x \in Stages : st[x] = IF x = s THEN "Running" ELSE stage[p][x]
    BY DEF TypeOK
  <2> HIDE DEF st
  <2>4. Consistent(p, "Running", st)
    BY <1>2, <2>2, <2>3, GraphsAreStages DEF Consistent, InputsDone
  <2> QED BY <2>1, <2>4, OnePipelineChanges
<1> QED BY <1>1, <1>2

\* complete_stage and recompute_pipeline: with a stage running before, nothing
\* is cancelled, and what is skipped stands beside an exhausted stage, so a
\* pipeline computed Done is.
LEMMA CompleteIsConsistent ==
    ASSUME TypeOK, RegistryInv, NEW t \in tasks, Complete(t)
    PROVE  RegistryInv'
<1>1. CASE ~Accepts(t)
  BY <1>1 DEF Complete, RegistryInv, InputsDone, Consistent
<1>2. CASE Accepts(t)
  <2> DEFINE p == t.pipeline
             s == t.stage
             st == [stage[p] EXCEPT ![s] = "Done"]
  <2>1. p \in Pipelines /\ s \in Stages /\ stage[p][s] = "Running"
    BY <1>2 DEF TypeOK, Tasks, Accepts
  <2>2. /\ pipe' = [pipe EXCEPT ![p] = Recomputed(p, st)]
        /\ stage' = [stage EXCEPT ![p] = st] /\ ready' = ready
    BY <1>2 DEF Complete
  <2> HIDE DEF p, s
  <2>3. \A x \in Stages : st[x] = IF x = s THEN "Done" ELSE stage[p][x]
    BY <2>1 DEF TypeOK
  <2>4. Consistent(p, pipe[p], stage[p])
    BY <2>1 DEF RegistryInv
  <2> HIDE DEF st
  <2>5. Keeps(stage[p], st)
    BY <2>3 DEF Keeps
  <2>6. /\ s \in Graph[p] /\ pipe[p] # "absent" /\ InputsDone(s, stage[p])
        /\ \A x \in Graph[p] : stage[p][x] # "Cancelled"
    BY <2>1, <2>4 DEF Consistent
  <2>7. Recomputed(p, st) = "Done" => \A x \in Graph[p] : st[x] = "Done"
    <3> SUFFICES ASSUME Recomputed(p, st) = "Done", NEW x \in Graph[p] PROVE st[x] = "Done"
      OBVIOUS
    <3>1. /\ \A y \in Graph[p] : st[y] # "Exhausted"
          /\ \/ pipe[p] = "Done"
             \/ \A y \in Graph[p] : st[y] \in {"Done", "Cancelled", "Skipped"}
      BY DEF Recomputed
    <3>2. pipe[p] # "Done"
      BY <2>1, <2>4, <2>6 DEF Consistent
    <3> QED BY <2>1, <2>3, <2>4, <2>6, <3>1, <3>2, GraphsAreStages DEF Consistent
  <2>8. Recomputed(p, st) = "Failed" => \E x \in Graph[p] : st[x] = "Exhausted"
    <3> SUFFICES ASSUME Recomputed(p, st) = "Failed"
        PROVE  \E x \in Graph[p] : st[x] = "Exhausted"
      OBVIOUS
    <3>1. pipe[p] = "Failed" \/ \E x \in Graph[p] : st[x] = "Exhausted"
      BY DEF Recomputed
    <3> QED BY <2>1, <2>3, <2>4, <3>1, GraphsAreStages DEF Consistent
  <2>9. Recomputed(p, st) # "absent"
    BY <2>6 DEF Recomputed
  <2>10. Recomputed(p, st) # "Cancelled"
    BY <2>1, <2>4, <2>6 DEF Recomputed, Consistent
  <2>11. Consistent(p, Recomputed(p, st), st)
    <3> DEFINE pp == Recomputed(p, st)
    <3>1. /\ pp # "absent"
          /\ pp = "Done" => \A x \in Graph[p] : st[x] = "Done"
          /\ pp = "Failed" => \E x \in Graph[p] : st[x] = "Exhausted"
          /\ pp # "Cancelled"
      BY <2>7, <2>8, <2>9, <2>10
    <3> HIDE DEF pp
    <3>2. Consistent(p, pp, st)
      BY <2>1, <2>3, <2>4, <2>6, <3>1, GraphsAreStages DEF Consistent, InputsDone
    <3> QED BY <3>2 DEF pp
  <2> QED BY <2>1, <2>2, <2>5, <2>9, <2>11, OnePipelineChanges
<1> QED BY <1>1, <1>2

\* retry_failed_stage
LEMMA TimerIsConsistent ==
    ASSUME TypeOK, RegistryInv, NEW s \in Stages, TimerFires(s)
    PROVE  RegistryInv'
<1>1. CASE UNCHANGED stage
  BY <1>1 DEF TimerFires, RegistryInv, InputsDone, Consistent
<1>2. CASE ~UNCHANGED stage
  <2>1. PICK p \in Pipelines : /\ Active(p) /\ stage[p][s] = "Failed"
                               /\ stage' = [stage EXCEPT ![p][s] = "Pending"]
    BY <1>2 DEF TimerFires, Owners
  <2> DEFINE st == [stage[p] EXCEPT ![s] = "Pending"]
  <2>2. /\ pipe' = [pipe EXCEPT ![p] = pipe[p]] /\ stage' = [stage EXCEPT ![p] = st]
        /\ ready' = ready
    BY <2>1 DEF TimerFires, TypeOK
  <2>3. \A x \in Stages : st[x] = IF x = s THEN "Pending" ELSE stage[p][x]
    BY DEF TypeOK
  <2>4. Consistent(p, pipe[p], stage[p]) /\ pipe[p] \in {"Pending", "Running"}
    BY <2>1 DEF RegistryInv, Active
  <2> HIDE DEF st
  <2>5. Consistent(p, pipe[p], st) /\ Keeps(stage[p], st)
    BY <2>1, <2>3, <2>4, GraphsAreStages DEF Consistent, InputsDone, Keeps
  <2> QED BY <2>2, <2>4, <2>5, OnePipelineChanges
<1> QED BY <1>1, <1>2

\* open, after the daemon's death
LEMMA RestartIsConsistent ==
    ASSUME TypeOK, RegistryInv, Restart
    PROVE  RegistryInv'
<1>1. ASSUME NEW p \in Pipelines PROVE Consistent(p, pipe'[p], stage'[p])
  <2>1. Consistent(p, pipe[p], stage[p])
    BY DEF RegistryInv
  <2>2. pipe'[p] = IF pipe[p] = "Running" THEN "Pending" ELSE pipe[p]
    BY DEF Restart
  <2>3. \A s \in Stages :
           stage'[p][s] = IF stage[p][s] = "Running" THEN "Pending" ELSE stage[p][s]
    BY DEF Restart
  <2> QED BY <2>1, <2>2, <2>3, GraphsAreStages DEF Consistent, InputsDone
<1> QED BY <1>1 DEF Restart, RegistryInv, Consistent, InputsDone

\* Every action preserves the invariant of the registry.
LEMMA StepIsConsistent == TypeOK /\ RegistryInv /\ [Next]_vars => RegistryInv'
<1> SUFFICES ASSUME TypeOK, RegistryInv, [Next]_vars PROVE RegistryInv'
  OBVIOUS
<1>1. CASE UNCHANGED <<pipe, stage, ready>>
  BY <1>1 DEF RegistryInv, Consistent, InputsDone
<1>2. ASSUME NEW t \in tasks, NoExecutor(t) PROVE RegistryInv'
  <2>1. t.stage \in Stages /\ ready' = ready
    BY <1>2 DEF TypeOK, Tasks, NoExecutor
  <2>2. CASE \E p \in Pipelines : stage[p][t.stage] = "Running" /\ Exhaust(p, t.stage)
    BY <2>1, <2>2, ExhaustIsConsistent
  <2> QED BY <1>1, <1>2, <2>2, <2>1 DEF NoExecutor, Owners
<1>3. ASSUME NEW t \in tasks, FinishFailure(t) PROVE RegistryInv'
  <2>1. t.stage \in Stages /\ ready' = ready
    BY <1>3 DEF TypeOK, Tasks, FinishFailure
  <2>2. CASE \E p \in Pipelines : stage[p][t.stage] = "Running" /\ MarkFailed(p, t.stage)
    BY <2>1, <2>2, ExhaustIsConsistent, FailIsConsistent DEF MarkFailed
  <2> QED BY <1>1, <1>3, <2>2, <2>1 DEF FinishFailure, Owners
<1>4. ASSUME Client PROVE RegistryInv'
  BY <1>4, SubmitIsConsistent, CancelIsConsistent, RetryIsConsistent DEF Client
<1>5. ASSUME Dispatcher PROVE RegistryInv'
  BY <1>1, <1>2, <1>5, ReadReadyIsConsistent, MarkIsConsistent DEF Dispatcher, Spawn
<1>6. ASSUME NEW t \in tasks, TaskStep(t) PROVE RegistryInv'
  BY <1>1, <1>3, <1>6, CompleteIsConsistent
     DEF TaskStep, Acquire, Leave, LockFails, ExecutorReturns, Fail
<1> QED BY <1>1, <1>4, <1>5, <1>6, TimerIsConsistent, RestartIsConsistent DEF Next, vars

\* The invariant of the registry holds in every reachable state.
THEOREM RegistryIsConsistent == Spec => []RegistryInv
<1>1. Spec => [](TypeOK /\ RegistryInv)
  BY EngineIsTyped, InitIsTyped, InitIsConsistent, StepIsConsistent, PTL DEF Spec
<1> QED BY <1>1, PTL

\* No stage runs or has run on unfinished inputs.
THEOREM InputsComeFirst == Spec => []InputsAreDone
<1>1. RegistryInv => InputsAreDone
  BY DEF RegistryInv, Consistent, InputsDone, InputsAreDone
<1> QED BY <1>1, RegistryIsConsistent, PTL

\* A run that shows Done has done all its stages.
THEOREM DoneMeansDone == Spec => []DoneIsComplete
<1>1. RegistryInv => DoneIsComplete
  BY DEF RegistryInv, Consistent, DoneIsComplete
<1> QED BY <1>1, RegistryIsConsistent, PTL

\* A failed run has a stage that a user can retry.
THEOREM FailedMeansRetryable == Spec => []FailedCanBeRetried
<1>1. RegistryInv => FailedCanBeRetried
  BY DEF RegistryInv, Consistent, FailedCanBeRetried
<1> QED BY <1>1, RegistryIsConsistent, PTL

\* Nothing but a retry touches a settled, cancelled pipeline p.
LEMMA CancelledIsLeftAlone ==
    ASSUME TypeOK, RegistryInv, [Next]_vars, NEW p \in Pipelines,
           pipe[p] = "Cancelled", \A s \in Graph[p] : stage[p][s] # "Pending"
    PROVE  /\ pipe'[p] = "Cancelled"
           /\ stage'[p] = stage[p] \/ \E s \in Graph[p] :
                  stage[p][s] = "Exhausted" /\ stage'[p][s] = "Pending"
<1> DEFINE Alone == pipe'[p] = "Cancelled" /\ stage'[p] = stage[p]
<1> USE GraphsAreStages
<1>1. /\ \A s \in Graph[p] : stage[p][s] \notin {"Pending", "Running", "Failed"}
      /\ \A s \in Stages \ Graph[p] : stage[p][s] = "Pending"
  BY DEF RegistryInv, Consistent
<1>2. CASE UNCHANGED <<pipe, stage>>
  BY <1>2
<1>3. ASSUME NEW q \in Pipelines, NEW s \in Stages, stage[q][s] = "Running",
             Exhaust(q, s) \/ MarkFailed(q, s)
      PROVE  Alone
  <2>1. q # p
    BY <1>1, <1>3
  <2> QED BY <1>3, <2>1 DEF Exhaust, MarkFailed, TypeOK
<1>4. ASSUME NEW q \in Pipelines, Submit(q) PROVE Alone
  BY <1>4 DEF Submit, TypeOK
<1>5. ASSUME NEW q \in Pipelines, Cancel(q) PROVE Alone
  <2>1. CASE q = p
    <3> DEFINE st == [s \in Stages |->
               IF s \in {x \in Graph[p] : stage[p][x] \in {"Pending", "Running", "Failed"}}
               THEN "Cancelled" ELSE stage[p][s]]
    <3>1. st = stage[p]
      BY <1>1 DEF TypeOK
    <3>2. stage' = [stage EXCEPT ![p] = st] /\ pipe' = [pipe EXCEPT ![p] = "Cancelled"]
      BY <1>5, <2>1 DEF Cancel
    <3> HIDE DEF st
    <3> QED BY <3>1, <3>2 DEF TypeOK
  <2>2. CASE q # p
    BY <1>5, <2>2 DEF Cancel, TypeOK
  <2> QED BY <2>1, <2>2
<1>6. ASSUME NEW s \in Stages, Retry(s)
      PROVE  Alone \/ (pipe'[p] = "Cancelled" /\ \E x \in Graph[p] :
                           stage[p][x] = "Exhausted" /\ stage'[p][x] = "Pending")
  <2>1. PICK q \in Pipelines :
           /\ s \in Graph[q] /\ stage[q][s] \in {"Failed", "Exhausted"}
           /\ \E reset : /\ s \in reset
                         /\ stage' = [stage EXCEPT ![q] = [x \in Stages |->
                                IF x \in reset THEN "Pending" ELSE stage[q][x]]]
           /\ pipe' = [pipe EXCEPT ![q] = Reopened(q)]
    BY <1>6 DEF Retry, Owners
  <2>2. CASE q = p
    <3>1. stage[p][s] = "Exhausted" /\ stage'[p][s] = "Pending" /\ s \in Graph[p]
      BY <1>1, <2>1, <2>2 DEF TypeOK
    <3>2. pipe'[p] = "Cancelled"
      BY <2>1, <2>2 DEF Reopened, TypeOK
    <3> QED BY <3>1, <3>2
  <2>3. CASE q # p
    BY <2>1, <2>3 DEF TypeOK
  <2> QED BY <2>2, <2>3
<1>7. ASSUME NEW q \in Pipelines, NEW s \in Stages, Mark(q, s) PROVE Alone
  <2>1. CASE stage[q][s] \notin {"Pending", "Failed"}
    BY <1>7, <2>1 DEF Mark
  <2>2. CASE stage[q][s] \in {"Pending", "Failed"}
    <3>1. s \in Graph[q]
      BY <1>7 DEF Mark, RegistryInv
    <3>2. q # p
      BY <1>1, <2>2, <3>1
    <3> QED BY <1>7, <2>2, <3>2 DEF Mark, TypeOK
  <2> QED BY <2>1, <2>2
<1>8. ASSUME NEW t \in tasks, NoExecutor(t) \/ FinishFailure(t) PROVE Alone
  <2>1. t.stage \in Stages
    BY DEF TypeOK, Tasks
  <2> QED BY <1>2, <1>3, <1>8, <2>1 DEF NoExecutor, FinishFailure, Owners
<1>9. ASSUME NEW t \in tasks, Complete(t) PROVE Alone
  <2>1. CASE ~Accepts(t)
    BY <1>9, <2>1 DEF Complete
  <2>2. CASE Accepts(t)
    <3> DEFINE q == t.pipeline
               st == [stage[q] EXCEPT ![t.stage] = "Done"]
    <3>1. t.pipeline # p /\ t.pipeline \in Pipelines
      BY <1>1, <2>2 DEF Accepts, TypeOK, Tasks
    <3>2. /\ stage' = [stage EXCEPT ![q] = st]
          /\ pipe' = [pipe EXCEPT ![q] = Recomputed(q, st)]
      BY <1>9, <2>2 DEF Complete
    <3> HIDE DEF st, q
    <3>3. pipe'[p] = pipe[p] /\ stage'[p] = stage[p]
      <4>1. q # p
        BY <3>1 DEF q
      <4> QED BY <3>2, <4>1 DEF TypeOK
    <3> QED BY <3>3
  <2> QED BY <2>1, <2>2
<1>10. ASSUME NEW s \in Stages, TimerFires(s) PROVE Alone
  <2>1. pipe' = pipe
    BY <1>10 DEF TimerFires
  <2>2. CASE \E q \in Pipelines : Active(q) /\ stage' = [stage EXCEPT ![q][s] = "Pending"]
    <3>1. PICK q \in Pipelines : Active(q) /\ stage' = [stage EXCEPT ![q][s] = "Pending"]
      BY <2>2
    <3>2. q # p
      BY <3>1 DEF Active
    <3> QED BY <2>1, <3>1, <3>2 DEF TypeOK
  <2> QED BY <1>2, <1>10, <2>1, <2>2 DEF TimerFires, Owners
<1>11. CASE Restart
  <2> DEFINE st == [s \in Stages |->
             IF stage[p][s] = "Running" THEN "Pending" ELSE stage[p][s]]
  <2>1. st = stage[p]
    BY <1>1 DEF TypeOK
  <2>2. stage'[p] = st /\ pipe'[p] = "Cancelled"
    BY <1>11 DEF Restart
  <2> QED BY <2>1, <2>2
<1>12. ASSUME NEW t \in tasks, TaskStep(t) PROVE Alone
  BY <1>2, <1>8, <1>9, <1>12 DEF TaskStep, Acquire, Leave, LockFails, ExecutorReturns, Fail
<1>13. ASSUME Dispatcher PROVE Alone
  BY <1>2, <1>7, <1>8, <1>13 DEF Dispatcher, ReadReady, Spawn
<1> QED BY <1>2, <1>4, <1>5, <1>6, <1>10, <1>11, <1>12, <1>13 DEF Next, Client, vars

\* Late results, failures, timers and restarts leave a cancelled run alone.
THEOREM CancelledStaysCancelled == Spec => LateResultsDoNotResurrect
<1>1. TypeOK /\ RegistryInv /\ [Next]_vars =>
        [\A p \in Pipelines :
           pipe[p] = "Cancelled" /\ (\A s \in Graph[p] : stage[p][s] # "Pending")
             => /\ pipe'[p] = "Cancelled"
                /\ stage'[p] = stage[p] \/ \E s \in Graph[p] :
                       stage[p][s] = "Exhausted" /\ stage'[p][s] = "Pending"]_vars
  BY CancelledIsLeftAlone
<1> QED BY <1>1, EngineIsTyped, RegistryIsConsistent, PTL DEF Spec, LateResultsDoNotResurrect

-----------------------------------------------------------------------------
(* The dispatcher's wake-ups.                                              *)

\* Stage s of p only waits for its pipeline to be active.
Lurks(p, s) ==
    /\ s \in Graph[p]
    /\ stage[p][s] = "Pending"
    /\ \A i \in Inputs[s] : stage[p][i] \in {"Done", "Skipped"}

\* Without a wake-up under way, whatever is ready is on the dispatcher's
\* list.  The second part is for Mark, which makes any pipeline Running: one
\* that is not active and has something to dispatch is not on the list.
WakeInv ==
    ~wake => \A p \in Pipelines, s \in Stages : Lurks(p, s) =>
        /\ Active(p) => <<p, s>> \in ready
        /\ ~Active(p) => \A x \in Stages : <<p, x>> \notin ready

\* After exhaust_stage nothing of the pipeline is left to dispatch, and the
\* other pipelines are what they were.
LEMMA ExhaustDoesNotWake ==
    ASSUME TypeOK, NEW p \in Pipelines, NEW s \in Stages, Exhaust(p, s)
    PROVE  /\ \A x \in Stages : ~Lurks(p, x)'
           /\ \A q \in Pipelines : q # p => pipe'[q] = pipe[q] /\ stage'[q] = stage[q]
<1>1. \A x \in Stages : x \in Graph[p] => stage'[p][x] # "Pending"
  BY DEF Exhaust, TypeOK
<1>2. \A q \in Pipelines : q # p => pipe'[q] = pipe[q] /\ stage'[q] = stage[q]
  BY DEF Exhaust, TypeOK
<1> QED BY <1>1, <1>2 DEF Lurks

\* Pipeline p has nothing to dispatch after a step that leaves the others and
\* the dispatcher alone.
LEMMA NothingToDispatch ==
    ASSUME WakeInv, NEW p \in Pipelines, \A x \in Stages : ~Lurks(p, x)',
           \A q \in Pipelines : q # p => pipe'[q] = pipe[q] /\ stage'[q] = stage[q],
           ready' = ready, wake' = wake
    PROVE  WakeInv'
<1> SUFFICES ASSUME ~wake', NEW q \in Pipelines, NEW s \in Stages, Lurks(q, s)'
    PROVE  /\ Active(q)' => <<q, s>> \in ready'
           /\ ~Active(q)' => \A x \in Stages : <<q, x>> \notin ready'
  BY DEF WakeInv
<1>1. q # p
  OBVIOUS
<1> QED BY <1>1 DEF WakeInv, Lurks, Active

\* The failure path, with or without an attempt left.
LEMMA FailureDoesNotWake ==
    ASSUME TypeOK, WakeInv, NEW p \in Pipelines, NEW s \in Stages,
           stage[p][s] = "Running", Exhaust(p, s) \/ MarkFailed(p, s),
           ready' = ready, wake' = wake
    PROVE  WakeInv'
<1>1. CASE Exhaust(p, s)
  BY <1>1, ExhaustDoesNotWake, NothingToDispatch
<1>2. CASE ~Exhaust(p, s)
  <2>1. pipe' = pipe /\ stage' = [stage EXCEPT ![p][s] = "Failed"]
    BY <1>2 DEF MarkFailed
  <2>2. \A q \in Pipelines, x \in Stages : Lurks(q, x)' => Lurks(q, x)
    BY <2>1, GraphsAreStages DEF Lurks, TypeOK
  <2> QED BY <2>1, <2>2 DEF WakeInv, Active
<1> QED BY <1>1, <1>2

\* Every action preserves it.
LEMMA StepKeepsWakeups == TypeOK /\ RegistryInv /\ WakeInv /\ [Next]_vars => WakeInv'
<1> SUFFICES ASSUME TypeOK, RegistryInv, WakeInv, [Next]_vars PROVE WakeInv'
  OBVIOUS
<1>1. CASE wake' = TRUE
  BY <1>1 DEF WakeInv
<1>2. CASE UNCHANGED <<pipe, stage, ready, wake>>
  BY <1>2 DEF WakeInv, Lurks, Active
<1>3. ASSUME NEW p \in Pipelines, Cancel(p) PROVE WakeInv'
  <2>1. \A s \in Stages : s \in Graph[p] => stage'[p][s] # "Pending"
    BY <1>3 DEF Cancel, TypeOK
  <2>2. \A q \in Pipelines : q # p => pipe'[q] = pipe[q] /\ stage'[q] = stage[q]
    BY <1>3 DEF Cancel, TypeOK
  <2> QED BY <1>3, <2>1, <2>2, NothingToDispatch DEF Cancel, Lurks
<1>4. CASE ReadReady
  BY <1>4 DEF ReadReady, ReadyStages, Ready, WakeInv, Lurks, Active
<1>5. ASSUME NEW p \in Pipelines, NEW s \in Stages, Mark(p, s) PROVE WakeInv'
  <2>1. /\ ready' = ready \ {<<p, s>>} /\ wake' = wake /\ <<p, s>> \in ready
    BY <1>5 DEF Mark
  <2>2. CASE stage[p][s] \notin {"Pending", "Failed"}
    <3>1. UNCHANGED <<pipe, stage>> /\ ~Lurks(p, s)
      BY <1>5, <2>2 DEF Mark, Lurks
    <3> QED BY <2>1, <3>1 DEF WakeInv, Lurks, Active
  <2>3. CASE stage[p][s] \in {"Pending", "Failed"}
    <3>1. /\ stage' = [stage EXCEPT ![p][s] = "Running"]
          /\ pipe' = [pipe EXCEPT ![p] = "Running"]
      BY <1>5, <2>3 DEF Mark
    <3>2. /\ \A q \in Pipelines, x \in Stages : Lurks(q, x)' => Lurks(q, x)
          /\ ~Lurks(p, s)'
      BY <3>1, GraphsAreStages DEF Lurks, TypeOK
    <3>3. \A q \in Pipelines : q # p => (Active(q)' <=> Active(q))
      BY <3>1 DEF Active, TypeOK
    <3>4. Active(p)'
      BY <3>1 DEF Active, TypeOK
    <3> SUFFICES ASSUME ~wake', NEW q \in Pipelines, NEW x \in Stages, Lurks(q, x)'
        PROVE  /\ Active(q)' => <<q, x>> \in ready'
               /\ ~Active(q)' => \A y \in Stages : <<q, y>> \notin ready'
      BY DEF WakeInv
    <3>5. Lurks(q, x) /\ <<q, x>> # <<p, s>> /\ ~wake
      BY <2>1, <3>2
    <3>6. CASE q = p
      <4>1. Active(p)
        BY <2>1, <3>5, <3>6 DEF WakeInv
      <4> QED BY <2>1, <3>4, <3>5, <3>6, <4>1 DEF WakeInv
    <3>7. CASE q # p
      BY <2>1, <3>3, <3>5, <3>7 DEF WakeInv
    <3> QED BY <3>6, <3>7
  <2> QED BY <2>2, <2>3
<1>6. ASSUME NEW t \in tasks, NoExecutor(t) \/ FinishFailure(t) PROVE WakeInv'
  <2>1. t.stage \in Stages /\ ready' = ready /\ wake' = wake
    BY <1>6 DEF TypeOK, Tasks, NoExecutor, FinishFailure
  <2> QED BY <1>2, <1>6, <2>1, FailureDoesNotWake DEF NoExecutor, FinishFailure, Owners
<1>7. ASSUME NEW s \in Stages, TimerFires(s) PROVE WakeInv'
  BY <1>1, <1>2, <1>7 DEF TimerFires
<1>8. ASSUME NEW t \in tasks, TaskStep(t) PROVE WakeInv'
  BY <1>1, <1>2, <1>6, <1>8
     DEF TaskStep, Acquire, Leave, LockFails, ExecutorReturns, Complete, Fail
<1>9. CASE Dispatcher
  BY <1>2, <1>4, <1>5, <1>6, <1>9 DEF Dispatcher, Spawn
<1>10. CASE Client
  BY <1>1, <1>3, <1>10 DEF Client, Submit, Retry
<1>11. CASE Restart
  BY <1>1, <1>11 DEF Restart
<1> QED BY <1>2, <1>7, <1>8, <1>9, <1>10, <1>11 DEF Next, vars

\* No wake-up is lost: a dispatcher that sleeps has nothing to dispatch.
THEOREM WakeupsReachTheDispatcher == Spec => []NoWakeupIsLost
<1>1. Init => WakeInv
  BY DEF Init, WakeInv
<1>2. TypeOK /\ WakeInv => NoWakeupIsLost
  BY DEF WakeInv, NoWakeupIsLost, Idle, ReadyStages, Ready, Lurks
<1>3. Spec => []WakeInv
  BY <1>1, EngineIsTyped, RegistryIsConsistent, StepKeepsWakeups, PTL DEF Spec
<1> QED BY <1>2, <1>3, EngineIsTyped, PTL

-----------------------------------------------------------------------------
(* Running stages and their tasks.                                         *)

\* Submitted pipelines are valid, tasks belong to stages of theirs, and every
\* running stage whose id no other run has, has a task that was not told to stop.
WorkerInv ==
    /\ \A p \in Pipelines : pipe[p] # "absent" => Valid(p)
    /\ \A t \in tasks : pipe[t.pipeline] # "absent" /\ t.stage \in Graph[t.pipeline]
    /\ RunningHasAWorker

\* A pipeline that was submitted stays so, and only valid ones are.
LEMMA SubmittedStaysSubmitted ==
    ASSUME TypeOK, RegistryInv, [Next]_vars, NEW p \in Pipelines
    PROVE  /\ pipe[p] # "absent" => pipe'[p] # "absent"
           /\ pipe[p] = "absent" /\ pipe'[p] # "absent" => Valid(p)
           /\ pipe[p] = "absent" => stage'[p] = stage[p]
<1> DEFINE Kept == /\ pipe[p] # "absent" => pipe'[p] # "absent"
                   /\ pipe[p] = "absent" => pipe'[p] = "absent" /\ stage'[p] = stage[p]
<1>1. CASE UNCHANGED <<pipe, stage>>
  BY <1>1
<1>2. ASSUME NEW q \in Pipelines, NEW pp, pp # "absent", pipe[q] # "absent",
             pipe' = [pipe EXCEPT ![q] = pp],
             \A r \in Pipelines : r # q => stage'[r] = stage[r]
      PROVE  Kept
  BY <1>2 DEF TypeOK
<1>3. ASSUME NEW q \in Pipelines, NEW s \in Stages, stage[q][s] = "Running",
             Exhaust(q, s) \/ MarkFailed(q, s)
      PROVE  Kept
  <2>1. pipe[q] # "absent"
    BY <1>3 DEF RegistryInv, Consistent
  <2>2. \A r \in Pipelines : r # q => stage'[r] = stage[r]
    BY <1>3 DEF Exhaust, MarkFailed, TypeOK
  <2>3. pipe' = [pipe EXCEPT ![q] = "Failed"] \/ pipe' = [pipe EXCEPT ![q] = pipe[q]]
    BY <1>3 DEF Exhaust, MarkFailed, TypeOK
  <2> QED BY <1>2, <2>1, <2>2, <2>3
<1>4. ASSUME NEW q \in Pipelines, Submit(q) PROVE Kept \/ (q = p /\ Valid(p) /\ stage' = stage
                                                             /\ pipe[p] = "absent")
  BY <1>4 DEF Submit, TypeOK
<1>5. ASSUME NEW q \in Pipelines, Cancel(q) PROVE Kept
  <2>1. pipe[q] # "absent" /\ pipe' = [pipe EXCEPT ![q] = "Cancelled"]
    BY <1>5 DEF Cancel
  <2>2. \A r \in Pipelines : r # q => stage'[r] = stage[r]
    BY <1>5 DEF Cancel, TypeOK
  <2> QED BY <1>2, <2>1, <2>2
<1>6. ASSUME NEW s \in Stages, Retry(s) PROVE Kept
  <2>1. PICK q \in Pipelines :
           /\ pipe[q] # "absent" /\ pipe' = [pipe EXCEPT ![q] = Reopened(q)]
           /\ \A r \in Pipelines : r # q => stage'[r] = stage[r]
    BY <1>6 DEF Retry, Owners, TypeOK
  <2>2. Reopened(q) # "absent"
    BY <2>1 DEF Reopened
  <2> QED BY <1>2, <2>1, <2>2
<1>7. ASSUME NEW q \in Pipelines, NEW s \in Stages, Mark(q, s) PROVE Kept
  <2>1. CASE stage[q][s] \notin {"Pending", "Failed"}
    BY <1>1, <1>7, <2>1 DEF Mark
  <2>2. CASE stage[q][s] \in {"Pending", "Failed"}
    <3>1. pipe[q] # "absent" /\ pipe' = [pipe EXCEPT ![q] = "Running"]
      BY <1>7, <2>2 DEF Mark, RegistryInv
    <3>2. \A r \in Pipelines : r # q => stage'[r] = stage[r]
      BY <1>7, <2>2 DEF Mark, TypeOK
    <3> QED BY <1>2, <3>1, <3>2
  <2> QED BY <2>1, <2>2
<1>8. ASSUME NEW t \in tasks, NoExecutor(t) \/ FinishFailure(t) PROVE Kept
  <2>1. t.stage \in Stages
    BY DEF TypeOK, Tasks
  <2> QED BY <1>1, <1>3, <1>8, <2>1 DEF NoExecutor, FinishFailure, Owners
<1>9. ASSUME NEW t \in tasks, Complete(t) PROVE Kept
  <2>1. CASE ~Accepts(t)
    BY <1>1, <1>9, <2>1 DEF Complete
  <2>2. CASE Accepts(t)
    <3> DEFINE q == t.pipeline
               st == [stage[q] EXCEPT ![t.stage] = "Done"]
               pp == Recomputed(q, st)
    <3>1. q \in Pipelines /\ t.stage \in Stages /\ stage[q][t.stage] = "Running"
      BY <2>2 DEF Accepts, TypeOK, Tasks
    <3>2. pipe[q] # "absent"
      BY <3>1 DEF RegistryInv, Consistent
    <3>3. pipe' = [pipe EXCEPT ![q] = pp] /\ stage' = [stage EXCEPT ![q] = st]
      BY <1>9, <2>2 DEF Complete
    <3>4. pp # "absent"
      BY <3>2 DEF Recomputed
    <3> HIDE DEF q, st, pp
    <3>5. \A r \in Pipelines : r # q => stage'[r] = stage[r]
      BY <3>3 DEF TypeOK
    <3> QED BY <1>2, <3>1, <3>2, <3>3, <3>4, <3>5
  <2> QED BY <2>1, <2>2
<1>10. ASSUME NEW s \in Stages, TimerFires(s) PROVE Kept
  <2>1. pipe' = pipe
    BY <1>10 DEF TimerFires
  <2>2. CASE \E q \in Pipelines : Active(q) /\ stage' = [stage EXCEPT ![q][s] = "Pending"]
    BY <2>1, <2>2 DEF Active, TypeOK
  <2> QED BY <1>1, <1>10, <2>1, <2>2 DEF TimerFires, Owners
<1>11. CASE Restart
  <2>1. pipe'[p] = IF pipe[p] = "Running" THEN "Pending" ELSE pipe[p]
    BY <1>11 DEF Restart
  <2>2. ASSUME pipe[p] = "absent" PROVE stage'[p] = stage[p]
    <3> DEFINE st == [s \in Stages |-> IF stage[p][s] = "Running" THEN "Pending" ELSE stage[p][s]]
    <3>1. \A s \in Stages : stage[p][s] = "Pending"
      BY <2>2 DEF RegistryInv, Consistent
    <3>2. st = stage[p]
      BY <3>1 DEF TypeOK
    <3>3. stage'[p] = st
      BY <1>11 DEF Restart
    <3> QED BY <3>2, <3>3
  <2> QED BY <2>1, <2>2
<1>12. ASSUME NEW t \in tasks, TaskStep(t) PROVE Kept
  BY <1>1, <1>8, <1>9, <1>12 DEF TaskStep, Acquire, Leave, LockFails, ExecutorReturns, Fail
<1>13. ASSUME Dispatcher PROVE Kept
  BY <1>1, <1>7, <1>8, <1>13 DEF Dispatcher, ReadReady, Spawn
<1>14. CASE \E q \in Pipelines : Submit(q)
  BY <1>4, <1>14
<1> QED BY <1>1, <1>5, <1>6, <1>10, <1>11, <1>12, <1>13, <1>14 DEF Next, Client, vars

\* A stage id that two runs have stays one that two runs have.
SharedStays == \A p \in Pipelines, s \in Stages : Shared(p, s) => Shared(p, s)'

LEMMA SharedStaysShared ==
    ASSUME TypeOK, RegistryInv, [Next]_vars
    PROVE  SharedStays
<1> SUFFICES ASSUME NEW p \in Pipelines, NEW s \in Stages, Shared(p, s) PROVE Shared(p, s)'
  BY DEF SharedStays
<1>1. PICK q \in Pipelines : pipe[q] # "absent" /\ s \in Graph[q] /\ q # p
  BY DEF Shared, Owners
<1>2. pipe'[q] # "absent"
  BY <1>1, SubmittedStaysSubmitted
<1> QED BY <1>1, <1>2 DEF Shared, Owners

\* Task t ends: stages that still run did so before, and where t was still
\* counted on its stage runs no more.
LEMMA WorkerEnds ==
    ASSUME TypeOK, WorkerInv, SharedStays, NEW t \in tasks, tasks' = tasks \ {t},
           \A p \in Pipelines : \A s \in Graph[p] : stage'[p][s] = "Running" /\ ~Shared(p, s) =>
               /\ stage[p][s] = "Running"
               /\ t.cancelled \/ p # t.pipeline \/ s # t.stage
    PROVE  RunningHasAWorker'
<1> SUFFICES ASSUME NEW p \in Pipelines, NEW s \in Graph[p], stage'[p][s] = "Running",
                    ~Shared(p, s)'
    PROVE  \E u \in tasks' : u.pipeline = p /\ u.stage = s /\ ~u.cancelled
  BY DEF RunningHasAWorker, TasksOf
<1>0. ~Shared(p, s)
  BY GraphsAreStages DEF SharedStays
<1>1. PICK u \in tasks : u.pipeline = p /\ u.stage = s /\ ~u.cancelled
  BY <1>0 DEF WorkerInv, RunningHasAWorker, TasksOf
<1>2. u # t
  BY <1>0, <1>1
<1> QED BY <1>1, <1>2

\* Task t goes on as u, for the same stage and with the same token.
LEMMA WorkerGoesOn ==
    ASSUME TypeOK, WorkerInv, NEW t \in tasks, NEW u, Moved(t, u),
           u.pipeline = t.pipeline, u.stage = t.stage, u.cancelled = t.cancelled,
           UNCHANGED <<pipe, stage>>
    PROVE  /\ RunningHasAWorker'
           /\ \A v \in tasks' : pipe'[v.pipeline] # "absent" /\ v.stage \in Graph[v.pipeline]
<1>1. tasks' = (tasks \ {t}) \cup {u}
  BY DEF Moved
<1>2. ASSUME NEW p \in Pipelines, NEW s \in Graph[p], stage'[p][s] = "Running", ~Shared(p, s)
      PROVE  \E v \in tasks' : v.pipeline = p /\ v.stage = s /\ ~v.cancelled
  <2>1. PICK v \in tasks : v.pipeline = p /\ v.stage = s /\ ~v.cancelled
    BY <1>2 DEF WorkerInv, RunningHasAWorker, TasksOf
  <2> QED BY <1>1, <2>1
<1>3. \A p, s : Shared(p, s)' <=> Shared(p, s)
  BY DEF Shared, Owners
<1> QED BY <1>1, <1>2, <1>3 DEF RunningHasAWorker, TasksOf, WorkerInv

\* A stage that is running is running no more and task t is gone: no attempt is
\* left, one is, or no executor was found.
LEMMA WorkerFails ==
    ASSUME TypeOK, RegistryInv, WorkerInv, SharedStays, NEW t \in tasks,
           NoExecutor(t) \/ FinishFailure(t)
    PROVE  RunningHasAWorker'
<1>1. tasks' = tasks \ {t} /\ t.stage \in Stages /\ t.pipeline \in Pipelines
  BY DEF NoExecutor, FinishFailure, TypeOK, Tasks
<1>2. PICK p \in Owners(t.stage) :
         IF stage[p][t.stage] = "Running"
         THEN Exhaust(p, t.stage) \/ MarkFailed(p, t.stage)
         ELSE UNCHANGED <<pipe, stage, attempts>>
  BY DEF NoExecutor, FinishFailure
<1>3. p \in Pipelines /\ (Shared(t.pipeline, t.stage) \/ p = t.pipeline)
  BY <1>2 DEF Owners, Shared
<1>4. CASE stage[p][t.stage] # "Running"
  <2>1. stage' = stage
    BY <1>2, <1>4
  <2> QED BY <1>1, <1>3, <1>4, <2>1, WorkerEnds
<1>5. CASE stage[p][t.stage] = "Running"
  <2>1. Exhaust(p, t.stage) \/ MarkFailed(p, t.stage)
    BY <1>2, <1>5
  <2>2. \A q \in Pipelines, s \in Stages : stage'[q][s] = "Running" =>
            stage[q][s] = "Running" /\ ~(q = p /\ s = t.stage)
    BY <1>1, <1>3, <2>1 DEF Exhaust, MarkFailed, TypeOK
  <2> QED BY <1>1, <1>3, <2>2, GraphsAreStages, WorkerEnds
<1> QED BY <1>4, <1>5

\* Every action keeps a task beside every running stage.
LEMMA StepKeepsWorkers ==
    ASSUME TypeOK, RegistryInv, WorkerInv, [Next]_vars
    PROVE  WorkerInv'
<1> USE GraphsAreStages
<1> DEFINE Placed == \A t \in tasks' :
                        pipe'[t.pipeline] # "absent" /\ t.stage \in Graph[t.pipeline]
<1>0. \A p \in Pipelines : /\ pipe[p] # "absent" => pipe'[p] # "absent"
                           /\ pipe'[p] # "absent" => Valid(p)
  BY SubmittedStaysSubmitted DEF WorkerInv
<1>c. SharedStays
  BY SharedStaysShared
<1>a. \A t \in tasks : t.pipeline \in Pipelines /\ t.stage \in Stages
  BY DEF TypeOK, Tasks
<1>b. tasks' \subseteq tasks => Placed
  BY <1>0, <1>a DEF WorkerInv
<1>1. ASSUME tasks' = tasks,
             \A p \in Pipelines : \A s \in Graph[p] :
                 stage'[p][s] = "Running" => stage[p][s] = "Running"
      PROVE  RunningHasAWorker' /\ Placed
  BY <1>1, <1>b, <1>c DEF WorkerInv, RunningHasAWorker, TasksOf, SharedStays
<1>2. ASSUME NEW p \in Pipelines, Cancel(p) PROVE RunningHasAWorker' /\ Placed
  <2> DEFINE unsettled == {s \in Graph[p] : stage[p][s] \in {"Pending", "Running", "Failed"}}
             told == {t \in tasks : t.pipeline = p /\ t.stage \in unsettled}
  <2>1. tasks' = {ToldToStop(t, told) : t \in tasks}
    BY <1>2 DEF Cancel, ToldToStop
  <2>2. \A t \in tasks : /\ ToldToStop(t, told).pipeline = t.pipeline
                         /\ ToldToStop(t, told).stage = t.stage
                         /\ t \notin told => ToldToStop(t, told).cancelled = t.cancelled
    <3>1. \A S : \A t \in Tasks :
             /\ ToldToStop(t, S).pipeline = t.pipeline
             /\ ToldToStop(t, S).stage = t.stage
             /\ t \notin S => ToldToStop(t, S).cancelled = t.cancelled
      BY DEF Tasks, ToldToStop
    <3> HIDE DEF told
    <3> QED BY <3>1 DEF TypeOK
  <2>3. ASSUME NEW q \in Pipelines, NEW s \in Graph[q], stage'[q][s] = "Running", ~Shared(q, s)
        PROVE  \E u \in tasks' : u.pipeline = q /\ u.stage = s /\ ~u.cancelled
    <3>1. stage[q][s] = "Running" /\ q # p
      BY <1>2, <2>3 DEF Cancel, TypeOK
    <3>2. PICK t \in tasks : t.pipeline = q /\ t.stage = s /\ ~t.cancelled
      BY <2>3, <3>1 DEF WorkerInv, RunningHasAWorker, TasksOf
    <3>3. t \notin told
      BY <3>1, <3>2
    <3> HIDE DEF told
    <3>4. /\ ToldToStop(t, told) \in tasks'
          /\ ToldToStop(t, told).pipeline = q /\ ToldToStop(t, told).stage = s
          /\ ~ToldToStop(t, told).cancelled
      BY <2>1, <2>2, <3>2, <3>3
    <3> QED BY <3>4
  <2>4. Placed
    <3> HIDE DEF told
    <3> QED BY <1>0, <1>a, <2>1, <2>2 DEF WorkerInv
  <2> QED BY <1>c, <2>3, <2>4 DEF RunningHasAWorker, TasksOf, SharedStays
<1>3. ASSUME NEW s \in Stages, Retry(s) PROVE RunningHasAWorker' /\ Placed
  <2>1. PICK p \in Pipelines : \E reset :
           stage' = [stage EXCEPT ![p] = [x \in Stages |->
                         IF x \in reset THEN "Pending" ELSE stage[p][x]]]
    BY <1>3 DEF Retry, Owners
  <2>2. \A q \in Pipelines, x \in Stages : stage'[q][x] \in {"Pending", stage[q][x]}
    BY <2>1 DEF TypeOK
  <2>3. tasks' = tasks
    BY <1>3 DEF Retry
  <2> QED BY <1>1, <2>2, <2>3
<1>4. ASSUME NEW p \in Pipelines, NEW s \in Stages, Mark(p, s) PROVE RunningHasAWorker' /\ Placed
  <2>1. CASE stage[p][s] \notin {"Pending", "Failed"}
    BY <1>1, <1>4, <2>1 DEF Mark
  <2>2. CASE stage[p][s] \in {"Pending", "Failed"}
    <3> DEFINE new(n) == [pipeline |-> p, stage |-> s, n |-> n, phase |-> "launching",
                          held |-> {}, cancelled |-> FALSE]
    <3>0. PICK n \in 1 .. MaxTasks : tasks' = tasks \cup {new(n)}
      BY <1>4, <2>2 DEF Mark
    <3>1. PICK u : /\ tasks' = tasks \cup {u}
                   /\ u.pipeline = p /\ u.stage = s /\ ~u.cancelled
      <4>1. new(n).pipeline = p /\ new(n).stage = s /\ ~new(n).cancelled
        OBVIOUS
      <4> HIDE DEF new
      <4> QED BY <3>0, <4>1
    <3>2. s \in Graph[p] /\ pipe[p] # "absent"
      BY <1>4 DEF Mark, RegistryInv
    <3>3. \A q \in Pipelines, x \in Stages :
             stage'[q][x] = "Running" => stage[q][x] = "Running" \/ (q = p /\ x = s)
      BY <1>4, <2>2 DEF Mark, TypeOK
    <3>4. ASSUME NEW q \in Pipelines, NEW x \in Graph[q], stage'[q][x] = "Running", ~Shared(q, x)
          PROVE  \E v \in tasks' : v.pipeline = q /\ v.stage = x /\ ~v.cancelled
      <4>1. CASE q = p /\ x = s
        BY <3>1, <4>1
      <4>2. CASE stage[q][x] = "Running"
        <5>1. PICK v \in tasks : v.pipeline = q /\ v.stage = x /\ ~v.cancelled
          BY <3>4, <4>2 DEF WorkerInv, RunningHasAWorker, TasksOf
        <5> QED BY <3>1, <5>1
      <4> QED BY <3>3, <3>4, <4>1, <4>2
    <3>5. Placed
      BY <1>0, <1>a, <3>1, <3>2 DEF WorkerInv
    <3> QED BY <1>c, <3>4, <3>5 DEF RunningHasAWorker, TasksOf, SharedStays
  <2> QED BY <2>1, <2>2
<1>5. ASSUME NEW t \in tasks, NoExecutor(t) \/ FinishFailure(t) PROVE RunningHasAWorker' /\ Placed
  BY <1>5, <1>b, <1>c, WorkerFails DEF NoExecutor, FinishFailure
<1>6. ASSUME NEW t \in tasks, Leave(t) PROVE RunningHasAWorker' /\ Placed
  BY <1>6, <1>b, <1>c, WorkerEnds DEF Leave
<1>7. ASSUME NEW t \in tasks, Complete(t) PROVE RunningHasAWorker' /\ Placed
  <2>1. tasks' = tasks \ {t}
    BY <1>7 DEF Complete
  <2>2. CASE ~Accepts(t)
    BY <1>7, <1>a, <1>b, <1>c, <2>1, <2>2, WorkerEnds DEF Complete, Accepts
  <2>3. CASE Accepts(t)
    <3> DEFINE q == t.pipeline
               st == [stage[q] EXCEPT ![t.stage] = "Done"]
    <3>1. stage' = [stage EXCEPT ![q] = st]
      BY <1>7, <2>3 DEF Complete
    <3>2. q \in Pipelines /\ \A x \in Stages :
             st[x] = IF x = t.stage THEN "Done" ELSE stage[q][x]
      BY <1>a DEF TypeOK
    <3> HIDE DEF st, q
    <3>3. \A r \in Pipelines, x \in Stages : stage'[r][x] = "Running" =>
             stage[r][x] = "Running" /\ ~(r = q /\ x = t.stage)
      BY <3>1, <3>2 DEF TypeOK
    <3> QED BY <1>b, <1>c, <2>1, <3>3, WorkerEnds DEF q
  <2> QED BY <2>2, <2>3
<1>8. ASSUME NEW t \in tasks, Spawn(t) \/ Acquire(t) \/ ExecutorReturns(t)
      PROVE  RunningHasAWorker' /\ Placed
  <2>1. t \in Tasks
    BY DEF TypeOK
  <2>2. PICK u : /\ Moved(t, u)
                 /\ u.pipeline = t.pipeline /\ u.stage = t.stage /\ u.cancelled = t.cancelled
    <3>1. CASE Spawn(t)
      BY <2>1, <3>1 DEF Spawn, Tasks
    <3>2. CASE Acquire(t)
      <4> DEFINE u == [t EXCEPT !.held = t.held \cup {NextEntry(t)},
                               !.phase = IF Missing(t) = {NextEntry(t)} THEN "executing"
                                         ELSE "locking"]
      <4>1. Moved(t, u)
        BY <2>1, <3>2 DEF Acquire, Tasks
      <4>2. u.pipeline = t.pipeline /\ u.stage = t.stage /\ u.cancelled = t.cancelled
        BY <2>1 DEF Tasks
      <4> HIDE DEF u
      <4> QED BY <4>1, <4>2
    <3>3. CASE ExecutorReturns(t)
      <4>1. PICK result : Moved(t, [t EXCEPT !.phase = result, !.held = {}])
        BY <3>3 DEF ExecutorReturns
      <4> DEFINE u == [t EXCEPT !.phase = result, !.held = {}]
      <4>2. u.pipeline = t.pipeline /\ u.stage = t.stage /\ u.cancelled = t.cancelled
        BY <2>1 DEF Tasks
      <4>3. Moved(t, u)
        BY <4>1
      <4> HIDE DEF u
      <4> QED BY <4>2, <4>3
    <3> QED BY <1>8, <3>1, <3>2, <3>3
  <2>3. UNCHANGED <<pipe, stage>>
    BY <1>8 DEF Spawn, Acquire, ExecutorReturns
  <2> QED BY <2>2, <2>3, WorkerGoesOn
<1>9. ASSUME NEW s \in Stages, TimerFires(s) PROVE RunningHasAWorker' /\ Placed
  <2>1. tasks' = tasks
    BY <1>9 DEF TimerFires
  <2>2. \A q \in Pipelines, x \in Stages : stage'[q][x] \in {"Pending", stage[q][x]}
    <3>1. \/ \E p \in Pipelines : stage' = [stage EXCEPT ![p][s] = "Pending"]
          \/ stage' = stage
      BY <1>9 DEF TimerFires, Owners
    <3>2. ASSUME NEW p \in Pipelines, stage' = [stage EXCEPT ![p][s] = "Pending"],
                 NEW q \in Pipelines, NEW x \in Stages
          PROVE  stage'[q][x] \in {"Pending", stage[q][x]}
      <4>1. CASE q = p
        BY <3>2, <4>1 DEF TypeOK
      <4>2. CASE q # p
        BY <3>2, <4>2 DEF TypeOK
      <4> QED BY <4>1, <4>2
    <3> QED BY <3>1, <3>2
  <2> QED BY <1>1, <2>1, <2>2
<1>10. ASSUME Restart PROVE RunningHasAWorker' /\ Placed
  <2>1. \A q \in Pipelines, x \in Stages : stage'[q][x] # "Running"
    BY <1>10 DEF Restart
  <2>2. tasks' = {}
    BY <1>10 DEF Restart
  <2> QED BY <2>1, <2>2 DEF RunningHasAWorker
<1>11. ASSUME UNCHANGED <<stage, tasks>> PROVE RunningHasAWorker' /\ Placed
  BY <1>1, <1>11
<1>12. ASSUME Dispatcher PROVE RunningHasAWorker' /\ Placed
  BY <1>4, <1>5, <1>8, <1>11, <1>12 DEF Dispatcher, ReadReady
<1>13. ASSUME NEW t \in tasks, TaskStep(t) PROVE RunningHasAWorker' /\ Placed
  BY <1>5, <1>6, <1>7, <1>8, <1>13 DEF TaskStep, LockFails, Fail
<1>14. ASSUME Client PROVE RunningHasAWorker' /\ Placed
  BY <1>2, <1>3, <1>11, <1>14 DEF Client, Submit
<1>15. RunningHasAWorker' /\ Placed
  BY <1>9, <1>10, <1>11, <1>12, <1>13, <1>14 DEF Next, vars
<1> QED BY <1>0, <1>15 DEF WorkerInv, Valid

\* A stage that shows Running and whose id no other run in the registry has, has
\* a task that will report on it.
THEOREM RunningIsWorkedOn == Spec => []RunningHasAWorker
<1>1. Init => WorkerInv
  BY GraphsAreStages DEF Init, WorkerInv, RunningHasAWorker
<1>2. TypeOK /\ RegistryInv /\ WorkerInv /\ [Next]_vars => WorkerInv'
  BY StepKeepsWorkers
<1>3. WorkerInv => RunningHasAWorker
  BY DEF WorkerInv
<1> QED BY <1>1, <1>2, <1>3, EngineIsTyped, RegistryIsConsistent, PTL DEF Spec

-----------------------------------------------------------------------------
(* Runs that go on.                                                        *)

Unsettled == {"Pending", "Running", "Failed"}

\* An active run has a stage that is not settled.
GoingInv ==
    \A p \in Pipelines : Active(p) => \E s \in Graph[p] : stage[p][s] \in Unsettled

\* A run that is active is being worked on, waits for a retry, or has a stage
\* whose inputs are there and which the dispatcher reads or was woken for.  A
\* stage whose id another run has may show Running without being worked on.
NoRunIsStuck ==
    \A p \in Pipelines : Active(p) => \E s \in Graph[p] :
        \/ stage[p][s] = "Running" /\ (Shared(p, s) \/ \E t \in TasksOf(p, s) : ~t.cancelled)
        \/ stage[p][s] = "Failed"
        \/ Ready(p, s) /\ (wake \/ <<p, s>> \in ready)

\* One pipeline changes, and has an unsettled stage if it is active.
LEMMA OneGoesOn ==
    ASSUME TypeOK, GoingInv, NEW p \in Pipelines, NEW pp, NEW st,
           pipe' = [pipe EXCEPT ![p] = pp], stage' = [stage EXCEPT ![p] = st],
           pp \in {"Pending", "Running"} => \E s \in Graph[p] : st[s] \in Unsettled
    PROVE  GoingInv'
<1>1. /\ pipe'[p] = pp /\ stage'[p] = st
      /\ \A q \in Pipelines : q # p => pipe'[q] = pipe[q] /\ stage'[q] = stage[q]
  BY DEF TypeOK
<1> QED BY <1>1 DEF GoingInv, Active

\* A running stage fails, with or without an attempt left.
LEMMA FailureGoesOn ==
    ASSUME TypeOK, RegistryInv, GoingInv, NEW p \in Pipelines, NEW s \in Stages,
           stage[p][s] = "Running", Exhaust(p, s) \/ MarkFailed(p, s)
    PROVE  GoingInv'
<1>1. s \in Graph[p]
  BY DEF RegistryInv, Consistent
<1>2. CASE Exhaust(p, s)
  <2>1. PICK st : /\ pipe' = [pipe EXCEPT ![p] = "Failed"]
                  /\ stage' = [stage EXCEPT ![p] = st]
    BY <1>2 DEF Exhaust
  <2> QED BY <2>1, OneGoesOn
<1>3. CASE pipe' = pipe /\ stage' = [stage EXCEPT ![p][s] = "Failed"]
  <2> DEFINE st == [stage[p] EXCEPT ![s] = "Failed"]
  <2>1. pipe' = [pipe EXCEPT ![p] = pipe[p]] /\ stage' = [stage EXCEPT ![p] = st]
    BY <1>3 DEF TypeOK
  <2>2. st[s] \in Unsettled
    BY DEF TypeOK, Unsettled
  <2> HIDE DEF st
  <2> QED BY <1>1, <2>1, <2>2, OneGoesOn
<1> QED BY <1>2, <1>3 DEF MarkFailed

\* complete_stage: a run that recompute_pipeline leaves active is not settled.
LEMMA CompleteGoesOn ==
    ASSUME TypeOK, RegistryInv, GoingInv, NEW t \in tasks, Complete(t)
    PROVE  GoingInv'
<1>1. CASE ~Accepts(t)
  BY <1>1 DEF Complete, GoingInv, Active
<1>2. CASE Accepts(t)
  <2> DEFINE p == t.pipeline
             st == [stage[p] EXCEPT ![t.stage] = "Done"]
             pp == Recomputed(p, st)
  <2>1. p \in Pipelines /\ t.stage \in Stages
    BY DEF TypeOK, Tasks
  <2>2. pipe' = [pipe EXCEPT ![p] = pp] /\ stage' = [stage EXCEPT ![p] = st]
    BY <1>2 DEF Complete
  <2>3. \A s \in Graph[p] : st[s] \in StageStates
    BY <2>1, GraphsAreStages DEF TypeOK, StageStates
  <2>4. ASSUME \A s \in Graph[p] : st[s] \notin Unsettled
        PROVE  pp \in {"Failed", "Done"}
    <3> HIDE DEF p, st
    <3>1. \A s \in Graph[p] : st[s] \in {"Done", "Exhausted", "Cancelled", "Skipped"}
      BY <2>3, <2>4 DEF StageStates, Unsettled
    <3> QED BY <3>1 DEF Recomputed
  <2> HIDE DEF p, st, pp
  <2> QED BY <2>1, <2>2, <2>4, OneGoesOn
<1> QED BY <1>1, <1>2

\* Every action leaves an active run something to settle.
LEMMA StepGoesOn ==
    ASSUME TypeOK, RegistryInv, GoingInv, [Next]_vars
    PROVE  GoingInv'
<1> USE GraphsAreStages
<1>1. CASE UNCHANGED <<pipe, stage>>
  BY <1>1 DEF GoingInv, Active
<1>2. ASSUME NEW p \in Pipelines, Submit(p) PROVE GoingInv'
  <2>1. PICK s \in Graph[p] : TRUE
    BY <1>2 DEF Submit, Valid
  <2>2. stage[p][s] = "Pending"
    BY <1>2 DEF Submit, RegistryInv, Consistent
  <2>3. pipe' = [pipe EXCEPT ![p] = "Pending"] /\ stage' = [stage EXCEPT ![p] = stage[p]]
    BY <1>2 DEF Submit, TypeOK
  <2> QED BY <2>2, <2>3, OneGoesOn DEF Unsettled
<1>3. ASSUME NEW p \in Pipelines, Cancel(p) PROVE GoingInv'
  <2>1. PICK st : pipe' = [pipe EXCEPT ![p] = "Cancelled"] /\ stage' = [stage EXCEPT ![p] = st]
    BY <1>3 DEF Cancel
  <2> QED BY <2>1, OneGoesOn
<1>4. ASSUME NEW s \in Stages, Retry(s) PROVE GoingInv'
  <2> DEFINE reset(p) == {s} \cup
                 {x \in Graph[p] : /\ stage[p][s] = "Exhausted"
                                   /\ stage[p][x] \in {"Failed", "Exhausted", "Cancelled",
                                                       "Skipped"}}
             st(p) == [x \in Stages |-> IF x \in reset(p) THEN "Pending" ELSE stage[p][x]]
  <2>1. PICK p \in Pipelines : /\ s \in Graph[p]
                               /\ stage' = [stage EXCEPT ![p] = st(p)]
                               /\ pipe' = [pipe EXCEPT ![p] = Reopened(p)]
    BY <1>4 DEF Retry, Owners
  <2>2. st(p)[s] \in Unsettled
    BY DEF Unsettled
  <2> HIDE DEF st
  <2> QED BY <2>1, <2>2, OneGoesOn
<1>5. ASSUME NEW p \in Pipelines, NEW s \in Stages, Mark(p, s) PROVE GoingInv'
  <2>1. CASE stage[p][s] \notin {"Pending", "Failed"}
    BY <1>1, <1>5, <2>1 DEF Mark
  <2>2. CASE stage[p][s] \in {"Pending", "Failed"}
    <3> DEFINE st == [stage[p] EXCEPT ![s] = "Running"]
    <3>1. pipe' = [pipe EXCEPT ![p] = "Running"] /\ stage' = [stage EXCEPT ![p] = st]
      BY <1>5, <2>2 DEF Mark, TypeOK
    <3>2. s \in Graph[p]
      BY <1>5 DEF Mark, RegistryInv
    <3>3. st[s] \in Unsettled
      BY DEF TypeOK, Unsettled
    <3> HIDE DEF st
    <3> QED BY <3>1, <3>2, <3>3, OneGoesOn
  <2> QED BY <2>1, <2>2
<1>6. ASSUME NEW t \in tasks, NoExecutor(t) \/ FinishFailure(t) PROVE GoingInv'
  <2>1. t.stage \in Stages
    BY DEF TypeOK, Tasks
  <2>2. PICK p \in Pipelines :
           IF stage[p][t.stage] = "Running"
           THEN Exhaust(p, t.stage) \/ MarkFailed(p, t.stage)
           ELSE UNCHANGED <<pipe, stage>>
    BY <1>6 DEF NoExecutor, FinishFailure, Owners
  <2> QED BY <1>1, <2>1, <2>2, FailureGoesOn
<1>7. ASSUME NEW s \in Stages, TimerFires(s) PROVE GoingInv'
  <2>1. CASE stage' = stage
    BY <1>1, <1>7, <2>1 DEF TimerFires
  <2>2. ASSUME NEW p \in Pipelines, s \in Graph[p], stage' = [stage EXCEPT ![p][s] = "Pending"]
        PROVE  GoingInv'
    <3> DEFINE st == [stage[p] EXCEPT ![s] = "Pending"]
    <3>1. pipe' = [pipe EXCEPT ![p] = pipe[p]] /\ stage' = [stage EXCEPT ![p] = st]
      BY <1>7, <2>2 DEF TimerFires, TypeOK
    <3>2. st[s] \in Unsettled
      BY DEF TypeOK, Unsettled
    <3> HIDE DEF st
    <3> QED BY <2>2, <3>1, <3>2, OneGoesOn
  <2> QED BY <1>7, <2>1, <2>2 DEF TimerFires, Owners
<1>8. CASE Restart
  <2>1. ASSUME NEW p \in Pipelines, pipe'[p] \in {"Pending", "Running"}
        PROVE  \E s \in Graph[p] : stage'[p][s] \in Unsettled
    <3>1. pipe[p] \in {"Pending", "Running"}
      BY <1>8, <2>1 DEF Restart
    <3>2. PICK s \in Graph[p] : stage[p][s] \in Unsettled
      BY <3>1 DEF GoingInv, Active
    <3>3. stage'[p][s] = IF stage[p][s] = "Running" THEN "Pending" ELSE stage[p][s]
      BY <1>8 DEF Restart
    <3> QED BY <3>2, <3>3 DEF Unsettled
  <2> QED BY <2>1 DEF GoingInv, Active
<1>9. ASSUME NEW t \in tasks, TaskStep(t) PROVE GoingInv'
  BY <1>1, <1>6, <1>9, CompleteGoesOn
     DEF TaskStep, Acquire, Leave, LockFails, ExecutorReturns, Fail
<1>10. ASSUME Dispatcher PROVE GoingInv'
  BY <1>1, <1>5, <1>6, <1>10 DEF Dispatcher, ReadReady, Spawn
<1> QED BY <1>1, <1>2, <1>3, <1>4, <1>7, <1>8, <1>9, <1>10 DEF Next, Client, vars

\* Of stages that are neither running nor in backoff, one that waits for no
\* other pending stage has all it needs: the graph has no cycle, and a stage
\* whose input is cancelled or exhausted is not pending.
LEMMA SomethingIsReady ==
    ASSUME TypeOK, RegistryInv, WorkerInv, GoingInv, NEW p \in Pipelines, Active(p),
           \A s \in Graph[p] : stage[p][s] \notin {"Running", "Failed"}
    PROVE  \E s \in Graph[p] : Ready(p, s)
<1> DEFINE S == {s \in Graph[p] : stage[p][s] = "Pending"}
<1>1. S # {} /\ S \subseteq Graph[p]
  BY DEF GoingInv, Unsettled
<1>2. pipe[p] # "absent" /\ Valid(p)
  BY DEF Active, WorkerInv
<1>3. PICK s \in S : Inputs[s] \cap S = {}
  BY <1>1, <1>2 DEF Valid
<1>4. s \in Graph[p] /\ stage[p][s] = "Pending"
  BY <1>3
<1>5. Consistent(p, pipe[p], stage[p])
  BY DEF RegistryInv
<1>6. ASSUME NEW i \in Inputs[s] PROVE stage[p][i] \in {"Done", "Skipped"}
  <2>1. i \in Graph[p] /\ stage[p][i] # "Pending"
    BY <1>2, <1>3, <1>4 DEF Valid
  <2>2. stage[p][i] \in StageStates
    BY <2>1, GraphsAreStages DEF TypeOK
  <2>3. stage[p][i] # "Cancelled"
    BY <1>4, <1>5, <2>1 DEF Consistent
  <2>4. stage[p][i] = "Exhausted" => stage[p][i] = "Done"
    BY <1>4, <1>5, <2>1 DEF Consistent, InputsDone
  <2> QED BY <2>1, <2>2, <2>3, <2>4 DEF StageStates
<1> QED BY <1>4, <1>6 DEF Ready

\* An active run that shares no stage id with another has a stage that an
\* executor works on, one that is Failed and so in backoff (or was, when the
\* daemon died), or one that is ready and that the dispatcher has on its list or
\* was woken for, whatever is cancelled, retried, exhausted beside it, reported
\* late or queued again by a restart.  Where it shares a stage id, that stage may
\* show Running with nobody working on it instead.  RunsEnd says when these
\* futures come (ready_stages and recompute_pipeline, executor.rs; the wake-ups of
\* runtime.rs).
THEOREM RunsHaveAFuture == Spec => []NoRunIsStuck
<1>1. Init => GoingInv /\ WorkerInv /\ WakeInv
  BY GraphsAreStages
     DEF Init, GoingInv, Active, WorkerInv, RunningHasAWorker, WakeInv
<1>2. TypeOK /\ RegistryInv /\ GoingInv /\ [Next]_vars => GoingInv'
  BY StepGoesOn
<1>3. TypeOK /\ RegistryInv /\ WorkerInv /\ [Next]_vars => WorkerInv'
  BY StepKeepsWorkers
<1>4. TypeOK /\ RegistryInv /\ WorkerInv /\ WakeInv /\ GoingInv => NoRunIsStuck
  <2> SUFFICES ASSUME TypeOK, RegistryInv, WorkerInv, WakeInv, GoingInv,
                      NEW p \in Pipelines, Active(p),
                      \A s \in Graph[p] : stage[p][s] \notin {"Running", "Failed"}
      PROVE  \E s \in Graph[p] : Ready(p, s) /\ (wake \/ <<p, s>> \in ready)
    BY DEF NoRunIsStuck, WorkerInv, RunningHasAWorker
  <2>1. PICK s \in Graph[p] : Ready(p, s)
    BY SomethingIsReady
  <2>2. s \in Stages
    BY GraphsAreStages
  <2> QED BY <2>1, <2>2 DEF WakeInv, Lurks, Ready
<1> QED BY <1>1, <1>2, <1>3, <1>4, StepKeepsWakeups, EngineIsTyped, RegistryIsConsistent, PTL
        DEF Spec

-----------------------------------------------------------------------------
(* The stages and the job lifecycle.                                       *)

\* The states that may follow a stage's in one step of the engine.
StageSuccessors ==
  [ Pending   |-> {"Running", "Cancelled", "Skipped"},
    Running   |-> {"Done", "Failed", "Exhausted", "Cancelled", "Pending"},
    Done      |-> {},
    Failed    |-> {"Running", "Pending", "Cancelled", "Skipped"},
    Exhausted |-> {"Pending"},
    Cancelled |-> {"Pending"},
    Skipped   |-> {"Pending"} ]

Follows(from, to) == to = from \/ to \in StageSuccessors[from]

\* Each of them is an edge of the job table in the durable spelling.
LEMMA SuccessorsAreEdges ==
    ASSUME NEW from \in StageStates, NEW to \in StageStates
    PROVE  /\ AsJobState[from] \in Durable!JobState
           /\ to \in StageSuccessors[from] => Durable!IsLegal(AsJobState[from], AsJobState[to])
  BY DEF StageStates, StageSuccessors, AsJobState, Durable!JobState, Durable!IsLegal,
         Durable!Successors

\* The stages of one pipeline, or one of them, go on along the table.
LEMMA OthersFollow ==
    ASSUME TypeOK, NEW p \in Pipelines, NEW st,
           stage' = [stage EXCEPT ![p] = st], \A s \in Stages : Follows(stage[p][s], st[s])
    PROVE  \A q \in Pipelines, s \in Stages : Follows(stage[q][s], stage'[q][s])
  BY DEF TypeOK, Follows

LEMMA OneFollows ==
    ASSUME TypeOK, NEW p \in Pipelines, NEW x \in Stages, NEW to,
           stage' = [stage EXCEPT ![p][x] = to], Follows(stage[p][x], to)
    PROVE  \A q \in Pipelines, s \in Stages : Follows(stage[q][s], stage'[q][s])
<1> DEFINE st == [stage[p] EXCEPT ![x] = to]
<1>1. stage' = [stage EXCEPT ![p] = st] /\ \A s \in Stages : Follows(stage[p][s], st[s])
  BY DEF TypeOK, Follows
<1> HIDE DEF st
<1> QED BY <1>1, OthersFollow

\* Every step moves every stage along the table, or not at all.
LEMMA EveryStageFollows ==
    ASSUME TypeOK, [Next]_vars
    PROVE  \A p \in Pipelines, s \in Stages : Follows(stage[p][s], stage'[p][s])
<1> DEFINE Follow == \A p \in Pipelines, s \in Stages : Follows(stage[p][s], stage'[p][s])
<1>1. ASSUME UNCHANGED stage PROVE Follow
  BY <1>1 DEF Follows
<1>2. ASSUME NEW p \in Pipelines, NEW s \in Stages, stage[p][s] = "Running",
             Exhaust(p, s) \/ MarkFailed(p, s)
      PROVE  Follow
  <2>1. CASE Exhaust(p, s)
    <3> DEFINE st == [x \in Stages |->
           IF x = s THEN "Exhausted"
           ELSE IF x \in Graph[p] /\ stage[p][x] \in {"Pending", "Failed"} THEN "Skipped"
           ELSE stage[p][x]]
    <3>1. stage' = [stage EXCEPT ![p] = st]
      BY <2>1 DEF Exhaust
    <3>2. \A x \in Stages : Follows(stage[p][x], st[x])
      BY <1>2 DEF Follows, StageSuccessors
    <3> HIDE DEF st
    <3> QED BY <3>1, <3>2, OthersFollow
  <2>2. CASE ~Exhaust(p, s)
    <3>1. stage' = [stage EXCEPT ![p][s] = "Failed"]
      BY <1>2, <2>2 DEF MarkFailed
    <3>2. Follows(stage[p][s], "Failed")
      BY <1>2 DEF Follows, StageSuccessors
    <3> QED BY <3>1, <3>2, OneFollows
  <2> QED BY <2>1, <2>2
<1>3. ASSUME NEW p \in Pipelines, Cancel(p) PROVE Follow
  <2> DEFINE unsettled == {s \in Graph[p] : stage[p][s] \in {"Pending", "Running", "Failed"}}
             st == [s \in Stages |-> IF s \in unsettled THEN "Cancelled" ELSE stage[p][s]]
  <2>1. stage' = [stage EXCEPT ![p] = st]
    BY <1>3 DEF Cancel
  <2>2. \A x \in Stages : Follows(stage[p][x], st[x])
    BY DEF Follows, StageSuccessors
  <2> HIDE DEF st
  <2> QED BY <2>1, <2>2, OthersFollow
<1>4. ASSUME NEW s \in Stages, Retry(s) PROVE Follow
  <2>1. PICK p \in Pipelines :
           /\ stage[p][s] \in {"Failed", "Exhausted"}
           /\ stage' = [stage EXCEPT ![p] = [x \in Stages |->
                  IF x \in {s} \cup
                       {y \in Graph[p] : /\ stage[p][s] = "Exhausted"
                                         /\ stage[p][y] \in {"Failed", "Exhausted", "Cancelled",
                                                             "Skipped"}}
                  THEN "Pending" ELSE stage[p][x]]]
    BY <1>4 DEF Retry, Owners
  <2> DEFINE st == [x \in Stages |->
                  IF x \in {s} \cup
                       {y \in Graph[p] : /\ stage[p][s] = "Exhausted"
                                         /\ stage[p][y] \in {"Failed", "Exhausted", "Cancelled",
                                                             "Skipped"}}
                  THEN "Pending" ELSE stage[p][x]]
  <2>2. \A x \in Stages : Follows(stage[p][x], st[x])
    BY <2>1 DEF Follows, StageSuccessors
  <2>3. stage' = [stage EXCEPT ![p] = st]
    BY <2>1
  <2> HIDE DEF st
  <2> QED BY <2>2, <2>3, OthersFollow
<1>5. ASSUME NEW p \in Pipelines, NEW s \in Stages, Mark(p, s) PROVE Follow
  <2>1. CASE stage[p][s] \notin {"Pending", "Failed"}
    BY <1>1, <1>5, <2>1 DEF Mark
  <2>2. CASE stage[p][s] \in {"Pending", "Failed"}
    <3>1. stage' = [stage EXCEPT ![p][s] = "Running"]
      BY <1>5, <2>2 DEF Mark
    <3>2. Follows(stage[p][s], "Running")
      BY <2>2 DEF Follows, StageSuccessors
    <3> QED BY <3>1, <3>2, OneFollows
  <2> QED BY <2>1, <2>2
<1>6. ASSUME NEW t \in tasks, NoExecutor(t) \/ FinishFailure(t) PROVE Follow
  <2>1. t.stage \in Stages
    BY DEF TypeOK, Tasks
  <2> QED BY <1>1, <1>2, <1>6, <2>1 DEF NoExecutor, FinishFailure, Owners
<1>7. ASSUME NEW t \in tasks, Complete(t) PROVE Follow
  <2>1. CASE ~Accepts(t)
    BY <1>1, <1>7, <2>1 DEF Complete
  <2>2. CASE Accepts(t)
    <3>1. /\ t.pipeline \in Pipelines /\ t.stage \in Stages
          /\ stage' = [stage EXCEPT ![t.pipeline][t.stage] = "Done"]
      BY <1>7, <2>2 DEF Complete, TypeOK, Tasks
    <3>2. Follows(stage[t.pipeline][t.stage], "Done")
      BY <2>2 DEF Accepts, Follows, StageSuccessors
    <3> QED BY <3>1, <3>2, OneFollows
  <2> QED BY <2>1, <2>2
<1>8. ASSUME NEW s \in Stages, TimerFires(s) PROVE Follow
  <2>1. CASE \E p \in Pipelines : /\ stage[p][s] = "Failed"
                                  /\ stage' = [stage EXCEPT ![p][s] = "Pending"]
    <3>1. PICK p \in Pipelines : /\ stage[p][s] = "Failed"
                                 /\ stage' = [stage EXCEPT ![p][s] = "Pending"]
      BY <2>1
    <3>2. Follows(stage[p][s], "Pending")
      BY <3>1 DEF Follows, StageSuccessors
    <3> QED BY <3>1, <3>2, OneFollows
  <2> QED BY <1>1, <1>8, <2>1 DEF TimerFires, Owners
<1>9. ASSUME Restart PROVE Follow
  BY <1>9 DEF Restart, Follows, StageSuccessors
<1>10. ASSUME Client PROVE Follow
  BY <1>1, <1>3, <1>4, <1>10 DEF Client, Submit
<1>11. ASSUME Dispatcher PROVE Follow
  BY <1>1, <1>5, <1>6, <1>11 DEF Dispatcher, ReadReady, Spawn
<1>12. ASSUME NEW t \in tasks, TaskStep(t) PROVE Follow
  BY <1>1, <1>6, <1>7, <1>12 DEF TaskStep, Acquire, Leave, LockFails, ExecutorReturns, Fail
<1> QED BY <1>1, <1>8, <1>9, <1>10, <1>11, <1>12 DEF Next, vars

\* The stages of the engine implement the lifecycle of the durable jobs: no
\* retry, cancel, late result or restart takes one along another edge.
THEOREM StagesImplementTheLifecycle == Spec => StagesFollowTheLifecycle
<1>1. Init => Durable!Init
  BY DEF Init, Durable!Init, JobStates
<1>2. ASSUME TypeOK, TypeOK', RegistryInv, [Next]_vars
      PROVE  [Durable!Next]_JobStates
  <2>1. ASSUME NEW p \in Pipelines, NEW s \in Stages
        PROVE  /\ JobStates[<<p, s>>] =
                     IF pipe[p] = "absent" THEN "none" ELSE AsJobState[stage[p][s]]
               /\ JobStates'[<<p, s>>] =
                     IF pipe'[p] = "absent" THEN "none" ELSE AsJobState[stage'[p][s]]
               /\ stage[p][s] \in StageStates /\ stage'[p][s] \in StageStates
    BY <1>2 DEF JobStates, TypeOK
  <2>2. ASSUME NEW p \in Pipelines, NEW s \in Stages
        PROVE  JobStates'[<<p, s>>] \in Durable!JobState \cup {"none"}
    BY <2>1, <2>2, SuccessorsAreEdges
  <2>3. ASSUME NEW p \in Pipelines, NEW s \in Stages
        PROVE  \/ JobStates'[<<p, s>>] = JobStates[<<p, s>>]
               \/ Durable!Submitted(<<p, s>>)
               \/ Durable!Moved(<<p, s>>)
    <3>1. /\ pipe[p] # "absent" => pipe'[p] # "absent"
          /\ pipe[p] = "absent" => stage'[p] = stage[p]
      BY <1>2, SubmittedStaysSubmitted
    <3>2. CASE pipe[p] = "absent"
      <4>1. stage[p][s] = "Pending"
        BY <1>2, <3>2 DEF RegistryInv, Consistent
      <4> QED BY <2>1, <3>1, <3>2, <4>1 DEF Durable!Submitted, AsJobState
    <3>3. CASE pipe[p] # "absent"
      <4>1. Follows(stage[p][s], stage'[p][s])
        BY <1>2, EveryStageFollows
      <4> QED BY <2>1, <3>1, <3>3, <4>1, SuccessorsAreEdges DEF Durable!Moved, Follows
    <3> QED BY <3>2, <3>3
  <2>4. JobStates' \in [Pipelines \X Stages -> Durable!JobState \cup {"none"}]
    <3>1. \A ps \in Pipelines \X Stages : JobStates'[ps] \in Durable!JobState \cup {"none"}
      BY <2>2
    <3> QED BY <3>1 DEF JobStates
  <2> QED BY <2>3, <2>4 DEF Durable!Next
<1> QED BY <1>1, <1>2, EngineIsTyped, RegistryIsConsistent, PTL
        DEF Spec, StagesFollowTheLifecycle, Durable!Spec
=============================================================================
