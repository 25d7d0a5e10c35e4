------------------------- MODULE LocalRuntimeProofs -------------------------
(***************************************************************************)
(* The runtime's semaphore, handles and cancellation, for any number of    *)
(* jobs, capability tasks and slots; and that the runtime gives the job    *)
(* service the tasks of JobTasks.                                          *)
(*                                                                         *)
(* RuntimeInv is the inductive invariant.  SlotsInv counts the slots and   *)
(* describes the queue; NestingInv ties a job to its capability task;      *)
(* NamesInv says whose handle a task updates; CancelInv follows a          *)
(* cancellation from the signal to the result; TruthInv is what a job's    *)
(* handle says meanwhile; StopInv is what shutdown() leaves to wait for.   *)
(***************************************************************************)
EXTENDS LocalRuntime, FiniteSetTheorems, SequenceTheorems, TLAPS

(* The sequence without its element i. *)
LEMMA RemoveAtElements ==
  ASSUME NEW S, NEW s \in Seq(S), NEW i \in DOMAIN s
  PROVE  /\ RemoveAt(s, i) \in Seq(S)
         /\ Len(RemoveAt(s, i)) = Len(s) - 1
         /\ DOMAIN RemoveAt(s, i) = 1 .. Len(s) - 1
         /\ \A k \in 1 .. Len(s) - 1 :
              RemoveAt(s, i)[k] = IF k < i THEN s[k] ELSE s[k + 1]
<1> DEFINE a == SubSeq(s, 1, i - 1)
           b == SubSeq(s, i + 1, Len(s))
<1>0. Len(s) \in Nat /\ DOMAIN s = 1 .. Len(s) /\ i \in 1 .. Len(s)
  OBVIOUS
<1>1. /\ a \in Seq(S) /\ Len(a) = i - 1
      /\ \A k \in 1 .. i - 1 : a[k] = s[k]
  BY <1>0
<1>2. /\ b \in Seq(S) /\ Len(b) = Len(s) - i
      /\ \A k \in 1 .. Len(s) - i : b[k] = s[k + i]
  BY <1>0
<1>3. RemoveAt(s, i) = a \o b
  BY DEF RemoveAt
<1> HIDE DEF a, b
<1>4. ASSUME NEW r \in Seq(S), Len(r) = Len(a) + Len(b),
             \A k \in 1 .. Len(a) + Len(b) :
               r[k] = IF k <= Len(a) THEN a[k] ELSE b[k - Len(a)]
      PROVE  /\ Len(r) = Len(s) - 1
             /\ DOMAIN r = 1 .. Len(s) - 1
             /\ \A k \in 1 .. Len(s) - 1 : r[k] = IF k < i THEN s[k] ELSE s[k + 1]
  <2>1. Len(r) = Len(s) - 1 /\ DOMAIN r = 1 .. Len(s) - 1
    BY <1>0, <1>1, <1>2, <1>4
  <2>2. ASSUME NEW k \in 1 .. Len(s) - 1
        PROVE  r[k] = IF k < i THEN s[k] ELSE s[k + 1]
    <3>1. CASE k < i
      BY <1>0, <1>1, <1>2, <1>4, <3>1
    <3>2. CASE ~(k < i)
      <4>1. k - (i - 1) \in 1 .. Len(s) - i /\ (k - (i - 1)) + i = k + 1
        BY <1>0, <3>2
      <4>2. r[k] = b[k - (i - 1)]
        <5>1. k \in 1 .. Len(a) + Len(b) /\ ~(k <= Len(a)) /\ Len(a) = i - 1
          BY <1>0, <1>1, <1>2, <3>2
        <5> QED
          BY <1>4, <5>1
      <4>3. b[k - (i - 1)] = s[k + 1]
        BY <1>2, <4>1
      <4> QED
        BY <3>2, <4>2, <4>3
    <3> QED
      BY <3>1, <3>2
  <2> QED
    BY <2>1, <2>2
<1> QED
  BY <1>1, <1>2, <1>3, <1>4, ConcatProperties
-----------------------------------------------------------------------------
(* The queue of the semaphore *)

(* w lists the tasks of W, each once. *)
Lists(w, W) ==
  /\ w \in Seq(Tasks)
  /\ {w[i] : i \in DOMAIN w} = W
  /\ \A i, k \in DOMAIN w : w[i] = w[k] => i = k

(* Who leaves a queue leaves the others listed once.                       *)
LEMMA RemoveKeepsList ==
  ASSUME NEW W, NEW w, Lists(w, W), NEW i \in DOMAIN w
  PROVE  Lists(RemoveAt(w, i), W \ {w[i]})
<1> DEFINE r == RemoveAt(w, i)
           from(k) == IF k < i THEN k ELSE k + 1
<1>1. /\ w \in Seq(Tasks) /\ W = {w[k] : k \in DOMAIN w}
      /\ \A k, m \in DOMAIN w : w[k] = w[m] => k = m
      /\ Len(w) \in Nat /\ DOMAIN w = 1 .. Len(w)
  BY DEF Lists
<1>2. r \in Seq(Tasks) /\ DOMAIN r = 1 .. Len(w) - 1
  BY <1>1, RemoveAtElements
<1>3. \A k \in DOMAIN r : r[k] = w[from(k)] /\ from(k) \in DOMAIN w /\ from(k) # i
  <2>1. \A k \in 1 .. Len(w) - 1 : r[k] = w[from(k)]
    BY <1>1, RemoveAtElements, SMTT(30)
  <2>2. \A k \in 1 .. Len(w) - 1 : from(k) \in 1 .. Len(w) /\ from(k) # i
    BY <1>1
  <2> QED
    BY <1>1, <1>2, <2>1, <2>2
<1>4. \A m \in DOMAIN w : m # i => \E k \in DOMAIN r : from(k) = m
  <2>1. SUFFICES ASSUME NEW m \in 1 .. Len(w), m # i
                 PROVE  \E k \in 1 .. Len(w) - 1 : from(k) = m
    BY <1>1, <1>2
  <2>2. CASE m < i
    BY <1>1, <2>1, <2>2
  <2>3. CASE m > i
    <3>1. m - 1 \in 1 .. Len(w) - 1 /\ from(m - 1) = m
      BY <1>1, <2>1, <2>3
    <3> QED
      BY <3>1
  <2> QED
    BY <1>1, <2>1, <2>2, <2>3
<1>5. \A k, m \in DOMAIN r : from(k) = from(m) => k = m
  BY <1>1, <1>2
<1> HIDE DEF r, from
<1>6. {r[k] : k \in DOMAIN r} = W \ {w[i]}
  BY <1>1, <1>3, <1>4
<1>7. \A k, m \in DOMAIN r : r[k] = r[m] => k = m
  BY <1>1, <1>3, <1>5
<1> QED
  BY <1>2, <1>6, <1>7 DEF Lists, r

(* Who joins a queue is listed once, with the others.                      *)
LEMMA AppendKeepsList ==
  ASSUME NEW W, NEW w, Lists(w, W), NEW t \in Tasks, t \notin W
  PROVE  Lists(Append(w, t), W \cup {t})
<1> DEFINE r == Append(w, t)
<1>1. /\ w \in Seq(Tasks) /\ W = {w[k] : k \in DOMAIN w}
      /\ \A k, m \in DOMAIN w : w[k] = w[m] => k = m
      /\ Len(w) \in Nat /\ DOMAIN w = 1 .. Len(w)
  BY DEF Lists
<1>2. /\ r \in Seq(Tasks) /\ DOMAIN r = 1 .. Len(w) + 1
      /\ \A k \in 1 .. Len(w) : r[k] = w[k]
      /\ r[Len(w) + 1] = t
  BY <1>1, AppendProperties
<1> HIDE DEF r
<1>3. \A k \in DOMAIN r : k \in DOMAIN w \/ k = Len(w) + 1
  BY <1>1, <1>2
<1>4. DOMAIN w \subseteq DOMAIN r /\ Len(w) + 1 \in DOMAIN r
  BY <1>1, <1>2
<1>5. {r[k] : k \in DOMAIN r} = W \cup {t}
  BY <1>1, <1>2, <1>3, <1>4
<1>6. \A k, m \in DOMAIN r : r[k] = r[m] => k = m
  BY <1>1, <1>2, <1>3
<1> QED
  BY <1>2, <1>5, <1>6 DEF Lists, r

-----------------------------------------------------------------------------
(* The slots *)

Waiting == {t \in Tasks : phase[t] = "waiting"}

(* SlotsConserved with the queue's type, in one formula. *)
SlotsInv ==
  /\ value \in Nat
  /\ phase \in [Tasks -> Phases]
  /\ value + Cardinality(Holders) = Slots
  /\ Lists(waiters, Waiting)
  /\ value > 0 /\ Awaited => \E t \in Tasks : phase[t] = "woken"

(* There are finitely many tasks, so those that hold a slot can be counted.*)
LEMMA HoldersFinite ==
  IsFiniteSet(Holders) /\ Cardinality(Holders) \in Nat
BY RuntimeAssumption, FS_Subset, FS_CardinalityType DEF Holders

(* How Holders changes with the phase of one task, or of two. *)
LEMMA HoldersGrow ==
  ASSUME NEW t \in Tasks, ~Holds(t), Holders' = Holders \cup {t}
  PROVE  Cardinality(Holders') = Cardinality(Holders) + 1
BY HoldersFinite, FS_AddElement DEF Holders

(* Giving a slot back leaves one holder less.                              *)
LEMMA HoldersShrink ==
  ASSUME NEW t \in Tasks, Holds(t), Holders' = Holders \ {t}
  PROVE  Cardinality(Holders') = Cardinality(Holders) - 1
BY HoldersFinite, FS_RemoveElement DEF Holders

(* A slot that is handed over leaves the number of holders as it was.      *)
LEMMA HoldersSwap ==
  ASSUME NEW t \in Tasks, NEW h \in Tasks, Holds(t), ~Holds(h),
         Holders' = (Holders \ {t}) \cup {h}
  PROVE  Cardinality(Holders') = Cardinality(Holders)
<1> DEFINE H == Holders \ {t}
<1>1. /\ IsFiniteSet(H) /\ Cardinality(H) = Cardinality(Holders) - 1
  BY HoldersFinite, FS_RemoveElement DEF Holders
<1>2. h \notin H
  BY DEF Holders
<1>3. Cardinality(H \cup {h}) = Cardinality(H) + 1
  BY <1>1, <1>2, FS_AddElement
<1> QED
  BY <1>1, <1>3, HoldersFinite

(* The semaphore's invariant survives what neither takes nor gives a slot  *)
(* and leaves the queue alone.                                             *)
LEMMA SameSlots ==
  ASSUME SlotsInv, phase' \in [Tasks -> Phases], UNCHANGED semaphore, throw \subseteq throw',
         \A t \in Tasks : phase'[t] # phase[t] =>
           /\ {phase[t], phase'[t]} \cap {"waiting", "woken"} = {}
           /\ Holds(t) <=> Holds(t)'
  PROVE  SlotsInv'
<1>1. Holders' = Holders /\ Waiting' = Waiting
  BY DEF Holders, Holds, Waiting
<1>2. \A t \in Tasks : phase[t] = "woken" => phase'[t] = "woken"
  OBVIOUS
<1>3. Awaited' => Awaited
  BY DEF Awaited, semaphore
<1> QED
  BY <1>1, <1>2, <1>3 DEF SlotsInv, semaphore, Lists

(* A wake-up takes one waiting task out of the queue, which then holds a   *)
(* slot.                                                                   *)
LEMMA WakeNextEffect ==
  ASSUME SlotsInv, NEW t \in Tasks, NEW p \in Phases \ {"waiting"}, phase[t] # "waiting",
         WakeNext(t, p)
  PROVE  \E h \in Tasks \ {t} :
           /\ phase[h] = "waiting"
           /\ phase' \in [Tasks -> Phases]
           /\ phase' = [phase EXCEPT ![t] = p, ![h] = "woken"]
           /\ phase'[t] = p /\ phase'[h] = "woken"
           /\ \A u \in Tasks \ {t, h} : phase'[u] = phase[u]
           /\ Lists(waiters', Waiting')
<1>1. PICK i \in DOMAIN waiters :
        /\ waiters' = RemoveAt(waiters, i)
        /\ phase' = [phase EXCEPT ![t] = p, ![waiters[i]] = "woken"]
  BY DEF WakeNext
<1> DEFINE h == waiters[i]
<1>2. h \in Waiting
  BY DEF SlotsInv, Lists
<1> HIDE DEF h
<1>3. h \in Tasks \ {t} /\ phase[h] = "waiting"
  BY <1>2 DEF Waiting
<1>4. /\ phase' \in [Tasks -> Phases]
      /\ phase' = [phase EXCEPT ![t] = p, ![h] = "woken"]
      /\ phase'[t] = p /\ phase'[h] = "woken"
      /\ \A u \in Tasks \ {t, h} : phase'[u] = phase[u]
  BY <1>1, <1>3 DEF SlotsInv, Phases, h
<1>5. Waiting' = Waiting \ {h}
  BY <1>3, <1>4 DEF Waiting
<1>6. Lists(waiters', Waiting \ {h})
  BY <1>1, RemoveKeepsList DEF SlotsInv, h
<1> QED
  BY <1>3, <1>4, <1>5, <1>6

(* A holder that gives its slot back and goes to a phase without one       *)
(* leaves the semaphore consistent.                                        *)
LEMMA GiveBackKeepsSlots ==
  ASSUME SlotsInv, NEW t \in Tasks, Holds(t), GiveBack(t, "done"), UNCHANGED throw
  PROVE  SlotsInv'
<1>1. ASSUME ~Awaited, value' = value + 1, phase' = [phase EXCEPT ![t] = "done"],
             UNCHANGED waiters
      PROVE  SlotsInv'
  <2>1. phase' \in [Tasks -> Phases] /\ Waiting' = Waiting /\ Holders' = Holders \ {t}
    BY <1>1 DEF SlotsInv, Phases, Waiting, Holders, Holds
  <2>2. Cardinality(Holders') = Cardinality(Holders) - 1
    BY <2>1, HoldersShrink
  <2>3. value' \in Nat /\ value' + Cardinality(Holders') = Slots
    BY <1>1, <2>2, HoldersFinite, RuntimeAssumption DEF SlotsInv
  <2>4. ~Awaited'
    BY <1>1 DEF Awaited
  <2> QED
    BY <1>1, <2>1, <2>3, <2>4 DEF SlotsInv, Lists
<1>2. ASSUME WakeNext(t, "done"), UNCHANGED value PROVE SlotsInv'
  <2>1. PICK h \in Tasks \ {t} :
          /\ phase[h] = "waiting"
          /\ phase' \in [Tasks -> Phases]
          /\ phase'[t] = "done" /\ phase'[h] = "woken"
          /\ \A u \in Tasks \ {t, h} : phase'[u] = phase[u]
          /\ Lists(waiters', Waiting')
    BY <1>2, WakeNextEffect DEF Phases, Holds
  <2>2. Holders' = (Holders \ {t}) \cup {h} /\ ~Holds(h)
    BY <2>1 DEF Holders, Holds
  <2>3. Cardinality(Holders') = Cardinality(Holders)
    BY <2>2, HoldersSwap
  <2> QED
    BY <1>2, <2>1, <2>3 DEF SlotsInv, Lists
<1> QED
  BY <1>1, <1>2 DEF GiveBack
-----------------------------------------------------------------------------
(* A job and its capability task *)

(* The capability task of a job exists while the job awaits it, and has    *)
(* ended when the job has.                                                 *)
NestingInv ==
  \A j \in JobTasks :
    /\ phase[j] \notin {"nested", "done"} => phase[Nested[j]] = "absent"
    /\ phase[j] = "nested" => phase[Nested[j]] # "absent"
    /\ phase[j] = "done" => phase[Nested[j]] \in {"absent", "done"}

(* t goes to phase p; of the others, waiting ones may be woken.            *)
Shift(t, p) ==
  /\ phase' \in [Tasks -> Phases] /\ phase'[t] = p
  /\ \A u \in Tasks \ {t} :
       phase'[u] = phase[u] \/ (phase[u] = "waiting" /\ phase'[u] = "woken")

(* Waking the next waiter moves the caller and hands at most one slot on.  *)
LEMMA WakeNextShifts ==
  ASSUME SlotsInv, NEW t \in Tasks, NEW p \in Phases \ {"waiting"}, phase[t] # "waiting",
         WakeNext(t, p)
  PROVE  Shift(t, p)
<1>1. PICK h \in Tasks \ {t} :
        /\ phase[h] = "waiting"
        /\ phase' \in [Tasks -> Phases]
        /\ phase'[t] = p /\ phase'[h] = "woken"
        /\ \A u \in Tasks \ {t, h} : phase'[u] = phase[u]
  BY WakeNextEffect
<1> QED
  BY <1>1 DEF Shift

(* A task that ends gives its slot back, or hands it on.                   *)
LEMMA GiveBackShifts ==
  ASSUME SlotsInv, NEW t \in Tasks, Holds(t), GiveBack(t, "done")
  PROVE  Shift(t, "done")
<1>1. CASE phase' = [phase EXCEPT ![t] = "done"]
  BY <1>1 DEF Shift, SlotsInv, Phases
<1>2. CASE WakeNext(t, "done")
  BY <1>2, WakeNextShifts DEF Phases, Holds
<1> QED
  BY <1>1, <1>2 DEF GiveBack

(* How each step of a task moves it. *)
LEMMA AcquireShifts ==
  ASSUME SlotsInv, NEW t \in Tasks, Acquire(t)
  PROVE  /\ phase[t] = "created"
         /\ Shift(t, "body") \/ Shift(t, "waiting")
BY DEF Acquire, Shift, SlotsInv, Phases

(* A woken task enters its body with the slot it was handed.               *)
LEMMA EnterSlotShifts ==
  ASSUME SlotsInv, NEW t \in Tasks, EnterSlot(t)
  PROVE  phase[t] = "woken" /\ Shift(t, "body")
<1>1. phase[t] = "woken"
  BY DEF EnterSlot
<1>2. CASE WakeNext(t, "body")
  BY <1>1, <1>2, WakeNextShifts DEF Phases
<1>3. CASE phase' = [phase EXCEPT ![t] = "body"]
  BY <1>1, <1>3 DEF Shift, SlotsInv, Phases
<1> QED
  BY <1>1, <1>2, <1>3 DEF EnterSlot

(* A task cancelled before its slot ends, and hands on what it was woken   *)
(* with.                                                                   *)
LEMMA CancelledShifts ==
  ASSUME SlotsInv, NEW t \in Tasks, CancelledBeforeSlot(t)
  PROVE  phase[t] \in {"created", "waiting", "woken"} /\ Shift(t, "done")
<1>1. CASE phase[t] = "woken" /\ GiveBack(t, "done")
  BY <1>1, GiveBackShifts DEF Holds
<1>2. CASE phase[t] \in {"created", "waiting"} /\ phase' = [phase EXCEPT ![t] = "done"]
  BY <1>2 DEF Shift, SlotsInv, Phases
<1> QED
  BY <1>1, <1>2 DEF CancelledBeforeSlot

(* A task whose body ends is done, whatever its result.                    *)
LEMMA EndTaskShifts ==
  ASSUME SlotsInv, NEW t \in Tasks, phase[t] \in {"body", "nested"}, NEW r, EndTask(t, r)
  PROVE  Shift(t, "done")
BY GiveBackShifts DEF EndTask, Holds

(* The steps of a task that has been submitted: where it is before, where  *)
(* it goes.                                                                *)
LEMMA StepShifts ==
  ASSUME SlotsInv, NEW t \in Tasks, Steps(t) \/ HandlerEnds(t)
  PROVE  \/ phase[t] = "created" /\ (Shift(t, "body") \/ Shift(t, "waiting"))
         \/ phase[t] = "woken" /\ Shift(t, "body")
         \/ phase[t] \in {"created", "waiting", "woken", "body"} /\ Shift(t, "done")
         \/ t \in JobTasks /\ phase[t] = "nested" /\ phase[Nested[t]] = "done" /\ Shift(t, "done")
<1>1. CASE Acquire(t)
  BY <1>1, AcquireShifts
<1>2. CASE EnterSlot(t)
  BY <1>2, EnterSlotShifts
<1>3. CASE CancelledBeforeSlot(t)
  BY <1>3, CancelledShifts
<1>4. CASE HandlerInterrupted(t) \/ HandlerEnds(t)
  <2>1. phase[t] = "body" /\ \E r : EndTask(t, r)
    BY <1>4 DEF HandlerInterrupted, HandlerEnds
  <2> QED
    BY <2>1, EndTaskShifts
<1>5. CASE t \in JobTasks /\ Resume(t)
  <2>1. phase[t] = "nested" /\ phase[Nested[t]] = "done" /\ \E r : EndTask(t, r)
    BY <1>5 DEF Resume
  <2> QED
    BY <1>5, <2>1, EndTaskShifts
<1> QED
  BY <1>1, <1>2, <1>3, <1>4, <1>5 DEF Steps

(* The steps that move no task. *)
Signalling ==
  \/ \E t \in Tasks : Expire(t) \/ Abandon(t)
  \/ \E j \in JobTasks : Revoke(j)
  \/ StartRuntime \/ Shutdown \/ Stopped \/ UNCHANGED vars

(* Cancellations and deadlines are only announced: no task moves by them.  *)
LEMMA SignallingMovesNone ==
  Signalling => UNCHANGED <<handles, phase, semaphore, updates, result>> /\ throw \subseteq throw'
BY DEF Signalling, Expire, Abandon, Revoke, StartRuntime, Shutdown, Stopped, Interrupt,
       vars, semaphore, signals

(* The kinds of steps the runtime takes.                                   *)
LEMMA RuntimeStepCases ==
  ASSUME [Next]_vars
  PROVE  \/ \E t \in Tasks : Submit(t)
         \/ \E t \in Tasks : Steps(t) \/ HandlerEnds(t)
         \/ \E j \in JobTasks : Delegate(j)
         \/ Signalling
BY DEF Next, Signalling

(* Every step keeps a job and the capability it awaits in step.            *)
LEMMA NestingStep ==
  ASSUME SlotsInv, NestingInv, [Next]_vars
  PROVE  NestingInv'
<1>0. /\ phase \in [Tasks -> Phases]
      /\ JobTasks \subseteq Tasks /\ JobTasks \cap CapabilityTasks = {}
      /\ \A j \in JobTasks : Nested[j] \in CapabilityTasks /\ Nested[j] \in Tasks
      /\ \A a, b \in JobTasks : Nested[a] = Nested[b] => a = b
  BY RuntimeAssumption DEF SlotsInv, Tasks
<1>1. ASSUME NEW t \in Tasks, Submit(t) PROVE NestingInv'
  BY <1>0, <1>1 DEF Submit, NestingInv
<1>2. ASSUME NEW t \in Tasks, Steps(t) \/ HandlerEnds(t) PROVE NestingInv'
  <2>1. ASSUME NEW p, Shift(t, p),
               \/ phase[t] = "created" /\ p \in {"waiting", "body", "done"}
               \/ phase[t] = "waiting" /\ p = "done"
               \/ phase[t] = "woken" /\ p \in {"body", "done"}
               \/ phase[t] = "body" /\ p = "done"
               \/ t \in JobTasks /\ phase[t] = "nested" /\ phase[Nested[t]] = "done" /\ p = "done"
        PROVE  NestingInv'
    <3> SUFFICES ASSUME NEW j \in JobTasks
                 PROVE  /\ phase'[j] \notin {"nested", "done"} => phase'[Nested[j]] = "absent"
                        /\ phase'[j] = "nested" => phase'[Nested[j]] # "absent"
                        /\ phase'[j] = "done" => phase'[Nested[j]] \in {"absent", "done"}
      BY DEF NestingInv
    <3>1. CASE t = j
      BY <1>0, <2>1, <3>1 DEF Shift, NestingInv
    <3>2. CASE t = Nested[j]
      BY <1>0, <2>1, <3>2 DEF Shift, NestingInv
    <3>3. CASE t # j /\ t # Nested[j]
      BY <1>0, <2>1, <3>3 DEF Shift, NestingInv
    <3> QED
      BY <3>1, <3>2, <3>3
  <2> QED
    BY <1>2, <2>1, StepShifts
<1>3. ASSUME NEW j \in JobTasks, Delegate(j) PROVE NestingInv'
  BY <1>0, <1>3 DEF Delegate, NestingInv
<1>4. CASE Signalling
  BY <1>4, SignallingMovesNone DEF NestingInv
<1> QED
  BY <1>1, <1>2, <1>3, <1>4, RuntimeStepCases

-----------------------------------------------------------------------------
(* Slots, step by step *)

(* Taking a free slot, or queueing for one, conserves the slots.           *)
LEMMA AcquireKeepsSlots ==
  ASSUME SlotsInv, NEW t \in Tasks, Acquire(t)
  PROVE  SlotsInv'
<1>0. phase[t] = "created" /\ phase \in [Tasks -> Phases] /\ throw' = throw
  BY DEF Acquire, SlotsInv, signals
<1>1. ASSUME value > 0, ~Queued, value' = value - 1, phase' = [phase EXCEPT ![t] = "body"],
             UNCHANGED waiters
      PROVE  SlotsInv'
  <2>1. /\ phase' \in [Tasks -> Phases] /\ Waiting' = Waiting
        /\ Holders' = Holders \cup {t} /\ ~Holds(t)
    BY <1>0, <1>1 DEF Phases, Waiting, Holders, Holds
  <2>2. Cardinality(Holders') = Cardinality(Holders) + 1
    BY <2>1, HoldersGrow
  <2>3. value' \in Nat /\ value' + Cardinality(Holders') = Slots
    BY <1>1, <2>2, HoldersFinite, RuntimeAssumption DEF SlotsInv
  <2>4. ~Awaited'
    BY <1>0, <1>1 DEF Queued, Awaited
  <2> QED
    BY <1>1, <2>1, <2>3, <2>4 DEF SlotsInv, Lists
<1>2. ASSUME value = 0 \/ Queued, waiters' = Append(waiters, t),
             phase' = [phase EXCEPT ![t] = "waiting"], UNCHANGED value
      PROVE  SlotsInv'
  <2>1. /\ phase' \in [Tasks -> Phases] /\ Waiting' = Waiting \cup {t} /\ t \notin Waiting
        /\ Holders' = Holders
    BY <1>0, <1>2 DEF Phases, Waiting, Holders, Holds
  <2>2. Lists(waiters', Waiting')
    BY <1>2, <2>1, AppendKeepsList DEF SlotsInv
  <2>3. value > 0 => \E u \in Tasks : phase[u] = "woken"
    BY <1>2 DEF Queued, SlotsInv
  <2>4. \A u \in Tasks : phase[u] = "woken" => phase'[u] = "woken"
    BY <1>0, <1>2
  <2> QED
    BY <1>2, <2>1, <2>2, <2>3, <2>4 DEF SlotsInv, Lists
<1> QED
  BY <1>1, <1>2 DEF Acquire

(* Entering the body conserves the slots.                                  *)
LEMMA EnterSlotKeepsSlots ==
  ASSUME SlotsInv, NEW t \in Tasks, EnterSlot(t)
  PROVE  SlotsInv'
<1>0. phase[t] = "woken" /\ phase \in [Tasks -> Phases] /\ throw' = throw
  BY DEF EnterSlot, SlotsInv, signals
<1>1. ASSUME value > 0, value' = value - 1, WakeNext(t, "body") PROVE SlotsInv'
  <2>1. PICK h \in Tasks \ {t} :
          /\ phase[h] = "waiting"
          /\ phase' \in [Tasks -> Phases]
          /\ phase'[t] = "body" /\ phase'[h] = "woken"
          /\ \A u \in Tasks \ {t, h} : phase'[u] = phase[u]
          /\ Lists(waiters', Waiting')
    BY <1>0, <1>1, WakeNextEffect DEF Phases
  <2>2. Holders' = Holders \cup {h} /\ ~Holds(h)
    BY <1>0, <2>1 DEF Holders, Holds
  <2>3. Cardinality(Holders') = Cardinality(Holders) + 1
    BY <2>2, HoldersGrow
  <2>4. value' \in Nat /\ value' + Cardinality(Holders') = Slots
    BY <1>1, <2>3, HoldersFinite, RuntimeAssumption DEF SlotsInv
  <2> QED
    BY <2>1, <2>4 DEF SlotsInv, Lists
<1>2. ASSUME value = 0 \/ ~Awaited, phase' = [phase EXCEPT ![t] = "body"], UNCHANGED semaphore
      PROVE  SlotsInv'
  <2>1. phase' \in [Tasks -> Phases] /\ Waiting' = Waiting /\ Holders' = Holders
    BY <1>0, <1>2 DEF Phases, Waiting, Holders, Holds
  <2>2. value' = 0 \/ ~Awaited'
    BY <1>0, <1>2 DEF Awaited, semaphore
  <2> QED
    BY <1>2, <2>1, <2>2 DEF SlotsInv, Lists, semaphore
<1> QED
  BY <1>1, <1>2 DEF EnterSlot

(* A cancellation before the slot conserves the slots.                     *)
LEMMA CancelledKeepsSlots ==
  ASSUME SlotsInv, NEW t \in Tasks, CancelledBeforeSlot(t)
  PROVE  SlotsInv'
<1>0. phase \in [Tasks -> Phases] /\ throw' = throw
  BY DEF CancelledBeforeSlot, SlotsInv, signals
<1>1. ASSUME phase[t] = "created", phase' = [phase EXCEPT ![t] = "done"], UNCHANGED semaphore
      PROVE  SlotsInv'
  BY <1>0, <1>1, SameSlots DEF Phases, Holds
<1>2. ASSUME phase[t] = "waiting", phase' = [phase EXCEPT ![t] = "done"], UNCHANGED value,
             NEW i \in DOMAIN waiters, waiters[i] = t, waiters' = RemoveAt(waiters, i),
             t \in throw
      PROVE  SlotsInv'
  <2>1. /\ phase' \in [Tasks -> Phases] /\ Holders' = Holders /\ Waiting' = Waiting \ {t}
        /\ \A u \in Tasks : phase[u] = "woken" => phase'[u] = "woken"
    BY <1>0, <1>2 DEF Phases, Waiting, Holders, Holds
  <2>2. Lists(waiters', Waiting')
    BY <1>2, <2>1, RemoveKeepsList DEF SlotsInv
  <2>3. Awaited' => Awaited
    <3>1. {waiters'[k] : k \in DOMAIN waiters'} \subseteq {waiters[k] : k \in DOMAIN waiters}
      BY <2>1, <2>2 DEF Lists, SlotsInv
    <3> QED
      BY <1>0, <3>1 DEF Awaited
  <2> QED
    BY <1>2, <2>1, <2>2, <2>3 DEF SlotsInv
<1>3. CASE phase[t] = "woken" /\ GiveBack(t, "done")
  BY <1>0, <1>3, GiveBackKeepsSlots DEF Holds
<1> QED
  BY <1>1, <1>2, <1>3 DEF CancelledBeforeSlot

(* The end of a body conserves the slots.                                  *)
LEMMA EndTaskKeepsSlots ==
  ASSUME SlotsInv, NEW t \in Tasks, phase[t] \in {"body", "nested"}, NEW r, EndTask(t, r)
  PROVE  SlotsInv'
BY GiveBackKeepsSlots DEF EndTask, Holds, signals

(* Every step conserves the slots.                                         *)
LEMMA SlotsStep ==
  ASSUME SlotsInv, NestingInv, [Next]_vars
  PROVE  SlotsInv'
<1>0. phase \in [Tasks -> Phases] /\ JobTasks \subseteq Tasks
  BY DEF SlotsInv, Tasks
<1>1. ASSUME NEW t \in Tasks, Submit(t) PROVE SlotsInv'
  BY <1>0, <1>1, SameSlots DEF Submit, Phases, Holds, signals
<1>2. ASSUME NEW t \in Tasks, Steps(t) \/ HandlerEnds(t) PROVE SlotsInv'
  <2>1. CASE HandlerInterrupted(t) \/ HandlerEnds(t)
    <3>1. phase[t] = "body" /\ \E r : EndTask(t, r)
      BY <2>1 DEF HandlerInterrupted, HandlerEnds
    <3> QED
      BY <3>1, EndTaskKeepsSlots
  <2>2. CASE t \in JobTasks /\ Resume(t)
    <3>1. phase[t] = "nested" /\ \E r : EndTask(t, r)
      BY <2>2 DEF Resume
    <3> QED
      BY <3>1, EndTaskKeepsSlots
  <2> QED
    BY <1>2, <2>1, <2>2, AcquireKeepsSlots, EnterSlotKeepsSlots, CancelledKeepsSlots DEF Steps
<1>3. ASSUME NEW j \in JobTasks, Delegate(j) PROVE SlotsInv'
  <2>1. phase[Nested[j]] = "absent" /\ Nested[j] \in Tasks /\ Nested[j] # j
    BY <1>0, <1>3, RuntimeAssumption DEF Delegate, NestingInv, Tasks
  <2>2. /\ phase[j] = "body" /\ UNCHANGED <<semaphore, throw>>
        /\ phase' = [phase EXCEPT ![j] = "nested", ![Nested[j]] = "created"]
    BY <1>3 DEF Delegate, signals
  <2> QED
    BY <1>0, <2>1, <2>2, SameSlots DEF Phases, Holds
<1>4. CASE Signalling
  BY <1>0, <1>4, SignallingMovesNone, SameSlots
<1> QED
  BY <1>1, <1>2, <1>3, <1>4, RuntimeStepCases
-----------------------------------------------------------------------------
(* Types *)

(* Every step keeps the types.                                             *)
LEMMA TypeStep ==
  ASSUME TypeOK, SlotsInv', [Next]_vars
  PROVE  TypeOK'
<1>0. /\ phase' \in [Tasks -> Phases] /\ value' \in Nat /\ waiters' \in Seq(Tasks)
      /\ JobTasks \subseteq Tasks /\ \A j \in JobTasks : Nested[j] \in Tasks
      /\ \A t \in Tasks : TaskId(t) \in JobTasks \cup {CapabilityId}
      /\ \A t \in Tasks : Target(t) \in Tasks
  BY RuntimeAssumption DEF SlotsInv, Lists, Tasks, TaskId, Target
<1>1. ASSUME NEW t \in Tasks, Submit(t) PROVE TypeOK'
  BY <1>0, <1>1 DEF Submit, TypeOK, signals
<1>2. ASSUME NEW t \in Tasks, NEW r \in Results, EndTask(t, r) PROVE TypeOK'
  BY <1>0, <1>2 DEF EndTask, TypeOK, signals
<1>3. ASSUME NEW t \in Tasks, Steps(t) \/ HandlerEnds(t) PROVE TypeOK'
  <2>1. CASE Acquire(t)
    BY <1>0, <2>1 DEF Acquire, TypeOK, signals
  <2>2. CASE EnterSlot(t)
    BY <1>0, <2>2 DEF EnterSlot, TypeOK, signals
  <2>3. CASE CancelledBeforeSlot(t)
    BY <1>0, <2>3 DEF CancelledBeforeSlot, TypeOK, signals, Results
  <2>4. CASE HandlerInterrupted(t)
    BY <1>2, <2>4 DEF HandlerInterrupted, Results
  <2>5. CASE HandlerEnds(t)
    BY <1>2, <2>5 DEF HandlerEnds, Results
  <2>6. CASE t \in JobTasks /\ Resume(t)
    BY <1>2, <2>6 DEF Resume, Results
  <2> QED
    BY <1>3, <2>1, <2>2, <2>3, <2>4, <2>5, <2>6 DEF Steps
<1>4. ASSUME NEW j \in JobTasks, Delegate(j) PROVE TypeOK'
  BY <1>0, <1>4 DEF Delegate, TypeOK, signals
<1>5. CASE Signalling
  <2>1. ASSUME NEW t \in Tasks, Expire(t) \/ Abandon(t) PROVE TypeOK'
    BY <1>0, <2>1 DEF Expire, Abandon, Interrupt, TypeOK
  <2>2. ASSUME NEW j \in JobTasks, Revoke(j) PROVE TypeOK'
    BY <1>0, <2>2 DEF Revoke, Interrupt, TypeOK, Results
  <2>3. CASE StartRuntime \/ Stopped \/ UNCHANGED vars
    BY <1>0, <2>3 DEF StartRuntime, Stopped, TypeOK, signals, vars
  <2>4. CASE Shutdown
    <3>1. Pending \subseteq Tasks /\ {Target(t) : t \in Pending} \subseteq Tasks
      BY <1>0 DEF Pending
    <3> QED
      BY <1>0, <2>4, <3>1 DEF Shutdown, Interrupt, TypeOK, Results
  <2> QED
    BY <1>5, <2>1, <2>2, <2>3, <2>4 DEF Signalling
<1> QED
  BY <1>1, <1>3, <1>4, <1>5, RuntimeStepCases

-----------------------------------------------------------------------------
(* Handles *)

(* A job has its handle to itself: its id names no other task, and the     *)
(* handle it looks up and updates is its own.  The capability tasks may    *)
(* meet each other's under their shared id, but never a job's.             *)
NamesInv ==
  /\ handles[CapabilityId] \in CapabilityTasks \cup {NoTask}
  /\ \A t \in CapabilityTasks : updates[t] \in CapabilityTasks \cup {NoTask}
  /\ \A j \in JobTasks :
       /\ phase[j] # "absent" => handles[j] = j
       /\ updates[j] \in {j, NoTask}
       /\ phase[j] \in {"waiting", "woken", "body", "nested"} => updates[j] = j

(* Every step leaves each job its own handle.                              *)
LEMMA NamesStep ==
  ASSUME TypeOK, SlotsInv, NamesInv, [Next]_vars
  PROVE  NamesInv'
<1>0. /\ phase \in [Tasks -> Phases]
      /\ handles \in [JobTasks \cup {CapabilityId} -> Tasks \cup {NoTask}]
      /\ updates \in [Tasks -> Tasks \cup {NoTask}]
      /\ Tasks = JobTasks \cup CapabilityTasks /\ JobTasks \cap CapabilityTasks = {}
      /\ CapabilityId \notin Tasks /\ NoTask \notin Tasks
      /\ \A j \in JobTasks : Nested[j] \in CapabilityTasks
  BY RuntimeAssumption DEF TypeOK, Tasks
<1>1. ASSUME NEW t \in Tasks, Submit(t) PROVE NamesInv'
  BY <1>0, <1>1 DEF Submit, NamesInv, TaskId
<1>2. ASSUME NEW t \in Tasks, Steps(t) \/ HandlerEnds(t) PROVE NamesInv'
  <2>1. CASE Acquire(t)
    <3>1. /\ handles' = handles
          /\ updates' = [updates EXCEPT ![t] = handles[TaskId(t)]]
          /\ phase[t] = "created"
          /\ \A u \in Tasks \ {t} : phase'[u] = phase[u]
      BY <1>0, <2>1 DEF Acquire
    <3>2. t \in JobTasks => handles[TaskId(t)] = t
      BY <1>0, <3>1 DEF NamesInv, TaskId
    <3>3. t \in CapabilityTasks => handles[TaskId(t)] \in CapabilityTasks \cup {NoTask}
      BY <1>0 DEF NamesInv, TaskId
    <3> QED
      BY <1>0, <3>1, <3>2, <3>3 DEF NamesInv
  <2>2. CASE ~Acquire(t)
    <3>1. handles' = handles /\ updates' = updates
      BY <1>2, <2>2 DEF Steps, EnterSlot, CancelledBeforeSlot, HandlerInterrupted, HandlerEnds,
                        Resume, EndTask
    <3>2. phase[t] # "absent" /\ \E p \in Phases : Shift(t, p) /\ (phase[t] = "created" => p = "done")
      <4>1. CASE EnterSlot(t)
        BY <4>1, EnterSlotShifts DEF Phases
      <4>2. CASE ~EnterSlot(t)
        BY <1>2, <2>2, <4>2, EndTaskShifts, CancelledShifts
           DEF Steps, HandlerInterrupted, HandlerEnds, Resume, Phases
      <4> QED
        BY <4>1, <4>2
    <3>3. ASSUME NEW u \in Tasks
          PROVE  /\ phase'[u] # "absent" => phase[u] # "absent"
                 /\ phase'[u] \in {"waiting", "woken", "body", "nested"} =>
                      phase[u] \in {"waiting", "woken", "body", "nested", "done"}
      BY <1>0, <3>2 DEF Shift, Phases
    <3>4. ASSUME NEW u \in Tasks, phase[u] = "done"
          PROVE  phase'[u] = "done"
      BY <1>0, <1>2, StepShifts, <3>4 DEF Shift
    <3> QED
      BY <1>0, <3>1, <3>3, <3>4 DEF NamesInv
  <2> QED
    BY <2>1, <2>2
<1>3. ASSUME NEW j \in JobTasks, Delegate(j) PROVE NamesInv'
  BY <1>0, <1>3 DEF Delegate, NamesInv
<1>4. CASE Signalling
  BY <1>4, SignallingMovesNone DEF NamesInv
<1> QED
  BY <1>1, <1>2, <1>3, <1>4, RuntimeStepCases
-----------------------------------------------------------------------------
(* What the steps of a task and the cancellations do to everything else *)

(* t goes on to p: nobody has cancelled it, and the handle it updates may  *)
(* now be running.                                                         *)
GoesOn(t, p) ==
  /\ phase[t] \in {"created", "woken"} /\ t \notin throw /\ Shift(t, p)
  /\ UNCHANGED result
  /\ status' = status \/ status' = [status EXCEPT ![updates'[t]] = "running"]

(* t ends with r: COMPLETED if its handler returned and no CancelledError  *)
(* is on the way, and for a job only if its capability has completed;      *)
(* CANCELLED, for a job, if it was cancelled before its slot or by         *)
(* somebody else than its own timer.                                       *)
EndsWith(t, r) ==
  /\ Live(t) /\ Shift(t, "done")
  /\ t \in JobTasks /\ phase[t] = "nested" => phase[Nested[t]] = "done"
  /\ result' = [result EXCEPT ![t] = r]
  /\ \/ r = "cancelled" /\ phase[t] \in {"created", "waiting", "woken"} /\ UNCHANGED status
     \/ phase[t] \in {"body", "nested"} /\ status' = [status EXCEPT ![updates[t]] = r]
  /\ r = "completed" =>
       /\ t \notin throw
       /\ t \in JobTasks => phase[t] = "nested" /\ result[Nested[t]] = "completed"
  /\ r = "cancelled" =>
       /\ t \in throw /\ phase[t] # "nested"
       /\ phase[t] = "body" => t \notin expired \/ t \in cancelled

(* A step of a task goes on to wait or to its body, or ends with a result. *)
LEMMA StepOutcome ==
  ASSUME TypeOK, SlotsInv, NEW t \in Tasks, Steps(t) \/ HandlerEnds(t)
  PROVE  /\ UNCHANGED <<runtime, handles, signals>>
         /\ \/ \E p \in {"waiting", "body"} : GoesOn(t, p)
            \/ \E r \in Results : EndsWith(t, r)
<1>0. phase \in [Tasks -> Phases] /\ updates \in [Tasks -> Tasks \cup {NoTask}]
  BY DEF TypeOK
<1>1. CASE Acquire(t)
  <2>1. updates'[t] = handles[TaskId(t)]
    BY <1>0, <1>1 DEF Acquire
  <2> QED
    BY <1>1, <2>1, AcquireShifts DEF Acquire, GoesOn
<1>2. CASE EnterSlot(t)
  BY <1>2, EnterSlotShifts DEF EnterSlot, GoesOn
<1>3. CASE CancelledBeforeSlot(t)
  <2>1. EndsWith(t, "cancelled")
    BY <1>3, CancelledShifts DEF CancelledBeforeSlot, EndsWith, Live
  <2> QED
    BY <1>3, <2>1 DEF CancelledBeforeSlot, Results
<1>4. CASE HandlerInterrupted(t)
  <2>1. PICK r \in {"timed_out", "cancelled"} :
          /\ EndTask(t, r) /\ phase[t] = "body" /\ t \in throw
          /\ r = "cancelled" => t \notin expired \/ t \in cancelled
    BY <1>4 DEF HandlerInterrupted
  <2>2. EndsWith(t, r)
    BY <2>1, EndTaskShifts DEF EndTask, EndsWith, Live
  <2> QED
    BY <2>1, <2>2 DEF EndTask, Results
<1>5. CASE HandlerEnds(t)
  <2>1. PICK r \in {"completed", "failed"} :
          EndTask(t, r) /\ phase[t] = "body" /\ t \notin throw /\ (t \in JobTasks => r = "failed")
    BY <1>5 DEF HandlerEnds
  <2>2. EndsWith(t, r)
    BY <2>1, EndTaskShifts DEF EndTask, EndsWith, Live
  <2> QED
    BY <2>1, <2>2 DEF EndTask, Results
<1>6. CASE t \in JobTasks /\ Resume(t)
  <2>1. PICK r \in {"completed", "failed"} :
          /\ EndTask(t, r) /\ phase[t] = "nested" /\ phase[Nested[t]] = "done"
          /\ r = "completed" => t \notin throw /\ result[Nested[t]] = "completed"
    BY <1>6 DEF Resume
  <2>2. EndsWith(t, r)
    BY <1>6, <2>1, EndTaskShifts DEF EndTask, EndsWith, Live
  <2> QED
    BY <2>1, <2>2 DEF EndTask, Results
<1> QED
  BY <1>1, <1>2, <1>3, <1>4, <1>5, <1>6 DEF Steps

(* A cancellation reaches a task that is alive: the one it names, or the   *)
(* capability that one awaits.                                             *)
LEMMA TargetLives ==
  ASSUME NestingInv, NEW t \in Tasks, Live(t)
  PROVE  /\ Target(t) \in Tasks /\ Live(Target(t))
         /\ Target(t) \in JobTasks => Target(t) = t
         /\ Target(t) = t \/ (t \in JobTasks /\ phase[t] = "nested" /\ Target(t) = Nested[t])
BY RuntimeAssumption DEF Target, Live, NestingInv, Tasks

(* What is new in the sets of signals is alive; a job's timer runs inside  *)
(* its slot; what cancels a job, other than its timer, revokes it.         *)
SignalsGrow ==
  /\ throw \subseteq throw' /\ revoked \subseteq revoked'
  /\ expired \subseteq expired' /\ cancelled \subseteq cancelled'
  /\ \A t \in (throw' \ throw) \cup (revoked' \ revoked) \cup (cancelled' \ cancelled) :
       t \in Tasks /\ Live(t)
  /\ \A t \in expired' \ expired : phase[t] \in {"body", "nested"}
  /\ \A j \in JobTasks :
       /\ j \in cancelled' => j \in cancelled \cup revoked'
       /\ j \in throw' => j \in throw \cup revoked' \cup expired'
       /\ j \in revoked' \ revoked => Target(j) \in throw'

(* Signals stay, and new ones go to who is alive.                          *)
LEMMA SignallingEffect ==
  ASSUME TypeOK, NestingInv, Signalling
  PROVE  SignalsGrow
<1>0. /\ Tasks = JobTasks \cup CapabilityTasks /\ JobTasks \cap CapabilityTasks = {}
      /\ Requests \subseteq CapabilityTasks
  BY RuntimeAssumption DEF Tasks, Requests
<1>1. ASSUME NEW t \in Tasks, Expire(t) PROVE SignalsGrow
  <2>1. Live(t)
    BY <1>1 DEF Expire, Live
  <2>2. throw' = throw \cup {Target(t)}
    BY <1>1 DEF Expire, Interrupt
  <2> QED
    BY <1>1, <2>1, <2>2, TargetLives DEF Expire, SignalsGrow
<1>2. ASSUME NEW t \in Tasks, Abandon(t) PROVE SignalsGrow
  <2>1. throw' = throw \cup {Target(t)}
    BY <1>2 DEF Abandon, Interrupt
  <2>2. t \notin JobTasks /\ Live(t)
    BY <1>0, <1>2 DEF Abandon
  <2> QED
    BY <1>2, <2>1, <2>2, TargetLives DEF Abandon, SignalsGrow
<1>3. ASSUME NEW j \in JobTasks, Revoke(j) PROVE SignalsGrow
  <2>1. throw' = throw \cup {Target(j)} /\ Live(j) /\ j \in Tasks
    BY <1>0, <1>3 DEF Revoke, Interrupt
  <2> QED
    BY <1>3, <2>1, TargetLives DEF Revoke, SignalsGrow
<1>4. CASE Shutdown
  <2>1. /\ throw' = throw \cup {Target(t) : t \in Pending}
        /\ revoked' = revoked \cup Pending
        /\ cancelled' = cancelled \cup Pending \cup {Target(t) : t \in Pending}
        /\ expired' = expired
    BY <1>4 DEF Shutdown, Interrupt
  <2>2. \A t \in Pending : t \in Tasks /\ Live(t)
    BY DEF Pending
  <2>3. \A t \in Pending : /\ Target(t) \in Tasks /\ Live(Target(t))
                           /\ Target(t) \in JobTasks => Target(t) = t
    BY <2>2, TargetLives
  <2> QED
    BY <2>1, <2>2, <2>3 DEF SignalsGrow
<1>5. CASE StartRuntime \/ Stopped \/ UNCHANGED vars
  BY <1>5 DEF StartRuntime, Stopped, vars, signals, SignalsGrow
<1> QED
  BY <1>1, <1>2, <1>3, <1>4, <1>5 DEF Signalling

-----------------------------------------------------------------------------
(* Cancellation *)

(* Whoever cancels a job revokes it, except its own timer; a job that is   *)
(* revoked and alive has CancelledError on the way to it, or to the        *)
(* capability it awaits, and neither ends COMPLETED after that.            *)
CancelInv ==
  /\ \A t \in Tasks : phase[t] = "absent" => t \notin throw \cup revoked \cup expired \cup cancelled
  /\ \A t \in expired : phase[t] \in {"body", "nested", "done"}
  /\ \A t \in CapabilityTasks : t \in throw /\ phase[t] = "done" => result[t] # "completed"
  /\ \A j \in JobTasks :
       /\ j \in cancelled => j \in revoked
       /\ j \in throw => j \in revoked \cup expired
       /\ j \in revoked /\ Live(j) =>
            j \in throw \/ (phase[j] = "nested" /\ Nested[j] \in throw)
       /\ j \in revoked /\ phase[j] = "done" => result[j] # "completed"

(* Every step keeps what a cancelled task may still become.                *)
LEMMA CancelStep ==
  ASSUME TypeOK, SlotsInv, NestingInv, CancelInv, [Next]_vars
  PROVE  CancelInv'
<1>0. /\ phase \in [Tasks -> Phases] /\ result \in [Tasks -> Results \cup {"none"}]
      /\ expired \subseteq Tasks
      /\ Tasks = JobTasks \cup CapabilityTasks /\ JobTasks \cap CapabilityTasks = {}
      /\ \A j \in JobTasks : Nested[j] \in CapabilityTasks
  BY RuntimeAssumption DEF TypeOK, Tasks
<1>1. ASSUME NEW t \in Tasks, Submit(t) PROVE CancelInv'
  BY <1>0, <1>1 DEF Submit, CancelInv, Live, signals
<1>2. ASSUME NEW t \in Tasks, Steps(t) \/ HandlerEnds(t) PROVE CancelInv'
  <2>0. UNCHANGED <<throw, revoked, expired, cancelled>>
    BY <1>2, StepOutcome DEF signals
  <2>1. ASSUME NEW p \in {"waiting", "body"}, GoesOn(t, p) PROVE CancelInv'
    <3>1. t \in JobTasks => t \notin revoked
      BY <2>1 DEF GoesOn, CancelInv, Live
    <3> QED
      BY <1>0, <2>0, <2>1, <3>1 DEF GoesOn, Shift, CancelInv, Live
  <2>2. ASSUME NEW r \in Results, EndsWith(t, r) PROVE CancelInv'
    <3>1. t \in JobTasks /\ r = "completed" => t \notin revoked
      BY <1>0, <2>2 DEF EndsWith, CancelInv, Live
    <3>2. result'[t] = r /\ \A u \in Tasks \ {t} : result'[u] = result[u]
      BY <1>0, <2>2 DEF EndsWith
    <3>3. /\ phase'[t] = "done" /\ phase[t] # "absent"
          /\ \A u \in Tasks \ {t} :
               phase'[u] = phase[u] \/ (phase[u] = "waiting" /\ phase'[u] = "woken")
      BY <2>2 DEF EndsWith, Shift, Live
    <3>4. r = "completed" => t \notin throw
      BY <2>2 DEF EndsWith
    <3> QED
      BY <1>0, <2>0, <3>1, <3>2, <3>3, <3>4 DEF CancelInv, Live
  <2> QED
    BY <1>2, <2>1, <2>2, StepOutcome
<1>3. ASSUME NEW j \in JobTasks, Delegate(j) PROVE CancelInv'
  <2>1. j \notin revoked
    BY <1>3 DEF Delegate, CancelInv, Live
  <2>2. phase[Nested[j]] = "absent"
    BY <1>3 DEF Delegate, NestingInv
  <2> QED
    BY <1>0, <1>3, <2>1, <2>2 DEF Delegate, CancelInv, Live, signals
<1>4. CASE Signalling
  <2>1. SignalsGrow /\ UNCHANGED <<phase, result>>
    BY <1>4, SignallingEffect, SignallingMovesNone
  <2>2. \A j \in JobTasks : Live(j) =>
          Target(j) = j \/ (phase[j] = "nested" /\ Target(j) = Nested[j])
    BY <1>0, TargetLives
  <2> QED
    BY <1>0, <2>1, <2>2 DEF SignalsGrow, CancelInv, Live
<1> QED
  BY <1>1, <1>2, <1>3, <1>4, RuntimeStepCases
-----------------------------------------------------------------------------
(* What the handles say *)

(* Before its end a job's handle says nothing but QUEUED, RUNNING or       *)
(* CANCELLED; after it, what the result says.                              *)
TruthInv ==
  \A j \in JobTasks :
    /\ phase[j] # "done" => status[j] \in {"queued", "running", "cancelled"}
    /\ phase[j] = "done" => HandleStatus(j) = result[j]

(* A handle is only written by its own task or while that is alive. *)
LEMMA TruthStep ==
  ASSUME TypeOK, SlotsInv, NamesInv, TruthInv, NamesInv', [Next]_vars
  PROVE  TruthInv'
<1>0. /\ phase \in [Tasks -> Phases] /\ result \in [Tasks -> Results \cup {"none"}]
      /\ status \in [Tasks -> {"queued", "running"} \cup Results]
      /\ updates \in [Tasks -> Tasks \cup {NoTask}]
      /\ Tasks = JobTasks \cup CapabilityTasks /\ JobTasks \cap CapabilityTasks = {}
      /\ NoTask \notin Tasks
      /\ \A j \in JobTasks : Nested[j] \in CapabilityTasks
  BY RuntimeAssumption DEF TypeOK, Tasks
<1>1. ASSUME NEW t \in Tasks, Submit(t) PROVE TruthInv'
  BY <1>0, <1>1 DEF Submit, TruthInv, HandleStatus
<1>2. ASSUME NEW t \in Tasks, Steps(t) \/ HandlerEnds(t) PROVE TruthInv'
  <2>1. ASSUME NEW p \in {"waiting", "body"}, GoesOn(t, p) PROVE TruthInv'
    <3>1. updates'[t] \in CapabilityTasks \cup {t, NoTask}
      BY <1>0 DEF NamesInv
    <3>2. \A j \in JobTasks :
            status'[j] = status[j] \/ (j = t /\ status'[j] = "running")
      BY <1>0, <2>1, <3>1 DEF GoesOn
    <3>3. \A j \in JobTasks : phase'[j] = "done" <=> phase[j] = "done"
      BY <1>0, <2>1 DEF GoesOn, Shift
    <3> QED
      BY <1>0, <2>1, <3>2, <3>3 DEF GoesOn, TruthInv, HandleStatus
  <2>2. ASSUME NEW r \in Results, EndsWith(t, r) PROVE TruthInv'
    <3>1. updates[t] \in CapabilityTasks \cup {t, NoTask}
      BY <1>0 DEF NamesInv
    <3>2. \A j \in JobTasks \ {t} : status'[j] = status[j] /\ result'[j] = result[j]
      BY <1>0, <2>2, <3>1 DEF EndsWith
    <3>3. \A j \in JobTasks \ {t} : phase'[j] = "done" <=> phase[j] = "done"
      BY <1>0, <2>2 DEF EndsWith, Shift
    <3>4. phase'[t] = "done" /\ result'[t] = r
      BY <1>0, <2>2 DEF EndsWith, Shift
    <3>5. t \in JobTasks =>
            IF phase[t] \in {"body", "nested"} THEN status'[t] = r
            ELSE r = "cancelled" /\ status'[t] \in {"queued", "running", "cancelled"}
      BY <1>0, <2>2 DEF EndsWith, NamesInv, TruthInv, Live
    <3> QED
      BY <1>0, <3>2, <3>3, <3>4, <3>5 DEF TruthInv, HandleStatus, Results
  <2> QED
    BY <1>2, <2>1, <2>2, StepOutcome
<1>3. ASSUME NEW j \in JobTasks, Delegate(j) PROVE TruthInv'
  BY <1>0, <1>3 DEF Delegate, TruthInv, HandleStatus
<1>4. CASE Signalling
  <2>1. UNCHANGED <<phase, result>>
    BY <1>4, SignallingMovesNone
  <2>2. \A j \in JobTasks : status'[j] = status[j] \/ (phase[j] # "done" /\ status'[j] = "cancelled")
    BY <1>0, <1>4 DEF Signalling, Expire, Abandon, Revoke, StartRuntime, Shutdown, Stopped, Pending,
                      Live, vars
  <2> QED
    BY <2>1, <2>2 DEF TruthInv, HandleStatus
<1> QED
  BY <1>1, <1>2, <1>3, <1>4, RuntimeStepCases

-----------------------------------------------------------------------------
(* Shutdown *)

(* From shutdown() on nothing new starts, and every job that is alive has  *)
(* been revoked; the runtime is only stopped when none is alive.           *)
StopInv ==
  /\ runtime \in {"stopping", "stopped"} => \A j \in JobTasks : Live(j) => j \in revoked
  /\ runtime = "stopped" => \A j \in JobTasks : ~Live(j)

(* Every step keeps what a stopped runtime has left.                       *)
LEMMA StopStep ==
  ASSUME TypeOK, SlotsInv, NestingInv, NamesInv, StopInv, [Next]_vars
  PROVE  StopInv'
<1>0. /\ phase \in [Tasks -> Phases]
      /\ Tasks = JobTasks \cup CapabilityTasks /\ JobTasks \cap CapabilityTasks = {}
  BY RuntimeAssumption DEF TypeOK, Tasks
<1>1. ASSUME NEW t \in Tasks, Submit(t) PROVE StopInv'
  BY <1>0, <1>1 DEF Submit, StopInv, Live
<1>2. ASSUME NEW t \in Tasks, Steps(t) \/ HandlerEnds(t) PROVE StopInv'
  <2>1. UNCHANGED <<runtime, revoked>>
    BY <1>2, StepOutcome DEF signals
  <2>2. \A j \in JobTasks : Live(j)' => Live(j)
    BY <1>0, <1>2, StepShifts DEF Shift, Live
  <2> QED
    BY <2>1, <2>2 DEF StopInv
<1>3. ASSUME NEW j \in JobTasks, Delegate(j) PROVE StopInv'
  BY <1>0, <1>3 DEF Delegate, StopInv
<1>4. CASE Signalling
  <2>1. phase' = phase /\ revoked \subseteq revoked'
    BY <1>4, SignallingMovesNone, SignallingEffect DEF SignalsGrow
  <2>2. CASE runtime' = runtime \/ runtime' = "started"
    BY <2>1, <2>2 DEF StopInv, Live
  <2>3. CASE Shutdown
    <3>1. \A j \in JobTasks : Live(j) => j \in Pending
      BY <1>0 DEF Pending, NamesInv, Live, TaskId
    <3> QED
      BY <2>1, <2>3, <3>1 DEF Shutdown, StopInv, Live
  <2>4. CASE Stopped
    BY <2>1, <2>4 DEF Stopped, StopInv, Live
  <2> QED
    BY <1>4, <2>2, <2>3, <2>4 DEF Signalling, Expire, Abandon, Revoke, StartRuntime, vars
<1> QED
  BY <1>1, <1>2, <1>3, <1>4, RuntimeStepCases

-----------------------------------------------------------------------------
(* The inductive invariant *)

RuntimeInv ==
  TypeOK /\ SlotsInv /\ NestingInv /\ NamesInv /\ CancelInv /\ TruthInv /\ StopInv

(* A new runtime has the invariant.                                        *)
LEMMA RuntimeInit == Init => RuntimeInv
<1> SUFFICES ASSUME Init PROVE RuntimeInv
  OBVIOUS
<1>0. /\ Tasks = JobTasks \cup CapabilityTasks /\ JobTasks \cap CapabilityTasks = {}
      /\ CapabilityId \notin Tasks /\ Slots \in Nat
      /\ \A j \in JobTasks : Nested[j] \in CapabilityTasks
  BY RuntimeAssumption DEF Tasks
<1>1. TypeOK
  BY <1>0 DEF Init, TypeOK, Phases
<1>2. SlotsInv
  <2>1. Holders = {} /\ Waiting = {} /\ phase \in [Tasks -> Phases]
    BY DEF Init, Holders, Holds, Waiting, Phases
  <2>2. Lists(waiters, Waiting) /\ ~Awaited
    <3>1. waiters = <<>> /\ DOMAIN waiters = {}
      BY DEF Init
    <3> QED
      BY <2>1, <3>1 DEF Lists, Awaited
  <2> QED
    BY <1>0, <2>1, <2>2, FS_EmptySet DEF Init, SlotsInv
<1>3. NestingInv /\ NamesInv /\ CancelInv /\ TruthInv /\ StopInv
  BY <1>0 DEF Init, NestingInv, NamesInv, CancelInv, TruthInv, StopInv, Live
<1> QED
  BY <1>1, <1>2, <1>3 DEF RuntimeInv

(* Every step of the runtime keeps the invariant.                          *)
LEMMA RuntimeStep == RuntimeInv /\ [Next]_vars => RuntimeInv'
BY SlotsStep, NestingStep, TypeStep, NamesStep, CancelStep, TruthStep, StopStep DEF RuntimeInv

(* Everything above, in every state the runtime can reach.                 *)
THEOREM RuntimeInvariant == Spec => []RuntimeInv
BY RuntimeInit, RuntimeStep, PTL DEF Spec

(* Every variable of the runtime keeps its type.                           *)
THEOREM RuntimeTypes == Spec => []TypeOK
<1>1. RuntimeInv => TypeOK
  BY DEF RuntimeInv
<1> QED
  BY <1>1, RuntimeInvariant, PTL

(* No slot of the semaphore is lost or given twice, the queue holds each   *)
(* waiting task once, and nobody waits beside a free slot without a woken  *)
(* task about to pass it on, for any number of tasks and slots.            *)
THEOREM SlotsAreConserved == Spec => []SlotsConserved
<1>1. RuntimeInv => SlotsConserved
  BY DEF RuntimeInv, SlotsInv, SlotsConserved, Lists, Waiting
<1> QED
  BY <1>1, RuntimeInvariant, PTL

(* The handle of a job that has ended shows the status of its result.      *)
THEOREM HandlesTruthful == Spec => []JobHandleTruthful
<1>1. RuntimeInv => JobHandleTruthful
  BY DEF RuntimeInv, TruthInv, JobHandleTruthful
<1> QED
  BY <1>1, RuntimeInvariant, PTL

(* A job that was cancelled while it was alive never ends COMPLETED, also  *)
(* when its capability had already succeeded.                              *)
THEOREM CancelledNeverCompletes == Spec => []CancelledNotCompleted
<1>1. RuntimeInv => CancelledNotCompleted
  BY DEF RuntimeInv, CancelInv, CancelledNotCompleted
<1> QED
  BY <1>1, RuntimeInvariant, PTL

-----------------------------------------------------------------------------
(* The job service's view: LocalRuntime implements JobTasks *)

JobTable   == [j \in JobTasks |-> JobTask(j)]
JobRevoked == revoked \cap JobTasks

(* What a job's holder sees of its task in each phase.                     *)
LEMMA ViewValues ==
  ASSUME TypeOK, NEW j \in JobTasks
  PROVE  /\ JobTable[j] = JobTask(j)
         /\ phase[j] = "absent" => JobTask(j) = "none"
         /\ phase[j] \in {"created", "waiting", "woken"} => JobTask(j) = "pending"
         /\ phase[j] \in {"body", "nested"} => JobTask(j) = "running"
         /\ phase[j] = "done" => JobTask(j) = IF result[j] = "timed_out" THEN "failed" ELSE result[j]
         /\ Live(j) <=> JobTask(j) \in {"pending", "running"}
BY DEF TypeOK, Phases, Tasks, JobTable, JobTask, Live, Results

(* The same after a step.                                                  *)
LEMMA ViewValuesNext ==
  ASSUME TypeOK', NEW j \in JobTasks
  PROVE  /\ phase'[j] \in {"created", "waiting", "woken"} => JobTask(j)' = "pending"
         /\ phase'[j] \in {"body", "nested"} => JobTask(j)' = "running"
         /\ phase'[j] = "done" =>
              JobTask(j)' = IF result'[j] = "timed_out" THEN "failed" ELSE result'[j]
BY DEF TypeOK, Phases, Tasks, JobTask, Results

(* Initial states map to initial states. *)
LEMMA InitMapsToInit == Init => JobView!Init
<1> SUFFICES ASSUME Init PROVE JobView!Init
  OBVIOUS
<1>1. \A j \in JobTasks : JobTask(j) = "none"
  BY DEF Init, JobTask, Tasks
<1>2. revoked \cap JobTasks = {}
  BY DEF Init
<1> QED
  BY <1>1, <1>2 DEF JobView!Init

(* A change of the table at one job. *)
LEMMA TableChange ==
  ASSUME TypeOK, TypeOK', NEW t \in JobTasks, NEW v, JobTask(t)' = v,
         \A j \in JobTasks \ {t} : JobTask(j)' = JobTask(j)
  PROVE  JobTable' = [JobTable EXCEPT ![t] = v]
BY DEF JobTable

(* Every step maps to a step or a stutter.  An end as CANCELLED needs that *)
(* the job was revoked (CancelInv), and a start that it was not.           *)
LEMMA StepMapsToStep ==
  ASSUME RuntimeInv, RuntimeInv', [Next]_vars
  PROVE  [JobView!Next]_(JobView!execution)
<1>0. /\ phase \in [Tasks -> Phases] /\ result \in [Tasks -> Results \cup {"none"}]
      /\ Tasks = JobTasks \cup CapabilityTasks /\ JobTasks \cap CapabilityTasks = {}
      /\ \A j \in JobTasks : Nested[j] \in CapabilityTasks
      /\ TypeOK /\ TypeOK'
  BY RuntimeAssumption DEF RuntimeInv, TypeOK, Tasks
<1>a. ASSUME UNCHANGED <<JobTable, JobRevoked>>
      PROVE  [JobView!Next]_(JobView!execution)
  BY <1>a DEF JobView!execution, JobTable, JobRevoked
<1>b. ASSUME NEW j \in JobTasks, UNCHANGED JobRevoked,
             \/ JobTable[j] = "none" /\ JobTable' = [JobTable EXCEPT ![j] = "pending"]
             \/ /\ JobTable[j] = "pending" /\ j \notin JobRevoked
                /\ JobTable' = [JobTable EXCEPT ![j] = "running"]
             \/ /\ JobTable[j] = "running"
                /\ \E r \in {"completed", "failed"} : JobTable' = [JobTable EXCEPT ![j] = r]
             \/ /\ JobTable[j] \in {"pending", "running"} /\ j \in JobRevoked
                /\ JobTable' = [JobTable EXCEPT ![j] = "cancelled"]
      PROVE  [JobView!Next]_(JobView!execution)
  <2>1. JobView!Spawn(j) \/ JobView!Start(j) \/ JobView!End(j)
    BY <1>b DEF JobView!Spawn, JobView!Start, JobView!End, JobTable, JobRevoked
  <2> QED
    BY <2>1 DEF JobView!Next
<1>c. ASSUME UNCHANGED JobTable,
             NEW S \in SUBSET {j \in JobTasks : JobTable[j] \in {"pending", "running"}},
             JobRevoked' = JobRevoked \cup S
      PROVE  [JobView!Next]_(JobView!execution)
  BY <1>c DEF JobView!Revoke, JobView!Next, JobTable, JobRevoked
<1>1. ASSUME NEW t \in Tasks, Submit(t) PROVE [JobView!Next]_(JobView!execution)
  <2>1. /\ UNCHANGED JobRevoked /\ phase[t] = "absent" /\ phase'[t] = "created"
        /\ \A j \in JobTasks \ {t} : JobTask(j)' = JobTask(j)
    BY <1>0, <1>1 DEF Submit, signals, JobRevoked, JobTask
  <2>2. CASE t \in JobTasks
    <3>1. JobTable[t] = "none" /\ JobTask(t)' = "pending"
      BY <1>0, <2>1, <2>2, ViewValues, ViewValuesNext
    <3>2. JobTable' = [JobTable EXCEPT ![t] = "pending"]
      BY <1>0, <2>1, <2>2, <3>1, TableChange
    <3> QED
      BY <1>b, <2>1, <2>2, <3>1, <3>2
  <2>3. CASE t \notin JobTasks
    BY <1>a, <2>1, <2>3 DEF JobTable
  <2> QED
    BY <2>2, <2>3
<1>2. ASSUME NEW t \in Tasks, Steps(t) \/ HandlerEnds(t) PROVE [JobView!Next]_(JobView!execution)
  <2>0. UNCHANGED JobRevoked
    BY <1>2, StepOutcome DEF RuntimeInv, signals, JobRevoked
  <2>1. ASSUME NEW p \in {"waiting", "body"}, GoesOn(t, p) PROVE [JobView!Next]_(JobView!execution)
    <3>1. \A j \in JobTasks \ {t} : JobTask(j)' = JobTask(j)
      BY <1>0, <2>1 DEF GoesOn, Shift, JobTask
    <3>2. phase'[t] = p /\ phase[t] \in {"created", "woken"}
      BY <2>1 DEF GoesOn, Shift
    <3>3. CASE t \notin JobTasks
      BY <1>a, <2>0, <3>1, <3>3 DEF JobTable
    <3>4. CASE t \in JobTasks
      <4>1. t \notin JobRevoked
        BY <2>1, <3>4 DEF GoesOn, RuntimeInv, CancelInv, Live, JobRevoked
      <4>2. JobTask(t) = "pending" /\ JobTable[t] = JobTask(t)
        BY <1>0, <3>2, <3>4, ViewValues
      <4>3. JobTask(t)' = IF p = "body" THEN "running" ELSE "pending"
        BY <1>0, <3>2, <3>4, ViewValuesNext
      <4>4. CASE p = "body"
        BY <1>0, <1>b, <2>0, <3>1, <3>4, <4>1, <4>2, <4>3, <4>4, TableChange
      <4>5. CASE p = "waiting"
        BY <1>a, <2>0, <3>1, <4>2, <4>3, <4>5 DEF JobTable
      <4> QED
        BY <4>4, <4>5
    <3> QED
      BY <3>3, <3>4
  <2>2. ASSUME NEW r \in Results, EndsWith(t, r) PROVE [JobView!Next]_(JobView!execution)
    <3>1. \A j \in JobTasks \ {t} : JobTask(j)' = JobTask(j)
      BY <1>0, <2>2 DEF EndsWith, Shift, JobTask
    <3>2. phase'[t] = "done" /\ result'[t] = r /\ Live(t)
      BY <1>0, <2>2 DEF EndsWith, Shift
    <3>3. CASE t \notin JobTasks
      BY <1>a, <2>0, <3>1, <3>3 DEF JobTable
    <3>4. CASE t \in JobTasks
      <4>1. JobTask(t)' = IF r = "timed_out" THEN "failed" ELSE r
        BY <1>0, <3>2, <3>4, ViewValuesNext
      <4>2. JobTable[t] = JobTask(t) /\ JobTable[t] \in {"pending", "running"}
        BY <1>0, <3>2, <3>4, ViewValues
      <4>3. JobTable' = [JobTable EXCEPT ![t] = IF r = "timed_out" THEN "failed" ELSE r]
        BY <1>0, <3>1, <3>4, <4>1, TableChange
      <4>4. CASE r = "cancelled"
        <5>1. t \in revoked
          BY <1>0, <2>2, <3>4, <4>4 DEF EndsWith, RuntimeInv, CancelInv
        <5> QED
          BY <1>b, <2>0, <3>4, <4>2, <4>3, <4>4, <5>1 DEF JobRevoked
      <4>5. CASE r # "cancelled"
        <5>1. JobTable[t] = "running"
          BY <1>0, <2>2, <3>4, <4>5, ViewValues DEF EndsWith
        <5> QED
          BY <1>b, <2>0, <3>4, <4>3, <4>5, <5>1 DEF Results
      <4> QED
        BY <4>4, <4>5
    <3> QED
      BY <3>3, <3>4
  <2> QED
    BY <1>2, <2>1, <2>2, StepOutcome DEF RuntimeInv
<1>3. ASSUME NEW j \in JobTasks, Delegate(j) PROVE [JobView!Next]_(JobView!execution)
  <2>1. UNCHANGED JobRevoked /\ UNCHANGED result /\ phase[j] = "body" /\ phase'[j] = "nested"
        /\ \A k \in JobTasks \ {j} : phase'[k] = phase[k]
    BY <1>0, <1>3 DEF Delegate, signals, JobRevoked
  <2>2. \A k \in JobTasks : JobTask(k)' = JobTask(k)
    BY <2>1 DEF JobTask
  <2> QED
    BY <1>a, <2>1, <2>2 DEF JobTable
<1>4. CASE Signalling
  <2>1. UNCHANGED JobTable
    <3>1. phase' = phase /\ result' = result
      BY <1>4, SignallingMovesNone
    <3>2. \A j \in JobTasks : JobTask(j)' = JobTask(j)
      BY <3>1 DEF JobTask
    <3> QED
      BY <3>2 DEF JobTable
  <2>2. /\ revoked \subseteq revoked'
        /\ \A j \in revoked' \ revoked : j \in Tasks /\ Live(j)
    BY <1>4, SignallingEffect DEF RuntimeInv, SignalsGrow
  <2> DEFINE S == (revoked' \ revoked) \cap JobTasks
  <2>3. S \in SUBSET {j \in JobTasks : JobTable[j] \in {"pending", "running"}}
    BY <1>0, <2>2, ViewValues
  <2>4. JobRevoked' = JobRevoked \cup S
    BY <2>2 DEF JobRevoked
  <2> HIDE DEF S
  <2> QED
    BY <1>c, <2>1, <2>3, <2>4
<1> QED
  BY <1>1, <1>2, <1>3, <1>4, RuntimeStepCases

(* The runtime gives the job service the tasks it relies on: every step is *)
(* a step of JobTasks on the jobs, or does not show there.                 *)
THEOREM RuntimeImplementsJobTasks == Spec => ImplementsJobTasks
<1>1. RuntimeInv /\ RuntimeInv' /\ [Next]_vars => [JobView!Next]_(JobView!execution)
  BY StepMapsToStep
<1> QED
  BY <1>1, InitMapsToInit, RuntimeInvariant, PTL DEF Spec, ImplementsJobTasks, JobView!Spec
=============================================================================
