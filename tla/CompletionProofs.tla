-------------------------- MODULE CompletionProofs --------------------------
(***************************************************************************)
(* Proofs about Completion.  The inductive invariant is TypeOK together    *)
(* with NoLostWakeup: a step that uses up or adds a completion changes the *)
(* number of awake waiting threads by as much, or leaves nobody asleep.    *)
(* The assumption Cardinality(Thread) < DoneMax matters in one place: with *)
(* a sleeper, done is at most the number of awake waiters and so below     *)
(* DoneMax, hence every Take does count down.                              *)
(***************************************************************************)
EXTENDS Completion, FiniteSetTheorems, TLAPS

Awake == Waiting \ sleeping
IInv == TypeOK /\ NoLostWakeup

(* The waiting threads are finitely many, fewer than DoneMax.              *)
LEMMA AwakeFinite ==
  ASSUME NEW S \in SUBSET Thread
  PROVE  IsFiniteSet(S) /\ Cardinality(S) \in Nat /\ Cardinality(S) < DoneMax
<1>1. IsFiniteSet(S) /\ Cardinality(S) <= Cardinality(Thread)
  BY FS_Subset, CompletionAssumption
<1>2. Cardinality(S) \in Nat /\ Cardinality(Thread) \in Nat
  BY <1>1, FS_CardinalityType, CompletionAssumption
<1> QED  BY <1>1, <1>2, CompletionAssumption

(* A thread more or less among the awake ones counts one.                  *)
LEMMA AwakeCount ==
  ASSUME NEW S \in SUBSET Thread, NEW t \in Thread
  PROVE  /\ t \notin S => Cardinality(S \cup {t}) = Cardinality(S) + 1
         /\ t \in S => Cardinality(S \ {t}) = Cardinality(S) - 1
<1>1. IsFiniteSet(S)
  BY AwakeFinite
<1> QED  BY <1>1, FS_AddElement, FS_RemoveElement

(* The initial state satisfies the invariant: nobody waits.                *)
LEMMA InitInvariant == Init => IInv
BY CompletionAssumption DEF Init, IInv, TypeOK, NoLostWakeup, Waiting

(* What a step of the awake threads does to the type invariant.            *)
LEMMA TypeStep == TypeOK /\ [Next]_vars => TypeOK'
<1> SUFFICES ASSUME TypeOK, [Next]_vars
             PROVE  TypeOK'
  OBVIOUS
<1> USE CompletionAssumption DEF TypeOK, Waiting
<1>1. CASE Complete
  BY <1>1 DEF Complete, Increment, SignalOne
<1>2. CASE CompleteAll
  BY <1>2 DEF CompleteAll
<1>3. CASE Reinit
  BY <1>3 DEF Reinit
<1>4. ASSUME NEW t \in Thread, ThreadStep(t)
      PROVE  TypeOK'
  <2>1. ASSUME NEW how \in {"wait", "timed"}, Wait(t, how)
        PROVE  TypeOK'
    BY <2>1 DEF Wait, Take, Goto
  <2>2. CASE Spurious(t)
    BY <2>2 DEF Spurious
  <2>3. CASE Expire(t)
    BY <2>3 DEF Expire
  <2>4. CASE Resume(t)
    BY <2>4 DEF Resume, Take, Goto
  <2>5. CASE TryRead(t)
    BY <2>5 DEF TryRead, Goto
  <2>6. CASE TryLock(t)
    BY <2>6 DEF TryLock, Take, Goto
  <2> QED  BY <1>4, <2>1, <2>2, <2>3, <2>4, <2>5, <2>6 DEF ThreadStep
<1>5. CASE UNCHANGED vars
  BY <1>5 DEF vars
<1> QED  BY <1>1, <1>2, <1>3, <1>4, <1>5 DEF Next

(* NoLostWakeup is preserved: one step per action, by the change it makes  *)
(* to the set of awake waiters.                                            *)
LEMMA WakeupStep == IInv /\ [Next]_vars => NoLostWakeup'
<1> SUFFICES ASSUME IInv, [Next]_vars, sleeping' # {}
             PROVE  done' <= Cardinality(Awake')
  BY DEF NoLostWakeup, Awake
<1> DEFINE n == Cardinality(Awake)
<1>0. /\ Awake \in SUBSET Thread /\ n \in Nat /\ n < DoneMax
      /\ done \in Nat /\ DoneMax \in Nat
      /\ sleeping # {} => done <= n
  BY AwakeFinite, CompletionAssumption DEF IInv, TypeOK, NoLostWakeup, Awake, Waiting
<1>t. TypeOK /\ TypeOK'
  BY TypeStep DEF IInv
<1> HIDE DEF n
<1>1. CASE Complete
  <2>1. PICK t \in sleeping : sleeping' = sleeping \ {t}
    BY <1>1 DEF Complete, SignalOne
  <2>2. t \in Thread /\ t \notin Awake /\ Awake' = Awake \cup {t}
    BY <1>1, <2>1, <1>t DEF Complete, Awake, Waiting, TypeOK
  <2>3. Cardinality(Awake') = n + 1
    BY <2>2, <1>0, AwakeCount DEF n
  <2>4. done' <= done + 1 /\ done <= n
    BY <1>1, <1>0, <2>1 DEF Complete, Increment
  <2>5. done' \in Nat
    BY <1>t, CompletionAssumption DEF TypeOK
  <2> QED  BY <2>3, <2>4, <2>5, <1>0
<1>2. CASE CompleteAll
  BY <1>2 DEF CompleteAll
<1>3. CASE Reinit
  <2>1. done' = 0
    BY <1>3 DEF Reinit
  <2>2. Cardinality(Awake') \in Nat
    BY AwakeFinite, <1>t DEF Awake, Waiting, TypeOK
  <2> QED  BY <2>1, <2>2
<1>4. ASSUME NEW t \in Thread, ThreadStep(t)
      PROVE  done' <= Cardinality(Awake')
  <2>0. Awake' \in SUBSET Thread /\ Cardinality(Awake') \in Nat
    <3>1. Awake' \in SUBSET Thread
      BY DEF Awake, Waiting
    <3> QED  BY <3>1, AwakeFinite
  <2>1. ASSUME NEW how \in {"wait", "timed"}, Wait(t, how)
        PROVE  done' <= Cardinality(Awake')
    <3>1. CASE Take /\ UNCHANGED <<pc, sleeping>>
      <4>1. done' <= done /\ Awake' = Awake /\ sleeping # {}
        BY <3>1, <1>0 DEF Take, Awake, Waiting
      <4>2. done' \in Nat
        BY <1>t, CompletionAssumption DEF TypeOK
      <4> QED  BY <4>1, <4>2, <1>0 DEF n
    <3>2. CASE done = 0 /\ UNCHANGED done
      BY <3>2, <2>0, <1>0
    <3> QED  BY <2>1, <3>1, <3>2 DEF Wait
  <2>2. ASSUME Spurious(t) \/ Expire(t)
        PROVE  done' <= Cardinality(Awake')
    <3>1. t \in sleeping /\ Awake' = Awake \cup {t} /\ t \notin Awake /\ done' = done
      BY <2>2, <1>t DEF Spurious, Expire, Awake, Waiting, TypeOK
    <3>2. Cardinality(Awake') = n + 1
      BY <3>1, <1>0, AwakeCount DEF n
    <3> QED  BY <3>1, <3>2, <1>0
  <2>3. CASE Resume(t)
    <3>1. CASE Take /\ Goto(t, "idle") /\ UNCHANGED sleeping
      <4>1. sleeping # {} /\ done > 0 /\ done <= n /\ done # DoneMax
        BY <3>1, <1>0 DEF Take
      <4>2. done' = done - 1
        BY <3>1, <4>1 DEF Take
      <4>3. t \in Awake /\ Awake' = Awake \ {t}
        BY <2>3, <3>1, <1>t DEF Resume, Goto, Awake, Waiting, TypeOK
      <4>4. Cardinality(Awake') = n - 1
        BY <4>3, <1>0, AwakeCount DEF n
      <4> QED  BY <4>1, <4>2, <4>4, <1>0
    <3>2. CASE done = 0 /\ UNCHANGED done
      BY <3>2, <2>0, <1>0
    <3> QED  BY <2>3, <3>1, <3>2 DEF Resume
  <2>4. CASE TryRead(t)
    <3>1. Awake' = Awake /\ done' = done /\ sleeping # {}
      BY <2>4, <1>t DEF TryRead, Goto, Awake, Waiting, TypeOK
    <3> QED  BY <3>1, <1>0 DEF n
  <2>5. CASE TryLock(t)
    <3>1. Awake' = Awake /\ sleeping # {} /\ done' <= done
      BY <2>5, <1>t, <1>0 DEF TryLock, Take, Goto, Awake, Waiting, TypeOK
    <3>2. done' \in Nat
      BY <1>t, CompletionAssumption DEF TypeOK
    <3> QED  BY <3>1, <3>2, <1>0 DEF n
  <2> QED  BY <1>4, <2>1, <2>2, <2>3, <2>4, <2>5 DEF ThreadStep
<1>5. CASE UNCHANGED vars
  BY <1>5, <1>0 DEF vars, Awake, Waiting, n
<1> QED  BY <1>1, <1>2, <1>3, <1>4, <1>5 DEF Next

(* The inductive invariant of the completion.                              *)
THEOREM CompletionInvariant == Spec => []IInv
<1>1. IInv /\ [Next]_vars => IInv'
  BY TypeStep, WakeupStep DEF IInv
<1> QED  BY InitInvariant, <1>1, PTL DEF Spec

(* done never leaves 0 .. UINT_MAX: no completion is used twice, whatever  *)
(* try_wait_for_completion() saw before it took the lock.                  *)
THEOREM CompletionTypeCorrect == Spec => []TypeOK
<1>1. IInv => TypeOK
  BY DEF IInv
<1> QED  BY CompletionInvariant, <1>1, PTL

(* A sleeping thread never faces a completion nobody was woken for.        *)
THEOREM CompletionNoLostWakeup == Spec => []NoLostWakeup
<1>1. IInv => NoLostWakeup
  BY DEF IInv
<1> QED  BY CompletionInvariant, <1>1, PTL

(* A completion implements permits: waits and complete() calls match one   *)
(* to one, and a timed wait gives up only when no completion is left.      *)
THEOREM Implements == Spec => ImplementsPermits
<1>1. Init => P!Init
  BY DEF Init, P!Init, Waiting
<1>2. TypeOK /\ [Next]_vars => [P!Next]_P!vars
  <2> SUFFICES ASSUME TypeOK, [Next]_vars
               PROVE  P!Next \/ UNCHANGED <<done, Waiting>>
    BY DEF P!vars
  <2> USE CompletionAssumption DEF TypeOK, Waiting
  <2>1. CASE Complete
    BY <2>1 DEF Complete, Increment, P!Next, P!Post
  <2>2. CASE CompleteAll
    BY <2>2 DEF CompleteAll, P!Next, P!PostAll
  <2>3. CASE Reinit
    BY <2>3 DEF Reinit, P!Next, P!Reset
  <2>4. ASSUME NEW t \in Thread, ThreadStep(t)
        PROVE  P!Next \/ UNCHANGED <<done, Waiting>>
    <3> SUFFICES P!Block(t) \/ P!Pass(t) \/ P!GiveUp(t) \/ UNCHANGED <<done, Waiting>>
      BY DEF P!Next
    <3>1. ASSUME NEW how \in {"wait", "timed"}, Wait(t, how)
          PROVE  P!Block(t) \/ P!Pass(t)
      BY <3>1 DEF Wait, Take, Goto, P!Block, P!Pass
    <3>2. CASE Spurious(t)
      BY <3>2 DEF Spurious
    <3>3. CASE Expire(t)
      BY <3>3 DEF Expire
    <3>4. CASE Resume(t)
      BY <3>4 DEF Resume, Take, Goto, P!Pass, P!GiveUp
    <3>5. CASE TryRead(t)
      BY <3>5 DEF TryRead, Goto
    <3>6. CASE TryLock(t)
      BY <3>6 DEF TryLock, Take, Goto, P!Pass
    <3> QED  BY <2>4, <3>1, <3>2, <3>3, <3>4, <3>5, <3>6 DEF ThreadStep
  <2>5. CASE UNCHANGED vars
    BY <2>5 DEF vars
  <2> QED  BY <2>1, <2>2, <2>3, <2>4, <2>5 DEF Next
<1> QED  BY <1>1, <1>2, CompletionTypeCorrect, PTL DEF Spec, ImplementsPermits, P!Spec
=============================================================================
