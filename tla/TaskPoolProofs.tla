--------------------------- MODULE TaskPoolProofs ---------------------------
(***************************************************************************)
(* For any number of threads: resize_thread_pool() and start() return with *)
(* exactly the threads that will stay, shrinking never loses one too many, *)
(* and the numbers up to the wish are each held by one thread.             *)
(***************************************************************************)
EXTENDS TaskPool, FiniteSetTheorems, TLAPS

\* Pigeonhole: numbers 1..m all held by threads of S, and one thread of S holds
\* another number, so S has more than m threads.
LEMMA OneMoreThan ==
  ASSUME NEW S, IsFiniteSet(S), NEW f, NEW m \in Nat,
         \A i \in 1 .. m : \E v \in S : f[v] = i,
         NEW w \in S, f[w] \notin 1 .. m
  PROVE  Cardinality(S) >= m + 1
<1> DEFINE T == S \ {w}
           g == [v \in T |-> IF f[v] \in 1 .. m THEN f[v] ELSE 1]
<1>1. IsFiniteSet(T) /\ Cardinality(T) = Cardinality(S) - 1
  BY FS_RemoveElement
<1>2. Cardinality(S) \in Nat /\ Cardinality(T) \in Nat
  BY <1>1, FS_CardinalityType
<1>3. CASE m = 0
  BY <1>1, <1>2, <1>3
<1>4. CASE m # 0
  <2>1. g \in [T -> 1 .. m]
    BY <1>4
  <2>2. \A i \in 1 .. m : \E v \in T : g[v] = i
    OBVIOUS
  <2>3. g \in Surjection(T, 1 .. m)
    BY <2>1, <2>2 DEF Surjection
  <2>4. Cardinality(1 .. m) <= Cardinality(T)
    BY <2>3, <1>1, FS_Surjection
  <2>5. Cardinality(1 .. m) = m
    BY FS_Interval, <1>4
  <2> QED
    BY <2>4, <2>5, <1>1, <1>2
<1> QED
  BY <1>3, <1>4

LEMMA WorkersCount == Cardinality(Workers) \in Nat
  BY FS_CardinalityType, WorkersAssumption

\* The sets of threads the invariant counts are finite, and the numbered threads
\* are among those ACE counts.
LEMMA FiniteParts ==
  ASSUME state \in [Workers -> States]
  PROVE  /\ \A S : IsFiniteSet(In(S)) /\ Cardinality(In(S)) \in Nat
         /\ IsFiniteSet(Workers \ In({"none"}))
         /\ thr_count \in 0 .. Cardinality(Workers)
         /\ Cardinality(Workers) \in Nat
         /\ IsFiniteSet(Numbered)
         /\ Cardinality(Numbered) \in 0 .. thr_count
<1>1. \A S : In(S) \in SUBSET Workers
  BY DEF In
<1>2. \A T \in SUBSET Workers :
        IsFiniteSet(T) /\ Cardinality(T) \in Nat /\ Cardinality(T) <= Cardinality(Workers)
  BY FS_Subset, FS_CardinalityType, WorkersAssumption
<1>3. Cardinality(Workers) \in Nat
  BY WorkersCount
<1>4. Workers \ In({"none"}) \in SUBSET Workers
  OBVIOUS
<1>5. Numbered \in SUBSET (Workers \ In({"none"}))
  BY DEF Numbered, In
<1>6. Cardinality(Numbered) <= thr_count
  BY <1>2, <1>4, <1>5, FS_Subset DEF thr_count
<1> QED
  BY <1>1, <1>2, <1>3, <1>4, <1>5, <1>6 DEF thr_count, Numbered

\* When start() or resize_thread_pool() has returned, every number in use is at
\* most the count: this is what lets the next wish be any number.
LEMMA UpNumbers ==
  ASSUME IInv, owner = "up"
  PROVE  /\ \A w \in Numbered : id[w] <= nTask
         /\ \A v, w \in Numbered : id[v] = id[w] => v = w
         /\ \A i \in 1 .. nTask : \E w \in Numbered : id[w] = i
         /\ nTask <= thr_count
<1> USE DEF IInv, TypeOK
<1>1. nTask <= thr_count /\ thr_count \in Nat /\ ~stopped
  BY FiniteParts DEF CountIsNumbered, OwnerAndService
<1>2. Numbered = In({"looping"})
  BY DEF SettledAfterResize, Numbered, In
<1>3. \A w \in Numbered : id[w] <= nWish /\ id[w] \in Nat
  BY <1>2 DEF SettledAfterResize, Numbered, In
<1>4. \A w \in Numbered : id[w] <= nTask
  BY <1>1, <1>3 DEF BelowWish, SettledAfterResize
<1>5. \A v, w \in Numbered : id[v] = id[w] => v = w
  BY <1>1, <1>3 DEF LowNumbersOnce
<1>6. \A i \in 1 .. nTask : \E w \in Numbered : id[w] = i
  BY <1>1 DEF LowNumbersOnce, SettledAfterResize
<1> QED
  BY <1>1, <1>4, <1>5, <1>6

LEMMA InitIInv == Init => IInv
<1> SUFFICES ASSUME Init PROVE IInv
  OBVIOUS
<1>1. In({"none"}) = Workers /\ Numbered = {} /\ In({"leaving"}) = {}
  BY DEF Init, In, Numbered
<1>2. TypeOK
  <2>1. nWish \in 0 .. Cardinality(Workers) /\ posted \in 0 .. MaxPosted
    BY WorkersCount, MaxPostedAssumption DEF Init
  <2>2. state \in [Workers -> States] /\ id \in [Workers -> Nat]
    BY DEF Init, States
  <2> QED
    BY <2>1, <2>2 DEF Init, TypeOK
<1> QED
  BY <1>1, <1>2, FS_EmptySet
     DEF Init, IInv, CountIsNumbered, LowNumbersOnce, BelowWish, LeaversAreHigh,
         OwnerAndService, NoOvershoot, SettledAfterResize

-----------------------------------------------------------------------------
(* The steps of the owner *)

\* activate(n) spawns n threads and numbers none.
LEMMA ActivateAdds ==
  ASSUME TypeOK, NEW n \in Nat, activate(n)
  PROVE  /\ state' \in [Workers -> States]
         /\ In({"looping"})' = In({"looping"})
         /\ In({"leaving"})' = In({"leaving"})
         /\ In({"left"})' = In({"left"})
         /\ In({"leaving", "left"})' = In({"leaving", "left"})
         /\ Numbered' = Numbered
         /\ thr_count' = thr_count + n
<1>1. PICK S \in SUBSET In({"none"}) :
        /\ Cardinality(S) = n
        /\ state' = [w \in Workers |-> IF w \in S THEN "spawned" ELSE state[w]]
  BY DEF activate
<1>2. state' \in [Workers -> States]
  BY <1>1 DEF TypeOK, States
<1>3. \A w \in Workers : w \in S => state[w] = "none"
  BY <1>1 DEF In
<1>4. (Workers \ In({"none"}))' = (Workers \ In({"none"})) \cup S
  BY <1>1 DEF In
<1>5. (Workers \ In({"none"})) \cap S = {}
  BY <1>1 DEF In
<1>6. IsFiniteSet(S) /\ IsFiniteSet(Workers \ In({"none"}))
  <2>1. S \in SUBSET Workers
    BY <1>1 DEF In
  <2> QED
    BY <2>1, FS_Subset, WorkersAssumption
<1>7. Cardinality((Workers \ In({"none"})) \cup S)
        = Cardinality(Workers \ In({"none"})) + Cardinality(S)
           - Cardinality((Workers \ In({"none"})) \cap S)
  BY <1>6, FS_Union
<1>8. thr_count' = thr_count + n
  <2>1. Cardinality({}) = 0
    BY FS_EmptySet
  <2>2. thr_count \in Nat
    BY FiniteParts DEF TypeOK
  <2>3. thr_count' = Cardinality((Workers \ In({"none"})) \cup S)
    BY <1>4 DEF thr_count
  <2>4. thr_count' = thr_count + n - 0
    BY <1>1, <1>5, <1>7, <2>1, <2>3 DEF thr_count
  <2> QED
    BY <2>2, <2>4
<1>9. /\ In({"looping"})' = In({"looping"})
      /\ In({"leaving"})' = In({"leaving"})
      /\ In({"left"})' = In({"left"})
      /\ In({"leaving", "left"})' = In({"leaving", "left"})
  BY <1>1, <1>3 DEF In
<1>10. Numbered' = Numbered
  BY <1>1, <1>3 DEF In, Numbered
<1> QED
  BY <1>2, <1>8, <1>9, <1>10

LEMMA StartStep ==
  ASSUME IInv, NEW n \in Wishes, Start(n)
  PROVE  IInv'
<1> USE DEF IInv, TypeOK
<1>1. n \in Nat /\ n \in 0 .. Cardinality(Workers) /\ n >= 1
  BY WorkersCount DEF Wishes
<1>2. In({"none"}) = Workers /\ ~stopped
  BY DEF Start, OwnerAndService
<1>3. /\ Numbered = {} /\ In({"leaving"}) = {} /\ In({"looping"}) = {}
      /\ In({"leaving", "left"}) = {} /\ Workers \ In({"none"}) = {}
  BY <1>2 DEF In, Numbered
<1>4. nTask = 0 /\ thr_count = 0
  BY <1>3, FS_EmptySet DEF CountIsNumbered, thr_count
<1>5. CASE activate(n) /\ owner' = "up"
  <2>1. /\ state' \in [Workers -> States] /\ Numbered' = {} /\ In({"leaving"})' = {}
        /\ In({"looping"})' = {} /\ In({"leaving", "left"})' = {} /\ thr_count' = n
    BY <1>1, <1>3, <1>4, <1>5, ActivateAdds
  <2> QED
    BY <1>1, <1>2, <1>3, <1>4, <1>5, <2>1
       DEF Start, CountIsNumbered, LowNumbersOnce, BelowWish, LeaversAreHigh,
           OwnerAndService, NoOvershoot, SettledAfterResize
<1>6. CASE UNCHANGED <<state, owner>>
  <2>1. \A T : In(T)' = In(T)
    BY <1>6 DEF In
  <2>2. Numbered' = Numbered /\ thr_count' = thr_count
    BY <2>1 DEF Numbered, thr_count
  <2> QED
    BY <1>1, <1>2, <1>3, <1>4, <1>6, <2>1, <2>2
       DEF Start, CountIsNumbered, LowNumbersOnce, BelowWish, LeaversAreHigh,
           OwnerAndService, NoOvershoot, SettledAfterResize
<1> QED
  BY <1>5, <1>6 DEF Start

LEMMA ResizeStep ==
  ASSUME IInv, NEW n \in Wishes, resize_thread_pool(n)
  PROVE  IInv'
<1> USE DEF IInv, TypeOK
<1>1. n \in Nat /\ n \in 0 .. Cardinality(Workers) /\ n >= 1
  BY WorkersCount DEF Wishes
<1>2. /\ \A w \in Numbered : id[w] <= nTask /\ id[w] \in Nat
      /\ \A v, w \in Numbered : id[v] = id[w] => v = w
      /\ \A i \in 1 .. nTask : \E w \in Numbered : id[w] = i
      /\ nTask <= thr_count
      /\ thr_count \in Nat
  BY UpNumbers, FiniteParts DEF resize_thread_pool, Numbered, In
<1>3. In({"leaving", "left"}) = {} /\ In({"leaving"}) = {} /\ Numbered = In({"looping"})
  BY DEF resize_thread_pool, SettledAfterResize, In, Numbered
<1>4. ASSUME Numbered' = Numbered, In({"leaving"})' = {}, state' \in [Workers -> States]
      PROVE  /\ TypeOK' /\ CountIsNumbered' /\ (\A w \in Numbered : id[w] >= 1)'
             /\ LowNumbersOnce' /\ BelowWish' /\ LeaversAreHigh'
  BY <1>1, <1>2, <1>4
     DEF resize_thread_pool, CountIsNumbered, LowNumbersOnce, BelowWish, LeaversAreHigh
<1>5. CASE UNCHANGED <<state, owner>> /\ n >= thr_count
  <2>1. (\A T : In(T)' = In(T)) /\ Numbered' = Numbered /\ thr_count' = thr_count
    BY <1>5 DEF In, Numbered, thr_count
  <2>2. SettledAfterResize' /\ NoOvershoot' /\ OwnerAndService'
    BY <1>1, <1>2, <1>3, <1>5, <2>1
       DEF resize_thread_pool, SettledAfterResize, NoOvershoot, OwnerAndService
  <2> QED
    BY <1>3, <1>4, <1>5, <2>1, <2>2
<1>6. CASE n > thr_count /\ activate(n - thr_count) /\ UNCHANGED owner
  <2>1. /\ state' \in [Workers -> States] /\ Numbered' = Numbered
        /\ In({"leaving"})' = {} /\ In({"looping"})' = In({"looping"})
        /\ In({"leaving", "left"})' = {} /\ thr_count' = n
    <3>1. n - thr_count \in Nat
      BY <1>1, <1>2, <1>6
    <3> QED
      BY <1>1, <1>2, <1>3, <1>6, <3>1, ActivateAdds
  <2>2. SettledAfterResize' /\ NoOvershoot' /\ OwnerAndService'
    BY <1>1, <1>2, <1>3, <1>6, <2>1
       DEF resize_thread_pool, SettledAfterResize, NoOvershoot, OwnerAndService
  <2> QED
    BY <1>4, <2>1, <2>2
<1>7. CASE n < thr_count /\ owner' = "shrinking" /\ UNCHANGED state
  <2>1. (\A T : In(T)' = In(T)) /\ Numbered' = Numbered
    BY <1>7 DEF In, Numbered
  <2>2. In({"spawned", "looping"}) = Workers \ In({"none"})
    BY <1>3 DEF In, States
  <2>3. SettledAfterResize' /\ NoOvershoot' /\ OwnerAndService'
    BY <1>1, <1>2, <1>7, <2>1, <2>2
       DEF resize_thread_pool, SettledAfterResize, NoOvershoot, OwnerAndService, thr_count
  <2> QED
    BY <1>3, <1>4, <1>7, <2>1, <2>3
<1> QED
  BY <1>1, <1>2, <1>5, <1>6, <1>7 DEF resize_thread_pool

\* Nothing that In, Numbered and thr_count look at changes.
LEMMA SameThreads ==
  ASSUME UNCHANGED <<state, id>>
  PROVE  /\ \A T : In(T)' = In(T)
         /\ Numbered' = Numbered
         /\ thr_count' = thr_count
BY DEF In, Numbered, thr_count

\* The loop ends with no more threads than wished; none of those that stay can
\* then be missing, so none is on its way out.
LEMMA PostStep ==
  ASSUME IInv, PostAndCheck
  PROVE  IInv'
<1> USE DEF IInv, TypeOK
<1>1. /\ \A T : In(T)' = In(T)
      /\ Numbered' = Numbered /\ thr_count' = thr_count
  BY SameThreads DEF PostAndCheck
<1>2. posted' \in 0 .. MaxPosted
  BY MaxPostedAssumption DEF PostAndCheck
<1>3. SettledAfterResize'
  <2> SUFFICES ASSUME thr_count <= nWish
               PROVE  SettledAfterResize'
    BY <1>1 DEF PostAndCheck, SettledAfterResize
  <2>1. /\ IsFiniteSet(Workers \ In({"none"})) /\ thr_count \in Nat /\ nWish \in Nat
        /\ Cardinality(In({"spawned", "looping"})) \in Nat
        /\ IsFiniteSet(Numbered) /\ Cardinality(Numbered) <= thr_count
        /\ Cardinality(Workers) \in Nat
    BY FiniteParts
  <2>2. In({"spawned", "looping"}) \in SUBSET (Workers \ In({"none"}))
    BY DEF In
  <2>3. Cardinality(In({"spawned", "looping"})) <= Cardinality(Workers \ In({"none"}))
    BY <2>1, <2>2, FS_Subset
  <2>4. Cardinality(In({"spawned", "looping"})) = Cardinality(Workers \ In({"none"}))
    BY <2>1, <2>3 DEF PostAndCheck, NoOvershoot, thr_count
  <2>5. In({"spawned", "looping"}) = Workers \ In({"none"})
    BY <2>1, <2>2, <2>4, FS_Subset
  <2>6. In({"leaving", "left"}) = {}
    BY <2>5 DEF In
  <2>7. ASSUME NEW w \in In({"looping"}), id[w] > nWish
        PROVE  FALSE
    <3>1. w \in Numbered /\ id[w] \in Nat /\ ~stopped
      BY DEF Numbered, In, PostAndCheck, OwnerAndService
    <3>2. nTask >= nWish
      BY <2>1, <2>7, <3>1 DEF BelowWish
    <3>3. \A i \in 1 .. nWish : \E v \in Numbered : id[v] = i
      BY <2>1, <3>1, <3>2 DEF LowNumbersOnce
    <3>4. id[w] \notin 1 .. nWish
      BY <2>1, <2>7, <3>1
    <3>5. Cardinality(Numbered) >= nWish + 1
      BY <2>1, <3>1, <3>3, <3>4, OneMoreThan
    <3> QED
      BY <2>1, <3>5, FiniteParts
  <2>8. \A w \in In({"looping"}) : id[w] <= nWish
    BY <2>1, <2>7 DEF In
  <2> QED
    BY <1>1, <2>6, <2>8 DEF PostAndCheck, SettledAfterResize
<1>4. NoOvershoot' /\ OwnerAndService'
  BY <1>1 DEF PostAndCheck, NoOvershoot, OwnerAndService
<1> QED
  BY <1>1, <1>2, <1>3, <1>4
     DEF PostAndCheck, CountIsNumbered, LowNumbersOnce, BelowWish, LeaversAreHigh

LEMMA StopStep ==
  ASSUME IInv, Stop
  PROVE  IInv'
<1> USE DEF IInv, TypeOK
<1>1. (\A T : In(T)' = In(T)) /\ Numbered' = Numbered /\ thr_count' = thr_count
  BY SameThreads DEF Stop
<1> QED
  BY <1>1 DEF Stop, CountIsNumbered, LowNumbersOnce, BelowWish, LeaversAreHigh,
              OwnerAndService, NoOvershoot, SettledAfterResize

LEMMA FinishStopStep ==
  ASSUME IInv, FinishStop
  PROVE  IInv'
<1> USE DEF IInv, TypeOK
<1>1. (\A T : In(T)' = In(T)) /\ Numbered' = Numbered /\ thr_count' = thr_count
  BY SameThreads DEF FinishStop
<1>2. Numbered = {} /\ In({"leaving"}) = {} /\ nTask = 0
  BY FS_EmptySet DEF FinishStop, In, Numbered, CountIsNumbered
<1>3. posted' \in 0 .. MaxPosted /\ nWish \in Nat
  BY MaxPostedAssumption, WorkersCount DEF FinishStop
<1>4. TypeOK' /\ CountIsNumbered'
  BY <1>1, <1>3 DEF FinishStop, CountIsNumbered
<1>5. LowNumbersOnce' /\ BelowWish' /\ LeaversAreHigh' /\ (\A w \in Numbered : id[w] >= 1)'
  BY <1>1, <1>2, <1>3 DEF FinishStop, LowNumbersOnce, BelowWish, LeaversAreHigh
<1>6. OwnerAndService' /\ NoOvershoot' /\ SettledAfterResize'
  BY <1>1 DEF FinishStop, OwnerAndService, NoOvershoot, SettledAfterResize
<1> QED
  BY <1>4, <1>5, <1>6

-----------------------------------------------------------------------------
(* The steps of a thread *)

\* A thread that numbers itself takes the first number not in use, as far as
\* the wish goes.
LEMMA EnterStep ==
  ASSUME IInv, NEW w \in Workers, Enter(w)
  PROVE  IInv'
<1> USE DEF IInv, TypeOK
<1>1. state[w] = "spawned" /\ w \notin Numbered
  BY DEF Enter, Numbered, In
<1>2. /\ Numbered' = Numbered \cup {w}
      /\ In({"leaving"})' = In({"leaving"})
      /\ In({"leaving", "left"})' = In({"leaving", "left"})
      /\ In({"looping"})' = In({"looping"}) \cup {w}
      /\ In({"spawned", "looping"})' = In({"spawned", "looping"})
      /\ In({"none"})' = In({"none"})
      /\ w \notin In({"none"}) /\ w \notin In({"leaving"})
  BY DEF Enter, Numbered, In
<1>3. state' \in [Workers -> States] /\ id' \in [Workers -> Nat] /\ nTask' \in Nat
  BY DEF Enter, States
<1>4. id'[w] = nTask + 1 /\ \A v \in Workers : v # w => id'[v] = id[v]
  BY DEF Enter
<1>5. IsFiniteSet(Numbered)
  BY FiniteParts
<1>6. CountIsNumbered'
  BY <1>1, <1>2, <1>5, FS_AddElement DEF Enter, CountIsNumbered
<1>7. thr_count' = thr_count
  BY <1>2 DEF thr_count
<1>8. \A v \in Numbered : v \in Workers /\ v # w /\ id[v] \in Nat
  BY <1>1 DEF Numbered, In
<1>9. nWish \in Nat /\ nWish' = nWish /\ stopped' = stopped /\ owner' = owner
  BY WorkersCount DEF Enter
<1>10. LowNumbersOnce'
  <2> SUFFICES ASSUME ~stopped PROVE LowNumbersOnce'
    BY <1>9 DEF LowNumbersOnce
  <2>1. ASSUME NEW v \in Numbered, id[v] = nTask + 1
        PROVE  nTask + 1 > nWish
    BY <1>8, <1>9, <2>1 DEF BelowWish
  <2>2. (\A u, v \in Numbered : u # v /\ id[u] = id[v] => id[u] > nWish)'
    BY <1>2, <1>4, <1>8, <1>9, <2>1 DEF LowNumbersOnce
  <2>3. (\A i \in 1 .. nWish : i <= nTask => \E v \in Numbered : id[v] = i)'
    <3> SUFFICES ASSUME NEW i \in 1 .. nWish, i <= nTask + 1
                 PROVE  \E v \in Numbered' : id'[v] = i
      BY <1>9 DEF Enter
    <3>1. CASE i = nTask + 1
      BY <1>2, <1>4, <3>1
    <3>2. CASE i # nTask + 1
      <4>1. i <= nTask
        BY <1>9, <3>2
      <4>2. PICK v \in Numbered : id[v] = i
        BY <4>1 DEF LowNumbersOnce
      <4> QED
        BY <1>2, <1>4, <1>8, <4>2
    <3> QED
      BY <3>1, <3>2
  <2> QED
    BY <2>2, <2>3 DEF LowNumbersOnce
<1>11. BelowWish'
  BY <1>2, <1>4, <1>8, <1>9 DEF Enter, BelowWish
<1>12. LeaversAreHigh'
  BY <1>2, <1>4, <1>9 DEF LeaversAreHigh, In
<1>13. OwnerAndService' /\ NoOvershoot'
  BY <1>1, <1>2, <1>9 DEF OwnerAndService, NoOvershoot, In
<1>14. SettledAfterResize'
  <2> SUFFICES ASSUME owner = "up" PROVE SettledAfterResize'
    BY <1>9 DEF SettledAfterResize
  <2>1. Numbered' \in SUBSET (Workers \ In({"none"}))
    BY <1>2 DEF Numbered, In
  <2>2. Cardinality(Numbered') <= thr_count
    BY <2>1, FiniteParts, FS_Subset DEF thr_count
  <2>3. nTask + 1 <= nWish
    BY <1>6, <1>9, <2>2, FiniteParts DEF CountIsNumbered, SettledAfterResize, Enter
  <2>4. \A v \in In({"looping"}) : v # w /\ v \in Workers
    BY <1>1 DEF In
  <2> QED
    BY <1>2, <1>4, <1>7, <1>9, <2>3, <2>4 DEF SettledAfterResize
<1>15. (\A v \in Numbered : id[v] >= 1)'
  BY <1>2, <1>4, <1>8
<1>16. TypeOK'
  BY <1>3, <1>9 DEF Enter
<1> QED
  BY <1>6, <1>10, <1>11, <1>12, <1>13, <1>14, <1>15, <1>16

\* While the io_service runs only a thread above the wish leaves, and then all
\* the numbers up to the wish are held by threads that stay.
LEMMA RunOneStep ==
  ASSUME IInv, NEW w \in Workers, RunOne(w)
  PROVE  IInv'
<1> USE DEF IInv, TypeOK
<1>1. posted' \in 0 .. MaxPosted
  BY MaxPostedAssumption DEF RunOne
<1>2. CASE ~TooMany(w)
  <2>1. (\A T : In(T)' = In(T)) /\ Numbered' = Numbered /\ thr_count' = thr_count
    BY <1>2, SameThreads DEF RunOne
  <2> QED
    BY <1>1, <1>2, <2>1
       DEF RunOne, CountIsNumbered, LowNumbersOnce, BelowWish, LeaversAreHigh,
           OwnerAndService, NoOvershoot, SettledAfterResize
<1>3. CASE TooMany(w)
  <2>1. state' = [state EXCEPT ![w] = "leaving"] /\ state[w] = "looping" /\ ~stopped
    BY <1>3 DEF RunOne
  <2>2. /\ Numbered' = Numbered
        /\ In({"leaving"})' = In({"leaving"}) \cup {w}
        /\ In({"spawned", "looping"})' = In({"spawned", "looping"}) \ {w}
        /\ In({"none"})' = In({"none"})
        /\ w \in In({"spawned", "looping"}) /\ w \in In({"looping"}) /\ w \in Numbered
        /\ state' \in [Workers -> States]
    BY <2>1 DEF Numbered, In, States
  <2>3. id[w] > nWish /\ id' = id /\ nWish' = nWish /\ nWish \in Nat /\ id[w] \in Nat
    BY <1>3, WorkersCount DEF RunOne, TooMany
  <2>4. nTask >= nWish
    BY <2>1, <2>2, <2>3 DEF BelowWish
  <2>5. \A i \in 1 .. nWish : \E v \in In({"spawned", "looping"}) : id[v] = i
    <3> SUFFICES ASSUME NEW i \in 1 .. nWish
                 PROVE  \E v \in In({"spawned", "looping"}) : id[v] = i
      OBVIOUS
    <3>1. PICK v \in Numbered : id[v] = i
      BY <2>1, <2>3, <2>4 DEF LowNumbersOnce
    <3>2. v \notin In({"leaving"})
      BY <2>1, <2>3, <3>1 DEF LeaversAreHigh
    <3>3. v \in In({"spawned", "looping"})
      BY <3>2 DEF Numbered, In
    <3> QED
      BY <3>1, <3>3
  <2>6. Cardinality(In({"spawned", "looping"})) >= nWish + 1
    <3>1. id[w] \notin 1 .. nWish
      BY <2>3
    <3>2. IsFiniteSet(In({"spawned", "looping"}))
      BY FiniteParts
    <3> QED
      BY <2>2, <2>3, <2>5, <3>1, <3>2, OneMoreThan
  <2>7. NoOvershoot'
    <3>1. IsFiniteSet(In({"spawned", "looping"}))
            /\ Cardinality(In({"spawned", "looping"})) \in Nat
      BY FiniteParts
    <3>2. Cardinality(In({"spawned", "looping"}) \ {w})
            = Cardinality(In({"spawned", "looping"})) - 1
      BY <2>2, <3>1, FS_RemoveElement
    <3>3. Cardinality(In({"spawned", "looping"}) \ {w}) >= nWish
      BY <2>3, <2>6, <3>1, <3>2
    <3>4. Cardinality(In({"spawned", "looping"}))' >= nWish'
      BY <2>2, <2>3, <3>3
    <3> QED
      BY <3>4 DEF NoOvershoot
  <2>8. SettledAfterResize'
    BY <2>2, <2>3 DEF RunOne, SettledAfterResize
  <2>9. LeaversAreHigh'
    BY <2>2, <2>3 DEF RunOne, LeaversAreHigh
  <2>10. OwnerAndService'
    BY <2>1, <2>2 DEF RunOne, OwnerAndService, In
  <2> QED
    BY <1>1, <2>2, <2>3, <2>7, <2>8, <2>9, <2>10
       DEF RunOne, CountIsNumbered, LowNumbersOnce, BelowWish
<1> QED
  BY <1>2, <1>3

LEMMA QuitStep ==
  ASSUME IInv, NEW w \in Workers, Quit(w)
  PROVE  IInv'
<1> USE DEF IInv, TypeOK
<1>1. /\ Numbered' = Numbered /\ state' \in [Workers -> States]
      /\ owner = "stopping" /\ stopped
  BY DEF Quit, Numbered, In, States, OwnerAndService
<1> QED
  BY <1>1 DEF Quit, CountIsNumbered, LowNumbersOnce, BelowWish, LeaversAreHigh,
              OwnerAndService, NoOvershoot, SettledAfterResize

\* Giving a number back lowers the count below the wish only if nobody else
\* holds a higher one.
LEMMA LeaveStep ==
  ASSUME IInv, NEW w \in Workers, Leave(w)
  PROVE  IInv'
<1> USE DEF IInv, TypeOK
<1>1. /\ Numbered' = Numbered \ {w} /\ w \in Numbered
      /\ In({"leaving"})' = In({"leaving"}) \ {w} /\ w \in In({"leaving"})
      /\ In({"spawned", "looping"})' = In({"spawned", "looping"})
      /\ In({"none"})' = In({"none"}) /\ w \notin In({"none"})
      /\ w \in In({"leaving", "left"})
      /\ state' \in [Workers -> States]
  BY DEF Leave, Numbered, In, States
<1>2. IsFiniteSet(Numbered) /\ Cardinality(Numbered) \in Nat
  BY FiniteParts
<1>3. Cardinality(Numbered') = nTask - 1 /\ nTask >= 1
  <2>1. Cardinality(Numbered') = Cardinality(Numbered) - 1
    BY <1>1, <1>2, FS_RemoveElement
  <2>2. Cardinality(Numbered) # 0
    BY <1>1, <1>2, FS_EmptySet
  <2> QED
    BY <1>2, <2>1, <2>2 DEF CountIsNumbered
<1>4. /\ CountIsNumbered' /\ nTask' \in Nat /\ nTask' = nTask - 1
      /\ id' = id /\ nWish' = nWish /\ nWish \in Nat
      /\ stopped' = stopped /\ owner' = owner
  BY <1>3, WorkersCount DEF Leave, CountIsNumbered
<1>5. \A v \in Numbered : id[v] \in Nat
  BY DEF Numbered, In
<1>6. LowNumbersOnce' /\ BelowWish'
  <2> SUFFICES ASSUME ~stopped PROVE LowNumbersOnce' /\ BelowWish'
    BY <1>4 DEF LowNumbersOnce, BelowWish
  <2>1. id[w] > nWish /\ id[w] \in Nat
    BY <1>1, <1>5 DEF LeaversAreHigh
  <2>2. nTask >= nWish
    BY <1>1, <1>4, <2>1 DEF BelowWish
  <2>3. Cardinality(Numbered) >= nWish + 1
    <3>1. \A i \in 1 .. nWish : \E v \in Numbered : id[v] = i
      BY <1>4, <2>2 DEF LowNumbersOnce
    <3>2. id[w] \notin 1 .. nWish
      BY <1>4, <2>1
    <3> QED
      BY <1>1, <1>2, <1>4, <3>1, <3>2, OneMoreThan
  <2>4. ~(nTask' < nWish)
    BY <1>4, <2>3 DEF CountIsNumbered
  <2>5. (\A u, v \in Numbered : u # v /\ id[u] = id[v] => id[u] > nWish)'
    BY <1>1, <1>4 DEF LowNumbersOnce
  <2>6. (\A i \in 1 .. nWish : i <= nTask => \E v \in Numbered : id[v] = i)'
    <3> SUFFICES ASSUME NEW i \in 1 .. nWish
                 PROVE  \E v \in Numbered' : id[v] = i
      BY <1>4
    <3>1. PICK v \in Numbered : id[v] = i
      BY <1>4, <2>2 DEF LowNumbersOnce
    <3> QED
      BY <1>1, <1>4, <2>1, <3>1
  <2> QED
    BY <1>4, <2>4, <2>5, <2>6 DEF LowNumbersOnce, BelowWish
<1>7. LeaversAreHigh'
  BY <1>1, <1>4 DEF LeaversAreHigh
<1>8. OwnerAndService' /\ NoOvershoot' /\ SettledAfterResize'
  BY <1>1, <1>4 DEF OwnerAndService, NoOvershoot, SettledAfterResize
<1>9. (\A v \in Numbered : id[v] >= 1)' /\ TypeOK'
  BY <1>1, <1>4 DEF Leave
<1> QED
  BY <1>4, <1>6, <1>7, <1>8, <1>9

LEMMA GoneStep ==
  ASSUME IInv, NEW w \in Workers, Gone(w)
  PROVE  IInv'
<1> USE DEF IInv, TypeOK
<1>1. /\ Numbered' = Numbered
      /\ In({"leaving"})' = In({"leaving"})
      /\ In({"spawned", "looping"})' = In({"spawned", "looping"})
      /\ state' \in [Workers -> States]
      /\ w \in In({"leaving", "left"}) /\ w \notin In({"none"})
  BY DEF Gone, Numbered, In, States
<1>2. OwnerAndService' /\ SettledAfterResize'
  BY <1>1 DEF Gone, OwnerAndService, SettledAfterResize
<1> QED
  BY <1>1, <1>2 DEF Gone, CountIsNumbered, LowNumbersOnce, BelowWish, LeaversAreHigh, NoOvershoot

-----------------------------------------------------------------------------
(* The theorems *)

LEMMA StutterStep ==
  ASSUME IInv, UNCHANGED vars
  PROVE  IInv'
<1> USE DEF IInv, TypeOK
<1>1. (\A T : In(T)' = In(T)) /\ Numbered' = Numbered /\ thr_count' = thr_count
  BY SameThreads DEF vars
<1> QED
  BY <1>1 DEF vars, CountIsNumbered, LowNumbersOnce, BelowWish, LeaversAreHigh,
              OwnerAndService, NoOvershoot, SettledAfterResize

\* The invariant holds for any number of threads and any sequence of start(),
\* resize_thread_pool() and stop() calls, however the threads are scheduled.
THEOREM Invariance == Spec => []IInv
<1>1. IInv /\ [Next]_vars => IInv'
  <2> SUFFICES ASSUME IInv, [Next]_vars PROVE IInv'
    OBVIOUS
  <2>1. CASE \E n \in Wishes : Start(n) \/ resize_thread_pool(n)
    BY <2>1, StartStep, ResizeStep
  <2>2. CASE PostAndCheck \/ Stop \/ FinishStop
    BY <2>2, PostStep, StopStep, FinishStopStep
  <2>3. CASE \E w \in Workers : Worker(w)
    BY <2>3, EnterStep, RunOneStep, QuitStep, LeaveStep, GoneStep DEF Worker
  <2>4. CASE UNCHANGED vars
    BY <2>4, StutterStep
  <2> QED
    BY <2>1, <2>2, <2>3, <2>4 DEF Next
<1> QED
  BY <1>1, InitIInv, PTL DEF Spec

\* The numbers up to n_wish_task_ are held by one thread each (svc()).
THEOREM LowNumbers == Spec => []LowNumbersOnce
<1>1. IInv => LowNumbersOnce
  BY DEF IInv
<1> QED
  BY <1>1, Invariance, PTL

\* resize_thread_pool() does not lose a thread it was to keep.
THEOREM Shrinking == Spec => []NoOvershoot
<1>1. IInv => NoOvershoot
  BY DEF IInv
<1> QED
  BY <1>1, Invariance, PTL

\* When start() or resize_thread_pool() has returned, every thread there is
\* stays: none is leaving, none will.
THEOREM Settled == Spec => []SettledAfterResize
<1>1. IInv => SettledAfterResize
  BY DEF IInv
<1> QED
  BY <1>1, Invariance, PTL

\* A server that is down has no thread and counts none.
THEOREM Restored == Spec => []CountRestored
<1>1. IInv => CountRestored
  <2> SUFFICES ASSUME IInv, owner = "down" PROVE nTask = 0
    BY DEF CountRestored
  <2>1. Numbered = {}
    BY DEF IInv, OwnerAndService, Numbered, In
  <2> QED
    BY <2>1, FS_EmptySet DEF IInv, CountIsNumbered
<1> QED
  BY <1>1, Invariance, PTL
=============================================================================
