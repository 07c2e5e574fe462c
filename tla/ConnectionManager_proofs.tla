----------------------- MODULE ConnectionManager_proofs -----------------------
(***************************************************************************)
(* Safety of ConnectionManager for every set of goroutines and connections *)
(* and every limit: IInv is inductive, the three counter properties follow *)
(* from it, and under it every step is a step of ConnectionSet or a        *)
(* stutter.                                                                *)
(***************************************************************************)
EXTENDS ConnectionManager, FiniteSetTheorems, TLAPS

LEMMA InitIInv == Init => IInv
<1> SUFFICES ASSUME Init PROVE IInv
    OBVIOUS
<1>1. TypeOK /\ MutexOK
  BY NoThreadAssumption DEF Init, TypeOK, MutexOK, Labels, WriteLabels
<1>2. IsFiniteSet(connections) /\ Cardinality(connections) = 0
  BY FS_EmptySet DEF Init
<1>3. CountOK
  BY <1>2 DEF Init, CountOK
<1>4. StoreOK
  BY <1>2, MaxConnsAssumption DEF Init, StoreOK, LimitHolds
<1> QED BY <1>1, <1>3, <1>4 DEF IInv

LEMMA StepTypeOK == IInv /\ [Next]_vars => TypeOK'
<1> SUFFICES ASSUME IInv, [Next]_vars PROVE TypeOK'
    OBVIOUS
<1> USE DEF IInv, TypeOK, Labels, At, Goto, data, lock
<1>1. ASSUME NEW t \in Threads, Add(t) PROVE TypeOK'
  BY <1>1 DEF Add, AddLock, Lock, AddCheck, AddStore, AddIncrement, StoreOK
<1>2. ASSUME NEW t \in Threads, Remove(t) PROVE TypeOK'
  BY <1>2 DEF Remove, RemoveLock, Lock, RemoveDelete, RemoveDecrement
<1>3. ASSUME NEW t \in Threads, Unlock(t) PROVE TypeOK'
  BY <1>3 DEF Unlock
<1>4. ASSUME NEW t \in Threads, GetActiveConnections(t) PROVE TypeOK'
  BY <1>4 DEF GetActiveConnections, ReadLock, Load, ReadUnlock
<1>5. CASE UNCHANGED vars
  BY <1>5 DEF vars
<1> QED BY <1>1, <1>2, <1>3, <1>4, <1>5 DEF Next

\* The write lock is held by at most one goroutine and never with readers.
LEMMA StepMutexOK == IInv /\ [Next]_vars => MutexOK'
<1> SUFFICES ASSUME IInv, [Next]_vars PROVE MutexOK'
    OBVIOUS
<1> USE NoThreadAssumption DEF IInv, TypeOK, MutexOK, WriteLabels, At, Goto, data, lock
<1>1. ASSUME NEW t \in Threads, Add(t) PROVE MutexOK'
  BY <1>1 DEF Add, AddLock, Lock, AddCheck, AddStore, AddIncrement
<1>2. ASSUME NEW t \in Threads, Remove(t) PROVE MutexOK'
  BY <1>2 DEF Remove, RemoveLock, Lock, RemoveDelete, RemoveDecrement
<1>3. ASSUME NEW t \in Threads, Unlock(t) PROVE MutexOK'
  BY <1>3 DEF Unlock
<1>4. ASSUME NEW t \in Threads, GetActiveConnections(t) PROVE MutexOK'
  BY <1>4 DEF GetActiveConnections, ReadLock, Load, ReadUnlock
<1>5. CASE UNCHANGED vars
  BY <1>5 DEF vars
<1> QED BY <1>1, <1>2, <1>3, <1>4, <1>5 DEF Next

\* Storing a new connection adds one to the number of connections, deleting
\* one that is there takes one away.
LEMMA CardinalityChange ==
  ASSUME NEW A, IsFiniteSet(A), NEW x
  PROVE  /\ Cardinality(A) \in Nat
         /\ IsFiniteSet(A \union {x}) /\ IsFiniteSet(A \ {x})
         /\ x \notin A => Cardinality(A \union {x}) = Cardinality(A) + 1
         /\ x \in A => Cardinality(A \ {x}) = Cardinality(A) - 1
         /\ x \notin A => A \ {x} = A
<1>1. Cardinality(A) \in Nat
  BY FS_CardinalityType
<1>2. /\ IsFiniteSet(A \union {x})
      /\ Cardinality(A \union {x}) = IF x \in A THEN Cardinality(A)
                                                ELSE Cardinality(A) + 1
  BY FS_AddElement
<1>3. /\ IsFiniteSet(A \ {x})
      /\ Cardinality(A \ {x}) = IF x \in A THEN Cardinality(A) - 1
                                           ELSE Cardinality(A)
  BY FS_RemoveElement
<1>4. x \notin A => A \ {x} = A
  OBVIOUS
<1> QED BY <1>1, <1>2, <1>3, <1>4

LEMMA StepCountOK == IInv /\ [Next]_vars => CountOK'
<1> SUFFICES ASSUME IInv, [Next]_vars PROVE CountOK'
    OBVIOUS
<1> USE NoThreadAssumption
    DEF IInv, TypeOK, MutexOK, CountOK, WriteLabels, Labels, At, Goto, data, lock
<1>0. Cardinality(connections) \in Nat
  BY FS_CardinalityType
<1>1. ASSUME NEW t \in Threads, Add(t) PROVE CountOK'
  <2>1. CASE \E c \in Conns : AddLock(t, c)
    BY <2>1 DEF AddLock, Lock
  <2>2. CASE AddCheck(t)
    BY <2>2 DEF AddCheck
  <2>3. CASE AddStore(t)
    <3>1. arg[t] \notin connections
      BY <2>3 DEF AddStore, StoreOK
    <3>2. /\ IsFiniteSet(connections')
          /\ Cardinality(connections') = Cardinality(connections) + 1
      BY <2>3, <3>1, CardinalityChange DEF AddStore
    <3>3. /\ activeConns' = Cardinality(connections)
          /\ writer' = t /\ pc'[t] = "increment"
      BY <2>3 DEF AddStore
    <3>4. \A u \in Threads \ {t} : pc'[u] \notin WriteLabels
      BY <2>3 DEF AddStore
    <3> HIDE DEF TypeOK, MutexOK
    <3> QED BY <1>0, <3>2, <3>3, <3>4
  <2>4. CASE AddIncrement(t)
    BY <1>0, <2>4 DEF AddIncrement
  <2> QED BY <1>1, <2>1, <2>2, <2>3, <2>4 DEF Add
<1>2. ASSUME NEW t \in Threads, Remove(t) PROVE CountOK'
  <2>1. CASE \E c \in Conns : RemoveLock(t, c)
    BY <2>1 DEF RemoveLock, Lock
  <2>2. CASE RemoveDelete(t)
    <3>1. CASE arg[t] \in connections
      <4>1. /\ IsFiniteSet(connections')
            /\ Cardinality(connections') = Cardinality(connections) - 1
        BY <2>2, <3>1, CardinalityChange DEF RemoveDelete
      <4>2. /\ activeConns' = Cardinality(connections)
            /\ writer' = t /\ pc'[t] = "decrement"
        BY <2>2, <3>1 DEF RemoveDelete
      <4>3. \A u \in Threads \ {t} : pc'[u] \notin WriteLabels
        BY <2>2 DEF RemoveDelete
      <4> HIDE DEF TypeOK, MutexOK
      <4> QED BY <1>0, <4>1, <4>2, <4>3
    <3>2. CASE arg[t] \notin connections
      <4>1. connections' = connections
        BY <2>2, <3>2 DEF RemoveDelete
      <4> QED BY <2>2, <3>2, <4>1 DEF RemoveDelete
    <3> QED BY <3>1, <3>2
  <2>3. CASE RemoveDecrement(t)
    BY <1>0, <2>3 DEF RemoveDecrement
  <2> QED BY <1>2, <2>1, <2>2, <2>3 DEF Remove
<1>3. ASSUME NEW t \in Threads, Unlock(t) PROVE CountOK'
  BY <1>3 DEF Unlock
<1>4. ASSUME NEW t \in Threads, GetActiveConnections(t) PROVE CountOK'
  BY <1>4 DEF GetActiveConnections, ReadLock, Load, ReadUnlock
<1>5. CASE UNCHANGED vars
  BY <1>5 DEF vars
<1> QED BY <1>1, <1>2, <1>3, <1>4, <1>5 DEF Next

LEMMA StepStoreOK == IInv /\ [Next]_vars => StoreOK'
<1> SUFFICES ASSUME IInv, [Next]_vars PROVE StoreOK'
    OBVIOUS
<1> USE NoThreadAssumption, MaxConnsAssumption
    DEF IInv, TypeOK, MutexOK, StoreOK, LimitHolds, WriteLabels, Labels, At,
        Goto, data, lock
<1>0. IsFiniteSet(connections) /\ Cardinality(connections) \in Nat
  BY FS_CardinalityType DEF CountOK
<1>1. ASSUME NEW t \in Threads, Add(t) PROVE StoreOK'
  <2>1. CASE \E c \in Conns : AddLock(t, c)
    BY <2>1 DEF AddLock, Lock
  <2>2. CASE AddCheck(t)
    BY <2>2 DEF AddCheck
  <2>3. CASE AddStore(t)
    <3>1. Cardinality(connections) < MaxConns /\ arg[t] \notin connections
      BY <2>3 DEF AddStore, CountOK
    <3>2. Cardinality(connections') <= MaxConns
      <4>1. connections' = connections \union {arg[t]}
        BY <2>3 DEF AddStore
      <4>2. MaxConns \in Nat
        OBVIOUS
      <4> HIDE DEF IInv
      <4>3. Cardinality(connections') = Cardinality(connections) + 1
        BY <1>0, <3>1, <4>1, CardinalityChange
      <4> QED BY <1>0, <3>1, <4>2, <4>3
    <3> QED BY <2>3, <3>2 DEF AddStore
  <2>4. CASE AddIncrement(t)
    BY <2>4 DEF AddIncrement
  <2> QED BY <1>1, <2>1, <2>2, <2>3, <2>4 DEF Add
<1>2. ASSUME NEW t \in Threads, Remove(t) PROVE StoreOK'
  <2>1. CASE \E c \in Conns : RemoveLock(t, c)
    BY <2>1 DEF RemoveLock, Lock
  <2>2. CASE RemoveDelete(t)
    <3>1. Cardinality(connections') <= MaxConns
      <4>1. connections' = connections \ {arg[t]}
        BY <2>2 DEF RemoveDelete
      <4>2. Cardinality(connections) <= MaxConns
        OBVIOUS
      <4>3. \/ connections' = connections
            \/ Cardinality(connections') = Cardinality(connections) - 1
        BY <1>0, <4>1, CardinalityChange, Zenon
      <4> HIDE DEF IInv
      <4> QED BY <1>0, <4>2, <4>3
    <3> QED BY <2>2, <3>1 DEF RemoveDelete
  <2>3. CASE RemoveDecrement(t)
    BY <2>3 DEF RemoveDecrement
  <2> QED BY <1>2, <2>1, <2>2, <2>3 DEF Remove
<1>3. ASSUME NEW t \in Threads, Unlock(t) PROVE StoreOK'
  BY <1>3 DEF Unlock
<1>4. ASSUME NEW t \in Threads, GetActiveConnections(t) PROVE StoreOK'
  BY <1>4 DEF GetActiveConnections, ReadLock, Load, ReadUnlock
<1>5. CASE UNCHANGED vars
  BY <1>5 DEF vars
<1> QED BY <1>1, <1>2, <1>3, <1>4, <1>5 DEF Next

\* Type, mutual exclusion, counter and store invariants hold together.
THEOREM Inductive == Spec => []IInv
<1>1. IInv /\ [Next]_vars => IInv'
  BY StepTypeOK, StepMutexOK, StepCountOK, StepStoreOK DEF IInv
<1> QED BY InitIInv, <1>1, PTL DEF Spec

\* GetActiveConnections never returns a count of a half-done Add or Remove.
THEOREM ExactCount == Spec => []ReaderSeesExactCount
<1>1. IInv => ReaderSeesExactCount
  BY NoThreadAssumption
     DEF IInv, TypeOK, MutexOK, CountOK, ReaderSeesExactCount, WriteLabels
<1> QED BY <1>1, Inductive, PTL

\* The lock-free count of GetConnectionStats is off by at most one.
THEOREM StatsBound == Spec => []StatsOffByAtMostOne
<1>1. IInv => StatsOffByAtMostOne
  <2> SUFFICES ASSUME IInv PROVE StatsOffByAtMostOne
      OBVIOUS
  <2>1. Cardinality(connections) \in Nat
    BY FS_CardinalityType DEF IInv, CountOK
  <2>2. CASE writer = NoThread
    BY <2>1, <2>2 DEF IInv, CountOK, StatsOffByAtMostOne
  <2>3. CASE writer # NoThread
    <3>1. writer \in Threads /\ pc[writer] \in WriteLabels
      BY <2>3 DEF IInv, TypeOK, MutexOK
    <3>2. activeConns - Cardinality(connections) \in {-1, 0, 1}
      BY <2>1, <3>1 DEF IInv, TypeOK, CountOK, WriteLabels
    <3> QED BY <2>3, <3>2 DEF StatsOffByAtMostOne
  <2> QED BY <2>2, <2>3
<1> QED BY <1>1, Inductive, PTL

\* At most maxConns connections are registered, at every step of Add.
THEOREM NeverOverLimit == Spec => []LimitHolds
<1>1. IInv => LimitHolds
  BY DEF IInv, StoreOK
<1> QED BY <1>1, Inductive, PTL

-----------------------------------------------------------------------------
\* Add takes effect at its Store, Remove at its LoadAndDelete; every other
\* step leaves the registered connections alone.
LEMMA StepRefines ==
  IInv /\ [Next]_vars => [S!Next]_<<connections, accepted \ connections>>
<1> SUFFICES ASSUME IInv, Next
             PROVE  S!Next \/ UNCHANGED <<connections, accepted \ connections>>
    BY DEF vars, data
<1> USE DEF At, Goto, data, lock
<1>1. ASSUME NEW t \in Threads, Add(t)
      PROVE  S!Next \/ UNCHANGED <<connections, accepted \ connections>>
  <2>1. CASE AddStore(t)
    <3>1. arg[t] \in Conns /\ arg[t] \notin accepted /\ connections \subseteq accepted
      BY <2>1 DEF AddStore, IInv, TypeOK, StoreOK
    <3>2. ~S!Full
      <4>1. activeConns = Cardinality(connections) /\ activeConns < MaxConns
        BY <2>1 DEF AddStore, IInv, CountOK, StoreOK
      <4>2. Cardinality(connections) \in Nat
        BY FS_CardinalityType DEF IInv, CountOK
      <4>3. S!Cardinality(connections) = Cardinality(connections)
        BY DEF S!Cardinality, Cardinality
      <4> QED BY <4>1, <4>2, <4>3, MaxConnsAssumption DEF S!Full
    <3>3. S!Register(arg[t])
      BY <2>1, <3>1, <3>2 DEF AddStore, S!Register
    <3> QED BY <3>1, <3>3 DEF S!Next
  <2> QED BY <1>1, <2>1 DEF Add, AddLock, Lock, AddCheck, AddIncrement
<1>2. ASSUME NEW t \in Threads, Remove(t)
      PROVE  S!Next \/ UNCHANGED <<connections, accepted \ connections>>
  <2>1. CASE RemoveDelete(t)
    <3>1. arg[t] \in Conns /\ connections \subseteq accepted
      BY <2>1 DEF IInv, TypeOK, StoreOK
    <3>2. S!Deregister(arg[t])
      BY <2>1, <3>1 DEF RemoveDelete, S!Deregister
    <3> QED BY <3>1, <3>2 DEF S!Next
  <2> QED BY <1>2, <2>1 DEF Remove, RemoveLock, Lock, RemoveDecrement
<1> QED BY <1>1, <1>2 DEF Next, Unlock, GetActiveConnections, ReadLock, Load,
                          ReadUnlock

\* The manager implements ConnectionSet, so the modules above it may treat Add
\* and Remove as atomic.
THEOREM Refinement == Spec => ImplementsConnectionSet
<1>1. Init => S!Init
  BY DEF Init, S!Init
<1> QED BY <1>1, StepRefines, Inductive, PTL DEF Spec, ImplementsConnectionSet, S!Spec
=============================================================================
