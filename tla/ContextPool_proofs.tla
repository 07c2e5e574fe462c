-------------------------- MODULE ContextPool_proofs --------------------------
(***************************************************************************)
(* The accounting of pooled instances and the isolation of requests before *)
(* the first timeout, for any number of requests and instances.            *)
(***************************************************************************)
EXTENDS ContextPool, FiniteSetTheorems, TLAPS

LEMMA StepTypeOK == IInv /\ [Next]_vars => TypeOK'
<1> SUFFICES ASSUME IInv, [Next]_vars PROVE TypeOK'
    OBVIOUS
<1> USE NoneAssumption DEF IInv, TypeOK, LeaseOK, FieldsOK, MonitorStep, Lease, fields
<1>1. ASSUME NEW q \in Requests, Get(q) PROVE TypeOK'
  BY <1>1 DEF Get, GetPooled, GetNew
<1>2. ASSUME NEW q \in Requests, Handler(q) PROVE TypeOK'
  <2>1. CASE Initialize(q)
    BY <2>1 DEF Initialize
  <2>2. CASE AbortWithError(q)
    BY <2>2 DEF AbortWithError
  <2>3. CASE Return(q)
    BY <2>3 DEF Return
  <2> QED BY <1>2, <2>1, <2>2, <2>3 DEF Handler
<1>3. ASSUME NEW q \in Requests, Expire(q) PROVE TypeOK'
  BY <1>3 DEF Expire
<1>4. ASSUME NEW q \in Requests, Monitor(q) PROVE TypeOK'
  <2>1. CASE Wake(q)
    BY <2>1 DEF Wake
  <2>2. CASE CancelContext(q)
    BY <2>2 DEF CancelContext
  <2>3. CASE CheckDone(q)
    BY <2>3 DEF CheckDone
  <2>4. CASE CloseDone(q)
    BY <2>4 DEF CloseDone
  <2>5. CASE Reset(q)
    BY <2>5 DEF Reset
  <2>6. CASE Put(q)
    BY <2>6 DEF Put
  <2>7. CASE PutAgain(q)
    BY <2>7 DEF PutAgain
  <2> QED BY <1>4, <2>1, <2>2, <2>3, <2>4, <2>5, <2>6, <2>7 DEF Monitor, Cleanup
<1>5. ASSUME NEW o \in Instances, Drop(o) PROVE TypeOK'
  BY <1>5 DEF Drop
<1>6. CASE UNCHANGED vars
  BY <1>6 DEF vars
<1> QED BY <1>1, <1>2, <1>3, <1>4, <1>5, <1>6 DEF Next

LEMMA StepMadeOK == IInv /\ [Next]_vars => MadeOK' /\ LeaseOK'
<1> SUFFICES ASSUME IInv, [Next]_vars PROVE MadeOK' /\ LeaseOK'
    OBVIOUS
<1> USE NoneAssumption
    DEF IInv, TypeOK, MadeOK, LeaseOK, MonitorStep, Lease, fields
<1>1. ASSUME NEW q \in Requests, Get(q) PROVE MadeOK' /\ LeaseOK'
  BY <1>1 DEF Get, GetPooled, GetNew
<1>2. ASSUME NEW q \in Requests, Handler(q) PROVE MadeOK' /\ LeaseOK'
  BY <1>2 DEF Handler, Initialize, AbortWithError, Return
<1>3. ASSUME NEW q \in Requests, Expire(q) PROVE MadeOK' /\ LeaseOK'
  BY <1>3 DEF Expire
<1>4. ASSUME NEW q \in Requests, Monitor(q) PROVE MadeOK' /\ LeaseOK'
  BY <1>4 DEF Monitor, Wake, Cleanup, CancelContext, CheckDone, CloseDone, Reset,
              Put, PutAgain
<1>5. ASSUME NEW o \in Instances, Drop(o) PROVE MadeOK' /\ LeaseOK'
  BY <1>5 DEF Drop
<1>6. CASE UNCHANGED vars
  BY <1>6 DEF vars
<1> QED BY <1>1, <1>2, <1>3, <1>4, <1>5, <1>6 DEF Next

LEMMA StepFieldsOK == IInv /\ [Next]_vars => FieldsOK'
<1> SUFFICES ASSUME IInv, [Next]_vars PROVE FieldsOK'
    OBVIOUS
<1> USE NoneAssumption
    DEF IInv, TypeOK, LeaseOK, FieldsOK, MonitorStep, Lease, fields
<1>1. ASSUME NEW q \in Requests, Get(q) PROVE FieldsOK'
  BY <1>1 DEF Get, GetPooled, GetNew
<1>2. ASSUME NEW q \in Requests, Handler(q) PROVE FieldsOK'
  <2>1. CASE Initialize(q)
    BY <2>1 DEF Initialize
  <2>2. CASE AbortWithError(q)
    BY <2>2 DEF AbortWithError
  <2>3. CASE Return(q)
    BY <2>3 DEF Return
  <2> QED BY <1>2, <2>1, <2>2, <2>3 DEF Handler
<1>3. ASSUME NEW q \in Requests, Expire(q) PROVE FieldsOK'
  BY <1>3 DEF Expire
<1>4. ASSUME NEW q \in Requests, Monitor(q) PROVE FieldsOK'
  BY <1>4 DEF Monitor, Wake, Cleanup, CancelContext, CheckDone, CloseDone, Reset,
              Put, PutAgain
<1>5. ASSUME NEW o \in Instances, Drop(o) PROVE FieldsOK'
  BY <1>5 DEF Drop
<1>6. CASE UNCHANGED vars
  BY <1>6 DEF vars
<1> QED BY <1>1, <1>2, <1>3, <1>4, <1>5, <1>6 DEF Next

\* A context never stops being done, so a timeout on an instance stays one.
LEMMA StepTimeoutOK == IInv /\ [Next]_vars => TimeoutOK'
<1> SUFFICES ASSUME IInv, [Next]_vars PROVE TimeoutOK'
    OBVIOUS
<1> USE NoneAssumption
    DEF IInv, TypeOK, MadeOK, LeaseOK, TimeoutOK, TimedOut, MonitorStep, Lease,
        fields
<1>1. ASSUME NEW q \in Requests, Get(q) PROVE TimeoutOK'
  BY <1>1 DEF Get, GetPooled, GetNew
<1>2. ASSUME NEW q \in Requests, Handler(q) PROVE TimeoutOK'
  BY <1>2 DEF Handler, Initialize, AbortWithError, Return
<1>3. ASSUME NEW q \in Requests, Expire(q) PROVE TimeoutOK'
  BY <1>3 DEF Expire
<1>4. ASSUME NEW q \in Requests, Monitor(q) PROVE TimeoutOK'
  BY <1>4 DEF Monitor, Wake, Cleanup, CancelContext, CheckDone, CloseDone, Reset,
              Put, PutAgain
<1>5. ASSUME NEW o \in Instances, Drop(o) PROVE TimeoutOK'
  BY <1>5 DEF Drop
<1>6. CASE UNCHANGED vars
  BY <1>6 DEF vars
<1> QED BY <1>1, <1>2, <1>3, <1>4, <1>5, <1>6 DEF Next

-----------------------------------------------------------------------------
LEMMA Counted ==
  \A o \in Instances :
    /\ IsFiniteSet(Leases(o)) /\ Cardinality(Leases(o)) \in Nat
    /\ IsFiniteSet(Released(o)) /\ Cardinality(Released(o)) \in Nat
<1> SUFFICES ASSUME NEW o \in Instances
             PROVE  IsFiniteSet(Leases(o)) /\ IsFiniteSet(Released(o))
    BY FS_CardinalityType
<1>1. Leases(o) \subseteq Requests /\ Released(o) \subseteq Requests
  BY DEF Leases, Released
<1> QED BY <1>1, RequestsAssumption, FS_Subset

\* A step that leaves the holders of o alone and adds no copy keeps its bound.
LEMMA SameHolders ==
  ASSUME TypeOK, TypeOK', CopiesBounded, NEW o \in Instances,
         pool'[o] <= pool[o], Leases(o)' = Leases(o), Released(o)' = Released(o)
  PROVE  pool'[o] + Cardinality(Leases(o)') <= 1 + Cardinality(Released(o)')
<1>1. pool[o] + Cardinality(Leases(o)) <= 1 + Cardinality(Released(o))
  BY DEF CopiesBounded
<1>2. pool[o] \in Nat /\ pool'[o] \in Nat
  BY DEF TypeOK
<1> QED BY <1>1, <1>2, Counted

LEMMA AddHolder ==
  ASSUME NEW S, IsFiniteSet(S), NEW q, q \notin S
  PROVE  Cardinality(S \union {q}) = Cardinality(S) + 1
  BY FS_AddElement

LEMMA RemoveHolder ==
  ASSUME NEW S, IsFiniteSet(S), NEW q \in S
  PROVE  Cardinality(S \ {q}) = Cardinality(S) - 1
  BY FS_RemoveElement

\* Get takes as many pointers out as it hands out; only the second Put of a
\* monitor adds one.
LEMMA StepCopiesBounded == IInv /\ TypeOK' /\ [Next]_vars => CopiesBounded'
<1> SUFFICES ASSUME IInv, TypeOK', [Next]_vars, NEW o \in Instances
             PROVE  pool'[o] + Cardinality(Leases(o)') <= 1 + Cardinality(Released(o)')
    BY DEF CopiesBounded
<1> DEFINE Bounded == pool'[o] + Cardinality(Leases(o)') <= 1 + Cardinality(Released(o)')
<1>0. /\ pool[o] + Cardinality(Leases(o)) <= 1 + Cardinality(Released(o))
      /\ pool[o] \in Nat
  BY DEF IInv, TypeOK, CopiesBounded
<1>1. ASSUME NEW q \in Requests, NEW i \in Instances, GetPooled(q, i) PROVE Bounded
  <2>1. Released(o)' = Released(o)
    BY <1>1, NoneAssumption DEF GetPooled, Lease, Released, IInv, TypeOK, LeaseOK
  <2>2. CASE i = o
    <3>1. Leases(o)' = Leases(o) \union {q} /\ q \notin Leases(o)
      BY <1>1, <2>2, NoneAssumption
         DEF GetPooled, Lease, Leases, IInv, TypeOK, LeaseOK
    <3>2. Cardinality(Leases(o)') = Cardinality(Leases(o)) + 1
      BY <3>1, Counted, AddHolder
    <3>3. pool'[o] = pool[o] - 1
      BY <1>1, <2>2 DEF GetPooled, IInv, TypeOK
    <3> QED BY <1>0, <2>1, <3>2, <3>3, Counted
  <2>3. CASE i # o
    <3>1. pool'[o] <= pool[o] /\ Leases(o)' = Leases(o)
      BY <1>1, <2>3, NoneAssumption
         DEF GetPooled, Lease, Leases, IInv, TypeOK, LeaseOK
    <3> QED BY <2>1, <3>1, SameHolders DEF IInv
  <2> QED BY <2>2, <2>3
<1>2. ASSUME NEW q \in Requests, NEW i \in Instances, GetNew(q, i) PROVE Bounded
  <2>1. Released(o)' = Released(o)
    BY <1>2, NoneAssumption DEF GetNew, Lease, Released, IInv, TypeOK, LeaseOK
  <2>2. CASE i = o
    <3>1. pool'[o] = 0 /\ Leases(o)' = {q}
      BY <1>2, <2>2 DEF GetNew, Lease, Leases, IInv, TypeOK, MadeOK, LeaseOK
    <3>2. Cardinality(Leases(o)') = 1
      BY <3>1, FS_Singleton
    <3> QED BY <2>1, <3>1, <3>2, Counted
  <2>3. CASE i # o
    <3>1. pool'[o] <= pool[o] /\ Leases(o)' = Leases(o)
      BY <1>2, <2>3, NoneAssumption
         DEF GetNew, Lease, Leases, IInv, TypeOK, LeaseOK
    <3> QED BY <2>1, <3>1, SameHolders DEF IInv
  <2> QED BY <2>2, <2>3
<1>3. ASSUME NEW q \in Requests, Handler(q) \/ Expire(q) PROVE Bounded
  <2>1. pool'[o] <= pool[o] /\ Leases(o)' = Leases(o) /\ Released(o)' = Released(o)
    BY <1>3 DEF Handler, Initialize, AbortWithError, Return, Expire, Leases,
                Released, IInv, TypeOK, LeaseOK
  <2> QED BY <2>1, SameHolders DEF IInv
<1>4. ASSUME NEW q \in Requests, Put(q) PROVE Bounded
  <2>1. Released(o)' = Released(o)
    BY <1>4 DEF Put, MonitorStep, Released, IInv, TypeOK
  <2>2. CASE inst[q] = o
    <3>1. Leases(o)' = Leases(o) \ {q} /\ q \in Leases(o)
      BY <1>4, <2>2 DEF Put, MonitorStep, Leases, IInv, TypeOK
    <3>2. Cardinality(Leases(o)') = Cardinality(Leases(o)) - 1
      BY <3>1, Counted, RemoveHolder
    <3>3. pool'[o] = pool[o] + 1
      BY <1>4, <2>2 DEF Put, IInv, TypeOK
    <3> QED BY <1>0, <2>1, <3>2, <3>3, Counted
  <2>3. CASE inst[q] # o
    <3>1. pool'[o] <= pool[o] /\ Leases(o)' = Leases(o)
      BY <1>4, <2>3 DEF Put, MonitorStep, Leases, IInv, TypeOK
    <3> QED BY <2>1, <3>1, SameHolders DEF IInv
  <2> QED BY <2>2, <2>3
<1>5. ASSUME NEW q \in Requests, PutAgain(q) PROVE Bounded
  <2>1. Leases(o)' = Leases(o)
    BY <1>5 DEF PutAgain, MonitorStep, Leases, IInv, TypeOK
  <2>2. CASE inst[q] = o
    <3>1. Released(o)' = Released(o) \union {q} /\ q \notin Released(o)
      BY <1>5, <2>2 DEF PutAgain, MonitorStep, Released, IInv, TypeOK
    <3>2. Cardinality(Released(o)') = Cardinality(Released(o)) + 1
      BY <3>1, Counted, AddHolder
    <3>3. pool'[o] = pool[o] + 1
      BY <1>5, <2>2 DEF PutAgain, IInv, TypeOK
    <3> QED BY <1>0, <2>1, <3>2, <3>3, Counted
  <2>3. CASE inst[q] # o
    <3>1. pool'[o] <= pool[o] /\ Released(o)' = Released(o)
      BY <1>5, <2>3 DEF PutAgain, MonitorStep, Released, IInv, TypeOK
    <3> QED BY <2>1, <3>1, SameHolders DEF IInv
  <2> QED BY <2>2, <2>3
<1>6. ASSUME NEW q \in Requests,
             Wake(q) \/ CancelContext(q) \/ CheckDone(q) \/ CloseDone(q) \/ Reset(q)
      PROVE  Bounded
  <2>1. pool'[o] <= pool[o]
    BY <1>6, <1>0 DEF Wake, CancelContext, CheckDone, CloseDone, Reset
  <2>2. Leases(o)' = Leases(o) /\ Released(o)' = Released(o)
    BY <1>6 DEF Wake, CancelContext, CheckDone, CloseDone, Reset, MonitorStep,
                Leases, Released, IInv, TypeOK
  <2> QED BY <2>1, <2>2, SameHolders DEF IInv
<1>7. ASSUME NEW i \in Instances, Drop(i) PROVE Bounded
  <2>1. pool'[o] <= pool[o] /\ Leases(o)' = Leases(o) /\ Released(o)' = Released(o)
    BY <1>7 DEF Drop, Leases, Released, IInv, TypeOK
  <2> QED BY <2>1, SameHolders DEF IInv
<1>8. CASE UNCHANGED vars
  <2>1. pool'[o] <= pool[o] /\ Leases(o)' = Leases(o) /\ Released(o)' = Released(o)
    BY <1>0, <1>8 DEF vars, Leases, Released
  <2> QED BY <2>1, SameHolders DEF IInv
<1> QED BY <1>1, <1>2, <1>3, <1>4, <1>5, <1>6, <1>7, <1>8
        DEF Next, Get, Monitor, Cleanup

-----------------------------------------------------------------------------
\* By CopiesBounded, two holders of an instance need a monitor that has ended.
LEMMA TwoHolders ==
  ASSUME TypeOK, CopiesBounded, NEW o \in Instances,
         NEW q1 \in Leases(o), NEW q2 \in Leases(o), q1 # q2
  PROVE  Released(o) # {}
<1> SUFFICES ASSUME Released(o) = {} PROVE FALSE
    OBVIOUS
<1>1. pool[o] \in Nat
  BY DEF TypeOK
<1>2. Cardinality({q1, q2}) = 2
  <2> DEFINE S == {q1}
  <2>1. IsFiniteSet(S) /\ Cardinality(S) = 1
    BY FS_Singleton
  <2>2. q2 \notin S /\ {q1, q2} = S \union {q2}
    OBVIOUS
  <2> HIDE DEF S
  <2>3. Cardinality(S \union {q2}) = 2
    BY <2>1, <2>2, AddHolder
  <2> QED BY <2>2, <2>3
<1>3. Cardinality({q1, q2}) <= Cardinality(Leases(o))
  BY Counted, FS_Subset
<1>4. Cardinality(Released(o)) = 0
  BY FS_EmptySet
<1>5. pool[o] + Cardinality(Leases(o)) <= 1 + Cardinality(Released(o))
  BY DEF CopiesBounded
<1> QED BY <1>1, <1>2, <1>3, <1>4, <1>5, Counted

\* A monitor that has ended has ended for good.
LEMMA ReleasedGrows ==
  IInv /\ [Next]_vars => \A o \in Instances : Released(o) \subseteq Released(o)'
<1> SUFFICES ASSUME IInv, [Next]_vars, NEW o \in Instances, NEW q \in Released(o)
             PROVE  inst'[q] = o /\ monitor'[q] = "done"
    BY DEF Released
<1> USE NoneAssumption DEF IInv, TypeOK, LeaseOK, MonitorStep, Lease, Released
<1>1. ASSUME NEW p \in Requests, Get(p) \/ Handler(p) \/ Expire(p)
      PROVE  inst'[q] = o /\ monitor'[q] = "done"
  BY <1>1 DEF Get, GetPooled, GetNew, Handler, Initialize, AbortWithError, Return,
              Expire
<1>2. ASSUME NEW p \in Requests, Monitor(p) PROVE inst'[q] = o /\ monitor'[q] = "done"
  BY <1>2 DEF Monitor, Wake, Cleanup, CancelContext, CheckDone, CloseDone, Reset,
              Put, PutAgain
<1>3. ASSUME NEW i \in Instances, Drop(i) PROVE inst'[q] = o /\ monitor'[q] = "done"
  BY <1>3 DEF Drop
<1>4. CASE UNCHANGED vars
  BY <1>4 DEF vars
<1> QED BY <1>1, <1>2, <1>3, <1>4 DEF Next

\* Only CloseDone closes a channel.  Another monitor about to close the same one
\* holds the same instance.
LEMMA StepDoneOK == IInv /\ [Next]_vars => DoneOK' /\ CrashNeedsDoublePut'
<1> SUFFICES ASSUME IInv, [Next]_vars PROVE DoneOK' /\ CrashNeedsDoublePut'
    OBVIOUS
<1> DEFINE Shared(q) == monitor[q] = "closeDone" /\ doneOf[inst[q]] \in doneShut
<1>0. \A o \in Instances : Released(o) # {} => Released(o)' # {}
  BY ReleasedGrows
<1>a. \A q \in Requests : monitor[q] # "off" => inst[q] \in Instances
  BY DEF IInv, TypeOK, LeaseOK
<1>b. \A q \in Requests : Shared(q) => inst[q] \in Instances /\ Released(inst[q]) # {}
  BY <1>a DEF IInv, DoneOK
<1>1. ASSUME \A q \in doneShut' : monitor'[q] # "off",
             \A q \in Requests : Shared(q)' => Shared(q) /\ inst'[q] = inst[q],
             crashed' = crashed
      PROVE  DoneOK' /\ CrashNeedsDoublePut'
  BY <1>0, <1>1, <1>b DEF IInv, DoneOK, CrashNeedsDoublePut
<1>2. ASSUME NEW q \in Requests, CloseDone(q) PROVE DoneOK' /\ CrashNeedsDoublePut'
  <2> DEFINE o == inst[q]
  <2>1. /\ o \in Instances /\ doneOf[o] \in Requests
        /\ inst[doneOf[o]] = o /\ monitor[doneOf[o]] # "off"
    BY <1>2, <1>a DEF CloseDone, MonitorStep, IInv, TypeOK, FieldsOK
  <2>2. \A p \in doneShut' : monitor'[p] # "off"
    BY <1>2, <2>1 DEF CloseDone, MonitorStep, IInv, TypeOK, DoneOK
  <2>3. ASSUME NEW p \in Requests, Shared(p)' PROVE (Released(inst[p]) # {})'
    <3>1. /\ p # q /\ inst'[p] = inst[p] /\ monitor[p] = "closeDone"
          /\ doneOf' = doneOf /\ inst[p] \in Instances
      BY <1>2, <2>3, <1>a DEF CloseDone, MonitorStep, IInv, TypeOK, fields
    <3>2. CASE doneOf[inst[p]] \in doneShut
      BY <3>1, <3>2, <1>b, <1>0 DEF Released
    <3>3. CASE doneOf[inst[p]] \notin doneShut
      <4>1. doneOf[inst[p]] = doneOf[o]
        BY <1>2, <2>3, <3>1, <3>3 DEF CloseDone
      <4>2. inst[p] = o
        BY <2>1, <3>1, <4>1, NoneAssumption DEF IInv, FieldsOK
      <4>3. p \in Leases(o) /\ q \in Leases(o)
        BY <1>2, <3>1, <4>2 DEF Leases, CloseDone, MonitorStep
      <4>4. Released(o) # {}
        BY <2>1, <3>1, <4>3, TwoHolders DEF IInv
      <4> QED BY <1>0, <2>1, <3>1, <4>2, <4>4 DEF Released
    <3> QED BY <3>2, <3>3
  <2>4. CrashNeedsDoublePut'
    BY <1>0, <1>2, <1>b, <2>1 DEF CloseDone, MonitorStep, CrashNeedsDoublePut, Released
  <2> QED BY <2>2, <2>3, <2>4 DEF DoneOK
<1> HIDE DEF Shared
<1>3. ASSUME NEW q \in Requests, Get(q) PROVE DoneOK' /\ CrashNeedsDoublePut'
  BY <1>1, <1>3 DEF Get, GetPooled, GetNew, Lease, fields, Shared, IInv, TypeOK,
                    LeaseOK, DoneOK
<1>4. ASSUME NEW q \in Requests, Handler(q) \/ Expire(q)
      PROVE  DoneOK' /\ CrashNeedsDoublePut'
  BY <1>1, <1>4, <1>a DEF Handler, Initialize, AbortWithError, Return, Expire,
       fields, Shared, IInv, TypeOK, LeaseOK, DoneOK
<1>5. ASSUME NEW q \in Requests,
             Wake(q) \/ CancelContext(q) \/ CheckDone(q) \/ Reset(q) \/ Put(q)
               \/ PutAgain(q)
      PROVE  DoneOK' /\ CrashNeedsDoublePut'
  BY <1>1, <1>5, <1>a DEF Wake, CancelContext, CheckDone, Reset, Put, PutAgain,
       MonitorStep, fields, Shared, IInv, TypeOK, DoneOK
<1>6. ASSUME NEW o \in Instances, Drop(o) PROVE DoneOK' /\ CrashNeedsDoublePut'
  BY <1>1, <1>6 DEF Drop, fields, Shared, IInv, DoneOK
<1>7. CASE UNCHANGED vars
  BY <1>1, <1>7 DEF vars, fields, Shared, IInv, DoneOK
<1> QED BY <1>2, <1>3, <1>4, <1>5, <1>6, <1>7 DEF Next, Monitor, Cleanup

-----------------------------------------------------------------------------
LEMMA InitIInv == Init => IInv
<1> SUFFICES ASSUME Init PROVE IInv
    OBVIOUS
<1>1. TypeOK /\ MadeOK /\ LeaseOK /\ FieldsOK /\ TimeoutOK
  <2>1. TypeOK
    BY DEF Init, TypeOK
  <2>2. MadeOK /\ LeaseOK
    BY NoneAssumption DEF Init, MadeOK, LeaseOK
  <2>3. FieldsOK
    BY DEF Init, FieldsOK
  <2>4. TimeoutOK
    BY DEF Init, TimeoutOK
  <2> QED BY <2>1, <2>2, <2>3, <2>4
<1>2. \A o \in Instances : Leases(o) = {}
  BY NoneAssumption DEF Init, Leases
<1>3. CopiesBounded
  BY <1>2, Counted, FS_EmptySet DEF Init, CopiesBounded
<1>4. DoneOK /\ CrashNeedsDoublePut
  BY DEF Init, DoneOK, CrashNeedsDoublePut
<1> QED BY <1>1, <1>3, <1>4 DEF IInv

\* All parts of the invariant are inductive together.
THEOREM Inductive == Spec => []IInv
<1>1. IInv /\ [Next]_vars => IInv'
  BY StepTypeOK, StepMadeOK, StepFieldsOK, StepTimeoutOK, StepCopiesBounded,
     StepDoneOK DEF IInv
<1> QED BY InitIInv, <1>1, PTL DEF Spec

\* An instance is held or pooled at most once more than monitors have ended.
THEOREM CopiesAccounted == Spec => []CopiesBounded
<1>1. IInv => CopiesBounded
  BY DEF IInv
<1> QED BY <1>1, Inductive, PTL

\* Two requests hold one instance only after a monitor has put it back twice.
THEOREM Isolation == Spec => []IsolatedUntilTimeout
<1>1. IInv => IsolatedUntilTimeout
  <2> SUFFICES ASSUME IInv, NEW q1 \in Requests, NEW q2 \in Requests, q1 # q2,
                      inst[q1] # None, {q1, q2} \subseteq Leases(inst[q1]),
                      Released(inst[q1]) = {}
               PROVE  FALSE
      BY DEF IsolatedUntilTimeout
  <2>1. inst[q1] \in Instances
    BY DEF IInv, TypeOK
  <2> QED BY <2>1, TwoHolders DEF IInv
<1> QED BY <1>1, Inductive, PTL

\* A foreign error is only ever returned after a timeout on the instance.
THEOREM ForeignErrors == Spec => []ForeignErrorNeedsTimeout
<1>1. IInv => ForeignErrorNeedsTimeout
  BY NoneAssumption
     DEF IInv, TypeOK, FieldsOK, TimeoutOK, TimedOut, ForeignErrorNeedsTimeout
<1> QED BY <1>1, Inductive, PTL

\* The process dies of a double close only after some monitor has put its
\* instance back twice.
THEOREM CrashCause == Spec => []CrashNeedsDoublePut
<1>1. IInv => CrashNeedsDoublePut
  BY DEF IInv
<1> QED BY <1>1, Inductive, PTL

\* A cleanup cancels another request's running context only after some monitor has
\* put the instance back twice.
THEOREM CancelCause == Spec => ForeignCancelNeedsDoublePut
<1>1. ASSUME IInv, NEW p \in Requests, NEW q \in Requests, p # q,
             CancelContext(p), q \in ctxDone' \ ctxDone
      PROVE  Released(inst[p]) # {}
  <2> DEFINE o == inst[p]
  <2>1. monitor[p] = "cancel" /\ cancelOf[o] = q
    BY <1>1 DEF CancelContext, MonitorStep
  <2>2. o \in Instances
    BY <1>1, <2>1 DEF IInv, TypeOK, LeaseOK
  <2>3. inst[q] = o
    BY <1>1, <2>1, <2>2, NoneAssumption DEF IInv, FieldsOK
  <2>4. monitor[q] \in {"off", "waiting"}
    BY <1>1 DEF IInv, TimeoutOK
  <2>5. p \in Leases(o) /\ q \in Leases(o)
    BY <2>1, <2>3, <2>4 DEF Leases
  <2> QED BY <1>1, <2>2, <2>5, TwoHolders DEF IInv
<1>2. IInv /\ [Next]_vars =>
        [\A p, q \in Requests :
           p # q /\ CancelContext(p) /\ q \in ctxDone' \ ctxDone =>
             Released(inst[p]) # {}]_vars
  BY <1>1
<1> QED BY <1>2, Inductive, PTL DEF Spec, ForeignCancelNeedsDoublePut
=============================================================================
