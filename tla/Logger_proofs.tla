---------------------------- MODULE Logger_proofs ----------------------------
(***************************************************************************)
(* What recycled maps can and cannot do, for any number of goroutines,     *)
(* loggers, maps and fields.                                               *)
(***************************************************************************)
EXTENDS Logger, TLAPS

LEMMA InitIInv == Init => IInv
<1> SUFFICES ASSUME Init PROVE IInv
    OBVIOUS
<1> USE NothingAssumption DEF Init
<1>1. TypeOK
  BY DEF TypeOK, Idle, Methods
<1>2. CallsOK /\ OneOwner /\ FreshEmpty /\ RecycledLogged
  BY DEF CallsOK, OneOwner, FreshEmpty, RecycledLogged, Made
<1>3. LoggerKeepsFields /\ InfoExact /\ StaleFieldsWereLogged
  BY DEF LoggerKeepsFields, InfoExact, StaleFieldsWereLogged, Made
<1> QED BY <1>1, <1>2, <1>3 DEF IInv

\* The types, and that a call has a map and a logger where it needs them.
LEMMA StepTypeOK ==
  ASSUME TypeOK, CallsOK, [Next]_vars
  PROVE  TypeOK'
<1> USE NothingAssumption DEF TypeOK, CallsOK, Idle, Methods, Made
<1>1. ASSUME NEW l \in Loggers, NewStructuredLogger(l) PROVE TypeOK'
  BY <1>1 DEF NewStructuredLogger, Made, Unused
<1>2. ASSUME NEW l \in Loggers, Forget(l) PROVE TypeOK'
  BY <1>2 DEF Forget, Made
<1>3. ASSUME NEW p \in Procs, NEW l \in Loggers, NEW method \in Methods, NEW args \in SUBSET Fields,
            Begin(p, l, method, args) PROVE TypeOK'
  BY <1>3 DEF Begin, Made
<1>4. ASSUME NEW p \in Procs, Get(p) PROVE TypeOK'
  BY <1>4 DEF Get, Unused
<1>5. ASSUME NEW p \in Procs, Fill(p) PROVE TypeOK'
  BY <1>5 DEF Fill, Kept
<1>6. ASSUME NEW p \in Procs, WriteEntry(p) PROVE TypeOK'
  BY <1>6 DEF WriteEntry
<1>7. ASSUME NEW p \in Procs, Put(p) PROVE TypeOK'
  BY <1>7 DEF Put
<1>8. ASSUME NEW p \in Procs, Derive(p) PROVE TypeOK'
  BY <1>8 DEF Derive, Made
<1>9. ASSUME NEW m \in Maps, Drop(m) PROVE TypeOK'
  BY <1>9 DEF Drop
<1>10. CASE UNCHANGED vars
  BY <1>10 DEF vars, Made, Unused
<1> HIDE DEF TypeOK, CallsOK, Idle, Methods, Made
<1> QED BY <1>1, <1>2, <1>3, <1>4, <1>5, <1>6, <1>7, <1>8, <1>9, <1>10
        DEF Next, Info, Log, ErrorDebugWarn, WithFields, Methods

\* A logger is not forgotten while it is called.
LEMMA StepCallsOK ==
  ASSUME TypeOK, CallsOK, [Next]_vars
  PROVE  CallsOK'
<1> USE NothingAssumption DEF TypeOK, CallsOK, Idle, Methods, Made
<1>1. ASSUME NEW l \in Loggers, NewStructuredLogger(l) PROVE CallsOK'
  BY <1>1 DEF NewStructuredLogger, Made, Unused
<1>2. ASSUME NEW l \in Loggers, Forget(l) PROVE CallsOK'
  BY <1>2 DEF Forget, Made
<1>3. ASSUME NEW p \in Procs, NEW l \in Loggers, NEW method \in Methods, NEW args \in SUBSET Fields,
            Begin(p, l, method, args) PROVE CallsOK'
  BY <1>3 DEF Begin, Made
<1>4. ASSUME NEW p \in Procs, Get(p) PROVE CallsOK'
  BY <1>4 DEF Get, Unused
<1>5. ASSUME NEW p \in Procs, Fill(p) PROVE CallsOK'
  BY <1>5 DEF Fill, Kept
<1>6. ASSUME NEW p \in Procs, WriteEntry(p) PROVE CallsOK'
  BY <1>6 DEF WriteEntry
<1>7. ASSUME NEW p \in Procs, Put(p) PROVE CallsOK'
  BY <1>7 DEF Put
<1>8. ASSUME NEW p \in Procs, Derive(p) PROVE CallsOK'
  BY <1>8 DEF Derive, Made
<1>9. ASSUME NEW m \in Maps, Drop(m) PROVE CallsOK'
  BY <1>9 DEF Drop
<1>10. CASE UNCHANGED vars
  BY <1>10 DEF vars, Made, Unused
<1> HIDE DEF TypeOK, CallsOK, Idle, Methods, Made
<1> QED BY <1>1, <1>2, <1>3, <1>4, <1>5, <1>6, <1>7, <1>8, <1>9, <1>10
        DEF Next, Info, Log, ErrorDebugWarn, WithFields, Methods

\* A map moves from one owner to the next.
LEMMA StepOneOwner ==
  ASSUME TypeOK, CallsOK, OneOwner, [Next]_vars
  PROVE  OneOwner'
<1> USE NothingAssumption DEF TypeOK, CallsOK, OneOwner, Made
<1>1. ASSUME NEW l \in Loggers, NewStructuredLogger(l) PROVE OneOwner'
  BY <1>1 DEF NewStructuredLogger, Made, Unused
<1>2. ASSUME NEW l \in Loggers, Forget(l) PROVE OneOwner'
  BY <1>2 DEF Forget, Made
<1>3. ASSUME NEW p \in Procs, NEW l \in Loggers, NEW method \in Methods, NEW args \in SUBSET Fields,
            Begin(p, l, method, args) PROVE OneOwner'
  BY <1>3 DEF Begin, Made
<1>4. ASSUME NEW p \in Procs, Get(p) PROVE OneOwner'
  BY <1>4 DEF Get, Unused
<1>5. ASSUME NEW p \in Procs, Fill(p) PROVE OneOwner'
  BY <1>5 DEF Fill, Kept
<1>6. ASSUME NEW p \in Procs, WriteEntry(p) PROVE OneOwner'
  BY <1>6 DEF WriteEntry
<1>7. ASSUME NEW p \in Procs, Put(p) PROVE OneOwner'
  BY <1>7 DEF Put
<1>8. ASSUME NEW p \in Procs, Derive(p) PROVE OneOwner'
  BY <1>8 DEF Derive, Made
<1>9. ASSUME NEW m \in Maps, Drop(m) PROVE OneOwner'
  BY <1>9 DEF Drop
<1>10. CASE UNCHANGED vars
  BY <1>10 DEF vars, Made, Unused
<1> HIDE DEF TypeOK, CallsOK, OneOwner, Made
<1> QED BY <1>1, <1>2, <1>3, <1>4, <1>5, <1>6, <1>7, <1>8, <1>9, <1>10
        DEF Next, Info, Log, ErrorDebugWarn, WithFields, Methods

\* A map without an owner is empty.
LEMMA StepFreshEmpty ==
  ASSUME TypeOK, CallsOK, OneOwner, FreshEmpty, [Next]_vars
  PROVE  FreshEmpty'
<1> USE NothingAssumption DEF TypeOK, CallsOK, OneOwner, FreshEmpty, Made, Unused
<1>1. ASSUME NEW l \in Loggers, NewStructuredLogger(l) PROVE FreshEmpty'
  BY <1>1 DEF NewStructuredLogger, Made, Unused
<1>2. ASSUME NEW l \in Loggers, Forget(l) PROVE FreshEmpty'
  BY <1>2 DEF Forget, Made
<1>3. ASSUME NEW p \in Procs, NEW l \in Loggers, NEW method \in Methods, NEW args \in SUBSET Fields,
            Begin(p, l, method, args) PROVE FreshEmpty'
  BY <1>3 DEF Begin, Made
<1>4. ASSUME NEW p \in Procs, Get(p) PROVE FreshEmpty'
  <2>1. PICK m \in Maps : (m \in pool \/ Unused(m)) /\ pool' = pool \ {m} /\ held' = [held EXCEPT ![p] = m]
    BY <1>4 DEF Get
  <2>2. ASSUME NEW n \in Maps, Unused(n)' PROVE content'[n] = {}
    <3>1. n # m /\ Unused(n)
      BY <1>4, <2>1, <2>2 DEF Get
    <3> QED BY <1>4, <3>1 DEF Get
  <2>3. ASSUME NEW l \in Loggers, ~Made(l)' PROVE given'[l] = {}
    BY <1>4, <2>3 DEF Get
  <2> QED BY <2>2, <2>3
<1>5. ASSUME NEW p \in Procs, Fill(p) PROVE FreshEmpty'
  BY <1>5 DEF Fill, Kept
<1>6. ASSUME NEW p \in Procs, WriteEntry(p) PROVE FreshEmpty'
  BY <1>6 DEF WriteEntry
<1>7. ASSUME NEW p \in Procs, Put(p) PROVE FreshEmpty'
  BY <1>7 DEF Put
<1>8. ASSUME NEW p \in Procs, Derive(p) PROVE FreshEmpty'
  BY <1>8 DEF Derive, Made
<1>9. ASSUME NEW m \in Maps, Drop(m) PROVE FreshEmpty'
  BY <1>9 DEF Drop
<1>10. CASE UNCHANGED vars
  BY <1>10 DEF vars, Made, Unused
<1> HIDE DEF TypeOK, CallsOK, OneOwner, FreshEmpty, Made, Unused
<1> QED BY <1>1, <1>2, <1>3, <1>4, <1>5, <1>6, <1>7, <1>8, <1>9, <1>10
        DEF Next, Info, Log, ErrorDebugWarn, WithFields, Methods

\* Only maps whose content has been logged go back to the pool.
LEMMA StepRecycledLogged ==
  ASSUME TypeOK, CallsOK, OneOwner, FreshEmpty, RecycledLogged, LoggerKeepsFields, [Next]_vars
  PROVE  RecycledLogged'
<1> USE NothingAssumption DEF TypeOK, CallsOK, OneOwner, FreshEmpty, RecycledLogged
<1>1. ASSUME NEW l \in Loggers, NewStructuredLogger(l) PROVE RecycledLogged'
  BY <1>1 DEF NewStructuredLogger, Made, Unused
<1>2. ASSUME NEW l \in Loggers, Forget(l) PROVE RecycledLogged'
  BY <1>2 DEF Forget, Made
<1>3. ASSUME NEW p \in Procs, NEW l \in Loggers, NEW method \in Methods, NEW args \in SUBSET Fields,
            Begin(p, l, method, args) PROVE RecycledLogged'
  BY <1>3 DEF Begin, Made
<1>4. ASSUME NEW p \in Procs, Get(p) PROVE RecycledLogged'
  BY <1>4 DEF Get, Unused
<1>5. ASSUME NEW p \in Procs, Fill(p) PROVE RecycledLogged'
  BY <1>5 DEF Fill, Kept
<1>6. ASSUME NEW p \in Procs, WriteEntry(p) PROVE RecycledLogged'
  BY <1>6 DEF WriteEntry
<1>7. ASSUME NEW p \in Procs, Put(p) PROVE RecycledLogged'
  BY <1>7 DEF Put
<1>8. ASSUME NEW p \in Procs, Derive(p) PROVE RecycledLogged'
  BY <1>8 DEF Derive, Made
<1>9. ASSUME NEW m \in Maps, Drop(m) PROVE RecycledLogged'
  BY <1>9 DEF Drop
<1>10. CASE UNCHANGED vars
  BY <1>10 DEF vars, Made, Unused
<1> HIDE DEF TypeOK, CallsOK, OneOwner, FreshEmpty, RecycledLogged
<1> QED BY <1>1, <1>2, <1>3, <1>4, <1>5, <1>6, <1>7, <1>8, <1>9, <1>10
        DEF Next, Info, Log, ErrorDebugWarn, WithFields, Methods

\* The map of a logger is its own.
LEMMA StepLoggers ==
  ASSUME TypeOK, CallsOK, OneOwner, FreshEmpty, LoggerKeepsFields, InfoExact, [Next]_vars
  PROVE  LoggerKeepsFields'
<1> USE NothingAssumption DEF TypeOK, CallsOK, OneOwner, FreshEmpty, LoggerKeepsFields, InfoExact, Own, Made
<1>1. ASSUME NEW l \in Loggers, NewStructuredLogger(l) PROVE LoggerKeepsFields'
  <2>1. PICK m \in Maps : Unused(m) /\ fields' = [fields EXCEPT ![l] = m]
    BY <1>1 DEF NewStructuredLogger
  <2>2. content[m] = {} /\ given[l] = {}
    BY <1>1, <2>1 DEF NewStructuredLogger
  <2> QED BY <1>1, <2>1, <2>2 DEF NewStructuredLogger
<1>2. ASSUME NEW l \in Loggers, Forget(l) PROVE LoggerKeepsFields'
  BY <1>2 DEF Forget, Made
<1>3. ASSUME NEW p \in Procs, NEW l \in Loggers, NEW method \in Methods, NEW args \in SUBSET Fields,
            Begin(p, l, method, args) PROVE LoggerKeepsFields'
  BY <1>3 DEF Begin, Made
<1>4. ASSUME NEW p \in Procs, Get(p) PROVE LoggerKeepsFields'
  BY <1>4 DEF Get, Unused
<1>5. ASSUME NEW p \in Procs, Fill(p) PROVE LoggerKeepsFields'
  BY <1>5 DEF Fill, Kept
<1>6. ASSUME NEW p \in Procs, WriteEntry(p) PROVE LoggerKeepsFields'
  BY <1>6 DEF WriteEntry
<1>7. ASSUME NEW p \in Procs, Put(p) PROVE LoggerKeepsFields'
  BY <1>7 DEF Put
<1>8. ASSUME NEW p \in Procs, Derive(p) PROVE LoggerKeepsFields'
  <2>1. PICK l \in Loggers : /\ ~Made(l)
                             /\ fields' = [fields EXCEPT ![l] = held[p]]
                             /\ given' = [given EXCEPT ![l] = Own(p)]
    BY <1>8 DEF Derive
  <2>2. content[held[p]] = Own(p)
    BY <1>8 DEF Derive
  <2>3. content' = content
    BY <1>8 DEF Derive
  <2> QED BY <2>1, <2>2, <2>3
<1>9. ASSUME NEW m \in Maps, Drop(m) PROVE LoggerKeepsFields'
  BY <1>9 DEF Drop
<1>10. CASE UNCHANGED vars
  BY <1>10 DEF vars, Made, Unused
<1> HIDE DEF TypeOK, CallsOK, OneOwner, FreshEmpty, LoggerKeepsFields, InfoExact, Own, Made
<1> QED BY <1>1, <1>2, <1>3, <1>4, <1>5, <1>6, <1>7, <1>8, <1>9, <1>10
        DEF Next, Info, Log, ErrorDebugWarn, WithFields, Methods

\* A map in use is nobody else's.
LEMMA StepInfo ==
  ASSUME TypeOK, CallsOK, OneOwner, LoggerKeepsFields, InfoExact, [Next]_vars
  PROVE  InfoExact'
<1> USE NothingAssumption DEF TypeOK, CallsOK, OneOwner, LoggerKeepsFields, InfoExact, Own, Made, Idle
<1>1. ASSUME NEW l \in Loggers, NewStructuredLogger(l) PROVE InfoExact'
  BY <1>1 DEF NewStructuredLogger, Made, Unused
<1>2. ASSUME NEW l \in Loggers, Forget(l) PROVE InfoExact'
  BY <1>2 DEF Forget, Made
<1>3. ASSUME NEW p \in Procs, NEW l \in Loggers, NEW method \in Methods, NEW args \in SUBSET Fields,
            Begin(p, l, method, args) PROVE InfoExact'
  BY <1>3 DEF Begin, Made
<1>4. ASSUME NEW p \in Procs, Get(p) PROVE InfoExact'
  BY <1>4 DEF Get, Unused
<1>5. ASSUME NEW p \in Procs, Fill(p) PROVE InfoExact'
  BY <1>5 DEF Fill, Kept
<1>6. ASSUME NEW p \in Procs, WriteEntry(p) PROVE InfoExact'
  BY <1>6 DEF WriteEntry
<1>7. ASSUME NEW p \in Procs, Put(p) PROVE InfoExact'
  BY <1>7 DEF Put
<1>8. ASSUME NEW p \in Procs, Derive(p) PROVE InfoExact'
  BY <1>8 DEF Derive, Made
<1>9. ASSUME NEW m \in Maps, Drop(m) PROVE InfoExact'
  BY <1>9 DEF Drop
<1>10. CASE UNCHANGED vars
  BY <1>10 DEF vars, Made, Unused
<1> HIDE DEF TypeOK, CallsOK, OneOwner, LoggerKeepsFields, InfoExact, Own, Made, Idle
<1> QED BY <1>1, <1>2, <1>3, <1>4, <1>5, <1>6, <1>7, <1>8, <1>9, <1>10
        DEF Next, Info, Log, ErrorDebugWarn, WithFields, Methods

\* What is left in a recycled map was in an entry.
LEMMA StepStale ==
  ASSUME TypeOK, CallsOK, OneOwner, LoggerKeepsFields, RecycledLogged, StaleFieldsWereLogged, [Next]_vars
  PROVE  StaleFieldsWereLogged'
<1> USE NothingAssumption DEF TypeOK, CallsOK, OneOwner, LoggerKeepsFields, RecycledLogged, StaleFieldsWereLogged, Own, Made,
        Idle
<1>1. ASSUME NEW l \in Loggers, NewStructuredLogger(l) PROVE StaleFieldsWereLogged'
  BY <1>1 DEF NewStructuredLogger, Made, Unused
<1>2. ASSUME NEW l \in Loggers, Forget(l) PROVE StaleFieldsWereLogged'
  BY <1>2 DEF Forget, Made
<1>3. ASSUME NEW p \in Procs, NEW l \in Loggers, NEW method \in Methods, NEW args \in SUBSET Fields,
            Begin(p, l, method, args) PROVE StaleFieldsWereLogged'
  BY <1>3 DEF Begin, Made
<1>4. ASSUME NEW p \in Procs, Get(p) PROVE StaleFieldsWereLogged'
  BY <1>4 DEF Get, Unused
<1>5. ASSUME NEW p \in Procs, Fill(p) PROVE StaleFieldsWereLogged'
  BY <1>5 DEF Fill, Kept
<1>6. ASSUME NEW p \in Procs, WriteEntry(p) PROVE StaleFieldsWereLogged'
  BY <1>6 DEF WriteEntry
<1>7. ASSUME NEW p \in Procs, Put(p) PROVE StaleFieldsWereLogged'
  BY <1>7 DEF Put
<1>8. ASSUME NEW p \in Procs, Derive(p) PROVE StaleFieldsWereLogged'
  BY <1>8 DEF Derive, Made
<1>9. ASSUME NEW m \in Maps, Drop(m) PROVE StaleFieldsWereLogged'
  BY <1>9 DEF Drop
<1>10. CASE UNCHANGED vars
  BY <1>10 DEF vars, Made, Unused
<1> HIDE DEF TypeOK, CallsOK, OneOwner, LoggerKeepsFields, RecycledLogged, StaleFieldsWereLogged, Own, Made,
        Idle
<1> QED BY <1>1, <1>2, <1>3, <1>4, <1>5, <1>6, <1>7, <1>8, <1>9, <1>10
        DEF Next, Info, Log, ErrorDebugWarn, WithFields, Methods

\* Maps have one owner and recycled ones hold only what was logged.
THEOREM Inductive == Spec => []IInv
<1>1. IInv /\ [Next]_vars => IInv'
  BY StepTypeOK, StepCallsOK, StepOneOwner, StepFreshEmpty, StepRecycledLogged, StepLoggers,
     StepInfo, StepStale DEF IInv
<1> QED BY InitIInv, <1>1, PTL DEF Spec

\* A map is never in two places.
THEOREM Ownership == Spec => []OneOwner
<1> QED BY Inductive, PTL DEF IInv

\* A logger keeps the fields it was made with.
THEOREM LoggersKeep == Spec => []LoggerKeepsFields
<1> QED BY Inductive, PTL DEF IInv

\* An Info entry has exactly its fields.
THEOREM InfoEntries == Spec => []InfoExact
<1> QED BY Inductive, PTL DEF IInv

\* What is wrong in an entry of the other methods was in an earlier entry.
THEOREM OtherEntries == Spec => []StaleFieldsWereLogged
<1> QED BY Inductive, PTL DEF IInv
=============================================================================
