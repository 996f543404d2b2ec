------------------------- MODULE Provisioner_proofs -------------------------
(***************************************************************************)
(* Theorems about Provisioner, for any set of requests, instances and      *)
(* processes, any cap and port range, and any faults and overlaps, and its *)
(* refinement of Lifecycle.                                                *)
(***************************************************************************)
EXTENDS ProvisionerLifecycle, FiniteSetTheorems, TLAPS

-----------------------------------------------------------------------------
(* What a request's own fields say, needed to make TypeOK inductive. *)

BeforeRetriesEnd == {"new", "spawned"} \cup HandlerPcs \cup CriticalPcs \cup DeployPcs

RequestOK ==
    \A o \in Requests :
        /\ Live(o) => req[o].id \in Ids /\ req[o].proc \in Procs
        /\ pc[o] = "new" => req[o].proc = None
        /\ pc[o] \in BeforeRetriesEnd => tries[o] < RegistryRetries

USE DEF Pcs, LivePcs, CreatePcs, BackgroundPcs, HandlerPcs, CriticalPcs, DeployPcs,
        RollbackPcs, ReturnPcs, DestroyPcs, FinalPcs, BeforeRetriesEnd

(* The initial state is typed. *)
LEMMA TypeInit == Init => TypeOK /\ RequestOK
BY ConstantsAssumption
   DEF Init, TypeOK, RequestOK, Live, Row, Container, DataDir, Request, Token, NoRow, NoCon,
       RowStatus, ConState, PortRange

(* Every action keeps the types. *)
LEMMA TypeStep ==
    ASSUME TypeOK, RequestOK, [Next]_vars
    PROVE  TypeOK'
<1> USE ConstantsAssumption DEF TypeOK
<1>1. ASSUME NEW o \in Requests, NEW i \in Ids, HandleCreate(o, i)
      PROVE  TypeOK'
  <2>1. pc' \in [Requests -> Pcs]
    BY <1>1 DEF HandleCreate, CanSubmit, Target, Goto
  <2>2. req' \in [Requests -> Request]
    BY <1>1 DEF HandleCreate, CanSubmit, Target, Goto, Request
  <2>3. QED  BY <1>1, <2>1, <2>2 DEF HandleCreate
<1>2. ASSUME NEW o \in Requests, NEW i \in Ids, NEW p \in Procs, CliProvision(o, i, p)
      PROVE  TypeOK'
  <2>1. pc' \in [Requests -> Pcs]
    BY <1>2 DEF CliProvision, CanSubmit, Target, Goto
  <2>2. req' \in [Requests -> Request]
    BY <1>2 DEF CliProvision, CanSubmit, Target, Goto, Request
  <2>3. QED  BY <1>2, <2>1, <2>2 DEF CliProvision
<1>3. ASSUME NEW o \in Requests, NEW i \in Ids, NEW p \in Procs, NEW rm \in BOOLEAN, BeginDestroy(o, i, p, rm)
      PROVE  TypeOK'
  <2>1. pc' \in [Requests -> Pcs]
    BY <1>3 DEF BeginDestroy, CanSubmit, Target, Goto
  <2>2. req' \in [Requests -> Request]
    BY <1>3 DEF BeginDestroy, CanSubmit, Target, Goto, Request
  <2>3. QED  BY <1>3, <2>1, <2>2 DEF BeginDestroy
<1>4. ASSUME NEW o \in Requests, CheckExists(o)
      PROVE  TypeOK'
  <2>1. pc' \in [Requests -> Pcs]
    BY <1>4 DEF CheckExists, ClearInFlight, Goto
  <2>2. QED  BY <1>4, <2>1 DEF CheckExists, ClearInFlight
<1>5. ASSUME NEW o \in Requests, CheckCap(o)
      PROVE  TypeOK'
  <2>1. pc' \in [Requests -> Pcs]
    BY <1>5 DEF CheckCap, ClearInFlight, Goto
  <2>2. QED  BY <1>5, <2>1 DEF CheckCap, ClearInFlight
<1>6. ASSUME NEW o \in Requests, LockAndList(o)
      PROVE  TypeOK'
  <2>1. pc' \in [Requests -> Pcs]
    BY <1>6 DEF LockAndList, LockFree, Refusal, Goto
  <2>2. mu' \in [Procs -> Token]
    BY <1>6 DEF LockAndList, LockFree, Refusal, Goto, Token
  <2>3. QED  BY <1>6, <2>1, <2>2 DEF LockAndList
<1>7. ASSUME NEW o \in Requests, AllocatePort(o)
      PROVE  TypeOK'
  <2>1. pc' \in [Requests -> Pcs]
    BY <1>7 DEF AllocatePort, allocatePort, Unlock, Goto
  <2>2. port' \in [Requests -> PortRange \cup {0}]
    BY <1>7 DEF AllocatePort, allocatePort, Unlock, Goto
  <2>3. mu' \in [Procs -> Token]
    BY <1>7 DEF AllocatePort, allocatePort, Unlock, Goto, Token
  <2>4. QED  BY <1>7, <2>1, <2>2, <2>3 DEF AllocatePort
<1>8. ASSUME NEW o \in Requests, ReserveRow(o)
      PROVE  TypeOK'
  <2>1. pc' \in [Requests -> Pcs]
    BY <1>8 DEF ReserveRow, Unlock, Goto
  <2>2. row' \in [Ids -> Row]
    BY <1>8 DEF ReserveRow, Unlock, Goto, Row, RowStatus, Token
  <2>3. mu' \in [Procs -> Token]
    BY <1>8 DEF ReserveRow, Unlock, Goto, Token
  <2>4. QED  BY <1>8, <2>1, <2>2, <2>3 DEF ReserveRow
<1>9. ASSUME NEW o \in Requests, MakeDir(o)
      PROVE  TypeOK'
  <2>1. pc' \in [Requests -> Pcs]
    BY <1>9 DEF MakeDir, rollback, Goto
  <2>2. dir' \in [Ids -> DataDir]
    BY <1>9 DEF MakeDir, rollback, Goto, DataDir
  <2>3. QED  BY <1>9, <2>1, <2>2 DEF MakeDir
<1>10. ASSUME NEW o \in Requests, InjectConfig(o)
      PROVE  TypeOK'
  <2>1. pc' \in [Requests -> Pcs]
    BY <1>10 DEF InjectConfig, rollback, Goto
  <2>2. dir' \in [Ids -> DataDir]
    BY <1>10 DEF InjectConfig, rollback, Goto, DataDir
  <2>3. QED  BY <1>10, <2>1, <2>2 DEF InjectConfig
<1>11. ASSUME NEW o \in Requests, DockerCreate(o)
      PROVE  TypeOK'
  <2>1. pc' \in [Requests -> Pcs]
    BY <1>11 DEF DockerCreate, OnNameConflict, rollback, Goto
  <2>2. con' \in [Ids -> Container]
    BY <1>11 DEF DockerCreate, OnNameConflict, rollback, Goto, Container, ConState, Token
  <2>3. QED  BY <1>11, <2>1, <2>2 DEF DockerCreate
<1>12. ASSUME NEW o \in Requests, DockerStart(o)
      PROVE  TypeOK'
  <2>1. pc' \in [Requests -> Pcs]
    BY <1>12 DEF DockerStart, WithState, rollback, Goto
  <2>2. con' \in [Ids -> Container]
    BY <1>12 DEF DockerStart, WithState, rollback, Goto, Container, ConState, Token
  <2>3. dir' \in [Ids -> DataDir]
    BY <1>12 DEF DockerStart, WithState, rollback, Goto, DataDir
  <2>4. QED  BY <1>12, <2>1, <2>2, <2>3 DEF DockerStart
<1>13. ASSUME NEW o \in Requests, PollHealth(o)
      PROVE  TypeOK'
  <2>1. pc' \in [Requests -> Pcs]
    BY <1>13 DEF PollHealth, rollback, Goto
  <2>2. QED  BY <1>13, <2>1 DEF PollHealth
<1>14. ASSUME NEW o \in Requests, SetRunning(o)
      PROVE  TypeOK'
  <2>1. pc' \in [Requests -> Pcs]
    BY <1>14 DEF SetRunning, WithStatus, MoreRetries, rollback, Goto
  <2>2. row' \in [Ids -> Row]
    BY <1>14 DEF SetRunning, WithStatus, MoreRetries, rollback, Goto, Row, RowStatus, Token
  <2>3. tries' \in [Requests -> 0 .. RegistryRetries]
    BY <1>14 DEF SetRunning, WithStatus, MoreRetries, rollback, Goto, RequestOK
  <2>4. QED  BY <1>14, <2>1, <2>2, <2>3 DEF SetRunning
<1>15. ASSUME NEW o \in Requests, RollbackStop(o)
      PROVE  TypeOK'
  <2>1. pc' \in [Requests -> Pcs]
    BY <1>15 DEF RollbackStop, Stopped, WithState, Goto
  <2>2. con' \in [Ids -> Container]
    BY <1>15 DEF RollbackStop, Stopped, WithState, Goto, Container, ConState, Token
  <2>3. QED  BY <1>15, <2>1, <2>2 DEF RollbackStop
<1>16. ASSUME NEW o \in Requests, RollbackRemove(o)
      PROVE  TypeOK'
  <2>1. pc' \in [Requests -> Pcs]
    BY <1>16 DEF RollbackRemove, Goto
  <2>2. con' \in [Ids -> Container]
    BY <1>16 DEF RollbackRemove, Goto, Container, ConState, Token, NoCon
  <2>3. QED  BY <1>16, <2>1, <2>2 DEF RollbackRemove
<1>17. ASSUME NEW o \in Requests, RollbackDir(o)
      PROVE  TypeOK'
  <2>1. pc' \in [Requests -> Pcs]
    BY <1>17 DEF RollbackDir, Goto
  <2>2. dir' \in [Ids -> DataDir]
    BY <1>17 DEF RollbackDir, Goto, DataDir
  <2>3. QED  BY <1>17, <2>1, <2>2 DEF RollbackDir
<1>18. ASSUME NEW o \in Requests, RollbackRow(o)
      PROVE  TypeOK'
  <2>1. pc' \in [Requests -> Pcs]
    BY <1>18 DEF RollbackRow, Goto
  <2>2. row' \in [Ids -> Row]
    BY <1>18 DEF RollbackRow, Goto, Row, RowStatus, Token, NoRow
  <2>3. QED  BY <1>18, <2>1, <2>2 DEF RollbackRow
<1>19. ASSUME NEW o \in Requests, Return(o)
      PROVE  TypeOK'
  <2>1. pc' \in [Requests -> Pcs]
    BY <1>19 DEF Return, ClearInFlight, Goto
  <2>2. QED  BY <1>19, <2>1 DEF Return, ClearInFlight
<1>20. ASSUME NEW o \in Requests, DestroyStop(o)
      PROVE  TypeOK'
  <2>1. pc' \in [Requests -> Pcs]
    BY <1>20 DEF DestroyStop, Stopped, WithState, Goto
  <2>2. con' \in [Ids -> Container]
    BY <1>20 DEF DestroyStop, Stopped, WithState, Goto, Container, ConState, Token
  <2>3. QED  BY <1>20, <2>1, <2>2 DEF DestroyStop
<1>21. ASSUME NEW o \in Requests, DestroyRemove(o)
      PROVE  TypeOK'
  <2>1. pc' \in [Requests -> Pcs]
    BY <1>21 DEF DestroyRemove, Goto
  <2>2. con' \in [Ids -> Container]
    BY <1>21 DEF DestroyRemove, Goto, Container, ConState, Token, NoCon
  <2>3. QED  BY <1>21, <2>1, <2>2 DEF DestroyRemove
<1>22. ASSUME NEW o \in Requests, DestroyDir(o)
      PROVE  TypeOK'
  <2>1. pc' \in [Requests -> Pcs]
    BY <1>22 DEF DestroyDir, Goto
  <2>2. dir' \in [Ids -> DataDir]
    BY <1>22 DEF DestroyDir, Goto, DataDir
  <2>3. QED  BY <1>22, <2>1, <2>2 DEF DestroyDir
<1>23. ASSUME NEW o \in Requests, DestroyRow(o)
      PROVE  TypeOK'
  <2>1. pc' \in [Requests -> Pcs]
    BY <1>23 DEF DestroyRow, Goto
  <2>2. row' \in [Ids -> Row]
    BY <1>23 DEF DestroyRow, Goto, Row, RowStatus, Token, NoRow
  <2>3. QED  BY <1>23, <2>1, <2>2 DEF DestroyRow
<1>24. ASSUME NEW p \in Procs, Crash(p)
      PROVE  TypeOK'
  <2>1. pc' \in [Requests -> Pcs]
    BY <1>24 DEF Crash, Kill, OfProc
  <2>2. mu' \in [Procs -> Token]
    BY <1>24 DEF Crash, Kill, OfProc, Token
  <2>3. QED  BY <1>24, <2>1, <2>2 DEF Crash
<1>25. CASE Shutdown
  BY <1>25 DEF Shutdown
<1>26. CASE Exit
  <2>1. pc' \in [Requests -> Pcs]
    BY <1>26 DEF Exit, Kill, OfProc
  <2>2. mu' \in [Procs -> Token]
    BY <1>26 DEF Exit, Kill, OfProc, Token
  <2>3. QED  BY <1>26, <2>1, <2>2 DEF Exit
<1>27. CASE Restart
  BY <1>27 DEF Restart
<1>28. CASE UNCHANGED vars
  BY <1>28 DEF vars
<1>29. QED
  BY <1>1, <1>2, <1>3, <1>4, <1>5, <1>6, <1>7, <1>8, <1>9, <1>10, <1>11, <1>12, <1>13, <1>14, <1>15, <1>16, <1>17, <1>18, <1>19, <1>20, <1>21, <1>22, <1>23, <1>24, <1>25, <1>26, <1>27, <1>28 DEF Next, Submit, Step

(* Every action keeps what a request knows where it is. *)
LEMMA RequestStep ==
    ASSUME TypeOK, RequestOK, [Next]_vars
    PROVE  RequestOK'
<1> USE ConstantsAssumption DEF TypeOK, RequestOK, Live
<1>1. ASSUME NEW o \in Requests, NEW i \in Ids, HandleCreate(o, i)
      PROVE  RequestOK'
  BY <1>1 DEF HandleCreate, CanSubmit, Target, Goto
<1>2. ASSUME NEW o \in Requests, NEW i \in Ids, NEW p \in Procs, CliProvision(o, i, p)
      PROVE  RequestOK'
  BY <1>2 DEF CliProvision, CanSubmit, Target, Goto
<1>3. ASSUME NEW o \in Requests, NEW i \in Ids, NEW p \in Procs, NEW rm \in BOOLEAN, BeginDestroy(o, i, p, rm)
      PROVE  RequestOK'
  BY <1>3 DEF BeginDestroy, CanSubmit, Target, Goto
<1>4. ASSUME NEW o \in Requests, CheckExists(o)
      PROVE  RequestOK'
  BY <1>4 DEF CheckExists, ClearInFlight, Goto
<1>5. ASSUME NEW o \in Requests, CheckCap(o)
      PROVE  RequestOK'
  BY <1>5 DEF CheckCap, ClearInFlight, Goto
<1>6. ASSUME NEW o \in Requests, LockAndList(o)
      PROVE  RequestOK'
  BY <1>6 DEF LockAndList, LockFree, Refusal, Goto
<1>7. ASSUME NEW o \in Requests, AllocatePort(o)
      PROVE  RequestOK'
  BY <1>7 DEF AllocatePort, allocatePort, Unlock, Goto
<1>8. ASSUME NEW o \in Requests, ReserveRow(o)
      PROVE  RequestOK'
  BY <1>8 DEF ReserveRow, Unlock, Goto
<1>9. ASSUME NEW o \in Requests, MakeDir(o)
      PROVE  RequestOK'
  BY <1>9 DEF MakeDir, rollback, Goto
<1>10. ASSUME NEW o \in Requests, InjectConfig(o)
      PROVE  RequestOK'
  BY <1>10 DEF InjectConfig, rollback, Goto
<1>11. ASSUME NEW o \in Requests, DockerCreate(o)
      PROVE  RequestOK'
  BY <1>11 DEF DockerCreate, OnNameConflict, rollback, Goto
<1>12. ASSUME NEW o \in Requests, DockerStart(o)
      PROVE  RequestOK'
  BY <1>12 DEF DockerStart, WithState, rollback, Goto
<1>13. ASSUME NEW o \in Requests, PollHealth(o)
      PROVE  RequestOK'
  BY <1>13 DEF PollHealth, rollback, Goto
<1>14. ASSUME NEW o \in Requests, SetRunning(o)
      PROVE  RequestOK'
  BY <1>14 DEF SetRunning, WithStatus, MoreRetries, rollback, Goto
<1>15. ASSUME NEW o \in Requests, RollbackStop(o)
      PROVE  RequestOK'
  BY <1>15 DEF RollbackStop, Stopped, WithState, Goto
<1>16. ASSUME NEW o \in Requests, RollbackRemove(o)
      PROVE  RequestOK'
  BY <1>16 DEF RollbackRemove, Goto
<1>17. ASSUME NEW o \in Requests, RollbackDir(o)
      PROVE  RequestOK'
  BY <1>17 DEF RollbackDir, Goto
<1>18. ASSUME NEW o \in Requests, RollbackRow(o)
      PROVE  RequestOK'
  BY <1>18 DEF RollbackRow, Goto
<1>19. ASSUME NEW o \in Requests, Return(o)
      PROVE  RequestOK'
  BY <1>19 DEF Return, ClearInFlight, Goto
<1>20. ASSUME NEW o \in Requests, DestroyStop(o)
      PROVE  RequestOK'
  BY <1>20 DEF DestroyStop, Stopped, WithState, Goto
<1>21. ASSUME NEW o \in Requests, DestroyRemove(o)
      PROVE  RequestOK'
  BY <1>21 DEF DestroyRemove, Goto
<1>22. ASSUME NEW o \in Requests, DestroyDir(o)
      PROVE  RequestOK'
  BY <1>22 DEF DestroyDir, Goto
<1>23. ASSUME NEW o \in Requests, DestroyRow(o)
      PROVE  RequestOK'
  BY <1>23 DEF DestroyRow, Goto
<1>24. ASSUME NEW p \in Procs, Crash(p)
      PROVE  RequestOK'
  BY <1>24 DEF Crash, Kill, OfProc
<1>25. CASE Shutdown
  BY <1>25 DEF Shutdown
<1>26. CASE Exit
  BY <1>26 DEF Exit, Kill, OfProc
<1>27. CASE Restart
  BY <1>27 DEF Restart
<1>28. CASE UNCHANGED vars
  BY <1>28 DEF vars
<1>29. QED
  BY <1>1, <1>2, <1>3, <1>4, <1>5, <1>6, <1>7, <1>8, <1>9, <1>10, <1>11, <1>12, <1>13, <1>14, <1>15, <1>16, <1>17, <1>18, <1>19, <1>20, <1>21, <1>22, <1>23, <1>24, <1>25, <1>26, <1>27, <1>28 DEF Next, Submit, Step
(* The type invariant: every variable keeps its type, and an operation that
   is under way has a target and a process. *)
THEOREM TypeCorrect == Spec => [](TypeOK /\ RequestOK)
<1>1. Init => TypeOK /\ RequestOK
  BY TypeInit
<1>2. TypeOK /\ RequestOK /\ [Next]_vars => (TypeOK /\ RequestOK)'
  BY TypeStep, RequestStep
<1>3. QED
  BY <1>1, <1>2, PTL DEF Spec

-----------------------------------------------------------------------------
(* service.mu: a Provision call between its List and its Create holds the
   mutex of its process. *)

MutexHeld ==
    \A o \in Requests : pc[o] \in CriticalPcs => mu[req[o].proc] = o

(* Every action keeps the mutex with the one in the critical section. *)
LEMMA MutexStep ==
    ASSUME TypeOK, RequestOK, MutexHeld, [Next]_vars
    PROVE  MutexHeld'
<1> USE ConstantsAssumption DEF TypeOK, RequestOK, MutexHeld, Live
<1>1. ASSUME NEW o \in Requests, NEW i \in Ids, HandleCreate(o, i)
      PROVE  MutexHeld'
  BY <1>1 DEF HandleCreate, CanSubmit, Target, Goto
<1>2. ASSUME NEW o \in Requests, NEW i \in Ids, NEW p \in Procs, CliProvision(o, i, p)
      PROVE  MutexHeld'
  BY <1>2 DEF CliProvision, CanSubmit, Target, Goto
<1>3. ASSUME NEW o \in Requests, NEW i \in Ids, NEW p \in Procs, NEW rm \in BOOLEAN, BeginDestroy(o, i, p, rm)
      PROVE  MutexHeld'
  BY <1>3 DEF BeginDestroy, CanSubmit, Target, Goto
<1>4. ASSUME NEW o \in Requests, CheckExists(o)
      PROVE  MutexHeld'
  BY <1>4 DEF CheckExists, ClearInFlight, Goto
<1>5. ASSUME NEW o \in Requests, CheckCap(o)
      PROVE  MutexHeld'
  BY <1>5 DEF CheckCap, ClearInFlight, Goto
<1>6. ASSUME NEW o \in Requests, LockAndList(o)
      PROVE  MutexHeld'
  BY <1>6 DEF LockAndList, LockFree, Refusal, Goto
<1>7. ASSUME NEW o \in Requests, AllocatePort(o)
      PROVE  MutexHeld'
  BY <1>7 DEF AllocatePort, allocatePort, Unlock, Goto
<1>8. ASSUME NEW o \in Requests, ReserveRow(o)
      PROVE  MutexHeld'
  BY <1>8 DEF ReserveRow, Unlock, Goto
<1>9. ASSUME NEW o \in Requests, MakeDir(o)
      PROVE  MutexHeld'
  BY <1>9 DEF MakeDir, rollback, Goto
<1>10. ASSUME NEW o \in Requests, InjectConfig(o)
      PROVE  MutexHeld'
  BY <1>10 DEF InjectConfig, rollback, Goto
<1>11. ASSUME NEW o \in Requests, DockerCreate(o)
      PROVE  MutexHeld'
  BY <1>11 DEF DockerCreate, OnNameConflict, rollback, Goto
<1>12. ASSUME NEW o \in Requests, DockerStart(o)
      PROVE  MutexHeld'
  BY <1>12 DEF DockerStart, WithState, rollback, Goto
<1>13. ASSUME NEW o \in Requests, PollHealth(o)
      PROVE  MutexHeld'
  BY <1>13 DEF PollHealth, rollback, Goto
<1>14. ASSUME NEW o \in Requests, SetRunning(o)
      PROVE  MutexHeld'
  BY <1>14 DEF SetRunning, WithStatus, MoreRetries, rollback, Goto
<1>15. ASSUME NEW o \in Requests, RollbackStop(o)
      PROVE  MutexHeld'
  BY <1>15 DEF RollbackStop, Stopped, WithState, Goto
<1>16. ASSUME NEW o \in Requests, RollbackRemove(o)
      PROVE  MutexHeld'
  BY <1>16 DEF RollbackRemove, Goto
<1>17. ASSUME NEW o \in Requests, RollbackDir(o)
      PROVE  MutexHeld'
  BY <1>17 DEF RollbackDir, Goto
<1>18. ASSUME NEW o \in Requests, RollbackRow(o)
      PROVE  MutexHeld'
  BY <1>18 DEF RollbackRow, Goto
<1>19. ASSUME NEW o \in Requests, Return(o)
      PROVE  MutexHeld'
  BY <1>19 DEF Return, ClearInFlight, Goto
<1>20. ASSUME NEW o \in Requests, DestroyStop(o)
      PROVE  MutexHeld'
  BY <1>20 DEF DestroyStop, Stopped, WithState, Goto
<1>21. ASSUME NEW o \in Requests, DestroyRemove(o)
      PROVE  MutexHeld'
  BY <1>21 DEF DestroyRemove, Goto
<1>22. ASSUME NEW o \in Requests, DestroyDir(o)
      PROVE  MutexHeld'
  BY <1>22 DEF DestroyDir, Goto
<1>23. ASSUME NEW o \in Requests, DestroyRow(o)
      PROVE  MutexHeld'
  BY <1>23 DEF DestroyRow, Goto
<1>24. ASSUME NEW p \in Procs, Crash(p)
      PROVE  MutexHeld'
  BY <1>24 DEF Crash, Kill, OfProc, Live
<1>25. CASE Shutdown
  BY <1>25 DEF Shutdown
<1>26. CASE Exit
  BY <1>26 DEF Exit, Kill, OfProc, Live
<1>27. CASE Restart
  BY <1>27 DEF Restart
<1>28. CASE UNCHANGED vars
  BY <1>28 DEF vars
<1>29. QED
  BY <1>1, <1>2, <1>3, <1>4, <1>5, <1>6, <1>7, <1>8, <1>9, <1>10, <1>11, <1>12, <1>13, <1>14, <1>15, <1>16, <1>17, <1>18, <1>19, <1>20, <1>21, <1>22, <1>23, <1>24, <1>25, <1>26, <1>27, <1>28 DEF Next, Submit, Step

(* Who is in the critical section holds the mutex, in every reachable state. *)
LEMMA MutexInvariant == Spec => []MutexHeld
<1>1. Init => MutexHeld
  BY DEF Init, MutexHeld
<1>2. QED
  BY <1>1, MutexStep, TypeCorrect, PTL DEF Spec

-----------------------------------------------------------------------------
(* The cap.  The rows together with the processes that are past their List
   and may still insert one stay within the bound. *)

Busy == {p \in Procs : mu[p] # None}

CapInv ==
    Cardinality(Registered) + Cardinality(Busy) <= MaxInstances + Cardinality(Procs) - 1

(* The registry and the set of busy mutexes are finite. *)
LEMMA FiniteRegistry ==
    ASSUME TypeOK
    PROVE  /\ IsFiniteSet(Registered) /\ Cardinality(Registered) \in Nat
           /\ IsFiniteSet(Busy) /\ Cardinality(Busy) \in Nat
           /\ Cardinality(Busy) <= Cardinality(Procs)
           /\ Cardinality(Procs) \in Nat \ {0}
<1>1. Registered \in SUBSET Ids /\ Busy \in SUBSET Procs
  BY DEF Registered, Busy
<1>2. IsFiniteSet(Registered) /\ IsFiniteSet(Busy) /\ Cardinality(Busy) <= Cardinality(Procs)
  BY <1>1, FS_Subset, ConstantsAssumption
<1>3. Cardinality(Registered) \in Nat /\ Cardinality(Busy) \in Nat /\ Cardinality(Procs) \in Nat
  BY <1>2, FS_CardinalityType, ConstantsAssumption
<1>4. Cardinality(Procs) # 0
  BY FS_EmptySet, ConstantsAssumption
<1>5. QED
  BY <1>2, <1>3, <1>4

(* A step that adds no row and locks no mutex keeps the bound. *)
LEMMA CapShrink ==
    ASSUME TypeOK, TypeOK', CapInv,
           \A i \in Ids : row'[i].status # "absent" => row[i].status # "absent",
           \A p \in Procs : mu'[p] # None => mu[p] # None
    PROVE  CapInv'
<1>1. Registered' \in SUBSET Registered /\ Busy' \in SUBSET Busy
  BY DEF Registered, Present, Busy
<1>2. Cardinality(Registered') <= Cardinality(Registered) /\ Cardinality(Busy') <= Cardinality(Busy)
  BY <1>1, FiniteRegistry, FS_Subset
<1>3. Cardinality(Registered') \in Nat /\ Cardinality(Busy') \in Nat
  BY <1>1, FiniteRegistry, FS_Subset, FS_CardinalityType
<1>4. QED
  BY <1>2, <1>3, FiniteRegistry, ConstantsAssumption DEF CapInv

(* Every action keeps rows plus busy mutexes within the bound. *)
LEMMA CapStep ==
    ASSUME TypeOK, TypeOK', RequestOK, MutexHeld, CapInv, [Next]_vars
    PROVE  CapInv'
<1> USE ConstantsAssumption DEF TypeOK, RequestOK, MutexHeld, Live
<1> DEFINE Shrinks ==
        /\ \A i \in Ids : row'[i].status # "absent" => row[i].status # "absent"
        /\ \A p \in Procs : mu'[p] # None => mu[p] # None
<1>1. ASSUME NEW o \in Requests, NEW i \in Ids, HandleCreate(o, i)
      PROVE  Shrinks
  BY <1>1 DEF HandleCreate
<1>2. ASSUME NEW o \in Requests, NEW i \in Ids, NEW p \in Procs, CliProvision(o, i, p)
      PROVE  Shrinks
  BY <1>2 DEF CliProvision
<1>3. ASSUME NEW o \in Requests, NEW i \in Ids, NEW p \in Procs, NEW rm \in BOOLEAN, BeginDestroy(o, i, p, rm)
      PROVE  Shrinks
  BY <1>3 DEF BeginDestroy
<1>4. ASSUME NEW o \in Requests, CheckExists(o)
      PROVE  Shrinks
  BY <1>4 DEF CheckExists
<1>5. ASSUME NEW o \in Requests, CheckCap(o)
      PROVE  Shrinks
  BY <1>5 DEF CheckCap
<1>6. ASSUME NEW o \in Requests, LockAndList(o)
      PROVE  CapInv'
  <2>1. CASE UnderCap /\ row' = row
    <3>1. Registered' = Registered
      BY <2>1 DEF Registered, Present
    <3>2. Cardinality(Registered) <= MaxInstances - 1
      BY <2>1, FiniteRegistry DEF UnderCap
    <3>3. Busy' \in SUBSET Procs
      BY DEF Busy
    <3>4. Cardinality(Busy') \in Nat /\ Cardinality(Busy') <= Cardinality(Procs)
      BY <3>3, FS_Subset, FS_CardinalityType
    <3>5. QED
      BY <3>1, <3>2, <3>4, FiniteRegistry DEF CapInv
  <2>2. CASE row' = row /\ mu' = mu
    BY <2>2, CapShrink
  <2>3. QED
    BY <1>6, <2>1, <2>2 DEF LockAndList
<1>7. ASSUME NEW o \in Requests, AllocatePort(o)
      PROVE  Shrinks
  BY <1>7 DEF AllocatePort, Unlock
<1>8. ASSUME NEW o \in Requests, ReserveRow(o)
      PROVE  CapInv'
  <2>1. req[o].id \in Ids /\ req[o].proc \in Procs /\ mu[req[o].proc] = o
    BY <1>8 DEF ReserveRow
  <2>2. Busy' = Busy \ {req[o].proc} /\ req[o].proc \in Busy
    BY <1>8, <2>1 DEF ReserveRow, Unlock, Busy
  <2>3. Registered' \in SUBSET (Registered \cup {req[o].id})
    BY <1>8, <2>1 DEF ReserveRow, Registered, Present
  <2>4. Cardinality(Busy') = Cardinality(Busy) - 1
    BY <2>2, FiniteRegistry, FS_RemoveElement
  <2>5. /\ IsFiniteSet(Registered \cup {req[o].id})
        /\ Cardinality(Registered \cup {req[o].id}) \in Nat
        /\ Cardinality(Registered \cup {req[o].id}) <= Cardinality(Registered) + 1
    <3> DEFINE R == Registered  j == req[o].id
    <3>1. IsFiniteSet(R) /\ Cardinality(R) \in Nat
      BY FiniteRegistry
    <3> HIDE DEF R, j
    <3>2. /\ IsFiniteSet(R \cup {j})
          /\ Cardinality(R \cup {j}) = IF j \in R THEN Cardinality(R) ELSE Cardinality(R) + 1
      BY <3>1, FS_AddElement, SMTT(30)
    <3>3. QED
      BY <3>1, <3>2 DEF R, j
  <2>6. /\ Cardinality(Registered') \in Nat
        /\ Cardinality(Registered') <= Cardinality(Registered) + 1
    BY <2>3, <2>5, FiniteRegistry, FS_Subset, FS_CardinalityType
  <2>7. QED
    BY <2>4, <2>6, FiniteRegistry DEF CapInv
<1>9. ASSUME NEW o \in Requests, MakeDir(o)
      PROVE  Shrinks
  BY <1>9 DEF MakeDir
<1>10. ASSUME NEW o \in Requests, InjectConfig(o)
      PROVE  Shrinks
  BY <1>10 DEF InjectConfig
<1>11. ASSUME NEW o \in Requests, DockerCreate(o)
      PROVE  Shrinks
  BY <1>11 DEF DockerCreate
<1>12. ASSUME NEW o \in Requests, DockerStart(o)
      PROVE  Shrinks
  BY <1>12 DEF DockerStart
<1>13. ASSUME NEW o \in Requests, PollHealth(o)
      PROVE  Shrinks
  BY <1>13 DEF PollHealth
<1>14. ASSUME NEW o \in Requests, SetRunning(o)
      PROVE  Shrinks
  BY <1>14 DEF SetRunning, Present, WithStatus
<1>15. ASSUME NEW o \in Requests, RollbackStop(o)
      PROVE  Shrinks
  BY <1>15 DEF RollbackStop
<1>16. ASSUME NEW o \in Requests, RollbackRemove(o)
      PROVE  Shrinks
  BY <1>16 DEF RollbackRemove
<1>17. ASSUME NEW o \in Requests, RollbackDir(o)
      PROVE  Shrinks
  BY <1>17 DEF RollbackDir
<1>18. ASSUME NEW o \in Requests, RollbackRow(o)
      PROVE  Shrinks
  BY <1>18 DEF RollbackRow, NoRow
<1>19. ASSUME NEW o \in Requests, Return(o)
      PROVE  Shrinks
  BY <1>19 DEF Return
<1>20. ASSUME NEW o \in Requests, DestroyStop(o)
      PROVE  Shrinks
  BY <1>20 DEF DestroyStop
<1>21. ASSUME NEW o \in Requests, DestroyRemove(o)
      PROVE  Shrinks
  BY <1>21 DEF DestroyRemove
<1>22. ASSUME NEW o \in Requests, DestroyDir(o)
      PROVE  Shrinks
  BY <1>22 DEF DestroyDir
<1>23. ASSUME NEW o \in Requests, DestroyRow(o)
      PROVE  Shrinks
  BY <1>23 DEF DestroyRow, NoRow
<1>24. ASSUME NEW p \in Procs, Crash(p)
      PROVE  Shrinks
  BY <1>24 DEF Crash, Kill
<1>25. ASSUME Shutdown
      PROVE  Shrinks
  BY <1>25 DEF Shutdown
<1>26. ASSUME Exit
      PROVE  Shrinks
  BY <1>26 DEF Exit, Kill
<1>27. ASSUME Restart
      PROVE  Shrinks
  BY <1>27 DEF Restart
<1>28. ASSUME UNCHANGED vars
      PROVE  Shrinks
  BY <1>28 DEF vars
<1>29. Shrinks => CapInv'
  BY CapShrink
<1> HIDE DEF Shrinks
<1>30. QED
  BY <1>1, <1>2, <1>3, <1>4, <1>5, <1>6, <1>7, <1>8, <1>9, <1>10, <1>11, <1>12, <1>13, <1>14, <1>15, <1>16, <1>17, <1>18, <1>19, <1>20, <1>21, <1>22, <1>23, <1>24, <1>25, <1>26, <1>27, <1>28, <1>29 DEF Next, Submit, Step

(* The bound on the registry for any number of processes: each CLI process can
   exceed the cap by one row, because its service.mu is its own. *)
THEOREM CapBounded == Spec => []CapBound
<1>1. Init => CapInv
  <2> SUFFICES ASSUME Init PROVE CapInv
    OBVIOUS
  <2>1. Registered = {} /\ Busy = {}
    BY DEF Init, Registered, Present, Busy, NoRow
  <2>2. Cardinality(Registered) = 0 /\ Cardinality(Busy) = 0
    BY <2>1, FS_EmptySet
  <2>3. QED
    BY <2>2, TypeInit, FiniteRegistry, ConstantsAssumption DEF CapInv
<1>2. TypeOK /\ CapInv => CapBound
  BY FiniteRegistry, ConstantsAssumption DEF CapInv, CapBound
<1>3. QED
  BY <1>1, <1>2, CapStep, TypeCorrect, MutexInvariant, PTL DEF Spec

(* The cap proper: with the server as the only process, the registry never
   holds more than max_instances rows. *)
THEOREM CapHolds == ASSUME Procs = {Server} PROVE Spec => []CapRespected
<1>1. CapBound => CapRespected
  BY FS_Singleton, ConstantsAssumption DEF CapBound, CapRespected
<1>2. QED
  BY <1>1, CapBounded, PTL

-----------------------------------------------------------------------------
(* Ownership: a panel create has its id marked in flight and is the only one
   for that id, in every interleaving with destroys, CLI commands, crashes and
   restarts. *)

PanelOwner ==
    \A o \in Requests :
        pc[o] \in CreatePcs /\ req[o].proc = Server =>
            /\ req[o].id \in inFlight
            /\ \A x \in Requests :
                  pc[x] \in CreatePcs /\ req[x].proc = Server /\ req[x].id = req[o].id => x = o

(* Every action keeps one panel create past the in-flight check of an id. *)
LEMMA PanelOwnerStep ==
    ASSUME TypeOK, RequestOK, PanelOwner, [Next]_vars
    PROVE  PanelOwner'
<1> USE ConstantsAssumption DEF TypeOK, RequestOK, PanelOwner, Live, Request
<1>1. ASSUME NEW o \in Requests, NEW i \in Ids, HandleCreate(o, i)
      PROVE  PanelOwner'
  BY <1>1 DEF HandleCreate, CanSubmit, Target, Goto, NotInFlight
<1>2. ASSUME NEW o \in Requests, NEW i \in Ids, NEW p \in Procs, CliProvision(o, i, p)
      PROVE  PanelOwner'
  BY <1>2 DEF CliProvision, CanSubmit, Target, Goto
<1>3. ASSUME NEW o \in Requests, NEW i \in Ids, NEW p \in Procs, NEW rm \in BOOLEAN, BeginDestroy(o, i, p, rm)
      PROVE  PanelOwner'
  BY <1>3 DEF BeginDestroy, CanSubmit, Target, Goto
<1>4. ASSUME NEW o \in Requests, CheckExists(o)
      PROVE  PanelOwner'
  BY <1>4 DEF CheckExists, ClearInFlight, Goto
<1>5. ASSUME NEW o \in Requests, CheckCap(o)
      PROVE  PanelOwner'
  BY <1>5 DEF CheckCap, ClearInFlight, Goto
<1>6. ASSUME NEW o \in Requests, LockAndList(o)
      PROVE  PanelOwner'
  BY <1>6 DEF LockAndList, LockFree, Refusal, Goto
<1>7. ASSUME NEW o \in Requests, AllocatePort(o)
      PROVE  PanelOwner'
  BY <1>7 DEF AllocatePort, allocatePort, Unlock, Goto
<1>8. ASSUME NEW o \in Requests, ReserveRow(o)
      PROVE  PanelOwner'
  BY <1>8 DEF ReserveRow, Unlock, Goto
<1>9. ASSUME NEW o \in Requests, MakeDir(o)
      PROVE  PanelOwner'
  BY <1>9 DEF MakeDir, rollback, Goto
<1>10. ASSUME NEW o \in Requests, InjectConfig(o)
      PROVE  PanelOwner'
  BY <1>10 DEF InjectConfig, rollback, Goto
<1>11. ASSUME NEW o \in Requests, DockerCreate(o)
      PROVE  PanelOwner'
  BY <1>11 DEF DockerCreate, OnNameConflict, rollback, Goto
<1>12. ASSUME NEW o \in Requests, DockerStart(o)
      PROVE  PanelOwner'
  BY <1>12 DEF DockerStart, WithState, rollback, Goto
<1>13. ASSUME NEW o \in Requests, PollHealth(o)
      PROVE  PanelOwner'
  BY <1>13 DEF PollHealth, rollback, Goto
<1>14. ASSUME NEW o \in Requests, SetRunning(o)
      PROVE  PanelOwner'
  BY <1>14 DEF SetRunning, WithStatus, MoreRetries, rollback, Goto
<1>15. ASSUME NEW o \in Requests, RollbackStop(o)
      PROVE  PanelOwner'
  BY <1>15 DEF RollbackStop, Stopped, WithState, Goto
<1>16. ASSUME NEW o \in Requests, RollbackRemove(o)
      PROVE  PanelOwner'
  BY <1>16 DEF RollbackRemove, Goto
<1>17. ASSUME NEW o \in Requests, RollbackDir(o)
      PROVE  PanelOwner'
  BY <1>17 DEF RollbackDir, Goto
<1>18. ASSUME NEW o \in Requests, RollbackRow(o)
      PROVE  PanelOwner'
  BY <1>18 DEF RollbackRow, Goto
<1>19. ASSUME NEW o \in Requests, Return(o)
      PROVE  PanelOwner'
  BY <1>19 DEF Return, ClearInFlight, Goto
<1>20. ASSUME NEW o \in Requests, DestroyStop(o)
      PROVE  PanelOwner'
  BY <1>20 DEF DestroyStop, Stopped, WithState, Goto
<1>21. ASSUME NEW o \in Requests, DestroyRemove(o)
      PROVE  PanelOwner'
  BY <1>21 DEF DestroyRemove, Goto
<1>22. ASSUME NEW o \in Requests, DestroyDir(o)
      PROVE  PanelOwner'
  BY <1>22 DEF DestroyDir, Goto
<1>23. ASSUME NEW o \in Requests, DestroyRow(o)
      PROVE  PanelOwner'
  BY <1>23 DEF DestroyRow, Goto
<1>24. ASSUME NEW p \in Procs, Crash(p)
      PROVE  PanelOwner'
  BY <1>24 DEF Crash, Kill, OfProc, Live
<1>25. CASE Shutdown
  BY <1>25 DEF Shutdown
<1>26. CASE Exit
  BY <1>26 DEF Exit, Kill, OfProc, Live
<1>27. CASE Restart
  BY <1>27 DEF Restart
<1>28. CASE UNCHANGED vars
  BY <1>28 DEF vars
<1> HIDE DEF TypeOK, RequestOK, PanelOwner, Live
<1>29. QED
  BY <1>1, <1>2, <1>3, <1>4, <1>5, <1>6, <1>7, <1>8, <1>9, <1>10, <1>11, <1>12, <1>13, <1>14, <1>15, <1>16, <1>17, <1>18, <1>19, <1>20, <1>21, <1>22, <1>23, <1>24, <1>25, <1>26, <1>27, <1>28 DEF Next, Submit, Step

(* Panel creates own their id exclusively, whatever other processes do. *)
THEOREM PanelOwnership == Spec => []PanelOwner
<1>1. Init => PanelOwner
  BY DEF Init, PanelOwner
<1>2. QED
  BY <1>1, PanelOwnerStep, TypeCorrect, PTL DEF Spec

(* With the server as the only process no two Provision calls ever deploy or
   roll back the same instance. *)
THEOREM OneOwner == ASSUME Procs = {Server} PROVE Spec => []SoleOwner
<1>1. TypeOK /\ RequestOK /\ PanelOwner => SoleOwner
  BY DEF RequestOK, PanelOwner, SoleOwner, Owning, Live
<1>2. QED
  BY <1>1, TypeCorrect, PanelOwnership, PTL

-----------------------------------------------------------------------------
(* The port stays free from UsedPorts to Create: only a Provision call that
   holds the same mutex could take it. *)

(* Every action keeps the port that was picked out of the registry. *)
LEMMA FreshPortStep ==
    ASSUME Procs = {Server}, TypeOK, TypeOK', RequestOK, MutexHeld, FreshPort, [Next]_vars
    PROVE  FreshPort'
<1> USE ConstantsAssumption DEF TypeOK, RequestOK, MutexHeld, FreshPort, Live, UsedPorts, Registered, Present
<1>1. ASSUME NEW o \in Requests, NEW i \in Ids, HandleCreate(o, i)
      PROVE  FreshPort'
  BY <1>1 DEF HandleCreate, CanSubmit, Target, Goto
<1>2. ASSUME NEW o \in Requests, NEW i \in Ids, NEW p \in Procs, CliProvision(o, i, p)
      PROVE  FreshPort'
  BY <1>2 DEF CliProvision, CanSubmit, Target, Goto
<1>3. ASSUME NEW o \in Requests, NEW i \in Ids, NEW p \in Procs, NEW rm \in BOOLEAN, BeginDestroy(o, i, p, rm)
      PROVE  FreshPort'
  BY <1>3 DEF BeginDestroy, CanSubmit, Target, Goto
<1>4. ASSUME NEW o \in Requests, CheckExists(o)
      PROVE  FreshPort'
  BY <1>4 DEF CheckExists, ClearInFlight, Goto
<1>5. ASSUME NEW o \in Requests, CheckCap(o)
      PROVE  FreshPort'
  BY <1>5 DEF CheckCap, ClearInFlight, Goto
<1>6. ASSUME NEW o \in Requests, LockAndList(o)
      PROVE  FreshPort'
  BY <1>6 DEF LockAndList, LockFree, Refusal, Goto
<1>7. ASSUME NEW o \in Requests, AllocatePort(o)
      PROVE  FreshPort'
  BY <1>7 DEF AllocatePort, allocatePort, Unlock, Goto
<1>8. ASSUME NEW o \in Requests, ReserveRow(o)
      PROVE  FreshPort'
  BY <1>8 DEF ReserveRow, Unlock, Goto
<1>9. ASSUME NEW o \in Requests, MakeDir(o)
      PROVE  FreshPort'
  BY <1>9 DEF MakeDir, rollback, Goto
<1>10. ASSUME NEW o \in Requests, InjectConfig(o)
      PROVE  FreshPort'
  BY <1>10 DEF InjectConfig, rollback, Goto
<1>11. ASSUME NEW o \in Requests, DockerCreate(o)
      PROVE  FreshPort'
  BY <1>11 DEF DockerCreate, OnNameConflict, rollback, Goto
<1>12. ASSUME NEW o \in Requests, DockerStart(o)
      PROVE  FreshPort'
  BY <1>12 DEF DockerStart, WithState, rollback, Goto
<1>13. ASSUME NEW o \in Requests, PollHealth(o)
      PROVE  FreshPort'
  BY <1>13 DEF PollHealth, rollback, Goto
<1>14. ASSUME NEW o \in Requests, SetRunning(o)
      PROVE  FreshPort'
  BY <1>14 DEF SetRunning, WithStatus, MoreRetries, rollback, Goto
<1>15. ASSUME NEW o \in Requests, RollbackStop(o)
      PROVE  FreshPort'
  BY <1>15 DEF RollbackStop, Stopped, WithState, Goto
<1>16. ASSUME NEW o \in Requests, RollbackRemove(o)
      PROVE  FreshPort'
  BY <1>16 DEF RollbackRemove, Goto
<1>17. ASSUME NEW o \in Requests, RollbackDir(o)
      PROVE  FreshPort'
  BY <1>17 DEF RollbackDir, Goto
<1>18. ASSUME NEW o \in Requests, RollbackRow(o)
      PROVE  FreshPort'
  BY <1>18 DEF RollbackRow, Goto, NoRow
<1>19. ASSUME NEW o \in Requests, Return(o)
      PROVE  FreshPort'
  BY <1>19 DEF Return, ClearInFlight, Goto
<1>20. ASSUME NEW o \in Requests, DestroyStop(o)
      PROVE  FreshPort'
  BY <1>20 DEF DestroyStop, Stopped, WithState, Goto
<1>21. ASSUME NEW o \in Requests, DestroyRemove(o)
      PROVE  FreshPort'
  BY <1>21 DEF DestroyRemove, Goto
<1>22. ASSUME NEW o \in Requests, DestroyDir(o)
      PROVE  FreshPort'
  BY <1>22 DEF DestroyDir, Goto
<1>23. ASSUME NEW o \in Requests, DestroyRow(o)
      PROVE  FreshPort'
  BY <1>23, SMTT(30) DEF DestroyRow, Goto, NoRow
<1>24. ASSUME NEW p \in Procs, Crash(p)
      PROVE  FreshPort'
  BY <1>24 DEF Crash, Kill, OfProc, Live
<1>25. CASE Shutdown
  BY <1>25 DEF Shutdown
<1>26. CASE Exit
  BY <1>26 DEF Exit, Kill, OfProc, Live
<1>27. CASE Restart
  BY <1>27 DEF Restart
<1>28. CASE UNCHANGED vars
  BY <1>28 DEF vars
<1>29. QED
  BY <1>1, <1>2, <1>3, <1>4, <1>5, <1>6, <1>7, <1>8, <1>9, <1>10, <1>11, <1>12, <1>13, <1>14, <1>15, <1>16, <1>17, <1>18, <1>19, <1>20, <1>21, <1>22, <1>23, <1>24, <1>25, <1>26, <1>27, <1>28 DEF Next, Submit, Step

(* With the server as the only process registry.Create never meets the UNIQUE
   constraint on port. *)
THEOREM PortStaysFresh == ASSUME Procs = {Server} PROVE Spec => []FreshPort
<1>1. Init => FreshPort
  BY DEF Init, FreshPort
<1>2. QED
  BY <1>1, FreshPortStep, TypeCorrect, MutexInvariant, PTL DEF Spec

-----------------------------------------------------------------------------
(* Rows and containers keep the port and the tokens of the Provision call that
   made them, and a running row goes with its own container. *)

PortFixed == Pcs \ ({"new", "spawned"} \cup HandlerPcs \cup CriticalPcs)

RowOrigin ==
    \A i \in Ids : row[i].status # "absent" =>
        /\ row[i].token \in Requests
        /\ pc[row[i].token] \in PortFixed
        /\ row[i].port = port[row[i].token]

ConOrigin ==
    \A i \in Ids :
        IF con[i].state = "absent" THEN con[i].token = None
        ELSE /\ con[i].token \in Requests
             /\ pc[con[i].token] \in PortFixed
             /\ con[i].port = port[con[i].token]

OwnsRow ==
    \A o \in Requests :
        pc[o] \in Owning /\ row[req[o].id].status # "absent" =>
            row[req[o].id].token = o /\ row[req[o].id].status = "provisioning"

OwnsContainer ==
    \A o \in Requests :
        pc[o] \in {"start", "health", "status"} => con[req[o].id].token \in {o, None}

RunningMatch ==
    \A i \in Ids :
        row[i].status = "running" /\ con[i].state # "absent" => con[i].token = row[i].token

(* Every action keeps each row traced to the create that made it. *)
LEMMA RowOriginStep ==
    ASSUME TypeOK, RequestOK, RowOrigin, [Next]_vars
    PROVE  RowOrigin'
<1> USE ConstantsAssumption DEF TypeOK, RequestOK, RowOrigin, PortFixed, Live
<1>1. ASSUME NEW o \in Requests, NEW i \in Ids, HandleCreate(o, i)
      PROVE  RowOrigin'
  BY <1>1 DEF HandleCreate, CanSubmit, Target, Goto
<1>2. ASSUME NEW o \in Requests, NEW i \in Ids, NEW p \in Procs, CliProvision(o, i, p)
      PROVE  RowOrigin'
  BY <1>2 DEF CliProvision, CanSubmit, Target, Goto
<1>3. ASSUME NEW o \in Requests, NEW i \in Ids, NEW p \in Procs, NEW rm \in BOOLEAN, BeginDestroy(o, i, p, rm)
      PROVE  RowOrigin'
  BY <1>3 DEF BeginDestroy, CanSubmit, Target, Goto
<1>4. ASSUME NEW o \in Requests, CheckExists(o)
      PROVE  RowOrigin'
  BY <1>4 DEF CheckExists, ClearInFlight, Goto
<1>5. ASSUME NEW o \in Requests, CheckCap(o)
      PROVE  RowOrigin'
  BY <1>5 DEF CheckCap, ClearInFlight, Goto
<1>6. ASSUME NEW o \in Requests, LockAndList(o)
      PROVE  RowOrigin'
  BY <1>6 DEF LockAndList, LockFree, Refusal, Goto
<1>7. ASSUME NEW o \in Requests, AllocatePort(o)
      PROVE  RowOrigin'
  BY <1>7 DEF AllocatePort, allocatePort, Unlock, Goto
<1>8. ASSUME NEW o \in Requests, ReserveRow(o)
      PROVE  RowOrigin'
  BY <1>8 DEF ReserveRow, Unlock, Goto
<1>9. ASSUME NEW o \in Requests, MakeDir(o)
      PROVE  RowOrigin'
  BY <1>9 DEF MakeDir, rollback, Goto
<1>10. ASSUME NEW o \in Requests, InjectConfig(o)
      PROVE  RowOrigin'
  BY <1>10 DEF InjectConfig, rollback, Goto
<1>11. ASSUME NEW o \in Requests, DockerCreate(o)
      PROVE  RowOrigin'
  BY <1>11 DEF DockerCreate, OnNameConflict, rollback, Goto
<1>12. ASSUME NEW o \in Requests, DockerStart(o)
      PROVE  RowOrigin'
  BY <1>12 DEF DockerStart, WithState, rollback, Goto
<1>13. ASSUME NEW o \in Requests, PollHealth(o)
      PROVE  RowOrigin'
  BY <1>13 DEF PollHealth, rollback, Goto
<1>14. ASSUME NEW o \in Requests, SetRunning(o)
      PROVE  RowOrigin'
  BY <1>14 DEF SetRunning, WithStatus, MoreRetries, rollback, Goto, Present
<1>15. ASSUME NEW o \in Requests, RollbackStop(o)
      PROVE  RowOrigin'
  BY <1>15 DEF RollbackStop, Stopped, WithState, Goto
<1>16. ASSUME NEW o \in Requests, RollbackRemove(o)
      PROVE  RowOrigin'
  BY <1>16 DEF RollbackRemove, Goto
<1>17. ASSUME NEW o \in Requests, RollbackDir(o)
      PROVE  RowOrigin'
  BY <1>17 DEF RollbackDir, Goto
<1>18. ASSUME NEW o \in Requests, RollbackRow(o)
      PROVE  RowOrigin'
  BY <1>18 DEF RollbackRow, Goto, NoRow
<1>19. ASSUME NEW o \in Requests, Return(o)
      PROVE  RowOrigin'
  BY <1>19 DEF Return, ClearInFlight, Goto
<1>20. ASSUME NEW o \in Requests, DestroyStop(o)
      PROVE  RowOrigin'
  BY <1>20 DEF DestroyStop, Stopped, WithState, Goto
<1>21. ASSUME NEW o \in Requests, DestroyRemove(o)
      PROVE  RowOrigin'
  BY <1>21 DEF DestroyRemove, Goto
<1>22. ASSUME NEW o \in Requests, DestroyDir(o)
      PROVE  RowOrigin'
  BY <1>22 DEF DestroyDir, Goto
<1>23. ASSUME NEW o \in Requests, DestroyRow(o)
      PROVE  RowOrigin'
  BY <1>23 DEF DestroyRow, Goto, NoRow
<1>24. ASSUME NEW p \in Procs, Crash(p)
      PROVE  RowOrigin'
  BY <1>24 DEF Crash, Kill, OfProc, Live
<1>25. CASE Shutdown
  BY <1>25 DEF Shutdown
<1>26. CASE Exit
  BY <1>26 DEF Exit, Kill, OfProc, Live
<1>27. CASE Restart
  BY <1>27 DEF Restart
<1>28. CASE UNCHANGED vars
  BY <1>28 DEF vars
<1> HIDE DEF TypeOK, RequestOK, RowOrigin, PortFixed, Live
<1>29. QED
  BY <1>1, <1>2, <1>3, <1>4, <1>5, <1>6, <1>7, <1>8, <1>9, <1>10, <1>11, <1>12, <1>13, <1>14, <1>15, <1>16, <1>17, <1>18, <1>19, <1>20, <1>21, <1>22, <1>23, <1>24, <1>25, <1>26, <1>27, <1>28 DEF Next, Submit, Step

(* Every action keeps each container traced to the create that made it. *)
LEMMA ConOriginStep ==
    ASSUME TypeOK, RequestOK, ConOrigin, [Next]_vars
    PROVE  ConOrigin'
<1> USE ConstantsAssumption DEF TypeOK, RequestOK, ConOrigin, PortFixed, Live
<1>1. ASSUME NEW o \in Requests, NEW i \in Ids, HandleCreate(o, i)
      PROVE  ConOrigin'
  BY <1>1 DEF HandleCreate, CanSubmit, Target, Goto
<1>2. ASSUME NEW o \in Requests, NEW i \in Ids, NEW p \in Procs, CliProvision(o, i, p)
      PROVE  ConOrigin'
  BY <1>2 DEF CliProvision, CanSubmit, Target, Goto
<1>3. ASSUME NEW o \in Requests, NEW i \in Ids, NEW p \in Procs, NEW rm \in BOOLEAN, BeginDestroy(o, i, p, rm)
      PROVE  ConOrigin'
  BY <1>3 DEF BeginDestroy, CanSubmit, Target, Goto
<1>4. ASSUME NEW o \in Requests, CheckExists(o)
      PROVE  ConOrigin'
  BY <1>4 DEF CheckExists, ClearInFlight, Goto
<1>5. ASSUME NEW o \in Requests, CheckCap(o)
      PROVE  ConOrigin'
  BY <1>5 DEF CheckCap, ClearInFlight, Goto
<1>6. ASSUME NEW o \in Requests, LockAndList(o)
      PROVE  ConOrigin'
  BY <1>6 DEF LockAndList, LockFree, Refusal, Goto
<1>7. ASSUME NEW o \in Requests, AllocatePort(o)
      PROVE  ConOrigin'
  BY <1>7 DEF AllocatePort, allocatePort, Unlock, Goto
<1>8. ASSUME NEW o \in Requests, ReserveRow(o)
      PROVE  ConOrigin'
  BY <1>8 DEF ReserveRow, Unlock, Goto
<1>9. ASSUME NEW o \in Requests, MakeDir(o)
      PROVE  ConOrigin'
  BY <1>9 DEF MakeDir, rollback, Goto
<1>10. ASSUME NEW o \in Requests, InjectConfig(o)
      PROVE  ConOrigin'
  BY <1>10 DEF InjectConfig, rollback, Goto
<1>11. ASSUME NEW o \in Requests, DockerCreate(o)
      PROVE  ConOrigin'
  BY <1>11 DEF DockerCreate, OnNameConflict, rollback, Goto
<1>12. ASSUME NEW o \in Requests, DockerStart(o)
      PROVE  ConOrigin'
  BY <1>12 DEF DockerStart, WithState, rollback, Goto
<1>13. ASSUME NEW o \in Requests, PollHealth(o)
      PROVE  ConOrigin'
  BY <1>13 DEF PollHealth, rollback, Goto
<1>14. ASSUME NEW o \in Requests, SetRunning(o)
      PROVE  ConOrigin'
  BY <1>14 DEF SetRunning, WithStatus, MoreRetries, rollback, Goto
<1>15. ASSUME NEW o \in Requests, RollbackStop(o)
      PROVE  ConOrigin'
  BY <1>15, SMTT(30) DEF RollbackStop, Stopped, WithState, Goto
<1>16. ASSUME NEW o \in Requests, RollbackRemove(o)
      PROVE  ConOrigin'
  BY <1>16 DEF RollbackRemove, Goto, NoCon
<1>17. ASSUME NEW o \in Requests, RollbackDir(o)
      PROVE  ConOrigin'
  BY <1>17 DEF RollbackDir, Goto
<1>18. ASSUME NEW o \in Requests, RollbackRow(o)
      PROVE  ConOrigin'
  BY <1>18 DEF RollbackRow, Goto
<1>19. ASSUME NEW o \in Requests, Return(o)
      PROVE  ConOrigin'
  BY <1>19 DEF Return, ClearInFlight, Goto
<1>20. ASSUME NEW o \in Requests, DestroyStop(o)
      PROVE  ConOrigin'
  BY <1>20 DEF DestroyStop, Stopped, WithState, Goto
<1>21. ASSUME NEW o \in Requests, DestroyRemove(o)
      PROVE  ConOrigin'
  BY <1>21 DEF DestroyRemove, Goto, NoCon
<1>22. ASSUME NEW o \in Requests, DestroyDir(o)
      PROVE  ConOrigin'
  BY <1>22 DEF DestroyDir, Goto
<1>23. ASSUME NEW o \in Requests, DestroyRow(o)
      PROVE  ConOrigin'
  BY <1>23 DEF DestroyRow, Goto
<1>24. ASSUME NEW p \in Procs, Crash(p)
      PROVE  ConOrigin'
  BY <1>24 DEF Crash, Kill, OfProc, Live
<1>25. CASE Shutdown
  BY <1>25 DEF Shutdown
<1>26. CASE Exit
  BY <1>26 DEF Exit, Kill, OfProc, Live
<1>27. CASE Restart
  BY <1>27 DEF Restart
<1>28. CASE UNCHANGED vars
  BY <1>28 DEF vars
<1> HIDE DEF TypeOK, RequestOK, ConOrigin, PortFixed, Live
<1>29. QED
  BY <1>1, <1>2, <1>3, <1>4, <1>5, <1>6, <1>7, <1>8, <1>9, <1>10, <1>11, <1>12, <1>13, <1>14, <1>15, <1>16, <1>17, <1>18, <1>19, <1>20, <1>21, <1>22, <1>23, <1>24, <1>25, <1>26, <1>27, <1>28 DEF Next, Submit, Step

(* Every action keeps the row of the create that is deploying. *)
LEMMA OwnsRowStep ==
    ASSUME Procs = {Server}, TypeOK, RequestOK, PanelOwner, OwnsRow, [Next]_vars
    PROVE  OwnsRow'
<1> USE ConstantsAssumption DEF TypeOK, RequestOK, PanelOwner, OwnsRow, Owning, Live
<1>1. ASSUME NEW o \in Requests, NEW i \in Ids, HandleCreate(o, i)
      PROVE  OwnsRow'
  BY <1>1 DEF HandleCreate, CanSubmit, Target, Goto
<1>2. ASSUME NEW o \in Requests, NEW i \in Ids, NEW p \in Procs, CliProvision(o, i, p)
      PROVE  OwnsRow'
  BY <1>2 DEF CliProvision, CanSubmit, Target, Goto
<1>3. ASSUME NEW o \in Requests, NEW i \in Ids, NEW p \in Procs, NEW rm \in BOOLEAN, BeginDestroy(o, i, p, rm)
      PROVE  OwnsRow'
  BY <1>3 DEF BeginDestroy, CanSubmit, Target, Goto
<1>4. ASSUME NEW o \in Requests, CheckExists(o)
      PROVE  OwnsRow'
  BY <1>4 DEF CheckExists, ClearInFlight, Goto
<1>5. ASSUME NEW o \in Requests, CheckCap(o)
      PROVE  OwnsRow'
  BY <1>5 DEF CheckCap, ClearInFlight, Goto
<1>6. ASSUME NEW o \in Requests, LockAndList(o)
      PROVE  OwnsRow'
  BY <1>6 DEF LockAndList, LockFree, Refusal, Goto
<1>7. ASSUME NEW o \in Requests, AllocatePort(o)
      PROVE  OwnsRow'
  BY <1>7 DEF AllocatePort, allocatePort, Unlock, Goto
<1>8. ASSUME NEW o \in Requests, ReserveRow(o)
      PROVE  OwnsRow'
  BY <1>8 DEF ReserveRow, Unlock, Goto
<1>9. ASSUME NEW o \in Requests, MakeDir(o)
      PROVE  OwnsRow'
  BY <1>9 DEF MakeDir, rollback, Goto
<1>10. ASSUME NEW o \in Requests, InjectConfig(o)
      PROVE  OwnsRow'
  BY <1>10 DEF InjectConfig, rollback, Goto
<1>11. ASSUME NEW o \in Requests, DockerCreate(o)
      PROVE  OwnsRow'
  BY <1>11 DEF DockerCreate, OnNameConflict, rollback, Goto
<1>12. ASSUME NEW o \in Requests, DockerStart(o)
      PROVE  OwnsRow'
  BY <1>12 DEF DockerStart, WithState, rollback, Goto
<1>13. ASSUME NEW o \in Requests, PollHealth(o)
      PROVE  OwnsRow'
  BY <1>13 DEF PollHealth, rollback, Goto
<1>14. ASSUME NEW o \in Requests, SetRunning(o)
      PROVE  OwnsRow'
  BY <1>14 DEF SetRunning, WithStatus, MoreRetries, rollback, Goto, Present
<1>15. ASSUME NEW o \in Requests, RollbackStop(o)
      PROVE  OwnsRow'
  BY <1>15 DEF RollbackStop, Stopped, WithState, Goto
<1>16. ASSUME NEW o \in Requests, RollbackRemove(o)
      PROVE  OwnsRow'
  BY <1>16 DEF RollbackRemove, Goto
<1>17. ASSUME NEW o \in Requests, RollbackDir(o)
      PROVE  OwnsRow'
  BY <1>17 DEF RollbackDir, Goto
<1>18. ASSUME NEW o \in Requests, RollbackRow(o)
      PROVE  OwnsRow'
  BY <1>18 DEF RollbackRow, Goto, NoRow
<1>19. ASSUME NEW o \in Requests, Return(o)
      PROVE  OwnsRow'
  BY <1>19 DEF Return, ClearInFlight, Goto
<1>20. ASSUME NEW o \in Requests, DestroyStop(o)
      PROVE  OwnsRow'
  BY <1>20 DEF DestroyStop, Stopped, WithState, Goto
<1>21. ASSUME NEW o \in Requests, DestroyRemove(o)
      PROVE  OwnsRow'
  BY <1>21 DEF DestroyRemove, Goto
<1>22. ASSUME NEW o \in Requests, DestroyDir(o)
      PROVE  OwnsRow'
  BY <1>22 DEF DestroyDir, Goto
<1>23. ASSUME NEW o \in Requests, DestroyRow(o)
      PROVE  OwnsRow'
  BY <1>23 DEF DestroyRow, Goto, NoRow
<1>24. ASSUME NEW p \in Procs, Crash(p)
      PROVE  OwnsRow'
  BY <1>24 DEF Crash, Kill, OfProc, Live
<1>25. CASE Shutdown
  BY <1>25 DEF Shutdown
<1>26. CASE Exit
  BY <1>26 DEF Exit, Kill, OfProc, Live
<1>27. CASE Restart
  BY <1>27 DEF Restart
<1>28. CASE UNCHANGED vars
  BY <1>28 DEF vars
<1> HIDE DEF TypeOK, RequestOK, PanelOwner, OwnsRow, Owning, Live
<1>29. QED
  BY <1>1, <1>2, <1>3, <1>4, <1>5, <1>6, <1>7, <1>8, <1>9, <1>10, <1>11, <1>12, <1>13, <1>14, <1>15, <1>16, <1>17, <1>18, <1>19, <1>20, <1>21, <1>22, <1>23, <1>24, <1>25, <1>26, <1>27, <1>28 DEF Next, Submit, Step

(* Every action keeps the container of the create that is deploying. *)
LEMMA OwnsContainerStep ==
    ASSUME Procs = {Server}, TypeOK, RequestOK, PanelOwner, OwnsContainer, [Next]_vars
    PROVE  OwnsContainer'
<1> USE ConstantsAssumption DEF TypeOK, RequestOK, PanelOwner, OwnsContainer, Live
<1>1. ASSUME NEW o \in Requests, NEW i \in Ids, HandleCreate(o, i)
      PROVE  OwnsContainer'
  BY <1>1 DEF HandleCreate, CanSubmit, Target, Goto
<1>2. ASSUME NEW o \in Requests, NEW i \in Ids, NEW p \in Procs, CliProvision(o, i, p)
      PROVE  OwnsContainer'
  BY <1>2 DEF CliProvision, CanSubmit, Target, Goto
<1>3. ASSUME NEW o \in Requests, NEW i \in Ids, NEW p \in Procs, NEW rm \in BOOLEAN, BeginDestroy(o, i, p, rm)
      PROVE  OwnsContainer'
  BY <1>3 DEF BeginDestroy, CanSubmit, Target, Goto
<1>4. ASSUME NEW o \in Requests, CheckExists(o)
      PROVE  OwnsContainer'
  BY <1>4 DEF CheckExists, ClearInFlight, Goto
<1>5. ASSUME NEW o \in Requests, CheckCap(o)
      PROVE  OwnsContainer'
  BY <1>5 DEF CheckCap, ClearInFlight, Goto
<1>6. ASSUME NEW o \in Requests, LockAndList(o)
      PROVE  OwnsContainer'
  BY <1>6 DEF LockAndList, LockFree, Refusal, Goto
<1>7. ASSUME NEW o \in Requests, AllocatePort(o)
      PROVE  OwnsContainer'
  BY <1>7 DEF AllocatePort, allocatePort, Unlock, Goto
<1>8. ASSUME NEW o \in Requests, ReserveRow(o)
      PROVE  OwnsContainer'
  BY <1>8 DEF ReserveRow, Unlock, Goto
<1>9. ASSUME NEW o \in Requests, MakeDir(o)
      PROVE  OwnsContainer'
  BY <1>9 DEF MakeDir, rollback, Goto
<1>10. ASSUME NEW o \in Requests, InjectConfig(o)
      PROVE  OwnsContainer'
  BY <1>10 DEF InjectConfig, rollback, Goto
<1>11. ASSUME NEW o \in Requests, DockerCreate(o)
      PROVE  OwnsContainer'
  BY <1>11 DEF DockerCreate, OnNameConflict, rollback, Goto
<1>12. ASSUME NEW o \in Requests, DockerStart(o)
      PROVE  OwnsContainer'
  BY <1>12 DEF DockerStart, WithState, rollback, Goto
<1>13. ASSUME NEW o \in Requests, PollHealth(o)
      PROVE  OwnsContainer'
  BY <1>13 DEF PollHealth, rollback, Goto
<1>14. ASSUME NEW o \in Requests, SetRunning(o)
      PROVE  OwnsContainer'
  BY <1>14 DEF SetRunning, WithStatus, MoreRetries, rollback, Goto
<1>15. ASSUME NEW o \in Requests, RollbackStop(o)
      PROVE  OwnsContainer'
  BY <1>15 DEF RollbackStop, Stopped, WithState, Goto
<1>16. ASSUME NEW o \in Requests, RollbackRemove(o)
      PROVE  OwnsContainer'
  BY <1>16 DEF RollbackRemove, Goto, NoCon
<1>17. ASSUME NEW o \in Requests, RollbackDir(o)
      PROVE  OwnsContainer'
  BY <1>17 DEF RollbackDir, Goto
<1>18. ASSUME NEW o \in Requests, RollbackRow(o)
      PROVE  OwnsContainer'
  BY <1>18 DEF RollbackRow, Goto
<1>19. ASSUME NEW o \in Requests, Return(o)
      PROVE  OwnsContainer'
  BY <1>19 DEF Return, ClearInFlight, Goto
<1>20. ASSUME NEW o \in Requests, DestroyStop(o)
      PROVE  OwnsContainer'
  BY <1>20 DEF DestroyStop, Stopped, WithState, Goto
<1>21. ASSUME NEW o \in Requests, DestroyRemove(o)
      PROVE  OwnsContainer'
  BY <1>21 DEF DestroyRemove, Goto, NoCon
<1>22. ASSUME NEW o \in Requests, DestroyDir(o)
      PROVE  OwnsContainer'
  BY <1>22 DEF DestroyDir, Goto
<1>23. ASSUME NEW o \in Requests, DestroyRow(o)
      PROVE  OwnsContainer'
  BY <1>23 DEF DestroyRow, Goto
<1>24. ASSUME NEW p \in Procs, Crash(p)
      PROVE  OwnsContainer'
  BY <1>24 DEF Crash, Kill, OfProc, Live
<1>25. CASE Shutdown
  BY <1>25 DEF Shutdown
<1>26. CASE Exit
  BY <1>26 DEF Exit, Kill, OfProc, Live
<1>27. CASE Restart
  BY <1>27 DEF Restart
<1>28. CASE UNCHANGED vars
  BY <1>28 DEF vars
<1> HIDE DEF TypeOK, RequestOK, PanelOwner, OwnsContainer, Live
<1>29. QED
  BY <1>1, <1>2, <1>3, <1>4, <1>5, <1>6, <1>7, <1>8, <1>9, <1>10, <1>11, <1>12, <1>13, <1>14, <1>15, <1>16, <1>17, <1>18, <1>19, <1>20, <1>21, <1>22, <1>23, <1>24, <1>25, <1>26, <1>27, <1>28 DEF Next, Submit, Step

(* Every action keeps a running row with its own container. *)
LEMMA RunningMatchStep ==
    ASSUME TypeOK, RequestOK, ConOrigin, OwnsRow, OwnsContainer, RunningMatch, [Next]_vars
    PROVE  RunningMatch'
<1> USE ConstantsAssumption DEF TypeOK, RequestOK, ConOrigin, OwnsRow, OwnsContainer, RunningMatch, Owning, Live
<1>1. ASSUME NEW o \in Requests, NEW i \in Ids, HandleCreate(o, i)
      PROVE  RunningMatch'
  BY <1>1 DEF HandleCreate, CanSubmit, Target, Goto
<1>2. ASSUME NEW o \in Requests, NEW i \in Ids, NEW p \in Procs, CliProvision(o, i, p)
      PROVE  RunningMatch'
  BY <1>2 DEF CliProvision, CanSubmit, Target, Goto
<1>3. ASSUME NEW o \in Requests, NEW i \in Ids, NEW p \in Procs, NEW rm \in BOOLEAN, BeginDestroy(o, i, p, rm)
      PROVE  RunningMatch'
  BY <1>3 DEF BeginDestroy, CanSubmit, Target, Goto
<1>4. ASSUME NEW o \in Requests, CheckExists(o)
      PROVE  RunningMatch'
  BY <1>4 DEF CheckExists, ClearInFlight, Goto
<1>5. ASSUME NEW o \in Requests, CheckCap(o)
      PROVE  RunningMatch'
  BY <1>5 DEF CheckCap, ClearInFlight, Goto
<1>6. ASSUME NEW o \in Requests, LockAndList(o)
      PROVE  RunningMatch'
  BY <1>6 DEF LockAndList, LockFree, Refusal, Goto
<1>7. ASSUME NEW o \in Requests, AllocatePort(o)
      PROVE  RunningMatch'
  BY <1>7 DEF AllocatePort, allocatePort, Unlock, Goto
<1>8. ASSUME NEW o \in Requests, ReserveRow(o)
      PROVE  RunningMatch'
  BY <1>8 DEF ReserveRow, Unlock, Goto
<1>9. ASSUME NEW o \in Requests, MakeDir(o)
      PROVE  RunningMatch'
  BY <1>9 DEF MakeDir, rollback, Goto
<1>10. ASSUME NEW o \in Requests, InjectConfig(o)
      PROVE  RunningMatch'
  BY <1>10 DEF InjectConfig, rollback, Goto
<1>11. ASSUME NEW o \in Requests, DockerCreate(o)
      PROVE  RunningMatch'
  BY <1>11 DEF DockerCreate, OnNameConflict, rollback, Goto
<1>12. ASSUME NEW o \in Requests, DockerStart(o)
      PROVE  RunningMatch'
  BY <1>12 DEF DockerStart, WithState, rollback, Goto
<1>13. ASSUME NEW o \in Requests, PollHealth(o)
      PROVE  RunningMatch'
  BY <1>13 DEF PollHealth, rollback, Goto
<1>14. ASSUME NEW o \in Requests, SetRunning(o)
      PROVE  RunningMatch'
  BY <1>14 DEF SetRunning, WithStatus, MoreRetries, rollback, Goto, Present
<1>15. ASSUME NEW o \in Requests, RollbackStop(o)
      PROVE  RunningMatch'
  BY <1>15 DEF RollbackStop, Stopped, WithState, Goto
<1>16. ASSUME NEW o \in Requests, RollbackRemove(o)
      PROVE  RunningMatch'
  BY <1>16 DEF RollbackRemove, Goto, NoCon
<1>17. ASSUME NEW o \in Requests, RollbackDir(o)
      PROVE  RunningMatch'
  BY <1>17 DEF RollbackDir, Goto
<1>18. ASSUME NEW o \in Requests, RollbackRow(o)
      PROVE  RunningMatch'
  BY <1>18 DEF RollbackRow, Goto, NoRow
<1>19. ASSUME NEW o \in Requests, Return(o)
      PROVE  RunningMatch'
  BY <1>19 DEF Return, ClearInFlight, Goto
<1>20. ASSUME NEW o \in Requests, DestroyStop(o)
      PROVE  RunningMatch'
  BY <1>20 DEF DestroyStop, Stopped, WithState, Goto
<1>21. ASSUME NEW o \in Requests, DestroyRemove(o)
      PROVE  RunningMatch'
  BY <1>21 DEF DestroyRemove, Goto, NoCon
<1>22. ASSUME NEW o \in Requests, DestroyDir(o)
      PROVE  RunningMatch'
  BY <1>22 DEF DestroyDir, Goto
<1>23. ASSUME NEW o \in Requests, DestroyRow(o)
      PROVE  RunningMatch'
  BY <1>23 DEF DestroyRow, Goto, NoRow
<1>24. ASSUME NEW p \in Procs, Crash(p)
      PROVE  RunningMatch'
  BY <1>24 DEF Crash, Kill, OfProc, Live
<1>25. CASE Shutdown
  BY <1>25 DEF Shutdown
<1>26. CASE Exit
  BY <1>26 DEF Exit, Kill, OfProc, Live
<1>27. CASE Restart
  BY <1>27 DEF Restart
<1>28. CASE UNCHANGED vars
  BY <1>28 DEF vars
<1> HIDE DEF TypeOK, RequestOK, ConOrigin, OwnsRow, OwnsContainer, RunningMatch, Owning, Live
<1>29. QED
  BY <1>1, <1>2, <1>3, <1>4, <1>5, <1>6, <1>7, <1>8, <1>9, <1>10, <1>11, <1>12, <1>13, <1>14, <1>15, <1>16, <1>17, <1>18, <1>19, <1>20, <1>21, <1>22, <1>23, <1>24, <1>25, <1>26, <1>27, <1>28 DEF Next, Submit, Step

(* With the server as the only process the container of a running instance is
   the one its row was made with, on the row's port, so the proxy never pairs
   the row of one Provision call with the container of another. *)
THEOREM RowsMatchContainers ==
    ASSUME Procs = {Server} PROVE Spec => []RowMatchesContainer
<1>1. Init => RowOrigin /\ ConOrigin /\ OwnsRow /\ OwnsContainer /\ RunningMatch
  BY DEF Init, NoRow, NoCon, RowOrigin, ConOrigin, OwnsRow, OwnsContainer, RunningMatch, Owning
<1>2. RowOrigin /\ ConOrigin /\ RunningMatch => RowMatchesContainer
  BY DEF RowOrigin, ConOrigin, RunningMatch, RowMatchesContainer
<1>3. QED
  BY <1>1, <1>2, RowOriginStep, ConOriginStep, OwnsRowStep, OwnsContainerStep,
     RunningMatchStep, TypeCorrect, PanelOwnership, PTL DEF Spec

-----------------------------------------------------------------------------
(* Operations that take turns on an instance: no Overlap, and a rollback whose
   calls succeed (the code ignores their errors).  Any number of processes, and
   every other failure, crash and shutdown. *)

Serial == ~Overlap /\ "cleanup" \notin Faults

(* Where a create may have left a row, a container or secrets *)
Traced == DeployPcs \cup RollbackPcs \cup {"okret", "ok", "killed"}

Named == \A o \in Requests : pc[o] # "new" => req[o].id \in Ids

(* One request at a time is under way on an instance: the panel's creates are
   held apart by inFlight, all others by taking turns. *)
Turns ==
    \A o, x \in Requests : Live(o) /\ Live(x) /\ req[o].id = req[x].id => o = x

(* What a create has made bears its token, and only on its own instance. *)
Trace ==
    \A i \in Ids, o \in Requests :
        row[i].token = o \/ con[i].token = o \/ dir[i] = o => req[o].id = i /\ pc[o] \in Traced

(* A container has a row, at every moment. *)
Tidy ==
    \A i \in Ids :
        /\ row[i].status = "absent" => row[i] = NoRow
        /\ IF con[i].state = "absent" THEN con[i] = NoCon ELSE Present(i)

Reserved(o) == [port |-> port[o], status |-> "provisioning", token |-> o]
Made(o, s) == [port |-> port[o], state |-> s, token |-> o]

(* What a request finds at each of its steps *)
AtStep(o, i) ==
    /\ pc[o] \in CriticalPcs => row[i].status = "absent"
    /\ pc[o] \in Owning => row[i] = Reserved(o)
    /\ pc[o] \in {"mkdir", "config", "create", "rbdir", "rbrow", "ddir", "drow"} => con[i].state = "absent"
    /\ pc[o] = "start" => con[i] = Made(o, "created")
    /\ pc[o] \in {"health", "status"} => con[i] = Made(o, "running")
    /\ pc[o] \in {"create", "start", "health", "status"} => dir[i] = o
    /\ pc[o] \in {"rbremove", "dremove"} => con[i].state # "running"
    /\ pc[o] = "rbrow" => dir[i] = "absent"
    /\ pc[o] = "okret" => Served(o, i)
    /\ pc[o] = "ok" /\ ~DestroyAsked(i) => Served(o, i)
Progress == \A o \in Requests : AtStep(o, req[o].id)

SerialInv == Named /\ Turns /\ Trace /\ Tidy /\ Progress

(* What a step of a request changes: itself and its own instance, and that
   only past the check under the mutex or in a destroy *)
Alters(o) ==
    /\ Live(o) /\ req' = req
    /\ \A x \in Requests \ {o} : pc'[x] = pc[x] /\ port'[x] = port[x]
    /\ \A i \in Ids \ {req[o].id} : row'[i] = row[i] /\ con'[i] = con[i] /\ dir'[i] = dir[i]
    /\ \/ row' = row /\ con' = con /\ dir' = dir
       \/ pc[o] \in CriticalPcs \cup Owning \cup DestroyPcs
    /\ IF pc[o] \in DestroyPcs THEN pc'[o] \in DestroyPcs \cup {"gone", "dfailed"}
                               ELSE pc'[o] \in CreatePcs \cup {"ok", "failed", "rejected"}

(* Every step of a request is of that form. *)
LEMMA StepAlters ==
    ASSUME TypeOK, RequestOK, NEW o \in Requests, Step(o)
    PROVE  Alters(o)
<1> USE ConstantsAssumption DEF TypeOK, RequestOK, Live, Alters, Owning
<1>1. CASE CheckExists(o)
  BY <1>1 DEF CheckExists, Goto, ClearInFlight
<1>2. CASE CheckCap(o)
  BY <1>2 DEF CheckCap, Goto, ClearInFlight
<1>3. CASE LockAndList(o)
  BY <1>3 DEF LockAndList, Goto, Refusal, IdTaken, Present
<1>4. CASE AllocatePort(o)
  BY <1>4 DEF AllocatePort, Goto, allocatePort, Unlock
<1>5. CASE ReserveRow(o)
  BY <1>5 DEF ReserveRow, Goto, Unlock
<1>6. CASE MakeDir(o)
  BY <1>6 DEF MakeDir, Goto, rollback
<1>7. CASE InjectConfig(o)
  BY <1>7 DEF InjectConfig, Goto, rollback
<1>8. CASE DockerCreate(o)
  BY <1>8 DEF DockerCreate, Goto, rollback, OnNameConflict
<1>9. CASE DockerStart(o)
  BY <1>9 DEF DockerStart, Goto, rollback, WithState
<1>10. CASE PollHealth(o)
  BY <1>10 DEF PollHealth, Goto, rollback
<1>11. CASE SetRunning(o)
  BY <1>11 DEF SetRunning, Goto, rollback, WithStatus, MoreRetries
<1>12. CASE RollbackStop(o)
  BY <1>12 DEF RollbackStop, Goto, Stopped, WithState
<1>13. CASE RollbackRemove(o)
  BY <1>13 DEF RollbackRemove, Goto, Removable
<1>14. CASE RollbackDir(o)
  BY <1>14 DEF RollbackDir, Goto
<1>15. CASE RollbackRow(o)
  BY <1>15 DEF RollbackRow, Goto
<1>16. CASE Return(o)
  BY <1>16 DEF Return, Goto, ClearInFlight
<1>17. CASE DestroyStop(o)
  BY <1>17 DEF DestroyStop, Goto, Stopped, WithState
<1>18. CASE DestroyRemove(o)
  BY <1>18 DEF DestroyRemove, Goto, Removable
<1>19. CASE DestroyDir(o)
  BY <1>19 DEF DestroyDir, Goto
<1>20. CASE DestroyRow(o)
  BY <1>20 DEF DestroyRow, Goto
<1>21. QED
  BY <1>1, <1>2, <1>3, <1>4, <1>5, <1>6, <1>7, <1>8, <1>9, <1>10, <1>11, <1>12, <1>13, <1>14, <1>15, <1>16, <1>17, <1>18, <1>19, <1>20 DEF Step

(* The parts of the invariant, at one instance *)
TidyAt(i) ==
    /\ row[i].status = "absent" => row[i] = NoRow
    /\ IF con[i].state = "absent" THEN con[i] = NoCon ELSE row[i].status # "absent"

Marked(x, i) == row[i].token = x \/ con[i].token = x \/ dir[i] = x

(* A step leaves marks of its own request alone, and none when it gives up. *)
TraceStep(o, i) ==
    /\ row'[i].token \in {row[i].token, o, None}
    /\ con'[i].token \in {con[i].token, o, None}
    /\ dir'[i] \in {dir[i], o, "absent", "present"}
    /\ pc'[o] \in Traced \/ ~Marked(o, i)'

(* The create whose instance users reach, and how a step may change it *)
ServedBy(i) == IF Reachable(i) THEN row[i].token ELSE None

ServeStep(o, i) ==
    \/ /\ ServedBy(i)' = ServedBy(i)
       /\ \/ pc[o] \in CreatePcs /\ pc'[o] \in CreatePcs
          \/ pc[o] \in DestroyPcs /\ pc'[o] \in DestroyPcs
          \/ pc[o] \in CreatePcs /\ pc'[o] = "ok" /\ ServedBy(i) = o
          \/ pc[o] \in CreatePcs /\ pc'[o] \in {"rejected", "failed"} /\ ServedBy(i) # o
          \/ pc[o] \in DestroyPcs /\ pc'[o] = "gone" /\ ServedBy(i) = None
          \/ pc[o] \in DestroyPcs /\ pc'[o] = "dfailed"
    \/ pc[o] \in CreatePcs /\ pc'[o] \in CreatePcs /\ ServedBy(i) = None /\ ServedBy(i)' = o
    \/ pc[o] \in DestroyPcs /\ pc'[o] \in DestroyPcs /\ ServedBy(i) # None /\ ServedBy(i)' = None

(* What a step does to its instance: each one finds what AtStep says, and leaves
   what the invariant and the contract of Lifecycle ask for. *)
LEMMA StepEffect ==
    ASSUME Serial, TypeOK, RequestOK, SerialInv, NEW o \in Requests, Step(o),
           NEW i \in Ids, req[o].id = i
    PROVE  TidyAt(i)' /\ TraceStep(o, i) /\ AtStep(o, i)' /\ ServeStep(o, i)
<1>a. req[o].id = i /\ Live(o)
  BY StepAlters DEF Alters
<1>b. /\ row \in [Ids -> Row] /\ con \in [Ids -> Container] /\ dir \in [Ids -> DataDir]
      /\ pc \in [Requests -> Pcs] /\ port \in [Requests -> PortRange \cup {0}]
  BY DEF TypeOK
<1>c. AtStep(o, i) /\ TidyAt(i)
  BY <1>a DEF SerialInv, Progress, Tidy, TidyAt, Present
<1>d. pc[o] \in Traced \/ ~Marked(o, i)
  BY <1>a DEF SerialInv, Trace, Marked
<1>1. CASE CheckExists(o)
  <2>1. pc'[o] \in {"rejected", "list"} /\ row' = row /\ con' = con /\ dir' = dir
    BY <1>1, <1>b DEF CheckExists, Goto
  <2>2. TidyAt(i)'
    BY <1>c, <2>1 DEF TidyAt, Reserved, Made
  <2>3. TraceStep(o, i)
    BY <1>d, <1>1 DEF CheckExists, TraceStep, Marked, Traced
  <2>4. AtStep(o, i)'
    BY <2>1 DEF AtStep, Owning, NoCon, NoRow
  <2>5. ServeStep(o, i)
    BY <1>d, <2>1, <1>1, ConstantsAssumption DEF CheckExists, ServeStep, ServedBy, Reachable, Reserved, Made, Served, NoCon, NoRow, Marked, Traced
  <2> QED BY <2>2, <2>3, <2>4, <2>5
<1>2. CASE CheckCap(o)
  <2>1. pc'[o] \in {"rejected", "spawned"} /\ row' = row /\ con' = con /\ dir' = dir
    BY <1>2, <1>b DEF CheckCap, Goto
  <2>2. TidyAt(i)'
    BY <1>c, <2>1 DEF TidyAt, Reserved, Made
  <2>3. TraceStep(o, i)
    BY <1>d, <1>2 DEF CheckCap, TraceStep, Marked, Traced
  <2>4. AtStep(o, i)'
    BY <2>1 DEF AtStep, Owning, NoCon, NoRow
  <2>5. ServeStep(o, i)
    BY <1>d, <2>1, <1>2, ConstantsAssumption DEF CheckCap, ServeStep, ServedBy, Reachable, Reserved, Made, Served, NoCon, NoRow, Marked, Traced
  <2> QED BY <2>2, <2>3, <2>4, <2>5
<1>3. CASE LockAndList(o)
  <2>1. \/ pc'[o] = "ports" /\ row[i].status = "absent" /\ row' = row /\ con' = con /\ dir' = dir
        \/ pc'[o] = "errret" /\ row' = row /\ con' = con /\ dir' = dir
    BY <1>3, <1>b DEF LockAndList, Goto, Refusal, IdTaken, Present
  <2>2. TidyAt(i)'
    BY <1>c, <2>1 DEF TidyAt, Reserved, Made
  <2>3. TraceStep(o, i)
    BY <1>d, <1>3 DEF LockAndList, TraceStep, Marked, Traced
  <2>4. AtStep(o, i)'
    BY <2>1 DEF AtStep, Owning, NoCon, NoRow
  <2>5. ServeStep(o, i)
    BY <2>1, <1>3 DEF LockAndList, ServeStep, ServedBy, Reachable
  <2> QED BY <2>2, <2>3, <2>4, <2>5
<1>4. CASE AllocatePort(o)
  <2>1. row[i].status = "absent"
    BY <1>4, <1>c DEF AllocatePort, AtStep
  <2>2. pc'[o] \in {"insert", "errret"} /\ row' = row /\ con' = con /\ dir' = dir
    BY <1>4, <1>b DEF AllocatePort, Goto
  <2>3. pc[o] = "ports"
    BY <1>4 DEF AllocatePort
  <2>4. TidyAt(i)'
    BY <1>c, <2>2 DEF TidyAt, Reserved, Made
  <2>5. TraceStep(o, i)
    BY <1>d, <2>2, <2>3 DEF TraceStep, Marked, Traced
  <2>6. AtStep(o, i)'
    BY <2>1, <2>2 DEF AtStep, Owning, NoCon, NoRow
  <2>7. ServeStep(o, i)
    BY <2>2, <2>3 DEF ServeStep, ServedBy, Reachable
  <2> QED BY <2>4, <2>5, <2>6, <2>7
<1>5. CASE ReserveRow(o)
  <2>1. row[i].status = "absent"
    BY <1>5, <1>c DEF ReserveRow, AtStep
  <2>2. \/ pc'[o] = "mkdir" /\ row'[i] = Reserved(o)' /\ con' = con /\ dir' = dir
        \/ pc'[o] = "errret" /\ row' = row /\ con' = con /\ dir' = dir
    BY <1>5, <1>b DEF ReserveRow, Goto, Reserved
  <2>3. TidyAt(i)'
    BY <1>c, <2>2 DEF TidyAt, Reserved, Made
  <2>4. TraceStep(o, i)
    BY <1>d, <2>2, <1>5 DEF ReserveRow, TraceStep, Marked, Traced, Reserved
  <2>5. AtStep(o, i)'
    BY <1>c, <2>1, <2>2 DEF AtStep, TidyAt, Owning
  <2>6. ServeStep(o, i)
    BY <2>1, <2>2, <1>5 DEF ReserveRow, ServeStep, ServedBy, Reachable, Reserved
  <2> QED BY <2>3, <2>4, <2>5, <2>6
<1>6. CASE MakeDir(o)
  <2>1. row[i] = Reserved(o) /\ con[i].state = "absent"
    BY <1>6, <1>c DEF MakeDir, AtStep, Owning
  <2>2. pc'[o] \in {"config", "rbdir"} /\ row' = row /\ con' = con /\ dir'[i] \in {dir[i], "present"}
    BY <1>6, <1>b DEF MakeDir, Goto, rollback
  <2>3. port' = port
    BY <1>6 DEF MakeDir
  <2>4. TidyAt(i)'
    BY <1>c, <2>2 DEF TidyAt, Made
  <2>5. TraceStep(o, i)
    BY <2>2 DEF TraceStep, Traced
  <2>6. AtStep(o, i)'
    BY <2>1, <2>2, <2>3 DEF AtStep, Reserved, NoCon, NoRow
  <2>7. ServeStep(o, i)
    BY <2>2, <1>6 DEF MakeDir, ServeStep, ServedBy, Reachable
  <2> QED BY <2>4, <2>5, <2>6, <2>7
<1>7. CASE InjectConfig(o)
  <2>1. row[i] = Reserved(o) /\ con[i].state = "absent"
    BY <1>7, <1>c DEF InjectConfig, AtStep, Owning
  <2>2. \/ pc'[o] = "create" /\ row' = row /\ con' = con /\ dir'[i] = o
        \/ pc'[o] = "rbdir" /\ row' = row /\ con' = con /\ dir'[i] \in {dir[i], o}
    BY <1>7, <1>b DEF InjectConfig, Goto, rollback
  <2>3. port' = port
    BY <1>7 DEF InjectConfig
  <2>4. TidyAt(i)'
    BY <1>c, <2>2 DEF TidyAt, Made
  <2>5. TraceStep(o, i)
    BY <2>2 DEF TraceStep, Traced
  <2>6. AtStep(o, i)'
    BY <2>1, <2>2, <2>3 DEF AtStep, Reserved, NoCon, NoRow
  <2>7. ServeStep(o, i)
    BY <2>2, <1>7 DEF InjectConfig, ServeStep, ServedBy, Reachable
  <2> QED BY <2>4, <2>5, <2>6, <2>7
<1>8. CASE DockerCreate(o)
  <2>1. row[i] = Reserved(o) /\ con[i].state = "absent" /\ dir[i] = o
    BY <1>8, <1>c DEF DockerCreate, AtStep, Owning
  <2>2. \/ pc'[o] = "start" /\ row' = row /\ con'[i] = Made(o, "created")' /\ dir' = dir
        \/ pc'[o] = "rbstop" /\ row' = row /\ con' = con /\ dir' = dir
    BY <1>8, <1>b, <2>1 DEF DockerCreate, Goto, rollback, Made
  <2>3. port' = port
    BY <1>8 DEF DockerCreate
  <2>4. TidyAt(i)'
    BY <1>c, <2>1, <2>2 DEF TidyAt, Reserved, Made
  <2>5. TraceStep(o, i)
    BY <2>2 DEF TraceStep, Traced, Made
  <2>6. AtStep(o, i)'
    BY <2>1, <2>2, <2>3 DEF AtStep, Reserved, NoCon, NoRow
  <2>7. ServeStep(o, i)
    BY <2>1, <2>2, <1>8 DEF DockerCreate, ServeStep, ServedBy, Reachable, Reserved
  <2> QED BY <2>4, <2>5, <2>6, <2>7
<1>9. CASE DockerStart(o)
  <2>1. row[i] = Reserved(o) /\ con[i] = Made(o, "created") /\ dir[i] = o
    BY <1>9, <1>c DEF DockerStart, AtStep, Owning
  <2>2. \/ pc'[o] = "health" /\ row' = row /\ con'[i] = Made(o, "running")' /\ dir'[i] = o
        \/ pc'[o] = "rbstop" /\ row' = row /\ con' = con /\ dir' = dir
    BY <1>9, <1>b, <2>1, ConstantsAssumption DEF DockerStart, Goto, rollback, WithState, Made
  <2>3. port' = port
    BY <1>9 DEF DockerStart
  <2>4. TidyAt(i)'
    BY <1>c, <2>1, <2>2 DEF TidyAt, Made
  <2>5. TraceStep(o, i)
    BY <2>2 DEF TraceStep, Traced, Made
  <2>6. AtStep(o, i)'
    BY <2>1, <2>2, <2>3 DEF AtStep, Reserved, NoCon, NoRow
  <2>7. ServeStep(o, i)
    BY <2>1, <2>2, <1>9 DEF DockerStart, ServeStep, ServedBy, Reachable, Reserved
  <2> QED BY <2>4, <2>5, <2>6, <2>7
<1>10. CASE PollHealth(o)
  <2>1. row[i] = Reserved(o) /\ con[i] = Made(o, "running") /\ dir[i] = o
    BY <1>10, <1>c DEF PollHealth, AtStep, Owning
  <2>2. pc'[o] \in {"status", "rbstop"} /\ row' = row /\ con' = con /\ dir' = dir
    BY <1>10, <1>b DEF PollHealth, Goto, rollback
  <2>3. port' = port
    BY <1>10 DEF PollHealth
  <2>4. TidyAt(i)'
    BY <1>c, <2>2 DEF TidyAt
  <2>5. TraceStep(o, i)
    BY <2>2 DEF TraceStep, Traced
  <2>6. AtStep(o, i)'
    BY <2>1, <2>2, <2>3 DEF AtStep, Reserved, Made, NoCon, NoRow
  <2>7. ServeStep(o, i)
    BY <2>2, <1>10 DEF PollHealth, ServeStep, ServedBy, Reachable
  <2> QED BY <2>4, <2>5, <2>6, <2>7
<1>11. CASE SetRunning(o)
  <2>1. row[i] = Reserved(o) /\ con[i] = Made(o, "running") /\ dir[i] = o
    BY <1>11, <1>c DEF SetRunning, AtStep, Owning
  <2>2. \/ pc'[o] = "okret" /\ row'[i] = [port |-> port[o], status |-> "running", token |-> o] /\ con' = con /\ dir' = dir
        \/ pc'[o] \in {"status", "rbstop"} /\ row' = row /\ con' = con /\ dir' = dir
    BY <1>11, <1>b, <2>1 DEF SetRunning, Goto, rollback, WithStatus, Reserved
  <2>3. port' = port
    BY <1>11 DEF SetRunning
  <2>4. TidyAt(i)'
    BY <1>c, <2>2 DEF TidyAt
  <2>5. TraceStep(o, i)
    BY <2>2 DEF TraceStep, Traced
  <2>6. AtStep(o, i)'
    BY <2>1, <2>2, <2>3 DEF AtStep, Owning, Reserved, Made, Served, NoCon, NoRow
  <2>7. ServeStep(o, i)
    BY <2>1, <2>2, <1>11 DEF SetRunning, ServeStep, ServedBy, Reachable, Reserved
  <2> QED BY <2>4, <2>5, <2>6, <2>7
<1>12. CASE RollbackStop(o)
  <2>1. row[i] = Reserved(o)
    BY <1>12, <1>c DEF RollbackStop, AtStep, Owning
  <2>2. pc'[o] = "rbremove" /\ row' = row /\ dir' = dir /\ con'[i].state # "running" /\ con'[i].token = con[i].token /\ (con[i].state = "absent" => con'[i] = con[i]) /\ (con[i].state # "absent" => con'[i].state # "absent")
    BY <1>12, <1>b DEF RollbackStop, Goto, Stopped, WithState, Serial
  <2>3. port' = port
    BY <1>12 DEF RollbackStop
  <2>4. TidyAt(i)'
    BY <1>c, <2>2 DEF TidyAt, Made
  <2>5. TraceStep(o, i)
    BY <2>2 DEF TraceStep, Traced
  <2>6. AtStep(o, i)'
    BY <2>1, <2>2, <2>3 DEF AtStep, Reserved, NoCon, NoRow
  <2>7. ServeStep(o, i)
    BY <2>1, <2>2, <1>12 DEF RollbackStop, ServeStep, ServedBy, Reachable, Reserved
  <2> QED BY <2>4, <2>5, <2>6, <2>7
<1>13. CASE RollbackRemove(o)
  <2>1. row[i] = Reserved(o) /\ con[i].state # "running"
    BY <1>13, <1>c DEF RollbackRemove, AtStep, Owning
  <2>2. pc'[o] = "rbdir" /\ row' = row /\ dir' = dir /\ con'[i] = NoCon
    BY <1>13, <1>b, <2>1 DEF RollbackRemove, Goto, Removable, Serial
  <2>3. port' = port
    BY <1>13 DEF RollbackRemove
  <2>4. TidyAt(i)'
    BY <1>c, <2>2 DEF TidyAt, Made
  <2>5. TraceStep(o, i)
    BY <2>2 DEF TraceStep, Traced, NoCon
  <2>6. AtStep(o, i)'
    BY <2>1, <2>2, <2>3 DEF AtStep, Reserved, NoCon, NoRow
  <2>7. ServeStep(o, i)
    BY <2>1, <2>2, <1>13 DEF RollbackRemove, ServeStep, ServedBy, Reachable, Reserved
  <2> QED BY <2>4, <2>5, <2>6, <2>7
<1>14. CASE RollbackDir(o)
  <2>1. row[i] = Reserved(o) /\ con[i].state = "absent"
    BY <1>14, <1>c DEF RollbackDir, AtStep, Owning
  <2>2. pc'[o] = "rbrow" /\ row' = row /\ con' = con /\ dir'[i] = "absent"
    BY <1>14, <1>b DEF RollbackDir, Goto, Serial
  <2>3. port' = port
    BY <1>14 DEF RollbackDir
  <2>4. TidyAt(i)'
    BY <1>c, <2>2 DEF TidyAt, Made
  <2>5. TraceStep(o, i)
    BY <2>2 DEF TraceStep, Traced
  <2>6. AtStep(o, i)'
    BY <2>1, <2>2, <2>3 DEF AtStep, Reserved, NoCon, NoRow
  <2>7. ServeStep(o, i)
    BY <2>2, <1>14 DEF RollbackDir, ServeStep, ServedBy, Reachable
  <2> QED BY <2>4, <2>5, <2>6, <2>7
<1>15. CASE RollbackRow(o)
  <2>1. con[i].state = "absent" /\ dir[i] = "absent"
    BY <1>15, <1>c DEF RollbackRow, AtStep
  <2>2. pc'[o] = "errret" /\ row'[i] = NoRow /\ con' = con /\ dir' = dir
    BY <1>15, <1>b DEF RollbackRow, Goto, Serial
  <2>3. TidyAt(i)'
    BY <1>c, <2>1, <2>2 DEF TidyAt, Reserved, Made
  <2>4. TraceStep(o, i)
    BY <1>c, <2>1, <2>2, ConstantsAssumption DEF TraceStep, Marked, NoRow, NoCon, TidyAt
  <2>5. AtStep(o, i)'
    BY <2>2 DEF AtStep, Owning
  <2>6. ServeStep(o, i)
    BY <2>1, <2>2, <1>15 DEF RollbackRow, ServeStep, ServedBy, Reachable
  <2> QED BY <2>3, <2>4, <2>5, <2>6
<1>16. CASE Return(o)
  <2>1. pc[o] = "okret" => Served(o, i)
    BY <1>c DEF AtStep
  <2>2. \/ pc'[o] = "ok" /\ pc[o] = "okret" /\ row' = row /\ con' = con /\ dir' = dir
        \/ pc'[o] = "failed" /\ pc[o] = "errret" /\ row' = row /\ con' = con /\ dir' = dir
    BY <1>16, <1>b DEF Return, Goto
  <2>3. port' = port
    BY <1>16 DEF Return
  <2>4. TidyAt(i)'
    BY <1>c, <2>2 DEF TidyAt, Reserved, Made
  <2>5. TraceStep(o, i)
    BY <1>d, <2>2 DEF TraceStep, Marked, Traced
  <2>6. AtStep(o, i)'
    BY <1>c, <2>2, <2>3 DEF AtStep, Owning, Served, NoCon, NoRow
  <2>7. ServeStep(o, i)
    BY <1>d, <2>1, <2>2, ConstantsAssumption DEF ServeStep, ServedBy, Reachable, Reserved, Made, Served, NoCon, NoRow, Marked, Traced
  <2> QED BY <2>4, <2>5, <2>6, <2>7
<1>17. CASE DestroyStop(o)
  <2>1. \/ pc'[o] = "dremove" /\ row' = row /\ dir' = dir /\ con'[i].state # "running" /\ con'[i].token = con[i].token /\ (con[i].state = "absent" => con'[i] = con[i]) /\ (con[i].state # "absent" => con'[i].state # "absent")
        \/ pc'[o] = "dfailed" /\ row' = row /\ con' = con /\ dir' = dir
    BY <1>17, <1>b DEF DestroyStop, Goto, Stopped, WithState
  <2>2. TidyAt(i)'
    BY <1>c, <2>1 DEF TidyAt, Reserved, Made
  <2>3. TraceStep(o, i)
    BY <1>d, <2>1, <1>17 DEF DestroyStop, TraceStep, Marked, Traced
  <2>4. AtStep(o, i)'
    BY <2>1 DEF AtStep, Owning, NoCon, NoRow
  <2>5. ServeStep(o, i)
    BY <2>1, <1>17 DEF DestroyStop, ServeStep, ServedBy, Reachable
  <2> QED BY <2>2, <2>3, <2>4, <2>5
<1>18. CASE DestroyRemove(o)
  <2>1. \/ pc'[o] \in {"ddir", "drow"} /\ row' = row /\ dir' = dir /\ con'[i] = NoCon
        \/ pc'[o] = "dfailed" /\ row' = row /\ con' = con /\ dir' = dir
    BY <1>18, <1>b DEF DestroyRemove, Goto
  <2>2. TidyAt(i)'
    BY <1>c, <2>1 DEF TidyAt, Reserved, Made
  <2>3. TraceStep(o, i)
    BY <1>d, <2>1, <1>18, ConstantsAssumption DEF DestroyRemove, TraceStep, Marked, Traced, NoCon
  <2>4. AtStep(o, i)'
    BY <2>1 DEF AtStep, Owning, NoCon, NoRow
  <2>5. ServeStep(o, i)
    BY <2>1, <1>18 DEF DestroyRemove, ServeStep, ServedBy, Reachable, NoCon
  <2> QED BY <2>2, <2>3, <2>4, <2>5
<1>19. CASE DestroyDir(o)
  <2>1. con[i].state = "absent"
    BY <1>19, <1>c DEF DestroyDir, AtStep
  <2>2. \/ pc'[o] = "drow" /\ row' = row /\ con' = con /\ dir'[i] = "absent"
        \/ pc'[o] = "dfailed" /\ row' = row /\ con' = con /\ dir' = dir
    BY <1>19, <1>b DEF DestroyDir, Goto
  <2>3. TidyAt(i)'
    BY <1>c, <2>2 DEF TidyAt, Reserved, Made
  <2>4. TraceStep(o, i)
    BY <1>d, <2>2, <1>19, ConstantsAssumption DEF DestroyDir, TraceStep, Marked, Traced
  <2>5. AtStep(o, i)'
    BY <2>1, <2>2 DEF AtStep, Owning, NoCon, NoRow
  <2>6. ServeStep(o, i)
    BY <2>2, <1>19 DEF DestroyDir, ServeStep, ServedBy, Reachable
  <2> QED BY <2>3, <2>4, <2>5, <2>6
<1>20. CASE DestroyRow(o)
  <2>1. con[i].state = "absent"
    BY <1>20, <1>c DEF DestroyRow, AtStep
  <2>2. \/ pc'[o] = "gone" /\ row'[i] = NoRow /\ con' = con /\ dir' = dir
        \/ pc'[o] = "dfailed" /\ row' = row /\ con' = con /\ dir' = dir
    BY <1>20, <1>b DEF DestroyRow, Goto
  <2>3. TidyAt(i)'
    BY <1>c, <2>1, <2>2 DEF TidyAt, Reserved, Made
  <2>4. TraceStep(o, i)
    BY <1>d, <2>2, <1>20, ConstantsAssumption DEF DestroyRow, TraceStep, Marked, Traced, NoRow
  <2>5. AtStep(o, i)'
    BY <2>2 DEF AtStep, Owning
  <2>6. ServeStep(o, i)
    BY <2>1, <2>2, <1>20 DEF DestroyRow, ServeStep, ServedBy, Reachable
  <2> QED BY <2>3, <2>4, <2>5, <2>6
<1>21. QED
  BY <1>1, <1>2, <1>3, <1>4, <1>5, <1>6, <1>7, <1>8, <1>9, <1>10, <1>11, <1>12, <1>13, <1>14, <1>15, <1>16, <1>17, <1>18, <1>19, <1>20 DEF Step

(* A destroy that was asked for stays so. *)
LEMMA DestroyStaysAsked ==
    ASSUME NEW o \in Requests, Alters(o), NEW i, DestroyAsked(i)
    PROVE  DestroyAsked(i)'
<1>1. PICK d \in Requests : req[d].id = i /\ pc[d] \in DestroyPcs \cup {"gone", "dfailed", "dkilled"}
  BY DEF DestroyAsked
<1>2. req'[d].id = i /\ pc'[d] \in DestroyPcs \cup {"gone", "dfailed", "dkilled"}
  BY <1>1 DEF Alters, Live
<1> QED BY <1>2 DEF DestroyAsked

(* Every other request keeps what it found: one of the same instance has ended,
   and if it succeeded the step changes nothing of that instance. *)
LEMMA OthersKeep ==
    ASSUME TypeOK, RequestOK, SerialInv, NEW o \in Requests, Alters(o), NEW x \in Requests, x # o
    PROVE  AtStep(x, req[x].id)'
<1>1. req' = req /\ pc'[x] = pc[x] /\ port'[x] = port[x] /\ Live(o)
  BY DEF Alters
<1>2. CASE req[x].id # req[o].id /\ req[x].id \in Ids
  <2>1. row'[req[x].id] = row[req[x].id] /\ con'[req[x].id] = con[req[x].id] /\ dir'[req[x].id] = dir[req[x].id]
    BY <1>2 DEF Alters
  <2>2. DestroyAsked(req[x].id) => DestroyAsked(req[x].id)'
    <3>1. PICK i \in Ids : i = req[x].id
      BY <1>2
    <3> QED BY <3>1, <1>1, DestroyStaysAsked
  <2> QED BY <1>1, <2>1, <2>2 DEF SerialInv, Progress, AtStep, Reserved, Made, Served
<1>3. CASE req[x].id = req[o].id
  <2>1. ~Live(x)
    BY <1>1, <1>3 DEF SerialInv, Turns
  <2>2. ASSUME pc[x] = "ok", ~DestroyAsked(req[x].id)'
        PROVE  row' = row /\ con' = con /\ dir' = dir /\ ~DestroyAsked(req[x].id)
    <3>1. ~DestroyAsked(req[x].id)
      <4>1. PICK i : i = req[x].id
        OBVIOUS
      <4> QED BY <2>2, <4>1, <1>1, DestroyStaysAsked
    <3>2. Served(x, req[o].id)
      BY <2>2, <1>3, <3>1 DEF SerialInv, Progress, AtStep
    <3>3. pc[o] \notin DestroyPcs
      BY <3>1, <1>3 DEF DestroyAsked
    <3>4. pc[o] \notin CriticalPcs \cup Owning
      <4>1. AtStep(o, req[o].id)
        BY DEF SerialInv, Progress
      <4>2. row[req[o].id].status = "running"
        BY <3>2 DEF Served
      <4> QED BY <4>1, <4>2 DEF AtStep, Owning, Reserved
    <3> QED BY <3>1, <3>3, <3>4 DEF Alters
  <2> QED BY <1>1, <2>1, <2>2 DEF SerialInv, Progress, AtStep, Owning, Served, Live
<1>4. CASE req[x].id \notin Ids
  <2> QED BY <1>1, <1>4 DEF SerialInv, Named, AtStep, Owning
<1> QED BY <1>2, <1>3, <1>4

(* Every step of a request keeps the invariant. *)
LEMMA StepSerial ==
    ASSUME Serial, TypeOK, RequestOK, SerialInv, NEW o \in Requests, Step(o)
    PROVE  SerialInv'
<1>1. Alters(o)
  BY StepAlters
<1>2. req[o].id \in Ids /\ req' = req
  BY <1>1 DEF Alters, RequestOK
<1>3. TidyAt(req[o].id)' /\ TraceStep(o, req[o].id) /\ AtStep(o, req[o].id)'
  <2>1. PICK i \in Ids : i = req[o].id
    BY <1>2
  <2> QED BY <1>2, <2>1, StepEffect
<1>8. Named'
  BY <1>1 DEF SerialInv, Named, Alters, Live
<1>4. Turns'
  BY <1>1 DEF SerialInv, Turns, Alters, Live
<1>5. Tidy'
  BY <1>1, <1>2, <1>3 DEF SerialInv, Tidy, TidyAt, Present, Alters
<1>6. Trace'
  BY <1>1, <1>2, <1>3, ConstantsAssumption DEF SerialInv, Trace, TraceStep, Marked, Alters
<1>7. Progress'
  BY <1>3, <1>1, OthersKeep DEF Progress
<1> QED BY <1>4, <1>5, <1>6, <1>7, <1>8 DEF SerialInv

(* What submitting a request changes: nothing but the request, and it is taken
   up only where no other is under way *)
Submitted(o, i) ==
    /\ row' = row /\ con' = con /\ dir' = dir /\ port' = port
    /\ pc[o] = "new" /\ req'[o].id = i
    /\ \A x \in Requests \ {o} : pc'[x] = pc[x] /\ req'[x] = req[x]
    /\ pc'[o] \in {"get", "spawned", "dstop", "rejected", "dfailed"}
    /\ pc'[o] \in {"get", "spawned", "dstop"} => LiveOn(i) = {}

(* Every submission is of that form. *)
LEMMA SubmitShape ==
    ASSUME Serial, TypeOK, RequestOK, PanelOwner, NEW o \in Requests, Submit(o)
    PROVE  \E i \in Ids : Submitted(o, i)
<1>1. ASSUME NEW i \in Ids, HandleCreate(o, i) PROVE Submitted(o, i)
  <2>1. NotInFlight(i) => LiveOn(i) = {}
    BY <1>1, ConstantsAssumption DEF HandleCreate, MayPanelCreate, Serial, LiveOn, NotInFlight, PanelOwner
  <2> QED BY <1>1, <2>1 DEF HandleCreate, CanSubmit, Target, Goto, TypeOK, Submitted
<1>2. ASSUME NEW i \in Ids, NEW p \in Procs, CliProvision(o, i, p) PROVE Submitted(o, i)
    BY <1>2 DEF CliProvision, CanSubmit, Target, Goto, TypeOK, Submitted, MayCliCreate, Serial
<1>3. ASSUME NEW i \in Ids, NEW p \in Procs, NEW rm \in BOOLEAN, BeginDestroy(o, i, p, rm) PROVE Submitted(o, i)
    BY <1>3 DEF BeginDestroy, CanSubmit, Target, Goto, TypeOK, Submitted, MayDestroy, Serial
<1> QED BY <1>1, <1>2, <1>3 DEF Submit

(* Submitting a request keeps the invariant. *)
LEMMA SubmitSerial ==
    ASSUME Serial, TypeOK, RequestOK, PanelOwner, SerialInv, NEW o \in Requests, Submit(o)
    PROVE  SerialInv'
<1>1. PICK i \in Ids : Submitted(o, i)
  BY SubmitShape
<1>2. Named'
  BY <1>1 DEF Submitted, SerialInv, Named
<1>3. Turns'
  BY <1>1 DEF Submitted, SerialInv, Turns, Live, LiveOn
<1>4. Trace'
  BY <1>1 DEF Submitted, SerialInv, Trace, Traced
<1>5. Tidy'
  BY <1>1 DEF Submitted, SerialInv, Tidy, Present
<1>6. ASSUME NEW x \in Requests PROVE AtStep(x, req[x].id)'
  <2>1. CASE x = o
    BY <1>1, <2>1 DEF Submitted, AtStep, Owning
  <2>2. CASE x # o
    <3>1. DestroyAsked(req[x].id) => DestroyAsked(req[x].id)'
      BY <1>1, <2>2 DEF Submitted, DestroyAsked
    <3> QED BY <1>1, <2>2, <3>1 DEF Submitted, SerialInv, Progress, AtStep, Reserved, Made, Served
  <2> QED BY <2>1, <2>2
<1> QED BY <1>2, <1>3, <1>4, <1>5, <1>6 DEF SerialInv, Progress

(* The end of a process keeps the invariant. *)
LEMMA KillSerial ==
    ASSUME TypeOK, RequestOK, SerialInv, NEW p \in Procs, Kill(p),
           row' = row, con' = con, dir' = dir, port' = port, req' = req
    PROVE  SerialInv'
<1>1. \A x \in Requests :
          \/ pc'[x] = pc[x]
          \/ Live(x) /\ pc'[x] = IF pc[x] \in DestroyPcs THEN "dkilled" ELSE "killed"
  BY DEF Kill, OfProc
<1>2. Named'
  BY <1>1 DEF SerialInv, Named, Live
<1>3. Turns'
  BY <1>1 DEF SerialInv, Turns, Live
<1>4. Trace'
  BY <1>1 DEF SerialInv, Trace, Traced, Live
<1>5. Tidy'
  BY <1>1 DEF SerialInv, Tidy, Present
<1>6. ASSUME NEW x \in Requests PROVE AtStep(x, req[x].id)'
  <2>1. CASE pc'[x] # pc[x]
    BY <1>1, <2>1 DEF AtStep, Owning
  <2>2. CASE pc'[x] = pc[x]
    <3>1. DestroyAsked(req[x].id) => DestroyAsked(req[x].id)'
      BY <1>1, <2>2 DEF DestroyAsked, Live
    <3> QED BY <1>1, <2>2, <3>1 DEF SerialInv, Progress, AtStep, Reserved, Made, Served
  <2> QED BY <2>1, <2>2
<1> QED BY <1>2, <1>3, <1>4, <1>5, <1>6 DEF SerialInv, Progress

(* Every action keeps the invariant. *)
LEMMA SerialStep ==
    ASSUME Serial, TypeOK, RequestOK, PanelOwner, SerialInv, [Next]_vars
    PROVE  SerialInv'
<1>1. ASSUME NEW o \in Requests, Submit(o) PROVE SerialInv'
  BY <1>1, SubmitSerial
<1>2. ASSUME NEW o \in Requests, Step(o) PROVE SerialInv'
  BY <1>2, StepSerial
<1>3. ASSUME NEW p \in Procs, Crash(p) PROVE SerialInv'
  BY <1>3, KillSerial DEF Crash
<1>4. CASE Exit
  BY <1>4, KillSerial, ConstantsAssumption DEF Exit
<1>5. CASE (Shutdown \/ Restart \/ UNCHANGED vars)
  BY <1>5 DEF Shutdown, Restart, vars, SerialInv, Named, Turns, Trace, Tidy, Progress, AtStep,
              Live, Present, Reserved, Made, Served, DestroyAsked
<1> QED BY <1>1, <1>2, <1>3, <1>4, <1>5 DEF Next

(* The invariant holds in every reachable state. *)
LEMMA SerialInvariant == ASSUME Serial PROVE Spec => []SerialInv
<1>1. Init => SerialInv
  BY ConstantsAssumption DEF Init, SerialInv, Named, Turns, Trace, Tidy, Progress, AtStep, Live, NoRow, NoCon,
     Owning, Present
<1>2. QED
  BY <1>1, SerialStep, TypeCorrect, PanelOwnership, PTL DEF Spec

(* While operations on an instance take turns, no container is without a row:
   Provision reserves the row before it creates the container, and rollback and
   Destroy remove the container before the row, wherever they fail or are cut
   off. *)
THEOREM NothingOrphaned == ASSUME Serial PROVE Spec => []NoOrphan
<1>1. SerialInv => NoOrphan
  BY DEF SerialInv, Tidy, NoOrphan
<1>2. QED
  BY <1>1, SerialInvariant, PTL

(* While operations on an instance take turns, what Provision reported as created
   is registered, configured and up until a destroy of it is asked for. *)
THEOREM SuccessIsServed == ASSUME Serial PROVE Spec => []SuccessMeansServed
<1>1. SerialInv => SuccessMeansServed
  BY DEF SerialInv, Progress, AtStep, SuccessMeansServed
<1>2. QED
  BY <1>1, SerialInvariant, PTL

(* While operations on an instance take turns, a Provision call that returned an
   error has left no row, container or secrets of its own. *)
THEOREM FailureLeavesNothing == ASSUME Serial PROVE Spec => []FailedLeavesNothing
<1>1. SerialInv => FailedLeavesNothing
  BY DEF SerialInv, Trace, Traced, FailedLeavesNothing
<1>2. QED
  BY <1>1, SerialInvariant, PTL

-----------------------------------------------------------------------------
(* The refinement of Lifecycle, step by step.  The variables of the contract: *)

Serving == [i \in Ids |-> IF Reachable(i) THEN row[i].token ELSE None]
Stage == [o \in Requests |-> StageOf(pc[o])]
About == [o \in Requests |-> req[o].id]

(* The stage of the contract at each place of the code *)
LEMMA Stages ==
    /\ StageOf("new") = "none"
    /\ \A l \in CreatePcs : StageOf(l) = "create"
    /\ \A l \in DestroyPcs : StageOf(l) = "destroy"
    /\ StageOf("ok") = "ok" /\ StageOf("gone") = "gone" /\ StageOf("dfailed") = "kept"
    /\ \A l \in {"rejected", "failed"} : StageOf(l) = "refused"
    /\ \A l \in {"killed", "dkilled"} : StageOf(l) = "lost"
BY DEF StageOf

(* A step of a request is a Launch, a Retire, an Answer or a stutter. *)
LEMMA StepSimulates ==
    ASSUME Serial, TypeOK, TypeOK', RequestOK, SerialInv, NEW o \in Requests, Step(o)
    PROVE  [L!Next]_<<Serving, Stage, About>>
<1>1. Alters(o)
  BY StepAlters
<1>2. PICK i \in Ids : i = req[o].id
  BY <1>1 DEF Alters, RequestOK
<1>3. ServeStep(o, i)
  BY <1>2, StepEffect
<1>4. About' = About
  BY <1>1 DEF Alters, About
<1>5. Stage' = [Stage EXCEPT ![o] = StageOf(pc'[o])]
  BY <1>1 DEF Alters, Stage
<1>6. Serving' = [Serving EXCEPT ![i] = ServedBy(i)']
  <2>1. ASSUME NEW j \in Ids \ {i} PROVE ServedBy(j)' = ServedBy(j)
    BY <1>1, <1>2 DEF Alters, ServedBy, Reachable
  <2>2. Serving = [j \in Ids |-> ServedBy(j)] /\ Serving' = [j \in Ids |-> ServedBy(j)']
    BY DEF Serving, ServedBy
  <2> QED BY <2>1, <2>2
<1>7. Serving[i] = ServedBy(i) /\ About[o] = i /\ Stage[o] = StageOf(pc[o])
  BY <1>2 DEF Serving, ServedBy, About, Stage
<1>8. Stage' = Stage \/ \E as : Stage' = [Stage EXCEPT ![o] = as]
  BY <1>5
<1>a. Serving \in [Ids -> Requests \cup {None}]
  BY DEF Serving, TypeOK, Row, Token
<1>b. DOMAIN Stage = Requests
  BY DEF Stage
<1>c. \/ UNCHANGED <<Serving, Stage, About>>
      \/ /\ Stage[o] = "create" /\ Serving[About[o]] = None
         /\ Serving' = [Serving EXCEPT ![About[o]] = o]
         /\ UNCHANGED <<Stage, About>>
      \/ /\ Stage[o] = "destroy" /\ Serving[About[o]] # None
         /\ Serving' = [Serving EXCEPT ![About[o]] = None]
         /\ UNCHANGED <<Stage, About>>
      \/ /\ \/ Stage[o] = "create" /\ Stage' = [Stage EXCEPT ![o] = "ok"] /\ Serving[About[o]] = o
            \/ Stage[o] = "create" /\ Stage' = [Stage EXCEPT ![o] = "refused"] /\ Serving[About[o]] # o
            \/ Stage[o] = "destroy" /\ Stage' = [Stage EXCEPT ![o] = "gone"] /\ Serving[About[o]] = None
            \/ Stage[o] = "destroy" /\ Stage' = [Stage EXCEPT ![o] = "kept"]
         /\ UNCHANGED <<Serving, About>>
  <2>1. ServedBy(i)' = ServedBy(i) => Serving' = Serving
    BY <1>6, <1>7, <1>a
  <2>2. StageOf(pc'[o]) = StageOf(pc[o]) => Stage' = Stage
    BY <1>5, <1>7 DEF Stage
  <2> QED BY <1>3, <1>4, <1>5, <1>6, <1>7, <2>1, <2>2, Stages, ZenonT(30) DEF ServeStep
<1> QED
  BY <1>c DEF L!Next, L!Launch, L!Retire, L!Answer, L!Ends, Serving, Stage, About

(* A submission is an Accept. *)
LEMMA SubmitSimulates ==
    ASSUME TypeOK, NEW o \in Requests, NEW i \in Ids, Submitted(o, i)
    PROVE  L!Accept(o, i)
<1>1. Stage[o] = "none" /\ Stage' = [Stage EXCEPT ![o] = StageOf(pc'[o])]
  BY Stages DEF Submitted, Stage
<1>2. StageOf(pc'[o]) \in {"create", "destroy", "refused", "kept"}
  BY Stages DEF Submitted
<1>3. About' = [About EXCEPT ![o] = i]
  BY DEF Submitted, About
<1>4. Serving' = Serving
  BY DEF Submitted, Serving, Reachable
<1> QED BY <1>1, <1>2, <1>3, <1>4 DEF L!Accept, L!Ends, Serving, Stage, About

(* The end of a process is a Lose. *)
LEMMA KillSimulates ==
    ASSUME NEW p \in Procs, Kill(p), row' = row, con' = con, req' = req
    PROVE  L!Lose(OfProc(p))
<1>1. Stage' = [o \in Requests |-> IF o \in OfProc(p) THEN "lost" ELSE Stage[o]]
  BY Stages DEF Kill, Stage
<1>2. \A o \in OfProc(p) : Stage[o] \in {"create", "destroy"}
  BY Stages DEF OfProc, Live, Stage
<1>3. About' = About /\ Serving' = Serving
  BY DEF About, Serving, Reachable
<1> QED BY <1>1, <1>2, <1>3 DEF L!Lose, Serving, Stage, About

(* Every step of Provisioner is a step of Lifecycle or a stutter. *)
LEMMA Simulation ==
    ASSUME Serial, TypeOK, TypeOK', RequestOK, PanelOwner, SerialInv, [Next]_vars
    PROVE  [L!Next]_<<Serving, Stage, About>>
<1>1. ASSUME NEW o \in Requests, Submit(o) PROVE L!Next
  <2>1. PICK i \in Ids : Submitted(o, i)
    BY <1>1, SubmitShape
  <2> QED BY <2>1, SubmitSimulates DEF L!Next
<1>2. ASSUME NEW o \in Requests, Step(o) PROVE [L!Next]_<<Serving, Stage, About>>
  BY <1>2, StepSimulates
<1>3. ASSUME NEW p \in Procs, Crash(p) PROVE L!Next
  <2>1. L!Lose(OfProc(p))
    BY <1>3, KillSimulates DEF Crash
  <2> QED BY <2>1 DEF L!Next, OfProc
<1>4. ASSUME Exit PROVE L!Next
  <2>1. L!Lose(OfProc(Server))
    BY <1>4, KillSimulates, ConstantsAssumption DEF Exit
  <2> QED BY <2>1 DEF L!Next, OfProc
<1>5. ASSUME Shutdown \/ Restart \/ UNCHANGED vars PROVE UNCHANGED <<Serving, Stage, About>>
  BY <1>5 DEF Shutdown, Restart, vars, Serving, Stage, About, Reachable
<1> QED BY <1>1, <1>2, <1>3, <1>4, <1>5 DEF Next

(* Provision and Destroy implement Lifecycle while operations on an instance take
   turns: an instance comes into service by its own create, leaves it by a
   destroy, and every answer is true. *)
THEOREM ImplementsLifecycle == ASSUME Serial PROVE Spec => RefinesLifecycle
<1>1. Init => L!Init
  BY Stages DEF Init, L!Init, Reachable, NoRow
<1>2. TypeOK /\ TypeOK' /\ RequestOK /\ PanelOwner /\ SerialInv /\ [Next]_vars => [L!Next]_<<Serving, Stage, About>>
  BY Simulation
<1>3. QED
  BY <1>1, <1>2, TypeCorrect, PanelOwnership, SerialInvariant, PTL DEF Spec, L!Spec, RefinesLifecycle, L!vars, Serving, Stage, About

=============================================================================
