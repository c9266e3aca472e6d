---------------------------- MODULE MasterProofs ----------------------------
(***************************************************************************)
(* Theorems about Master: through any number of exits, failures, reloads   *)
(* and shutdowns there are never more workers alive than configured.       *)
(***************************************************************************)
EXTENDS Master, FiniteSetTheorems, TLAPS

\* The processes that are there: in the list, or about to be added to it.
Spawned == IF spawning = 0 THEN {} ELSE {spawning}

\* The list is a finite set of processes, and holds everything that is alive but
\* the one that is just being started.
Listed ==
    /\ processes \subseteq Processes /\ IsFiniteSet(processes)
    /\ Live \subseteq processes \cup Spawned
    /\ spawning \notin processes /\ (spawning # 0 => state[spawning] # "none")

\* While the list is being populated, what it holds and what is left to start
\* make a full set; at any other time nothing is left, and it holds no more.
Counted ==
    /\ left \in Nat /\ Cardinality(processes) \in Nat
    /\ IF main = "populate" THEN Cardinality(processes) + left = Workers
       ELSE spawning = 0 /\ Cardinality(processes) <= Workers
    /\ spawning # 0 => left > 0

\* Once run() has terminated the workers none is alive.
NoneLeft == main \in {"rejoin", "over"} => Live = {}

IInv == TypeOK /\ Listed /\ Counted /\ NoneLeft

-----------------------------------------------------------------------------
LEMMA StartsAreNat == MaxStarts \in Nat /\ 0 \notin Processes
<1>1. \A a, b \in Nat : a * (1 + b) \in Nat
  OBVIOUS
<1> QED
  BY <1>1, MasterAssumption DEF MaxStarts, Processes

LEMMA InitIInv == Init => IInv
<1> SUFFICES ASSUME Init PROVE IInv
  OBVIOUS
<1>1. counts \in [reloads : 0..MaxReloads, quits : 0..MaxQuits, fails : 0..MaxFails]
  BY MasterAssumption DEF Init
<1>5. /\ signals \in Signals /\ processes \subseteq Processes
      /\ state \in [Processes -> {"none", "running", "draining", "done", "failed", "killed"}]
      /\ \A p \in processes : state[p] # "none"
  BY DEF Init
<1>6. left \in 0..Workers /\ spawning \in 0..MaxStarts /\ exitcode \in {0, 1}
  BY StartsAreNat, MasterAssumption DEF Init
<1>4. TypeOK
  BY <1>1, <1>5, <1>6 DEF Init, TypeOK
<1>2. IsFiniteSet(processes) /\ Cardinality(processes) = 0
  BY FS_EmptySet DEF Init
<1>3. Live = {}
  BY DEF Init, Live
<1> QED
  BY <1>4, <1>2, <1>3, MasterAssumption DEF Init, IInv, NoneLeft, Listed, Counted, Spawned

\* A step of a worker leaves the list alone, and makes nothing alive that was not.
LEMMA WorkerKeeps ==
    ASSUME IInv, NEW p \in Processes, Sees(p) \/ Exits(p) \/ Quits(p) \/ Fails(p)
    PROVE  IInv'
<1>1. /\ state[p] \in {"running", "draining"}
      /\ \E how \in {"draining", "done", "failed"} : Becomes(p, how)
      /\ counts' \in [reloads : 0..MaxReloads, quits : 0..MaxQuits, fails : 0..MaxFails]
  BY MasterAssumption DEF IInv, TypeOK, Sees, Exits, Quits, Fails, Live
<1>2. TypeOK'
  BY <1>1 DEF IInv, TypeOK, Becomes, mainVars, signalVars
<1>3. Live' \subseteq Live
  BY <1>1 DEF IInv, TypeOK, Becomes, Live
<1>4. UNCHANGED mainVars
  BY <1>1 DEF Becomes
<1>5. state'[spawning] # "none" \/ spawning = 0
  BY <1>1 DEF IInv, TypeOK, Listed, Becomes, Processes
<1>6. Listed' /\ Counted' /\ NoneLeft'
  BY <1>3, <1>4, <1>5, <1>2 DEF IInv, Listed, Counted, NoneLeft, Spawned, mainVars
<1> QED
  BY <1>2, <1>6 DEF IInv

\* The handlers change neither the list nor a worker.
LEMMA HandlerKeeps ==
    ASSUME IInv, Shutdown \/ Reload \/ Reloaded
    PROVE  IInv'
<1>2. UNCHANGED <<signals, state, mainVars>>
  BY DEF Shutdown, Reload, Reloaded
<1>3. counts' \in [reloads : 0..MaxReloads, quits : 0..MaxQuits, fails : 0..MaxFails]
  BY MasterAssumption DEF IInv, TypeOK, Shutdown, Reload, Reloaded
<1>4. /\ event' \in BOOLEAN /\ active' \in BOOLEAN
      /\ reloading' \in BOOLEAN /\ asked' \in BOOLEAN
  BY DEF IInv, TypeOK, Shutdown, Reload, Reloaded
<1>1. TypeOK'
  BY <1>2, <1>3, <1>4 DEF IInv, TypeOK, mainVars
<1> QED
  BY <1>1, <1>2 DEF IInv, Listed, Counted, NoneLeft, Spawned, Live, mainVars

LEMMA StartKeeps ==
    ASSUME IInv, Start
    PROVE  IInv'
<1> PICK p \in Processes :
      /\ state[p] = "none"
      /\ state' = [state EXCEPT ![p] = "running"] /\ spawning' = p
  BY DEF Start
<1> USE StartsAreNat
<1>1. TypeOK'
  BY DEF IInv, TypeOK, Start, Processes, signalVars
<1>2. Live' \subseteq Live \cup {p}
  BY DEF IInv, TypeOK, Live
<1>3. p \notin processes /\ spawning = 0 /\ spawning' # 0
  BY DEF IInv, TypeOK, Start, Processes
<1>4. Listed'
  <2>1. processes' = processes /\ spawning' = p
    BY DEF Start
  <2>2. state'[p] = "running"
    BY DEF IInv, TypeOK
  <2> QED
    BY <1>2, <1>3, <2>1, <2>2 DEF IInv, Listed, Spawned
<1>5. Counted'
  BY <1>3 DEF IInv, Counted, Start, At, Due
<1> QED
  BY <1>1, <1>4, <1>5 DEF IInv, NoneLeft, Start, At

LEMMA AppendKeeps ==
    ASSUME IInv, Append
    PROVE  IInv'
<1>1. /\ spawning \in Processes /\ spawning \notin processes
      /\ left \in Nat /\ left > 0 /\ left' = left - 1
  BY DEF IInv, TypeOK, Listed, Counted, Append, At, Processes
<1>2. /\ IsFiniteSet(processes')
      /\ Cardinality(processes') = Cardinality(processes) + 1
  BY <1>1, FS_AddElement DEF Append, IInv, Listed
<1>3. state[spawning] # "none"
  BY <1>1, StartsAreNat DEF IInv, Listed
<1>4. TypeOK'
  <2>1. left' \in 0..Workers /\ spawning' \in 0..MaxStarts
    BY <1>1, StartsAreNat, MasterAssumption DEF IInv, TypeOK, Append
  <2>2. processes' \subseteq Processes /\ \A p \in processes' : state'[p] # "none"
    BY <1>1, <1>3 DEF IInv, TypeOK, Append
  <2> QED
    BY <2>1, <2>2 DEF IInv, TypeOK, Append, signalVars
<1>5. Listed'
  BY <1>1, <1>2, StartsAreNat DEF IInv, Listed, Append, Live, Spawned
<1> QED
  BY <1>1, <1>2, <1>4, <1>5 DEF IInv, Counted, NoneLeft, Append, At

LEMMA PopulatedKeeps ==
    ASSUME IInv, Populated
    PROVE  IInv'
<1>1. TypeOK'
  BY DEF IInv, TypeOK, Populated, signalVars
<1>2. Listed'
  BY DEF IInv, Listed, Populated, Live, Spawned
<1> QED
  BY <1>1, <1>2 DEF IInv, Counted, NoneLeft, Populated, At

\* What is left of a list that loses some is finite and no larger.
LEMMA FewerListed ==
    ASSUME IInv, NEW rest \in SUBSET processes
    PROVE  IsFiniteSet(rest) /\ Cardinality(rest) \in Nat
           /\ Cardinality(rest) <= Cardinality(processes)
  BY FS_Subset, FS_CardinalityType DEF IInv, Listed

\* Only what has ended leaves the list, and _populate() is to make up for it.
LEMMA CollectKeeps ==
    ASSUME IInv, Collect
    PROVE  IInv'
<1> DEFINE gone == processes \cap Over
<1>1. /\ main = "wait" /\ processes' = processes \ gone
      /\ exitcode' = Code(gone)
      /\ event' = (event \/ Code(gone) # 0) /\ active' = (active /\ Code(gone) = 0)
      /\ \/ main' = "populate" /\ left' = Missing(processes')
         \/ main' = "terminate" /\ left' = left
      /\ UNCHANGED <<signals, state, spawning, handled, reloading, asked, counts>>
  BY DEF Collect, At
<1>2. /\ IsFiniteSet(processes') /\ Cardinality(processes') \in Nat
      /\ Cardinality(processes') <= Workers
  BY <1>1, FewerListed, MasterAssumption DEF IInv, Counted
<1>3. left' \in 0..Workers /\ left' \in Nat
      /\ (main' = "populate" => Cardinality(processes') + left' = Workers)
  BY <1>1, <1>2, MasterAssumption DEF Missing, IInv, TypeOK, Counted
<1>4. exitcode' \in {0, 1}
  BY <1>1 DEF Code
<1>5. event' \in BOOLEAN /\ active' \in BOOLEAN
  BY <1>1 DEF IInv, TypeOK
<1>6. TypeOK'
  BY <1>1, <1>3, <1>4, <1>5 DEF IInv, TypeOK
<1>7. Live' = Live /\ Live \cap gone = {}
  BY <1>1 DEF Live, Over
<1>8. Listed'
  BY <1>1, <1>2, <1>7 DEF IInv, Listed, Spawned
<1>9. Counted'
  BY <1>1, <1>2, <1>3 DEF IInv, Counted
<1> QED
  BY <1>1, <1>6, <1>8, <1>9 DEF IInv, NoneLeft

LEMMA TerminateKeeps ==
    ASSUME IInv, Terminate
    PROVE  IInv'
<1>1. spawning = 0 /\ Live \subseteq processes
  BY DEF IInv, Listed, Counted, Spawned, Terminate, At
<1>2. /\ state' \in [Processes -> {"none", "running", "draining", "done", "failed", "killed"}]
      /\ \A p \in processes : state'[p] # "none"
  BY DEF IInv, TypeOK, Terminate
<1>3. Live' = {}
  BY <1>1 DEF IInv, TypeOK, Terminate, Live
<1>4. TypeOK'
  BY <1>2 DEF IInv, TypeOK, Terminate, signalVars
<1>5. Listed' /\ NoneLeft'
  BY <1>1, <1>3 DEF IInv, Listed, NoneLeft, Terminate
<1> QED
  BY <1>1, <1>4, <1>5 DEF IInv, Counted, Terminate, At

LEMMA RejoinKeeps ==
    ASSUME IInv, Rejoin
    PROVE  IInv'
<1>1. /\ main = "rejoin" /\ main' = "over" /\ processes' \subseteq processes
      /\ exitcode' \in {0, 1}
      /\ UNCHANGED <<signals, state, left, spawning, handled, signalVars, counts>>
  BY DEF Rejoin, At, Code, IInv, TypeOK
<1>2. /\ IsFiniteSet(processes') /\ Cardinality(processes') \in Nat
      /\ Cardinality(processes') <= Workers
  BY <1>1, FewerListed, MasterAssumption DEF IInv, Counted
<1>3. Live' = {}
  BY <1>1 DEF IInv, NoneLeft, Live
<1>4. TypeOK'
  BY <1>1 DEF IInv, TypeOK, signalVars
<1>5. Listed' /\ NoneLeft'
  BY <1>1, <1>2, <1>3 DEF IInv, Listed, NoneLeft
<1> QED
  BY <1>1, <1>2, <1>4, <1>5 DEF IInv, Counted

LEMMA NextKeeps == IInv /\ [Next]_vars => IInv'
<1> SUFFICES ASSUME IInv, [Next]_vars PROVE IInv'
  OBVIOUS
<1>1. CASE \E p \in Processes : Sees(p) \/ Exits(p) \/ Quits(p) \/ Fails(p)
  BY <1>1, WorkerKeeps
<1>2. CASE Shutdown \/ Reload \/ Reloaded
  BY <1>2, HandlerKeeps
<1>3. CASE Start
  BY <1>3, StartKeeps
<1>4. CASE Append
  BY <1>4, AppendKeeps
<1>5. CASE Populated
  BY <1>5, PopulatedKeeps
<1>6. CASE Collect
  BY <1>6, CollectKeeps
<1>7. CASE Terminate
  BY <1>7, TerminateKeeps
<1>8. CASE Rejoin
  BY <1>8, RejoinKeeps
<1>9. CASE UNCHANGED vars
  BY <1>9 DEF vars, mainVars, signalVars, IInv, TypeOK, Listed, Counted, NoneLeft,
              Live, Spawned
<1> QED
  BY <1>1, <1>2, <1>3, <1>4, <1>5, <1>6, <1>7, <1>8, <1>9 DEF Next, MainStep

-----------------------------------------------------------------------------
\* The inductive invariant: what the list of run() holds, and how many are left
\* to start, at each place.
THEOREM MasterInvariance == Spec => []IInv
  BY InitIInv, NextKeeps, PTL DEF Spec

\* Every variable keeps its type; _populate() never starts a negative number.
THEOREM MasterTypes == Spec => []TypeOK
<1>1. IInv => TypeOK
  BY DEF IInv
<1> QED
  BY <1>1, MasterInvariance, PTL

\* For any number of workers, reloads, exits and failures: never more workers
\* alive than config.workers, and each is in the list or about to be added.
THEOREM MasterCapacity == Spec => []Capacity
<1>1. IInv => Capacity
  <2> SUFFICES ASSUME IInv PROVE Capacity
    OBVIOUS
  <2>1. Live \subseteq processes \cup Spawned
    BY DEF IInv, Listed
  <2>2. /\ IsFiniteSet(processes \cup Spawned)
        /\ Cardinality(processes \cup Spawned) <= Workers
    <3>1. CASE spawning = 0
      <4>1. processes \cup Spawned = processes
        BY <3>1 DEF Spawned
      <4>2. Cardinality(processes) <= Workers
        BY MasterAssumption DEF IInv, Counted
      <4>3. IsFiniteSet(processes)
        BY DEF IInv, Listed
      <4> QED
        BY <4>1, <4>2, <4>3, Zenon
    <3>2. CASE spawning # 0
      <4>1. processes \cup Spawned = processes \cup {spawning}
        BY <3>2 DEF Spawned
      <4>2. /\ IsFiniteSet(processes \cup {spawning})
            /\ Cardinality(processes \cup {spawning}) = Cardinality(processes) + 1
        BY FS_AddElement DEF IInv, Listed
      <4>3. Cardinality(processes) + 1 <= Workers
        BY <3>2, MasterAssumption DEF IInv, Counted
      <4> QED
        BY <4>1, <4>2, <4>3, Zenon
    <3> QED
      BY <3>1, <3>2
  <2>3. Cardinality(Live) <= Cardinality(processes \cup Spawned) /\ IsFiniteSet(Live)
    BY <2>1, <2>2, FS_Subset
  <2>4. Cardinality(Live) <= Workers
    BY <2>2, <2>3, FS_CardinalityType, MasterAssumption
  <2> QED
    BY <2>1, <2>4 DEF Capacity, Spawned
<1> QED
  BY <1>1, MasterInvariance, PTL

\* When run() has returned none of its workers is alive.
THEOREM MasterLeavesNone == Spec => [](main = "over" => Live = {})
<1>1. IInv => (main = "over" => Live = {})
  BY DEF IInv, NoneLeft
<1> QED
  BY <1>1, MasterInvariance, PTL
=============================================================================
