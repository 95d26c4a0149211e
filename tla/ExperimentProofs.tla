--------------------------- MODULE ExperimentProofs ---------------------------
(***************************************************************************)
(* Theorems about Experiment, for any number of clients, measurements and  *)
(* looks at the log.                                                       *)
(*                                                                         *)
(* The inductive invariant says where both scripts may be at a time, what  *)
(* the replica may have of the load there, and what the files hold.        *)
(***************************************************************************)
EXTENDS Experiment, FiniteSetTheorems, TLAPS

ClientsOf(phase, k) == {[phase |-> phase, n |-> n] : n \in 1 .. k}

\* The lines of averages of a complete measurement.
Lines(r) == {<<r.number, n>> : n \in 1 .. r.num_clients}

TypeOK ==
    /\ run \in [number : Nat, workload : Workloads \cup {"w"}, code : Codes \cup {"orig"},
                num_clients : Nat \ {0}]
    /\ driver \in {"idle", "stop", "start", "perform", "wait", "finish"}
    /\ vrclient \in {"none", "loading", "checking", "loaded", "measuring", "ended"}
    /\ leader \in [up : BOOLEAN, durable : Nat, committed : Nat]
    /\ vrlog \in Nat

\* Client processes are there while they are waited for, and only then.
Phases ==
    /\ vrclient # "none" <=> driver = "wait"
    /\ vrclient = "loading" => clients \subseteq ClientsOf("load", Loaders)
    /\ vrclient = "measuring" => clients \subseteq ClientsOf("run", run.num_clients)
    /\ vrclient \notin {"loading", "measuring"} => clients = {}

\* The replica has no more of the load than clients have ended.
LoadBounded ==
    /\ leader.committed <= leader.durable
    /\ vrclient = "loading" => leader.durable + Cardinality(clients) <= Loaders
    /\ driver = "wait" /\ vrclient # "loading" => leader.durable <= Loaders

\* The log is that of the replica of this measurement.
LogOfLeader ==
    /\ driver \in {"start", "perform"} => vrlog = 0 /\ leader.durable = 0
    /\ driver \in {"perform", "wait"} => leader.up
    /\ driver = "wait" => vrlog = leader.committed

LoadedWhole ==
    /\ vrclient \in {"loaded", "measuring"}
    /\ run.workload \notin NotLoaded /\ run.code \in Checked
    => leader = [up |-> TRUE, durable |-> Loaders, committed |-> Loaders]

FilesOfRun ==
    /\ DOMAIN lat = UNION {1 .. k : k \in ClientCounts}
    /\ driver # "idle" => run.num_clients \in ClientCounts
    /\ vrclient = "measuring" => \A n \in DOMAIN lat : lat[n] \in {0, run.number}
    /\ vrclient \notin {"measuring", "ended"} => raw = {}
    /\ \A x \in raw : x[1] = run.number
    /\ vrclient = "ended" => output \subseteq Lines(run)

ResultsOfRuns ==
    \A res \in results :
        /\ res.run.num_clients \in Nat
        /\ res.averages \subseteq Lines(res.run)
        /\ \A x \in res.latencies : x[1] = res.run.number

Inv == TypeOK /\ Phases /\ LoadBounded /\ LogOfLeader /\ LoadedWhole /\ FilesOfRun /\ ResultsOfRuns

-------------------------------------------------------------------------------
(* Cardinalities                                                           *)

\* There are k clients of a phase at most.
LEMMA ClientsFinite ==
    ASSUME NEW phase, NEW k \in Nat
    PROVE  IsFiniteSet(ClientsOf(phase, k)) /\ Cardinality(ClientsOf(phase, k)) <= k
<1> DEFINE f == [n \in 1 .. k |-> [phase |-> phase, n |-> n]]
<1>1. f \in Surjection(1 .. k, ClientsOf(phase, k))
  BY DEF Surjection, ClientsOf
<1>2. IsFiniteSet(1 .. k) /\ Cardinality(1 .. k) = k
  BY FS_Interval
<1>. QED BY <1>1, <1>2, FS_Surjection

\* A complete measurement has one line for each client.
LEMMA LinesFinite ==
    ASSUME NEW r, r.num_clients \in Nat
    PROVE  IsFiniteSet(Lines(r)) /\ Cardinality(Lines(r)) = r.num_clients
<1> DEFINE k == r.num_clients
           f == [n \in 1 .. k |-> <<r.number, n>>]
<1>1. f \in Surjection(1 .. k, Lines(r))
  BY DEF Surjection, Lines
<1>2. f \in Injection(1 .. k, Lines(r))
  BY <1>1 DEF Surjection, Injection, IsInjective
<1>3. IsFiniteSet(1 .. k) /\ Cardinality(1 .. k) = k
  BY FS_Interval
<1>. QED BY <1>1, <1>2, <1>3, FS_Surjection

\* A set of clients that has lost one of them is smaller by one.
LEMMA OneLess ==
    ASSUME NEW phase, NEW k \in Nat, clients \subseteq ClientsOf(phase, k), NEW p \in clients
    PROVE  /\ Cardinality(clients) \in Nat
           /\ Cardinality(clients \ {p}) = Cardinality(clients) - 1
<1>1. IsFiniteSet(clients)
  BY ClientsFinite, FS_Subset
<1>. QED BY <1>1, FS_RemoveElement, FS_CardinalityType

\* What a replica has when it has acknowledged one share more.
LEMMA ShareOfLoad ==
    ASSUME leader \in [up : BOOLEAN, durable : Nat, committed : Nat],
           leader' = [leader EXCEPT !.durable = @ + 1,
                                    !.committed = IF run.code \in Checked THEN @ ELSE @ + 1]
    PROVE  /\ leader'.up = leader.up
           /\ leader'.durable = leader.durable + 1
           /\ leader'.committed \in {leader.committed, leader.committed + 1}
           /\ leader' \in [up : BOOLEAN, durable : Nat, committed : Nat]
<1>1. CASE run.code \in Checked
  <2>1. leader' = [up |-> leader.up, durable |-> leader.durable + 1,
                   committed |-> leader.committed]
    BY <1>1
  <2>. QED BY <2>1
<1>2. CASE run.code \notin Checked
  <2>1. leader' = [up |-> leader.up, durable |-> leader.durable + 1,
                   committed |-> leader.committed + 1]
    BY <1>2
  <2>. QED BY <2>1
<1>. QED BY <1>1, <1>2

-------------------------------------------------------------------------------
(* The invariant                                                           *)

LEMMA InitInv == Init => Inv
BY DEF Init, Inv, TypeOK, Phases, LoadBounded, LogOfLeader, LoadedWhole, FilesOfRun,
       ResultsOfRuns, Down

\* What remote-throughput.py does keeps the invariant.
LEMMA DriverInv == Inv /\ Driver => Inv'
<1> SUFFICES ASSUME Inv, Driver PROVE Inv'
  OBVIOUS
<1> USE DEF Inv, TypeOK, Phases, LoadBounded, LogOfLeader, LoadedWhole, FilesOfRun,
            ResultsOfRuns, Down, client, replica, files
<1>1. CASE StartRun
  BY <1>1, ExperimentAssumption DEF StartRun
<1>2. CASE ResetServers
  BY <1>2 DEF ResetServers
<1>3. CASE StartServers
  <2>1. leader' = [up |-> TRUE, durable |-> 0, committed |-> 0]
    BY <1>3 DEF StartServers
  <2>2. leader.durable = 0 /\ vrlog = 0
    BY <1>3 DEF StartServers
  <2>3. /\ driver' = "perform" /\ driver = "start"
        /\ UNCHANGED <<run, vrclient, clients, vrlog, lat, raw, output, results>>
    BY <1>3 DEF StartServers
  <2>4. TypeOK' /\ Phases' /\ LoadBounded'
    BY <2>1, <2>3
  <2>5. LogOfLeader' /\ LoadedWhole'
    BY <2>1, <2>2, <2>3
  <2>6. FilesOfRun' /\ ResultsOfRuns'
    BY <2>3 DEF Lines
  <2>. QED BY <2>4, <2>5, <2>6
<1>4. CASE StartWorkload
  <2>1. CASE run.workload \in NotLoaded
    BY <1>4, <2>1, ExperimentAssumption DEF StartWorkload
  <2>2. CASE run.workload \notin NotLoaded
    <3>1. clients' = ClientsOf("load", Loaders)
      BY <1>4, <2>2 DEF StartWorkload, ClientsOf
    <3>2. Cardinality(clients') <= Loaders /\ Cardinality(clients') \in Nat
      BY <3>1, ClientsFinite, FS_CardinalityType, ExperimentAssumption
    <3>. QED BY <1>4, <2>2, <3>1, <3>2, ExperimentAssumption DEF StartWorkload
  <2>. QED BY <2>1, <2>2
<1>5. CASE Collect
  BY <1>5 DEF Collect, RawLeft
<1>6. CASE StopServers
  BY <1>6 DEF StopServers
<1>. QED BY <1>1, <1>2, <1>3, <1>4, <1>5, <1>6 DEF Driver

\* What vrclient.py does keeps the invariant: it goes on only when it has seen the
\* whole load committed, and starts with files of no other measurement.
LEMMA VrclientInv == Inv /\ Vrclient => Inv'
<1> SUFFICES ASSUME Inv, Vrclient PROVE Inv'
  OBVIOUS
<1> USE DEF Inv, TypeOK, Phases, LoadBounded, LogOfLeader, LoadedWhole, FilesOfRun,
            ResultsOfRuns, client, replica, files
<1>1. CASE FinishLoading
  <2>1. Cardinality(clients) = 0
    BY <1>1, FS_EmptySet DEF FinishLoading
  <2>. QED BY <1>1, <2>1, ExperimentAssumption DEF FinishLoading
<1>2. CASE CheckLoad
  BY <1>2, ExperimentAssumption DEF CheckLoad, Seen
<1>3. CASE StartMeasuring
  BY <1>3 DEF StartMeasuring, NewLat, ClientsOf
<1>4. CASE FinishMeasuring
  <2>1. 1 .. run.num_clients \subseteq DOMAIN lat
    BY <1>4 DEF FinishMeasuring
  <2>2. output' \subseteq Lines(run)
    BY <1>4, <2>1 DEF FinishMeasuring, Lines
  <2>. QED BY <1>4, <2>2 DEF FinishMeasuring, Lines
<1>. QED BY <1>1, <1>2, <1>3, <1>4 DEF Vrclient

\* The end of a client process keeps the invariant.
LEMMA ClientEndsInv == Inv /\ ClientEnds => Inv'
<1> SUFFICES ASSUME Inv, NEW p \in clients, LoaderEnds(p) \/ MeasuredEnds(p) PROVE Inv'
  BY DEF ClientEnds
<1> USE DEF Inv, TypeOK, Phases, LoadBounded, LogOfLeader, LoadedWhole, FilesOfRun,
            ResultsOfRuns, replica, files
<1>1. CASE LoaderEnds(p)
  <2>1. vrclient = "loading"
    BY <1>1 DEF LoaderEnds, ClientsOf
  <2>2. /\ Cardinality(clients) \in Nat
        /\ Cardinality(clients') = Cardinality(clients) - 1
    BY <1>1, <2>1, OneLess, ExperimentAssumption DEF LoaderEnds
  <2>3. clients' \subseteq clients
    BY <1>1 DEF LoaderEnds
  <2>4. UNCHANGED <<run, driver, vrclient, lat, raw, output, results>>
    BY <1>1 DEF LoaderEnds
  <2>5. CASE UNCHANGED replica
    BY <2>1, <2>2, <2>3, <2>4, <2>5, ExperimentAssumption
  <2>6. CASE /\ leader' = [leader EXCEPT !.durable = @ + 1,
                                       !.committed = IF run.code \in Checked THEN @ ELSE @ + 1]
             /\ vrlog' = leader'.committed
    <3>1. /\ leader'.up = leader.up
          /\ leader'.durable = leader.durable + 1
          /\ leader'.committed \in {leader.committed, leader.committed + 1}
          /\ leader' \in [up : BOOLEAN, durable : Nat, committed : Nat]
      BY <2>6, ShareOfLoad
    <3>2. LoadBounded'
      BY <2>1, <2>2, <2>4, <3>1, ExperimentAssumption
    <3>3. TypeOK'
      BY <2>4, <2>6, <3>1
    <3>4. Phases' /\ LoadedWhole'
      BY <2>1, <2>3, <2>4
    <3>5. LogOfLeader'
      BY <2>1, <2>4, <2>6, <3>1
    <3>6. FilesOfRun' /\ ResultsOfRuns'
      BY <2>4 DEF Lines
    <3>. QED BY <3>2, <3>3, <3>4, <3>5, <3>6
  <2>. QED BY <1>1, <2>5, <2>6 DEF LoaderEnds
<1>2. CASE MeasuredEnds(p)
  <2>1. vrclient = "measuring"
    BY <1>2 DEF MeasuredEnds, ClientsOf
  <2>. QED BY <1>2, <2>1 DEF MeasuredEnds
<1>. QED BY <1>1, <1>2

LEMMA CommitInv == Inv /\ CommitInBackground => Inv'
BY ExperimentAssumption
   DEF Inv, TypeOK, Phases, LoadBounded, LogOfLeader, LoadedWhole, FilesOfRun, ResultsOfRuns,
       CommitInBackground, client, files

LEMMA StutterInv == Inv /\ UNCHANGED vars => Inv'
BY DEF Inv, TypeOK, Phases, LoadBounded, LogOfLeader, LoadedWhole, FilesOfRun, ResultsOfRuns,
       vars

LEMMA SpecInv == Spec => []Inv
<1>1. Inv /\ [Next]_vars => Inv'
  BY DriverInv, VrclientInv, ClientEndsInv, CommitInv, StutterInv DEF Next
<1>. QED BY InitInv, <1>1, PTL DEF Spec

-------------------------------------------------------------------------------
(* Theorems                                                                *)

\* A code that answers before it commits is measured only when the replica of this
\* very measurement has committed the whole load.
THEOREM MeasuredOnLoadedHolds == Spec => []MeasuredOnLoaded
<1>1. Inv => MeasuredOnLoaded
  BY DEF Inv, LoadedWhole, MeasuredOnLoaded
<1>. QED BY SpecInv, <1>1, PTL

\* A result that calc.py accepts has the averages of all clients of that measurement.
THEOREM AcceptedCompleteHolds == Spec => []AcceptedComplete
<1>1. Inv => AcceptedComplete
  <2> SUFFICES ASSUME Inv, NEW res \in results, Accepted(res)
               PROVE  res.averages = Lines(res.run)
    BY DEF AcceptedComplete, Lines
  <2>1. res.run.num_clients \in Nat /\ res.averages \subseteq Lines(res.run)
    BY DEF Inv, ResultsOfRuns
  <2>2. Cardinality(res.averages) = Cardinality(Lines(res.run))
    BY <2>1, LinesFinite DEF Accepted
  <2>. QED BY <2>1, <2>2, LinesFinite, FS_Subset
<1>. QED BY SpecInv, <1>1, PTL

\* The latencies that are stored with a result are of that measurement.
THEOREM OwnLatenciesHolds == Spec => []OwnLatencies
<1>1. Inv => OwnLatencies
  BY DEF Inv, ResultsOfRuns, OwnLatencies
<1>. QED BY SpecInv, <1>1, PTL

===============================================================================
