------------------------------ MODULE Experiment ------------------------------
(***************************************************************************)
(* How a measurement is made: experiments/remote-throughput.py, which      *)
(* stops, resets and starts the replicas and collects the results, and     *)
(* vrclient.py on the client machine, which loads the store, waits until   *)
(* the load is committed, starts the clients that are measured and prints  *)
(* what they wrote.  run.sh does one measurement after the other.          *)
(*                                                                         *)
(* The client processes end by themselves, or die; the replicas commit     *)
(* acknowledged updates in the background.  What the drivers see of either *)
(* is the process list and the log of the first replica, the leader.       *)
(***************************************************************************)
EXTENDS Naturals, FiniteSets

CONSTANTS
    Loaders,       \* the clients that load, 8 in the code; each has a share of the load
    Workloads,
    Codes,         \* "orig" is the Paxos baseline, "rtop" is Skyros
    ClientCounts,  \* values of num_clients
    MaxChecks,     \* how often the log is looked at before vrclient.py gives up, 7
    MaxRuns        \* bound: measurements

ASSUME ExperimentAssumption ==
    /\ Loaders \in Nat \ {0} /\ MaxChecks \in Nat /\ MaxRuns \in Nat
    /\ ClientCounts \subseteq Nat \ {0}

VARIABLES
    run,        \* the measurement: its number, workload, code and num_clients
    driver,     \* where remote-throughput.py is
    vrclient,   \* where vrclient.py is
    checks,     \* times_checked
    clients,    \* the client processes: phase and number
    leader,     \* the replica: the load acknowledged and committed, if it runs
    vrlog,      \* the last "lastcommitted" in its log
    lat,        \* lat[n]: the measurement whose averages the file lat.n holds, or 0
    raw,        \* the latencies.n.raw files: measurement and n
    reqserver,  \* the measurement for which the request server was started, or 0
    output,     \* the averages that vrclient.py prints, as in lat
    results     \* the result directories

vars == <<run, driver, vrclient, checks, clients, leader, vrlog, lat, raw, reqserver,
          output, results>>

files == <<lat, raw, reqserver>>
replica == <<leader, vrlog>>
client == <<vrclient, checks, clients, output>>

NotLoaded == {"w", "e", "fs", "fsar", "compat", "nc"}

\* The codes whose clients are answered before their requests are committed.
Checked == {"rtop", "curp", "rtopcomm"}

Down == [up |-> FALSE, durable |-> 0, committed |-> 0]

-------------------------------------------------------------------------------
(* remote-throughput.py                                                    *)

StartRun ==
    /\ driver = "idle"
    /\ run.number < MaxRuns
    /\ \E w \in Workloads, c \in Codes, n \in ClientCounts :
           run' = [number |-> run.number + 1, workload |-> w, code |-> c, num_clients |-> n]
    /\ driver' = "stop"
    /\ UNCHANGED <<client, replica, files, results>>

\* The replicas are killed, their logs and their stores removed.
ResetServers ==
    /\ driver = "stop"
    /\ driver' = "start"
    /\ leader' = Down
    /\ vrlog' = 0
    /\ UNCHANGED <<run, client, files, results>>

StartServers ==
    /\ driver = "start"
    /\ driver' = "perform"
    /\ leader' = [Down EXCEPT !.up = TRUE]
    /\ UNCHANGED <<run, client, vrlog, files, results>>

\* Every client process is killed, and vrclient.py loads unless it has no need to.
StartWorkload ==
    /\ driver = "perform"
    /\ driver' = "wait"
    /\ checks' = 0
    /\ IF run.workload \in NotLoaded
       THEN vrclient' = "loaded" /\ clients' = {}
       ELSE /\ vrclient' = "loading"
            /\ clients' = {[phase |-> "load", n |-> n] : n \in 1 .. Loaders}
    /\ UNCHANGED <<run, replica, files, output, results>>

\* Broken on purpose: the files are copied.
RawLeftCopied == raw

\* The files are moved.
RawLeft == {}

Collect ==
    /\ driver = "wait"
    /\ vrclient = "ended"
    /\ driver' = "finish"
    /\ vrclient' = "none"
    /\ results' = results \cup {[run |-> run, averages |-> output, latencies |-> raw]}
    /\ raw' = RawLeft
    /\ UNCHANGED <<run, checks, clients, output, replica, lat, reqserver>>

StopServers ==
    /\ driver = "finish"
    /\ driver' = "idle"
    /\ leader' = Down
    /\ UNCHANGED <<run, client, vrlog, files, results>>

-------------------------------------------------------------------------------
(* vrclient.py                                                             *)

\* "ps" shows no client any more.
FinishLoading ==
    /\ vrclient = "loading"
    /\ clients = {}
    /\ vrclient' = IF run.code \in Checked THEN "checking" ELSE "loaded"
    /\ UNCHANGED <<run, driver, checks, clients, replica, files, output, results>>

\* Broken on purpose: '100000' is looked for, which is in every multiple of it.
SeenAny == vrlog > 0

\* '1000000' is in the log.
Seen == vrlog = Loaders

\* Broken on purpose: the looks at the log are not counted.
CheckedUncounted == checks

CheckedOnce == checks + 1

\* The log has been looked at once too often, whatever it says, or the load is
\* seen to be committed, or it is looked at again.
CheckLoad ==
    /\ vrclient = "checking"
    /\ checks' = CheckedOnce
    /\ \/ /\ checks' > MaxChecks
          /\ vrclient' = "ended"
          /\ output' = {}
       \/ /\ checks' <= MaxChecks /\ Seen
          /\ vrclient' = "loaded"
          /\ UNCHANGED output
       \/ /\ checks' <= MaxChecks /\ ~Seen
          /\ UNCHANGED <<vrclient, output>>
    /\ UNCHANGED <<run, driver, clients, replica, files, results>>

\* Broken on purpose: the clients append to their files, which stay.
NewLatAppending == lat

\* lat.* is removed.
NewLat == [n \in DOMAIN lat |-> 0]

\* The request server cannot start while another one has its port.
StartMeasuring ==
    /\ vrclient = "loaded"
    /\ vrclient' = "measuring"
    /\ lat' = NewLat
    /\ raw' = {}
    /\ reqserver' = IF run.workload = "r" /\ reqserver = 0 THEN run.number ELSE reqserver
    /\ clients' = {[phase |-> "run", n |-> n] : n \in 1 .. run.num_clients}
    /\ UNCHANGED <<run, driver, checks, replica, output, results>>

FinishMeasuring ==
    /\ vrclient = "measuring"
    /\ clients = {}
    /\ vrclient' = "ended"
    /\ output' = {<<lat[n], n>> : n \in {k \in 1 .. run.num_clients : lat[k] # 0}}
    /\ reqserver' = 0
    /\ UNCHANGED <<run, driver, checks, clients, replica, lat, raw, results>>

-------------------------------------------------------------------------------
(* Clients and replicas                                                    *)

\* A client that loads has its share acknowledged, which the replica of the baseline
\* does when it has committed it, or it dies.
LoaderEnds(p) ==
    /\ p \in clients /\ p.phase = "load"
    /\ clients' = clients \ {p}
    /\ \/ /\ leader' = [leader EXCEPT !.durable = @ + 1,
                                      !.committed = IF run.code \in Checked THEN @ ELSE @ + 1]
          /\ vrlog' = leader'.committed
       \/ UNCHANGED replica
    /\ UNCHANGED <<run, driver, vrclient, checks, files, output, results>>

CommitInBackground ==
    /\ leader.committed < leader.durable
    /\ leader' = [leader EXCEPT !.committed = @ + 1]
    /\ vrlog' = leader'.committed
    /\ UNCHANGED <<run, driver, client, files, results>>

\* A client prints its averages and writes its latencies, or it dies.
MeasuredEnds(p) ==
    /\ p \in clients /\ p.phase = "run"
    /\ clients' = clients \ {p}
    /\ \/ /\ lat' = [lat EXCEPT ![p.n] = run.number]
          /\ raw' = raw \cup {<<run.number, p.n>>}
       \/ UNCHANGED <<lat, raw>>
    /\ UNCHANGED <<run, driver, vrclient, checks, replica, reqserver, output, results>>

-------------------------------------------------------------------------------

Init ==
    /\ run = [number |-> 0, workload |-> "w", code |-> "orig", num_clients |-> 1]
    /\ driver = "idle" /\ vrclient = "none" /\ checks = 0
    /\ clients = {} /\ leader = Down /\ vrlog = 0
    /\ lat = [n \in UNION {1 .. k : k \in ClientCounts} |-> 0]
    /\ raw = {} /\ reqserver = 0 /\ output = {} /\ results = {}

Driver == StartRun \/ ResetServers \/ StartServers \/ StartWorkload \/ Collect \/ StopServers

Vrclient == FinishLoading \/ CheckLoad \/ StartMeasuring \/ FinishMeasuring

ClientEnds == \E p \in clients : LoaderEnds(p) \/ MeasuredEnds(p)

Next == Driver \/ Vrclient \/ ClientEnds \/ CommitInBackground

\* The scripts go on, and a client process ends: it has so many requests to send or
\* so long to run.  Nothing is assumed of what the replicas do in the background.
Fairness == WF_vars(Driver) /\ WF_vars(Vrclient) /\ WF_vars(ClientEnds)

Spec == Init /\ [][Next]_vars /\ Fairness

-------------------------------------------------------------------------------
(* Properties                                                              *)

\* "making sure that load completed in the background" (vrclient.py): when a code
\* that answers early is measured, the whole load is committed by a replica of this
\* measurement, even if clients that load have died.
MeasuredOnLoaded ==
    vrclient = "measuring" /\ run.workload \notin NotLoaded /\ run.code \in Checked
        => leader = [up |-> TRUE, durable |-> Loaders, committed |-> Loaders]

\* calc.py takes a result that has one line of averages for each client.
Accepted(res) == Cardinality(res.averages) = res.run.num_clients

\* What is accepted was measured by all clients of that very measurement, whatever
\* has become of its clients and of the measurements before.
AcceptedComplete ==
    \A res \in results : Accepted(res) =>
        res.averages = {<<res.run.number, n>> : n \in 1 .. res.run.num_clients}

\* The latencies in a result directory are of its own measurement, also when
\* vrclient.py gave up before it had removed the files of the one before.
OwnLatencies ==
    \A res \in results : \A x \in res.latencies : x[1] = res.run.number

\* A measurement ends, although the load it waits for may never be committed.
RunsEnd == []<>(driver = "idle")

===============================================================================
