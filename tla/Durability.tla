------------------------------ MODULE Durability ------------------------------
(***************************************************************************)
(* The durability layer of Skyros in front of the consensus group: clients *)
(* (vr/client.cc, bench/benchmark.cc), durability servers                  *)
(* (vr/durabilityreplica.cc) and the paths by which the consensus replica  *)
(* of the leader orders and executes requests, while view 0 lasts.         *)
(*                                                                         *)
(* A replica process has two threads, that of its durability server and    *)
(* that of its consensus replica, which share the application.  A handler  *)
(* of the server and an upcall of the replica are split where the other    *)
(* thread may act in between and the order is visible:                     *)
(*  - AppUpcall and the reply to an update | AddToQueue                    *)
(*  - is the key's last update pending?    | read the store                *)
(*  - apply an update to the store         | erase it, count it executed   *)
(* Consensus itself is ExecutedLog, which VRReplica implements.            *)
(*                                                                         *)
(* A message is received at most once, at any time or never.  Duplicates   *)
(* come from clients that resend their requests.                           *)
(***************************************************************************)
EXTENDS DurabilityOrder, AppReplica

CONSTANTS
    Clients,    \* clients of bench/benchmark.cc
    Trace,      \* Trace[c]: the sequence of [op, key] that client c reads from its file
    Up,         \* the replicas that run
    Resends     \* bound: how often a client resends a request of each kind

ASSUME DurabilityAssumption ==
    /\ Trace \in [Clients -> Seq([op : Ops, key : Keys])]
    /\ Resends \in [Ops -> Nat]
    /\ Up \subseteq Replicas

Leader == GetLeaderIndex(0)

\* A benchmark client is two VRClients with identifiers of their own: one of the
\* durability servers and, for writes, one of the consensus replicas.
Request(c, i) ==
    [client |-> <<c, Trace[c][i].op = "write">>, id |-> i,
     op |-> Trace[c][i].op, key |-> Trace[c][i].key]

Requests == UNION {{Request(c, i) : i \in DOMAIN Trace[c]} : c \in Clients}

Updates == {q \in Requests : q.op # "read"}

ASSUME NotFoundAssumption == NotFound \notin Requests

Values == Updates \cup {NotFound}

\* In the field n, requests and what they cause carry which attempt they belong
\* to, so that copies are told apart; the code has no such field.
Messages ==
         [type : {"Request"}, to : Replicas, req : Requests, n : Nat]  \* to a server
    \cup [type : {"ConsensusRequest"}, req : Requests, n : Nat]  \* to the leader's replica
    \cup [type : {"ConsensusReply"}, req : Requests, n : Nat]    \* to the leader's server
    \cup [type : {"Reply"}, from : Replicas, req : Requests, value : Values, n : Nat]

VARIABLES
    app,        \* app[r]: the application of replica r
    server,     \* server[r]: the request whose handler has one step left, if any
    applied,    \* applied[r]: ReplicaUpcall has applied an update, not erased it
    decided,    \* the consensus log of the leader
    executed,   \* executed[r]: lastCommitted of replica r
    client,     \* client[c]: the state of the VRClient that c uses
    msgs,       \* messages not yet received
    aborted,    \* the leader's process failed an assert
    done,       \* history: the completed requests with their results
    precedes    \* history: <<p, q>> if p was completed before q was sent

vars == <<app, server, applied, decided, executed, client, msgs, aborted, done, precedes>>

serverVars == <<app, server, aborted>>
clientVars == <<client, done, precedes>>
logVars == <<decided, executed>>

Log == INSTANCE ExecutedLog

-------------------------------------------------------------------------------
(* Clients                                                                 *)

\* A reply to a completed request changes nothing: it is not kept.
Useless(m, completed) == m.type = "Reply" /\ \E d \in completed : d.req = m.req

Network(gone, sent) == msgs' = {m \in (msgs \ gone) \cup sent : ~Useless(m, done)}

\* The servers that do not ignore the request: only the leader's answers a read.
SendRequest(q, n) ==
    IF q.op = "write" THEN {[type |-> "ConsensusRequest", req |-> q, n |-> n]}
    ELSE {[type |-> "Request", to |-> r, req |-> q, n |-> n]
          : r \in IF IsNilext(q) THEN Up ELSE {Leader}}

Current(c) == Request(c, client[c].id)

\* SendNext, Invoke.
Invoke(c) ==
    LET i == client[c].id + 1 IN
    /\ ~client[c].pending
    /\ i <= Len(Trace[c])
    /\ client' = [client EXCEPT ![c] = [id |-> i, pending |-> TRUE, sent |-> 1,
                                        responses |-> 0, leaderAcked |-> FALSE]]
    /\ precedes' = precedes \cup {<<d.req, Request(c, i)>> : d \in done}
    /\ UNCHANGED done
    /\ Network({}, SendRequest(Request(c, i), 1))
    /\ UNCHANGED <<serverVars, applied, logVars>>

\* requestTimeout.
ResendRequest(c) ==
    /\ client[c].pending
    /\ client[c].sent <= Resends[Current(c).op]
    /\ client' = [client EXCEPT ![c].sent = @ + 1]
    /\ UNCHANGED <<done, precedes>>
    /\ Network({}, SendRequest(Current(c), client[c].sent + 1))
    /\ UNCHANGED <<serverVars, applied, logVars>>

\* Broken on purpose: a majority is enough.
QuorumOfMajority(q) == IF IsNilext(q) THEN QuorumSize ELSE 1

Quorum(q) == IF IsNilext(q) THEN FastQuorumSize ELSE 1

\* Broken on purpose: the reply of the leader is enough.
EnoughFromLeader(s, q) == s.leaderAcked

\* The client has what it waits for.
Enough(s, q) == s.responses >= Quorum(q) /\ s.leaderAcked

\* Replies are counted, whoever sent them; the last one holds the result.
HandleReply(c) ==
    \E m \in msgs :
        LET s == [client[c] EXCEPT !.responses = @ + 1,
                                   !.leaderAcked = @ \/ m.from = Leader]
        IN
        /\ m.type = "Reply"
        /\ client[c].pending
        /\ m.req = Current(c)
        /\ client' = [client EXCEPT ![c] = [s EXCEPT !.pending = ~Enough(s, m.req)]]
        /\ done' = done \cup IF Enough(s, m.req) THEN {[req |-> m.req, value |-> m.value]} ELSE {}
        /\ msgs' = {x \in msgs \ {m} : ~Useless(x, done')}
        /\ UNCHANGED <<serverVars, applied, logVars, precedes>>

-------------------------------------------------------------------------------
(* The durability server                                                   *)

Running(r) == ~(aborted /\ r = Leader)

Reply(r, m, value) ==
    [type |-> "Reply", from |-> r, req |-> m.req, value |-> value, n |-> m.n]

ToConsensus(m) == [type |-> "ConsensusRequest", req |-> m.req, n |-> m.n]

\* HandleRequest up to where the thread of the replica may come in between.
HandleRequest(r) ==
    \E m \in msgs :
        LET q == m.req IN
        /\ m.type = "Request" /\ m.to = r
        /\ Running(r)
        /\ server[r] = <<>>
        /\ \/ /\ IsNilext(q)
              /\ app' = [app EXCEPT ![r] = MakeDurable(@, q)]
              /\ server' = [server EXCEPT ![r] = IF r = Leader THEN <<m>> ELSE <<>>]
              /\ Network({m}, {Reply(r, m, NotFound)})
           \/ /\ ~IsNilext(q) /\ MustOrder(app[r], q.key)
              /\ Network({m}, {ToConsensus(m)})
              /\ UNCHANGED <<app, server>>
           \/ /\ ~IsNilext(q) /\ ~MustOrder(app[r], q.key)
              /\ server' = [server EXCEPT ![r] = <<m>>]
              /\ Network({m}, {})
              /\ UNCHANGED app
        /\ UNCHANGED <<applied, logVars, clientVars, aborted>>

\* The rest: AddToQueue of an update, the value of a read.
FinishRequest(r) ==
    /\ Running(r)
    /\ server[r] # <<>>
    /\ LET m == server[r][1] IN
       IF IsNilext(m.req)
       THEN app' = [app EXCEPT ![r] = AddToQueue(@, m.req)] /\ Network({}, {})
       ELSE Network({}, {Reply(r, m, app[r].store[m.req.key])}) /\ UNCHANGED app
    /\ server' = [server EXCEPT ![r] = <<>>]
    /\ UNCHANGED <<applied, logVars, clientVars, aborted>>

\* The server has no addresses of clients: its own clientAddresses stays empty.
HandleConsensusReply(r) ==
    \E m \in msgs :
        /\ m.type = "ConsensusReply"
        /\ r = Leader /\ Running(r) /\ server[r] = <<>>
        /\ aborted' = TRUE
        /\ Network({m}, {})
        /\ UNCHANGED <<app, server, applied, logVars, clientVars>>

-------------------------------------------------------------------------------
(* The consensus replica                                                   *)

\* The replica of the leader is between two handlers.
LeaderIdle == Running(Leader) /\ ~applied[Leader]

\* One iteration of BgRepl; HandleRequestBg drops what the client table knows.
BgRepl ==
    /\ LeaderIdle
    /\ app[Leader].queue # <<>>
    /\ LET q == Head(app[Leader].queue)
       IN IF Log!Newer(q) THEN Log!Decide(q) ELSE UNCHANGED logVars
    /\ app' = [app EXCEPT ![Leader].queue = Tail(@)]
    /\ UNCHANGED <<server, aborted, applied, clientVars, msgs>>

\* Broken on purpose: BgRepl is not called first.
NeverDrained == TRUE

\* HandleRequest calls BgRepl first.
Drained == app[Leader].queue = <<>>

\* VRReplica::HandleRequest, the rest: of a read that the server forwards, or
\* of a write.  A reply that is sent again goes to where the request came from.
HandleConsensusRequest ==
    \E m \in msgs :
        LET q == m.req
            replied == \E k \in 1 .. executed[Leader] : decided[k] = q
            latest  == \A k \in DOMAIN decided : decided[k].client = q.client => decided[k].id <= q.id
        IN
        /\ m.type = "ConsensusRequest"
        /\ LeaderIdle
        /\ Drained
        /\ \/ Log!Decide(q) /\ Network({m}, {})
           \/ /\ ~Log!Newer(q)
              /\ Network({m}, IF ~(latest /\ replied) THEN {}
                              ELSE IF q.op = "read"
                              THEN {[type |-> "ConsensusReply", req |-> q, n |-> m.n]}
                              ELSE {Reply(Leader, m, NotFound)})
              /\ UNCHANGED logVars
        /\ UNCHANGED <<serverVars, applied, clientVars>>

\* The operation CommitUpTo of replica r executes next.
NextOp(r) == decided[executed[r] + 1]

CanExecute(r) ==
    /\ Running(r)
    /\ executed[r] < IF r = Leader THEN Len(decided) ELSE executed[Leader]

\* Broken on purpose: the update is erased before it is applied.
UpcallErasingFirst(half, a, q) == IF half = 1 THEN Erase(a, q) ELSE Apply(a, q)

\* The two halves of ReplicaUpcall.
Upcall(half, a, q) == IF half = 1 THEN Apply(a, q) ELSE Erase(a, q)

ApplyUpdate(r) ==
    /\ CanExecute(r)
    /\ NextOp(r).op # "read"
    /\ ~applied[r]
    /\ app' = [app EXCEPT ![r] = Upcall(1, @, NextOp(r))]
    /\ applied' = [applied EXCEPT ![r] = TRUE]
    /\ UNCHANGED <<server, aborted, logVars, clientVars, msgs>>

EraseUpdate(r) ==
    /\ Running(r)
    /\ applied[r]
    /\ app' = [app EXCEPT ![r] = Upcall(2, @, NextOp(r))]
    /\ applied' = [applied EXCEPT ![r] = FALSE]
    /\ Log!Execute(r, executed[r] + 1)
    /\ UNCHANGED <<server, aborted, clientVars>>
    /\ Network({}, IF r = Leader /\ NextOp(r).op = "write"
                   THEN {Reply(r, [req |-> NextOp(r), n |-> 0], NotFound)} ELSE {})

\* The result goes to the client, whose address the leader's server has saved.
ExecuteRead(r) ==
    /\ CanExecute(r)
    /\ NextOp(r).op = "read"
    /\ Log!Execute(r, executed[r] + 1)
    /\ UNCHANGED <<serverVars, applied, clientVars>>
    /\ Network({}, IF r = Leader
                   THEN {Reply(r, [req |-> NextOp(r), n |-> 0],
                               app[r].store[NextOp(r).key])}
                   ELSE {})

-------------------------------------------------------------------------------

Init ==
    /\ app = [r \in Replicas |-> NewApp]
    /\ server = [r \in Replicas |-> <<>>]
    /\ applied = [r \in Replicas |-> FALSE]
    /\ Log!Init
    /\ client = [c \in Clients |-> [id |-> 0, pending |-> FALSE, sent |-> 0,
                                    responses |-> 0, leaderAcked |-> FALSE]]
    /\ msgs = {}
    /\ aborted = FALSE
    /\ done = {}
    /\ precedes = {}

Next ==
    \/ \E c \in Clients : Invoke(c) \/ ResendRequest(c) \/ HandleReply(c)
    \/ \E r \in Up : HandleRequest(r) \/ FinishRequest(r) \/ HandleConsensusReply(r)
    \/ BgRepl \/ HandleConsensusRequest
    \/ \E r \in Up : ApplyUpdate(r) \/ EraseUpdate(r) \/ ExecuteRead(r)

Spec == Init /\ [][Next]_vars

-------------------------------------------------------------------------------
(* Properties                                                              *)

TypeOK ==
    /\ app \in [Replicas -> AppStates(Updates)]
    /\ server \in [Replicas -> Seq(Messages)]
    /\ applied \in [Replicas -> BOOLEAN]
    /\ decided \in Seq(Requests)
    /\ executed \in [Replicas -> Nat]
    /\ client \in [Clients -> [id : Nat, pending : BOOLEAN, sent : Nat,
                               responses : Nat, leaderAcked : BOOLEAN]]
    /\ msgs \subseteq Messages
    /\ aborted \in BOOLEAN
    /\ done \subseteq [req : Requests, value : Values]
    /\ precedes \subseteq Requests \X Requests

ExecutedAt(r, q) == \E k \in 1 .. executed[r] : decided[k] = q

\* The order the leader gives to what it has received.
LeaderOrder ==
    decided \o app[Leader].queue
        \o (IF server[Leader] # <<>> /\ IsNilext(server[Leader][1].req)
            THEN <<server[Leader][1].req>> ELSE <<>>)

Before(p, q) ==
    LET order == LeaderOrder
    IN  \E k \in DOMAIN order : order[k] = q /\ \E j \in 1 .. k - 1 : order[j] = p /\
            ~\E i \in 1 .. j : order[i] = q

\* The replicas that have update q in their durability log or have executed it.
HeldBy(q) ==
    {r \in Replicas : Contains(app[r].durabilityLog, q) \/ ExecutedAt(r, q)}

\* A client counts replies and not servers (client.cc:176), and a server replies to
\* each copy of an update that it gets.  So an update whose client has been told so
\* is durable at the leader, and at as many servers as it takes to send a
\* supermajority of replies: at a supermajority of them if no update is
\* retransmitted, at fewer otherwise.
DurableAsCounted ==
    \A d \in done : IsNilext(d.req) =>
        /\ Leader \in HeldBy(d.req)
        /\ FastQuorumSize <= (Resends["nilext"] + 1) * Cardinality(HeldBy(d.req))

\* Linearizability of reads: a read does not return a value older than an update
\* that was completed before it was sent, nor than what such a read returned,
\* although most reads bypass consensus and the replica executes meanwhile.
ReadsLatest ==
    \A d, e \in done :
        /\ d.req.op = "read" /\ e.req.key = d.req.key /\ <<e.req, d.req>> \in precedes
        => LET known == IF e.req.op = "read" THEN e.value ELSE e.req
           IN  known # NotFound => d.value # NotFound /\ ~Before(d.value, known)

\* Requests are ordered as in real time: what was completed before another request
\* was sent is ordered before it.  Writes, which do not pass through the leader's
\* durability server, are not: they may overtake an update it has yet to queue.
RealTimeOrder ==
    \A pair \in precedes :
        pair[1].op # "read" /\ pair[2].op # "write" => ~Before(pair[2], pair[1])

\* While the leader has an update of a key that it has not executed, a read of the
\* key is ordered and not served from the store (code-organization.md:1).
PendingUpdateSyncs ==
    \A q \in ToSet(app[Leader].durabilityLog) :
        ~ExecutedAt(Leader, q) => MustOrder(app[Leader], q.key)

\* The assert of AppUpcall: the last update of a key that is not pending is in the
\* store, which the thread of the replica fills while that of the server looks.
AppliedBeforeErased ==
    \A r \in Replicas : \A k \in Keys :
        LET q == app[r].lastUpdateToKey[k]
        IN  q # NotFound /\ ~MustOrder(app[r], k) => app[r].store[k] # NotFound

\* "wait for a supermajority (for nilext operations.)" (code-organization.md:3): an
\* update whose client has been told so is durable at a supermajority of the servers.
DurableOnSupermajority ==
    \A d \in done : IsNilext(d.req) => Cardinality(HeldBy(d.req)) >= FastQuorumSize

\* assert(0) of HandleConsensusReply, "that is fishy", is not reached.
NoUnknownClient == ~aborted

-------------------------------------------------------------------------------
(* What a new leader would make of the durability logs, at any moment       *)

DurabilityLogs == [r \in Replicas |-> app[r].durabilityLog]

\* The logs that a view change may merge.
ViewChangeQuorums == {V \in SUBSET Replicas : Cardinality(V) = QuorumSize}

\* The completed updates of which only durability logs know.
OnlyDurable == {q \in Updates : /\ \E d \in done : IsNilext(q) /\ d.req = q
                                /\ ~ExecutedAt(Leader, q)}

\* Whichever replicas take part in a view change, their durability logs hold every
\* completed update that consensus could lose.
CompletedSurvive ==
    \A V \in ViewChangeQuorums : OnlyDurable \subseteq DurabilitySet(DurabilityLogs, V)

\* And if one was completed before another was sent, enough logs vote for this
\* order: it needs the supermajority of the client, not just a majority.
CompletedKeepOrder ==
    \A V \in ViewChangeQuorums : \A p, q \in OnlyDurable :
        <<p, q>> \in precedes => Edge(DurabilityLogs, V, p, q)

\* The requests can be sorted, so that the new leader can start its view.
CanMerge == \A V \in ViewChangeQuorums : MergedLogs(DurabilityLogs, V) # {}

===============================================================================
