---------------------------- MODULE MCVRViewChange ----------------------------
(* Small instances of VRViewChange for TLC. *)
EXTENDS VRViewChange

CONSTANTS a, b    \* clients

OneWrite == (a :> <<"write">>)

TwoWrites == (a :> <<"write">>) @@ (b :> <<"write">>)

WriteAndUpdate == (a :> <<"write">>) @@ (b :> <<"nilext">>)

OneUpdate == (a :> <<"nilext">>)

\* Two replicas at most ask for the change to a view.
TwoChange ==
    \A v \in 1 .. MaxView :
        Cardinality({m.from : m \in {x \in msgs : x.type = "StartViewChange" /\ x.view = v}}) <= 2

\* No client resends a request: a server gets an update once, and one leader a write.
SentOnce ==
    \A r \in Replicas : \A q \in Requests :
        /\ HandleUpdate(r, q) => \A m \in acks : m.req # q \/ m.from # r
        /\ HandleRequest(r, q) => issued[q.client] < q.id

\* The leader of view 0 is cut off: it does not learn of view 1.
OldLeaderStays == rep[0].view = 0

\* One request and any view change; or two, and the leader of view 0 is cut off and
\* replica 1 has one of them at most in its log when it starts to lead view 1.
OneOrCutOff ==
    \/ \E k \in Clients : issued[k] = 0
    \/ OldLeaderStays /\ (rep[1].view = 0 => Len(rep[1].log) <= 1)

\* The write is sent when the update is, or later.  If the leader of view 0 leaves that
\* view with the update in its log, one of the three does not ask for the change.
UpdateFirst ==
    /\ issued[a] <= issued[b]
    /\ OneOrCutOff
    /\ rep[0].view # 0 /\ rep[0].queue = <<>> /\ rep[0].log # <<>> => TwoChange

\* A durability server hears of the status of its replica before anything else
\* happens; that of replica 2 may hear late, until the write is sent.
Lag ==
    (\E r \in Replicas : /\ told[r] # [view |-> rep[r].view, status |-> rep[r].status]
                         /\ r = 2 => issued[a] # 0)
    => told # told'

\* Replicas 1 and 2 change to view 1, then 0 and 2 to view 2, then 0 and 1 to view 3;
\* what is ordered in views 0 and 1 reaches no follower there.
TakingTurns ==
    /\ \A m \in OfType(msgs, "StartViewChange") : <<m.view, m.from>> \in
           {<<1, 1>>, <<1, 2>>, <<2, 0>>, <<2, 2>>, <<3, 0>>, <<3, 1>>}
    /\ \A m \in OfType(msgs, "PrepareOK") : m.view \notin {0, 1}

\* One write in view 0; replicas 1 and 2 change to view 1, 0 and 2 to view 2.
OneEach ==
    /\ \A m \in OfType(msgs, "StartViewChange") : <<m.view, m.from>> \in
           {<<1, 1>>, <<1, 2>>, <<2, 0>>, <<2, 2>>}
    /\ rep[0].view = 0 => Len(rep[0].log) <= 1
    /\ \A m \in OfType(msgs, "PrepareOK") : <<m.view, m.from>> \in {<<0, 1>>, <<1, 2>>}
    /\ rep[0].view = 2 \/ rep[2].view = 2 => rep[1].lastCommitted = 2 /\ rep[1].view = 1
                                           /\ LastEntryView(rep[2].log) = 0

===============================================================================
