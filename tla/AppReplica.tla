------------------------------ MODULE AppReplica ------------------------------
(***************************************************************************)
(* The replicated storage system, class AppReplica of common/replica.h: a  *)
(* key-value store and the durability log, the updates that are durable    *)
(* but not yet executed.  The thread of the durability server and that of  *)
(* the consensus replica share it.  A value is the update that wrote it.   *)
(***************************************************************************)
EXTENDS Integers, Sequences, SequencesExt

CONSTANTS
    Keys,
    NotFound    \* no update; also the value read for a key that has none

Ops == {"nilext", "write", "read"}

IsNilext(q) == q.op = "nilext"

\* The state of an application whose updates are members of Updates.  The
\* durability log is in the order of the positions of its entries.
AppStates(Updates) ==
    [store : [Keys -> Updates \cup {NotFound}],
     lastUpdateToKey : [Keys -> Updates \cup {NotFound}],
     durabilityLog : Seq(Updates),
     queue : Seq(Updates)]

NewApp ==
    [store |-> [k \in Keys |-> NotFound], lastUpdateToKey |-> [k \in Keys |-> NotFound],
     durabilityLog |-> <<>>, queue |-> <<>>]

\* Broken on purpose: the index is not moved to the newer update.
MakeDurableFirst(app, q) ==
    [app EXCEPT !.durabilityLog = Append(RemoveFirst(@, q), q),
                !.lastUpdateToKey[q.key] = IF @ = NotFound THEN q ELSE @]

\* AppUpcall of an update: it gets the next position, even if it is there already.
MakeDurable(app, q) ==
    [app EXCEPT !.durabilityLog = Append(RemoveFirst(@, q), q),
                !.lastUpdateToKey[q.key] = q]

\* AppUpcall of a read: the last update of the key is pending (syncOrder).
MustOrder(app, key) == Contains(app.durabilityLog, app.lastUpdateToKey[key])

\* ReplicaUpcall of an update first applies it, then erases it.
Apply(app, q) == [app EXCEPT !.store[q.key] = q]

\* Broken on purpose: the newest update is taken first.
AddToQueueFirst(app, q) == [app EXCEPT !.queue = <<q>> \o @]

AddToQueue(app, q) == [app EXCEPT !.queue = Append(@, q)]

Erase(app, q) == [app EXCEPT !.durabilityLog = RemoveFirst(@, q)]

===============================================================================
