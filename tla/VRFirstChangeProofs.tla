------------------------- MODULE VRFirstChangeProofs -------------------------
(***************************************************************************)
(* The first view change of three replicas loses nothing that any of them  *)
(* has executed: theorems about VRViewChange.                              *)
(*                                                                         *)
(* While view 0 lasts, all logs are parts of its leader's.  What is        *)
(* executed is chosen, that is, in the logs of its leader and one other    *)
(* replica: an acknowledgement says so, as long as it counts (AckHolds).   *)
(* Replica 1 enters view 1 on the log of replica 0 or 2, or its own, which *)
(* is the longest of two, and so has what is chosen (TakesOver).  It then  *)
(* has the place of the leader in what is chosen.  Replica 0 may go on in  *)
(* view 0 and count acknowledgements of it, but if so replica 2 has joined *)
(* the change, and so acknowledged nothing that replica 1 did not take     *)
(* over (LeftBehind).  A replica that follows into view 1 gets, with a     *)
(* STARTVIEW, a piece of that log that ends behind all of view 0 (Enters). *)
(* Any other step goes on in its view, or begins to change (Proceeds).     *)
(*                                                                         *)
(* With more replicas HandleDoViewChange may read another message than the *)
(* one that it has chosen (ReadFrom); in later views a leader may cut what *)
(* was executed, as a log dump may: the theorems leave these out.          *)
(***************************************************************************)
EXTENDS VRViewChangeProofs

-------------------------------------------------------------------------------
(* The first view change of three replicas                                 *)

\* Replica p has entered view 1.
Changed(p) == rep[p].view = 1 /\ rep[p].status = "NORMAL"

FirstViewLog(l) == \A k \in 1 .. Len(l) : l[k].view = 0

\* Two replicas have entry e as operation k, the leader of the newest view that has
\* been entered among them: it is, or may be, executed.
Chosen(k, e) ==
    LET x == IF Changed(1) THEN 1 ELSE 0
    IN  /\ HasEntry(rep[x], k, e)
        /\ \E q \in Replicas \ {x} : HasEntry(rep[q], k, e)

\* The leader of view 1 has taken over operation k from view 0.
Kept(k) == k \in 1 .. Len(rep[1].log) /\ rep[1].log[k].view = 0

\* A replica is in view 0, changes to view 1 or has entered it, its leader first.
Phases ==
    \A p \in Replicas :
        /\ \/ rep[p].view = 0 /\ rep[p].status = "NORMAL"
           \/ rep[p].view = 1 /\ rep[p].status \in {"NORMAL", "VIEW_CHANGE"}
        /\ Changed(p) => Changed(1)

\* Until it enters view 1 a replica's log ends at lastOp and is all of view 0.
OldLogs ==
    \A p \in Replicas :
        ~Changed(p) => rep[p].lastOp = Len(rep[p].log) /\ FirstViewLog(rep[p].log)

\* A leader has what is held of its view, whether it runs or not, and until it has
\* entered a newer view.
OwnersHold ==
    \A k \in Nat : \A e \in Entries :
        Held(k, e) => /\ e.view = 0 /\ ~Changed(0) => HasEntry(rep[0], k, e)
                      /\ e.view = 1 /\ Changed(1) => HasEntry(rep[1], k, e)

ByView(l) == \A i, j \in 1 .. Len(l) : i < j => l[i].view <= l[j].view

\* What replica state s has entered view 1 with, and has added, is in log l of the
\* leader.  A longer log of view 0 may lie behind lastOp.
FollowsNew(s, l) ==
    /\ s.lastOp <= Len(s.log) /\ s.lastCommitted <= s.lastOp
    /\ FirstViewLog(s.log) \/ s.lastOp = Len(s.log)
    /\ \A j \in 1 .. s.lastOp : j <= Len(l) /\ s.log[j] = l[j]

NewLogs ==
    /\ \A p \in Replicas : Changed(p) => FollowsNew(rep[p], rep[1].log)
    /\ Changed(1) => rep[1].lastOp = Len(rep[1].log) /\ ByView(rep[1].log)

\* What a replica has executed is chosen.
CommittedChosen ==
    \A p \in Replicas :
        /\ rep[p].lastCommitted <= Len(rep[p].log)
        /\ \A k \in 1 .. rep[p].lastCommitted : Chosen(k, rep[p].log[k])

\* Replica p has acknowledged operation k in view v, and its leader counts it or may
\* still do so.
AckedIn(v, k, p) ==
    \/ \E m \in msgs : /\ m \in Messages /\ m.type = "PrepareOK"
                       /\ m.view = v /\ m.opnum = k /\ m.from = p
    \/ v = 0 /\ rep[0].view = 0 /\ <<k, p>> \in rep[0].prepareOKs
    \/ v = 1 /\ Changed(1) /\ <<k, p>> \in rep[1].prepareOKs

\* What an acknowledgement is good for: before the view change the operation is in the
\* log of the leader and that of the replica, and after it in the log of the new leader.
AckHolds(v, k, p) ==
    /\ v \in {0, 1} /\ p # v
    /\ v = 0 /\ ~Changed(1) => k <= Len(rep[p].log) /\ k <= Len(rep[0].log)
    /\ v = 0 /\ Changed(1) /\ rep[0].view = 0 => \A j \in 1 .. k : Kept(j)
    /\ v = 1 => Changed(p) /\ k <= rep[p].lastOp

AcksHold == \A v, k \in Nat : \A p \in Replicas : AckedIn(v, k, p) => AckHolds(v, k, p)

\* If the leader of view 0 goes on in it, the others do not.
LeftBehind ==
    Changed(1) /\ rep[0].view = 0 => \A p \in Replicas \ {0} : rep[p].view = 1

\* What a COMMIT names is chosen.
CommitHolds(m) ==
    \A j \in 1 .. m.opnum : \E e \in Entries : Chosen(j, e) /\ (m.view = 0 => e.view = 0)

\* A STARTVIEW has a piece of the log of the new leader, up to lastOp, behind which
\* there is nothing of view 0.
StartViewHolds(m) ==
    /\ m.view = 1 /\ Changed(1)
    /\ m.lastOp <= Len(rep[1].log) /\ m.lastCommitted <= m.lastOp
    /\ PartOf(m, rep[1].log)
    /\ m.entries # <<>> => m.first + Len(m.entries) - 1 = m.lastOp
    /\ \A j \in 1 .. Len(rep[1].log) : Kept(j) => j <= m.lastOp
    /\ \A j \in 1 .. m.lastCommitted : Chosen(j, rep[1].log[j])

\* A DOVIEWCHANGE has a piece of log l of its sender, up to its end.
DumpOf(m, l) ==
    /\ m.lastOp = Len(l) /\ PartOf(m, l)
    /\ m.entries # <<>> => m.first + Len(m.entries) - 1 = m.lastOp

\* Until the new leader has entered its view, a sender of a DOVIEWCHANGE still has the
\* log that it has sent.
DoViewChangeHolds(m) ==
    /\ m.view = 1 /\ m.from # 1
    /\ ~Changed(1) => /\ rep[m.from].view = 1
                      /\ DumpOf(m, rep[m.from].log) /\ m.lastNormalView = 0
                      /\ m.lastCommitted <= rep[m.from].lastCommitted

MessageHolds(m) ==
    /\ m \in Messages /\ m.type = "Commit" => CommitHolds(m)
    /\ m \in ViewChangeMessages /\ m.type = "StartView" => StartViewHolds(m)
    /\ m \in ViewChangeMessages /\ m.type = "DoViewChange" => DoViewChangeHolds(m)

MessagesHold == \A m \in msgs : MessageHolds(m)

\* One DOVIEWCHANGE is enough.
NoVotes ==
    \A r \in Replicas : Running(r) => \A m \in ballots[r] : m.type # "DoViewChange"

FirstChange ==
    /\ Phases /\ OldLogs /\ OwnersHold /\ NewLogs
    /\ CommittedChosen /\ AcksHold /\ LeftBehind /\ MessagesHold

FirstChangeInv == ViewstampInv /\ FirstChange /\ NoVotes

\* Three replicas, of which replica 0 leads view 0 and replica 1 view 1.
LEMMA ThreeReplicas ==
    ASSUME F = 1
    PROVE  /\ Replicas = {0, 1, 2} /\ QuorumSize = 2
           /\ GetLeaderIndex(0) = 0 /\ GetLeaderIndex(1) = 1
BY ConfigAssumption DEF Replicas, QuorumSize, GetLeaderIndex

\* An entry of a log is of view 0, or of view 1 once its leader has entered it.
LEMMA EntryView ==
    ASSUME F = 1, ViewstampInv, Phases, NEW p \in Replicas, NEW k, NEW e, HasEntry(rep[p], k, e)
    PROVE  /\ k \in Nat \ {0} /\ k <= Len(rep[p].log) /\ e = rep[p].log[k]
           /\ e \in Entries /\ Held(k, e)
           /\ e.view = 0 \/ (e.view = 1 /\ Changed(1))
<1>1. Len(rep[p].log) \in Nat /\ rep[p].log \in Seq(Entries)
  BY TypedReplica, StateFields DEF ViewstampInv, ViewChangeTyped
<1>2. /\ k \in 1 .. Len(rep[p].log) /\ k \in Nat \ {0} /\ k <= Len(rep[p].log)
      /\ e = rep[p].log[k]
  BY <1>1 DEF HasEntry
<1>3. e \in Entries
  BY <1>1, <1>2, ElementOfSeq
<1>4. Held(k, e)
  BY LogIsHeld
<1>5. Entered(e.view) /\ e.view \in Nat
  BY <1>2, <1>3, <1>4 DEF ViewstampInv, HeldEntered, Entries, Views
<1>6. PICK x : x = GetLeaderIndex(e.view)
  OBVIOUS
<1>7. x \in Replicas
  BY <1>5, <1>6, LeaderType DEF Views
<1>8. rep[x].view > e.view \/ (rep[x].view = e.view /\ rep[x].status = "NORMAL")
  BY <1>5, <1>6 DEF Entered
<1>9. e.view = 0 \/ (e.view = 1 /\ rep[x].view = 1 /\ rep[x].status = "NORMAL")
  BY <1>5, <1>7, <1>8 DEF Phases
<1>10. e.view = 1 => x = 1
  BY <1>6, ThreeReplicas
<1>. QED BY <1>2, <1>3, <1>4, <1>9, <1>10 DEF Changed

\* Entries of two logs agree in an operation if their views do.
LEMMA EntriesAgree ==
    ASSUME F = 1, ViewstampInv, Phases, NEW p \in Replicas, NEW q \in Replicas, NEW k,
           NEW d, NEW e, HasEntry(rep[p], k, d), HasEntry(rep[q], k, e), d.view = e.view
    PROVE  d = e
<1>1. k \in Nat /\ d \in Entries /\ e \in Entries /\ Held(k, d) /\ Held(k, e)
  BY EntryView
<1>. QED BY <1>1 DEF ViewstampInv, HeldUnique

\* Before the view change every log is a part of that of the leader.
LEMMA OldLogsAgree ==
    ASSUME F = 1, ViewstampInv, Phases, OwnersHold, ~Changed(1),
           NEW p \in Replicas, NEW k, NEW e, HasEntry(rep[p], k, e)
    PROVE  HasEntry(rep[0], k, e) /\ e.view = 0
<1>1. k \in Nat /\ e \in Entries /\ Held(k, e) /\ e.view = 0
  BY EntryView
<1>2. ~Changed(0)
  BY ThreeReplicas DEF Phases
<1>. QED BY <1>1, <1>2 DEF OwnersHold

\* What is chosen is in the log of the new leader, or in that of the old one.
LEMMA ChosenFacts ==
    ASSUME F = 1, NEW k, NEW e, Chosen(k, e)
    PROVE  /\ Changed(1) => HasEntry(rep[1], k, e)
           /\ ~Changed(1) => HasEntry(rep[0], k, e)
BY DEF Chosen

\* Replica r becomes t and sends messages.
Moved(r, t, sent) ==
    t \in ReplicaStates /\ rep' = [rep EXCEPT ![r] = t] /\ msgs' \subseteq msgs \cup sent

\* The log of t is that of s, or that of s with more entries of the view, which it ends
\* at lastOp.
GrowsTo(s, t) ==
    \/ t.log = s.log /\ t.lastOp = s.lastOp
    \/ /\ s.status = "NORMAL" /\ t.view = s.view /\ t.status = s.status
       /\ s.lastOp = Len(s.log) /\ t.lastOp = Len(t.log) /\ Len(s.log) <= Len(t.log)
       /\ \A j \in 1 .. Len(s.log) : t.log[j] = s.log[j]
       /\ \A j \in Len(s.log) + 1 .. Len(t.log) : t.log[j].view = s.view

\* t has executed what s has, and operations that are chosen.
Executes(s, t) ==
    /\ s.lastCommitted <= t.lastCommitted
    /\ t.lastCommitted = s.lastCommitted
           \/ /\ t.log = s.log
              /\ t.lastCommitted <= Len(s.log) /\ t.lastCommitted <= s.lastOp
              /\ \A k \in 1 .. t.lastCommitted : Chosen(k, s.log[k])

\* The acknowledgements that t has recorded were known to s, or messages brought them.
Records(s, t) ==
    \A k \in Nat : \A p \in Replicas :
        <<k, p>> \in t.prepareOKs =>
            \/ <<k, p>> \in s.prepareOKs
            \/ \E m \in msgs : /\ m \in Messages /\ m.type = "PrepareOK"
                               /\ m.view = t.view /\ m.opnum = k /\ m.from = p

\* Message m, of replica r that has become t, acknowledges what t has.
Acknowledges(r, t, m) ==
    /\ m.from = r /\ m.view = t.view /\ m.opnum \in Nat /\ m.opnum <= t.lastOp
    /\ t.status = "NORMAL" /\ ~AmLeader(t, r)

\* Message m of replica r has the end of the log of t for the leader of the view that r
\* changes to.
Dumps(r, t, m) ==
    /\ m.from = r /\ m.view = t.view
    /\ t.status = "VIEW_CHANGE" /\ ~AmLeader(t, r)
    /\ m.lastNormalView = LastEntryView(t.log)
    /\ m.lastOp = t.lastOp /\ m.lastCommitted = t.lastCommitted
    /\ PartOf(m, t.log)
    /\ m.entries # <<>> => m.first + Len(m.entries) - 1 = Len(t.log)

\* What replica r, that becomes t, sends without entering a view.
Tells(r, t, m) ==
    /\ m \in Messages /\ m.type = "PrepareOK" => Acknowledges(r, t, m)
    /\ m \in Messages /\ m.type = "Commit" =>
           AmLeader(t, r) /\ m.view = t.view /\ m.opnum = t.lastCommitted
    /\ m \in ViewChangeMessages => \/ m.type = "StartViewChange"
                                   \/ m.type = "DoViewChange" /\ Dumps(r, t, m)

\* A step that does not enter a view: replica r stays in its view, or changes to the
\* next and keeps its log.
Proceeds(r, t, sent) ==
    /\ Moved(r, t, sent)
    /\ \/ t.view = rep[r].view /\ t.status = rep[r].status
       \/ t.view = 1 /\ t.status = "VIEW_CHANGE" /\ ~Changed(r)
    /\ GrowsTo(rep[r], t) /\ Executes(rep[r], t) /\ Records(rep[r], t)
    /\ \A m \in sent : Tells(r, t, m)

\* The leader of a view executes an operation once a replica has acknowledged it.
LEMMA AckedChosen ==
    ASSUME F = 1, ViewstampInv, FirstChange, NEW r \in Replicas,
           rep[r].status = "NORMAL", AmLeader(rep[r], r),
           NEW n \in Nat, NEW p \in Replicas, AckedIn(rep[r].view, n, p),
           NEW k \in 1 .. n, k <= Len(rep[r].log)
    PROVE  Chosen(k, rep[r].log[k])
<1>1. /\ rep[r] \in ReplicaStates /\ rep[r].view \in Nat /\ Len(rep[r].log) \in Nat
      /\ Len(rep[p].log) \in Nat /\ rep[p].lastOp \in Nat /\ k \in Nat \ {0} /\ k <= n
  BY TypedReplica, StateFields DEF ViewstampInv, ViewChangeTyped
<1>2. AckHolds(rep[r].view, n, p) /\ Phases /\ OwnersHold /\ OldLogs /\ NewLogs
  BY <1>1 DEF FirstChange, AcksHold
<1>3. PICK e : e = rep[r].log[k]
  OBVIOUS
<1>4. HasEntry(rep[r], k, e)
  BY <1>1, <1>3 DEF HasEntry
<1>5. rep[r].view = 0 \/ (rep[r].view = 1 /\ Changed(r))
  BY <1>2 DEF Phases, Changed
<1>6. CASE rep[r].view = 0
  <2>1. r = 0 /\ p # 0 /\ ~Changed(0)
    BY <1>2, <1>6, ThreeReplicas DEF AmLeader, AckHolds, Changed
  <2>2. CASE ~Changed(1)
    <3>1. PICK d : d = rep[p].log[k]
      OBVIOUS
    <3>2. k \in 1 .. Len(rep[p].log)
      BY <1>1, <1>2, <1>6, <2>2 DEF AckHolds
    <3>3. HasEntry(rep[p], k, d)
      BY <3>1, <3>2 DEF HasEntry
    <3>4. HasEntry(rep[0], k, d)
      BY <1>2, <2>2, <3>3, OldLogsAgree
    <3>5. d = e
      BY <1>4, <2>1, <3>4 DEF HasEntry
    <3>. QED BY <1>3, <1>4, <2>1, <2>2, <3>3, <3>5 DEF Chosen
  <2>3. CASE Changed(1)
    <3>1. Kept(k)
      BY <1>1, <1>2, <1>6, <2>1, <2>3 DEF AckHolds
    <3>2. PICK d : d = rep[1].log[k]
      OBVIOUS
    <3>3. HasEntry(rep[1], k, d) /\ d.view = 0 /\ 1 \in Replicas
      BY <3>1, <3>2, ThreeReplicas DEF Kept, HasEntry
    <3>4. e.view = 0
      BY <1>2, <1>3, <1>4, <2>1 DEF OldLogs, FirstViewLog, HasEntry
    <3>5. d = e
      BY <1>2, <1>4, <3>3, <3>4, EntriesAgree
    <3>. QED BY <1>3, <1>4, <2>1, <2>3, <3>3, <3>5 DEF Chosen
  <2>. QED BY <2>2, <2>3
<1>7. CASE rep[r].view = 1 /\ Changed(r)
  <2>1. r = 1 /\ p # 1 /\ Changed(1) /\ Changed(p) /\ n <= rep[p].lastOp
    BY <1>2, <1>7, ThreeReplicas DEF AmLeader, AckHolds
  <2>2. FollowsNew(rep[p], rep[1].log)
    BY <1>2, <2>1 DEF NewLogs
  <2>3. k \in 1 .. rep[p].lastOp /\ k \in 1 .. Len(rep[p].log)
    BY <1>1, <2>1, <2>2 DEF FollowsNew
  <2>4. rep[p].log[k] = e
    BY <1>3, <2>1, <2>2, <2>3 DEF FollowsNew
  <2>. QED BY <1>3, <1>4, <2>1, <2>3, <2>4 DEF Chosen, HasEntry
<1>. QED BY <1>5, <1>6, <1>7

\* A follower executes what a COMMIT of its leader names.
LEMMA NamedChosen ==
    ASSUME F = 1, ViewstampInv, FirstChange, NEW r \in Replicas, rep[r].status = "NORMAL",
           NEW m \in msgs, m \in Messages, m.type = "Commit", m.view = rep[r].view,
           m.opnum <= rep[r].lastOp, NEW k \in 1 .. m.opnum
    PROVE  k <= Len(rep[r].log) /\ Chosen(k, rep[r].log[k])
<1>1. /\ rep[r] \in ReplicaStates /\ rep[r].view \in Nat /\ Len(rep[r].log) \in Nat
      /\ rep[r].lastOp \in Nat /\ m.opnum \in Nat /\ k \in Nat \ {0} /\ k <= rep[r].lastOp
  <2>1. m.opnum \in Nat
    BY DEF Messages
  <2>. QED BY <2>1, TypedReplica, StateFields DEF ViewstampInv, ViewChangeTyped
<1>2. Phases /\ OwnersHold /\ OldLogs /\ NewLogs /\ CommitHolds(m)
  BY DEF FirstChange, MessagesHold, MessageHolds
<1>3. PICK e \in Entries : Chosen(k, e) /\ (m.view = 0 => e.view = 0)
  BY <1>2 DEF CommitHolds
<1>4. rep[r].view = 0 \/ (rep[r].view = 1 /\ Changed(r))
  BY <1>2 DEF Phases, Changed
<1>5. 0 \in Replicas /\ 1 \in Replicas
  BY ThreeReplicas
<1>6. CASE rep[r].view = 0
  <2>1. ~Changed(r) /\ e.view = 0
    BY <1>3, <1>6 DEF Changed
  <2>2. PICK d : d = rep[r].log[k]
    OBVIOUS
  <2>3. HasEntry(rep[r], k, d) /\ d.view = 0 /\ k <= Len(rep[r].log)
    BY <1>1, <1>2, <2>1, <2>2 DEF OldLogs, FirstViewLog, HasEntry
  <2>4. HasEntry(rep[0], k, e) \/ HasEntry(rep[1], k, e)
    BY <1>3, ChosenFacts
  <2>5. d = e
    BY <1>2, <1>5, <2>1, <2>3, <2>4, EntriesAgree
  <2>. QED BY <1>3, <2>2, <2>3, <2>5
<1>7. CASE rep[r].view = 1 /\ Changed(r)
  <2>1. Changed(1) /\ FollowsNew(rep[r], rep[1].log)
    BY <1>2, <1>7 DEF Phases, NewLogs
  <2>2. HasEntry(rep[1], k, e)
    BY <1>3, <2>1, ChosenFacts
  <2>3. k \in 1 .. rep[r].lastOp /\ k <= Len(rep[r].log)
    BY <1>1, <2>1 DEF FollowsNew
  <2>4. rep[r].log[k] = rep[1].log[k]
    BY <2>1, <2>3 DEF FollowsNew
  <2>. QED BY <1>3, <2>2, <2>3, <2>4 DEF HasEntry
<1>. QED BY <1>4, <1>6, <1>7

\* The log of a replica whose log has not changed.
LEMMA GrowsSame ==
    ASSUME NEW s, NEW t, t.log = s.log, t.lastOp = s.lastOp
    PROVE  GrowsTo(s, t)
BY DEF GrowsTo

\* A handler of the normal case.
LEMMA HandlesProceeds ==
    ASSUME F = 1, TransferBound = 0, ViewstampInv, FirstChange, NEW r \in Replicas,
           NEW t, NEW sent, Handles(r, t, sent)
    PROVE  Proceeds(r, t, sent)
<1>1. PICK s : s = rep[r]
  OBVIOUS
<1>2. /\ s \in ReplicaStates /\ s.view \in Nat /\ s.log \in Seq(Entries) /\ Len(s.log) \in Nat
      /\ s.lastOp \in Nat /\ s.lastCommitted \in Nat
      /\ s.prepareOKs \in SUBSET (Nat \X Replicas)
  BY <1>1, TypedReplica, StateFields DEF ViewstampInv, ViewChangeTyped
<1>3. Moved(r, t, sent)
  BY DEF Handles, Moved
<1>4. /\ t \in ReplicaStates /\ \A m \in sent : Honest(r, t, m)
      /\ \/ Stays(r, t) \/ Orders(r, t) \/ Counts(r, t) \/ Follows(r, t) \/ Appends(r, t)
         \/ Transfers(r, t)
  BY DEF Handles
<1>5. \A m \in msgs : m.type # "StateTransfer"
  BY DEF ViewstampInv, TransfersBounded
<1>6. ~Transfers(r, t)
  BY <1>5 DEF Transfers
<1>7. t.view = s.view /\ t.status = s.status
  BY <1>1, <1>4, <1>6 DEF Stays, SameProgress, Orders, Counts, Follows, Appends
<1>8. /\ Phases /\ OldLogs /\ NewLogs /\ CommittedChosen
      /\ s.lastCommitted <= Len(s.log)
  BY <1>1 DEF FirstChange, CommittedChosen
<1>9. GrowsTo(s, t)
  <2>1. CASE Orders(r, t)
    <3>1. PICK l : l = s.log
      OBVIOUS
    <3>2. PICK e : t.log = Append(l, e) /\ e.view = s.view
      BY <1>1, <2>1, <3>1 DEF Orders
    <3>3. l \in Seq(Entries) /\ Len(l) \in Nat
      BY <1>2, <3>1
    <3>4. /\ Len(t.log) = Len(l) + 1 /\ t.log[Len(l) + 1] = e
          /\ \A j \in 1 .. Len(l) : t.log[j] = l[j]
      BY <3>2, <3>3
    <3>5. /\ s.status = "NORMAL" /\ s.lastOp = Len(l) /\ t.lastOp = Len(t.log)
          /\ Len(l) <= Len(t.log)
      BY <1>1, <2>1, <3>1, <3>3, <3>4 DEF Orders
    <3>6. \A j \in Len(l) + 1 .. Len(t.log) : t.log[j].view = s.view
      BY <3>2, <3>3, <3>4
    <3>. QED BY <1>7, <3>1, <3>4, <3>5, <3>6 DEF GrowsTo
  <2>2. CASE Appends(r, t)
    <3>1. PICK b \in Batches :
               /\ b.view = s.view /\ s.lastOp < b.opnum
               /\ t.lastOp = b.opnum /\ Len(t.log) = b.opnum
               /\ \A k \in 1 .. Len(s.log) : t.log[k] = s.log[k]
               /\ \A k \in Len(s.log) + 1 .. Len(t.log) :
                      t.log[k] = [view |-> b.view, req |-> b.requests[k - b.batchstart + 1]]
      BY <1>1, <2>2 DEF Appends
    <3>2. s.status = "NORMAL" /\ s.lastOp = Len(s.log) /\ b.opnum \in Nat
      BY <1>1, <2>2 DEF Appends, Batches
    <3>3. Len(s.log) <= Len(t.log) /\ t.lastOp = Len(t.log)
      BY <1>2, <3>1, <3>2
    <3>4. ASSUME NEW j \in Len(s.log) + 1 .. Len(t.log)
          PROVE  t.log[j].view = s.view
      <4>1. PICK q : q = b.requests[j - b.batchstart + 1]
        OBVIOUS
      <4>2. t.log[j] = [view |-> b.view, req |-> q]
        BY <3>1, <4>1, Zenon
      <4>. QED BY <3>1, <4>2
    <3>. QED BY <1>7, <3>1, <3>2, <3>3, <3>4 DEF GrowsTo
  <2>3. CASE t.log = s.log /\ t.lastOp = s.lastOp
    BY <2>3, GrowsSame
  <2>. QED BY <1>1, <1>4, <1>6, <2>1, <2>2, <2>3 DEF Stays, SameProgress, Counts, Follows
<1>10. \A m \in sent : Tells(r, t, m)
  <2>. SUFFICES ASSUME NEW m \in sent
                PROVE  Tells(r, t, m)
    OBVIOUS
  <2>1. Honest(r, t, m) /\ m \in Messages
    BY <1>4 DEF Honest
  <2>2. ASSUME m.type = "PrepareOK"
        PROVE  Acknowledges(r, t, m)
    <3>1. /\ m.from = r /\ m.view = t.view /\ m.opnum <= t.lastOp
          /\ ~AmLeader(s, r) /\ t.status = "NORMAL"
      BY <1>1, <1>5, <2>1, <2>2 DEF Honest
    <3>2. m.opnum \in Nat
      BY <2>1, <2>2 DEF Messages
    <3>. QED BY <1>7, <3>1, <3>2 DEF Acknowledges, AmLeader
  <2>3. m.type = "Commit" => AmLeader(t, r) /\ m.view = t.view /\ m.opnum = t.lastCommitted
    BY <2>1 DEF Honest
  <2>4. m \notin ViewChangeMessages
    BY <2>1 DEF Messages, ViewChangeMessages
  <2>. QED BY <2>2, <2>3, <2>4 DEF Tells
<1>11. CASE t.lastCommitted = s.lastCommitted /\ t.prepareOKs = s.prepareOKs
  <2>1. Executes(s, t) /\ Records(s, t)
    BY <1>2, <1>11 DEF Executes, Records
  <2>. QED BY <1>1, <1>3, <1>7, <1>9, <1>10, <2>1 DEF Proceeds
<1>12. CASE Counts(r, t)
  <2>1. PICK m \in msgs :
           /\ m \in Messages /\ m.type = "PrepareOK" /\ m.view = s.view
           /\ t.prepareOKs = s.prepareOKs \cup {<<m.opnum, m.from>>}
           /\ \/ t.lastCommitted = s.lastCommitted
              \/ /\ s.lastCommitted < m.opnum
                 /\ Cardinality({p \in Replicas : <<m.opnum, p>> \in t.prepareOKs})
                        >= QuorumSize - 1
                 /\ t.lastCommitted = Min({m.opnum, Len(s.log)})
    BY <1>1, <1>12 DEF Counts
  <2>2. /\ s.status = "NORMAL" /\ AmLeader(s, r) /\ t.log = s.log /\ t.lastOp = s.lastOp
        /\ m.opnum \in Nat /\ m.from \in Replicas
    BY <1>1, <1>12, <2>1 DEF Counts, Messages
  <2>3. Records(s, t)
    BY <1>7, <2>1, <2>2 DEF Records
  <2>4. Executes(s, t)
    <3>1. CASE t.lastCommitted = s.lastCommitted
      BY <1>2, <3>1 DEF Executes
    <3>2. CASE t.lastCommitted # s.lastCommitted
      <4>1. PICK n : n = m.opnum
        OBVIOUS
      <4>2. /\ n \in Nat /\ s.lastCommitted < n
            /\ Cardinality({p \in Replicas : <<n, p>> \in t.prepareOKs}) >= QuorumSize - 1
            /\ t.lastCommitted = IF n <= Len(s.log) THEN n ELSE Len(s.log)
        BY <1>2, <2>1, <2>2, <3>2, <4>1, MinOfTwo
      <4>3. PICK p \in Replicas : <<n, p>> \in t.prepareOKs
        BY <4>2, CountedNonempty
      <4>4. AckedIn(s.view, n, p)
        <5>1. CASE <<n, p>> \in s.prepareOKs
          <6>1. s.view = 0 \/ (s.view = 1 /\ Changed(r))
            BY <1>1, <1>8, <2>2 DEF Phases, Changed
          <6>2. s.view = 0 => r = 0
            BY <2>2, ThreeReplicas DEF AmLeader
          <6>3. s.view = 1 => r = 1
            BY <2>2, ThreeReplicas DEF AmLeader
          <6>. QED BY <1>1, <5>1, <6>1, <6>2, <6>3 DEF AckedIn
        <5>2. CASE <<n, p>> = <<m.opnum, m.from>>
          BY <2>1, <5>2 DEF AckedIn
        <5>. QED BY <2>1, <4>3, <5>1, <5>2
      <4>5. s.lastOp = Len(s.log)
        <5>1. s.view = 0 \/ (s.view = 1 /\ Changed(r))
          BY <1>1, <1>8, <2>2 DEF Phases, Changed
        <5>2. CASE s.view = 0
          BY <1>1, <1>8, <5>2 DEF OldLogs, Changed
        <5>3. CASE s.view = 1 /\ Changed(r)
          <6>1. r = 1
            BY <2>2, <5>3, ThreeReplicas DEF AmLeader
          <6>. QED BY <1>1, <1>8, <5>3, <6>1 DEF NewLogs
        <5>. QED BY <5>1, <5>2, <5>3
      <4>6. ASSUME NEW k \in 1 .. t.lastCommitted
            PROVE  Chosen(k, s.log[k])
        <5>1. k \in 1 .. n /\ k <= Len(s.log)
          BY <1>2, <4>2
        <5>. QED BY <1>1, <2>2, <4>2, <4>4, <5>1, AckedChosen
      <4>7. s.lastCommitted <= t.lastCommitted /\ t.lastCommitted <= Len(s.log)
        BY <1>2, <1>8, <4>2
      <4>. QED BY <2>2, <4>5, <4>6, <4>7 DEF Executes
    <3>. QED BY <3>1, <3>2
  <2>. QED BY <1>1, <1>3, <1>7, <1>9, <1>10, <2>3, <2>4 DEF Proceeds
<1>13. CASE Follows(r, t)
  <2>1. PICK m \in msgs :
           /\ m \in Messages /\ m.type = "Commit" /\ m.view = s.view
           /\ s.lastCommitted < m.opnum /\ m.opnum <= s.lastOp
           /\ t.lastCommitted = Min({m.opnum, Len(s.log)})
    BY <1>1, <1>13 DEF Follows
  <2>2. /\ s.status = "NORMAL" /\ t.log = s.log /\ t.prepareOKs = s.prepareOKs
        /\ m.opnum \in Nat
    BY <1>1, <1>13, <2>1 DEF Follows, Messages
  <2>3. PICK n : n = m.opnum
    OBVIOUS
  <2>4. /\ n \in Nat /\ s.lastCommitted < n /\ n <= s.lastOp
        /\ t.lastCommitted = IF n <= Len(s.log) THEN n ELSE Len(s.log)
    BY <1>2, <2>1, <2>2, <2>3, MinOfTwo
  <2>5. ASSUME NEW k \in 1 .. t.lastCommitted
        PROVE  Chosen(k, s.log[k])
    <3>1. k \in 1 .. m.opnum
      BY <1>2, <2>3, <2>4
    <3>. QED BY <1>1, <2>1, <2>2, <3>1, NamedChosen
  <2>6. /\ s.lastCommitted <= t.lastCommitted /\ t.lastCommitted <= Len(s.log)
        /\ t.lastCommitted <= s.lastOp
    BY <1>2, <1>8, <2>4
  <2>7. Executes(s, t) /\ Records(s, t)
    BY <2>2, <2>5, <2>6 DEF Executes, Records
  <2>. QED BY <1>1, <1>3, <1>7, <1>9, <1>10, <2>7 DEF Proceeds
<1>. QED BY <1>1, <1>4, <1>6, <1>11, <1>12, <1>13 DEF Stays, SameProgress, Orders, Appends

\* Replica r keeps its log and what it has recorded; it may change to a newer view.
Joins(r, t, sent) ==
    /\ Moved(r, t, sent)
    /\ t.log = rep[r].log /\ t.lastOp = rep[r].lastOp
    /\ t.lastCommitted = rep[r].lastCommitted /\ t.prepareOKs = rep[r].prepareOKs
    /\ \/ t.view = rep[r].view /\ t.status = rep[r].status
       \/ t.view > rep[r].view /\ t.status = "VIEW_CHANGE"
    /\ \A m \in sent : Tells(r, t, m)

DoesProceed(r) == \E t, sent : Proceeds(r, t, sent)

\* The newer view is view 1.
LEMMA JoinsProceeds ==
    ASSUME ViewstampInv, ViewsBounded', MaxView <= 1, NEW r \in Replicas, NEW t, NEW sent,
           Joins(r, t, sent)
    PROVE  Proceeds(r, t, sent)
<1>1. PICK s : s = rep[r]
  OBVIOUS
<1>2. Typed /\ s \in ReplicaStates /\ t \in ReplicaStates /\ Moved(r, t, sent) /\ rep'[r] = t
  BY <1>1, TypedReplica DEF ViewstampInv, ViewChangeTyped, Joins, Moved, Typed
<1>3. /\ s.view \in Nat /\ t.view \in Nat /\ s.lastCommitted \in Nat /\ Len(s.log) \in Nat
      /\ MaxView \in Nat
  BY <1>2, StateFields, ViewChangeAssumption
<1>4. t.view <= 1
  BY <1>2, <1>3 DEF ViewsBounded
<1>5. \/ t.view = s.view /\ t.status = s.status
      \/ t.view = 1 /\ t.status = "VIEW_CHANGE" /\ ~Changed(r)
  BY <1>1, <1>3, <1>4 DEF Joins, Changed
<1>6. GrowsTo(s, t)
  BY <1>1, GrowsSame DEF Joins
<1>7. Executes(s, t) /\ Records(s, t)
  BY <1>1, <1>3 DEF Joins, Executes, Records
<1>. QED BY <1>1, <1>2, <1>5, <1>6, <1>7 DEF Joins, Proceeds

\* A STARTVIEWCHANGE may be sent by any replica.
LEMMA TellsStart ==
    ASSUME NEW r, NEW t, NEW m, m.type = "StartViewChange"
    PROVE  Tells(r, t, m)
BY DEF Tells

\* The replica fails.
LEMMA JoinsAborted ==
    ASSUME NEW r \in Replicas, NEW s, rep[r] \in ReplicaStates, NEW t, Like(s, t),
           s.log = rep[r].log, s.lastOp = rep[r].lastOp,
           s.lastCommitted = rep[r].lastCommitted, s.prepareOKs = rep[r].prepareOKs,
           \/ s.view = rep[r].view /\ s.status = rep[r].status
           \/ s.view > rep[r].view /\ s.status = "VIEW_CHANGE",
           NEW sent, \A m \in sent : m.type = "StartViewChange",
           NEW gone, Become(r, t), Network(gone, sent)
    PROVE  Joins(r, t, sent)
<1>1. t \in ReplicaStates /\ SameProgress(s, t)
  BY DEF Like
<1>2. Moved(r, t, sent)
  BY <1>1 DEF Moved, Become, Network
<1>3. \A m \in sent : Tells(r, t, m)
  BY TellsStart
<1>. QED BY <1>1, <1>2, <1>3 DEF Joins, SameProgress

\* The dump of a log ends where the log does.
LEMMA DumpEnd ==
    ASSUME NEW l \in Seq(Entries), NEW k \in Nat, NEW f, f = DumpFrom(k),
           NEW es, es = SubSeq(l, f, Len(l)), es # <<>>
    PROVE  f + Len(es) - 1 = Len(l)
<1>1. f \in Nat \ {0}
  BY MaxOfTwo DEF DumpFrom
<1>2. PICK n : n = Len(l)
  OBVIOUS
<1>3. n \in Nat
  BY <1>2
<1>4. es \in Seq(Entries) /\ Len(es) = IF f <= n THEN n - f + 1 ELSE 0
  BY <1>1, <1>2, SuffixFacts
<1>5. PICK c : c = Len(es)
  OBVIOUS
<1>6. c \in Nat /\ c # 0 /\ (f <= n => c = n - f + 1) /\ (~ (f <= n) => c = 0)
  BY <1>4, <1>5
<1>7. f + c - 1 = n
  <2>1. f \in Nat /\ n \in Nat /\ c \in Nat /\ f <= n /\ c = n - f + 1
    BY <1>1, <1>3, <1>6
  <2>2. \A x, y, z \in Nat : z = y - x + 1 => x + z - 1 = y
    OBVIOUS
  <2>. QED BY <2>1, <2>2
<1>. QED BY <1>2, <1>5, <1>7

\* A replica that joins a view change stays in its view and status, or is in a newer
\* view, and sends STARTVIEWCHANGEs.
LEMMA JoinedKinds ==
    ASSUME NEW s \in ReplicaStates, NEW m, m.view \in Views, Concerns(m, s), NEW r \in Replicas
    PROVE  LET t == Joined(s, m)
           IN  /\ t \in ReplicaStates /\ t.view = m.view /\ t.status = "VIEW_CHANGE"
               /\ t.log = s.log /\ t.lastOp = s.lastOp /\ t.lastCommitted = s.lastCommitted
               /\ t.prepareOKs = s.prepareOKs /\ t.aborted = s.aborted
               /\ \/ t.view = s.view /\ t.status = s.status
                  \/ t.view > s.view
               /\ \A x \in JoiningMessages(s, r, m) : x.type = "StartViewChange"
<1>1. PICK t : t = Joined(s, m)
  OBVIOUS
<1>2. /\ t \in ReplicaStates /\ t.view = m.view /\ t.status = "VIEW_CHANGE"
      /\ t.log = s.log /\ t.lastOp = s.lastOp /\ t.lastCommitted = s.lastCommitted
      /\ t.prepareOKs = s.prepareOKs /\ t.aborted = s.aborted
      /\ \A x \in JoiningMessages(s, r, m) : x.type = "StartViewChange"
  BY <1>1, JoinedFacts
<1>3. t.view > s.view \/ (t.view = s.view /\ t.status = s.status)
  BY <1>2 DEF Concerns
<1>. QED BY <1>1, <1>2, <1>3

\* The viewChangeTimeout.
LEMMA TimeoutJoins ==
    ASSUME Typed, NEW r \in Replicas, ViewChangeTimeout(r)
    PROVE  \E t, sent : Joins(r, t, sent)
<1>1. rep[r] \in ReplicaStates /\ rep[r].view \in Nat
  BY TypedReplica, StateFields
<1>2. PICK v : v = rep[r].view + 1
  OBVIOUS
<1>3. v \in Views /\ v > rep[r].view
  BY <1>1, <1>2 DEF Views
<1>4. PICK t : t = StartViewChange(rep[r], v)
  OBVIOUS
<1>5. /\ t \in ReplicaStates /\ t.view = v /\ t.status = "VIEW_CHANGE"
      /\ t.log = rep[r].log /\ t.lastOp = rep[r].lastOp
      /\ t.lastCommitted = rep[r].lastCommitted /\ t.prepareOKs = rep[r].prepareOKs
  BY <1>1, <1>3, <1>4, StartViewChangeFacts
<1>6. PICK sent : sent = StartViewChangeMessages(t, r)
  OBVIOUS
<1>7. Become(r, t) /\ Network({}, sent)
  BY <1>2, <1>4, <1>6 DEF ViewChangeTimeout
<1>8. \A m \in sent : m.type = "StartViewChange"
  BY <1>6 DEF StartViewChangeMessages
<1>9. Moved(r, t, sent)
  BY <1>5, <1>7 DEF Moved, Become, Network
<1>10. \A m \in sent : Tells(r, t, m)
  BY <1>8, TellsStart
<1>11. Joins(r, t, sent)
  BY <1>3, <1>5, <1>9, <1>10 DEF Joins
<1>. QED BY <1>11

\* A STARTVIEWCHANGE: the DOVIEWCHANGE has the end of the log.
LEMMA StartViewChangeJoins ==
    ASSUME Typed, NEW r \in Replicas, ReceiveStartViewChange(r)
    PROVE  \E t, sent : Joins(r, t, sent)
<1>1. rep[r] \in ReplicaStates
  BY TypedReplica
<1>2. PICK m \in Received(r, "StartViewChange") : HandleStartViewChange(r, m)
  BY DEF ReceiveStartViewChange
<1>3. m \in ViewChangeMessages /\ m \in msgs /\ m.view \in Views
  BY <1>2, ChangeMessages
<1>4. PICK s, votes, svcs, joining :
          /\ s = Joined(rep[r], m) /\ votes = Ballots(r, m)
          /\ svcs = OfType(votes, "StartViewChange")
          /\ joining = JoiningMessages(rep[r], r, m)
  OBVIOUS
<1>5. PICK sent : sent = joining \cup IF SendsDoViewChange(s, r, svcs)
                                      THEN {DoViewChange(s, r, svcs)} ELSE {}
  OBVIOUS
<1>6. Concerns(m, rep[r]) /\ Become(r, s) /\ Network({m}, sent)
  BY <1>2, <1>4, <1>5 DEF HandleStartViewChange
<1>7. /\ s \in ReplicaStates /\ s.view = m.view /\ s.status = "VIEW_CHANGE"
      /\ s.log = rep[r].log /\ s.lastOp = rep[r].lastOp
      /\ s.lastCommitted = rep[r].lastCommitted /\ s.prepareOKs = rep[r].prepareOKs
      /\ (s.view = rep[r].view /\ s.status = rep[r].status) \/ s.view > rep[r].view
      /\ \A x \in joining : x.type = "StartViewChange"
  BY <1>1, <1>3, <1>4, <1>6, JoinedKinds
<1>8. votes \subseteq ViewChangeMessages
  BY <1>3, <1>4, BallotsFacts
<1>9. ASSUME SendsDoViewChange(s, r, svcs)
      PROVE  Tells(r, s, DoViewChange(s, r, svcs))
  <2>1. svcs # {} /\ svcs \subseteq ViewChangeMessages /\ ~AmLeader(s, r)
    BY <1>4, <1>8, <1>9, CountedNonempty DEF OfType, SendsDoViewChange
  <2>2. \A x \in svcs : x.lastCommitted \in Nat
    BY <2>1 DEF ViewChangeMessages
  <2>3. Announces(r, s, DoViewChange(s, r, svcs))
    BY <1>7, <2>1, <2>2, DoViewChangeAnnounced
  <2>4. PICK k, f, es : /\ k = Min({LeastCommitted(svcs), s.lastCommitted})
                        /\ f = DumpFrom(k) /\ es = SubSeq(s.log, f, Len(s.log))
    OBVIOUS
  <2>5. k \in Nat /\ s.log \in Seq(Entries)
    <3>1. LeastCommitted(svcs) \in Nat
      BY <2>1, <2>2, LeastCommittedType
    <3>. QED BY <1>7, <2>4, <3>1, MinOfTwo, StateFields
  <2>6. ASSUME es # <<>>
        PROVE  f + Len(es) - 1 = Len(s.log)
    <3>1. PICK l : l = s.log
      OBVIOUS
    <3>2. l \in Seq(Entries) /\ es = SubSeq(l, f, Len(l)) /\ f = DumpFrom(k)
      BY <2>4, <2>5, <3>1
    <3>3. f + Len(es) - 1 = Len(l)
      BY <2>5, <2>6, <3>2, DumpEnd
    <3>. QED BY <3>1, <3>3
  <2>7. PICK d : d = DoViewChange(s, r, svcs)
    OBVIOUS
  <2>8. /\ d.type = "DoViewChange" /\ d.from = r /\ d.view = s.view
        /\ d.lastNormalView = LastEntryView(s.log) /\ d.lastOp = s.lastOp
        /\ d.lastCommitted = s.lastCommitted /\ d.first = f /\ d.entries = es
    BY <2>4, <2>7 DEF DoViewChange
  <2>9. PartOf(d, s.log)
    BY <2>3, <2>7, <2>8 DEF Announces
  <2>10. Dumps(r, s, d)
    BY <1>7, <2>1, <2>6, <2>8, <2>9 DEF Dumps
  <2>. QED BY <2>7, <2>8, <2>10 DEF Tells
<1>10. \A x \in sent : Tells(r, s, x)
  BY <1>5, <1>7, <1>9, TellsStart
<1>11. Moved(r, s, sent)
  BY <1>6, <1>7 DEF Moved, Become, Network
<1>12. Joins(r, s, sent)
  BY <1>7, <1>10, <1>11 DEF Joins
<1>. QED BY <1>12

\* Log l is that of s with the piece that message m has of the log of its sender.
Brings(s, m, l) ==
    \/ /\ m.entries = <<>> /\ l = s.log
       /\ s.lastCommitted = m.lastCommitted /\ m.lastOp = m.lastCommitted
    \/ /\ m.entries # <<>> /\ m.first <= s.lastCommitted + 1
       /\ \E n \in Nat :
              /\ n = Min({m.lastOp, Len(s.log)}) /\ m.first <= n + 1
              /\ InstalledAs(s.log, m.first, m.entries, n, l)

\* A log is installed, or the replica fails.
LEMMA InstalledCases ==
    ASSUME NEW s \in ReplicaStates, NEW m, Located(m), m.type \in {"DoViewChange", "StartView"},
           m.lastOp \in Nat, m.first \in Nat, m.entries \in Seq(Entries)
    PROVE  Installed(s, m, m) = Abort(s) \/ Brings(s, m, Installed(s, m, m).log)
<1>1. PICK t : t = Installed(s, m, m)
  OBVIOUS
<1>2. s.log \in Seq(Entries) /\ Len(s.log) \in Nat /\ m.first > 0 /\ s.lastCommitted \in Nat
  BY StateFields DEF Located
<1>3. CASE m.entries = <<>>
  <2>1. t = IF s.lastCommitted = m.lastCommitted /\ m.lastOp = m.lastCommitted
            THEN s ELSE Abort(s)
    BY <1>1, <1>3 DEF Installed
  <2>. QED BY <1>1, <1>3, <2>1 DEF Brings
<1>4. CASE m.entries # <<>> /\ t # Abort(s)
  <2>1. /\ ~TooFewEntries(s, m) /\ ~LeavesGap(s, m)
        /\ t = [s EXCEPT !.log = Install(@, m.lastOp, m.first, m.entries)]
    BY <1>1, <1>4 DEF Installed
  <2>2. PICK b, o, f, es : b = s.log /\ o = m.lastOp /\ f = m.first /\ es = m.entries
    OBVIOUS
  <2>3. f <= s.lastCommitted + 1 /\ f <= Min({o, Len(b)}) + 1
    <3>1. Min({o, Len(b)}) \in Nat
      BY <1>2, <2>2, MinOfTwo
    <3>. QED BY <1>2, <2>1, <2>2, <3>1 DEF TooFewEntries, LeavesGap
  <2>4. \E n \in Nat : \E l \in Seq(Entries) :
            /\ n = Min({o, Len(b)}) /\ n <= Len(b)
            /\ l = Install(b, o, f, es)
            /\ InstalledAs(b, f, es, n, l)
    <3>1. /\ b \in Seq(Entries) /\ o \in Nat /\ f \in Nat /\ es \in Seq(Entries)
          /\ f > 0 /\ f <= Min({o, Len(b)}) + 1
      BY <1>2, <2>2, <2>3
    <3>. QED BY <3>1, InstallFacts, Zenon
  <2>5. PICK n \in Nat, l \in Seq(Entries) :
            /\ n = Min({o, Len(b)}) /\ n <= Len(b)
            /\ l = Install(b, o, f, es)
            /\ InstalledAs(b, f, es, n, l)
    BY <2>4, Zenon
  <2>6. t = [s EXCEPT !.log = l]
    BY <2>1, <2>2, <2>5
  <2>7. t.log = l
    BY <2>6 DEF ReplicaStates
  <2>8. f <= n + 1
    BY <2>3, <2>5
  <2>. QED BY <1>1, <1>4, <2>2, <2>3, <2>5, <2>7, <2>8 DEF Brings
<1>. QED BY <1>1, <1>3, <1>4

\* What is chosen stays in the log of t.
Keeps(s, t) == \A k, e : Chosen(k, e) /\ HasEntry(s, k, e) => HasEntry(t, k, e)

\* Replica r enters view 1 after its leader, with a log that is the leader's up to
\* lastOp.
Enters(r, t, sent) ==
    /\ Moved(r, t, sent)
    /\ r # 1 /\ Changed(1) /\ ~Changed(r)
    /\ t.view = 1 /\ t.status = "NORMAL"
    /\ FollowsNew(t, rep[1].log) /\ Keeps(rep[r], t)
    /\ rep[r].lastCommitted <= t.lastCommitted
    /\ \A k \in 1 .. t.lastCommitted : Chosen(k, t.log[k])
    /\ \A m \in sent : m \in Messages /\ m.type = "PrepareOK" /\ Acknowledges(r, t, m)

DoesEnter(r) == \E t, sent : Enters(r, t, sent)

\* The log that a STARTVIEW brings is that of the leader up to lastOp, with all that is
\* chosen.
LEMMA BroughtLog ==
    ASSUME F = 1, ViewstampInv, FirstChange, NEW r \in Replicas, ~Changed(r), Changed(1),
           NEW m \in ViewChangeMessages, m.type = "StartView", Located(m), StartViewHolds(m),
           NEW l \in Seq(Entries), Brings(rep[r], m, l)
    PROVE  /\ m.lastOp \in Nat /\ m.lastOp <= Len(l) /\ rep[r].lastCommitted <= m.lastOp
           /\ FirstViewLog(l) \/ m.lastOp = Len(l)
           /\ \A j \in 1 .. m.lastOp : j <= Len(rep[1].log) /\ l[j] = rep[1].log[j]
           /\ \A k, e : Chosen(k, e) /\ HasEntry(rep[r], k, e) =>
                  k \in 1 .. Len(l) /\ l[k] = e
<1>1. PICK s, g, b, a : s = rep[r] /\ g = rep[1].log /\ b = s.log /\ a = s.lastCommitted
  OBVIOUS
<1>2. 1 \in Replicas /\ Phases /\ OldLogs /\ CommittedChosen
  BY ThreeReplicas DEF FirstChange
<1>3. /\ s \in ReplicaStates /\ b \in Seq(Entries) /\ Len(b) \in Nat /\ a \in Nat
      /\ g \in Seq(Entries) /\ Len(g) \in Nat
  BY <1>1, <1>2, TypedReplica, StateFields DEF ViewstampInv, ViewChangeTyped
<1>4. PICK o, f, es : o = m.lastOp /\ f = m.first /\ es = m.entries
  OBVIOUS
<1>5. /\ o \in Nat /\ f \in Nat /\ f > 0 /\ es \in Seq(Entries) /\ Len(es) \in Nat
      /\ m.lastCommitted \in Nat
  <2>1. m.lastOp \in Nat /\ m.first \in Nat /\ m.entries \in Seq(Entries)
        /\ m.lastCommitted \in Nat
    BY DEF ViewChangeMessages
  <2>. QED BY <1>4, <2>1 DEF Located
<1>6. /\ o <= Len(g)
      /\ \A i \in 1 .. Len(es) : f + i - 1 \in 1 .. Len(g) /\ es[i] = g[f + i - 1]
      /\ es # <<>> => f + Len(es) - 1 = o
      /\ \A j \in 1 .. Len(g) : Kept(j) => j <= o
  BY <1>1, <1>4 DEF StartViewHolds, PartOf
<1>7. FirstViewLog(b)
  BY <1>1, <1>2 DEF OldLogs
<1>8. ASSUME NEW k, NEW e, Chosen(k, e), HasEntry(s, k, e)
      PROVE  /\ k \in 1 .. Len(g) /\ g[k] = e /\ k <= o
             /\ k \in 1 .. Len(b) /\ b[k] = e
  <2>1. HasEntry(rep[1], k, e)
    BY <1>8, ChosenFacts
  <2>2. e.view = 0 /\ k \in 1 .. Len(b) /\ b[k] = e
    BY <1>1, <1>7, <1>8 DEF HasEntry, FirstViewLog
  <2>3. Kept(k)
    BY <1>1, <2>1, <2>2 DEF Kept, HasEntry
  <2>. QED BY <1>1, <1>6, <2>1, <2>2, <2>3 DEF HasEntry
<1>9. a <= Len(b) /\ \A k \in 1 .. a : Chosen(k, b[k]) /\ HasEntry(s, k, b[k])
  BY <1>1, <1>2, <1>3 DEF CommittedChosen, HasEntry
<1>10. \A k \in 1 .. a : g[k] = b[k] /\ k <= o
  BY <1>8, <1>9
<1>11. a <= o
  <2>1. CASE a = 0
    BY <1>5, <2>1
  <2>2. CASE a # 0
    <3>1. a \in 1 .. a
      BY <1>3, <2>2
    <3>. QED BY <1>10, <3>1
  <2>. QED BY <2>1, <2>2
<1>12. CASE es = <<>>
  <2>1. l = b /\ a = m.lastCommitted /\ o = m.lastCommitted
    BY <1>1, <1>4, <1>12 DEF Brings
  <2>2. \A j \in 1 .. o : j <= Len(g) /\ l[j] = g[j]
    BY <1>3, <1>5, <1>6, <1>10, <2>1
  <2>. QED BY <1>1, <1>3, <1>4, <1>5, <1>7, <1>8, <1>9, <1>11, <2>1, <2>2
<1>13. CASE es # <<>>
  <2>1. PICK n \in Nat : /\ n = Min({o, Len(b)}) /\ f <= n + 1
                         /\ InstalledAs(b, f, es, n, l)
    BY <1>1, <1>4, <1>13 DEF Brings
  <2>2. f <= a + 1 /\ f + Len(es) - 1 = o
    BY <1>1, <1>4, <1>6, <1>13 DEF Brings
  <2>3. n <= o /\ n <= Len(b)
    <3>1. PICK c : c = Len(b)
      OBVIOUS
    <3>2. c \in Nat /\ o \in Nat /\ n = Min({o, c})
      BY <1>3, <1>5, <2>1, <3>1
    <3>3. n = IF o <= c THEN o ELSE c
      BY <3>2, MinOfTwo
    <3>4. n <= o /\ n <= c
      BY <3>2, <3>3
    <3>. QED BY <3>1, <3>4
  <2>4. Len(l) = o
    <3>1. (Len(l) = n /\ o <= n) \/ Len(l) = o
      BY <2>1, <2>2 DEF InstalledAs
    <3>. QED BY <1>5, <2>3, <3>1
  <2>5. ASSUME NEW j \in 1 .. o
        PROVE  l[j] = g[j]
    <3>1. \/ /\ j <= n /\ l[j] = b[j]
             /\ \A i \in 1 .. Len(es) : j = f + i - 1 => b[j].view = es[i].view
          \/ \E i \in 1 .. Len(es) : j = f + i - 1 /\ l[j] = es[i]
      BY <2>1, <2>4 DEF InstalledAs
    <3>2. CASE \E i \in 1 .. Len(es) : j = f + i - 1 /\ l[j] = es[i]
      BY <1>6, <3>2
    <3>3. CASE /\ j <= n /\ l[j] = b[j]
               /\ \A i \in 1 .. Len(es) : j = f + i - 1 => b[j].view = es[i].view
      <4>1. CASE j < f
        <5>1. j \in 1 .. a
          BY <1>3, <1>5, <2>2, <4>1
        <5>. QED BY <1>10, <3>3, <5>1
      <4>2. CASE ~ (j < f)
        <5>1. PICK i : i = j - f + 1
          OBVIOUS
        <5>2. PICK c : c = Len(es)
          OBVIOUS
        <5>3. i \in 1 .. c /\ j = f + i - 1
          BY <1>5, <2>2, <4>2, <5>1, <5>2
        <5>4. b[j].view = es[i].view /\ es[i] = g[j]
          BY <1>6, <3>3, <5>2, <5>3
        <5>5. HasEntry(rep[r], j, b[j]) /\ HasEntry(rep[1], j, g[j])
          BY <1>1, <1>3, <1>5, <1>6, <2>3, <3>3 DEF HasEntry
        <5>6. b[j] = g[j]
          BY <1>2, <5>4, <5>5, EntriesAgree
        <5>. QED BY <3>3, <5>6
      <4>. QED BY <4>1, <4>2
    <3>. QED BY <3>1, <3>2, <3>3
  <2>6. \A j \in 1 .. o : j <= Len(g) /\ l[j] = g[j]
    BY <1>3, <1>5, <1>6, <2>5
  <2>7. \A k, e : Chosen(k, e) /\ HasEntry(s, k, e) => k \in 1 .. Len(l) /\ l[k] = e
    <3>. SUFFICES ASSUME NEW k, NEW e, Chosen(k, e), HasEntry(s, k, e)
                  PROVE  k \in 1 .. Len(l) /\ l[k] = e
      OBVIOUS
    <3>1. k \in 1 .. Len(g) /\ g[k] = e /\ k <= o
      BY <1>8
    <3>2. k \in 1 .. o
      BY <1>5, <3>1
    <3>. QED BY <2>4, <2>5, <3>1, <3>2
  <2>. QED BY <1>1, <1>4, <1>5, <1>11, <2>4, <2>6, <2>7
<1>. QED BY <1>12, <1>13

\* A STARTVIEW: the replica enters the view, or fails.
LEMMA StartViewEnters ==
    ASSUME F = 1, ViewstampInv, FirstChange, NEW r \in Replicas, ReceiveStartView(r)
    PROVE  DoesEnter(r) \/ \E t, sent : Joins(r, t, sent)
<1>1. /\ Typed /\ rep[r] \in ReplicaStates /\ ~rep[r].aborted /\ rep[r].lastOp \in Nat
      /\ rep[r].view \in Nat /\ rep[r].lastCommitted \in Nat
  BY TypedReplica, StateFields
     DEF ViewstampInv, ViewChangeTyped, ReceiveStartView, Idle, Running
<1>2. PICK m \in Received(r, "StartView") : HandleStartView(r, m)
  BY DEF ReceiveStartView
<1>3. /\ m \in ViewChangeMessages /\ m \in msgs /\ m.type = "StartView" /\ Located(m)
      /\ m.view \in Views /\ m.lastCommitted \in Nat /\ m.lastOp \in Nat
      /\ m.first \in Nat /\ m.entries \in Seq(Entries)
  BY <1>1, <1>2, ChangeMessages
<1>4. StartViewHolds(m) /\ m.view = 1 /\ Changed(1) /\ m.lastCommitted <= m.lastOp
      /\ \A j \in 1 .. m.lastCommitted : Chosen(j, rep[1].log[j])
  BY <1>3 DEF FirstChange, MessagesHold, MessageHolds, StartViewHolds
<1>5. PICK i : i = Installed(rep[r], m, m)
  OBVIOUS
<1>6. PICK e : e = [EnterView(i, r, m.view) EXCEPT !.lastOp = m.lastOp]
  OBVIOUS
<1>7. PICK c : c = CommitUpTo(e, m.lastCommitted)
  OBVIOUS
<1>8. /\ Concerns(m, rep[r])
      /\ IF i.aborted
         THEN Become(r, i) /\ Network({m}, {})
         ELSE /\ Become(r, IF c.aborted THEN c ELSE SendPrepareOKs(c, rep[r].lastOp))
              /\ Network({m}, IF c.aborted THEN {} ELSE PrepareOKsFor(c, r, rep[r].lastOp))
  BY <1>2, <1>5, <1>6, <1>7 DEF HandleStartView
<1>9. /\ i \in ReplicaStates
      /\ i.view = rep[r].view /\ i.status = rep[r].status /\ i.lastOp = rep[r].lastOp
      /\ i.lastCommitted = rep[r].lastCommitted /\ i.prepareOKs = rep[r].prepareOKs
      /\ i.aborted => i = Abort(rep[r])
  <2>1. PICK s : s = rep[r]
    OBVIOUS
  <2>2. /\ s \in ReplicaStates /\ ~s.aborted /\ m.type \in {"DoViewChange", "StartView"}
    BY <1>1, <1>3, <2>1
  <2>3. LET t == Installed(s, m, m)
        IN  /\ t \in ReplicaStates /\ t.view = s.view /\ t.status = s.status
            /\ t.lastOp = s.lastOp /\ t.lastCommitted = s.lastCommitted
            /\ t.prepareOKs = s.prepareOKs
            /\ t.aborted => t = Abort(s)
    BY <1>3, <2>2, InstalledFacts
  <2>. QED BY <1>5, <2>1, <2>3, Zenon
<1>10. CASE i.aborted
  <2>1. Like(rep[r], i)
    BY <1>1, <1>9, <1>10, LikeAbort
  <2>2. PICK sent, gone : sent = {} /\ gone = {m}
    OBVIOUS
  <2>3. Become(r, i) /\ Network(gone, sent) /\ \A x \in sent : x.type = "StartViewChange"
    BY <1>8, <1>10, <2>2
  <2>4. Joins(r, i, sent)
    BY <1>1, <2>1, <2>3, JoinsAborted
  <2>. QED BY <2>4
<1>11. CASE ~i.aborted
  <2>1. ~Changed(r) /\ r # 1
    <3>1. ~Changed(r)
      BY <1>4, <1>8 DEF Concerns, Changed
    <3>. QED BY <1>4, <3>1
  <2>2. PICK l : l = i.log
    OBVIOUS
  <2>3. l \in Seq(Entries) /\ Len(l) \in Nat
    BY <1>9, <2>2, StateFields
  <2>4. Brings(rep[r], m, l)
    <3>1. m.type \in {"DoViewChange", "StartView"} /\ i # Abort(rep[r])
      BY <1>1, <1>3, <1>11, LikeAbort
    <3>. QED BY <1>1, <1>3, <1>5, <2>2, <3>1, InstalledCases
  <2>5. /\ m.lastOp <= Len(l) /\ rep[r].lastCommitted <= m.lastOp
        /\ FirstViewLog(l) \/ m.lastOp = Len(l)
        /\ \A j \in 1 .. m.lastOp : j <= Len(rep[1].log) /\ l[j] = rep[1].log[j]
        /\ \A k, d : Chosen(k, d) /\ HasEntry(rep[r], k, d) => k \in 1 .. Len(l) /\ l[k] = d
    BY <1>3, <1>4, <2>1, <2>3, <2>4, BroughtLog
  <2>6. PICK d : d = EnterView(i, r, m.view)
    OBVIOUS
  <2>7. /\ d \in ReplicaStates /\ d.view = 1 /\ d.status = "NORMAL" /\ d.log = l
        /\ d.lastCommitted = rep[r].lastCommitted
    BY <1>3, <1>4, <1>9, <2>2, <2>6, EnterViewFacts
  <2>8. /\ e \in ReplicaStates /\ e.view = 1 /\ e.status = "NORMAL" /\ e.log = l
        /\ e.lastCommitted = rep[r].lastCommitted /\ e.lastOp = m.lastOp
    BY <1>3, <1>6, <2>6, <2>7, LastOpChange
  <2>9. PICK n : n = m.lastCommitted
    OBVIOUS
  <2>10. n \in Nat /\ c = CommitUpTo(e, n)
    BY <1>3, <1>7, <2>9
  <2>11. /\ c \in ReplicaStates /\ c.view = 1 /\ c.status = "NORMAL" /\ c.log = l
         /\ c.lastOp = m.lastOp
         /\ \/ n <= e.lastCommitted /\ c = e
            \/ e.lastCommitted < n /\ c.lastCommitted = Min({n, Len(e.log)})
    BY <2>8, <2>10, CommitUpToAny
  <2>12. /\ rep[r].lastCommitted <= c.lastCommitted /\ c.lastCommitted <= m.lastOp
         /\ c.lastCommitted = rep[r].lastCommitted \/ c.lastCommitted = n
    <3>1. CASE c = e
      BY <1>1, <2>5, <2>8, <3>1
    <3>2. CASE e.lastCommitted < n /\ c.lastCommitted = Min({n, Len(e.log)})
      <4>1. PICK z : z = Len(l)
        OBVIOUS
      <4>2. z \in Nat /\ n <= z /\ c.lastCommitted = Min({n, z})
        BY <1>3, <1>4, <2>3, <2>5, <2>8, <2>9, <3>2, <4>1
      <4>3. c.lastCommitted = n
        BY <2>10, <4>2, MinOfTwo
      <4>. QED BY <1>1, <1>4, <2>8, <2>9, <2>10, <3>2, <4>3
    <3>. QED BY <2>11, <3>1, <3>2
  <2>13. PICK t : t = IF c.aborted THEN c ELSE SendPrepareOKs(c, rep[r].lastOp)
    OBVIOUS
  <2>14. Like(c, t)
    BY <1>1, <2>11, <2>13, LikeSendPrepareOKs, LikeChanges
  <2>15. /\ t \in ReplicaStates /\ t.view = 1 /\ t.status = "NORMAL" /\ t.log = l
         /\ t.lastOp = m.lastOp /\ t.lastCommitted = c.lastCommitted
    BY <2>11, <2>14 DEF Like, SameProgress
  <2>16. PICK sent : sent = IF c.aborted THEN {} ELSE PrepareOKsFor(c, r, rep[r].lastOp)
    OBVIOUS
  <2>17. Moved(r, t, sent)
    BY <1>8, <1>11, <2>13, <2>15, <2>16 DEF Moved, Become, Network
  <2>18. \A x \in sent : x \in Messages /\ x.type = "PrepareOK" /\ Acknowledges(r, t, x)
    <3>. SUFFICES ASSUME NEW x \in sent
                  PROVE  x \in Messages /\ x.type = "PrepareOK" /\ Acknowledges(r, t, x)
      OBVIOUS
    <3>1. x \in PrepareOKsFor(c, r, rep[r].lastOp)
      BY <2>16
    <3>2. /\ x \in Messages /\ x.type = "PrepareOK" /\ x.from = r /\ x.view = c.view
          /\ x.opnum \in Nat /\ x.opnum <= c.lastOp
      BY <1>1, <2>11, <3>1, PrepareOKsForFacts
    <3>3. ~AmLeader(t, r)
      BY <2>1, <2>15, ThreeReplicas DEF AmLeader
    <3>. QED BY <2>11, <2>15, <3>2, <3>3 DEF Acknowledges
  <2>19. FollowsNew(t, rep[1].log)
    BY <2>5, <2>12, <2>15 DEF FollowsNew
  <2>20. Keeps(rep[r], t)
    BY <2>5, <2>15 DEF Keeps, HasEntry
  <2>21. ASSUME NEW k \in 1 .. t.lastCommitted
         PROVE  Chosen(k, t.log[k])
    <3>1. k \in 1 .. m.lastOp /\ t.log[k] = rep[1].log[k]
      BY <1>3, <2>5, <2>11, <2>12, <2>15, StateFields
    <3>2. CASE t.lastCommitted = n
      BY <1>4, <2>9, <2>21, <3>1, <3>2
    <3>3. CASE t.lastCommitted = rep[r].lastCommitted
      <4>1. k <= Len(rep[r].log) /\ Chosen(k, rep[r].log[k])
        BY <1>1, <2>21, <3>3, StateFields DEF FirstChange, CommittedChosen
      <4>2. HasEntry(rep[1], k, rep[r].log[k])
        BY <1>4, <4>1, ChosenFacts
      <4>3. rep[r].log[k] = t.log[k]
        BY <3>1, <4>2 DEF HasEntry
      <4>. QED BY <4>1, <4>3
    <3>. QED BY <2>12, <2>15, <3>2, <3>3
  <2>22. Enters(r, t, sent)
    BY <1>4, <2>1, <2>12, <2>15, <2>17, <2>18, <2>19, <2>20, <2>21 DEF Enters
  <2>. QED BY <2>22 DEF DoesEnter
<1>. QED BY <1>10, <1>11

\* The entries for the durability log come behind the log.
LEMMA AddedEntries ==
    ASSUME NEW s \in ReplicaStates, NEW qs \in Seq(Requests), s.lastOp = Len(s.log)
    PROVE  LET t == AddDurable(s, qs)
           IN  /\ t.lastOp = Len(t.log) /\ Len(s.log) <= Len(t.log)
               /\ \A j \in 1 .. Len(s.log) : t.log[j] = s.log[j]
               /\ \A j \in Len(s.log) + 1 .. Len(t.log) : t.log[j].view = s.view
<1>1. PICK b, c, d : b = s.log /\ c = Len(s.log) /\ d = Len(qs)
  OBVIOUS
<1>2. b \in Seq(Entries) /\ c \in Nat /\ d \in Nat /\ c = Len(b) /\ s.view \in Views
  <2>1. s.view \in Views
    BY DEF ReplicaStates
  <2>. QED BY <1>1, <2>1, StateFields
<1>3. PICK new : new = [i \in 1 .. Len(qs) |-> [view |-> s.view, req |-> qs[i]]]
  OBVIOUS
<1>4. new \in Seq(Entries) /\ Len(new) = d /\ \A i \in 1 .. d : new[i].view = s.view
  <2>1. \A i \in 1 .. Len(qs) : qs[i] \in Requests
    BY ElementOfSeq
  <2>2. \A i \in 1 .. Len(qs) : [view |-> s.view, req |-> qs[i]] \in Entries
    BY <1>2, <2>1 DEF Entries
  <2>. QED BY <1>1, <1>2, <1>3, <2>2
<1>5. PICK l, k, table, none :
          /\ l = s.log \o new /\ k = s.lastOp + Len(qs)
          /\ table = UpdateClientTable(s.clientTable, qs) /\ none = <<>>
  OBVIOUS
<1>6. PICK t : t = AddDurable(s, qs)
  OBVIOUS
<1>7. t = [s EXCEPT !.log = l, !.lastOp = k, !.clientTable = table, !.queue = none]
  BY <1>3, <1>5, <1>6 DEF AddDurable
<1>8. t.log = l /\ t.lastOp = c + d
  BY <1>1, <1>5, <1>7 DEF ReplicaStates
<1>9. /\ Len(l) = c + d
      /\ \A j \in 1 .. c + d : l[j] = IF j <= c THEN b[j] ELSE new[j - c]
  <2>1. b \in Seq(Entries) /\ new \in Seq(Entries)
    BY <1>2, <1>4
  <2>2. /\ Len(b \o new) = Len(b) + Len(new)
        /\ \A j \in 1 .. Len(b) + Len(new) :
               (b \o new)[j] = IF j <= Len(b) THEN b[j] ELSE new[j - Len(b)]
    BY <2>1, ConcatProperties
  <2>3. l = b \o new
    BY <1>1, <1>5
  <2>. QED BY <1>2, <1>4, <2>2, <2>3
<1>10. \A j \in 1 .. c : l[j] = b[j]
  BY <1>2, <1>9
<1>11. ASSUME NEW j \in c + 1 .. c + d
       PROVE  l[j].view = s.view
  <2>1. PICK i : i = j - c
    OBVIOUS
  <2>2. i \in 1 .. d /\ j \in 1 .. c + d /\ ~ (j <= c)
    BY <1>2, <2>1
  <2>3. l[j] = new[i]
    BY <1>9, <2>1, <2>2
  <2>. QED BY <1>4, <2>2, <2>3
<1>12. c <= c + d
  BY <1>2
<1>. QED BY <1>1, <1>6, <1>8, <1>9, <1>10, <1>11, <1>12

\* The last view of a log of the first view.
LEMMA FirstViewLast ==
    ASSUME NEW l \in Seq(Entries), FirstViewLog(l)
    PROVE  LastEntryView(l) = 0
<1>1. CASE l = <<>>
  BY <1>1 DEF LastEntryView
<1>2. CASE l # <<>>
  <2>1. Len(l) \in 1 .. Len(l)
    BY <1>2
  <2>. QED BY <1>2, <2>1 DEF LastEntryView, FirstViewLog
<1>. QED BY <1>1, <1>2

\* The log that the new leader takes, its own or that of the message, the longer one of
\* the two: all of it is in the log of the old leader.
LEMMA TakenLog ==
    ASSUME F = 1, ViewstampInv, FirstChange, ~Changed(1),
           NEW m \in ViewChangeMessages, m.type = "DoViewChange", Located(m),
           DoViewChangeHolds(m), NEW l \in Seq(Entries), NEW k,
           \/ /\ ~Newer(Viewstamp(m), <<LastEntryView(rep[1].log), Len(rep[1].log)>>)
              /\ l = rep[1].log /\ k = Len(rep[1].log)
           \/ /\ Newer(Viewstamp(m), <<LastEntryView(rep[1].log), Len(rep[1].log)>>)
              /\ Brings(rep[1], m, l) /\ k = m.lastOp
    PROVE  /\ k = Len(l) /\ Len(rep[1].log) <= Len(l) /\ Len(rep[m.from].log) <= Len(l)
           /\ \A j \in 1 .. Len(l) : HasEntry(rep[0], j, l[j])
<1>1. 1 \in Replicas /\ 0 \in Replicas /\ m.from \in Replicas
  BY ThreeReplicas, DoViewChangeFields
<1>2. PICK x, b, d, s, a : /\ x = m.from /\ b = rep[1].log /\ d = rep[x].log
                           /\ s = rep[1] /\ a = s.lastCommitted
  OBVIOUS
<1>3. /\ s \in ReplicaStates /\ b \in Seq(Entries) /\ d \in Seq(Entries)
      /\ Len(b) \in Nat /\ Len(d) \in Nat /\ a \in Nat /\ a <= Len(b)
  <2>1. rep[1] \in ReplicaStates /\ rep[x] \in ReplicaStates
    BY <1>1, <1>2, TypedReplica DEF ViewstampInv, ViewChangeTyped
  <2>2. rep[1].lastCommitted <= Len(rep[1].log)
    BY <1>1 DEF FirstChange, CommittedChosen
  <2>. QED BY <1>2, <2>1, <2>2, StateFields
<1>4. PICK o, f, es : o = m.lastOp /\ f = m.first /\ es = m.entries
  OBVIOUS
<1>5. o \in Nat /\ f \in Nat /\ f > 0 /\ es \in Seq(Entries) /\ Len(es) \in Nat
  <2>1. m.lastOp \in Nat /\ m.first \in Nat /\ m.entries \in Seq(Entries)
    BY DoViewChangeFields
  <2>. QED BY <1>4, <2>1 DEF Located
<1>6. /\ o = Len(d) /\ m.lastNormalView = 0
      /\ es # <<>> => f + Len(es) - 1 = o
      /\ \A i \in 1 .. Len(es) : f + i - 1 \in 1 .. Len(d) /\ es[i] = d[f + i - 1]
  BY <1>2, <1>4 DEF DoViewChangeHolds, DumpOf, PartOf
<1>7. /\ \A j \in 1 .. Len(b) : HasEntry(rep[0], j, b[j])
      /\ \A j \in 1 .. Len(d) : HasEntry(rep[0], j, d[j])
  <2>1. \A p \in Replicas : \A j \in 1 .. Len(rep[p].log) : HasEntry(rep[p], j, rep[p].log[j])
    BY DEF HasEntry
  <2>. QED BY <1>1, <1>2, <2>1, OldLogsAgree DEF FirstChange
<1>8. LastEntryView(b) = 0
  BY <1>1, <1>2, <1>3, FirstViewLast DEF FirstChange, OldLogs
<1>9. Newer(Viewstamp(m), <<LastEntryView(rep[1].log), Len(rep[1].log)>>) <=> o > Len(b)
  <2>1. PICK p, q : p = Viewstamp(m) /\ q = <<LastEntryView(rep[1].log), Len(rep[1].log)>>
    OBVIOUS
  <2>2. p[1] = 0 /\ p[2] = o /\ q[1] = 0 /\ q[2] = Len(b)
    BY <1>2, <1>4, <1>6, <1>8, <2>1 DEF Viewstamp
  <2>. QED BY <2>1, <2>2 DEF Newer
<1>10. CASE ~ (o > Len(b))
  <2>1. l = b /\ k = Len(b)
    BY <1>2, <1>9, <1>10
  <2>. QED BY <1>2, <1>3, <1>5, <1>6, <1>7, <1>10, <2>1
<1>11. CASE o > Len(b)
  <2>1. Brings(s, m, l) /\ k = o
    BY <1>2, <1>4, <1>9, <1>11
  <2>2. es # <<>>
    <3>. SUFFICES ASSUME es = <<>>
                  PROVE  FALSE
      OBVIOUS
    <3>1. a = o
      BY <1>2, <1>4, <2>1 DEF Brings
    <3>. QED BY <1>3, <1>5, <1>11, <3>1
  <2>3. PICK n \in Nat : /\ n = Min({o, Len(b)}) /\ f <= n + 1
                         /\ InstalledAs(b, f, es, n, l)
    BY <1>2, <1>4, <2>1, <2>2 DEF Brings
  <2>4. n = Len(b) /\ f + Len(es) - 1 = o
    <3>1. PICK c : c = Len(b)
      OBVIOUS
    <3>2. c \in Nat /\ o \in Nat /\ n = Min({o, c}) /\ o > c
      BY <1>3, <1>5, <1>11, <2>3, <3>1
    <3>3. n = IF o <= c THEN o ELSE c
      BY <3>2, MinOfTwo
    <3>4. n = c
      BY <3>2, <3>3
    <3>. QED BY <1>6, <2>2, <3>1, <3>4
  <2>5. Len(l) = o
    <3>1. (Len(l) = n /\ o <= n) \/ Len(l) = o
      BY <2>3, <2>4 DEF InstalledAs
    <3>. QED BY <1>3, <1>5, <1>11, <2>4, <3>1
  <2>6. ASSUME NEW j \in 1 .. o
        PROVE  HasEntry(rep[0], j, l[j])
    <3>1. \/ j <= n /\ l[j] = b[j]
          \/ \E i \in 1 .. Len(es) : j = f + i - 1 /\ l[j] = es[i]
      BY <2>3, <2>5 DEF InstalledAs
    <3>2. CASE j <= n /\ l[j] = b[j]
      <4>1. j \in 1 .. Len(b)
        BY <1>3, <1>5, <2>4, <3>2
      <4>. QED BY <1>7, <3>2, <4>1
    <3>3. CASE \E i \in 1 .. Len(es) : j = f + i - 1 /\ l[j] = es[i]
      BY <1>6, <1>7, <3>3
    <3>. QED BY <3>1, <3>2, <3>3
  <2>. QED BY <1>2, <1>3, <1>4, <1>5, <1>6, <1>11, <2>1, <2>5, <2>6
<1>. QED BY <1>10, <1>11

\* A STARTVIEW has the end of the log of t, the new leader.
Starts(t, m) ==
    /\ m \in ViewChangeMessages
    /\ \/ m.type = "StartViewChange"
       \/ /\ m.type = "StartView" /\ m.view = 1
          /\ m.lastOp = t.lastOp /\ m.lastCommitted = t.lastCommitted
          /\ PartOf(m, t.log)
          /\ m.entries # <<>> => m.first + Len(m.entries) - 1 = Len(t.log)

\* The new leader has a log of the old leader's entries, up to operation b at least as
\* long as its own and that of replica x, which has stopped to take part in view 0, and
\* entries of its view behind.
TakesLog(t, x, b) ==
    /\ rep[x].view = 1 /\ b <= Len(t.log)
    /\ Len(rep[1].log) <= b /\ Len(rep[x].log) <= b
    /\ \A j \in 1 .. b : HasEntry(rep[0], j, t.log[j])
    /\ \A j \in b + 1 .. Len(t.log) : t.log[j].view = 1
    /\ rep[1].lastCommitted <= t.lastCommitted /\ t.lastCommitted <= b

\* Replica r enters view 1 as its leader.
TakesOver(r, t, sent) ==
    /\ Moved(r, t, sent)
    /\ r = 1 /\ ~Changed(1)
    /\ t.view = 1 /\ t.status = "NORMAL" /\ t.prepareOKs = {} /\ t.lastOp = Len(t.log)
    /\ \E x \in Replicas \ {1} : \E b \in Nat : TakesLog(t, x, b)
    /\ \A k \in 1 .. t.lastCommitted : Chosen(k, t.log[k])
    /\ \A m \in sent : Starts(t, m)

DoesTakeOver(r) == \E t, sent : TakesOver(r, t, sent)

\* The newest of one message is that message, if it is newer than the log.
LEMMA LatestOfOne ==
    ASSUME NEW l, NEW m, m.lastNormalView \in Nat, m.lastOp \in Nat, m.from \in Nat
    PROVE  /\ LatestMsg(l, {m}) = IF Newer(Viewstamp(m), <<LastEntryView(l), Len(l)>>)
                                  THEN {m} ELSE {}
           /\ ReadFrom({m}, {m}) = {m}
<1>1. PICK v : v = Viewstamp(m)
  OBVIOUS
<1>2. ~Newer(v, v)
  BY <1>1 DEF Viewstamp, Newer
<1>. QED BY <1>1, <1>2 DEF LatestMsg, ReadFrom

\* The messages that a new leader sends.
LEMMA StartViewMessagesStart ==
    ASSUME NEW t \in ReplicaStates, t.view = 1, NEW n \in Nat, NEW r,
           NEW m \in StartViewMessages(t, r, n)
    PROVE  Starts(t, m)
<1>1. PICK f, es, l : f = DumpFrom(n) /\ l = t.log /\ es = SubSeq(l, f, Len(l))
  OBVIOUS
<1>2. /\ l \in Seq(Entries) /\ t.view \in Views /\ t.lastOp \in Nat
      /\ t.lastCommitted \in Nat
  BY <1>1 DEF ReplicaStates
<1>3. /\ f \in Nat /\ f > 0 /\ es \in Seq(Entries)
      /\ \A i \in 1 .. Len(es) : f + i - 1 \in 1 .. Len(l) /\ es[i] = l[f + i - 1]
  BY <1>1, <1>2, DumpFacts
<1>4. PICK p \in Replicas \ {r} :
          m = [type |-> "StartView", to |-> p, view |-> t.view, lastOp |-> t.lastOp,
               lastCommitted |-> t.lastCommitted, first |-> f, entries |-> es]
  BY <1>1 DEF StartViewMessages
<1>5. m \in ViewChangeMessages
  BY <1>2, <1>3, <1>4 DEF ViewChangeMessages
<1>6. /\ m.type = "StartView" /\ m.view = 1 /\ m.lastOp = t.lastOp
      /\ m.lastCommitted = t.lastCommitted /\ m.first = f /\ m.entries = es
  BY <1>4
<1>7. PartOf(m, t.log)
  BY <1>1, <1>3, <1>6 DEF PartOf
<1>8. ASSUME es # <<>>
      PROVE  f + Len(es) - 1 = Len(l)
  <2>1. l \in Seq(Entries) /\ f = DumpFrom(n) /\ es = SubSeq(l, f, Len(l)) /\ es # <<>>
    BY <1>1, <1>2, <1>8
  <2>. QED BY <2>1, DumpEnd
<1>. QED BY <1>1, <1>5, <1>6, <1>7, <1>8 DEF Starts

\* What a replica has executed is chosen, also by the entry of the old leader.
LEMMA ExecutedChosen ==
    ASSUME F = 1, ViewstampInv, FirstChange, ~Changed(1), NEW p \in Replicas,
           NEW k \in 1 .. rep[p].lastCommitted, NEW e, HasEntry(rep[0], k, e)
    PROVE  Chosen(k, e)
<1>1. PICK d : d = rep[p].log[k]
  OBVIOUS
<1>2. Chosen(k, d)
  BY <1>1 DEF FirstChange, CommittedChosen
<1>3. HasEntry(rep[0], k, d)
  BY <1>2, ChosenFacts
<1>4. d = e
  BY <1>3 DEF HasEntry
<1>. QED BY <1>2, <1>4

\* A replica s that changes to view 1 becomes its leader on message m.
LEMMA NewLeaderTakes ==
    ASSUME F = 1, ViewstampInv, FirstChange, 1 \in Replicas, ~Changed(1), ~rep[1].aborted,
           NEW s \in ReplicaStates, ~s.aborted, s.view = 1, s.log = rep[1].log,
           s.lastCommitted = rep[1].lastCommitted,
           NEW m \in ViewChangeMessages, m.type = "DoViewChange", Located(m),
           DoViewChangeHolds(m), NEW joining,
           \A y \in joining : y \in ViewChangeMessages /\ y.type = "StartViewChange",
           NEW latest, latest = LatestMsg(s.log, {m}), NEW k,
           k = (IF latest = {} THEN <<LastEntryView(s.log), Len(s.log)>>
                ELSE Viewstamp(CHOOSE y \in latest : TRUE))[2],
           NEW merged \in Seq(Requests), NEW least \in Nat, NEW upto \in Nat, NEW votes,
           NewLeader(1, s, m, votes, joining, latest, k, upto, m, merged, least)
    PROVE  DoesTakeOver(1) \/ (Become(1, Abort(s)) /\ Network({m}, joining))
<1>1. PICK b : b = IF latest = {} THEN s ELSE Installed(s, m, m)
  OBVIOUS
<1>2. PICK t : t = [b EXCEPT !.lastOp = k]
  OBVIOUS
<1>3. PICK qs : qs = Unordered(t.clientTable, merged)
  OBVIOUS
<1>4. PICK u : u = AddDurable(t, qs)
  OBVIOUS
<1>5. PICK e : e = EnterView(u, 1, s.view)
  OBVIOUS
<1>6. PICK c : c = IF latest = {} THEN e ELSE CommitUpTo(e, m.lastCommitted)
  OBVIOUS
<1>7. PICK n : n = Min({least, upto})
  OBVIOUS
<1>8. PICK sent : sent = joining \cup IF c.aborted THEN {} ELSE StartViewMessages(c, 1, n)
  OBVIOUS
<1>9. IF t.aborted \/ u.aborted
      THEN Become(1, Abort(s)) /\ Network({m}, joining)
      ELSE Become(1, c) /\ Network({m}, sent)
  BY <1>1, <1>2, <1>3, <1>4, <1>5, <1>6, <1>7, <1>8, Zenon DEF NewLeader
<1>10. SUFFICES ASSUME ~ (t.aborted \/ u.aborted), Become(1, c), Network({m}, sent)
                PROVE  DoesTakeOver(1)
  BY <1>9
<1>11. /\ m.from \in Replicas /\ m.lastNormalView \in Nat /\ m.lastOp \in Nat
       /\ m.lastCommitted \in Nat /\ m.first \in Nat /\ m.entries \in Seq(Entries)
       /\ m.from \in Nat
  BY DoViewChangeFields, ThreeReplicas DEF Views
<1>12. PICK x, a : x = m.from /\ a = rep[1].lastCommitted
  OBVIOUS
<1>13. /\ rep[1] \in ReplicaStates /\ rep[x] \in ReplicaStates /\ 0 \in Replicas
       /\ x \in Replicas /\ x # 1 /\ rep[x].view = 1
       /\ m.lastCommitted <= rep[x].lastCommitted
  BY <1>11, <1>12, ThreeReplicas, TypedReplica
     DEF ViewstampInv, ViewChangeTyped, DoViewChangeHolds
<1>14. /\ a \in Nat /\ a <= Len(rep[1].log) /\ Len(rep[1].log) \in Nat
       /\ rep[x].lastCommitted \in Nat /\ Len(rep[x].log) \in Nat
       /\ rep[x].lastCommitted <= Len(rep[x].log) /\ s.log \in Seq(Entries)
  BY <1>12, <1>13, StateFields DEF FirstChange, CommittedChosen
<1>15. latest = IF Newer(Viewstamp(m), <<LastEntryView(s.log), Len(s.log)>>) THEN {m} ELSE {}
  BY <1>11, LatestOfOne
<1>16. /\ b \in ReplicaStates /\ b.lastCommitted = a
       /\ k = Len(b.log) /\ Len(rep[1].log) <= Len(b.log) /\ Len(rep[x].log) <= Len(b.log)
       /\ \A j \in 1 .. Len(b.log) : HasEntry(rep[0], j, b.log[j])
  <2>1. PICK l : l = b.log
    OBVIOUS
  <2>2. CASE latest = {}
    <3>1. b = s /\ k = Len(rep[1].log) /\ l = rep[1].log
      BY <1>1, <2>1, <2>2
    <3>2. ~Newer(Viewstamp(m), <<LastEntryView(rep[1].log), Len(rep[1].log)>>)
      BY <1>15, <2>2
    <3>3. /\ k = Len(l) /\ Len(rep[1].log) <= Len(l) /\ Len(rep[m.from].log) <= Len(l)
          /\ \A j \in 1 .. Len(l) : HasEntry(rep[0], j, l[j])
      BY <1>14, <3>1, <3>2, TakenLog
    <3>. QED BY <1>12, <2>1, <3>1, <3>3
  <2>3. CASE latest # {}
    <3>1. /\ b = Installed(s, m, m) /\ latest = {m}
          /\ Newer(Viewstamp(m), <<LastEntryView(rep[1].log), Len(rep[1].log)>>)
      BY <1>1, <1>15, <2>3
    <3>2. k = m.lastOp
      BY <3>1 DEF Viewstamp
    <3>3. b \in ReplicaStates /\ b.lastCommitted = s.lastCommitted
      BY <1>11, <3>1, InstalledFacts
    <3>4. b # Abort(s)
      <4>. SUFFICES ASSUME b = Abort(s)
                    PROVE  FALSE
        OBVIOUS
      <4>1. b.aborted
        BY LikeAbort
      <4>2. t.aborted
        BY <1>2, <3>2, <3>3, <1>11, <4>1, LastOpChange
      <4>. QED BY <1>10, <4>2
    <3>5. Brings(s, m, l)
      BY <1>11, <2>1, <3>1, <3>4, InstalledCases
    <3>6. Brings(rep[1], m, l)
      BY <3>5 DEF Brings
    <3>7. l \in Seq(Entries)
      BY <2>1, <3>3, StateFields
    <3>8. /\ k = Len(l) /\ Len(rep[1].log) <= Len(l) /\ Len(rep[m.from].log) <= Len(l)
          /\ \A j \in 1 .. Len(l) : HasEntry(rep[0], j, l[j])
      BY <3>1, <3>2, <3>6, <3>7, TakenLog
    <3>. QED BY <1>12, <2>1, <3>3, <3>8
  <2>. QED BY <2>2, <2>3
<1>17. Len(b.log) \in Nat
  BY <1>16, StateFields
<1>18. /\ t \in ReplicaStates /\ t.view = b.view /\ t.log = b.log /\ t.lastOp = Len(t.log)
       /\ t.lastCommitted = a
  <2>1. k \in Nat
    BY <1>16, <1>17
  <2>2. /\ t \in ReplicaStates /\ t.view = b.view /\ t.log = b.log /\ t.lastOp = k
        /\ t.lastCommitted = b.lastCommitted
    BY <1>2, <1>16, <2>1, LastOpChange
  <2>. QED BY <1>16, <2>2
<1>19. b.view = 1
  <2>1. CASE latest = {}
    BY <1>1, <2>1
  <2>2. CASE latest # {}
    BY <1>1, <1>11, <2>2, InstalledFacts
  <2>. QED BY <2>1, <2>2
<1>20. qs \in Seq(Requests)
  BY <1>3, KeepType DEF Unordered
<1>21. u \in ReplicaStates /\ u.view = 1 /\ u.lastCommitted = a
  BY <1>4, <1>18, <1>19, <1>20, AddDurableFacts
<1>22. /\ u.lastOp = Len(u.log) /\ Len(t.log) <= Len(u.log)
       /\ \A j \in 1 .. Len(t.log) : u.log[j] = t.log[j]
       /\ \A j \in Len(t.log) + 1 .. Len(u.log) : u.log[j].view = 1
  BY <1>4, <1>18, <1>19, <1>20, AddedEntries
<1>23. /\ e \in ReplicaStates /\ e.view = 1 /\ e.status = "NORMAL" /\ e.prepareOKs = {}
       /\ e.log = u.log /\ e.lastOp = u.lastOp /\ e.lastCommitted = a
  <2>1. s.view \in Views
    BY DEF ReplicaStates
  <2>. QED BY <1>5, <1>21, <2>1, EnterViewFacts
<1>24. /\ c \in ReplicaStates /\ c.view = 1 /\ c.status = "NORMAL" /\ c.prepareOKs = {}
       /\ c.log = u.log /\ c.lastOp = u.lastOp
       /\ \/ c.lastCommitted = a
          \/ a < m.lastCommitted /\ c.lastCommitted = Min({m.lastCommitted, Len(u.log)})
  <2>1. CASE latest = {}
    BY <1>6, <1>23, <2>1
  <2>2. CASE latest # {}
    <3>1. PICK z : z = m.lastCommitted
      OBVIOUS
    <3>2. z \in Nat /\ c = CommitUpTo(e, z)
      BY <1>6, <1>11, <2>2, <3>1
    <3>3. /\ c \in ReplicaStates
          /\ c.view = e.view /\ c.status = e.status /\ c.log = e.log
          /\ c.lastOp = e.lastOp /\ c.prepareOKs = e.prepareOKs
          /\ \/ c = e
             \/ e.lastCommitted < z /\ c.lastCommitted = Min({z, Len(e.log)})
      BY <1>23, <3>2, CommitUpToAny
    <3>. QED BY <1>23, <3>1, <3>3
  <2>. QED BY <2>1, <2>2
<1>25. PICK w, z, y : w = Len(b.log) /\ z = Len(u.log) /\ y = m.lastCommitted
  OBVIOUS
<1>26. w \in Nat /\ z \in Nat /\ y \in Nat /\ a \in Nat /\ w <= z /\ a <= w /\ y <= w
  <2>1. z \in Nat /\ w \in Nat /\ y \in Nat /\ a \in Nat
    BY <1>11, <1>14, <1>17, <1>21, <1>25, StateFields
  <2>2. w <= z
    BY <1>18, <1>22, <1>25
  <2>3. a <= w
    <3>1. PICK i : i = Len(rep[1].log)
      OBVIOUS
    <3>2. i \in Nat /\ a <= i /\ i <= w
      BY <1>14, <1>16, <1>25, <3>1
    <3>. QED BY <2>1, <3>2
  <2>4. y <= w
    <3>1. PICK h, g : h = rep[x].lastCommitted /\ g = Len(rep[x].log)
      OBVIOUS
    <3>2. h \in Nat /\ g \in Nat /\ y <= h /\ h <= g /\ g <= w
      BY <1>13, <1>14, <1>16, <1>25, <3>1
    <3>. QED BY <2>1, <3>2
  <2>. QED BY <2>1, <2>2, <2>3, <2>4
<1>27. /\ a <= c.lastCommitted /\ c.lastCommitted <= w
       /\ c.lastCommitted = a \/ c.lastCommitted = y
  <2>1. CASE c.lastCommitted = a
    BY <1>26, <2>1
  <2>2. CASE a < y /\ c.lastCommitted = Min({y, z})
    <3>1. y <= z
      BY <1>26
    <3>2. c.lastCommitted = y
      BY <1>26, <2>2, <3>1, MinOfTwo
    <3>. QED BY <1>26, <2>2, <3>2
  <2>. QED BY <1>24, <1>25, <2>1, <2>2
<1>28. \A j \in 1 .. w : HasEntry(rep[0], j, c.log[j])
  BY <1>16, <1>18, <1>22, <1>24, <1>25
<1>29. TakesLog(c, x, w)
  <2>1. Len(c.log) = z
    BY <1>24, <1>25
  <2>2. \A j \in w + 1 .. z : c.log[j].view = 1
    BY <1>18, <1>22, <1>24, <1>25
  <2>. QED BY <1>12, <1>13, <1>16, <1>25, <1>26, <1>27, <1>28, <2>1, <2>2 DEF TakesLog
<1>30. ASSUME NEW j \in 1 .. c.lastCommitted
       PROVE  Chosen(j, c.log[j])
  <2>1. j \in 1 .. w
    BY <1>24, <1>26, <1>27, StateFields
  <2>2. j \in 1 .. rep[1].lastCommitted \/ j \in 1 .. rep[x].lastCommitted
    <3>1. PICK h, i : h = rep[x].lastCommitted /\ i = c.lastCommitted
      OBVIOUS
    <3>2. /\ h \in Nat /\ y \in Nat /\ a \in Nat /\ y <= h /\ (i = a \/ i = y)
      BY <1>13, <1>14, <1>25, <1>26, <1>27, <3>1
    <3>3. j \in 1 .. i
      BY <1>30, <3>1
    <3>4. j \in 1 .. a \/ j \in 1 .. h
      BY <3>2, <3>3
    <3>. QED BY <1>12, <3>1, <3>4
  <2>3. PICK d : d = c.log[j]
    OBVIOUS
  <2>4. HasEntry(rep[0], j, d)
    BY <1>28, <2>1, <2>3
  <2>5. Chosen(j, d)
    BY <1>13, <2>2, <2>4, ExecutedChosen
  <2>. QED BY <2>3, <2>5
<1>31. \A d \in sent : Starts(c, d)
  <2>1. n \in Nat
    BY <1>7, MinOfTwo
  <2>2. \A d \in StartViewMessages(c, 1, n) : Starts(c, d)
    BY <1>24, <2>1, StartViewMessagesStart
  <2>3. \A d \in joining : Starts(c, d)
    BY DEF Starts
  <2>. QED BY <1>8, <2>2, <2>3
<1>32. Moved(1, c, sent)
  BY <1>10, <1>24 DEF Moved, Become, Network
<1>33. c.lastOp = Len(c.log)
  BY <1>22, <1>24
<1>34. TakesOver(1, c, sent)
  BY <1>13, <1>24, <1>26, <1>29, <1>30, <1>31, <1>32, <1>33 DEF TakesOver
<1>. QED BY <1>34 DEF DoesTakeOver

\* One DOVIEWCHANGE is a quorum of three, with the leader.
LEMMA VotesEnough ==
    ASSUME F = 1, Typed, NoVotes, NEW r \in Replicas, Running(r), NEW m, m.type = "DoViewChange",
           HandleDoViewChange(r, m)
    PROVE  /\ OfType(Ballots(r, m), "DoViewChange") = {m}
           /\ Concerns(m, rep[r])
           /\ BecomeLeader(r, Joined(rep[r], m), m, Ballots(r, m), JoiningMessages(rep[r], r, m))
<1>1. PICK dvcs : dvcs = OfType(Ballots(r, m), "DoViewChange")
  OBVIOUS
<1>2. dvcs = {m}
  BY <1>1 DEF Ballots, OfType, NoVotes
<1>3. Cardinality(dvcs) = 1 /\ QuorumSize = 2
  BY <1>2, FS_Singleton, ThreeReplicas
<1>4. ~ (Cardinality(dvcs) < QuorumSize - 1)
  BY <1>3
<1>. QED BY <1>1, <1>2, <1>4 DEF HandleDoViewChange

\* A DOVIEWCHANGE: one is enough for the leader of view 1 to enter the view, or to fail.
LEMMA DoViewChangeTakes ==
    ASSUME F = 1, ViewstampInv, FirstChange, NoVotes, NEW r \in Replicas, ReceiveDoViewChange(r)
    PROVE  DoesTakeOver(r) \/ \E t, sent : Joins(r, t, sent)
<1>1. /\ Typed /\ rep[r] \in ReplicaStates /\ ~rep[r].aborted /\ 1 \in Replicas
      /\ Running(r)
  BY TypedReplica, ThreeReplicas
     DEF ViewstampInv, ViewChangeTyped, ReceiveDoViewChange, Idle, Running
<1>2. PICK m \in Received(r, "DoViewChange") : HandleDoViewChange(r, m)
  BY DEF ReceiveDoViewChange
<1>3. /\ m \in ViewChangeMessages /\ m \in msgs /\ m.type = "DoViewChange" /\ m.to = r
      /\ Located(m) /\ m.view \in Views
  BY <1>1, <1>2, ChangeMessages
<1>4. DoViewChangeHolds(m) /\ m.view = 1
  BY <1>3 DEF FirstChange, MessagesHold, MessageHolds, DoViewChangeHolds
<1>5. r = 1
  BY <1>3, <1>4, ThreeReplicas DEF Located
<1>6. PICK s, votes, joining :
          /\ s = Joined(rep[r], m) /\ votes = Ballots(r, m)
          /\ joining = JoiningMessages(rep[r], r, m)
  OBVIOUS
<1>7. PICK dvcs, svcs : /\ dvcs = OfType(votes, "DoViewChange")
                        /\ svcs = OfType(votes, "StartViewChange")
  OBVIOUS
<1>8. dvcs = {m}
  BY <1>1, <1>2, <1>3, <1>6, <1>7, VotesEnough
<1>9. Concerns(m, rep[r]) /\ BecomeLeader(r, s, m, votes, joining)
  BY <1>1, <1>2, <1>3, <1>6, VotesEnough
<1>10. ~Changed(1)
  BY <1>4, <1>5, <1>9 DEF Concerns, Changed
<1>11. /\ s \in ReplicaStates /\ s.view = 1 /\ s.status = "VIEW_CHANGE"
       /\ s.log = rep[r].log /\ s.lastOp = rep[r].lastOp
       /\ s.lastCommitted = rep[r].lastCommitted /\ s.prepareOKs = rep[r].prepareOKs
       /\ s.aborted = rep[r].aborted
       /\ (s.view = rep[r].view /\ s.status = rep[r].status) \/ s.view > rep[r].view
       /\ \A x \in joining : x.type = "StartViewChange"
  BY <1>1, <1>3, <1>4, <1>6, <1>9, JoinedKinds
<1>12. \A x \in joining : x \in ViewChangeMessages /\ x.type = "StartViewChange"
  BY <1>1, <1>3, <1>6, <1>9, JoinedFacts
<1>13. ASSUME Become(r, Abort(s)), Network({m}, joining)
       PROVE  \E t, sent : Joins(r, t, sent)
  <2>1. PICK t, gone : t = Abort(s) /\ gone = {m}
    OBVIOUS
  <2>2. Like(s, t)
    BY <1>11, <2>1, LikeAbort
  <2>3. Become(r, t) /\ Network(gone, joining)
    BY <1>13, <2>1
  <2>4. Joins(r, t, joining)
    BY <1>1, <1>11, <2>2, <2>3, JoinsAborted
  <2>. QED BY <2>4
<1>. DEFINE latest == LatestMsg(s.log, dvcs)
            newest == IF latest = {} THEN <<LastEntryView(s.log), Len(s.log)>>
                      ELSE Viewstamp(CHOOSE x \in latest : TRUE)
            equals == {x \in dvcs : x.lastNormalView = newest[1]}
            logs   == MergeLogs(r, equals)
            voting == {r} \cup {x.from : x \in equals}
            upto   == Min({s.lastCommitted, LeastCommitted(dvcs)})
<1>14. /\ latest = LatestMsg(s.log, {m})
       /\ newest = IF latest = {} THEN <<LastEntryView(s.log), Len(s.log)>>
                   ELSE Viewstamp(CHOOSE x \in latest : TRUE)
  BY <1>8
<1>15. equals = {x \in dvcs : x.lastNormalView = newest[1]}
  OBVIOUS
<1>16. /\ logs = MergeLogs(r, equals) /\ voting = {r} \cup {x.from : x \in equals}
       /\ upto = Min({s.lastCommitted, LeastCommitted(dvcs)})
  OBVIOUS
<1>17. \/ \E x \in IF latest = {} THEN {m} ELSE ReadFrom(latest, dvcs) :
          \E merged \in MergedLogs(logs, voting) :
          \E least \in LeastSVC(svcs, upto) :
              NewLeader(r, s, m, votes, joining, latest, newest[2], upto, x, merged, least)
       \/ Become(r, Abort(s)) /\ Network({m}, joining)
  BY <1>7, <1>9, BecomeLeaderCases
<1>. HIDE DEF latest, newest, equals, logs, voting, upto
<1>18. CASE \E x \in IF latest = {} THEN {m} ELSE ReadFrom(latest, dvcs) :
            \E merged \in MergedLogs(logs, voting) :
            \E least \in LeastSVC(svcs, upto) :
                NewLeader(r, s, m, votes, joining, latest, newest[2], upto, x, merged, least)
  <2>1. PICK x \in IF latest = {} THEN {m} ELSE ReadFrom(latest, dvcs) :
             \E merged \in MergedLogs(logs, voting) :
             \E least \in LeastSVC(svcs, upto) :
                 NewLeader(r, s, m, votes, joining, latest, newest[2], upto, x, merged, least)
    BY <1>18, Zenon
  <2>2. PICK merged \in MergedLogs(logs, voting), least \in LeastSVC(svcs, upto) :
             NewLeader(r, s, m, votes, joining, latest, newest[2], upto, x, merged, least)
    BY <2>1, Zenon
  <2>3. x = m
    BY <1>8, <2>1 DEF ReadFrom
  <2>4. upto \in Nat
    <3>1. m.lastCommitted \in Nat /\ s.lastCommitted \in Nat /\ dvcs # {}
          /\ dvcs \subseteq ViewChangeMessages /\ \A y \in dvcs : y.lastCommitted \in Nat
      BY <1>3, <1>8, <1>11, StateFields, DoViewChangeFields
    <3>2. LeastCommitted(dvcs) \in Nat
      BY <3>1, LeastCommittedType
    <3>. QED BY <1>16, <3>1, <3>2, MinOfTwo
  <2>5. svcs \subseteq ViewChangeMessages
    BY <1>1, <1>3, <1>6, <1>7, BallotsFacts DEF OfType
  <2>6. least \in Nat
    BY <2>2, <2>4, <2>5, LeastSVCType
  <2>7. merged \in Seq(Requests)
    <3>1. equals \subseteq ViewChangeMessages /\ \A y \in equals : y.type = "DoViewChange"
      BY <1>3, <1>8, <1>15
    <3>2. logs \in [Replicas -> Seq(Requests)] /\ voting \in SUBSET Replicas
      BY <1>1, <1>16, <3>1, MergeInputs
    <3>. QED BY <2>2, <3>2, MergedLogsType
  <2>8. PICK k : k = newest[2]
    OBVIOUS
  <2>9. NewLeader(1, s, m, votes, joining, latest, k, upto, m, merged, least)
    BY <1>5, <2>2, <2>3, <2>8, Zenon
  <2>10. k = (IF latest = {} THEN <<LastEntryView(s.log), Len(s.log)>>
              ELSE Viewstamp(CHOOSE y \in latest : TRUE))[2]
    BY <1>14, <2>8
  <2>11. DoesTakeOver(1) \/ (Become(1, Abort(s)) /\ Network({m}, joining))
    <3>1. /\ ~rep[1].aborted /\ ~s.aborted /\ s.view = 1 /\ s.log = rep[1].log
          /\ s.lastCommitted = rep[1].lastCommitted /\ latest = LatestMsg(s.log, {m})
      BY <1>1, <1>5, <1>11, <1>14
    <3>. QED BY <1>1, <1>3, <1>4, <1>10, <1>11, <1>12, <2>4, <2>6, <2>7, <2>9, <2>10, <3>1,
                NewLeaderTakes
  <2>. QED BY <1>5, <1>13, <2>11
<1>. QED BY <1>13, <1>17, <1>18

\* The ballots after a handler that keeps no DOVIEWCHANGE, or fails.
LEMMA NoVotesAfter ==
    ASSUME Typed, NoVotes, NEW r \in Replicas, NEW t, rep' = [rep EXCEPT ![r] = t],
           NEW votes, NEW log, Settle(r, votes, log),
           t.aborted \/ \A x \in votes : x.type # "DoViewChange"
    PROVE  NoVotes'
<1>1. PICK kept : kept = IF rep'[r].status = "VIEW_CHANGE"
                         THEN {m \in votes : m.view = rep'[r].view} ELSE {}
  OBVIOUS
<1>2. ballots' = [ballots EXCEPT ![r] = kept] /\ kept \subseteq votes
  BY <1>1 DEF Settle
<1>3. /\ \A p \in Replicas : rep'[p] = IF p = r THEN t ELSE rep[p]
      /\ \A p \in Replicas : ballots'[p] = IF p = r THEN kept ELSE ballots[p]
  BY <1>2 DEF Typed
<1>4. ASSUME NEW p \in Replicas, ~rep'[p].aborted, NEW m \in ballots'[p]
      PROVE  m.type # "DoViewChange"
  <2>1. CASE p = r
    BY <1>2, <1>3, <1>4, <2>1
  <2>2. CASE p # r
    BY <1>3, <1>4, <2>2 DEF NoVotes, Running
  <2>. QED BY <2>1, <2>2
<1>. QED BY <1>4 DEF NoVotes, Running

\* A new leader clears the ballots.
LEMMA LeaderSettles ==
    ASSUME NEW r, NEW s \in ReplicaStates, NEW m, NEW votes, NEW joining,
           BecomeLeader(r, s, m, votes, joining)
    PROVE  \E t, vs, log : /\ Become(r, t) /\ Settle(r, vs, log)
                           /\ t.aborted \/ vs = {}
<1>1. ASSUME Become(r, Abort(s)), Settle(r, votes, dur[r])
      PROVE  \E t, vs, log : /\ Become(r, t) /\ Settle(r, vs, log)
                             /\ t.aborted \/ vs = {}
  <2>1. PICK t : t = Abort(s)
    OBVIOUS
  <2>2. t.aborted
    BY <2>1, LikeAbort
  <2>3. Become(r, t) /\ Settle(r, votes, dur[r]) /\ (t.aborted \/ votes = {})
    BY <1>1, <2>1, <2>2
  <2>. QED BY <2>3, Zenon
<1>2. ASSUME NEW latest, NEW k, NEW upto, NEW x, NEW merged, NEW least,
             NewLeader(r, s, m, votes, joining, latest, k, upto, x, merged, least)
      PROVE  \E t, vs, log : /\ Become(r, t) /\ Settle(r, vs, log)
                             /\ t.aborted \/ vs = {}
  <2>1. \/ Become(r, Abort(s)) /\ Settle(r, votes, dur[r])
        \/ \E c : Become(r, c) /\ Settle(r, {}, merged)
    BY <1>2, Zenon DEF NewLeader
  <2>2. CASE \E c : Become(r, c) /\ Settle(r, {}, merged)
    BY <2>2, Zenon
  <2>. QED BY <1>1, <2>1, <2>2
<1>3. \/ \E latest, k, upto, x, merged, least :
             NewLeader(r, s, m, votes, joining, latest, k, upto, x, merged, least)
      \/ Become(r, Abort(s)) /\ Settle(r, votes, dur[r])
  BY BecomeLeaderCases, Zenon
<1>. QED BY <1>1, <1>2, <1>3

\* No replica keeps a DOVIEWCHANGE.
LEMMA NoVotesKept ==
    ASSUME F = 1, Typed, NoVotes, NEW r \in Replicas, ViewChangeStep(r)
    PROVE  NoVotes'
<1>1. ASSUME UNCHANGED ballots, Running(r), NEW t, rep' = [rep EXCEPT ![r] = t]
      PROVE  NoVotes'
  BY <1>1 DEF NoVotes, Running, Typed
<1>2. CASE NormalStep(r)
  <2>1. DoesHandle(r) /\ Settled(r)
    BY <1>2, NormalStepHandles
  <2>2. PICK t : rep' = [rep EXCEPT ![r] = t] /\ ~rep[r].aborted
    BY <2>1 DEF DoesHandle, Handles
  <2>3. \A x \in ballots[r] : x.type # "DoViewChange"
    BY <2>2 DEF NoVotes, Running
  <2>. QED BY <2>1, <2>2, <2>3, NoVotesAfter DEF Settled
<1>3. CASE \E q \in Requests : HandleUpdate(r, q)
  <2>1. DoesHandle(r) /\ UNCHANGED ballots
    BY <1>3, HandlesUpdate
  <2>. QED BY <1>1, <2>1 DEF DoesHandle, Handles, Running
<1>4. CASE StatusUpdateArrives(r)
  BY <1>4 DEF StatusUpdateArrives, vars, NoVotes, Running
<1>5. CASE ViewChangeTimeout(r)
  <2>1. PICK t : Become(r, t) /\ Settle(r, {}, dur[r])
    BY <1>5 DEF ViewChangeTimeout
  <2>2. PICK votes, log : votes = {} /\ log = dur[r]
    OBVIOUS
  <2>3. rep' = [rep EXCEPT ![r] = t] /\ Settle(r, votes, log)
    BY <2>1, <2>2 DEF Become
  <2>4. \A x \in votes : x.type # "DoViewChange"
    BY <2>2
  <2>. QED BY <2>3, <2>4, NoVotesAfter
<1>6. CASE ReceiveStartViewChange(r)
  <2>1. PICK m \in Received(r, "StartViewChange") : HandleStartViewChange(r, m)
    BY <1>6 DEF ReceiveStartViewChange
  <2>2. PICK t : Become(r, t) /\ Settle(r, Ballots(r, m), dur[r])
    BY <2>1 DEF HandleStartViewChange
  <2>3. \A x \in Ballots(r, m) : x.type # "DoViewChange"
    BY <1>6, <2>1 DEF Ballots, Received, NoVotes, ReceiveStartViewChange, Idle
  <2>. QED BY <2>2, <2>3, NoVotesAfter DEF Become
<1>7. CASE ReceiveDoViewChange(r)
  <2>1. PICK m \in Received(r, "DoViewChange") : HandleDoViewChange(r, m)
    BY <1>7 DEF ReceiveDoViewChange
  <2>2. /\ Running(r) /\ rep[r] \in ReplicaStates
        /\ m.type = "DoViewChange" /\ m.view \in Views
    BY <1>7, <2>1, TypedReplica, ChangeMessages DEF ReceiveDoViewChange, Idle
  <2>3. PICK s, votes, joining : /\ s = Joined(rep[r], m) /\ votes = Ballots(r, m)
                                 /\ joining = JoiningMessages(rep[r], r, m)
    OBVIOUS
  <2>4. Concerns(m, rep[r]) /\ BecomeLeader(r, s, m, votes, joining)
    BY <2>1, <2>2, <2>3, VotesEnough
  <2>5. s \in ReplicaStates
    BY <2>2, <2>3, <2>4, JoinedFacts
  <2>6. PICK t, vs, log : Become(r, t) /\ Settle(r, vs, log) /\ (t.aborted \/ vs = {})
    BY <2>4, <2>5, LeaderSettles
  <2>. QED BY <2>6, NoVotesAfter DEF Become
<1>8. CASE ReceiveStartView(r)
  <2>1. PICK m : HandleStartView(r, m)
    BY <1>8 DEF ReceiveStartView
  <2>2. PICK t : Become(r, t) /\ Settle(r, {}, dur[r])
    BY <2>1 DEF HandleStartView
  <2>3. PICK votes, log : votes = {} /\ log = dur[r]
    OBVIOUS
  <2>4. rep' = [rep EXCEPT ![r] = t] /\ Settle(r, votes, log)
    BY <2>2, <2>3 DEF Become
  <2>5. \A x \in votes : x.type # "DoViewChange"
    BY <2>3
  <2>. QED BY <2>4, <2>5, NoVotesAfter
<1>. QED BY <1>2, <1>3, <1>4, <1>5, <1>6, <1>7, <1>8 DEF ViewChangeStep

\* A step of the first view change.
LEMMA StepKinds ==
    ASSUME F = 1, MaxView <= 1, TransferBound = 0, ViewstampInv, FirstChange, NoVotes,
           ViewsBounded', NEW r \in Replicas, ViewChangeStep(r)
    PROVE  UNCHANGED vars \/ DoesProceed(r) \/ DoesTakeOver(r) \/ DoesEnter(r)
<1>1. Typed
  BY DEF ViewstampInv, ViewChangeTyped
<1>2. ASSUME DoesHandle(r)
      PROVE  DoesProceed(r)
  BY <1>2, HandlesProceeds DEF DoesHandle, DoesProceed
<1>3. ASSUME \E t, sent : Joins(r, t, sent)
      PROVE  DoesProceed(r)
  BY <1>3, JoinsProceeds DEF DoesProceed
<1>4. CASE NormalStep(r)
  BY <1>1, <1>2, <1>4, NormalStepHandles
<1>5. CASE \E q \in Requests : HandleUpdate(r, q)
  BY <1>1, <1>2, <1>5, HandlesUpdate
<1>6. CASE StatusUpdateArrives(r)
  BY <1>1, <1>6, TellsStatus
<1>7. CASE ViewChangeTimeout(r)
  BY <1>1, <1>3, <1>7, TimeoutJoins
<1>8. CASE ReceiveStartViewChange(r)
  BY <1>1, <1>3, <1>8, StartViewChangeJoins
<1>9. CASE ReceiveDoViewChange(r)
  BY <1>3, <1>9, DoViewChangeTakes
<1>10. CASE ReceiveStartView(r)
  BY <1>3, <1>10, StartViewEnters
<1>. QED BY <1>4, <1>5, <1>6, <1>7, <1>8, <1>9, <1>10 DEF ViewChangeStep

\* Nothing new is held but what replica r has ordered as a leader.
NewlyHeld(r, t) ==
    \A k \in Nat : \A e \in Entries : Held(k, e)' => Held(k, e) \/ Adds(r, t, k, e)

\* That is so of every step.
LEMMA StepHolds ==
    ASSUME MaxView <= 1, ViewstampInv, NEW r \in Replicas, ViewChangeStep(r)
    PROVE  NewlyHeld(r, rep'[r])
<1>1. Typed
  BY DEF ViewstampInv, ViewChangeTyped
<1>2. (DoesHandle(r) \/ DoesChange(r) \/ UNCHANGED vars) /\ BallotsReceived
  BY <1>1, StepCases
<1>3. ASSUME NEW t, Extends(r, t)
      PROVE  NewlyHeld(r, rep'[r])
  <2>1. rep'[r] = t
    BY <1>1, <1>3 DEF Extends, Typed
  <2>. QED BY <1>3, <2>1 DEF Extends, NewlyHeld
<1>4. CASE DoesHandle(r)
  BY <1>1, <1>2, <1>3, <1>4, HandlesExtends DEF DoesHandle
<1>5. CASE DoesChange(r)
  BY <1>1, <1>2, <1>3, <1>5, ChangesExtends DEF DoesChange
<1>6. CASE UNCHANGED vars
  BY <1>2, <1>6, HeldBefore DEF NewlyHeld
<1>. QED BY <1>2, <1>4, <1>5, <1>6

-------------------------------------------------------------------------------
(* Steps that enter no view                                                *)

\* What happens to a replica, that of the step or another, when none enters a view.
Continues(p) ==
    LET s == rep[p]
        t == rep'[p]
    IN  /\ t \in ReplicaStates /\ GrowsTo(s, t)
        /\ Len(s.log) \in Nat /\ Len(t.log) \in Nat /\ Len(s.log) <= Len(t.log)
        /\ \A j \in 1 .. Len(s.log) : t.log[j] = s.log[j]
        /\ s.lastOp <= t.lastOp /\ s.lastCommitted <= t.lastCommitted
        /\ \/ t.view = s.view /\ t.status = s.status
           \/ t.view = 1 /\ t.status = "VIEW_CHANGE" /\ ~Changed(p)
        /\ Executes(s, t)

\* Every replica goes on so.
LEMMA ProceedsFacts ==
    ASSUME F = 1, ViewstampInv, FirstChange, NEW r \in Replicas, NEW t, NEW sent,
           Proceeds(r, t, sent)
    PROVE  /\ rep'[r] = t /\ \A p \in Replicas : p # r => rep'[p] = rep[p]
           /\ \A p \in Replicas : Continues(p) /\ (Changed(p)' <=> Changed(p))
           /\ Phases'
<1>1. /\ t \in ReplicaStates /\ rep' = [rep EXCEPT ![r] = t]
      /\ \/ t.view = rep[r].view /\ t.status = rep[r].status
         \/ t.view = 1 /\ t.status = "VIEW_CHANGE" /\ ~Changed(r)
      /\ GrowsTo(rep[r], t) /\ Executes(rep[r], t)
  BY DEF Proceeds, Moved
<1>2. rep'[r] = t /\ \A p \in Replicas : p # r => rep'[p] = rep[p]
  BY <1>1 DEF ViewstampInv, ViewChangeTyped, Typed
<1>3. ASSUME NEW s \in ReplicaStates, NEW u \in ReplicaStates, GrowsTo(s, u), Executes(s, u)
      PROVE  /\ Len(s.log) \in Nat /\ Len(u.log) \in Nat /\ Len(s.log) <= Len(u.log)
             /\ \A j \in 1 .. Len(s.log) : u.log[j] = s.log[j]
             /\ s.lastOp <= u.lastOp /\ s.lastCommitted <= u.lastCommitted
  <2>1. /\ Len(s.log) \in Nat /\ Len(u.log) \in Nat /\ s.lastOp \in Nat /\ u.lastOp \in Nat
    BY <1>3, StateFields
  <2>2. s.lastCommitted <= u.lastCommitted
    BY <1>3 DEF Executes
  <2>. QED BY <1>3, <2>1, <2>2 DEF GrowsTo
<1>4. ASSUME NEW p \in Replicas
      PROVE  Continues(p)
  <2>1. rep[p] \in ReplicaStates
    BY TypedReplica DEF ViewstampInv, ViewChangeTyped
  <2>2. CASE p = r
    <3>1. PICK s : s = rep[p]
      OBVIOUS
    <3>2. s \in ReplicaStates /\ t \in ReplicaStates /\ GrowsTo(s, t) /\ Executes(s, t)
      BY <1>1, <2>1, <2>2, <3>1
    <3>3. /\ Len(s.log) \in Nat /\ Len(t.log) \in Nat /\ Len(s.log) <= Len(t.log)
          /\ \A j \in 1 .. Len(s.log) : t.log[j] = s.log[j]
          /\ s.lastOp <= t.lastOp /\ s.lastCommitted <= t.lastCommitted
      BY <1>3, <3>2
    <3>. QED BY <1>1, <1>2, <2>2, <3>1, <3>2, <3>3 DEF Continues
  <2>3. CASE p # r
    <3>1. PICK s : s = rep[p]
      OBVIOUS
    <3>2. /\ s \in ReplicaStates /\ rep'[p] = s /\ Len(s.log) \in Nat
          /\ s.lastOp \in Nat /\ s.lastCommitted \in Nat
      BY <1>2, <2>1, <2>3, <3>1, StateFields
    <3>3. GrowsTo(s, s) /\ Executes(s, s)
      BY <3>2 DEF GrowsTo, Executes
    <3>. QED BY <3>1, <3>2, <3>3 DEF Continues
  <2>. QED BY <2>2, <2>3
<1>5. ASSUME NEW p \in Replicas
      PROVE  Changed(p)' <=> Changed(p)
  BY <1>4 DEF Continues, Changed
<1>6. Phases'
  <2>. SUFFICES ASSUME NEW p \in Replicas
                PROVE  /\ \/ rep'[p].view = 0 /\ rep'[p].status = "NORMAL"
                          \/ rep'[p].view = 1 /\ rep'[p].status \in {"NORMAL", "VIEW_CHANGE"}
                       /\ Changed(p)' => Changed(1)'
    BY DEF Phases
  <2>1. 1 \in Replicas
    BY ThreeReplicas
  <2>. QED BY <1>4, <1>5, <2>1 DEF Continues, FirstChange, Phases
<1>. QED BY <1>2, <1>4, <1>5, <1>6

\* Logs grow, and what is chosen stays.
LEMMA ProceedsChosen ==
    ASSUME F = 1, \A p \in Replicas : Continues(p) /\ (Changed(p)' <=> Changed(p)),
           NEW k, NEW e
    PROVE  /\ \A p \in Replicas : HasEntry(rep[p], k, e) => HasEntry(rep'[p], k, e)
           /\ Chosen(k, e) => Chosen(k, e)'
<1>1. ASSUME NEW p \in Replicas, HasEntry(rep[p], k, e)
      PROVE  HasEntry(rep'[p], k, e)
  BY <1>1 DEF HasEntry, Continues
<1>2. ASSUME Chosen(k, e)
      PROVE  Chosen(k, e)'
  <2>1. PICK x : x = IF Changed(1) THEN 1 ELSE 0
    OBVIOUS
  <2>2. x \in Replicas /\ x = IF Changed(1)' THEN 1 ELSE 0
    BY <2>1, ThreeReplicas
  <2>3. HasEntry(rep[x], k, e) /\ \E q \in Replicas \ {x} : HasEntry(rep[q], k, e)
    BY <1>2, <2>1 DEF Chosen
  <2>4. HasEntry(rep'[x], k, e) /\ \E q \in Replicas \ {x} : HasEntry(rep'[q], k, e)
    BY <1>1, <2>2, <2>3
  <2>. QED BY <2>2, <2>4 DEF Chosen, HasEntry
<1>. QED BY <1>1, <1>2

\* The logs of replicas that have not entered view 1, and what leaders hold.
LEMMA ProceedsOld ==
    ASSUME F = 1, ViewstampInv, FirstChange, NEW r \in Replicas, NEW t, NEW sent,
           Proceeds(r, t, sent), NewlyHeld(r, t)
    PROVE  OldLogs' /\ OwnersHold' /\ LeftBehind'
<1>1. /\ rep'[r] = t /\ \A p \in Replicas : p # r => rep'[p] = rep[p]
      /\ \A p \in Replicas : Continues(p) /\ (Changed(p)' <=> Changed(p))
      /\ Phases' /\ Phases /\ OldLogs /\ OwnersHold /\ LeftBehind
  BY ProceedsFacts DEF FirstChange
<1>2. 0 \in Replicas /\ 1 \in Replicas /\ GetLeaderIndex(0) = 0 /\ GetLeaderIndex(1) = 1
  BY ThreeReplicas
<1>3. ASSUME NEW p \in Replicas, ~Changed(p)
      PROVE  rep'[p].lastOp = Len(rep'[p].log) /\ FirstViewLog(rep'[p].log)
  <2>1. PICK s, u : s = rep[p] /\ u = rep'[p]
    OBVIOUS
  <2>2. /\ s.lastOp = Len(s.log) /\ FirstViewLog(s.log) /\ GrowsTo(s, u)
        /\ Len(s.log) \in Nat /\ Len(u.log) \in Nat
        /\ s.status = "NORMAL" => s.view = 0
    BY <1>1, <1>3, <2>1 DEF OldLogs, Continues, Phases, Changed
  <2>3. CASE u.log = s.log /\ u.lastOp = s.lastOp
    BY <2>1, <2>2, <2>3
  <2>4. CASE /\ s.status = "NORMAL" /\ u.lastOp = Len(u.log) /\ Len(s.log) <= Len(u.log)
             /\ \A j \in 1 .. Len(s.log) : u.log[j] = s.log[j]
             /\ \A j \in Len(s.log) + 1 .. Len(u.log) : u.log[j].view = s.view
    <3>1. \A j \in 1 .. Len(u.log) : j \in 1 .. Len(s.log) \/ j \in Len(s.log) + 1 .. Len(u.log)
      BY <2>2
    <3>2. FirstViewLog(u.log)
      BY <2>2, <2>4, <3>1 DEF FirstViewLog
    <3>. QED BY <2>1, <2>4, <3>2
  <2>. QED BY <2>2, <2>3, <2>4 DEF GrowsTo
<1>4. OldLogs'
  BY <1>1, <1>3 DEF OldLogs, FirstViewLog
<1>5. ASSUME NEW k \in Nat, NEW e \in Entries, Held(k, e)'
      PROVE  /\ e.view = 0 /\ ~Changed(0) => HasEntry(rep'[0], k, e)
             /\ e.view = 1 /\ Changed(1) => HasEntry(rep'[1], k, e)
  <2>1. CASE Held(k, e)
    BY <1>1, <1>2, <2>1, ProceedsChosen DEF OwnersHold
  <2>2. CASE Adds(r, t, k, e)
    BY <1>1, <1>2, <2>2 DEF Adds, AmLeader
  <2>. QED BY <1>5, <2>1, <2>2 DEF NewlyHeld
<1>6. OwnersHold'
  BY <1>1, <1>2, <1>5 DEF OwnersHold, HasEntry
<1>7. LeftBehind'
  BY <1>1, <1>2 DEF LeftBehind, Continues
<1>. QED BY <1>4, <1>6, <1>7

\* The logs of replicas that have entered view 1, and what is executed.
LEMMA ProceedsNew ==
    ASSUME F = 1, ViewstampInv, FirstChange, NEW r \in Replicas, NEW t, NEW sent,
           Proceeds(r, t, sent), NewlyHeld(r, t)
    PROVE  NewLogs' /\ CommittedChosen'
<1>1. /\ \A p \in Replicas : Continues(p) /\ (Changed(p)' <=> Changed(p))
      /\ Phases /\ NewLogs /\ CommittedChosen /\ OwnersHold'
  BY ProceedsFacts, ProceedsOld DEF FirstChange
<1>2. 1 \in Replicas
  BY ThreeReplicas
<1>3. PICK l, m : l = rep[1].log /\ m = rep'[1].log
  OBVIOUS
<1>4. /\ Len(l) \in Nat /\ Len(m) \in Nat /\ Len(l) <= Len(m)
      /\ \A j \in 1 .. Len(l) : m[j] = l[j]
  BY <1>1, <1>2, <1>3 DEF Continues
<1>5. ASSUME Changed(1)
      PROVE  rep'[1].lastOp = Len(m) /\ ByView(m)
  <2>1. rep[1].lastOp = Len(l) /\ ByView(l) /\ rep[1].view = 1 /\ GrowsTo(rep[1], rep'[1])
    BY <1>1, <1>2, <1>3, <1>5 DEF NewLogs, Changed, Continues
  <2>2. CASE m = l /\ rep'[1].lastOp = rep[1].lastOp
    BY <2>1, <2>2
  <2>3. CASE /\ rep'[1].lastOp = Len(m)
             /\ \A j \in Len(l) + 1 .. Len(m) : m[j].view = 1
    <3>1. \A j \in 1 .. Len(l) : l[j].view \in {0, 1}
      <4>. SUFFICES ASSUME NEW j \in 1 .. Len(l)
                    PROVE  l[j].view \in {0, 1}
        OBVIOUS
      <4>1. HasEntry(rep[1], j, l[j])
        BY <1>3 DEF HasEntry
      <4>. QED BY <1>1, <1>2, <4>1, EntryView
    <3>2. \A i, j \in 1 .. Len(m) : i < j => m[i].view <= m[j].view
      <4>. SUFFICES ASSUME NEW i \in 1 .. Len(m), NEW j \in 1 .. Len(m), i < j
                    PROVE  m[i].view <= m[j].view
        OBVIOUS
      <4>1. CASE j \in 1 .. Len(l)
        <5>1. i \in 1 .. Len(l)
          BY <1>4, <4>1
        <5>. QED BY <1>4, <2>1, <4>1, <5>1 DEF ByView
      <4>2. CASE j \notin 1 .. Len(l)
        <5>1. m[j].view = 1
          BY <1>4, <2>3, <4>2
        <5>2. m[i].view \in {0, 1}
          BY <1>4, <2>3, <3>1
        <5>. QED BY <5>1, <5>2
      <4>. QED BY <4>1, <4>2
    <3>. QED BY <2>3, <3>2 DEF ByView
  <2>. QED BY <1>3, <2>1, <2>2, <2>3 DEF GrowsTo
<1>6. ASSUME NEW p \in Replicas, Changed(p)
      PROVE  FollowsNew(rep'[p], m)
  <2>1. PICK s, u : s = rep[p] /\ u = rep'[p]
    OBVIOUS
  <2>2. /\ s \in ReplicaStates /\ u \in ReplicaStates /\ FollowsNew(s, l) /\ GrowsTo(s, u)
        /\ Executes(s, u) /\ s.view = 1 /\ Changed(1)
        /\ Len(s.log) \in Nat /\ Len(u.log) \in Nat /\ s.lastOp \in Nat /\ u.lastOp \in Nat
        /\ s.lastOp <= u.lastOp
    BY <1>1, <1>3, <1>6, <2>1, TypedReplica, StateFields
       DEF NewLogs, Continues, Changed, Phases, ViewstampInv, ViewChangeTyped
  <2>3. u.lastCommitted <= u.lastOp
    <3>1. s.lastCommitted <= s.lastOp /\ s.lastCommitted \in Nat /\ u.lastCommitted \in Nat
      BY <2>2, StateFields DEF FollowsNew
    <3>2. u.lastCommitted = s.lastCommitted \/ u.lastCommitted <= s.lastOp
      BY <2>2 DEF Executes
    <3>. QED BY <2>2, <3>1, <3>2
  <2>4. CASE u.log = s.log /\ u.lastOp = s.lastOp
    <3>1. \A j \in 1 .. s.lastOp : j <= Len(m) /\ s.log[j] = m[j]
      BY <1>4, <2>2 DEF FollowsNew
    <3>. QED BY <2>1, <2>2, <2>3, <2>4, <3>1 DEF FollowsNew
  <2>5. CASE /\ s.lastOp = Len(s.log) /\ u.lastOp = Len(u.log)
             /\ \A j \in 1 .. Len(s.log) : u.log[j] = s.log[j]
             /\ \A j \in Len(s.log) + 1 .. Len(u.log) : u.log[j].view = s.view
    <3>1. ASSUME NEW j \in 1 .. Len(u.log)
          PROVE  j <= Len(m) /\ u.log[j] = m[j]
      <4>1. CASE j \in 1 .. Len(s.log)
        BY <1>4, <2>2, <2>5, <4>1 DEF FollowsNew
      <4>2. CASE j \in Len(s.log) + 1 .. Len(u.log)
        <5>1. PICK e : e = u.log[j]
          OBVIOUS
        <5>2. HasEntry(u, j, e) /\ e.view = 1 /\ j \in Nat
          BY <2>2, <2>5, <4>2, <5>1 DEF HasEntry
        <5>3. e \in Entries
          BY <2>2, <5>1, StateFields, ElementOfSeq
        <5>4. Held(j, e)'
          <6>1. Stores(u, j, e)
            BY <5>2 DEF Stores
          <6>. QED BY <2>1, <6>1 DEF Held
        <5>5. HasEntry(rep'[1], j, e)
          BY <1>1, <1>2, <2>2, <5>2, <5>3, <5>4 DEF OwnersHold, HasEntry
        <5>. QED BY <1>3, <1>4, <5>1, <5>5 DEF HasEntry
      <4>. QED BY <2>2, <4>1, <4>2
    <3>. QED BY <2>1, <2>2, <2>3, <2>5, <3>1 DEF FollowsNew
  <2>. QED BY <2>2, <2>4, <2>5 DEF GrowsTo
<1>7. NewLogs'
  BY <1>1, <1>2, <1>3, <1>5, <1>6 DEF NewLogs, FollowsNew, ByView, FirstViewLog
<1>8. ASSUME NEW p \in Replicas
      PROVE  /\ rep'[p].lastCommitted <= Len(rep'[p].log)
             /\ \A k \in 1 .. rep'[p].lastCommitted : \A e : e = rep'[p].log[k] => Chosen(k, e)'
  <2>1. PICK s, u : s = rep[p] /\ u = rep'[p]
    OBVIOUS
  <2>2. /\ s \in ReplicaStates /\ u \in ReplicaStates /\ Executes(s, u)
        /\ Len(s.log) \in Nat /\ Len(u.log) \in Nat /\ Len(s.log) <= Len(u.log)
        /\ s.lastCommitted \in Nat /\ u.lastCommitted \in Nat /\ s.lastCommitted <= Len(s.log)
        /\ \A j \in 1 .. Len(s.log) : u.log[j] = s.log[j]
        /\ \A k \in 1 .. s.lastCommitted : Chosen(k, s.log[k])
    BY <1>1, <2>1, TypedReplica, StateFields
       DEF CommittedChosen, Continues, ViewstampInv, ViewChangeTyped
  <2>3. /\ u.lastCommitted <= Len(s.log)
        /\ \A k \in 1 .. u.lastCommitted : Chosen(k, s.log[k])
    BY <2>2 DEF Executes
  <2>4. ASSUME NEW k \in 1 .. u.lastCommitted, NEW e, e = u.log[k]
        PROVE  Chosen(k, e)'
    <3>1. e = s.log[k]
      <4>1. k \in 1 .. Len(s.log)
        BY <2>2, <2>3
      <4>. QED BY <2>2, <2>4, <4>1
    <3>2. Chosen(k, e)
      BY <2>3, <3>1
    <3>. QED BY <1>1, <3>2, ProceedsChosen
  <2>. QED BY <2>1, <2>2, <2>3, <2>4
<1>9. CommittedChosen'
  <2>. SUFFICES ASSUME NEW p \in Replicas
                PROVE  (/\ rep[p].lastCommitted <= Len(rep[p].log)
                        /\ \A k \in 1 .. rep[p].lastCommitted : Chosen(k, rep[p].log[k]))'
    BY DEF CommittedChosen
  <2>. SUFFICES ASSUME NEW k \in 1 .. rep'[p].lastCommitted
                PROVE  Chosen(k, rep[p].log[k])'
    BY <1>8
  <2>1. PICK e : e = rep'[p].log[k]
    OBVIOUS
  <2>2. Chosen(k, e)'
    BY <1>8, <2>1
  <2>. QED BY <2>1, <2>2 DEF Chosen
<1>. QED BY <1>7, <1>9

\* An acknowledgement is an old one, or that of the replica of the step.
LEMMA AckedBefore ==
    ASSUME F = 1, ViewstampInv, FirstChange, NEW r \in Replicas, NEW t, NEW sent,
           Proceeds(r, t, sent), NEW v, NEW k \in Nat, NEW p \in Replicas, AckedIn(v, k, p)'
    PROVE  \/ AckedIn(v, k, p)
           \/ /\ p = r /\ v = t.view /\ k <= t.lastOp
              /\ t.status = "NORMAL" /\ ~AmLeader(t, r)
<1>1. /\ rep'[r] = t /\ \A q \in Replicas : q # r => rep'[q] = rep[q]
      /\ \A q \in Replicas : Continues(q) /\ (Changed(q)' <=> Changed(q))
  BY ProceedsFacts
<1>2. /\ msgs' \subseteq msgs \cup sent /\ Records(rep[r], t)
      /\ \A m \in sent : Tells(r, t, m)
  BY DEF Proceeds, Moved
<1>3. 0 \in Replicas /\ 1 \in Replicas
  BY ThreeReplicas
<1>4. ASSUME NEW q \in Replicas, <<k, p>> \in rep'[q].prepareOKs, v = rep'[q].view
      PROVE  \/ <<k, p>> \in rep[q].prepareOKs
             \/ \E m \in msgs : /\ m \in Messages /\ m.type = "PrepareOK"
                                /\ m.view = v /\ m.opnum = k /\ m.from = p
  <2>1. CASE q = r
    BY <1>1, <1>2, <1>4, <2>1 DEF Records
  <2>2. CASE q # r
    BY <1>1, <1>4, <2>2
  <2>. QED BY <2>1, <2>2
<1>5. CASE \E m \in msgs' : /\ m \in Messages /\ m.type = "PrepareOK"
                            /\ m.view = v /\ m.opnum = k /\ m.from = p
  <2>1. PICK m \in msgs' : /\ m \in Messages /\ m.type = "PrepareOK"
                           /\ m.view = v /\ m.opnum = k /\ m.from = p
    BY <1>5
  <2>2. CASE m \in msgs
    BY <2>1, <2>2 DEF AckedIn
  <2>3. CASE m \in sent
    <3>1. Acknowledges(r, t, m)
      BY <1>2, <2>1, <2>3 DEF Tells
    <3>. QED BY <2>1, <3>1 DEF Acknowledges
  <2>. QED BY <1>2, <2>2, <2>3
<1>6. CASE v = 0 /\ rep'[0].view = 0 /\ <<k, p>> \in rep'[0].prepareOKs
  <2>1. rep[0].view = 0
    BY <1>1, <1>3, <1>6 DEF Continues
  <2>. QED BY <1>3, <1>4, <1>6, <2>1 DEF AckedIn
<1>7. CASE v = 1 /\ Changed(1)' /\ <<k, p>> \in rep'[1].prepareOKs
  <2>1. Changed(1) /\ rep'[1].view = 1
    BY <1>1, <1>3, <1>7 DEF Changed
  <2>. QED BY <1>3, <1>4, <1>7, <2>1 DEF AckedIn
<1>. QED BY <1>5, <1>6, <1>7 DEF AckedIn

\* What acknowledgements are good for.
LEMMA ProceedsAcks ==
    ASSUME F = 1, ViewstampInv, FirstChange, NEW r \in Replicas, NEW t, NEW sent,
           Proceeds(r, t, sent), NewlyHeld(r, t)
    PROVE  AcksHold'
<1>1. /\ rep'[r] = t /\ \A p \in Replicas : p # r => rep'[p] = rep[p]
      /\ \A p \in Replicas : Continues(p) /\ (Changed(p)' <=> Changed(p))
      /\ Phases' /\ OldLogs' /\ OwnersHold' /\ LeftBehind' /\ AcksHold
  BY ProceedsFacts, ProceedsOld DEF FirstChange
<1>2. 0 \in Replicas /\ 1 \in Replicas /\ GetLeaderIndex(0) = 0 /\ GetLeaderIndex(1) = 1
  BY ThreeReplicas
<1>. SUFFICES ASSUME NEW v \in Nat, NEW k \in Nat, NEW p \in Replicas, AckedIn(v, k, p)'
              PROVE  AckHolds(v, k, p)'
  BY DEF AcksHold
<1>3. CASE AckedIn(v, k, p)
  <2>1. AckHolds(v, k, p)
    BY <1>1, <1>3 DEF AcksHold
  <2>2. v = 0 /\ ~Changed(1)' => k <= Len(rep'[p].log) /\ k <= Len(rep'[0].log)
    <3>. SUFFICES ASSUME v = 0, ~Changed(1)'
                  PROVE  k <= Len(rep'[p].log) /\ k <= Len(rep'[0].log)
      OBVIOUS
    <3>1. k <= Len(rep[p].log) /\ k <= Len(rep[0].log)
      BY <1>1, <1>2, <2>1 DEF AckHolds
    <3>2. ASSUME NEW q \in Replicas, k <= Len(rep[q].log)
          PROVE  k <= Len(rep'[q].log)
      <4>1. PICK i, j : i = Len(rep[q].log) /\ j = Len(rep'[q].log)
        OBVIOUS
      <4>2. i \in Nat /\ j \in Nat /\ i <= j /\ k <= i
        BY <1>1, <3>2, <4>1 DEF Continues
      <4>3. k <= j
        BY <4>2
      <4>. QED BY <4>1, <4>3
    <3>. QED BY <1>2, <3>1, <3>2
  <2>3. v = 0 /\ Changed(1)' /\ rep'[0].view = 0 => \A j \in 1 .. k : Kept(j)'
    <3>. SUFFICES ASSUME v = 0, Changed(1)', rep'[0].view = 0, NEW j \in 1 .. k
                  PROVE  Kept(j)'
      OBVIOUS
    <3>1. Changed(1) /\ rep[0].view = 0
      BY <1>1, <1>2 DEF Continues
    <3>2. Kept(j)
      BY <2>1, <3>1 DEF AckHolds
    <3>3. PICK l, m : l = rep[1].log /\ m = rep'[1].log
      OBVIOUS
    <3>4. /\ Len(l) \in Nat /\ Len(m) \in Nat /\ Len(l) <= Len(m)
          /\ \A i \in 1 .. Len(l) : m[i] = l[i]
      BY <1>1, <1>2, <3>3 DEF Continues
    <3>5. j \in 1 .. Len(l) /\ l[j].view = 0
      BY <3>2, <3>3 DEF Kept
    <3>6. j \in 1 .. Len(m) /\ m[j].view = 0
      BY <3>4, <3>5
    <3>. QED BY <3>3, <3>6 DEF Kept
  <2>4. v = 1 => Changed(p)' /\ k <= rep'[p].lastOp
    <3>. SUFFICES ASSUME v = 1
                  PROVE  Changed(p)' /\ k <= rep'[p].lastOp
      OBVIOUS
    <3>1. Changed(p) /\ k <= rep[p].lastOp
      BY <2>1 DEF AckHolds
    <3>2. PICK i, j : i = rep[p].lastOp /\ j = rep'[p].lastOp
      OBVIOUS
    <3>3. i \in Nat /\ j \in Nat /\ i <= j
      BY <1>1, <3>2, TypedReplica, StateFields DEF Continues, ViewstampInv, ViewChangeTyped
    <3>4. k <= j
      BY <3>1, <3>2, <3>3
    <3>. QED BY <1>1, <3>1, <3>2, <3>4
  <2>5. v \in {0, 1} /\ p # v
    BY <2>1 DEF AckHolds
  <2>. QED BY <2>2, <2>3, <2>4, <2>5 DEF AckHolds, Kept
<1>4. CASE p = r /\ v = t.view /\ k <= t.lastOp /\ t.status = "NORMAL" /\ ~AmLeader(t, r)
  <2>1. /\ t \in ReplicaStates /\ Len(t.log) \in Nat /\ t.lastOp \in Nat
        /\ t.log \in Seq(Entries)
    BY <1>1, StateFields DEF Continues
  <2>2. v \in {0, 1} /\ p # v
    BY <1>1, <1>2, <1>4 DEF Phases, AmLeader
  <2>3. CASE v = 0
    <3>1. ~Changed(r)' /\ t.lastOp = Len(t.log) /\ FirstViewLog(t.log)
      <4>1. ~Changed(r)'
        BY <1>1, <1>4, <2>3 DEF Changed
      <4>. QED BY <1>1, <4>1 DEF OldLogs, FirstViewLog
    <3>2. k <= Len(t.log)
      BY <1>4, <3>1
    <3>3. ASSUME ~Changed(1)'
          PROVE  k <= Len(rep'[0].log)
      <4>1. CASE k = 0
        BY <1>1, <1>2, <4>1 DEF Continues
      <4>2. CASE k # 0
        <5>1. PICK e : e = t.log[k]
          OBVIOUS
        <5>2. HasEntry(t, k, e) /\ e \in Entries /\ e.view = 0
          BY <2>1, <3>1, <3>2, <4>2, <5>1, ElementOfSeq DEF HasEntry, FirstViewLog
        <5>3. Held(k, e)'
          <6>1. Stores(t, k, e)
            BY <5>2 DEF Stores
          <6>. QED BY <1>1, <6>1 DEF Held
        <5>4. ~Changed(0)'
          BY <1>1, <1>2, <3>3 DEF Phases
        <5>5. HasEntry(rep'[0], k, e)
          BY <1>1, <5>2, <5>3, <5>4 DEF OwnersHold, HasEntry
        <5>. QED BY <5>5 DEF HasEntry
      <4>. QED BY <4>1, <4>2
    <3>4. ASSUME Changed(1)', rep'[0].view = 0
          PROVE  FALSE
      <4>1. \A q \in Replicas \ {0} : rep'[q].view = 1
        BY <1>1, <3>4 DEF LeftBehind
      <4>2. r \in Replicas \ {0}
        BY <1>4, <2>2, <2>3
      <4>3. rep'[r].view = 1 /\ rep'[r] = t
        BY <1>1, <4>1, <4>2
      <4>4. PICK w : w = t.view
        OBVIOUS
      <4>5. w = 1 /\ w = 0
        BY <1>4, <2>3, <4>3, <4>4
      <4>. QED BY <4>5
    <3>. QED BY <1>1, <1>4, <2>2, <2>3, <3>2, <3>3, <3>4 DEF AckHolds
  <2>4. CASE v = 1
    <3>1. Changed(r)'
      BY <1>1, <1>4, <2>4 DEF Changed
    <3>. QED BY <1>1, <1>4, <2>2, <2>4, <3>1 DEF AckHolds
  <2>. QED BY <2>2, <2>3, <2>4
<1>. QED BY <1>3, <1>4, AckedBefore

\* A piece of a log is one of every log that continues it.
LEMMA PartStays ==
    ASSUME NEW l, NEW g, Len(l) \in Nat, Len(g) \in Nat, Len(l) <= Len(g),
           \A j \in 1 .. Len(l) : g[j] = l[j], NEW m, PartOf(m, l)
    PROVE  PartOf(m, g)
<1>1. PICK a, b : a = Len(l) /\ b = Len(g)
  OBVIOUS
<1>2. \A i \in 1 .. Len(m.entries) :
          m.first + i - 1 \in 1 .. a /\ m.entries[i] = l[m.first + i - 1]
  BY <1>1 DEF PartOf
<1>3. \A i \in 1 .. a : i \in 1 .. b /\ g[i] = l[i]
  BY <1>1
<1>4. m.first > 0
  BY DEF PartOf
<1>. QED BY <1>1, <1>2, <1>3, <1>4 DEF PartOf

\* The messages that were on their way.
LEMMA ProceedsOldMessages ==
    ASSUME F = 1, ViewstampInv, FirstChange, NEW r \in Replicas, NEW t, NEW sent,
           Proceeds(r, t, sent), NEW m \in msgs
    PROVE  MessageHolds(m)'
<1>1. /\ \A p \in Replicas : Continues(p) /\ (Changed(p)' <=> Changed(p))
      /\ Phases /\ MessageHolds(m)
  BY ProceedsFacts DEF FirstChange, MessagesHold
<1>2. 1 \in Replicas
  BY ThreeReplicas
<1>3. ASSUME m \in Messages, m.type = "Commit"
      PROVE  CommitHolds(m)'
  <2>1. ASSUME NEW j \in 1 .. m.opnum
        PROVE  \E e \in Entries : Chosen(j, e)' /\ (m.view = 0 => e.view = 0)
    <3>1. PICK e \in Entries : Chosen(j, e) /\ (m.view = 0 => e.view = 0)
      BY <1>1, <1>3 DEF MessageHolds, CommitHolds
    <3>2. Chosen(j, e)'
      BY <1>1, <3>1, ProceedsChosen
    <3>. QED BY <3>1, <3>2
  <2>. QED BY <2>1 DEF CommitHolds
<1>4. ASSUME m \in ViewChangeMessages, m.type = "StartView"
      PROVE  StartViewHolds(m)'
  <2>1. StartViewHolds(m) /\ m.lastOp \in Nat /\ m.lastCommitted \in Nat
    BY <1>1, <1>4 DEF MessageHolds, ViewChangeMessages
  <2>2. PICK l, g : l = rep[1].log /\ g = rep'[1].log
    OBVIOUS
  <2>3. /\ Len(l) \in Nat /\ Len(g) \in Nat /\ Len(l) <= Len(g)
        /\ \A j \in 1 .. Len(l) : g[j] = l[j]
    BY <1>1, <1>2, <2>2 DEF Continues
  <2>4. m.lastOp <= Len(l) /\ m.lastCommitted <= m.lastOp /\ PartOf(m, l) /\ Changed(1)
    BY <2>1, <2>2 DEF StartViewHolds
  <2>5. PartOf(m, g)
    BY <2>3, <2>4, PartStays
  <2>6. m.lastOp <= Len(g)
    BY <2>1, <2>3, <2>4
  <2>7. ASSUME NEW j \in 1 .. Len(g), Kept(j)'
        PROVE  j <= m.lastOp
    <3>1. g[j].view = 0
      BY <2>2, <2>7 DEF Kept
    <3>2. j \in 1 .. Len(l)
      <4>1. GrowsTo(rep[1], rep'[1]) /\ rep[1].view = 1
        BY <1>1, <1>2, <2>4 DEF Continues, Changed
      <4>2. g = l \/ \A i \in Len(l) + 1 .. Len(g) : g[i].view = 1
        BY <2>2, <4>1 DEF GrowsTo
      <4>. QED BY <2>3, <3>1, <4>2
    <3>3. Kept(j)
      BY <2>2, <2>3, <3>1, <3>2 DEF Kept
    <3>. QED BY <2>1, <2>2, <3>2, <3>3 DEF StartViewHolds
  <2>8. ASSUME NEW j \in 1 .. m.lastCommitted, NEW e, e = g[j]
        PROVE  Chosen(j, e)'
    <3>1. j \in 1 .. Len(l)
      BY <2>1, <2>3, <2>4
    <3>2. Chosen(j, e)
      BY <2>1, <2>2, <2>3, <2>8, <3>1 DEF StartViewHolds
    <3>. QED BY <1>1, <3>2, ProceedsChosen
  <2>9. ASSUME NEW j \in 1 .. m.lastCommitted
        PROVE  Chosen(j, rep[1].log[j])'
    <3>1. PICK e : e = g[j]
      OBVIOUS
    <3>2. Chosen(j, e)'
      BY <2>8, <3>1
    <3>. QED BY <2>2, <3>1, <3>2 DEF Chosen
  <2>10. /\ m.view = 1 /\ Changed(1)'
         /\ m.entries # <<>> => m.first + Len(m.entries) - 1 = m.lastOp
    BY <1>1, <1>2, <2>1 DEF StartViewHolds
  <2>. QED BY <2>2, <2>4, <2>5, <2>6, <2>7, <2>9, <2>10 DEF StartViewHolds
<1>5. ASSUME m \in ViewChangeMessages, m.type = "DoViewChange"
      PROVE  DoViewChangeHolds(m)'
  <2>1. DoViewChangeHolds(m) /\ m.from \in Replicas /\ m.lastCommitted \in Nat
    BY <1>1, <1>5, DoViewChangeFields DEF MessageHolds
  <2>2. ASSUME ~Changed(1)'
        PROVE  /\ rep'[m.from].view = 1
               /\ DumpOf(m, rep'[m.from].log) /\ m.lastNormalView = 0
               /\ m.lastCommitted <= rep'[m.from].lastCommitted
    <3>1. PICK s, u : s = rep[m.from] /\ u = rep'[m.from]
      OBVIOUS
    <3>2. /\ ~Changed(1) /\ s.view = 1 /\ DumpOf(m, s.log) /\ m.lastNormalView = 0
          /\ m.lastCommitted <= s.lastCommitted
      BY <1>1, <1>2, <2>1, <2>2, <3>1 DEF DoViewChangeHolds
    <3>3. s.status # "NORMAL"
      BY <1>1, <2>1, <3>1, <3>2 DEF Phases, Changed
    <3>4. u.log = s.log /\ u.view = 1 /\ s.lastCommitted <= u.lastCommitted
      BY <1>1, <2>1, <3>1, <3>2, <3>3 DEF Continues, GrowsTo
    <3>5. m.lastCommitted <= u.lastCommitted
      <4>1. PICK a, b, c : a = m.lastCommitted /\ b = s.lastCommitted /\ c = u.lastCommitted
        OBVIOUS
      <4>2. a \in Nat /\ b \in Nat /\ c \in Nat /\ a <= b /\ b <= c
        BY <1>1, <2>1, <3>1, <3>2, <3>4, <4>1, TypedReplica, StateFields
           DEF Continues, ViewstampInv, ViewChangeTyped
      <4>. QED BY <4>1, <4>2
    <3>. QED BY <3>1, <3>2, <3>4, <3>5
  <2>. QED BY <2>1, <2>2 DEF DoViewChangeHolds, DumpOf
<1>. QED BY <1>3, <1>4, <1>5 DEF MessageHolds

\* The messages that the step sends.
LEMMA ProceedsMessages ==
    ASSUME F = 1, ViewstampInv, FirstChange, NEW r \in Replicas, NEW t, NEW sent,
           Proceeds(r, t, sent), NewlyHeld(r, t)
    PROVE  MessagesHold'
<1>1. /\ rep'[r] = t /\ t \in ReplicaStates
      /\ Phases' /\ OldLogs' /\ CommittedChosen'
  BY ProceedsFacts, ProceedsOld, ProceedsNew DEF Proceeds, Moved
<1>2. /\ t.log \in Seq(Entries) /\ Len(t.log) \in Nat /\ t.lastCommitted \in Nat
      /\ 1 \in Replicas /\ GetLeaderIndex(1) = 1
  BY <1>1, StateFields, ThreeReplicas
<1>3. ASSUME NEW m \in sent, m \in Messages, m.type = "Commit"
      PROVE  CommitHolds(m)'
  <2>1. AmLeader(t, r) /\ m.view = t.view /\ m.opnum = t.lastCommitted
    BY <1>3 DEF Proceeds, Tells
  <2>2. ASSUME NEW j \in 1 .. t.lastCommitted
        PROVE  \E e \in Entries : Chosen(j, e)' /\ (t.view = 0 => e.view = 0)
    <3>1. PICK e : e = t.log[j]
      OBVIOUS
    <3>2. j \in 1 .. Len(t.log)
      <4>1. t.lastCommitted <= Len(t.log)
        BY <1>1 DEF CommittedChosen
      <4>. QED BY <1>2, <4>1
    <3>3. e \in Entries
      BY <1>2, <3>1, <3>2, ElementOfSeq
    <3>4. Chosen(j, e)'
      <4>1. Chosen(j, rep[r].log[j])'
        BY <1>1 DEF CommittedChosen
      <4>. QED BY <1>1, <3>1, <4>1 DEF Chosen
    <3>5. t.view = 0 => e.view = 0
      <4>. SUFFICES ASSUME t.view = 0
                    PROVE  e.view = 0
        OBVIOUS
      <4>1. ~Changed(r)'
        BY <1>1 DEF Changed
      <4>2. FirstViewLog(t.log)
        BY <1>1, <4>1 DEF OldLogs, FirstViewLog
      <4>. QED BY <3>1, <3>2, <4>2 DEF FirstViewLog
    <3>. QED BY <3>3, <3>4, <3>5
  <2>. QED BY <2>1, <2>2 DEF CommitHolds
<1>4. ASSUME NEW m \in sent, m \in ViewChangeMessages, m.type = "DoViewChange"
      PROVE  DoViewChangeHolds(m)'
  <2>1. Dumps(r, t, m)
    BY <1>4 DEF Proceeds, Tells
  <2>2. t.view = 1 /\ m.view = 1 /\ m.from = r /\ r # 1 /\ t.status = "VIEW_CHANGE"
    BY <1>1, <1>2, <2>1 DEF Dumps, Phases, AmLeader
  <2>3. ~Changed(r)'
    BY <1>1, <2>2 DEF Changed
  <2>4. t.lastOp = Len(t.log) /\ FirstViewLog(t.log)
    BY <1>1, <2>3 DEF OldLogs, FirstViewLog
  <2>5. LastEntryView(t.log) = 0
    BY <1>2, <2>4, FirstViewLast
  <2>6. DumpOf(m, t.log) /\ m.lastNormalView = 0 /\ m.lastCommitted <= t.lastCommitted
    BY <1>2, <2>1, <2>4, <2>5 DEF Dumps, DumpOf
  <2>. QED BY <1>1, <2>2, <2>6 DEF DoViewChangeHolds, DumpOf
<1>5. ASSUME NEW m \in msgs'
      PROVE  MessageHolds(m)'
  <2>1. CASE m \in msgs
    BY <2>1, ProceedsOldMessages
  <2>2. CASE m \in sent
    <3>1. m \in ViewChangeMessages => m.type # "StartView"
      BY <2>2 DEF Proceeds, Tells
    <3>. QED BY <1>3, <1>4, <2>2, <3>1 DEF MessageHolds
  <2>. QED BY <1>5, <2>1, <2>2 DEF Proceeds, Moved
<1>. QED BY <1>5 DEF MessagesHold

\* A step that enters no view keeps the invariant of the first view change.
LEMMA ProceedsKeeps ==
    ASSUME F = 1, ViewstampInv, FirstChange, NEW r \in Replicas, NEW t, NEW sent,
           Proceeds(r, t, sent), NewlyHeld(r, t)
    PROVE  FirstChange'
<1>1. Phases' /\ OldLogs' /\ OwnersHold' /\ LeftBehind'
  BY ProceedsFacts, ProceedsOld
<1>2. NewLogs' /\ CommittedChosen'
  BY ProceedsNew
<1>3. AcksHold' /\ MessagesHold'
  BY ProceedsAcks, ProceedsMessages
<1>. QED BY <1>1, <1>2, <1>3 DEF FirstChange

-------------------------------------------------------------------------------
(* The step of the new leader                                              *)

\* No replica has entered view 1 before, and only the new leader has then.
LEMMA TakesOverFacts ==
    ASSUME F = 1, ViewstampInv, FirstChange, NEW r, NEW t, NEW sent, TakesOver(r, t, sent)
    PROVE  /\ rep'[1] = t /\ \A p \in Replicas : p # 1 => rep'[p] = rep[p]
           /\ \A p \in Replicas : ~Changed(p) /\ (Changed(p)' <=> p = 1)
           /\ Phases' /\ OldLogs'
<1>1. 0 \in Replicas /\ 1 \in Replicas
  BY ThreeReplicas
<1>2. rep'[1] = t /\ \A p \in Replicas : p # 1 => rep'[p] = rep[p]
  BY <1>1 DEF TakesOver, Moved, ViewstampInv, ViewChangeTyped, Typed
<1>3. t.view = 1 /\ t.status = "NORMAL" /\ ~Changed(1) /\ Phases /\ OldLogs
  BY DEF TakesOver, FirstChange
<1>4. \A p \in Replicas : ~Changed(p)
  BY <1>3 DEF Phases
<1>5. Changed(1)' /\ \A p \in Replicas : p # 1 => ~Changed(p)'
  BY <1>2, <1>3, <1>4 DEF Changed
<1>6. Phases'
  <2>. SUFFICES ASSUME NEW p \in Replicas
                PROVE  /\ \/ rep'[p].view = 0 /\ rep'[p].status = "NORMAL"
                          \/ rep'[p].view = 1 /\ rep'[p].status \in {"NORMAL", "VIEW_CHANGE"}
                       /\ Changed(p)' => Changed(1)'
    BY DEF Phases
  <2>. QED BY <1>2, <1>3, <1>5 DEF Phases
<1>7. OldLogs'
  <2>. SUFFICES ASSUME NEW p \in Replicas, ~Changed(p)'
                PROVE  rep'[p].lastOp = Len(rep'[p].log) /\ FirstViewLog(rep'[p].log)
    BY DEF OldLogs, FirstViewLog
  <2>. QED BY <1>2, <1>3, <1>4, <1>5 DEF OldLogs
<1>. QED BY <1>2, <1>4, <1>5, <1>6, <1>7

\* The log of the new leader has what it and replica x have had, and all that is chosen.
LEMMA TakenFacts ==
    ASSUME F = 1, ViewstampInv, FirstChange, NEW t, NEW sent, TakesOver(1, t, sent),
           NEW x \in Replicas \ {1}, NEW b \in Nat, TakesLog(t, x, b)
    PROVE  /\ t \in ReplicaStates /\ t.log \in Seq(Entries) /\ Len(t.log) \in Nat
           /\ t.lastCommitted \in Nat /\ t.lastCommitted <= b /\ b <= Len(t.log)
           /\ \A j \in 1 .. b : t.log[j].view = 0
           /\ \A j \in b + 1 .. Len(t.log) : t.log[j].view = 1
           /\ \A p \in {1, x} : \A k, e :
                  HasEntry(rep[p], k, e) => k <= b /\ HasEntry(t, k, e)
           /\ \A k, e : Chosen(k, e) => HasEntry(t, k, e) /\ Chosen(k, e)'
<1>1. /\ t \in ReplicaStates /\ t.log \in Seq(Entries) /\ Len(t.log) \in Nat
      /\ t.lastCommitted \in Nat
  BY StateFields DEF TakesOver, Moved
<1>2. /\ t.lastCommitted <= b /\ b <= Len(t.log)
      /\ \A j \in b + 1 .. Len(t.log) : t.log[j].view = 1
      /\ Len(rep[1].log) <= b /\ Len(rep[x].log) <= b
      /\ \A j \in 1 .. b : HasEntry(rep[0], j, t.log[j])
  BY DEF TakesLog
<1>3. /\ rep'[1] = t /\ \A p \in Replicas : p # 1 => rep'[p] = rep[p]
      /\ Changed(1)' /\ ~Changed(1) /\ ~Changed(0)
      /\ 0 \in Replicas /\ 1 \in Replicas /\ Replicas = {0, 1, 2}
  BY TakesOverFacts, ThreeReplicas
<1>4. Phases /\ OldLogs /\ OwnersHold
  BY DEF FirstChange
<1>5. \A j \in 1 .. b : t.log[j].view = 0
  BY <1>2, <1>3, <1>4 DEF OldLogs, FirstViewLog, HasEntry
<1>6. ASSUME NEW p \in {1, x}, NEW k, NEW e, HasEntry(rep[p], k, e)
      PROVE  k <= b /\ HasEntry(t, k, e)
  <2>1. p \in Replicas /\ Len(rep[p].log) \in Nat
    BY <1>3, TypedReplica, StateFields DEF ViewstampInv, ViewChangeTyped
  <2>2. k \in 1 .. b
    <3>1. PICK n : n = Len(rep[p].log)
      OBVIOUS
    <3>2. n \in Nat /\ n <= b /\ k \in 1 .. n
      BY <1>2, <1>6, <2>1, <3>1 DEF HasEntry
    <3>. QED BY <3>2
  <2>3. HasEntry(rep[0], k, e)
    BY <1>3, <1>4, <1>6, <2>1, OldLogsAgree
  <2>4. t.log[k] = e
    BY <1>2, <2>2, <2>3 DEF HasEntry
  <2>5. k \in 1 .. Len(t.log)
    BY <1>1, <1>2, <2>2
  <2>. QED BY <2>2, <2>4, <2>5 DEF HasEntry
<1>7. ASSUME NEW k, NEW e, Chosen(k, e)
      PROVE  HasEntry(t, k, e) /\ Chosen(k, e)'
  <2>1. HasEntry(rep[0], k, e) /\ \E q \in Replicas \ {0} : HasEntry(rep[q], k, e)
    BY <1>3, <1>7 DEF Chosen
  <2>2. PICK q \in Replicas \ {0} : HasEntry(rep[q], k, e)
    BY <2>1
  <2>3. HasEntry(t, k, e)
    <3>1. CASE x = 0
      BY <1>6, <2>1, <3>1
    <3>2. CASE x # 0
      <4>1. q \in {1, x}
        BY <1>3, <3>2
      <4>. QED BY <1>6, <2>2, <4>1
    <3>. QED BY <3>1, <3>2
  <2>4. HasEntry(rep'[1], k, e) /\ HasEntry(rep'[0], k, e) /\ 0 \in Replicas \ {1}
    BY <1>3, <2>1, <2>3
  <2>. QED BY <1>3, <2>3, <2>4 DEF Chosen, HasEntry
<1>. QED BY <1>1, <1>2, <1>5, <1>6, <1>7

\* Who holds what, the logs, and what is executed.
LEMMA TakesOverLogs ==
    ASSUME F = 1, ViewstampInv, FirstChange, NEW t, NEW sent, TakesOver(1, t, sent),
           NewlyHeld(1, t), NEW x \in Replicas \ {1}, NEW b \in Nat, TakesLog(t, x, b)
    PROVE  OwnersHold' /\ NewLogs' /\ CommittedChosen' /\ LeftBehind'
<1>1. /\ rep'[1] = t /\ \A p \in Replicas : p # 1 => rep'[p] = rep[p]
      /\ \A p \in Replicas : ~Changed(p) /\ (Changed(p)' <=> p = 1)
      /\ Phases' /\ Phases /\ OwnersHold /\ CommittedChosen
  BY TakesOverFacts DEF FirstChange
<1>2. /\ t \in ReplicaStates /\ t.log \in Seq(Entries) /\ Len(t.log) \in Nat
      /\ t.lastCommitted \in Nat /\ t.lastCommitted <= b /\ b <= Len(t.log)
      /\ \A j \in 1 .. b : t.log[j].view = 0
      /\ \A j \in b + 1 .. Len(t.log) : t.log[j].view = 1
      /\ \A k, e : Chosen(k, e) => Chosen(k, e)'
  BY TakenFacts
<1>3. /\ t.view = 1 /\ t.status = "NORMAL" /\ t.lastOp = Len(t.log)
      /\ \A k \in 1 .. t.lastCommitted : Chosen(k, t.log[k])
  BY DEF TakesOver
<1>4. /\ 0 \in Replicas /\ 1 \in Replicas /\ Replicas = {0, 1, 2}
      /\ GetLeaderIndex(0) = 0 /\ GetLeaderIndex(1) = 1
  BY ThreeReplicas
<1>5. ASSUME NEW k \in Nat, NEW e \in Entries, Held(k, e)'
      PROVE  /\ e.view = 0 /\ ~Changed(0)' => HasEntry(rep'[0], k, e)
             /\ e.view = 1 /\ Changed(1)' => HasEntry(rep'[1], k, e)
  <2>1. CASE Held(k, e)
    <3>1. e.view # 1
      <4>. SUFFICES ASSUME e.view = 1
                    PROVE  FALSE
        OBVIOUS
      <4>1. Entered(1)
        BY <2>1 DEF ViewstampInv, HeldEntered
      <4>. QED BY <1>1, <1>4, <4>1 DEF Entered, Changed, Phases
    <3>. QED BY <1>1, <1>4, <2>1, <3>1 DEF OwnersHold
  <2>2. CASE Adds(1, t, k, e)
    BY <1>1, <1>3, <2>2 DEF Adds
  <2>. QED BY <1>5, <2>1, <2>2 DEF NewlyHeld
<1>6. OwnersHold'
  BY <1>5 DEF OwnersHold, HasEntry
<1>7. NewLogs'
  <2>1. ByView(t.log)
    <3>. SUFFICES ASSUME NEW i \in 1 .. Len(t.log), NEW j \in 1 .. Len(t.log), i < j
                  PROVE  t.log[i].view <= t.log[j].view
      BY DEF ByView
    <3>1. CASE j \in 1 .. b
      <4>1. i \in 1 .. b
        BY <3>1
      <4>. QED BY <1>2, <3>1, <4>1
    <3>2. CASE j \notin 1 .. b
      <4>1. t.log[j].view = 1
        BY <1>2, <3>2
      <4>2. t.log[i].view \in {0, 1}
        BY <1>2
      <4>. QED BY <4>1, <4>2
    <3>. QED BY <3>1, <3>2
  <2>2. FollowsNew(t, t.log)
    BY <1>2, <1>3 DEF FollowsNew
  <2>3. ASSUME NEW p \in Replicas, Changed(p)'
        PROVE  FollowsNew(rep'[p], rep'[1].log)
    BY <1>1, <2>2, <2>3
  <2>. QED BY <1>1, <1>3, <2>1, <2>3 DEF NewLogs, FollowsNew, ByView, FirstViewLog
<1>8. ASSUME NEW p \in Replicas
      PROVE  /\ rep'[p].lastCommitted <= Len(rep'[p].log)
             /\ \A k \in 1 .. rep'[p].lastCommitted : \A e : e = rep'[p].log[k] => Chosen(k, e)'
  <2>1. CASE p = 1
    BY <1>1, <1>2, <1>3, <2>1
  <2>2. CASE p # 1
    BY <1>1, <1>2, <2>2 DEF CommittedChosen
  <2>. QED BY <2>1, <2>2
<1>9. CommittedChosen'
  <2>. SUFFICES ASSUME NEW p \in Replicas
                PROVE  (/\ rep[p].lastCommitted <= Len(rep[p].log)
                        /\ \A k \in 1 .. rep[p].lastCommitted : Chosen(k, rep[p].log[k]))'
    BY DEF CommittedChosen
  <2>. SUFFICES ASSUME NEW k \in 1 .. rep'[p].lastCommitted
                PROVE  Chosen(k, rep[p].log[k])'
    BY <1>8
  <2>1. PICK e : e = rep'[p].log[k]
    OBVIOUS
  <2>2. Chosen(k, e)'
    BY <1>8, <2>1
  <2>. QED BY <2>1, <2>2 DEF Chosen
<1>10. LeftBehind'
  <2>1. rep[x].view = 1
    BY DEF TakesLog
  <2>2. ASSUME rep'[0].view = 0, NEW p \in Replicas \ {0}
        PROVE  rep'[p].view = 1
    <3>1. p = 1 \/ p = x
      BY <1>1, <1>4, <2>1, <2>2
    <3>. QED BY <1>1, <1>3, <2>1, <3>1
  <2>. QED BY <2>2 DEF LeftBehind
<1>. QED BY <1>6, <1>7, <1>9, <1>10

\* Acknowledgements of view 0 are of what the new leader keeps, and there are none of
\* view 1 yet.
LEMMA TakesOverAcks ==
    ASSUME F = 1, ViewstampInv, FirstChange, NEW t, NEW sent, TakesOver(1, t, sent),
           NEW x \in Replicas \ {1}, NEW b \in Nat, TakesLog(t, x, b)
    PROVE  AcksHold'
<1>1. /\ rep'[1] = t /\ \A p \in Replicas : p # 1 => rep'[p] = rep[p]
      /\ \A p \in Replicas : ~Changed(p) /\ (Changed(p)' <=> p = 1)
      /\ AcksHold
  BY TakesOverFacts DEF FirstChange
<1>2. /\ Len(t.log) \in Nat /\ b <= Len(t.log) /\ \A j \in 1 .. b : t.log[j].view = 0
  BY TakenFacts
<1>3. 0 \in Replicas /\ 1 \in Replicas /\ Replicas = {0, 1, 2}
  BY ThreeReplicas
<1>4. /\ t.prepareOKs = {} /\ msgs' \subseteq msgs \cup sent /\ \A m \in sent : Starts(t, m)
      /\ rep[x].view = 1 /\ Len(rep[1].log) <= b /\ Len(rep[x].log) <= b
  BY DEF TakesOver, Moved, TakesLog
<1>. SUFFICES ASSUME NEW v \in Nat, NEW k \in Nat, NEW p \in Replicas, AckedIn(v, k, p)'
              PROVE  AckHolds(v, k, p)'
  BY DEF AcksHold
<1>5. AckedIn(v, k, p)
  <2>1. CASE \E m \in msgs' : /\ m \in Messages /\ m.type = "PrepareOK"
                              /\ m.view = v /\ m.opnum = k /\ m.from = p
    <3>1. PICK m \in msgs' : /\ m \in Messages /\ m.type = "PrepareOK"
                             /\ m.view = v /\ m.opnum = k /\ m.from = p
      BY <2>1
    <3>2. m \in msgs
      BY <1>4, <3>1 DEF Starts
    <3>. QED BY <3>1, <3>2 DEF AckedIn
  <2>2. CASE v = 0 /\ rep'[0].view = 0 /\ <<k, p>> \in rep'[0].prepareOKs
    BY <1>1, <1>3, <2>2 DEF AckedIn
  <2>3. CASE v = 1 /\ Changed(1)' /\ <<k, p>> \in rep'[1].prepareOKs
    BY <1>1, <1>4, <2>3
  <2>. QED BY <2>1, <2>2, <2>3 DEF AckedIn
<1>6. AckHolds(v, k, p)
  BY <1>1, <1>5 DEF AcksHold
<1>7. v = 0 /\ p # 0
  BY <1>1, <1>6 DEF AckHolds
<1>8. k <= Len(rep[p].log)
  BY <1>1, <1>3, <1>6, <1>7 DEF AckHolds
<1>9. ASSUME rep'[0].view = 0, NEW j \in 1 .. k
      PROVE  Kept(j)'
  <2>1. p \in {1, x}
    BY <1>1, <1>3, <1>4, <1>7, <1>9
  <2>2. k <= b
    <3>1. PICK n : n = Len(rep[p].log)
      OBVIOUS
    <3>2. n \in Nat /\ k <= n /\ n <= b
      BY <1>4, <1>8, <2>1, <3>1, TypedReplica, StateFields DEF ViewstampInv, ViewChangeTyped
    <3>. QED BY <3>2
  <2>3. j \in 1 .. Len(t.log) /\ t.log[j].view = 0
    BY <1>2, <2>2
  <2>. QED BY <1>1, <2>3 DEF Kept
<1>. QED BY <1>1, <1>3, <1>7, <1>9 DEF AckHolds, Kept

\* What messages hold, those of the new leader included.
LEMMA TakesOverMessages ==
    ASSUME F = 1, ViewstampInv, FirstChange, NEW t, NEW sent, TakesOver(1, t, sent),
           NEW x \in Replicas \ {1}, NEW b \in Nat, TakesLog(t, x, b)
    PROVE  MessagesHold'
<1>1. /\ rep'[1] = t /\ ~Changed(1) /\ Changed(1)' /\ MessagesHold
  BY TakesOverFacts, ThreeReplicas DEF FirstChange
<1>2. /\ Len(t.log) \in Nat /\ t.lastCommitted \in Nat /\ t.lastCommitted <= b
      /\ b <= Len(t.log) /\ \A k, e : Chosen(k, e) => Chosen(k, e)'
  BY TakenFacts
<1>3. /\ \A k \in 1 .. t.lastCommitted : Chosen(k, t.log[k])
      /\ t.lastOp = Len(t.log) /\ msgs' \subseteq msgs \cup sent
      /\ \A m \in sent : Starts(t, m)
  BY DEF TakesOver, Moved
<1>. SUFFICES ASSUME NEW m \in msgs'
              PROVE  MessageHolds(m)'
  BY DEF MessagesHold
<1>4. CASE m \in msgs
  <2>1. MessageHolds(m)
    BY <1>1, <1>4 DEF MessagesHold
  <2>2. ASSUME m \in Messages, m.type = "Commit"
        PROVE  CommitHolds(m)'
    <3>1. ASSUME NEW j \in 1 .. m.opnum
          PROVE  \E e \in Entries : Chosen(j, e)' /\ (m.view = 0 => e.view = 0)
      <4>1. PICK e \in Entries : Chosen(j, e) /\ (m.view = 0 => e.view = 0)
        BY <2>1, <2>2 DEF MessageHolds, CommitHolds
      <4>2. Chosen(j, e)'
        BY <1>2, <4>1
      <4>. QED BY <4>1, <4>2
    <3>. QED BY <3>1 DEF CommitHolds
  <2>3. m \in ViewChangeMessages => m.type # "StartView"
    BY <1>1, <2>1 DEF MessageHolds, StartViewHolds
  <2>4. ASSUME m \in ViewChangeMessages, m.type = "DoViewChange"
        PROVE  DoViewChangeHolds(m)'
    <3>1. m.view = 1 /\ m.from # 1
      BY <2>1, <2>4 DEF MessageHolds, DoViewChangeHolds
    <3>. QED BY <1>1, <3>1 DEF DoViewChangeHolds
  <2>. QED BY <2>2, <2>3, <2>4 DEF MessageHolds
<1>5. CASE m \in sent
  <2>1. Starts(t, m)
    BY <1>3, <1>5
  <2>2. /\ m.type # "DoViewChange" /\ m.type # "Commit"
    BY <2>1 DEF Starts
  <2>3. ASSUME m.type = "StartView"
        PROVE  StartViewHolds(m)'
    <3>1. /\ m.view = 1 /\ m.lastOp = Len(t.log) /\ m.lastCommitted = t.lastCommitted
          /\ PartOf(m, t.log)
          /\ m.entries # <<>> => m.first + Len(m.entries) - 1 = m.lastOp
      BY <1>3, <2>1, <2>3 DEF Starts
    <3>2. m.lastOp <= Len(t.log) /\ m.lastCommitted <= m.lastOp
      BY <1>2, <3>1
    <3>3. \A j \in 1 .. Len(t.log) : j <= m.lastOp
      BY <1>2, <3>1
    <3>4. ASSUME NEW j \in 1 .. m.lastCommitted
          PROVE  Chosen(j, rep[1].log[j])'
      <4>1. PICK e : e = t.log[j]
        OBVIOUS
      <4>2. Chosen(j, e)'
        BY <1>2, <1>3, <3>1, <4>1
      <4>. QED BY <1>1, <4>1, <4>2 DEF Chosen
    <3>. QED BY <1>1, <3>1, <3>2, <3>3, <3>4 DEF StartViewHolds
  <2>. QED BY <2>2, <2>3 DEF MessageHolds
<1>. QED BY <1>3, <1>4, <1>5

\* The new leader keeps the invariant of the first view change.
LEMMA TakesOverKeeps ==
    ASSUME F = 1, ViewstampInv, FirstChange, NEW r \in Replicas, NEW t, NEW sent,
           TakesOver(r, t, sent), NewlyHeld(r, t)
    PROVE  FirstChange'
<1>1. r = 1
  BY DEF TakesOver
<1>2. PICK x \in Replicas \ {1}, b \in Nat : TakesLog(t, x, b)
  BY DEF TakesOver
<1>3. TakesOver(1, t, sent) /\ NewlyHeld(1, t)
  BY <1>1
<1>4. Phases' /\ OldLogs'
  BY <1>3, TakesOverFacts
<1>5. OwnersHold' /\ NewLogs' /\ CommittedChosen' /\ LeftBehind'
  BY <1>2, <1>3, TakesOverLogs
<1>6. AcksHold' /\ MessagesHold'
  BY <1>2, <1>3, TakesOverAcks, TakesOverMessages
<1>. QED BY <1>4, <1>5, <1>6 DEF FirstChange

-------------------------------------------------------------------------------
(* The steps of its followers                                              *)

\* The replica of the step has entered view 1 then, and what is chosen stays.
LEMMA EntersFacts ==
    ASSUME F = 1, ViewstampInv, FirstChange, NEW r \in Replicas, NEW t, NEW sent,
           Enters(r, t, sent)
    PROVE  /\ rep'[r] = t /\ \A p \in Replicas : p # r => rep'[p] = rep[p]
           /\ r # 1 /\ t.view = 1 /\ rep'[1] = rep[1] /\ Changed(1)'
           /\ \A p \in Replicas : Changed(p)' <=> Changed(p) \/ p = r
           /\ Phases' /\ OldLogs' /\ LeftBehind'
           /\ \A k, e : Chosen(k, e) => Chosen(k, e)'
<1>1. 0 \in Replicas /\ 1 \in Replicas
  BY ThreeReplicas
<1>2. /\ r # 1 /\ Changed(1) /\ t.view = 1 /\ t.status = "NORMAL" /\ Keeps(rep[r], t)
      /\ Phases /\ OldLogs /\ LeftBehind
  BY DEF Enters, FirstChange
<1>3. rep'[r] = t /\ \A p \in Replicas : p # r => rep'[p] = rep[p]
  BY DEF Enters, Moved, ViewstampInv, ViewChangeTyped, Typed
<1>4. rep'[1] = rep[1]
  BY <1>1, <1>2, <1>3
<1>5. ASSUME NEW p \in Replicas
      PROVE  Changed(p)' <=> Changed(p) \/ p = r
  BY <1>2, <1>3 DEF Changed
<1>6. Changed(1)'
  BY <1>1, <1>2, <1>5
<1>7. Phases'
  <2>. SUFFICES ASSUME NEW p \in Replicas
                PROVE  /\ \/ rep'[p].view = 0 /\ rep'[p].status = "NORMAL"
                          \/ rep'[p].view = 1 /\ rep'[p].status \in {"NORMAL", "VIEW_CHANGE"}
                       /\ Changed(p)' => Changed(1)'
    BY DEF Phases
  <2>. QED BY <1>2, <1>3, <1>6 DEF Phases
<1>8. OldLogs'
  <2>. SUFFICES ASSUME NEW p \in Replicas, ~Changed(p)'
                PROVE  rep'[p].lastOp = Len(rep'[p].log) /\ FirstViewLog(rep'[p].log)
    BY DEF OldLogs, FirstViewLog
  <2>. QED BY <1>2, <1>3, <1>5 DEF OldLogs
<1>9. LeftBehind'
  <2>. SUFFICES ASSUME rep'[0].view = 0, NEW p \in Replicas \ {0}
                PROVE  rep'[p].view = 1
    BY DEF LeftBehind
  <2>1. rep[0].view = 0
    <3>1. r # 0
      BY <1>2, <1>3
    <3>. QED BY <1>1, <1>3, <3>1
  <2>2. rep[p].view = 1
    BY <1>2, <2>1 DEF LeftBehind
  <2>. QED BY <1>2, <1>3, <2>2
<1>10. ASSUME NEW k, NEW e, Chosen(k, e)
       PROVE  Chosen(k, e)'
  <2>1. PICK q \in Replicas \ {1} : HasEntry(rep[1], k, e) /\ HasEntry(rep[q], k, e)
    BY <1>2, <1>10 DEF Chosen
  <2>2. HasEntry(rep'[q], k, e)
    BY <1>2, <1>3, <1>10, <2>1 DEF Keeps
  <2>. QED BY <1>4, <1>6, <2>1, <2>2 DEF Chosen, HasEntry
<1>. QED BY <1>2, <1>3, <1>4, <1>5, <1>6, <1>7, <1>8, <1>9, <1>10

\* Who holds what, the logs, and what is executed.
LEMMA EntersLogs ==
    ASSUME F = 1, ViewstampInv, FirstChange, NEW r \in Replicas, NEW t, NEW sent,
           Enters(r, t, sent), NewlyHeld(r, t)
    PROVE  OwnersHold' /\ NewLogs' /\ CommittedChosen'
<1>1. /\ rep'[r] = t /\ \A p \in Replicas : p # r => rep'[p] = rep[p]
      /\ r # 1 /\ t.view = 1 /\ rep'[1] = rep[1] /\ Changed(1)'
      /\ \A p \in Replicas : Changed(p)' <=> Changed(p) \/ p = r
      /\ \A k, e : Chosen(k, e) => Chosen(k, e)'
  BY EntersFacts
<1>2. /\ OwnersHold /\ NewLogs /\ CommittedChosen /\ Changed(1)
      /\ t \in ReplicaStates /\ FollowsNew(t, rep[1].log)
      /\ \A k \in 1 .. t.lastCommitted : Chosen(k, t.log[k])
  BY DEF FirstChange, Enters, Moved
<1>3. 0 \in Replicas /\ 1 \in Replicas /\ GetLeaderIndex(1) = 1
  BY ThreeReplicas
<1>4. ASSUME NEW k \in Nat, NEW e \in Entries, Held(k, e)'
      PROVE  /\ e.view = 0 /\ ~Changed(0)' => HasEntry(rep'[0], k, e)
             /\ e.view = 1 /\ Changed(1)' => HasEntry(rep'[1], k, e)
  <2>1. Held(k, e)
    BY <1>1, <1>3, <1>4 DEF NewlyHeld, Adds, AmLeader
  <2>2. /\ e.view = 0 /\ ~Changed(0) => HasEntry(rep[0], k, e)
        /\ e.view = 1 => HasEntry(rep[1], k, e)
    BY <1>2, <2>1 DEF OwnersHold
  <2>3. ~Changed(0)' => ~Changed(0) /\ rep'[0] = rep[0]
    BY <1>1, <1>3
  <2>. QED BY <1>1, <2>2, <2>3
<1>5. OwnersHold'
  BY <1>4 DEF OwnersHold, HasEntry
<1>6. NewLogs'
  <2>1. ASSUME NEW p \in Replicas, Changed(p)'
        PROVE  FollowsNew(rep'[p], rep'[1].log)
    BY <1>1, <1>2, <2>1 DEF NewLogs
  <2>2. rep'[1].lastOp = Len(rep'[1].log) /\ ByView(rep'[1].log)
    BY <1>1, <1>2 DEF NewLogs
  <2>. QED BY <2>1, <2>2 DEF NewLogs, FollowsNew, ByView, FirstViewLog
<1>7. ASSUME NEW p \in Replicas
      PROVE  /\ rep'[p].lastCommitted <= Len(rep'[p].log)
             /\ \A k \in 1 .. rep'[p].lastCommitted : \A e : e = rep'[p].log[k] => Chosen(k, e)'
  <2>1. CASE p = r
    <3>1. t.lastCommitted <= t.lastOp /\ t.lastOp <= Len(t.log)
      BY <1>2 DEF FollowsNew
    <3>2. t.lastCommitted <= Len(t.log)
      BY <1>2, <3>1, StateFields
    <3>. QED BY <1>1, <1>2, <2>1, <3>2
  <2>2. CASE p # r
    BY <1>1, <1>2, <2>2 DEF CommittedChosen
  <2>. QED BY <2>1, <2>2
<1>8. CommittedChosen'
  <2>. SUFFICES ASSUME NEW p \in Replicas
                PROVE  (/\ rep[p].lastCommitted <= Len(rep[p].log)
                        /\ \A k \in 1 .. rep[p].lastCommitted : Chosen(k, rep[p].log[k]))'
    BY DEF CommittedChosen
  <2>. SUFFICES ASSUME NEW k \in 1 .. rep'[p].lastCommitted
                PROVE  Chosen(k, rep[p].log[k])'
    BY <1>7
  <2>1. PICK e : e = rep'[p].log[k]
    OBVIOUS
  <2>2. Chosen(k, e)'
    BY <1>7, <2>1
  <2>. QED BY <2>1, <2>2 DEF Chosen
<1>. QED BY <1>5, <1>6, <1>8

\* A replica that enters view 1 acknowledges what it has of its leader.
LEMMA EntersAcks ==
    ASSUME F = 1, ViewstampInv, FirstChange, NEW r \in Replicas, NEW t, NEW sent,
           Enters(r, t, sent)
    PROVE  AcksHold'
<1>1. /\ rep'[r] = t /\ \A p \in Replicas : p # r => rep'[p] = rep[p]
      /\ r # 1 /\ t.view = 1 /\ rep'[1] = rep[1] /\ Changed(1)'
      /\ \A p \in Replicas : Changed(p)' <=> Changed(p) \/ p = r
  BY EntersFacts
<1>2. /\ AcksHold /\ Changed(1) /\ ~Changed(r) /\ msgs' \subseteq msgs \cup sent
      /\ \A m \in sent : Acknowledges(r, t, m)
  BY DEF FirstChange, Enters, Moved
<1>3. 0 \in Replicas /\ 1 \in Replicas
  BY ThreeReplicas
<1>. SUFFICES ASSUME NEW v \in Nat, NEW k \in Nat, NEW p \in Replicas, AckedIn(v, k, p)'
              PROVE  AckHolds(v, k, p)'
  BY DEF AcksHold
<1>4. rep'[0].view = 0 => rep'[0] = rep[0]
  BY <1>1, <1>3
<1>5. AckedIn(v, k, p) \/ (p = r /\ v = 1 /\ k <= t.lastOp)
  <2>1. CASE \E m \in msgs' : /\ m \in Messages /\ m.type = "PrepareOK"
                              /\ m.view = v /\ m.opnum = k /\ m.from = p
    <3>1. PICK m \in msgs' : /\ m \in Messages /\ m.type = "PrepareOK"
                             /\ m.view = v /\ m.opnum = k /\ m.from = p
      BY <2>1
    <3>2. CASE m \in msgs
      BY <3>1, <3>2 DEF AckedIn
    <3>3. CASE m \in sent
      <4>1. Acknowledges(r, t, m)
        BY <1>2, <3>3
      <4>. QED BY <1>1, <3>1, <4>1 DEF Acknowledges
    <3>. QED BY <1>2, <3>2, <3>3
  <2>2. CASE v = 0 /\ rep'[0].view = 0 /\ <<k, p>> \in rep'[0].prepareOKs
    BY <1>4, <2>2 DEF AckedIn
  <2>3. CASE v = 1 /\ Changed(1)' /\ <<k, p>> \in rep'[1].prepareOKs
    BY <1>1, <1>2, <2>3 DEF AckedIn
  <2>. QED BY <2>1, <2>2, <2>3 DEF AckedIn
<1>6. CASE AckedIn(v, k, p)
  <2>1. AckHolds(v, k, p)
    BY <1>2, <1>6 DEF AcksHold
  <2>2. v = 0 /\ rep'[0].view = 0 => \A j \in 1 .. k : Kept(j)'
    <3>1. v = 0 /\ rep'[0].view = 0 => \A j \in 1 .. k : Kept(j)
      BY <1>2, <1>4, <2>1 DEF AckHolds
    <3>. QED BY <1>1, <3>1 DEF Kept
  <2>3. v = 1 => Changed(p)' /\ k <= rep'[p].lastOp
    BY <1>1, <1>2, <2>1 DEF AckHolds
  <2>4. v \in {0, 1} /\ p # v
    BY <2>1 DEF AckHolds
  <2>. QED BY <1>1, <2>2, <2>3, <2>4 DEF AckHolds, Kept
<1>7. CASE p = r /\ v = 1 /\ k <= t.lastOp
  BY <1>1, <1>7 DEF AckHolds
<1>. QED BY <1>5, <1>6, <1>7

\* Nothing changes for the messages.
LEMMA EntersMessages ==
    ASSUME F = 1, ViewstampInv, FirstChange, NEW r \in Replicas, NEW t, NEW sent,
           Enters(r, t, sent)
    PROVE  MessagesHold'
<1>1. /\ rep'[1] = rep[1] /\ Changed(1)' /\ \A k, e : Chosen(k, e) => Chosen(k, e)'
  BY EntersFacts
<1>2. /\ MessagesHold /\ msgs' \subseteq msgs \cup sent
      /\ \A m \in sent : m \in Messages /\ m.type = "PrepareOK"
  BY DEF FirstChange, Enters, Moved
<1>. SUFFICES ASSUME NEW m \in msgs'
              PROVE  MessageHolds(m)'
  BY DEF MessagesHold
<1>3. CASE m \in msgs
  <2>1. MessageHolds(m)
    BY <1>2, <1>3 DEF MessagesHold
  <2>2. ASSUME m \in Messages, m.type = "Commit"
        PROVE  CommitHolds(m)'
    <3>1. ASSUME NEW j \in 1 .. m.opnum
          PROVE  \E e \in Entries : Chosen(j, e)' /\ (m.view = 0 => e.view = 0)
      <4>1. PICK e \in Entries : Chosen(j, e) /\ (m.view = 0 => e.view = 0)
        BY <2>1, <2>2 DEF MessageHolds, CommitHolds
      <4>2. Chosen(j, e)'
        BY <1>1, <4>1
      <4>. QED BY <4>1, <4>2
    <3>. QED BY <3>1 DEF CommitHolds
  <2>3. ASSUME m \in ViewChangeMessages, m.type = "StartView"
        PROVE  StartViewHolds(m)'
    <3>1. PICK l : l = rep[1].log
      OBVIOUS
    <3>2. /\ m.view = 1 /\ m.lastOp <= Len(l) /\ m.lastCommitted <= m.lastOp /\ PartOf(m, l)
          /\ m.entries # <<>> => m.first + Len(m.entries) - 1 = m.lastOp
          /\ \A j \in 1 .. Len(l) : Kept(j) => j <= m.lastOp
          /\ \A j \in 1 .. m.lastCommitted : Chosen(j, l[j])
      BY <2>1, <2>3, <3>1 DEF MessageHolds, StartViewHolds
    <3>3. \A j \in 1 .. Len(l) : Kept(j)' => j <= m.lastOp
      BY <1>1, <3>2 DEF Kept
    <3>4. ASSUME NEW j \in 1 .. m.lastCommitted
          PROVE  Chosen(j, rep[1].log[j])'
      <4>1. PICK e : e = l[j]
        OBVIOUS
      <4>2. Chosen(j, e)'
        BY <1>1, <3>2, <4>1
      <4>. QED BY <1>1, <3>1, <4>1, <4>2 DEF Chosen
    <3>. QED BY <1>1, <3>1, <3>2, <3>3, <3>4 DEF StartViewHolds
  <2>4. ASSUME m \in ViewChangeMessages, m.type = "DoViewChange"
        PROVE  DoViewChangeHolds(m)'
    <3>1. m.view = 1 /\ m.from # 1
      BY <2>1, <2>4 DEF MessageHolds, DoViewChangeHolds
    <3>. QED BY <1>1, <3>1 DEF DoViewChangeHolds
  <2>. QED BY <2>2, <2>3, <2>4 DEF MessageHolds
<1>4. CASE m \in sent
  BY <1>2, <1>4 DEF MessageHolds
<1>. QED BY <1>2, <1>3, <1>4

\* A replica that enters view 1 after its leader keeps the invariant of the first view
\* change.
LEMMA EntersKeeps ==
    ASSUME F = 1, ViewstampInv, FirstChange, NEW r \in Replicas, NEW t, NEW sent,
           Enters(r, t, sent), NewlyHeld(r, t)
    PROVE  FirstChange'
<1>1. Phases' /\ OldLogs' /\ LeftBehind'
  BY EntersFacts
<1>2. OwnersHold' /\ NewLogs' /\ CommittedChosen'
  BY EntersLogs
<1>3. AcksHold' /\ MessagesHold'
  BY EntersAcks, EntersMessages
<1>. QED BY <1>1, <1>2, <1>3 DEF FirstChange

-------------------------------------------------------------------------------
(* The invariant of the first view change                                  *)

\* Nothing happens.
LEMMA NothingProceeds ==
    ASSUME Typed, UNCHANGED vars, BallotsReceived, NEW r \in Replicas
    PROVE  \E t, sent : Proceeds(r, t, sent) /\ NewlyHeld(r, t)
<1>1. PICK s, sent : s = rep[r] /\ sent = {}
  OBVIOUS
<1>2. s \in ReplicaStates /\ rep' = rep /\ msgs' = msgs
  BY <1>1, TypedReplica DEF vars
<1>3. rep' = [rep EXCEPT ![r] = s]
  BY <1>1, <1>2 DEF Typed
<1>4. Moved(r, s, sent)
  BY <1>2, <1>3 DEF Moved
<1>5. s.lastCommitted \in Nat
  BY <1>2, StateFields
<1>6. GrowsTo(s, s) /\ Executes(s, s) /\ Records(s, s)
  BY <1>5 DEF GrowsTo, Executes, Records
<1>7. Proceeds(r, s, sent)
  BY <1>1, <1>4, <1>6 DEF Proceeds
<1>8. NewlyHeld(r, s)
  BY HeldBefore DEF NewlyHeld
<1>. QED BY <1>7, <1>8

\* All is so when the system starts.
LEMMA FirstChangeStarts == ASSUME F = 1 PROVE ViewChangeInit => FirstChangeInv
<1>. SUFFICES ASSUME ViewChangeInit
              PROVE  FirstChangeInv
  OBVIOUS
<1>1. /\ rep = [r \in Replicas |-> NewReplica(r)] /\ msgs = {}
      /\ ballots = [r \in Replicas |-> {}]
  BY DEF ViewChangeInit, Init
<1>2. ASSUME NEW r \in Replicas
      PROVE  /\ rep[r].view = 0 /\ rep[r].status = "NORMAL" /\ Len(rep[r].log) = 0
             /\ rep[r].lastOp = 0 /\ rep[r].lastCommitted = 0 /\ rep[r].prepareOKs = {}
             /\ rep[r].log = <<>>
             /\ \A b \in Batches : HasBatch(rep[r], b) => Len(b.requests) = 0
  <2>1. PICK s : s = rep[r]
    OBVIOUS
  <2>2. /\ s.view = 0 /\ s.log = <<>> /\ s.pending = <<>> /\ s.work = <<>>
        /\ s.lastPrepare = NoBatch /\ s.lastOp = 0 /\ s.lastCommitted = 0
        /\ s.prepareOKs = {} /\ s.status = "NORMAL"
    BY <1>1, <2>1 DEF NewReplica
  <2>3. \A b : HasBatch(s, b) => b = NoBatch
    BY <2>2 DEF HasBatch
  <2>. QED BY <2>1, <2>2, <2>3 DEF NoBatch
<1>3. 0 \in Replicas /\ 1 \in Replicas /\ \A r \in Replicas : ~Changed(r)
  BY <1>2, ThreeReplicas DEF Changed
<1>4. Phases /\ OldLogs
  BY <1>2, <1>3 DEF Phases, OldLogs, FirstViewLog
<1>5. OwnersHold
  <2>1. ASSUME NEW k, NEW e
        PROVE  ~Held(k, e)
    <3>1. \A r \in Replicas : ~Stores(rep[r], k, e)
      BY <1>2 DEF Stores, HasEntry, InBatch
    <3>. QED BY <1>1, <3>1 DEF Held
  <2>. QED BY <2>1 DEF OwnersHold
<1>6. NewLogs /\ CommittedChosen /\ LeftBehind
  BY <1>2, <1>3 DEF NewLogs, CommittedChosen, LeftBehind
<1>7. AcksHold
  BY <1>1, <1>2, <1>3 DEF AcksHold, AckedIn
<1>8. MessagesHold /\ NoVotes
  BY <1>1 DEF MessagesHold, NoVotes
<1>. QED BY ViewstampStarts, <1>4, <1>5, <1>6, <1>7, <1>8 DEF FirstChangeInv, FirstChange

\* Every step is of one of the three kinds, or none.
LEMMA FirstChangeSteps ==
    ASSUME F = 1, MaxView <= 1, TransferBound = 0, FirstChangeInv, [ViewChangeNext]_allVars
    PROVE  /\ ViewstampInv /\ FirstChange /\ ViewstampInv' /\ NoVotes'
           /\ \E r \in Replicas : \E t, sent :
                  /\ NewlyHeld(r, t)
                  /\ Proceeds(r, t, sent) \/ TakesOver(r, t, sent) \/ Enters(r, t, sent)
<1>1. /\ ViewstampInv /\ FirstChange /\ NoVotes /\ Typed
  BY DEF FirstChangeInv, ViewstampInv, ViewChangeTyped
<1>2. ViewstampInv' /\ ViewsBounded'
  <2>1. ViewstampInv'
    BY <1>1, ViewstampKept
  <2>. QED BY <2>1 DEF ViewstampInv
<1>3. ASSUME UNCHANGED vars, BallotsReceived, NEW r \in Replicas
      PROVE  \E q \in Replicas : \E t, sent : Proceeds(q, t, sent) /\ NewlyHeld(q, t)
  BY <1>1, <1>3, NothingProceeds
<1>4. CASE UNCHANGED allVars
  <2>1. UNCHANGED vars /\ BallotsReceived /\ ballots' = ballots /\ rep' = rep
    BY <1>4 DEF allVars, viewChangeVars, BallotsReceived, vars
  <2>2. NoVotes'
    BY <1>1, <2>1 DEF NoVotes, Running
  <2>3. 0 \in Replicas
    BY ThreeReplicas
  <2>. QED BY <1>1, <1>2, <1>3, <2>1, <2>2, <2>3
<1>5. CASE ViewChangeNext
  <2>1. PICK r \in Up : ViewChangeStep(r)
    BY <1>5 DEF ViewChangeNext
  <2>2. r \in Replicas
    BY NetworkAssumption
  <2>3. NoVotes'
    BY <1>1, <2>1, <2>2, NoVotesKept
  <2>4. NewlyHeld(r, rep'[r])
    BY <1>1, <2>1, <2>2, StepHolds
  <2>5. UNCHANGED vars \/ DoesProceed(r) \/ DoesTakeOver(r) \/ DoesEnter(r)
    BY <1>1, <1>2, <2>1, <2>2, StepKinds
  <2>6. CASE UNCHANGED vars
    <3>1. BallotsReceived
      BY <1>1, <2>1, <2>2, StepCases
    <3>. QED BY <1>1, <1>2, <1>3, <2>2, <2>3, <2>6, <3>1
  <2>7. ASSUME NEW t, NEW sent, Moved(r, t, sent)
        PROVE  rep'[r] = t
    BY <1>1, <2>2, <2>7 DEF Moved, Typed
  <2>8. CASE DoesProceed(r)
    <3>1. PICK t, sent : Proceeds(r, t, sent)
      BY <2>8 DEF DoesProceed
    <3>2. NewlyHeld(r, t)
      BY <2>4, <2>7, <3>1 DEF Proceeds
    <3>. QED BY <1>1, <1>2, <2>2, <2>3, <3>1, <3>2
  <2>9. CASE DoesTakeOver(r)
    <3>1. PICK t, sent : TakesOver(r, t, sent)
      BY <2>9 DEF DoesTakeOver
    <3>2. NewlyHeld(r, t)
      BY <2>4, <2>7, <3>1 DEF TakesOver
    <3>. QED BY <1>1, <1>2, <2>2, <2>3, <3>1, <3>2
  <2>10. CASE DoesEnter(r)
    <3>1. PICK t, sent : Enters(r, t, sent)
      BY <2>10 DEF DoesEnter
    <3>2. NewlyHeld(r, t)
      BY <2>4, <2>7, <3>1 DEF Enters
    <3>. QED BY <1>1, <1>2, <2>2, <2>3, <3>1, <3>2
  <2>. QED BY <2>5, <2>6, <2>8, <2>9, <2>10
<1>. QED BY <1>4, <1>5

\* Every step keeps the invariant.
LEMMA FirstChangeKept ==
    ASSUME F = 1, MaxView <= 1, TransferBound = 0
    PROVE  FirstChangeInv /\ [ViewChangeNext]_allVars => FirstChangeInv'
<1>. SUFFICES ASSUME FirstChangeInv, [ViewChangeNext]_allVars
              PROVE  FirstChangeInv'
  OBVIOUS
<1>1. ViewstampInv /\ FirstChange /\ ViewstampInv' /\ NoVotes'
  BY FirstChangeSteps
<1>2. PICK r \in Replicas :
          \E t, sent : /\ NewlyHeld(r, t)
                       /\ Proceeds(r, t, sent) \/ TakesOver(r, t, sent) \/ Enters(r, t, sent)
  BY FirstChangeSteps
<1>3. PICK t, sent :
          /\ NewlyHeld(r, t)
          /\ Proceeds(r, t, sent) \/ TakesOver(r, t, sent) \/ Enters(r, t, sent)
  BY <1>2
<1>4. FirstChange'
  BY <1>1, <1>3, ProceedsKeeps, TakesOverKeeps, EntersKeeps
<1>. QED BY <1>1, <1>4 DEF FirstChangeInv

\* What is executed is in the log of its replica, and chosen.
LEMMA ExecutedEntry ==
    ASSUME F = 1, ViewstampInv, FirstChange, NEW p \in Replicas,
           NEW k \in 1 .. rep[p].lastCommitted, NEW e, e = rep[p].log[k]
    PROVE  HasEntry(rep[p], k, e) /\ Chosen(k, e)
<1>1. rep[p].lastCommitted <= Len(rep[p].log) /\ Chosen(k, rep[p].log[k])
  BY DEF FirstChange, CommittedChosen
<1>2. k \in 1 .. Len(rep[p].log)
  <2>1. PICK a, b : a = rep[p].lastCommitted /\ b = Len(rep[p].log)
    OBVIOUS
  <2>2. a \in Nat /\ b \in Nat /\ a <= b /\ k \in 1 .. a
    BY <1>1, <2>1, TypedReplica, StateFields DEF ViewstampInv, ViewChangeTyped
  <2>3. k \in 1 .. b
    BY <2>2
  <2>. QED BY <2>1, <2>3
<1>. QED BY <1>1, <1>2 DEF HasEntry

\* A log that has all that a replica has executed is no shorter.
LEMMA LongEnough ==
    ASSUME NEW l, Len(l) \in Nat, NEW n \in Nat, \A k \in 1 .. n : k <= Len(l)
    PROVE  n <= Len(l)
<1>1. n = 0 \/ n \in 1 .. n
  OBVIOUS
<1>. QED BY <1>1

\* In the first view change of three replicas the leader of view 1 has in its log
\* whatever any replica has executed (HandleDoViewChange), and that of view 0 what was
\* executed in view 0: what is executed is in the logs of two replicas, one of which
\* the new leader has heard of.
THEOREM LeaderCompleteHolds ==
    ASSUME F = 1, MaxView <= 1, TransferBound = 0
    PROVE  ViewChangeSpec => []LeaderComplete
<1>1. ViewChangeInit => FirstChangeInv
  BY FirstChangeStarts
<1>2. FirstChangeInv /\ [ViewChangeNext]_allVars => FirstChangeInv'
  BY FirstChangeKept
<1>3. FirstChangeInv => LeaderComplete
  <2>. SUFFICES ASSUME FirstChangeInv, NEW p \in Replicas, NEW r \in Replicas,
                       Leads(r), rep[p].view <= rep[r].view
                PROVE  /\ rep[p].lastCommitted <= Len(rep[r].log)
                       /\ SameUpTo(rep[p], rep[r], rep[p].lastCommitted)
    BY DEF LeaderComplete
  <2>1. ViewstampInv /\ FirstChange /\ Phases /\ OldLogs /\ OwnersHold
    BY DEF FirstChangeInv, FirstChange
  <2>2. /\ Len(rep[r].log) \in Nat /\ rep[p].lastCommitted \in Nat
        /\ rep[r].status = "NORMAL" /\ r = GetLeaderIndex(rep[r].view)
    BY <2>1, TypedReplica, StateFields DEF ViewstampInv, ViewChangeTyped, Leads, AmLeader
  <2>3. (rep[r].view = 0 /\ r = 0) \/ (r = 1 /\ Changed(1))
    BY <2>1, <2>2, ThreeReplicas DEF Phases, Changed
  <2>4. ASSUME NEW k \in 1 .. rep[p].lastCommitted
        PROVE  k <= Len(rep[r].log) /\ rep[p].log[k] = rep[r].log[k]
    <3>1. PICK e : e = rep[p].log[k]
      OBVIOUS
    <3>2. HasEntry(rep[p], k, e) /\ Chosen(k, e)
      BY <2>1, <3>1, ExecutedEntry
    <3>3. HasEntry(rep[r], k, e)
      <4>1. CASE r = 1 /\ Changed(1)
        BY <3>2, <4>1, ChosenFacts
      <4>2. CASE rep[r].view = 0 /\ r = 0
        <5>1. rep[p].view = 0
          BY <2>1, <4>2 DEF Phases
        <5>2. ~Changed(p) /\ ~Changed(0)
          BY <4>2, <5>1 DEF Changed
        <5>3. e.view = 0
          BY <2>1, <3>2, <5>2 DEF OldLogs, FirstViewLog, HasEntry
        <5>4. k \in Nat /\ e \in Entries /\ Held(k, e)
          BY <2>1, <3>2, EntryView
        <5>. QED BY <2>1, <4>2, <5>2, <5>3, <5>4 DEF OwnersHold
      <4>. QED BY <2>3, <4>1, <4>2
    <3>. QED BY <3>1, <3>3 DEF HasEntry
  <2>. QED BY <2>2, <2>4, LongEnough DEF SameUpTo
<1>. QED BY <1>1, <1>2, <1>3, PTL DEF ViewChangeSpec

\* A log of the first view change that ends in view 0 has no later entries, and one that
\* ends in view 1 is a part of that of the new leader.
LEMMA LogEnds ==
    ASSUME F = 1, ViewstampInv, FirstChange, NEW p \in Replicas
    PROVE  /\ LastEntryView(rep[p].log) \in {0, 1}
           /\ LastEntryView(rep[p].log) = 0 => FirstViewLog(rep[p].log)
           /\ LastEntryView(rep[p].log) = 1 =>
                  /\ Changed(1) /\ rep[p].log # <<>>
                  /\ \A j \in 1 .. Len(rep[p].log) : HasEntry(rep[1], j, rep[p].log[j])
<1>1. Phases /\ OldLogs /\ NewLogs /\ 1 \in Replicas
  BY ThreeReplicas DEF FirstChange
<1>2. PICK l, g : l = rep[p].log /\ g = rep[1].log
  OBVIOUS
<1>3. l \in Seq(Entries) /\ Len(l) \in Nat /\ Len(g) \in Nat
  BY <1>1, <1>2, TypedReplica, StateFields DEF ViewstampInv, ViewChangeTyped
<1>4. ASSUME ~FirstViewLog(l)
      PROVE  /\ Changed(1) /\ \A j \in 1 .. Len(l) : j \in 1 .. Len(g) /\ l[j] = g[j]
  <2>1. Changed(p) /\ Changed(1)
    BY <1>1, <1>2, <1>4 DEF OldLogs, Phases
  <2>2. FollowsNew(rep[p], g)
    BY <1>1, <1>2, <2>1 DEF NewLogs
  <2>3. \A j \in 1 .. Len(l) : j <= Len(g) /\ l[j] = g[j]
    BY <1>2, <1>4, <2>2 DEF FollowsNew
  <2>. QED BY <1>3, <2>1, <2>3
<1>5. CASE FirstViewLog(l)
  <2>1. LastEntryView(l) = 0
    BY <1>3, <1>5, FirstViewLast
  <2>. QED BY <1>2, <1>5, <2>1
<1>6. CASE ~FirstViewLog(l)
  <2>1. PICK i \in 1 .. Len(l) : l[i].view # 0
    BY <1>6 DEF FirstViewLog
  <2>2. PICK n : n = Len(l)
    OBVIOUS
  <2>3. n \in Nat /\ n \in 1 .. n /\ i \in 1 .. n
    BY <1>3, <2>1, <2>2
  <2>4. Changed(1) /\ \A j \in 1 .. n : j \in 1 .. Len(g) /\ l[j] = g[j]
    BY <1>4, <1>6, <2>2
  <2>5. HasEntry(rep[p], i, l[i]) /\ HasEntry(rep[p], n, l[n])
    BY <1>2, <2>1, <2>2, <2>3 DEF HasEntry
  <2>6. l[i].view = 1 /\ l[n].view \in {0, 1}
    BY <1>1, <2>1, <2>5, EntryView
  <2>7. l[n].view = 1
    <3>1. CASE i = n
      BY <2>6, <3>1
    <3>2. CASE i < n
      <4>1. g[i].view <= g[n].view
        BY <1>1, <1>2, <2>3, <2>4, <3>2 DEF NewLogs, ByView
      <4>. QED BY <2>3, <2>4, <2>6, <4>1
    <3>. QED BY <2>3, <3>1, <3>2
  <2>8. l # <<>> /\ LastEntryView(l) = 1
    <3>1. l # <<>>
      BY <2>1
    <3>. QED BY <2>2, <2>7, <3>1 DEF LastEntryView
  <2>. QED BY <1>2, <2>2, <2>4, <2>8 DEF HasEntry
<1>. QED BY <1>5, <1>6

\* What is chosen is in any log that ends no earlier than one that has it.
LEMMA ChosenInNewest ==
    ASSUME F = 1, ViewstampInv, FirstChange, NEW k, NEW e, Chosen(k, e),
           NEW y \in Replicas, HasEntry(rep[y], k, e), NEW p \in Replicas,
           ~Newer(<<LastEntryView(rep[y].log), Len(rep[y].log)>>,
                  <<LastEntryView(rep[p].log), Len(rep[p].log)>>)
    PROVE  HasEntry(rep[p], k, e)
<1>1. Phases /\ OldLogs /\ OwnersHold /\ NewLogs /\ 0 \in Replicas /\ 1 \in Replicas
  BY ThreeReplicas DEF FirstChange
<1>2. PICK h, l : h = rep[y].log /\ l = rep[p].log
  OBVIOUS
<1>3. PICK a, b, m, n : /\ a = LastEntryView(h) /\ b = LastEntryView(l)
                        /\ m = Len(h) /\ n = Len(l)
  OBVIOUS
<1>4. /\ a \in {0, 1} /\ b \in {0, 1} /\ m \in Nat /\ n \in Nat
      /\ a < b \/ (a = b /\ m <= n)
  <2>1. a \in {0, 1} /\ b \in {0, 1}
    BY <1>2, <1>3, LogEnds
  <2>2. m \in Nat /\ n \in Nat
    BY <1>2, <1>3, TypedReplica, StateFields DEF ViewstampInv, ViewChangeTyped
  <2>3. ~ (a > b \/ (a = b /\ m > n))
    BY <1>2, <1>3 DEF Newer
  <2>. QED BY <2>1, <2>2, <2>3
<1>5. k \in 1 .. m /\ h[k] = e
  BY <1>2, <1>3 DEF HasEntry
<1>6. /\ a = 0 => FirstViewLog(h)
      /\ b = 0 => FirstViewLog(l)
      /\ b = 1 => /\ Changed(1) /\ l # <<>>
                  /\ \A j \in 1 .. n : HasEntry(rep[1], j, l[j])
  BY <1>2, <1>3, LogEnds
<1>7. a = 0 => e.view = 0
  BY <1>3, <1>5, <1>6 DEF FirstViewLog
<1>8. k <= n
  <2>1. CASE a = b
    BY <1>4, <1>5, <2>1
  <2>2. CASE a = 0 /\ b = 1
    <3>1. n \in 1 .. n
      BY <1>3, <1>4, <1>6, <2>2
    <3>2. PICK d : d = l[n]
      OBVIOUS
    <3>3. HasEntry(rep[1], n, d) /\ Changed(1)
      BY <1>6, <2>2, <3>1, <3>2
    <3>4. d.view = 1
      BY <1>3, <1>6, <2>2, <3>2 DEF LastEntryView
    <3>5. HasEntry(rep[1], k, e) /\ e.view = 0
      BY <1>7, <2>2, <3>3, ChosenFacts
    <3>6. ByView(rep[1].log)
      BY <1>1, <3>3 DEF NewLogs
    <3>7. ~ (n < k)
      <4>. SUFFICES ASSUME n < k
                    PROVE  FALSE
        OBVIOUS
      <4>1. PICK g : g = rep[1].log
        OBVIOUS
      <4>2. n \in 1 .. Len(g) /\ k \in 1 .. Len(g) /\ g[n].view = 1 /\ g[k].view = 0
        BY <3>3, <3>4, <3>5, <4>1 DEF HasEntry
      <4>3. g[n].view <= g[k].view
        BY <3>6, <4>1, <4>2 DEF ByView
      <4>. QED BY <4>2, <4>3
    <3>. QED BY <1>4, <1>5, <3>7
  <2>. QED BY <1>4, <2>1, <2>2
<1>9. PICK d : d = l[k]
  OBVIOUS
<1>10. HasEntry(rep[p], k, d)
  BY <1>2, <1>3, <1>4, <1>5, <1>8, <1>9 DEF HasEntry
<1>11. d = e
  <2>1. CASE b = 1
    <3>1. HasEntry(rep[1], k, d) /\ Changed(1)
      BY <1>4, <1>5, <1>6, <1>8, <1>9, <2>1
    <3>2. HasEntry(rep[1], k, e)
      BY <3>1, ChosenFacts
    <3>. QED BY <3>1, <3>2 DEF HasEntry
  <2>2. CASE b = 0
    <3>1. d.view = 0
      BY <1>2, <1>6, <1>10, <2>2 DEF FirstViewLog, HasEntry
    <3>2. e.view = 0
      BY <1>4, <1>7, <2>2
    <3>. QED BY <1>1, <1>10, <3>1, <3>2, EntriesAgree
  <2>. QED BY <1>4, <2>1, <2>2
<1>. QED BY <1>10, <1>11

\* Whichever two of three replicas change to view 1, the log that HandleDoViewChange
\* takes for the newest of theirs has whatever any replica has executed, so that the new
\* leader cannot lose it.
THEOREM ExecutedSurviveHolds ==
    ASSUME F = 1, MaxView <= 1, TransferBound = 0
    PROVE  ViewChangeSpec => []ExecutedSurvive
<1>1. ViewChangeInit => FirstChangeInv
  BY FirstChangeStarts
<1>2. FirstChangeInv /\ [ViewChangeNext]_allVars => FirstChangeInv'
  BY FirstChangeKept
<1>3. FirstChangeInv => ExecutedSurvive
  <2>. SUFFICES ASSUME FirstChangeInv, NEW V \in SUBSET Replicas, Cardinality(V) = QuorumSize,
                       NEW log \in NewestLogs(V), NEW r \in Replicas
                PROVE  /\ rep[r].lastCommitted <= Len(log)
                       /\ \A k \in 1 .. rep[r].lastCommitted : rep[r].log[k] = log[k]
    BY DEF ExecutedSurvive
  <2>1. ViewstampInv /\ FirstChange /\ Replicas = {0, 1, 2} /\ Cardinality(V) = 2
    BY ThreeReplicas DEF FirstChangeInv
  <2>2. PICK p \in V :
            /\ log = rep[p].log
            /\ \A x \in V : ~Newer(<<LastEntryView(rep[x].log), Len(rep[x].log)>>,
                                   <<LastEntryView(rep[p].log), Len(rep[p].log)>>)
    BY DEF NewestLogs
  <2>3. p \in Replicas /\ Len(rep[p].log) \in Nat /\ rep[r].lastCommitted \in Nat
    BY <2>1, <2>2, TypedReplica, StateFields DEF ViewstampInv, ViewChangeTyped
  <2>4. ASSUME NEW x \in Replicas, NEW q \in Replicas, x # q
        PROVE  x \in V \/ q \in V
    <3>. SUFFICES ASSUME x \notin V, q \notin V
                  PROVE  FALSE
      OBVIOUS
    <3>1. PICK z : V \subseteq {z}
      BY <2>1, <2>4
    <3>2. IsFiniteSet({z}) /\ Cardinality({z}) = 1
      BY FS_Singleton
    <3>3. Cardinality(V) <= 1
      BY <3>1, <3>2, FS_Subset
    <3>. QED BY <2>1, <3>3
  <2>5. ASSUME NEW k \in 1 .. rep[r].lastCommitted
        PROVE  k <= Len(log) /\ rep[r].log[k] = log[k]
    <3>1. PICK e : e = rep[r].log[k]
      OBVIOUS
    <3>2. Chosen(k, e)
      BY <2>1, <3>1, ExecutedEntry
    <3>3. PICK x \in Replicas, q \in Replicas :
              x # q /\ HasEntry(rep[x], k, e) /\ HasEntry(rep[q], k, e)
      BY <2>1, <3>2 DEF Chosen
    <3>4. PICK y \in V : HasEntry(rep[y], k, e)
      BY <2>4, <3>3
    <3>5. HasEntry(rep[p], k, e)
      BY <2>1, <2>2, <2>3, <3>2, <3>4, ChosenInNewest
    <3>. QED BY <2>2, <3>1, <3>5 DEF HasEntry
  <2>. QED BY <2>2, <2>3, <2>5, LongEnough
<1>. QED BY <1>1, <1>2, <1>3, PTL DEF ViewChangeSpec

\* "We'd better not be removing any committed entries" (Log::RemoveAfter): in the first
\* view change of three replicas no replica does, whichever log it installs.
THEOREM CommittedKeptHolds ==
    ASSUME F = 1, MaxView <= 1, TransferBound = 0
    PROVE  ViewChangeSpec => CommittedKept
<1>1. ViewChangeInit => FirstChangeInv
  BY FirstChangeStarts
<1>2. FirstChangeInv /\ [ViewChangeNext]_allVars => FirstChangeInv'
  BY FirstChangeKept
<1>3. FirstChangeInv /\ [ViewChangeNext]_allVars =>
          \A r \in Replicas : \A k \in 1 .. rep[r].lastCommitted :
              k <= Len(rep'[r].log) /\ rep'[r].log[k] = rep[r].log[k]
  <2>. SUFFICES ASSUME FirstChangeInv, [ViewChangeNext]_allVars, NEW r \in Replicas,
                       NEW k \in 1 .. rep[r].lastCommitted
                PROVE  k <= Len(rep'[r].log) /\ rep'[r].log[k] = rep[r].log[k]
    OBVIOUS
  <2>1. ViewstampInv /\ FirstChange
    BY DEF FirstChangeInv
  <2>2. PICK e : e = rep[r].log[k]
    OBVIOUS
  <2>3. HasEntry(rep[r], k, e) /\ Chosen(k, e)
    BY <2>1, <2>2, ExecutedEntry
  <2>4. PICK s \in Replicas :
            \E t, sent : Proceeds(s, t, sent) \/ TakesOver(s, t, sent) \/ Enters(s, t, sent)
    BY FirstChangeSteps
  <2>5. PICK t, sent : Proceeds(s, t, sent) \/ TakesOver(s, t, sent) \/ Enters(s, t, sent)
    BY <2>4
  <2>6. HasEntry(rep'[r], k, e)
    <3>1. CASE Proceeds(s, t, sent)
      BY <2>1, <2>3, <3>1, ProceedsFacts, ProceedsChosen
    <3>2. CASE TakesOver(s, t, sent)
      <4>1. /\ rep'[1] = t /\ \A p \in Replicas : p # 1 => rep'[p] = rep[p]
            /\ s = 1
        BY <2>1, <3>2, TakesOverFacts DEF TakesOver
      <4>2. PICK x \in Replicas \ {1}, b \in Nat : TakesLog(t, x, b)
        BY <3>2 DEF TakesOver
      <4>3. TakesOver(1, t, sent)
        BY <3>2, <4>1
      <4>4. HasEntry(t, k, e)
        BY <2>1, <2>3, <4>2, <4>3, TakenFacts
      <4>. QED BY <2>3, <4>1, <4>4
    <3>3. CASE Enters(s, t, sent)
      <4>1. rep'[s] = t /\ \A p \in Replicas : p # s => rep'[p] = rep[p]
        BY <2>1, <3>3, EntersFacts
      <4>. QED BY <2>3, <3>3, <4>1 DEF Enters, Keeps
    <3>. QED BY <2>5, <3>1, <3>2, <3>3
  <2>. QED BY <2>2, <2>6 DEF HasEntry
<1>. QED BY <1>1, <1>2, <1>3, PTL DEF ViewChangeSpec, CommittedKept
=============================================================================
