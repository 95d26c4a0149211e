----------------------------- MODULE UDPFragments -----------------------------
(***************************************************************************)
(* How a large message crosses the network, lib/udptransport.cc: the       *)
(* sender cuts it into fragments with a common msgId, the receiver puts    *)
(* them together again, and simulated faults drop or hold back what comes  *)
(* out.  One sender, which has an address of its own, and the transports   *)
(* it sends to.                                                            *)
(*                                                                         *)
(* A packet is received any number of times, in any order, or never, which *)
(* covers a sendto that fails half-way.  Fragments but the last have the   *)
(* same length, so offsets and lengths are counted in fragments.           *)
(***************************************************************************)
EXTENDS Integers, Sequences, FiniteSets

CONSTANTS
    Receivers,     \* the transports that receive
    Sizes,         \* in how many packets a message may go; 1: it is not cut
    Drops,         \* dropRate > 0
    Reorders,      \* reorderRate > 0
    MaxSent,       \* bound: messages sent
    MaxRestarts    \* bound: how often the process of the sender is started again

ASSUME FragmentsAssumption ==
    /\ Sizes \subseteq Nat \ {0}
    /\ Drops \in BOOLEAN /\ Reorders \in BOOLEAN
    /\ MaxSent \in Nat /\ MaxRestarts \in Nat

VARIABLES
    lastFragMsgId,  \* the msgId of the last message that was cut
    restarts,       \* how often the sender was started again
    network,        \* packets sent
    fragInfo,       \* fragInfo[r]: what r has of a message, and the msgId of it
    reorderBuffer,  \* reorderBuffer[r]: the message held back, if any
    delivered,      \* delivered[r]: what r has passed to its receiver
    aborted,        \* aborted[r]: the process of r failed an ASSERT
    sent,           \* history: the messages sent
    received,       \* history: received[r]: the packets that r has processed
    disordered,     \* history: disordered[r]: r got a packet twice, or after a later one
    assembled,      \* history: assembled[r]: the messages r has made of packets
    dropped         \* history: dropped[r]: those dropped on purpose

senderVars == <<lastFragMsgId, restarts, network, sent>>
dispatchVars == <<reorderBuffer, delivered, assembled, dropped>>
receiverVars == <<fragInfo, aborted, received, disordered>>
vars == <<senderVars, dispatchVars, receiverVars>>

\* A fragment is the message it is of, by its place in sent, and its position.
FragmentsOf(i) == [k \in 1 .. sent[i].total |-> [message |-> i, start |-> k - 1]]

NoFragments == [msgId |-> 0, data |-> <<>>]

-------------------------------------------------------------------------------
(* The sender                                                              *)

\* Broken on purpose: the loop goes on up to the length of the message.
OffsetsInclusive(n) == 0 .. n

\* Where the fragments of a message of n start.
Offsets(n) == 0 .. n - 1

\* _SendMessageInternal.
SendMessage(to, n) ==
    /\ Len(sent) < MaxSent
    /\ LET id == IF n = 1 THEN 0 ELSE lastFragMsgId + 1
       IN
       /\ sent' = Append(sent, [to |-> to, total |-> n, id |-> id, restarts |-> restarts])
       /\ lastFragMsgId' = IF n = 1 THEN lastFragMsgId ELSE id
       /\ network' = network \cup
              {[to |-> to, id |-> id, message |-> Len(sent) + 1, start |-> k, total |-> n]
               : k \in Offsets(n)}
    /\ UNCHANGED <<restarts, dispatchVars, receiverVars>>

\* The process of the sender is started again; its transport counts from 0.
Restart ==
    /\ restarts < MaxRestarts
    /\ restarts' = restarts + 1
    /\ lastFragMsgId' = 0
    /\ UNCHANGED <<network, sent, dispatchVars, receiverVars>>

-------------------------------------------------------------------------------
(* The receiver, ProcessPacket                                             *)

\* Broken on purpose: a message is held back although another one is.
MayHoldAlways(r) == Reorders

MayHold(r) == Reorders /\ reorderBuffer[r] = <<>>

\* What is done with message d: it is dropped, it is held back until the next one,
\* or it is delivered, and then what was held back.
Dispatch(r, d) ==
    /\ assembled' = [assembled EXCEPT ![r] = @ \cup {d}]
    /\ \/ /\ Drops
          /\ dropped' = [dropped EXCEPT ![r] = @ \cup {d}]
          /\ UNCHANGED <<reorderBuffer, delivered>>
       \/ /\ MayHold(r)
          /\ reorderBuffer' = [reorderBuffer EXCEPT ![r] = <<d>>]
          /\ UNCHANGED <<delivered, dropped>>
       \/ /\ delivered' = [delivered EXCEPT ![r] =
                              @ \cup {d} \cup {reorderBuffer[r][k] : k \in DOMAIN reorderBuffer[r]}]
          /\ reorderBuffer' = [reorderBuffer EXCEPT ![r] = <<>>]
          /\ UNCHANGED dropped

\* Broken on purpose: the fragments of the message before are not cleared.
CurrentUncleared(info, p) == [info EXCEPT !.msgId = p.id]

\* What the receiver has of the message that packet p is of: nothing, if it has
\* another one.
Current(info, p) == IF info.msgId = p.id THEN info ELSE [msgId |-> p.id, data |-> <<>>]

\* Broken on purpose: no message of the sender may be missing.
TooOldUnlessNext(info, p) == info.msgId \notin {0, p.id} /\ p.id # info.msgId + 1

\* ASSERT(msgId > info.msgId) fails.
TooOld(info, p) == info.msgId # 0 /\ p.id < info.msgId

Fragment(p) == [message |-> p.message, start |-> p.start]

\* Broken on purpose: what has the length of the message is taken for complete, the
\* order of its fragments is not looked at.
FitsAnyOrder(data, p) == Fragment(p) \notin {data[k] : k \in DOMAIN data}

Fits(data, p) == p.start = Len(data)

ProcessFragment(r, p) ==
    LET info == Current(fragInfo[r], p)
        data == Append(info.data, Fragment(p))
    IN
    \/ /\ TooOld(fragInfo[r], p)
       /\ aborted' = [aborted EXCEPT ![r] = TRUE]
       /\ UNCHANGED <<fragInfo, dispatchVars>>
    \* "Fragments out of order"
    \/ /\ ~TooOld(fragInfo[r], p)
       /\ ~Fits(info.data, p)
       /\ fragInfo' = [fragInfo EXCEPT ![r] = info]
       /\ UNCHANGED <<aborted, dispatchVars>>
    \/ /\ ~TooOld(fragInfo[r], p)
       /\ Fits(info.data, p)
       /\ IF Len(data) = p.total
          THEN fragInfo' = [fragInfo EXCEPT ![r] = NoFragments] /\ Dispatch(r, data)
          ELSE fragInfo' = [fragInfo EXCEPT ![r] = [info EXCEPT !.data = data]]
                   /\ UNCHANGED dispatchVars
       /\ UNCHANGED aborted

\* Packet p was sent after packet q.
SentAfter(p, q) == p.message > q.message \/ (p.message = q.message /\ p.start > q.start)

ProcessPacket(r, p) ==
    /\ p.to = r
    /\ ~aborted[r]
    /\ received' = [received EXCEPT ![r] = @ \cup {p}]
    /\ disordered' = [disordered EXCEPT ![r] = @ \/ \E q \in received[r] : ~SentAfter(p, q)]
    /\ IF p.total = 1
       THEN Dispatch(r, <<Fragment(p)>>) /\ UNCHANGED <<fragInfo, aborted>>
       ELSE ProcessFragment(r, p)
    /\ UNCHANGED senderVars

-------------------------------------------------------------------------------

Init ==
    /\ lastFragMsgId = 0
    /\ restarts = 0
    /\ network = {}
    /\ sent = <<>>
    /\ fragInfo = [r \in Receivers |-> NoFragments]
    /\ reorderBuffer = [r \in Receivers |-> <<>>]
    /\ delivered = [r \in Receivers |-> {}]
    /\ aborted = [r \in Receivers |-> FALSE]
    /\ received = [r \in Receivers |-> {}]
    /\ disordered = [r \in Receivers |-> FALSE]
    /\ assembled = [r \in Receivers |-> {}]
    /\ dropped = [r \in Receivers |-> {}]

Next ==
    \/ \E to \in Receivers, n \in Sizes : SendMessage(to, n)
    \/ Restart
    \/ \E r \in Receivers : \E p \in network : ProcessPacket(r, p)

Spec == Init /\ [][Next]_vars

-------------------------------------------------------------------------------
(* Properties                                                              *)

Fragments == [message : Nat \ {0}, start : Nat]

TypeOK ==
    /\ lastFragMsgId \in Nat
    /\ restarts \in Nat
    /\ network \subseteq [to : Receivers, id : Nat, message : Nat \ {0}, start : Nat, total : Sizes]
    /\ \A p \in network : p.start < p.total
    /\ sent \in Seq([to : Receivers, total : Sizes, id : Nat, restarts : Nat])
    /\ fragInfo \in [Receivers -> [msgId : Nat, data : Seq(Fragments)]]
    /\ reorderBuffer \in [Receivers -> Seq(Seq(Fragments))]
    /\ delivered \in [Receivers -> SUBSET Seq(Fragments)]
    /\ aborted \in [Receivers -> BOOLEAN]
    /\ received \in [Receivers -> SUBSET network]
    /\ disordered \in [Receivers -> BOOLEAN]
    /\ assembled \in [Receivers -> SUBSET Seq(Fragments)]
    /\ dropped \in [Receivers -> SUBSET Seq(Fragments)]

\* d is a message that was sent to r, from the first to the last fragment.
SentWhole(r, d) == \E i \in DOMAIN sent : sent[i].to = r /\ d = FragmentsOf(i)

\* Fragments of d were sent before and after the sender was started again.
AcrossRestart(d) ==
    \E j, k \in DOMAIN d : sent[d[j].message].restarts # sent[d[k].message].restarts

\* Whatever packets are lost, repeated or late, a receiver makes no message but
\* those that were sent to it; fragments of two messages come together only if
\* the sender was started again in between.
NoSplice ==
    \A r \in Receivers : \A d \in assembled[r] : SentWhole(r, d) \/ AcrossRestart(d)

\* The ASSERT of ProcessPacket fails only if the network does not keep the order of
\* a sender's packets or if the sender was started again: gaps are harmless.
AbortOnlyIfDisordered ==
    \A r \in Receivers : aborted[r] => disordered[r] \/ restarts > 0

\* A message whose fragments all arrive, in order, is put together, whatever was
\* lost of the messages before it.
NothingMissed ==
    \A r \in Receivers : \A i \in DOMAIN sent :
        /\ ~disordered[r] /\ restarts = 0
        /\ sent[i].to = r
        /\ \A k \in 0 .. sent[i].total - 1 : \E p \in received[r] : p.message = i /\ p.start = k
        => FragmentsOf(i) \in assembled[r]

\* No message is forgotten by the simulated reordering: what was put together is
\* delivered, dropped on purpose or held back.
NothingForgotten ==
    \A r \in Receivers : \A d \in assembled[r] :
        d \in delivered[r] \cup dropped[r] \/ reorderBuffer[r] = <<d>>

===============================================================================
