-------------------------- MODULE UDPFragmentsProofs --------------------------
(***************************************************************************)
(* What is proved of UDPFragments for every set of receivers, all lengths  *)
(* of messages and any number of messages and restarts of the sender.      *)
(*                                                                         *)
(* Base says what the two ends know of each other: in one life of the      *)
(* sender later messages have larger msgIds, a packet tells the truth of   *)
(* its message, and a receiver holds, position by position, packets of the *)
(* msgId it is at.  Whole adds what an ordered network makes of it: as     *)
(* long as the latest packets are the first k of a message, these are what *)
(* the receiver holds.                                                     *)
(***************************************************************************)
EXTENDS UDPFragments, SequenceTheorems, TLAPS

\* In one life of the sender, messages that are cut have increasing msgIds.
Numbered ==
    /\ \A i \in DOMAIN sent :
           /\ sent[i].total = 1 <=> sent[i].id = 0
           /\ sent[i].restarts <= restarts
           /\ sent[i].restarts = restarts => sent[i].id <= lastFragMsgId
    /\ \A i, j \in DOMAIN sent :
           /\ i < j /\ sent[i].id # 0 /\ sent[j].id # 0
           /\ sent[i].restarts = sent[j].restarts
           => sent[i].id < sent[j].id

\* A packet is of a message that was sent.
FromSent ==
    \A p \in network :
        /\ p.message \in DOMAIN sent
        /\ p.to = sent[p.message].to
        /\ p.id = sent[p.message].id
        /\ p.total = sent[p.message].total

\* Position by position, d is what r has received of messages with msgId id.
Pieces(r, d, id) ==
    \A k \in 1 .. Len(d) :
        \E p \in received[r] : p.id = id /\ p.start = k - 1 /\ d[k] = Fragment(p)

Held ==
    \A r \in Receivers :
        /\ \A p \in received[r] : p.to = r
        /\ Pieces(r, fragInfo[r].data, fragInfo[r].msgId)
        /\ fragInfo[r].msgId # 0 => \E p \in received[r] : p.id = fragInfo[r].msgId

Base == TypeOK /\ Numbered /\ FromSent /\ Held

\* What is put together is of messages that were sent.
Known ==
    \A r \in Receivers : \A d \in assembled[r] : \A k \in DOMAIN d : d[k].message \in DOMAIN sent

\* The first k fragments of message i.
Prefix(i, k) == [j \in 1 .. k |-> [message |-> i, start |-> j - 1]]

\* r has got the first k fragments of message i, and nothing that was sent later.
UpTo(r, i, k) ==
    /\ \A j \in 0 .. k - 1 : \E p \in received[r] : p.message = i /\ p.start = j
    /\ \A q \in received[r] : q.message < i \/ (q.message = i /\ q.start < k)

InOrder(r) == ~disordered[r] /\ restarts = 0

Whole ==
    \A r \in Receivers, i \in DOMAIN sent : \A k \in 1 .. sent[i].total - 1 :
        InOrder(r) /\ UpTo(r, i, k)
            => fragInfo[r] = [msgId |-> sent[i].id, data |-> Prefix(i, k)]


-------------------------------------------------------------------------------
(* What becomes of a packet                                                *)

Info(r, p) == Current(fragInfo[r], p)

Longer(r, p) == Append(Info(r, p).data, Fragment(p))

IsWhole(r, p) == p.total = 1 /\ Dispatch(r, <<Fragment(p)>>) /\ UNCHANGED <<fragInfo, aborted>>

Aborts(r, p) ==
    /\ p.total # 1 /\ TooOld(fragInfo[r], p)
    /\ aborted' = [aborted EXCEPT ![r] = TRUE]
    /\ UNCHANGED <<fragInfo, dispatchVars>>

IsIgnored(r, p) ==
    /\ p.total # 1 /\ ~TooOld(fragInfo[r], p) /\ ~Fits(Info(r, p).data, p)
    /\ fragInfo' = [fragInfo EXCEPT ![r] = Info(r, p)]
    /\ UNCHANGED <<aborted, dispatchVars>>

IsKept(r, p) ==
    /\ p.total # 1 /\ ~TooOld(fragInfo[r], p) /\ Fits(Info(r, p).data, p)
    /\ Len(Longer(r, p)) # p.total
    /\ fragInfo' = [fragInfo EXCEPT ![r] = [msgId |-> p.id, data |-> Longer(r, p)]]
    /\ UNCHANGED <<aborted, dispatchVars>>

IsLast(r, p) ==
    /\ p.total # 1 /\ ~TooOld(fragInfo[r], p) /\ Fits(Info(r, p).data, p)
    /\ Len(Longer(r, p)) = p.total
    /\ fragInfo' = [fragInfo EXCEPT ![r] = NoFragments]
    /\ Dispatch(r, Longer(r, p))
    /\ UNCHANGED aborted

(* What the receiver has of the message of a packet.                        *)
LEMMA InfoFacts ==
  ASSUME Base, NEW r \in Receivers, NEW p \in network
  PROVE  /\ Info(r, p) = [msgId |-> p.id, data |-> Info(r, p).data]
         /\ Info(r, p).data \in Seq(Fragments)
         /\ Pieces(r, Info(r, p).data, p.id)
         /\ Info(r, p).data # <<>> => Info(r, p) = fragInfo[r]
<1>1. fragInfo[r] \in [msgId : Nat, data : Seq(Fragments)] /\ p.id \in Nat
  BY DEF Base, TypeOK
<1>2. CASE fragInfo[r].msgId = p.id
  <2>1. Info(r, p) = fragInfo[r]
    BY <1>2 DEF Info, Current
  <2>2. Pieces(r, fragInfo[r].data, p.id)
    BY <1>2 DEF Base, Held
  <2> QED  BY <1>1, <1>2, <2>1, <2>2
<1>3. CASE fragInfo[r].msgId # p.id
  <2>1. Info(r, p) = [msgId |-> p.id, data |-> <<>>]
    BY <1>3 DEF Info, Current
  <2>2. Pieces(r, <<>>, p.id)
    BY DEF Pieces
  <2>3. <<>> \in Seq(Fragments)
    BY EmptySeq
  <2>4. Info(r, p).data = <<>>
    BY <2>1
  <2> QED  BY <2>1, <2>2, <2>3, <2>4
<1> QED  BY <1>2, <1>3

(* ProcessPacket does one of five things.                                   *)
LEMMA Outcomes ==
  ASSUME Base, NEW r \in Receivers, NEW p \in network, ProcessPacket(r, p)
  PROVE  IsWhole(r, p) \/ Aborts(r, p) \/ IsIgnored(r, p) \/ IsKept(r, p) \/ IsLast(r, p)
<1>1. CASE p.total = 1
  BY <1>1 DEF ProcessPacket, IsWhole
<1>2. CASE p.total # 1
  <2>1. ProcessFragment(r, p)
    BY <1>2 DEF ProcessPacket
  <2>2. \A d : [Info(r, p) EXCEPT !.data = d] = [msgId |-> p.id, data |-> d]
    BY InfoFacts
  <2>3. [Info(r, p) EXCEPT !.data = Longer(r, p)] = [msgId |-> p.id, data |-> Longer(r, p)]
    BY <2>2
  <2>4. \/ Aborts(r, p)
        \/ IsIgnored(r, p)
        \/ /\ ~TooOld(fragInfo[r], p) /\ Fits(Info(r, p).data, p)
           /\ IF Len(Longer(r, p)) = p.total
              THEN fragInfo' = [fragInfo EXCEPT ![r] = NoFragments] /\ Dispatch(r, Longer(r, p))
              ELSE /\ fragInfo' = [fragInfo EXCEPT
                                       ![r] = [Info(r, p) EXCEPT !.data = Longer(r, p)]]
                   /\ UNCHANGED dispatchVars
           /\ UNCHANGED aborted
    BY <1>2, <2>1 DEF ProcessFragment, Info, Longer, Aborts, IsIgnored
  <2> QED  BY <1>2, <2>3, <2>4 DEF IsKept, IsLast
<1> QED  BY <1>1, <1>2

(* What Dispatch does with the message.                                     *)
LEMMA DispatchFacts ==
  ASSUME TypeOK, NEW r \in Receivers, NEW d \in Seq(Fragments), Dispatch(r, d)
  PROVE  /\ reorderBuffer' \in [Receivers -> Seq(Seq(Fragments))]
         /\ delivered' \in [Receivers -> SUBSET Seq(Fragments)]
         /\ assembled' \in [Receivers -> SUBSET Seq(Fragments)]
         /\ dropped' \in [Receivers -> SUBSET Seq(Fragments)]
<1> DEFINE Data == Seq(Fragments)
<1>1. PICK held : held = {reorderBuffer[r][k] : k \in DOMAIN reorderBuffer[r]}
  OBVIOUS
<1>2. d \in Data /\ <<d>> \in Seq(Data) /\ <<>> \in Seq(Data)
  OBVIOUS
<1>3. /\ reorderBuffer \in [Receivers -> Seq(Data)]
      /\ delivered \in [Receivers -> SUBSET Data]
      /\ assembled \in [Receivers -> SUBSET Data]
      /\ dropped \in [Receivers -> SUBSET Data]
  BY DEF TypeOK
<1> HIDE DEF Data
<1>4. held \subseteq Data
  BY <1>1, <1>3
<1>5. /\ assembled' = [assembled EXCEPT ![r] = @ \cup {d}]
      /\ dropped' = dropped \/ dropped' = [dropped EXCEPT ![r] = @ \cup {d}]
      /\ \/ reorderBuffer' = reorderBuffer
         \/ reorderBuffer' = [reorderBuffer EXCEPT ![r] = <<d>>]
         \/ reorderBuffer' = [reorderBuffer EXCEPT ![r] = <<>>]
      /\ delivered' = delivered \/ delivered' = [delivered EXCEPT ![r] = @ \cup {d} \cup held]
  BY <1>1 DEF Dispatch
<1>6. /\ reorderBuffer' \in [Receivers -> Seq(Data)]
      /\ delivered' \in [Receivers -> SUBSET Data]
      /\ assembled' \in [Receivers -> SUBSET Data]
      /\ dropped' \in [Receivers -> SUBSET Data]
  BY <1>2, <1>3, <1>4, <1>5
<1> QED  BY <1>6 DEF Data

(* The pieces with one more.                                                *)
LEMMA LongerFacts ==
  ASSUME Base, NEW r \in Receivers, NEW p \in network
  PROVE  /\ Fragment(p) \in Fragments
         /\ Longer(r, p) \in Seq(Fragments)
         /\ <<Fragment(p)>> \in Seq(Fragments)
         /\ Len(Longer(r, p)) = Len(Info(r, p).data) + 1
<1>1. Fragment(p) \in Fragments
  BY DEF Base, TypeOK, Fragment, Fragments
<1> QED  BY <1>1, InfoFacts DEF Longer

-------------------------------------------------------------------------------
(* Base is inductive                                                       *)

(* Init and every action keep Base.                                         *)
LEMMA BaseInitially == Init => Base
<1> SUFFICES ASSUME Init PROVE Base
  OBVIOUS
<1>1. TypeOK
  BY FragmentsAssumption, EmptySeq DEF Init, TypeOK, NoFragments
<1> QED  BY <1>1 DEF Init, Base, Numbered, FromSent, Held, Pieces, NoFragments

(* The pieces that a receiver holds stay so while it receives more.         *)
LEMMA PiecesKept ==
  ASSUME NEW r \in Receivers, received[r] \subseteq received'[r], NEW d, NEW id, Pieces(r, d, id)
  PROVE  Pieces(r, d, id)'
BY DEF Pieces

(* What is recorded of the messages sent.                                   *)
LEMMA SentFacts ==
  ASSUME TypeOK, NEW i \in DOMAIN sent
  PROVE  /\ i \in Nat \ {0}
         /\ sent[i].to \in Receivers /\ sent[i].total \in Nat \ {0}
         /\ sent[i].id \in Nat /\ sent[i].restarts \in Nat
<1> DEFINE S == [to : Receivers, total : Sizes, id : Nat, restarts : Nat]
<1>1. sent \in Seq(S)
  BY DEF TypeOK
<1> HIDE DEF S
<1>2. sent[i] \in S /\ i \in Nat \ {0}
  BY <1>1
<1> QED  BY <1>2, FragmentsAssumption DEF S

(* A message sent gets a msgId that no earlier one of this life has.        *)
LEMMA BaseSend ==
  ASSUME Base, NEW to \in Receivers, NEW n \in Sizes, SendMessage(to, n)
  PROVE  Base'
<1> DEFINE id == IF n = 1 THEN 0 ELSE lastFragMsgId + 1
           m == [to |-> to, total |-> n, id |-> id, restarts |-> restarts]
           new == {[to |-> to, id |-> id, message |-> Len(sent) + 1, start |-> k, total |-> n]
                   : k \in Offsets(n)}
<1>1. n \in Nat \ {0} /\ lastFragMsgId \in Nat /\ restarts \in Nat /\ id \in Nat
  BY FragmentsAssumption DEF Base, TypeOK
<1>2. /\ sent' = Append(sent, m)
      /\ lastFragMsgId' = IF n = 1 THEN lastFragMsgId ELSE id
      /\ network' = network \cup new
      /\ restarts' = restarts /\ UNCHANGED <<dispatchVars, receiverVars>>
  BY DEF SendMessage
<1> DEFINE Sends == [to : Receivers, total : Sizes, id : Nat, restarts : Nat]
<1>3. sent \in Seq(Sends) /\ m \in Sends /\ Len(sent) \in Nat
  BY <1>1 DEF Base, TypeOK
<1> HIDE DEF id, Sends
<1>4. /\ sent' \in Seq(Sends) /\ DOMAIN sent = 1 .. Len(sent) /\ DOMAIN sent' = 1 .. Len(sent) + 1
      /\ \A i \in DOMAIN sent : sent'[i] = sent[i]
      /\ sent'[Len(sent) + 1] = m
  BY <1>2, <1>3
<1>5. /\ m.to = to /\ m.total = n /\ m.id = id /\ m.restarts = restarts
  OBVIOUS
<1> HIDE DEF m
<1>6. \A p \in new : /\ p \in [to : Receivers, id : Nat, message : Nat \ {0}, start : Nat, total : Sizes]
                     /\ p.start < p.total /\ p.message = Len(sent) + 1
                     /\ p.to = to /\ p.id = id /\ p.total = n
  BY <1>1, <1>3 DEF Offsets
<1> HIDE DEF new
<1>7. TypeOK'
  <2>1. lastFragMsgId' \in Nat /\ restarts' \in Nat
    BY <1>1, <1>2
  <2>2. sent' \in Seq([to : Receivers, total : Sizes, id : Nat, restarts : Nat])
    BY <1>4 DEF Sends
  <2>3. /\ network' \subseteq [to : Receivers, id : Nat, message : Nat \ {0}, start : Nat, total : Sizes]
        /\ \A p \in network' : p.start < p.total
    BY <1>2, <1>6 DEF Base, TypeOK
  <2>4. received' \in [Receivers -> SUBSET network']
    BY <1>2 DEF Base, TypeOK, receiverVars
  <2> QED  BY <1>2, <2>1, <2>2, <2>3, <2>4 DEF Base, TypeOK, dispatchVars, receiverVars
<1>8. Numbered'
  <2>1. \A i \in DOMAIN sent : sent[i].id \in Nat /\ sent[i].restarts \in Nat
    BY SentFacts DEF Base
  <2>2. ASSUME NEW i \in DOMAIN sent'
        PROVE  /\ sent'[i].total = 1 <=> sent'[i].id = 0
               /\ sent'[i].restarts <= restarts'
               /\ sent'[i].restarts = restarts' => sent'[i].id <= lastFragMsgId'
    <3>1. CASE i \in DOMAIN sent
      BY <1>1, <1>2, <1>4, <2>1, <3>1 DEF Base, Numbered, id
    <3>2. CASE i = Len(sent) + 1
      BY <1>1, <1>2, <1>4, <1>5, <3>2 DEF id
    <3> QED  BY <1>4, <1>3, <3>1, <3>2
  <2>3. ASSUME NEW i \in DOMAIN sent', NEW j \in DOMAIN sent', i < j,
               sent'[i].id # 0, sent'[j].id # 0, sent'[i].restarts = sent'[j].restarts
        PROVE  sent'[i].id < sent'[j].id
    <3>1. i \in DOMAIN sent /\ sent'[i] = sent[i]
      BY <1>3, <1>4, <2>3
    <3>2. CASE j \in DOMAIN sent
      BY <1>4, <2>3, <3>1, <3>2 DEF Base, Numbered
    <3>3. CASE j = Len(sent) + 1
      <4>1. sent'[j].id = lastFragMsgId + 1 /\ sent[i].restarts = restarts
        BY <1>4, <1>5, <2>3, <3>1, <3>3 DEF id
      <4>2. sent[i].id <= lastFragMsgId
        BY <3>1, <4>1 DEF Base, Numbered
      <4> QED  BY <1>1, <2>1, <3>1, <4>1, <4>2
    <3> QED  BY <1>3, <1>4, <3>2, <3>3
  <2> QED  BY <2>2, <2>3 DEF Numbered
<1>9. FromSent'
  <2>1. \A p \in network : /\ p.message \in DOMAIN sent' /\ sent'[p.message] = sent[p.message]
    BY <1>3, <1>4 DEF Base, FromSent
  <2>2. \A p \in network : /\ p.to = sent'[p.message].to
                           /\ p.id = sent'[p.message].id /\ p.total = sent'[p.message].total
    BY <2>1 DEF Base, FromSent
  <2>3. \A p \in new : /\ p.message \in DOMAIN sent' /\ p.to = sent'[p.message].to
                       /\ p.id = sent'[p.message].id /\ p.total = sent'[p.message].total
    BY <1>3, <1>4, <1>5, <1>6
  <2> QED  BY <1>2, <2>1, <2>2, <2>3 DEF FromSent
<1>10. Held'
  BY <1>2, PiecesKept DEF Base, Held, Pieces, receiverVars
<1> QED  BY <1>7, <1>8, <1>9, <1>10 DEF Base

(* A restart begins a new life.                                             *)
LEMMA BaseRestart ==
  ASSUME Base, Restart
  PROVE  Base'
<1>1. /\ restarts \in Nat /\ restarts' = restarts + 1 /\ lastFragMsgId' = 0
      /\ UNCHANGED <<network, sent, dispatchVars, receiverVars>>
  BY DEF Restart, Base, TypeOK
<1>2. TypeOK'
  BY <1>1 DEF Base, TypeOK, dispatchVars, receiverVars
<1>3. Numbered'
  <2>1. \A i \in DOMAIN sent : sent[i].restarts \in Nat /\ sent[i].id \in Nat
    BY SentFacts DEF Base
  <2> QED  BY <1>1, <2>1 DEF Base, Numbered
<1>4. FromSent' /\ Held'
  BY <1>1 DEF Base, FromSent, Held, Pieces, receiverVars
<1> QED  BY <1>2, <1>3, <1>4 DEF Base

(* A packet received is kept as the next piece, or it starts anew.          *)
LEMMA BasePacket ==
  ASSUME Base, NEW r \in Receivers, NEW p \in network, ProcessPacket(r, p)
  PROVE  Base'
<1>1. /\ UNCHANGED senderVars /\ p.to = r
      /\ received' = [received EXCEPT ![r] = @ \cup {p}]
      /\ disordered' = [disordered EXCEPT ![r] = @ \/ \E q \in received[r] : ~SentAfter(p, q)]
  BY DEF ProcessPacket
<1>2. /\ received' \in [Receivers -> SUBSET network']
      /\ received'[r] = received[r] \cup {p}
      /\ \A s \in Receivers : s # r => received'[s] = received[s]
      /\ \A s \in Receivers : received[s] \subseteq received'[s]
  BY <1>1 DEF Base, TypeOK, senderVars
<1>3. disordered' \in [Receivers -> BOOLEAN]
  BY <1>1, Zenon DEF Base, TypeOK
<1>4. \/ fragInfo' = fragInfo
      \/ \E d \in Seq(Fragments) :
            /\ fragInfo' = [fragInfo EXCEPT ![r] = [msgId |-> p.id, data |-> d]]
            /\ Pieces(r, d, p.id)'
      \/ fragInfo' = [fragInfo EXCEPT ![r] = NoFragments]
  <2>1. CASE IsWhole(r, p) \/ Aborts(r, p)
    BY <2>1 DEF IsWhole, Aborts
  <2>2. CASE IsIgnored(r, p)
    <3>1. Pieces(r, Info(r, p).data, p.id)
      BY InfoFacts
    <3>2. PICK d : d = Info(r, p).data
      OBVIOUS
    <3>3. Pieces(r, d, p.id)'
      BY <1>2, <3>1, <3>2, PiecesKept
    <3> QED  BY <2>2, <3>2, <3>3, InfoFacts DEF IsIgnored
  <2>3. CASE IsKept(r, p)
    <3>1. PICK d, e : d = Info(r, p).data /\ e = Longer(r, p)
      OBVIOUS
    <3>2. d \in Seq(Fragments) /\ Fragment(p) \in Fragments /\ e = Append(d, Fragment(p))
      BY <3>1, InfoFacts, LongerFacts DEF Longer
    <3>3. Pieces(r, d, p.id)'
      BY <1>2, <3>1, InfoFacts, PiecesKept
    <3>4. p.start = Len(d) /\ p \in received'[r]
      BY <1>2, <2>3, <3>1 DEF IsKept, Fits
    <3>5. \A k \in 1 .. Len(e) : IF k = Len(d) + 1 THEN e[k] = Fragment(p)
                                 ELSE k \in 1 .. Len(d) /\ e[k] = d[k]
      BY <3>2
    <3>6. Pieces(r, e, p.id)'
      BY <3>2, <3>3, <3>4, <3>5 DEF Pieces
    <3>7. e \in Seq(Fragments)
      BY <3>2
    <3> QED  BY <2>3, <3>1, <3>6, <3>7 DEF IsKept
  <2>4. CASE IsLast(r, p)
    BY <2>4 DEF IsLast
  <2> QED  BY <2>1, <2>2, <2>3, <2>4, Outcomes
<1>5. fragInfo' \in [Receivers -> [msgId : Nat, data : Seq(Fragments)]]
  <2> DEFINE F == [msgId : Nat, data : Seq(Fragments)]
  <2>1. NoFragments \in F /\ \A d \in Seq(Fragments) : [msgId |-> p.id, data |-> d] \in F
    BY EmptySeq DEF NoFragments, Base, TypeOK
  <2>2. fragInfo \in [Receivers -> F]
    BY DEF Base, TypeOK
  <2> HIDE DEF F
  <2>3. fragInfo' \in [Receivers -> F]
    BY <1>4, <2>1, <2>2
  <2> QED  BY <2>3 DEF F
<1>6. aborted' \in [Receivers -> BOOLEAN]
  <2>1. aborted \in [Receivers -> BOOLEAN]
    BY DEF Base, TypeOK
  <2>2. aborted' = aborted \/ aborted' = [aborted EXCEPT ![r] = TRUE]
    BY Outcomes DEF IsWhole, Aborts, IsIgnored, IsKept, IsLast
  <2> QED  BY <2>1, <2>2, Zenon
<1>7. /\ reorderBuffer' \in [Receivers -> Seq(Seq(Fragments))]
      /\ delivered' \in [Receivers -> SUBSET Seq(Fragments)]
      /\ assembled' \in [Receivers -> SUBSET Seq(Fragments)]
      /\ dropped' \in [Receivers -> SUBSET Seq(Fragments)]
  <2>1. UNCHANGED dispatchVars \/ \E d \in Seq(Fragments) : Dispatch(r, d)
    BY Outcomes, LongerFacts DEF IsWhole, Aborts, IsIgnored, IsKept, IsLast
  <2>2. TypeOK
    BY DEF Base
  <2>3. CASE UNCHANGED dispatchVars
    BY <2>2, <2>3 DEF TypeOK, dispatchVars
  <2>4. CASE \E d \in Seq(Fragments) : Dispatch(r, d)
    BY <2>2, <2>4, DispatchFacts
  <2> QED  BY <2>1, <2>3, <2>4
<1>8. TypeOK'
  BY <1>1, <1>2, <1>3, <1>5, <1>6, <1>7 DEF Base, TypeOK, senderVars
<1>9. Numbered' /\ FromSent'
  BY <1>1 DEF Base, Numbered, FromSent, senderVars
<1>10. Held'
  <2> SUFFICES ASSUME NEW s \in Receivers
               PROVE  /\ \A q \in received'[s] : q.to = s
                      /\ \A k \in 1 .. Len(fragInfo'[s].data) :
                             \E q \in received'[s] :
                                 /\ q.id = fragInfo'[s].msgId /\ q.start = k - 1
                                 /\ fragInfo'[s].data[k] = Fragment(q)
                      /\ fragInfo'[s].msgId # 0 =>
                             \E q \in received'[s] : q.id = fragInfo'[s].msgId
    BY DEF Held, Pieces
  <2>1. \A q \in received'[s] : q.to = s
    BY <1>1, <1>2 DEF Base, Held
  <2>2. CASE fragInfo'[s] = fragInfo[s]
    <3>1. received[s] \subseteq received'[s]
      BY <1>2
    <3> QED  BY <2>1, <2>2, <3>1 DEF Base, Held, Pieces
  <2>3. CASE s = r /\ fragInfo'[r] = NoFragments
    <3>1. fragInfo'[s].msgId = 0 /\ Len(fragInfo'[s].data) = 0
      BY <2>3 DEF NoFragments
    <3> QED  BY <2>1, <3>1
  <2>4. ASSUME s = r, NEW d, fragInfo'[r] = [msgId |-> p.id, data |-> d], Pieces(r, d, p.id)'
        PROVE  /\ \A k \in 1 .. Len(fragInfo'[s].data) :
                      \E q \in received'[s] :
                          /\ q.id = fragInfo'[s].msgId /\ q.start = k - 1
                          /\ fragInfo'[s].data[k] = Fragment(q)
               /\ \E q \in received'[s] : q.id = fragInfo'[s].msgId
    <3>1. p \in received'[s] /\ fragInfo'[s].msgId = p.id /\ fragInfo'[s].data = d
      BY <1>2, <2>4
    <3> QED  BY <2>4, <3>1 DEF Pieces
  <2>5. fragInfo'[s] = fragInfo[s] \/ (s = r /\ fragInfo'[r] = NoFragments)
        \/ (s = r /\ \E d : fragInfo'[r] = [msgId |-> p.id, data |-> d] /\ Pieces(r, d, p.id)')
    BY <1>4 DEF Base, TypeOK
  <2> QED  BY <2>1, <2>2, <2>3, <2>4, <2>5
<1> QED  BY <1>8, <1>9, <1>10 DEF Base

(* Every step keeps Base.                                                   *)
LEMMA BaseInductive == Base /\ [Next]_vars => Base'
<1> SUFFICES ASSUME Base, [Next]_vars PROVE Base'
  OBVIOUS
<1>1. CASE UNCHANGED vars
  BY <1>1 DEF Base, TypeOK, Numbered, FromSent, Held, Pieces, vars, senderVars, dispatchVars, receiverVars
<1> QED  BY <1>1, BaseSend, BaseRestart, BasePacket DEF Next

(* TypeOK for every instance: what a receiver holds of a message, and what it *)
(* has received, come from the network.                                       *)
THEOREM TypeCorrect == Spec => []TypeOK
<1>1. Base => TypeOK
  BY DEF Base
<1> QED  BY <1>1, BaseInitially, BaseInductive, PTL DEF Spec

(* What is known of the messages of a run that a step continues.            *)
LEMMA SentGrows ==
  ASSUME Base, [Next]_vars
  PROVE  /\ \A i \in DOMAIN sent : i \in DOMAIN sent' /\ sent'[i] = sent[i] /\ FragmentsOf(i)' = FragmentsOf(i)
         /\ restarts' # restarts => restarts' # 0
<1>1. CASE sent' = sent
  <2>1. restarts' # restarts => restarts' # 0
    <3>1. restarts \in Nat
      BY DEF Base, TypeOK
    <3>2. restarts' = restarts \/ restarts' = restarts + 1
      BY DEF Next, SendMessage, Restart, ProcessPacket, vars, senderVars
    <3> QED  BY <3>1, <3>2
  <2> QED  BY <1>1, <2>1 DEF FragmentsOf
<1>2. ASSUME NEW to \in Receivers, NEW n \in Sizes, SendMessage(to, n)
      PROVE  /\ \A i \in DOMAIN sent : i \in DOMAIN sent' /\ sent'[i] = sent[i]
             /\ restarts' = restarts
  <2>1. PICK m : sent' = Append(sent, m)
    BY <1>2 DEF SendMessage
  <2>2. restarts' = restarts
    BY <1>2 DEF SendMessage
  <2> DEFINE S == [to : Receivers, total : Sizes, id : Nat, restarts : Nat]
  <2>3. sent \in Seq(S)
    BY DEF Base, TypeOK
  <2> HIDE DEF S
  <2> QED  BY <2>1, <2>2, <2>3
<1>3. sent' = sent \/ \E to \in Receivers, n \in Sizes : SendMessage(to, n)
  BY DEF Next, Restart, ProcessPacket, vars, senderVars
<1> QED  BY <1>1, <1>2, <1>3 DEF FragmentsOf

(* What may be added to the assembled messages of a receiver.               *)
Assembling(r, d) ==
    assembled' = [assembled EXCEPT ![r] = @ \cup {d}]

(* Only a packet that is whole, or the last of its message, assembles one.  *)
LEMMA AssembledBy ==
  ASSUME Base, [Next]_vars
  PROVE  \/ assembled' = assembled
         \/ \E r \in Receivers : \E p \in network :
               /\ ProcessPacket(r, p)
               /\ (IsWhole(r, p) /\ Assembling(r, <<Fragment(p)>>)) \/ (IsLast(r, p) /\ Assembling(r, Longer(r, p)))
<1>1. CASE \E r \in Receivers : \E p \in network : ProcessPacket(r, p)
  <2>1. PICK r \in Receivers, p \in network : ProcessPacket(r, p)
    BY <1>1
  <2>2. \A d : Dispatch(r, d) => Assembling(r, d)
    BY DEF Dispatch, Assembling
  <2>3. CASE IsWhole(r, p)
    BY <2>1, <2>2, <2>3 DEF IsWhole
  <2>4. CASE IsLast(r, p)
    BY <2>1, <2>2, <2>4 DEF IsLast
  <2>5. CASE Aborts(r, p) \/ IsIgnored(r, p) \/ IsKept(r, p)
    BY <2>5 DEF Aborts, IsIgnored, IsKept, dispatchVars
  <2> QED  BY <2>1, <2>3, <2>4, <2>5, Outcomes
<1>2. CASE ~\E r \in Receivers : \E p \in network : ProcessPacket(r, p)
  BY <1>2 DEF Next, SendMessage, Restart, vars, dispatchVars
<1> QED  BY <1>1, <1>2

(* The pieces of what p completes are packets of the same msgId.            *)
LEMMA LongerPieces ==
  ASSUME Base, NEW r \in Receivers, NEW p \in network, ProcessPacket(r, p), Fits(Info(r, p).data, p)
  PROVE  /\ \A k \in 1 .. Len(Longer(r, p)) :
                \E q \in network : q.id = p.id /\ q.to = r /\ q.start = k - 1 /\ Longer(r, p)[k] = Fragment(q)
         /\ Longer(r, p)[Len(Longer(r, p))] = Fragment(p)
         /\ Len(Longer(r, p)) \in Nat \ {0}
<1>1. PICK d, e : d = Info(r, p).data /\ e = Longer(r, p)
  OBVIOUS
<1>2. d \in Seq(Fragments) /\ Fragment(p) \in Fragments /\ e = Append(d, Fragment(p))
  BY <1>1, InfoFacts, LongerFacts DEF Longer
<1>3. /\ Len(d) \in Nat /\ Len(e) = Len(d) + 1 /\ e[Len(e)] = Fragment(p)
      /\ \A k \in 1 .. Len(d) : e[k] = d[k]
  BY <1>2
<1>4. p.start = Len(d)
  BY <1>1 DEF Fits
<1>5. p.to = r /\ received[r] \subseteq network /\ \A q \in received[r] : q.to = r
  BY DEF ProcessPacket, Base, TypeOK, Held
<1>6. Pieces(r, d, p.id)
  BY <1>1, InfoFacts
<1>7. ASSUME NEW k \in 1 .. Len(e)
      PROVE  \E q \in network : q.id = p.id /\ q.to = r /\ q.start = k - 1 /\ e[k] = Fragment(q)
  <2>1. CASE k = Len(e)
    BY <1>3, <1>4, <1>5, <2>1
  <2>2. CASE k \in 1 .. Len(d)
    BY <1>3, <1>5, <1>6, <2>2 DEF Pieces
  <2> QED  BY <1>3, <2>1, <2>2
<1> QED  BY <1>1, <1>3, <1>7

(* ... so that they are of one message, or the sender was restarted.        *)
LEMMA LongerIsWhole ==
  ASSUME Base, NEW r \in Receivers, NEW p \in network, ProcessPacket(r, p), IsLast(r, p)
  PROVE  /\ \A k \in DOMAIN Longer(r, p) : Longer(r, p)[k].message \in DOMAIN sent
         /\ SentWhole(r, Longer(r, p)) \/ AcrossRestart(Longer(r, p))
<1>1. PICK e : e = Longer(r, p)
  OBVIOUS
<1>2. /\ e \in Seq(Fragments) /\ Len(e) = p.total /\ Len(e) \in Nat \ {0} /\ DOMAIN e = 1 .. Len(e)
      /\ e[Len(e)] = Fragment(p)
      /\ \A k \in 1 .. Len(e) :
             \E q \in network : q.id = p.id /\ q.to = r /\ q.start = k - 1 /\ e[k] = Fragment(q)
  BY <1>1, LongerFacts, LongerPieces DEF IsLast
<1>3. /\ \A q \in network : Fragment(q).message = q.message /\ Fragment(q).start = q.start
                            /\ q.message \in DOMAIN sent /\ sent[q.message].id = q.id
      /\ p.message \in DOMAIN sent /\ sent[p.message].to = r /\ sent[p.message].total = p.total
      /\ p.id # 0
  BY DEF Fragment, Base, FromSent, Numbered, IsLast, ProcessPacket
<1>4. \A k \in DOMAIN e : e[k].message \in DOMAIN sent
  BY <1>2, <1>3
<1>5. ASSUME ~AcrossRestart(e) PROVE SentWhole(r, e)
  <2>1. ASSUME NEW k \in 1 .. Len(e) PROVE e[k] = [message |-> p.message, start |-> k - 1]
    <3>1. PICK q \in network : q.id = p.id /\ q.start = k - 1 /\ e[k] = Fragment(q)
      BY <1>2
    <3>2. sent[q.message].restarts = sent[p.message].restarts
      <4>1. Len(e) \in DOMAIN e /\ k \in DOMAIN e
        BY <1>2
      <4>2. e[k].message = q.message /\ e[Len(e)].message = p.message
        BY <1>2, <1>3, <3>1
      <4> QED  BY <1>5, <4>1, <4>2 DEF AcrossRestart
    <3>3. q.message \in DOMAIN sent /\ p.message \in DOMAIN sent
          /\ sent[q.message].id = p.id /\ sent[p.message].id = p.id /\ p.id # 0 /\ p.id \in Nat
          /\ q.message \in Nat /\ p.message \in Nat
      BY <1>3, <3>1 DEF Base, TypeOK
    <3>4. ~(q.message < p.message) /\ ~(p.message < q.message)
      BY <3>2, <3>3 DEF Base, Numbered
    <3>5. q.message = p.message
      BY <3>3, <3>4
    <3> QED  BY <3>1, <3>5 DEF Fragment
  <2>2. e = FragmentsOf(p.message)
    <3>1. e = [k \in 1 .. Len(e) |-> e[k]] /\ Len(e) = sent[p.message].total
      BY <1>2, <1>3
    <3>2. e = [k \in 1 .. Len(e) |-> [message |-> p.message, start |-> k - 1]]
      BY <2>1, <3>1
    <3> QED  BY <3>1, <3>2 DEF FragmentsOf
  <2> QED  BY <1>3, <2>2 DEF SentWhole
<1> QED  BY <1>1, <1>4, <1>5

(* A message that is not cut comes as it was sent.                          *)
LEMMA SingleIsWhole ==
  ASSUME Base, NEW r \in Receivers, NEW p \in network, ProcessPacket(r, p), p.total = 1
  PROVE  /\ \A k \in DOMAIN <<Fragment(p)>> : <<Fragment(p)>>[k].message \in DOMAIN sent
         /\ <<Fragment(p)>> = FragmentsOf(p.message)
         /\ SentWhole(r, <<Fragment(p)>>)
<1>1. p.message \in DOMAIN sent /\ sent[p.message].to = r /\ sent[p.message].total = 1
  BY DEF Base, FromSent, ProcessPacket
<1>2. p.start = 0
  BY DEF Base, TypeOK
<1>3. Fragment(p) = [message |-> p.message, start |-> 0] /\ Fragment(p).message = p.message
  BY <1>2 DEF Fragment
<1>4. <<Fragment(p)>> = FragmentsOf(p.message)
  BY <1>1, <1>3 DEF FragmentsOf
<1> QED  BY <1>1, <1>3, <1>4 DEF SentWhole

SpliceInv == Base /\ Known /\ NoSplice

(* Every step keeps SpliceInv.                                              *)
LEMMA SpliceInductive == SpliceInv /\ [Next]_vars => SpliceInv'
<1> SUFFICES ASSUME SpliceInv, [Next]_vars PROVE SpliceInv'
  OBVIOUS
<1>1. Base /\ Base'
  BY BaseInductive DEF SpliceInv
<1> DEFINE Good(s, d) == /\ \A k \in DOMAIN d : d[k].message \in DOMAIN sent
                         /\ SentWhole(s, d) \/ AcrossRestart(d)
<1>2. ASSUME NEW s, NEW d, Good(s, d)
      PROVE  /\ \A k \in DOMAIN d : d[k].message \in DOMAIN sent'
             /\ SentWhole(s, d)' \/ AcrossRestart(d)'
  <2>1. \A k \in DOMAIN d : /\ d[k].message \in DOMAIN sent'
                            /\ sent'[d[k].message] = sent[d[k].message]
    BY <1>1, <1>2, SentGrows
  <2>2. SentWhole(s, d) => SentWhole(s, d)'
    BY <1>1, SentGrows DEF SentWhole
  <2>3. AcrossRestart(d) => AcrossRestart(d)'
    BY <2>1 DEF AcrossRestart
  <2> QED  BY <1>2, <2>1, <2>2, <2>3
<1>3. ASSUME NEW s \in Receivers, NEW d \in assembled'[s] PROVE Good(s, d)
  <2>1. CASE d \in assembled[s]
    BY <2>1 DEF SpliceInv, Known, NoSplice
  <2>2. CASE d \notin assembled[s]
    <3>1. PICK r \in Receivers, p \in network :
             /\ ProcessPacket(r, p)
             /\ (IsWhole(r, p) /\ Assembling(r, <<Fragment(p)>>)) \/ (IsLast(r, p) /\ Assembling(r, Longer(r, p)))
      BY <1>1, <2>2, AssembledBy
    <3>2. ASSUME NEW e, Assembling(r, e) PROVE s = r /\ d = e
      BY <1>1, <2>2, <3>2 DEF Assembling, Base, TypeOK
    <3>3. CASE IsWhole(r, p) /\ Assembling(r, <<Fragment(p)>>)
      BY <1>1, <3>1, <3>2, <3>3, SingleIsWhole DEF IsWhole
    <3>4. CASE IsLast(r, p) /\ Assembling(r, Longer(r, p))
      BY <1>1, <3>1, <3>2, <3>4, LongerIsWhole
    <3> QED  BY <3>1, <3>3, <3>4
  <2> QED  BY <2>1, <2>2
<1> HIDE DEF Good
<1>4. Known' /\ NoSplice'
  BY <1>2, <1>3 DEF Known, NoSplice
<1> QED  BY <1>1, <1>4 DEF SpliceInv

(* What a receiver puts together is a message that was sent to it, whatever  *)
(* packets are lost, repeated or late (udptransport.cc ProcessPacket), unless *)
(* the sender was started again between the fragments.                       *)
THEOREM NoSpliceHolds == Spec => []NoSplice
<1>1. Init => SpliceInv
  BY BaseInitially DEF Init, SpliceInv, Known, NoSplice
<1>2. SpliceInv => NoSplice
  BY DEF SpliceInv
<1> QED  BY <1>1, <1>2, SpliceInductive, PTL DEF Spec

-------------------------------------------------------------------------------
(* The simulated faults                                                    *)

(* Each way of dispatching a message leaves it, and the one held back, somewhere. *)
LEMMA ForgottenInductive == Base /\ NothingForgotten /\ [Next]_vars => NothingForgotten'
<1> SUFFICES ASSUME Base, NothingForgotten, [Next]_vars PROVE NothingForgotten'
  OBVIOUS
<1>1. CASE UNCHANGED dispatchVars
  BY <1>1 DEF NothingForgotten, dispatchVars
<1>2. ASSUME NEW r \in Receivers, NEW e, Dispatch(r, e) PROVE NothingForgotten'
  <2> DEFINE Kept(d, s) == d \in delivered[s] \cup dropped[s] \/ reorderBuffer[s] = <<d>>
  <2>1. PICK held : held = {reorderBuffer[r][k] : k \in DOMAIN reorderBuffer[r]}
    OBVIOUS
  <2>2. /\ assembled' = [assembled EXCEPT ![r] = @ \cup {e}]
        /\ \/ /\ dropped' = [dropped EXCEPT ![r] = @ \cup {e}]
              /\ UNCHANGED <<reorderBuffer, delivered>>
           \/ /\ reorderBuffer[r] = <<>>
              /\ reorderBuffer' = [reorderBuffer EXCEPT ![r] = <<e>>]
              /\ UNCHANGED <<delivered, dropped>>
           \/ /\ delivered' = [delivered EXCEPT ![r] = @ \cup {e} \cup held]
              /\ reorderBuffer' = [reorderBuffer EXCEPT ![r] = <<>>]
              /\ UNCHANGED dropped
    BY <1>2, <2>1 DEF Dispatch, MayHold
  <2>3. /\ DOMAIN assembled = Receivers /\ DOMAIN dropped = Receivers
        /\ DOMAIN delivered = Receivers /\ DOMAIN reorderBuffer = Receivers
    BY DEF Base, TypeOK
  <2>4. \A d : <<d>> # <<>> /\ (reorderBuffer[r] = <<d>> => d \in held)
    BY <2>1
  <2> SUFFICES ASSUME NEW s \in Receivers, NEW d \in assembled'[s]
               PROVE  d \in delivered'[s] \cup dropped'[s] \/ reorderBuffer'[s] = <<d>>
    BY DEF NothingForgotten
  <2>5. d \in assembled[s] \/ (s = r /\ d = e)
    BY <2>2, <2>3
  <2>6. d \in assembled[s] => d \in delivered[s] \cup dropped[s] \/ reorderBuffer[s] = <<d>>
    BY DEF NothingForgotten
  <2>7. CASE s # r
    BY <2>2, <2>3, <2>5, <2>6, <2>7
  <2>8. CASE s = r
    BY <2>2, <2>3, <2>4, <2>5, <2>6, <2>8
  <2> QED  BY <2>7, <2>8
<1>3. UNCHANGED dispatchVars \/ \E r \in Receivers : \E e : Dispatch(r, e)
  <2>1. ASSUME NEW r \in Receivers, NEW p \in network, ProcessPacket(r, p)
        PROVE  UNCHANGED dispatchVars \/ \E e : Dispatch(r, e)
    BY <2>1, Outcomes DEF IsWhole, Aborts, IsIgnored, IsKept, IsLast
  <2> QED  BY <2>1 DEF Next, SendMessage, Restart, vars
<1> QED  BY <1>1, <1>2, <1>3

(* What is put together is delivered, dropped on purpose or held back: the     *)
(* message held back is never replaced by another (udptransport.cc            *)
(* reorderBuffer).                                                             *)
THEOREM NothingForgottenHolds == Spec => []NothingForgotten
<1>1. Init => Base /\ NothingForgotten
  BY BaseInitially DEF Init, NothingForgotten
<1>2. Base /\ NothingForgotten /\ [Next]_vars => Base' /\ NothingForgotten'
  BY BaseInductive, ForgottenInductive
<1> QED  BY <1>1, <1>2, PTL DEF Spec

-------------------------------------------------------------------------------
(* A network that keeps the order of a sender's packets                    *)

(* While the sender is not restarted, later messages have larger msgIds.     *)
LEMMA LaterHasLargerId ==
  ASSUME Base, restarts = 0, NEW p \in network, NEW q \in network, p.total # 1
  PROVE  /\ p.id # 0 /\ p.id \in Nat /\ q.id \in Nat
         /\ p.message \in Nat /\ q.message \in Nat /\ p.start \in Nat /\ q.start \in Nat
         /\ p.message > q.message => p.id > q.id
         /\ p.message = q.message => p.id = q.id
         /\ q.id = p.id => q.message = p.message
<1>1. /\ p.id \in Nat /\ q.id \in Nat /\ p.message \in Nat /\ q.message \in Nat
      /\ p.start \in Nat /\ q.start \in Nat
  BY DEF Base, TypeOK
<1>2. /\ p.message \in DOMAIN sent /\ q.message \in DOMAIN sent
      /\ p.id = sent[p.message].id /\ q.id = sent[q.message].id
      /\ p.total = sent[p.message].total
  BY DEF Base, FromSent
<1>3. p.id # 0
  BY <1>2 DEF Base, Numbered
<1>4. sent[p.message].restarts = 0 /\ sent[q.message].restarts = 0
  <2>1. \A i \in DOMAIN sent : sent[i].restarts \in Nat /\ sent[i].restarts <= 0
    BY SentFacts DEF Base, Numbered
  <2> QED  BY <1>2, <2>1
<1>5. p.message > q.message => p.id > q.id
  BY <1>1, <1>2, <1>3, <1>4 DEF Base, Numbered
<1>6. p.message < q.message /\ q.id # 0 => p.id < q.id
  BY <1>1, <1>2, <1>3, <1>4 DEF Base, Numbered
<1> QED  BY <1>1, <1>2, <1>3, <1>5, <1>6

(* A packet in order is not of a message older than the one held.           *)
LEMMA NotTooOld ==
  ASSUME Base, NEW r \in Receivers, NEW p \in network, ProcessPacket(r, p), p.total # 1,
         ~disordered'[r], restarts = 0
  PROVE  ~TooOld(fragInfo[r], p)
<1>1. received[r] \subseteq network /\ \A q \in received[r] : SentAfter(p, q)
  BY DEF ProcessPacket, Base, TypeOK
<1>2. SUFFICES ASSUME fragInfo[r].msgId # 0 PROVE ~(p.id < fragInfo[r].msgId)
  BY DEF TooOld
<1>3. PICK q \in received[r] : q.id = fragInfo[r].msgId
  BY <1>2 DEF Base, Held
<1>4. p.message > q.message \/ p.message = q.message
  BY <1>1, <1>3 DEF SentAfter
<1> QED  BY <1>1, <1>3, <1>4, LaterHasLargerId

AbortInv == Base /\ AbortOnlyIfDisordered

(* Every step keeps AbortInv.                                               *)
LEMMA AbortInductive == AbortInv /\ [Next]_vars => AbortInv'
<1> SUFFICES ASSUME AbortInv, [Next]_vars PROVE AbortOnlyIfDisordered'
  BY BaseInductive DEF AbortInv
<1>1. restarts \in Nat /\ (restarts' = restarts \/ restarts' = restarts + 1)
  BY DEF AbortInv, Base, TypeOK, Next, SendMessage, Restart, ProcessPacket, vars, senderVars
<1>2. CASE UNCHANGED <<aborted, disordered>>
  BY <1>1, <1>2 DEF AbortInv, AbortOnlyIfDisordered
<1>3. ASSUME NEW r \in Receivers, NEW p \in network, ProcessPacket(r, p) PROVE AbortOnlyIfDisordered'
  <2>1. /\ restarts' = restarts
        /\ \A s \in Receivers : s # r => disordered'[s] = disordered[s]
        /\ disordered[r] => disordered'[r]
    BY <1>3 DEF ProcessPacket, senderVars, AbortInv, Base, TypeOK
  <2>2. CASE aborted' = aborted
    BY <2>1, <2>2 DEF AbortInv, AbortOnlyIfDisordered
  <2>3. CASE Aborts(r, p)
    <3>1. \A s \in Receivers : s # r => aborted'[s] = aborted[s]
      BY <2>3 DEF Aborts, AbortInv, Base, TypeOK
    <3>2. disordered'[r] \/ restarts # 0
      BY <1>3, <2>3, NotTooOld DEF Aborts, AbortInv
    <3> QED  BY <1>1, <2>1, <3>1, <3>2 DEF AbortInv, AbortOnlyIfDisordered
  <2> QED  BY <1>3, <2>2, <2>3, Outcomes DEF AbortInv, IsWhole, IsIgnored, IsKept, IsLast
<1> QED  BY <1>2, <1>3 DEF Next, SendMessage, Restart, vars, receiverVars

(* The ASSERT of udptransport.cc ProcessPacket that msgIds increase fails only *)
(* if packets come out of order or the sender was started again: what is lost *)
(* does not matter.                                                            *)
THEOREM AbortOnlyIfDisorderedHolds == Spec => []AbortOnlyIfDisordered
<1>1. Init => AbortInv
  BY BaseInitially DEF Init, AbortInv, AbortOnlyIfDisordered
<1>2. AbortInv => AbortOnlyIfDisordered
  BY DEF AbortInv
<1> QED  BY <1>1, <1>2, AbortInductive, PTL DEF Spec

(* Prefixes grow one fragment at a time.                                    *)
LEMMA PrefixFacts ==
  ASSUME NEW i \in Nat \ {0}, NEW k \in Nat
  PROVE  /\ Prefix(i, k) \in Seq(Fragments) /\ Len(Prefix(i, k)) = k
         /\ k = 0 => Prefix(i, k) = <<>>
         /\ Append(Prefix(i, k), [message |-> i, start |-> k]) = Prefix(i, k + 1)
<1>1. [message |-> i, start |-> k] \in Fragments /\ \A j \in 1 .. k : [message |-> i, start |-> j - 1] \in Fragments
  BY DEF Fragments
<1>2. Prefix(i, k) \in Seq(Fragments) /\ Len(Prefix(i, k)) = k
  BY <1>1 DEF Prefix
<1>3. PICK a : a = Append(Prefix(i, k), [message |-> i, start |-> k])
  OBVIOUS
<1>4. /\ a \in Seq(Fragments) /\ Len(a) = k + 1
      /\ \A j \in 1 .. k + 1 : a[j] = [message |-> i, start |-> j - 1]
  BY <1>1, <1>2, <1>3 DEF Prefix
<1>5. a = [j \in 1 .. k + 1 |-> a[j]]
  BY <1>4
<1>6. a = Prefix(i, k + 1)
  BY <1>4, <1>5 DEF Prefix
<1>7. k = 0 => Prefix(i, k) = <<>>
  BY <1>2
<1> QED  BY <1>2, <1>3, <1>6, <1>7

(* When all that was sent before packet p of its message has arrived, in     *)
(* order, the receiver holds it.                                            *)
LEMMA Continues ==
  ASSUME Base, Whole, NEW r \in Receivers, NEW p \in network, ProcessPacket(r, p),
         p.total # 1, ~disordered'[r], restarts = 0,
         \A j \in 0 .. p.start - 1 : \E q \in received[r] : q.message = p.message /\ q.start = j
  PROVE  /\ Fits(Info(r, p).data, p)
         /\ Longer(r, p) = Prefix(p.message, p.start + 1)
<1>1. /\ received[r] \subseteq network
      /\ \A q \in received[r] : SentAfter(p, q)
      /\ ~disordered[r] /\ p.to = r
  BY DEF ProcessPacket, Base, TypeOK
<1>2. /\ p.start \in Nat /\ p.message \in Nat \ {0} /\ p.start < p.total /\ p.total \in Nat
      /\ p.message \in DOMAIN sent /\ sent[p.message].id = p.id /\ sent[p.message].total = p.total
  BY FragmentsAssumption DEF Base, TypeOK, FromSent
<1>3. Info(r, p).data = Prefix(p.message, p.start)
  <2>1. CASE p.start = 0
    <3>1. SUFFICES ASSUME Info(r, p).data # <<>> PROVE FALSE
      BY <1>2, <2>1, PrefixFacts
    <3>2. PICK d : d = Info(r, p).data /\ d \in Seq(Fragments) /\ d # <<>> /\ Pieces(r, d, p.id)
      BY <3>1, InfoFacts
    <3>3. 1 \in 1 .. Len(d)
      BY <3>2
    <3>4. PICK q \in received[r] : q.id = p.id
      BY <3>2, <3>3 DEF Pieces
    <3>5. q \in network /\ q.message = p.message /\ q.start \in Nat
      BY <1>1, <3>4, LaterHasLargerId
    <3>6. SentAfter(p, q)
      BY <1>1
    <3> QED  BY <1>2, <2>1, <3>5, <3>6 DEF SentAfter
  <2>2. CASE p.start # 0
    <3>1. \A q \in received[r] : q.message < p.message \/ (q.message = p.message /\ q.start < p.start)
      BY <1>1, <1>2, LaterHasLargerId DEF SentAfter
    <3>2. UpTo(r, p.message, p.start)
      BY <3>1 DEF UpTo
    <3>3. p.start \in 1 .. sent[p.message].total - 1
      BY <1>2, <2>2
    <3>4. fragInfo[r] = [msgId |-> p.id, data |-> Prefix(p.message, p.start)]
      BY <1>1, <1>2, <3>2, <3>3 DEF Whole, InOrder
    <3> QED  BY <3>4 DEF Info, Current
  <2> QED  BY <2>1, <2>2
<1>4. Fits(Info(r, p).data, p)
  BY <1>2, <1>3, PrefixFacts DEF Fits
<1>5. Longer(r, p) = Prefix(p.message, p.start + 1)
  BY <1>2, <1>3, PrefixFacts DEF Longer, Fragment
<1> QED  BY <1>4, <1>5

MissedInv == Base /\ Whole /\ NothingMissed

(* Packet p is the latest that r got, if they came in order.                *)
LEMMA Latest ==
  ASSUME Base, NEW r \in Receivers, NEW p \in network, ProcessPacket(r, p), ~disordered'[r],
         NEW i \in Nat, NEW k \in Nat, NEW q \in received'[r], q.message = i, q.start = k,
         p.message < i \/ (p.message = i /\ p.start <= k)
  PROVE  q = p
<1>1. received'[r] = received[r] \cup {p} /\ received[r] \subseteq network
  BY DEF ProcessPacket, Base, TypeOK
<1>2. p.message \in Nat /\ p.start \in Nat
  BY DEF Base, TypeOK
<1>3. \A s \in received[r] : SentAfter(p, s)
  BY DEF ProcessPacket, Base, TypeOK
<1> QED  BY <1>1, <1>2, <1>3 DEF SentAfter

(* A packet that continues the message at hand extends or completes it.     *)
LEMMA MissedPacket ==
  ASSUME MissedInv, NEW r \in Receivers, NEW p \in network, ProcessPacket(r, p)
  PROVE  Whole' /\ NothingMissed'
<1>1. Base /\ Whole /\ NothingMissed /\ Base'
  BY BaseInductive DEF MissedInv, Next
<1>2. /\ UNCHANGED <<sent, restarts>> /\ p.to = r
      /\ \A s \in Receivers : s # r => /\ received'[s] = received[s] /\ fragInfo'[s] = fragInfo[s]
                                       /\ disordered'[s] = disordered[s]
      /\ received'[r] = received[r] \cup {p} /\ received[r] \subseteq network
      /\ disordered[r] => disordered'[r]
  <2>1. \A s \in Receivers : s # r => fragInfo'[s] = fragInfo[s]
    <3>1. fragInfo' = fragInfo \/ \E v : fragInfo' = [fragInfo EXCEPT ![r] = v]
      BY <1>1, Outcomes DEF IsWhole, Aborts, IsIgnored, IsKept, IsLast
    <3>2. DOMAIN fragInfo = Receivers
      BY <1>1 DEF Base, TypeOK
    <3> QED  BY <3>1, <3>2
  <2> QED  BY <1>1, <2>1 DEF ProcessPacket, Base, TypeOK, senderVars
<1>3. \A s \in Receivers : assembled[s] \subseteq assembled'[s]
  <2>1. assembled' = assembled \/ \E d : Assembling(r, d)
    <3>1. UNCHANGED dispatchVars \/ \E d : Dispatch(r, d)
      BY <1>1, Outcomes DEF IsWhole, Aborts, IsIgnored, IsKept, IsLast
    <3> QED  BY <3>1 DEF Dispatch, Assembling, dispatchVars
  <2>2. DOMAIN assembled = Receivers
    BY <1>1 DEF Base, TypeOK
  <2>3. \A s \in Receivers : \A d : assembled[s] \subseteq [assembled EXCEPT ![r] = @ \cup {d}][s]
    BY <2>2
  <2> QED  BY <2>1, <2>3 DEF Assembling
<1>4. \A i \in DOMAIN sent : FragmentsOf(i)' = FragmentsOf(i)
  BY <1>2 DEF FragmentsOf
<1>5. /\ p.start \in Nat /\ p.message \in Nat \ {0} /\ p.start < p.total /\ p.total \in Nat \ {0}
      /\ p.message \in DOMAIN sent /\ sent[p.message].id = p.id /\ sent[p.message].total = p.total
  BY <1>1, FragmentsAssumption DEF Base, TypeOK, FromSent
<1>6. ASSUME p.total # 1, ~disordered'[r], restarts = 0,
             \A j \in 0 .. p.start - 1 : \E q \in received'[r] : q.message = p.message /\ q.start = j
      PROVE  /\ ~TooOld(fragInfo[r], p) /\ Fits(Info(r, p).data, p)
             /\ Longer(r, p) = Prefix(p.message, p.start + 1)
  <2>1. \A j \in 0 .. p.start - 1 : \E q \in received[r] : q.message = p.message /\ q.start = j
    BY <1>2, <1>5, <1>6
  <2> QED  BY <1>1, <1>6, <2>1, Continues, NotTooOld
<1>7. ASSUME NEW s \in Receivers, NEW i \in DOMAIN sent, NEW k \in 1 .. sent[i].total - 1,
             ~disordered'[s], restarts = 0, UpTo(s, i, k)'
      PROVE  fragInfo'[s] = [msgId |-> sent[i].id, data |-> Prefix(i, k)]
  <2>1. CASE s # r
    BY <1>1, <1>2, <1>7, <2>1 DEF Whole, InOrder, UpTo
  <2>2. CASE s = r
    <3>1. i \in Nat /\ sent[i].total \in Nat /\ k \in Nat /\ k - 1 \in Nat /\ k < sent[i].total
      BY <1>1, SentFacts DEF Base
    <3>2. p.message < i \/ (p.message = i /\ p.start <= k - 1)
      BY <1>2, <1>5, <1>7, <2>2, <3>1 DEF UpTo
    <3>3. PICK q \in received'[r] : q.message = i /\ q.start = k - 1
      BY <1>7, <2>2, <3>1 DEF UpTo
    <3>4. q = p
      BY <1>1, <1>7, <2>2, <3>1, <3>2, <3>3, Latest
    <3>5. p.message = i /\ p.start = k - 1 /\ p.total # 1 /\ p.total # k
      BY <1>5, <3>1, <3>3, <3>4
    <3>6. \A j \in 0 .. p.start - 1 : \E x \in received'[r] : x.message = p.message /\ x.start = j
      BY <1>7, <2>2, <3>1, <3>5 DEF UpTo
    <3>7. /\ ~TooOld(fragInfo[r], p) /\ Fits(Info(r, p).data, p)
          /\ Longer(r, p) = Prefix(i, k) /\ Len(Longer(r, p)) = k
      <4>1. p.start + 1 = k
        BY <3>1, <3>5
      <4>2. /\ ~TooOld(fragInfo[r], p) /\ Fits(Info(r, p).data, p)
            /\ Longer(r, p) = Prefix(p.message, p.start + 1)
        BY <1>6, <1>7, <2>2, <3>5, <3>6
      <4> QED  BY <1>5, <3>1, <3>5, <4>1, <4>2, PrefixFacts
    <3>8. IsKept(r, p)
      BY <1>1, <3>5, <3>7, Outcomes DEF IsWhole, Aborts, IsIgnored, IsLast
    <3> QED  BY <1>1, <1>5, <2>2, <3>5, <3>7, <3>8 DEF IsKept, Base, TypeOK
  <2> QED  BY <2>1, <2>2
<1>8. ASSUME NEW s \in Receivers, NEW i \in DOMAIN sent, ~disordered'[s], restarts = 0, sent[i].to = s,
             \A k \in 0 .. sent[i].total - 1 : \E q \in received'[s] : q.message = i /\ q.start = k
      PROVE  FragmentsOf(i) \in assembled'[s]
  <2>1. CASE \A k \in 0 .. sent[i].total - 1 : \E q \in received[s] : q.message = i /\ q.start = k
    BY <1>1, <1>2, <1>3, <1>8, <2>1 DEF NothingMissed
  <2>2. CASE ~\A k \in 0 .. sent[i].total - 1 : \E q \in received[s] : q.message = i /\ q.start = k
    <3>1. s = r /\ p.message = i
      BY <1>2, <1>8, <2>2
    <3>2. CASE p.total = 1
      <4>1. IsWhole(r, p)
        BY <1>1, <3>2, Outcomes DEF Aborts, IsIgnored, IsKept, IsLast
      <4>2. Assembling(r, <<Fragment(p)>>)
        BY <4>1 DEF IsWhole, Dispatch, Assembling
      <4>3. <<Fragment(p)>> = FragmentsOf(i)
        BY <1>1, <3>1, <3>2, SingleIsWhole
      <4> QED  BY <1>1, <3>1, <4>2, <4>3 DEF Assembling, Base, TypeOK
    <3>3. CASE p.total # 1
      <4>1. p.total - 1 \in 0 .. sent[i].total - 1 /\ p.total - 1 \in Nat /\ i \in Nat
        BY <1>5, <3>1
      <4>2. PICK q \in received'[r] : q.message = i /\ q.start = p.total - 1
        BY <1>8, <3>1, <4>1
      <4>3. p.start <= p.total - 1
        BY <1>5
      <4>4. q = p
        BY <1>1, <1>8, <3>1, <4>1, <4>2, <4>3, Latest
      <4>5. p.start + 1 = p.total
        BY <1>5, <4>2, <4>4
      <4>6. \A j \in 0 .. p.start - 1 : \E x \in received'[r] : x.message = p.message /\ x.start = j
        BY <1>5, <1>8, <3>1, <4>5
      <4>7. /\ ~TooOld(fragInfo[r], p) /\ Fits(Info(r, p).data, p)
            /\ Longer(r, p) = Prefix(i, p.total) /\ Len(Longer(r, p)) = p.total
        <5>1. /\ ~TooOld(fragInfo[r], p) /\ Fits(Info(r, p).data, p)
              /\ Longer(r, p) = Prefix(p.message, p.start + 1)
          BY <1>6, <1>8, <3>1, <3>3, <4>6
        <5> QED  BY <1>5, <3>1, <4>5, <5>1, PrefixFacts
      <4>8. IsLast(r, p)
        BY <1>1, <3>3, <4>7, Outcomes DEF IsWhole, Aborts, IsIgnored, IsKept
      <4>9. Assembling(r, Longer(r, p))
        BY <4>8 DEF IsLast, Dispatch, Assembling
      <4>10. Longer(r, p) = FragmentsOf(i)
        BY <1>5, <3>1, <4>7 DEF Prefix, FragmentsOf
      <4> QED  BY <1>1, <3>1, <4>9, <4>10 DEF Assembling, Base, TypeOK
    <3> QED  BY <3>2, <3>3
  <2> QED  BY <2>1, <2>2
<1> QED  BY <1>2, <1>4, <1>7, <1>8 DEF Whole, NothingMissed, InOrder

(* A message just sent has no packet received.                              *)
LEMMA MissedSend ==
  ASSUME MissedInv, NEW to \in Receivers, NEW n \in Sizes, SendMessage(to, n)
  PROVE  Whole' /\ NothingMissed'
<1>1. Base /\ Whole /\ NothingMissed
  BY DEF MissedInv
<1>2. UNCHANGED <<restarts, assembled, fragInfo, received, disordered>>
  BY DEF SendMessage, dispatchVars, receiverVars
<1>3. /\ \A i \in DOMAIN sent : i \in DOMAIN sent' /\ sent'[i] = sent[i] /\ FragmentsOf(i)' = FragmentsOf(i)
      /\ \A i \in DOMAIN sent' : sent'[i].total \in Nat \ {0}
  <2>1. TypeOK'
    BY <1>1, BaseSend DEF Base
  <2>2. \A i \in DOMAIN sent' : sent'[i].total \in Nat \ {0}
    <3> DEFINE S == [to : Receivers, total : Sizes, id : Nat, restarts : Nat]
    <3>1. sent' \in Seq(S)
      BY <2>1 DEF TypeOK
    <3> HIDE DEF S
    <3>2. \A i \in DOMAIN sent' : sent'[i] \in S
      BY <3>1
    <3> QED  BY <3>2, FragmentsAssumption DEF S
  <2> QED  BY <1>1, <2>2, SentGrows DEF Next
<1>4. \A s \in Receivers : \A q \in received[s] : q.message \in DOMAIN sent
  BY <1>1 DEF Base, TypeOK, FromSent
<1>5. ASSUME NEW s \in Receivers, NEW i \in DOMAIN sent', NEW k \in 1 .. sent'[i].total - 1,
             InOrder(s)', UpTo(s, i, k)'
      PROVE  fragInfo'[s] = [msgId |-> sent'[i].id, data |-> Prefix(i, k)]
  <2>1. \E q \in received[s] : q.message = i
    BY <1>2, <1>3, <1>5 DEF UpTo
  <2>2. i \in DOMAIN sent
    BY <1>4, <2>1
  <2> QED  BY <1>1, <1>2, <1>3, <1>5, <2>2 DEF Whole, InOrder, UpTo
<1>6. ASSUME NEW s \in Receivers, NEW i \in DOMAIN sent', ~disordered'[s], restarts' = 0, sent'[i].to = s,
             \A k \in 0 .. sent'[i].total - 1 : \E q \in received'[s] : q.message = i /\ q.start = k
      PROVE  FragmentsOf(i)' \in assembled'[s]
  <2>1. \E q \in received[s] : q.message = i
    BY <1>2, <1>3, <1>6
  <2>2. i \in DOMAIN sent
    BY <1>4, <2>1
  <2> QED  BY <1>1, <1>2, <1>3, <1>6, <2>2 DEF NothingMissed
<1> QED  BY <1>5, <1>6 DEF Whole, NothingMissed

(* Every step keeps MissedInv.                                              *)
LEMMA MissedInductive == MissedInv /\ [Next]_vars => MissedInv'
<1> SUFFICES ASSUME MissedInv, [Next]_vars PROVE Whole' /\ NothingMissed'
  BY BaseInductive DEF MissedInv
<1>1. CASE Restart
  <2>1. restarts' # 0
    BY <1>1 DEF Restart, MissedInv, Base, TypeOK
  <2> QED  BY <2>1 DEF Whole, NothingMissed, InOrder
<1>2. CASE UNCHANGED vars
  BY <1>2 DEF MissedInv, Whole, NothingMissed, InOrder, UpTo, FragmentsOf,
              vars, senderVars, dispatchVars, receiverVars
<1> QED  BY <1>1, <1>2, MissedSend, MissedPacket DEF Next

(* A message whose packets all arrive in order is put together, whatever was *)
(* lost of the messages before it: an incomplete one is given up for it       *)
(* (udptransport.cc ProcessPacket).                                            *)
THEOREM NothingMissedHolds == Spec => []NothingMissed
<1>1. Init => MissedInv
  BY BaseInitially DEF Init, MissedInv, Whole, NothingMissed
<1>2. MissedInv => NothingMissed
  BY DEF MissedInv
<1> QED  BY <1>1, <1>2, MissedInductive, PTL DEF Spec

===============================================================================
