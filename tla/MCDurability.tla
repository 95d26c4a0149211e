----------------------------- MODULE MCDurability -----------------------------
(* Small instances of Durability for TLC. *)
EXTENDS Durability, TLC

CONSTANTS a, b, c, x, y   \* clients and keys

Nilext(k) == [op |-> "nilext", key |-> k]
Write(k) == [op |-> "write", key |-> k]
Read(k) == [op |-> "read", key |-> k]

NoneResent == [op \in Ops |-> 0]
UpdatesResent == [op \in Ops |-> IF op = "nilext" THEN 1 ELSE 0]
ReadsResent == [op \in Ops |-> IF op = "read" THEN 1 ELSE 0]

\* One client updates a key and reads it, another updates it as well.
UpdateAndRead == (a :> <<Nilext(x), Read(x)>>) @@ (b :> <<Nilext(x)>>)

\* The other client first writes the key by way of consensus.
WriteUpdateAndRead == (a :> <<Nilext(x), Read(x)>>) @@ (b :> <<Write(x), Nilext(x)>>)

\* One client reads a key that two others update.
ReadOfTwo == (a :> <<Read(x)>>) @@ (b :> <<Nilext(x)>>) @@ (c :> <<Nilext(x)>>)

\* One client updates two keys, the first one again.
TwoKeys == (a :> <<Nilext(x), Nilext(y), Nilext(x)>>)

\* Two clients update a key each.
Concurrent == (a :> <<Nilext(x)>>) @@ (b :> <<Nilext(y)>>)

\* Bound: of the followers, one executes one operation at most and the other none.
FollowersLag ==
    /\ executed[1] = 0 \/ (executed[1] = 1 /\ ~applied[1])
    /\ executed[2] = 0 /\ ~applied[2]

\* Bound: consensus lags behind the durability servers.
NothingOrdered == decided = <<>>

===============================================================================
