---------------------------- MODULE QuestService ----------------------------
(***************************************************************************)
(* What a client promises of a quest (Client::sendQuest and its callback): *)
(* the call refuses the quest, or accepts it and later settles it exactly  *)
(* once: with the peer's answer, with a timeout, or with the closing of    *)
(* the connection.  Nothing is said of connections, threads or callbacks.  *)
(***************************************************************************)
CONSTANT Quests

VARIABLES
    result,    \* what became of each quest
    served     \* the quests the peer has answered

svars == <<result, served>>

Settled == {"answer", "timeout", "closed"}

Init ==
    /\ result = [q \in Quests |-> "idle"]
    /\ served = {}

Accept(q) ==
    /\ result[q] = "idle"
    /\ result' = [result EXCEPT ![q] = "pending"]
    /\ UNCHANGED served

Refuse(q) ==
    /\ result[q] = "idle"
    /\ result' = [result EXCEPT ![q] = "refused"]
    /\ UNCHANGED served

\* The peer answers a quest it was sent, perhaps after the client gave up.
Serve(q) ==
    /\ result[q] \in {"pending", "timeout", "closed"}
    /\ served' = served \cup {q}
    /\ UNCHANGED result

\* Several quests settle in one step when a connection is closed or the
\* timeout thread finds several deadlines passed.
Settle(S) ==
    /\ S # {}
    /\ \A q \in S : result[q] = "pending"
    /\ \E outcome \in Settled :
          /\ outcome = "answer" => S \subseteq served
          /\ result' = [q \in Quests |-> IF q \in S THEN outcome ELSE result[q]]
    /\ UNCHANGED served

Next ==
    \/ \E q \in Quests : Accept(q) \/ Refuse(q) \/ Serve(q)
    \/ \E S \in SUBSET Quests : Settle(S)

Spec == Init /\ [][Next]_svars
=============================================================================
