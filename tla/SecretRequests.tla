--------------------------- MODULE SecretRequests ---------------------------
(***************************************************************************)
(* What an approval of an agent secret promises: a request is decided at   *)
(* most once.  A request is not made yet, open, granted or over; it moves  *)
(* only forward, so a decided, expired or withdrawn request never opens    *)
(* again and a grant that was revoked, spent, expired or deleted with its  *)
(* secret never returns.  One step may move any number of requests (the    *)
(* deletion of a secret ends all of its own).                              *)
(***************************************************************************)
CONSTANT Requests
VARIABLE life

Stages == {"unmade", "open", "granted", "over"}
Moves ==
    {<<"unmade", "open">>, <<"open", "granted">>,
     <<"open", "over">>, <<"granted", "over">>}

Init == life = [r \in Requests |-> "unmade"]

Next ==
    /\ life' \in [Requests -> Stages]
    /\ \A r \in Requests :
          life'[r] = life[r] \/ <<life[r], life'[r]>> \in Moves

Spec == Init /\ [][Next]_life
=============================================================================
