---------------------------- MODULE TransferLife ----------------------------
(***************************************************************************)
(* What a sealed transfer promises its receiver: an envelope is sealed     *)
(* once, queues at most once, and is then either written once as a record  *)
(* or ended for good, however often it is delivered, resumed or accepted.  *)
(* `Transfer` implements this specification.                               *)
(***************************************************************************)
EXTENDS Naturals

CONSTANT Ids
VARIABLES life, written

Lives == {"unsealed", "sealed", "queued", "accepted", "ended"}
Init == life = [t \in Ids |-> "unsealed"] /\ written = [t \in Ids |-> 0]

Seal(t) ==
    /\ life[t] = "unsealed" /\ life' = [life EXCEPT ![t] = "sealed"]
    /\ UNCHANGED written
Accept(t) ==
    /\ life[t] = "queued" /\ life' = [life EXCEPT ![t] = "accepted"]
    /\ written' = [written EXCEPT ![t] = @ + 1]
\* A sweep or a new key ends several at once, and a delivery first sweeps.
EndAndQueue ==
    /\ life' \in [Ids -> Lives]
    /\ \A t \in Ids : life'[t] # life[t] =>
        <<life[t], life'[t]>> \in {<<"queued", "ended">>, <<"sealed", "queued">>}
    /\ UNCHANGED written

Next == EndAndQueue \/ \E t \in Ids : Seal(t) \/ Accept(t)
Spec == Init /\ [][Next]_<<life, written>>
=============================================================================
