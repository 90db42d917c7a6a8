-------------------------- MODULE SubscriptionBook --------------------------
(***************************************************************************)
(* What a share class promises its subscribers: "In case of                *)
(* oversubscription, the platform automatically assigns investments based  *)
(* on a first come first serve methodology" (README.md).  Requests queue   *)
(* up in the order in which they are made.  Whenever the bank decides, it  *)
(* decides all of them, each receives what the requests before it left,    *)
(* and no decision is ever revised.                                        *)
(***************************************************************************)
EXTENDS Integers, Sequences

CONSTANT Amounts     \* the numbers of shares that can be offered or requested

VARIABLES
  offered,           \* the shares on offer
  requests,          \* the shares requested, in order
  granted            \* the shares granted to the first requests

Init ==
  /\ offered = 0
  /\ requests = <<>>
  /\ granted = <<>>

Open(n) ==
  /\ offered = 0 /\ requests = <<>>
  /\ offered' = n
  /\ UNCHANGED <<requests, granted>>

Request(n) ==
  /\ requests' = Append(requests, n)
  /\ UNCHANGED <<offered, granted>>

\* What the first k requests take of the shares on offer.
TakenBy(k) ==
  LET asked[j \in 0 .. k] == IF j = 0 THEN 0 ELSE asked[j - 1] + requests[j]
  IN  IF asked[k] < offered THEN asked[k] ELSE offered

Decide ==
  /\ granted' = [j \in 1 .. Len(requests) |-> TakenBy(j) - TakenBy(j - 1)]
  /\ UNCHANGED <<offered, requests>>

Next == (\E n \in Amounts : Open(n) \/ Request(n)) \/ Decide

Spec == Init /\ [][Next]_<<offered, requests, granted>>
=============================================================================
