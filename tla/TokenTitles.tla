----------------------------- MODULE TokenTitles -----------------------------
(***************************************************************************)
(* What the secondary market promises: every token has one holder, and it  *)
(* passes to another one only when a deal about it settles.  A deal between*)
(* two sides settles with the second consent, is void if the consents do   *)
(* not come, and moves nothing but its own token, once.                    *)
(***************************************************************************)
CONSTANTS
  Tokens, Holders, Deals,
  Nobody               \* the holder of a token that was never issued

VARIABLES
  title,               \* token -> its holder
  outcome,             \* deal -> "none", "open", "settled" or "void"
  subject,             \* deal -> the token it is about, if it was made
  consents             \* deal -> the sides that have agreed

Sides == {"buyer", "seller"}

Init ==
  /\ title = [t \in Tokens |-> Nobody]
  /\ outcome = [d \in Deals |-> "none"]
  /\ subject \in [Deals -> Tokens]
  /\ consents = [d \in Deals |-> {}]

Issue(t, h) ==
  /\ title[t] = Nobody
  /\ title' = [title EXCEPT ![t] = h]
  /\ UNCHANGED <<outcome, subject, consents>>

Open(d, t) ==
  /\ outcome[d] = "none" /\ title[t] # Nobody
  /\ outcome' = [outcome EXCEPT ![d] = "open"]
  /\ subject' = [subject EXCEPT ![d] = t]
  /\ UNCHANGED <<title, consents>>

\* The first of the two consents.
Consent(d, side) ==
  /\ outcome[d] = "open" /\ consents[d] = {}
  /\ consents' = [consents EXCEPT ![d] = {side}]
  /\ UNCHANGED <<title, outcome, subject>>

\* The second consent moves the title in the same step.
Settle(d, h) ==
  /\ outcome[d] = "open" /\ consents[d] # {}
  /\ outcome' = [outcome EXCEPT ![d] = "settled"]
  /\ consents' = [consents EXCEPT ![d] = Sides]
  /\ title' = [title EXCEPT ![subject[d]] = h]
  /\ UNCHANGED subject

\* A deal that was made elsewhere is recorded when it is done.
Record(d, t, h) ==
  /\ outcome[d] = "none" /\ title[t] # Nobody
  /\ outcome' = [outcome EXCEPT ![d] = "settled"]
  /\ subject' = [subject EXCEPT ![d] = t]
  /\ consents' = [consents EXCEPT ![d] = Sides]
  /\ title' = [title EXCEPT ![t] = h]

Void(d) ==
  /\ outcome[d] = "open"
  /\ outcome' = [outcome EXCEPT ![d] = "void"]
  /\ consents' = [consents EXCEPT ![d] = {}]
  /\ UNCHANGED <<title, subject>>

Next ==
  \/ \E t \in Tokens, h \in Holders : Issue(t, h)
  \/ \E d \in Deals :
       \/ Void(d)
       \/ \E side \in Sides : Consent(d, side)
       \/ \E h \in Holders : Settle(d, h)
       \/ \E t \in Tokens : Open(d, t) \/ \E h \in Holders : Record(d, t, h)

Spec == Init /\ [][Next]_<<title, outcome, subject, consents>>
=============================================================================
