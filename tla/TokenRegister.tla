--------------------------- MODULE TokenRegister ---------------------------
(***************************************************************************)
(* What the NFT contract promises, without its dictionaries: a register of *)
(* tokens that each have one holder.  A token is issued once, passes from  *)
(* holder to holder while it is live, and keeps its last holder once it is *)
(* retired.                                                                *)
(***************************************************************************)
CONSTANTS
  Tokens,     \* token identifiers
  Holders,    \* who may hold a token
  Nobody      \* the holder of a token that was never issued

VARIABLES
  holder,     \* token -> its holder
  live        \* the tokens that were issued and not retired

Init ==
  /\ holder = [t \in Tokens |-> Nobody]
  /\ live = {}

Issue(t, h) ==
  /\ holder[t] = Nobody
  /\ holder' = [holder EXCEPT ![t] = h]
  /\ live' = live \cup {t}

Reassign(t, h) ==
  /\ t \in live
  /\ holder' = [holder EXCEPT ![t] = h]
  /\ UNCHANGED live

Retire(t) ==
  /\ t \in live
  /\ live' = live \ {t}
  /\ UNCHANGED holder

Next ==
  \E t \in Tokens :
    \/ \E h \in Holders : Issue(t, h) \/ Reassign(t, h)
    \/ Retire(t)

Spec == Init /\ [][Next]_<<holder, live>>
=============================================================================
