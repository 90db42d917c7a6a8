------------------------------ MODULE MCBridge ------------------------------
(***************************************************************************)
(* Instances of Bridge for TLC.                                            *)
(***************************************************************************)
EXTENDS Bridge

CONSTANTS ann, ben, t1, t2, t3, tower, villa

\* One token is of another project than the others.
OfTwoProjects == [t \in Tokens |-> IF t = t3 THEN villa ELSE tower]

\* One project; its tokens may be created, and all accounts removed.
Bound(notified, subscribed, restarted, failed, transferred) ==
  [notifications |-> notified, projects |-> {tower}, tokens |-> Tokens,
   leaving |-> Accounts, subscriptions |-> subscribed, restarts |-> restarted,
   mishaps |-> failed, transfers |-> transferred]

\* Notifications enough for one token to be traded there and back.
ThereAndBack == [Bound(6, 1, 0, 0, 0) EXCEPT !.tokens = {t1}, !.leaving = {}]

\* A token of each of two projects, whose contracts are told apart by nobody.
TwoProjects ==
  [Bound(4, 1, 0, 0, 0) EXCEPT !.projects = Projects, !.tokens = {t1, t3}, !.leaving = {}]

\* One subscription and a failure; a second subscription, after a restart or
\* not, and a failure; a transfer by somebody else; two trades; two projects.
Troubles == {Bound(4, 1, 0, 1, 0), Bound(2, 2, 1, 1, 0), Bound(3, 1, 0, 0, 1), ThereAndBack,
             TwoProjects}

\* Nothing but a transfer on the chain.
TransferOnly == {Bound(3, 1, 0, 0, 1)}

\* Nothing but a failure.
FailureOnly == {Bound(2, 1, 0, 1, 0)}

\* No trouble at all.
NoTrouble == {Bound(4, 1, 0, 0, 0)}
=============================================================================
