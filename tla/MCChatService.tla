--------------------------- MODULE MCChatService ---------------------------
(***************************************************************************)
(* Instances of ChatService for TLC.                                       *)
(***************************************************************************)
EXTENDS ChatService, TLC

\* Without a limit, and one that cuts a history short.
SmallLimits == {NoLimit, 1}

\* Requests differ in nothing but their names, users in their settings, and no
\* liveness property is checked with this.
NameSymmetry == Permutations(Requests)
=============================================================================
