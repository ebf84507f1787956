------------------------- MODULE MCRefreshSessions -------------------------
(* Instances of RefreshSessions for TLC. *)
EXTENDS RefreshSessions, TLC

Symmetry == Permutations(Requests)

(* An action constraint for the liveness property: the last token is issued*)
(* beside logins, refreshes and logouts of all devices only, the account   *)
(* being active; the tokens before it are beside every handler.            *)
LastBeside == {"login", "refresh", "reuse", "logoutAll"}
LastAmongFew ==
    clock' = MaxTokens =>
        /\ status' = "ACTIVE"
        /\ \A r \in Requests : req'[r].at = "idle" \/ req'[r].kind \in LastBeside

=============================================================================
