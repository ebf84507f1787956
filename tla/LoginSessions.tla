--------------------------- MODULE LoginSessions ---------------------------
(***************************************************************************)
(* What the refresh-token tables promise the owner of an account, without  *)
(* transactions, locks or requests: each login opens a session; a session  *)
(* has one current credential; a rotation moves it to a credential that    *)
(* was never seen before; a session that ends, or a credential that was    *)
(* replaced, never comes back.                                             *)
(***************************************************************************)
EXTENDS Integers

CONSTANT Token        \* credentials; a session is named by its first one

NoToken == 0

VARIABLES
    current,   \* the current credential of each session, NoToken when it has none
    used       \* every credential ever stored

vars == <<current, used>>

Init == /\ current = [s \in Token |-> IF s = 1 THEN 1 ELSE NoToken]
        /\ used = {1}

Ended(E) == [s \in Token |-> IF s \in E THEN NoToken ELSE current[s]]

(* Sessions are ended: a logout, a revocation of all, a cap on their number *)
End(E) == /\ current' = Ended(E)
          /\ UNCHANGED used

(* A login opens session n, and may end others to make room.               *)
Open(n, E) == /\ n \notin used
              /\ n \notin E
              /\ used' = used \cup {n}
              /\ current' = [Ended(E) EXCEPT ![n] = n]

(* A refresh replaces the credential of an open session.                   *)
Rotate(s, n, E) == /\ current[s] # NoToken
                   /\ n \notin used
                   /\ s \notin E
                   /\ used' = used \cup {n}
                   /\ current' = [Ended(E) EXCEPT ![s] = n]

(* A credential is stored but never valid: the account was blocked.        *)
Waste(n, E) == /\ n \notin used
               /\ used' = used \cup {n}
               /\ current' = Ended(E)

Next == \E E \in SUBSET Token :
            \/ End(E)
            \/ \E n \in Token : \/ Open(n, E)
                                \/ \E s \in Token : Rotate(s, n, E)
                                \/ Waste(n, E)

Spec == Init /\ [][Next]_vars

=============================================================================
