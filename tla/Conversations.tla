---------------------------- MODULE Conversations ----------------------------
(***************************************************************************)
(* What messaging promises its users, whatever the order of the requests:  *)
(* two users have one conversation, a message goes to one of its members   *)
(* and stays there until a member leaves, and the conversation belongs to  *)
(* the first storefront it was opened through.                             *)
(*                                                                         *)
(* A storefront is named by its owner: a user has one at most.             *)
(***************************************************************************)
EXTENDS FiniteSets

CONSTANTS
    Users,
    NoStore,  \* the context of a conversation that no storefront is part of
    Messages  \* identities of messages

VARIABLES
    rooms, \* the conversations: members, storefront, messages
    gone   \* the users who deleted their account

conversationVars == <<rooms, gone>>

Pairs == {p \in SUBSET Users : Cardinality(p) = 2}
Said == [id : Messages, from : Users]
Room == [pair : Pairs, store : Users \cup {NoStore}, said : SUBSET Said]

(* u opens the conversation with v, through v's storefront or not, and may *)
(* write a message.                                                        *)
Open(u, v, store, X) ==
    /\ store \in {v, NoStore}
    /\ \A r \in rooms : r.pair # {u, v}
    /\ rooms' = rooms \cup {[pair |-> {u, v}, store |-> store, said |-> X]}
    /\ UNCHANGED gone

(* It goes on.  Through v's storefront it becomes a conversation of this   *)
(* storefront if it has none; where both came through the storefront of    *)
(* the other at once, the later one has it.                                *)
Continue(u, v, store, X) ==
    \E r \in rooms :
        /\ r.pair = {u, v}
        /\ rooms' = (rooms \ {r}) \cup {[r EXCEPT !.said = @ \cup X, !.store = store]}
        /\ store \in {r.store, v}
        /\ store # r.store => r.store \in {NoStore, u}
        /\ UNCHANGED gone

(* u writes messages X to v                                                *)
Talk(u, v, store, X) ==
    /\ u # v
    /\ \A m \in X : m.from = u /\ \A r \in rooms : m \notin r.said
    /\ Open(u, v, store, X) \/ Continue(u, v, store, X)

(* u leaves.  A conversation may outlive him (kept), and so may a          *)
(* storefront that he opens while he leaves; one that is closed is no      *)
(* longer the context of what is kept.  Two such requests may both succeed.*)
Leave(u, kept, closed) ==
    LET Mine == {r \in rooms : u \in r.pair} IN
    /\ kept \subseteq Mine
    /\ rooms' = (rooms \ Mine) \cup
            {[r EXCEPT !.store = IF @ \in closed THEN NoStore ELSE @] : r \in kept}
    /\ gone' = gone \cup {u}

Init ==
    /\ rooms = {}
    /\ gone = {}

Next ==
    \/ \E u, v \in Users, store \in Users \cup {NoStore} :
          \/ Talk(u, v, store, {})
          \/ \E m \in Messages : Talk(u, v, store, {[id |-> m, from |-> u]})
    \/ \E u \in Users, kept \in SUBSET rooms : Leave(u, kept, {}) \/ Leave(u, kept, {u})

Spec == Init /\ [][Next]_conversationVars

(* The storefront through which someone wrote to another can be reviewed   *)
(* by him (services/reviews.py).                                           *)
HasWritten(u, store) ==
    \E r \in rooms : /\ r.pair = {u, store} /\ r.store = store
                     /\ \E m \in r.said : m.from = u
=============================================================================
