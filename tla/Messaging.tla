------------------------------ MODULE Messaging ------------------------------
(***************************************************************************)
(* Messages between users and to storefronts: services/messaging.py, the   *)
(* endpoints of routers/seller_ops.py that call it, and the deletion of an *)
(* account (routers/auth.py), as concurrent requests.                      *)
(*                                                                         *)
(* Every request is one transaction.  An action is one statement; it sees  *)
(* committed rows (READ COMMITTED), waits for rows others have locked, and *)
(* its own changes are published by Commit.                                *)
(***************************************************************************)
EXTENDS Naturals, FiniteSets

CONSTANTS
    Users,
    Requests,  \* slots for requests that run at the same time
    NoStore, Nobody,
    MaxConversations, MaxMessages, MaxClicks, MaxGone \* bounds

ASSUME NoStoreAssumption == NoStore \notin Users /\ Nobody \notin Users
ASSUME BoundsAssumption == {MaxConversations, MaxMessages, MaxClicks, MaxGone} \subseteq Nat

VARIABLES
    shops,     \* users who have a storefront; it is named by its owner
    gone,      \* users with status DELETED
    conv,      \* conversations: id, the pair of participants, context
    msgs,      \* messages: id, conversation, sender, whether read_at is set
    notes,     \* notifications of messages, as <<user, message>>
    inquiries, \* inquiry_count of every storefront
    req,       \* the requests
    past       \* what happened (history)

tables == <<shops, gone, conv, msgs, notes, inquiries>>
vars == <<tables, req, past>>

(* user, peer: who asks, and with whom he wants to speak                   *)
(* asked     : the storefront he comes through                             *)
(* writes    : he sends a message (all but /open)                          *)
(* conv      : the conversation found or inserted                          *)
(* isNew     : it is this request that inserts it                          *)
(* claims    : it sets the context of one it found                         *)
(* seen      : unread messages it listed                                   *)
(* mine      : conversations that a deletion found                         *)
(* known     : those there were when it began (history)                    *)
(* holds     : it has changed the row of the conversation                  *)
(* store     : the storefront whose row it has changed                     *)
Idle == [at |-> "idle", user |-> Nobody, peer |-> Nobody, asked |-> NoStore,
         writes |-> FALSE, conv |-> 0, isNew |-> FALSE, claims |-> FALSE, seen |-> {},
         mine |-> {}, known |-> {}, holds |-> FALSE, store |-> NoStore]

Becomes(r, q) == req' = [req EXCEPT ![r] = q]
Goes(r, at) == Becomes(r, [req[r] EXCEPT !.at = at])

(* An exception: the session is closed, nothing of the request remains.    *)
Refuse(r) == Becomes(r, Idle)

Others(r) == {req[o] : o \in Requests \ {r}}
Pair(q) == {q.user, q.peer}
RowsOf(u) == {c \in conv : u \in c.pair}
Row(id) == {c \in conv : c.id = id}

-----------------------------------------------------------------------------
(* Locks *)

(* another request has changed or deleted the row and has not committed    *)
RowLocked(r, id) ==
    \E o \in Others(r) : (o.holds /\ o.conv = id) \/ (o.at \in {"close", "leave"} /\ id \in o.mine)

(* another one is about to insert the same pair, or to delete it           *)
PairLocked(r, p) ==
    \E o \in Others(r) :
        \/ o.holds /\ o.isNew /\ Pair(o) = p
        \/ o.at \in {"close", "leave"} /\ \E c \in conv : c.id \in o.mine /\ c.pair = p

StoreLocked(r, s) == \E o \in Others(r) : o.store = s

(* a row that refers to the storefront waits for those who delete it; they *)
(* wait for the rows that refer to it                                      *)
Referring(o, s) == o.holds /\ (o.isNew \/ o.claims) /\ o.asked = s
StoreLeaving(r, s) == \E o \in Others(r) : o.at = "leave" /\ o.store = s

-----------------------------------------------------------------------------
(* Sending *)

(* POST /messages/sellers/{id}, its /open, and POST /messages/users/{id}:  *)
(* the storefront and the peer are read.                                   *)
Ask(r, u, v, writes, byStore) ==
    /\ req[r].at = "idle"
    /\ u # v
    /\ {u, v} \cap gone = {}
    /\ byStore => v \in shops
    /\ writes \/ byStore
    /\ Becomes(r, [Idle EXCEPT !.at = "find", !.user = u, !.peer = v, !.writes = writes,
                               !.asked = IF v \in shops THEN v ELSE NoStore])
    /\ UNCHANGED <<tables, past>>

(* Seeded fault: the storefront of an older conversation is replaced.      *)
ClaimsAny(q, c) == q.asked # NoStore /\ q.asked # c.store
Claims(q, c) == q.asked # NoStore /\ c.store = NoStore

(* find_conversation                                                       *)
Find(r) ==
    LET q == req[r]
        found == {c \in conv : c.pair = Pair(q)}
    IN
    /\ q.at = "find"
    /\ IF found = {} THEN Goes(r, "insert")
       ELSE \E c \in found :
              Becomes(r, [q EXCEPT !.conv = c.id, !.claims = Claims(q, c),
                            !.at = IF q.writes \/ Claims(q, c) THEN "change" ELSE "commit"])
    /\ UNCHANGED <<tables, past>>

(* Seeded fault: the pair is not declared unique.                          *)
TakenNever(p) == FALSE
(* uq_conversation_participants                                            *)
Taken(p) == \E c \in conv : c.pair = p

(* The conversation is inserted: of two first messages at once one fails.  *)
Insert(r) ==
    LET q == req[r] IN
    /\ q.at = "insert"
    /\ ~PairLocked(r, Pair(q))
    /\ ~StoreLeaving(r, q.asked)
    /\ past.ids < MaxConversations
    /\ IF Taken(Pair(q)) \/ (q.asked # NoStore /\ q.asked \notin shops)
       THEN Refuse(r) /\ UNCHANGED past
       ELSE /\ Becomes(r, [q EXCEPT !.conv = past.ids + 1, !.isNew = TRUE, !.holds = TRUE,
                             !.at = IF q.writes THEN "change" ELSE "commit"])
            /\ past' = [past EXCEPT !.ids = @ + 1]
    /\ UNCHANGED tables

(* Seeded fault: an UPDATE that finds no row is not noticed.               *)
StaleNever(q) == FALSE
(* SQLAlchemy's StaleDataError, or the foreign key of context_seller_id    *)
Stale(q) ==
    \/ ~q.isNew /\ Row(q.conv) = {}
    \/ q.claims /\ q.asked \notin shops

(* Seeded fault: every message is counted.                                 *)
CountsAlways(q) == q.writes /\ q.asked # NoStore
(* Only who starts a conversation through the peer's storefront.           *)
Counts(q) == q.writes /\ q.isNew /\ q.asked # NoStore

(* The flush: last_message_at and the context are updated by primary key,  *)
(* the message and the peer's notification are inserted.                   *)
Change(r) ==
    LET q == req[r] IN
    /\ q.at = "change"
    /\ q.isNew \/ ~RowLocked(r, q.conv)
    /\ ~(q.claims /\ StoreLeaving(r, q.asked))
    /\ IF Stale(q) THEN Refuse(r)
       ELSE Becomes(r, [q EXCEPT !.holds = TRUE, !.at = IF Counts(q) THEN "count" ELSE "commit"])
    /\ UNCHANGED <<tables, past>>

(* bump_inquiry_count                                                      *)
Count(r) ==
    LET q == req[r] IN
    /\ q.at = "count"
    /\ ~StoreLocked(r, q.asked)
    /\ Becomes(r, [q EXCEPT !.store = q.asked, !.at = "commit"])
    /\ UNCHANGED <<tables, past>>

(* The session writes the context it loaded or set itself; a column it did *)
(* not change is left alone.                                               *)
Written(q) ==
    IF q.isNew THEN conv \cup {[id |-> q.conv, pair |-> Pair(q), store |-> q.asked]}
    ELSE {IF c.id = q.conv /\ q.claims THEN [c EXCEPT !.store = q.asked] ELSE c : c \in conv}

CommitTalk(r) ==
    LET q == req[r]
        id == past.said + 1
    IN
    /\ q.at = "commit"
    /\ q.writes => past.said < MaxMessages
    /\ conv' = Written(q)
    /\ IF q.writes
       THEN /\ msgs' = msgs \cup {[id |-> id, conv |-> q.conv, from |-> q.user, read |-> FALSE]}
            /\ notes' = notes \cup {<<q.peer, id>>}
       ELSE UNCHANGED <<msgs, notes>>
    /\ inquiries' = [s \in Users |-> inquiries[s] + IF q.store = s /\ s \in shops THEN 1 ELSE 0]
    /\ past' = [past EXCEPT !.said = IF q.writes THEN @ + 1 ELSE @,
                  !.through = @ \cup {<<c.store, c.id>> : c \in Written(q)}]
    /\ Becomes(r, Idle)
    /\ UNCHANGED <<shops, gone>>

(* POST /messages/conversations/{id}: u answers in a conversation of his   *)
Reply(r, u, c) ==
    /\ req[r].at = "idle"
    /\ u \in c.pair \ gone
    /\ Becomes(r, [Idle EXCEPT !.at = "change", !.user = u, !.writes = TRUE, !.conv = c.id,
                               !.peer = CHOOSE v \in c.pair : v # u])
    /\ UNCHANGED <<tables, past>>

-----------------------------------------------------------------------------
(* Reading *)

Unread(u, id) == {m \in msgs : m.conv = id /\ m.from # u /\ ~m.read}

(* GET /messages/conversations/{id}: the messages are read ...             *)
List(r, u, c) ==
    LET ids == {m.id : m \in Unread(u, c.id)} IN
    /\ req[r].at = "idle"
    /\ u \in c.pair \ gone
    /\ ids # {}
    /\ Becomes(r, [Idle EXCEPT !.at = "mark", !.user = u, !.conv = c.id, !.seen = ids])
    /\ past' = [past EXCEPT !.shown = @ \cup ids]
    /\ UNCHANGED tables

(* Seeded fault: what is unread by now is marked.                          *)
MarkedNow(q) == {m.id : m \in Unread(q.user, q.conv)}
Marked(q) == q.seen

(* ... and those among them that were unread are marked.                   *)
Mark(r) ==
    LET q == req[r] IN
    /\ q.at = "mark"
    /\ ~RowLocked(r, q.conv)
    /\ msgs' = {[m EXCEPT !.read = @ \/ m.id \in Marked(q)] : m \in msgs}
    /\ Becomes(r, Idle)
    /\ UNCHANGED <<shops, gone, conv, notes, inquiries, past>>

-----------------------------------------------------------------------------
(* Storefronts *)

OpenShop(u) ==
    /\ u \notin gone \cup shops
    /\ shops' = shops \cup {u}
    /\ inquiries' = [inquiries EXCEPT ![u] = 0]
    /\ UNCHANGED <<gone, conv, msgs, notes, req, past>>

(* POST /contact-events with channel "message", by anybody                 *)
Click(s) ==
    /\ s \in shops \ past.clicks \* bound: once
    /\ Cardinality(past.clicks) < MaxClicks
    /\ \A r \in Requests : req[r].store # s
    /\ inquiries' = [inquiries EXCEPT ![s] = @ + 1]
    /\ past' = [past EXCEPT !.clicks = @ \cup {s}]
    /\ UNCHANGED <<shops, gone, conv, msgs, notes, req>>

-----------------------------------------------------------------------------
(* DELETE /me *)

Departing == {q.user : q \in {req[r] : r \in {o \in Requests :
                 req[o].at \in {"collect", "erase", "close", "leave"}}}}

Depart(r, u) ==
    /\ req[r].at = "idle"
    /\ u \notin gone
    /\ Cardinality(gone \cup Departing \cup {u}) <= MaxGone
    /\ Becomes(r, [Idle EXCEPT !.at = "collect", !.user = u,
                     !.asked = IF u \in shops THEN u ELSE NoStore,
                     !.known = {c.id : c \in RowsOf(u)}])
    /\ UNCHANGED <<tables, past>>

(* Seeded fault: conversations in which he never wrote are left.           *)
CollectedWritten(u) == {c.id : c \in {d \in RowsOf(u) :
                            \E m \in msgs : m.conv = d.id /\ m.from = u}}
(* the conversations in which u is one or the other participant            *)
Collected(u) == {c.id : c \in RowsOf(u)}

(* The messages he wrote are deleted (all of them are in his own           *)
(* conversations, and go with those), and the conversations are selected.  *)
Collect(r) ==
    /\ req[r].at = "collect"
    /\ Becomes(r, [req[r] EXCEPT !.at = "erase", !.mine = Collected(req[r].user)])
    /\ UNCHANGED <<tables, past>>

(* They are deleted, and their messages too.                               *)
Erase(r) ==
    /\ req[r].at = "erase"
    /\ \A id \in req[r].mine : ~RowLocked(r, id)
    /\ Goes(r, "close")
    /\ UNCHANGED <<tables, past>>

(* The storefront that he had at first is deleted.                         *)
Close(r) ==
    LET q == req[r] IN
    /\ q.at = "close"
    /\ q.asked # NoStore => /\ ~StoreLocked(r, q.asked)
                            /\ \A o \in Others(r) : ~Referring(o, q.asked)
    /\ Becomes(r, [q EXCEPT !.at = "leave", !.store = q.asked])
    /\ UNCHANGED <<tables, past>>

(* context_seller_id of a conversation that remains is set to NULL.        *)
CommitLeave(r) ==
    LET q == req[r]
        Forgotten(c) == IF c.store = q.asked THEN [c EXCEPT !.store = NoStore] ELSE c
    IN
    /\ q.at = "leave"
    /\ gone' = gone \cup {q.user}
    /\ shops' = shops \ {q.asked}
    /\ conv' = {Forgotten(c) : c \in {d \in conv : d.id \notin q.mine}}
    /\ msgs' = {m \in msgs : m.conv \notin q.mine}
    /\ notes' = {n \in notes : n[1] # q.user}
    /\ past' = [past EXCEPT !.dead = @ \cup q.known]
    /\ Becomes(r, Idle)
    /\ UNCHANGED inquiries

(* A request may fail before its commit: a deadlock that PostgreSQL        *)
(* resolves, a lost connection, a process that stops.                      *)
Fail(r) ==
    /\ req[r].at # "idle"
    /\ Refuse(r)
    /\ UNCHANGED <<tables, past>>

-----------------------------------------------------------------------------

Init ==
    /\ shops = {}
    /\ gone = {}
    /\ conv = {}
    /\ msgs = {}
    /\ notes = {}
    /\ inquiries = [s \in Users |-> 0]
    /\ req = [r \in Requests |-> Idle]
    /\ past = [ids |-> 0, said |-> 0, shown |-> {}, through |-> {}, dead |-> {}, clicks |-> {}]

Next ==
    \/ \E r \in Requests :
          \/ \E u, v \in Users : \E writes, byStore \in BOOLEAN : Ask(r, u, v, writes, byStore)
          \/ Find(r) \/ Insert(r) \/ Change(r) \/ Count(r) \/ CommitTalk(r)
          \/ \E u \in Users, c \in conv : Reply(r, u, c) \/ List(r, u, c)
          \/ Mark(r)
          \/ \E u \in Users : Depart(r, u)
          \/ Collect(r) \/ Erase(r) \/ Close(r) \/ CommitLeave(r)
          \/ Fail(r)
    \/ \E u \in Users : OpenShop(u) \/ Click(u)

Spec == Init /\ [][Next]_vars

-----------------------------------------------------------------------------
(* Properties *)

(* Types, and the foreign keys: a message is in a conversation of its       *)
(* sender, a storefront that a conversation refers to exists.              *)
TypeOK ==
    /\ shops \subseteq Users /\ gone \subseteq Users
    /\ \A c \in conv : /\ c.id \in 1 .. MaxConversations
                       /\ c.pair \subseteq Users /\ Cardinality(c.pair) = 2
                       /\ c.store \in (c.pair \cap shops) \cup {NoStore}
                       /\ \A d \in conv : c.id = d.id => c = d
    /\ \A m \in msgs : \E c \in conv : m.conv = c.id /\ m.from \in c.pair
    /\ inquiries \in [Users -> Nat]
    /\ \A r \in Requests :
          req[r].at \in {"idle", "find", "insert", "change", "count", "commit", "mark",
                         "collect", "erase", "close", "leave"}

(* The requests, interleaved statement by statement, do what the           *)
(* Conversations specification promises, and nothing else.                 *)
Threads ==
    {[pair |-> c.pair, store |-> c.store,
      said |-> {[id |-> m.id, from |-> m.from] : m \in {n \in msgs : n.conv = c.id}}] :
        c \in conv}
Promised == INSTANCE Conversations WITH rooms <- Threads, Messages <- 1 .. MaxMessages
PromiseKept == Promised!Spec

(* A conversation keeps its storefront, except that a request that found   *)
(* none may still replace what another set meanwhile, and that the         *)
(* storefront may be deleted.                                              *)
ContextKept ==
    [][\A c \in conv, d \in conv' :
          (c.id = d.id /\ c.store \notin {NoStore, d.store}) =>
              \/ d.store = NoStore /\ c.store \notin shops'
              \/ \E r \in Requests : /\ req[r].at = "commit" /\ req[r].conv = c.id
                                     /\ req[r].claims /\ req[r].asked = d.store
                                     /\ <<NoStore, c.id>> \in past.through]_vars

(* A conversation counts once at most as an inquiry at a storefront, by    *)
(* whichever of two requests that raced to open it, and never when it is   *)
(* not the storefront's; the rest are contact events.                      *)
InquiriesOnce ==
    \A s \in Users :
        inquiries[s] <= (IF s \in past.clicks THEN 1 ELSE 0) + Cardinality({x \in past.through : x[1] = s})

(* A message is marked as read only if its recipient's request has listed  *)
(* it, however late the UPDATE comes.                                      *)
ReadMeansShown == \A m \in msgs : m.read => m.id \in past.shown

(* Once an account is deleted no conversation is left that its owner had   *)
(* when he asked for it; one opened by a request that ran meanwhile may be.*)
ForgottenForGood == \A c \in conv : c.id \notin past.dead

=============================================================================
