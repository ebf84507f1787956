------------------------ MODULE MessagingImplements ------------------------
(***************************************************************************)
(* The concurrent requests of Messaging keep the promise of Conversations, *)
(* proved for any users and any number of requests, messages and           *)
(* conversations; and with it the foreign keys, the counting of inquiries  *)
(* and what becomes of a conversation's storefront.                        *)
(***************************************************************************)
EXTENDS MessagingProofs, FiniteSetTheorems

-----------------------------------------------------------------------------
(* The invariant *)

Talking == {"find", "insert", "change", "count", "commit"}
Leaving == {"collect", "erase", "close", "leave"}
Places == Talking \cup Leaving \cup {"idle", "mark"}

(* What the fields of a request mean where it is.                          *)
Meant(q) ==
    /\ q.at \in Places
    /\ q.at \in Talking => /\ q.user \in Users /\ q.peer \in Users /\ q.user # q.peer
                           /\ q.asked \in {q.peer, NoStore}
    /\ q.at \in Leaving => q.user \in Users /\ q.asked \in {q.user, NoStore}
    /\ q.isNew => q.holds /\ q.conv > 0
    /\ q.holds => q.at \in {"change", "count", "commit"}
    /\ q.claims => ~q.isNew /\ q.asked # NoStore /\ q.at \in {"change", "commit"}
    /\ q.at = "count" => q.isNew /\ q.writes
    /\ q.at = "commit" => q.holds \/ ~(q.writes \/ q.claims)
    /\ q.store # NoStore =>
           /\ q.store = q.asked
           /\ (q.at = "commit" /\ q.isNew /\ q.writes) \/ q.at = "leave"
    /\ q.at = "leave" => q.store = q.asked

(* The ids it knows have been handed out.                                  *)
Handed(q) == q.conv \in Given /\ q.mine \subseteq Given

(* The conversation it found is the one of its pair, and stays there once  *)
(* it has changed the row; one that it inserts is the only one of its pair *)
(* and has been seen by nobody.                                            *)
Finds(q) ==
    q.at \in {"change", "count", "commit"} /\ ~q.isNew =>
        /\ \A c \in conv : c.id = q.conv => c.pair = Pair(q)
        /\ q.holds => \E c \in conv : c.id = q.conv
Inserts(q) ==
    q.isNew => /\ \A c \in conv : c.pair # Pair(q)
               /\ \A x \in past.through : x[2] # q.conv

(* A storefront that a row is about to refer to stays.                     *)
Refers(q) == q.holds /\ (q.isNew \/ q.claims) /\ q.asked # NoStore => q.asked \in shops

(* A deletion takes its user's conversations only.                         *)
TakesOwn(q) ==
    q.at \in {"erase", "close", "leave"} => \A c \in conv : c.id \in q.mine => q.user \in c.pair

(* A user who is gone and has no storefront will never have one.           *)
Over(u) == u \in gone /\ u \notin shops

(* Whoever sets a storefront and finds another one there by now had found  *)
(* a conversation that was opened without one.                             *)
Overtaken(q) ==
    q.claims /\ ~Over(q.asked) =>
        \A c \in conv : c.id = q.conv /\ c.store \notin {NoStore, q.asked} =>
                            <<NoStore, c.id>> \in past.through

Fine(q) ==
    /\ Meant(q) /\ Handed(q) /\ Finds(q) /\ Inserts(q)
    /\ Refers(q) /\ TakesOwn(q) /\ Overtaken(q)

(* What the locks of one request keep another one from.                    *)
Apart(q, o) ==
    /\ q.holds /\ ~q.isNew /\ o.at \in {"close", "leave"} => q.conv \notin o.mine
    /\ q.isNew /\ o.isNew => Pair(q) # Pair(o)
    /\ q.isNew => q.conv # o.conv /\ q.conv \notin o.mine
    /\ q.holds /\ (q.isNew \/ q.claims) /\ q.asked # NoStore /\ o.at = "leave" =>
           o.store # q.asked

IsPair(p) == \E u, v \in Users : u # v /\ p = {u, v}
Conversation(c) ==
    /\ c.id \in Given \ {0}
    /\ IsPair(c.pair)
    /\ c.store \in (c.pair \cap shops) \cup {NoStore}
    /\ c.store = NoStore => \/ <<NoStore, c.id>> \in past.through
                            \/ \E u \in c.pair : Over(u)
Message(m) ==
    /\ m.id \in 1 .. past.said
    /\ \E c \in conv : m.conv = c.id /\ m.from \in c.pair

Tables ==
    /\ shops \subseteq Users /\ gone \subseteq Users
    /\ past.ids <= MaxConversations
    /\ past.said \in 0 .. MaxMessages
    /\ \A x \in past.through : x = <<x[1], x[2]>> /\ x[2] \in Given
    /\ \A c \in conv : Conversation(c)
    /\ \A c, d \in conv : c.pair = d.pair => c = d
    /\ \A m \in msgs : Message(m)
    /\ inquiries \in [Users -> Nat]

Promise == /\ Tables
           /\ \A r \in Requests : Fine(req[r])
           /\ \A r, o \in Requests : r # o => Apart(req[r], req[o])

-----------------------------------------------------------------------------

(* A request that is idle wants nothing.                                   *)
LEMMA IdleFine ==
  ASSUME past.ids \in Nat
  PROVE  Fine(Idle)
  BY DEF Fine, Meant, Places, Talking, Leaving, Handed, Given, Finds, Inserts, Refers, TakesOwn,
         Overtaken, Idle

LEMMA IdleApart ==
  ASSUME NEW q, Meant(q)
  PROVE  Apart(q, Idle) /\ Apart(Idle, q)
  BY DEF Apart, Meant, Idle

LEMMA InitPromise == Init => Promise
<1> SUFFICES ASSUME Init PROVE Promise
  OBVIOUS
<1>1. /\ shops = {} /\ gone = {} /\ conv = {} /\ msgs = {} /\ past.ids = 0 /\ past.said = 0
      /\ past.through = {} /\ inquiries \in [Users -> Nat]
      /\ \A r \in Requests : req[r] = Idle
  BY DEF Init
<1>2. Tables
  BY <1>1, BoundsAssumption DEF Tables
<1>3. Fine(Idle)
  BY <1>1, IdleFine
<1>4. Apart(Idle, Idle)
  BY <1>3, IdleApart DEF Fine
<1> QED
  BY <1>1, <1>2, <1>3, <1>4 DEF Promise

(* What the others keep while one request changes.                         *)
LEMMA ApartStep ==
  ASSUME Promise, NEW r \in Requests, \A o \in Requests \ {r} : req'[o] = req[o],
         \A o \in Requests \ {r} : Apart(req'[r], req[o]) /\ Apart(req[o], req'[r]),
         Tables', \A o \in Requests : Fine(req[o])'
  PROVE  Promise'
<1>1. \A a, b \in Requests : a # b => Apart(req'[a], req'[b])
  BY DEF Promise
<1>2. \A a, b \in Requests : a # b => Apart(req[a], req[b])'
  BY <1>1 DEF Apart, Pair
<1> QED
  BY <1>2 DEF Promise

(* A step that leaves the rows alone, and may hand out ids.                *)
LEMMA Steady ==
  ASSUME IInv, Promise, NEW r \in Requests, \A o \in Requests \ {r} : req'[o] = req[o],
         UNCHANGED <<shops, gone, conv, msgs, inquiries>>,
         past'.said = past.said, past'.through = past.through,
         past'.ids \in Nat, past.ids <= past'.ids, past'.ids <= MaxConversations,
         Fine(req[r])',
         \A o \in Requests \ {r} : Apart(req'[r], req[o]) /\ Apart(req[o], req'[r])
  PROVE  Promise'
<1>1. Given \subseteq Given' /\ past.ids \in Nat
  BY DEF IInv, Numbered, Given
<1>2. Tables'
  <2>1. \A c \in conv : Conversation(c)'
    BY <1>1 DEF Promise, Tables, Conversation, IsPair, Over
  <2>2. \A m \in msgs : Message(m)'
    BY DEF Promise, Tables, Message
  <2> QED
    BY <1>1, <2>1, <2>2 DEF Promise, Tables
<1>3. ASSUME NEW o \in Requests \ {r}
      PROVE  Fine(req[o])'
  <2>1. Fine(req[o]) /\ req'[o] = req[o]
    BY DEF Promise
  <2> QED
    BY <1>1, <2>1 DEF Fine, Meant, Handed, Finds, Inserts, Refers, TakesOwn, Overtaken, Over, Pair
<1> QED
  BY <1>2, <1>3, ApartStep

(* The same where nothing but the request changes.                         *)
LEMMA Quiet ==
  ASSUME IInv, Promise, NEW r \in Requests, NEW q, Becomes(r, q), UNCHANGED <<tables, past>>,
         Fine(q),
         \A o \in Requests \ {r} : Apart(q, req[o]) /\ Apart(req[o], q)
  PROVE  Promise'
<1>1. req'[r] = q /\ \A o \in Requests \ {r} : req'[o] = req[o]
  BY DEF IInv, Shape, Requested, Becomes
<1>2. Fine(req[r])'
  BY <1>1 DEF tables, Fine, Meant, Handed, Given, Finds, Inserts, Refers, TakesOwn, Overtaken, Over, Pair
<1>3. past.ids \in Nat /\ past.ids <= MaxConversations
  BY DEF IInv, Numbered, Promise, Tables
<1> QED
  BY <1>1, <1>2, <1>3, Steady DEF tables

LEMMA RefusePromise ==
  ASSUME IInv, Promise, NEW r \in Requests, Refuse(r), UNCHANGED <<tables, past>>
  PROVE  Promise'
<1>1. Fine(Idle)
  BY IdleFine DEF IInv, Numbered
<1>2. \A o \in Requests : Apart(Idle, req[o]) /\ Apart(req[o], Idle)
  BY IdleApart DEF Promise, Fine
<1> QED
  BY <1>1, <1>2, Quiet DEF Refuse

-----------------------------------------------------------------------------
(* Sending *)

(* A request that has touched nothing yet.                                 *)
LEMMA Untouched ==
  ASSUME IInv, Promise, NEW r \in Requests, NEW q,
         ~q.holds, ~q.isNew, q.at \notin {"close", "leave"},
         q.conv = req[r].conv \/ q.conv = 0 \/ \E c \in conv : q.conv = c.id,
         \A k \in q.mine : k \in req[r].mine \/ \E c \in conv : k = c.id
  PROVE  \A o \in Requests \ {r} : Apart(q, req[o]) /\ Apart(req[o], q)
<1> SUFFICES ASSUME NEW o \in Requests \ {r} PROVE Apart(q, req[o]) /\ Apart(req[o], q)
  OBVIOUS
<1>1. Apart(q, req[o])
  BY DEF Apart
<1>2. req[o].isNew => \A c \in conv : c.id # req[o].conv
  BY DEF IInv, Unborn, Unseen
<1>3. req[o].isNew => req[o].conv > 0
  BY DEF Promise, Fine, Meant
<1>4. Apart(req[o], req[r])
  BY DEF Promise
<1> QED
  BY <1>1, <1>2, <1>3, <1>4 DEF Apart

LEMMA AskPromise ==
  ASSUME IInv, Promise, NEW r \in Requests, NEW u \in Users, NEW v \in Users,
         NEW writes \in BOOLEAN, NEW byStore \in BOOLEAN, Ask(r, u, v, writes, byStore)
  PROVE  Promise'
<1> DEFINE q == [Idle EXCEPT !.at = "find", !.user = u, !.peer = v, !.writes = writes,
                             !.asked = IF v \in shops THEN v ELSE NoStore]
<1>1. Becomes(r, q) /\ UNCHANGED <<tables, past>> /\ u # v
  BY DEF Ask
<1>2. /\ q.at = "find" /\ q.user = u /\ q.peer = v /\ q.asked \in {v, NoStore} /\ q.conv = 0
      /\ q.isNew = FALSE /\ q.holds = FALSE /\ q.claims = FALSE /\ q.mine = {} /\ q.store = NoStore
  BY DEF Idle
<1> HIDE DEF q
<1>3. Fine(q)
  BY <1>1, <1>2 DEF Fine, Meant, Places, Talking, Leaving, Handed, Given, Finds, Inserts, Refers,
                    TakesOwn, Overtaken, IInv, Numbered
<1> QED
  BY <1>1, <1>2, <1>3, Quiet, Untouched

LEMMA FindPromise ==
  ASSUME IInv, Promise, NEW r \in Requests, Find(r)
  PROVE  Promise'
<1>1. /\ UNCHANGED <<tables, past>> /\ req[r].at = "find"
      /\ Request(req[r]) /\ Fine(req[r])
  BY DEF Find, IInv, Shape, Requested, Promise
<1>2. /\ ~req[r].isNew /\ ~req[r].holds /\ ~req[r].claims /\ req[r].store = NoStore
  BY <1>1 DEF Fine, Meant
<1>3. CASE Goes(r, "insert")
  <2> DEFINE q == [req[r] EXCEPT !.at = "insert"]
  <2>1. /\ q.at = "insert" /\ q.user = req[r].user /\ q.peer = req[r].peer
        /\ q.asked = req[r].asked /\ q.conv = req[r].conv /\ q.mine = req[r].mine
        /\ ~q.isNew /\ ~q.holds /\ ~q.claims /\ q.store = NoStore
    BY <1>1, <1>2 DEF Request
  <2>2. Becomes(r, q)
    BY <1>3 DEF Goes
  <2> HIDE DEF q
  <2>3. Fine(q)
    BY <1>1, <2>1 DEF Fine, Meant, Places, Talking, Leaving, Handed, Finds, Inserts, Refers,
                      TakesOwn, Overtaken
  <2> QED
    BY <1>1, <2>1, <2>2, <2>3, Quiet, Untouched
<1>4. ASSUME NEW c \in conv, c.pair = Pair(req[r]),
             Becomes(r, [req[r] EXCEPT !.conv = c.id, !.claims = Claims(req[r], c),
                 !.at = IF req[r].writes \/ Claims(req[r], c) THEN "change" ELSE "commit"])
      PROVE  Promise'
  <2> DEFINE q == [req[r] EXCEPT !.conv = c.id, !.claims = Claims(req[r], c),
                 !.at = IF req[r].writes \/ Claims(req[r], c) THEN "change" ELSE "commit"]
  <2>1. /\ q.user = req[r].user /\ q.peer = req[r].peer /\ q.writes = req[r].writes
        /\ q.asked = req[r].asked /\ q.conv = c.id /\ q.mine = req[r].mine
        /\ ~q.isNew /\ ~q.holds /\ q.claims = Claims(req[r], c) /\ q.store = NoStore
        /\ q.at = IF req[r].writes \/ Claims(req[r], c) THEN "change" ELSE "commit"
    BY <1>1, <1>2 DEF Request
  <2>2. Becomes(r, q)
    BY <1>4
  <2> HIDE DEF q
  <2>3. Meant(q)
    BY <1>1, <2>1 DEF Fine, Meant, Places, Talking, Leaving, Claims
  <2>4. Handed(q)
    BY <1>1, <2>1 DEF Fine, Handed, IInv, Numbered
  <2>5. Finds(q) /\ Inserts(q) /\ Refers(q) /\ TakesOwn(q)
    BY <1>4, <2>1 DEF Finds, Inserts, Refers, TakesOwn, IInv, Distinct, Pair
  <2>6. Overtaken(q)
    BY <2>1 DEF Overtaken, Claims, IInv, Distinct
  <2>7. Fine(q)
    BY <2>3, <2>4, <2>5, <2>6 DEF Fine
  <2> QED
    BY <1>1, <2>1, <2>2, <2>7, Quiet, Untouched
<1> QED
  BY <1>3, <1>4 DEF Find

(* The row it inserts is its own until it commits, and so is the storefront*)
(* it refers to.                                                           *)
LEMMA InsertPromise ==
  ASSUME IInv, Promise, NEW r \in Requests, Insert(r)
  PROVE  Promise'
<1>1. CASE Refuse(r) /\ UNCHANGED past
  BY <1>1, RefusePromise DEF Insert
<1>2. CASE ~(Refuse(r) /\ UNCHANGED past)
  <2> DEFINE q == [req[r] EXCEPT !.conv = past.ids + 1, !.isNew = TRUE, !.holds = TRUE,
                             !.at = IF req[r].writes THEN "change" ELSE "commit"]
  <2>1. /\ Becomes(r, q) /\ UNCHANGED tables /\ req[r].at = "insert"
        /\ past' = [past EXCEPT !.ids = @ + 1] /\ past.ids < MaxConversations
        /\ ~PairLocked(r, Pair(req[r])) /\ ~StoreLeaving(r, req[r].asked)
        /\ ~Taken(Pair(req[r])) /\ (req[r].asked # NoStore => req[r].asked \in shops)
    BY <1>2 DEF Insert
  <2>2. Request(req[r]) /\ Fine(req[r])
    BY DEF IInv, Shape, Requested, Promise
  <2>3. /\ q.at = (IF req[r].writes THEN "change" ELSE "commit")
        /\ q.isNew = TRUE /\ q.holds = TRUE /\ q.conv = past.ids + 1
        /\ q.user = req[r].user /\ q.peer = req[r].peer /\ q.asked = req[r].asked
        /\ q.claims = req[r].claims /\ q.mine = req[r].mine /\ q.store = req[r].store
    BY <2>2 DEF Request
  <2>4. ~req[r].claims /\ req[r].store = NoStore /\ ~req[r].holds /\ ~req[r].isNew
    BY <2>1, <2>2 DEF Fine, Meant
  <2> HIDE DEF q
  <2>5. req'[r] = q /\ \A o \in Requests \ {r} : req'[o] = req[o]
    BY <2>1 DEF IInv, Shape, Requested, Becomes
  <2>6. /\ past'.ids = past.ids + 1 /\ past'.said = past.said /\ past'.through = past.through
        /\ past.ids \in Nat /\ MaxConversations \in Nat
    BY <2>1, BoundsAssumption DEF IInv, Shape, Recorded, Numbered
  <2>7. Given \subseteq Given' /\ past.ids + 1 \in Given' /\ past.ids + 1 \notin Given
    BY <2>6 DEF Given
  <2>8. Fine(req[r])'
    <3>1. Meant(q)
      BY <2>1, <2>2, <2>3, <2>4, <2>6 DEF Fine, Meant, Places, Talking, Leaving
    <3>2. Meant(req[r])' /\ Handed(req[r])'
      BY <2>2, <2>3, <2>5, <2>7, <3>1 DEF Meant, Fine, Handed
    <3>3. Finds(req[r])' /\ Refers(req[r])' /\ TakesOwn(req[r])' /\ Overtaken(req[r])'
      BY <2>1, <2>3, <2>4, <2>5 DEF Finds, Refers, TakesOwn, Overtaken, tables
    <3>4. Inserts(req[r])'
      BY <2>1, <2>3, <2>5, <2>6, <2>7 DEF Inserts, Taken, Pair, tables, Promise, Tables
    <3> QED
      BY <3>2, <3>3, <3>4 DEF Fine
  <2>9. ASSUME NEW o \in Requests \ {r}
        PROVE  Apart(q, req[o]) /\ Apart(req[o], q)
    <3>1. req[o] \in Others(r) /\ Fine(req[o]) /\ Apart(req[o], req[r])
      BY DEF Others, Promise
    <3>2. req[o].isNew => Pair(q) # Pair(req[o])
      BY <2>1, <2>3, <3>1 DEF PairLocked, Fine, Meant, Pair
    <3>3. q.conv # req[o].conv /\ q.conv \notin req[o].mine
      BY <2>3, <2>7, <3>1 DEF Fine, Handed
    <3>4. req[o].at = "leave" => req[o].store # q.asked
      BY <2>1, <2>3, <3>1 DEF StoreLeaving
    <3>5. q.at \notin {"close", "leave"}
      BY <2>3
    <3> QED
      BY <2>3, <3>1, <3>2, <3>3, <3>4, <3>5 DEF Apart
  <2> QED
    BY <2>1, <2>5, <2>6, <2>8, <2>9, Steady DEF tables
<1> QED
  BY <1>1, <1>2

(* The row it changes nobody deletes before it commits.                    *)
LEMMA ChangePromise ==
  ASSUME IInv, Promise, NEW r \in Requests, Change(r)
  PROVE  Promise'
<1>1. UNCHANGED <<tables, past>>
  BY DEF Change
<1>2. CASE Refuse(r)
  BY <1>1, <1>2, RefusePromise
<1>3. CASE ~Refuse(r)
  <2> DEFINE q == [req[r] EXCEPT !.holds = TRUE,
                             !.at = IF Counts(req[r]) THEN "count" ELSE "commit"]
  <2>1. /\ Becomes(r, q) /\ req[r].at = "change" /\ ~Stale(req[r])
        /\ req[r].isNew \/ ~RowLocked(r, req[r].conv)
        /\ ~(req[r].claims /\ StoreLeaving(r, req[r].asked))
    BY <1>3 DEF Change
  <2>2. Request(req[r]) /\ Fine(req[r])
    BY DEF IInv, Shape, Requested, Promise
  <2>3. /\ q.at = (IF Counts(req[r]) THEN "count" ELSE "commit") /\ q.holds = TRUE
        /\ q.user = req[r].user /\ q.peer = req[r].peer /\ q.asked = req[r].asked
        /\ q.writes = req[r].writes /\ q.conv = req[r].conv /\ q.isNew = req[r].isNew
        /\ q.claims = req[r].claims /\ q.mine = req[r].mine /\ q.store = req[r].store
    BY <2>2 DEF Request
  <2>4. req[r].store = NoStore
    BY <2>1, <2>2 DEF Fine, Meant
  <2> HIDE DEF q
  <2>5. Fine(q)
    <3>1. Meant(q)
      BY <2>1, <2>2, <2>3, <2>4 DEF Fine, Meant, Places, Talking, Leaving, Counts
    <3>2. Handed(q) /\ Inserts(q) /\ TakesOwn(q) /\ Overtaken(q)
      BY <2>2, <2>3 DEF Fine, Handed, Inserts, TakesOwn, Overtaken, Pair
    <3>3. Finds(q)
      BY <2>1, <2>2, <2>3 DEF Fine, Finds, Stale, Row, Pair
    <3>4. Refers(q)
      BY <2>1, <2>2, <2>3 DEF Fine, Meant, Refers, Stale
    <3> QED
      BY <3>1, <3>2, <3>3, <3>4 DEF Fine
  <2>6. ASSUME NEW o \in Requests \ {r}
        PROVE  Apart(q, req[o]) /\ Apart(req[o], q)
    <3>1. /\ req[o] \in Others(r) /\ Apart(req[o], req[r]) /\ Apart(req[r], req[o])
          /\ req[r].isNew => req[r].holds
      BY <2>2 DEF Others, Promise, Fine, Meant
    <3>2. ~q.isNew /\ req[o].at \in {"close", "leave"} => q.conv \notin req[o].mine
      BY <2>1, <2>3, <3>1 DEF RowLocked
    <3>3. q.claims /\ req[o].at = "leave" => req[o].store # q.asked
      BY <2>1, <2>3, <3>1 DEF StoreLeaving
    <3> QED
      BY <2>3, <3>1, <3>2, <3>3 DEF Apart, Pair
  <2> QED
    BY <1>1, <2>1, <2>5, <2>6, Quiet
<1> QED
  BY <1>2, <1>3

LEMMA CountPromise ==
  ASSUME IInv, Promise, NEW r \in Requests, Count(r)
  PROVE  Promise'
<1> DEFINE q == [req[r] EXCEPT !.store = req[r].asked, !.at = "commit"]
<1>1. Becomes(r, q) /\ UNCHANGED <<tables, past>> /\ req[r].at = "count"
  BY DEF Count
<1>2. Request(req[r]) /\ Fine(req[r])
  BY DEF IInv, Shape, Requested, Promise
<1>3. /\ q.at = "commit" /\ q.store = req[r].asked
      /\ q.user = req[r].user /\ q.peer = req[r].peer /\ q.asked = req[r].asked
      /\ q.writes = req[r].writes /\ q.conv = req[r].conv /\ q.isNew = req[r].isNew
      /\ q.claims = req[r].claims /\ q.mine = req[r].mine /\ q.holds = req[r].holds
  BY <1>2 DEF Request
<1> HIDE DEF q
<1>4. Fine(q)
  BY <1>1, <1>2, <1>3 DEF Fine, Meant, Places, Talking, Leaving, Handed, Finds, Inserts, Refers,
                          TakesOwn, Overtaken, Pair
<1>5. \A o \in Requests \ {r} : Apart(req[r], req[o]) /\ Apart(req[o], req[r])
  BY DEF Promise
<1>6. \A o \in Requests \ {r} : Apart(q, req[o]) /\ Apart(req[o], q)
  BY <1>3, <1>5 DEF Apart, Pair
<1> QED
  BY <1>1, <1>4, <1>6, Quiet

LEMMA ReplyPromise ==
  ASSUME IInv, Promise, NEW r \in Requests, NEW u \in Users, NEW c \in conv, Reply(r, u, c)
  PROVE  Promise'
<1> DEFINE q == [Idle EXCEPT !.at = "change", !.user = u, !.writes = TRUE, !.conv = c.id,
                             !.peer = CHOOSE v \in c.pair : v # u]
<1>1. Becomes(r, q) /\ UNCHANGED <<tables, past>> /\ u \in c.pair
  BY DEF Reply
<1>2. PICK v \in Users : v # u /\ c.pair = {u, v}
  <2>1. PICK a, b \in Users : a # b /\ c.pair = {a, b}
    BY DEF Promise, Tables, Conversation, IsPair
  <2> QED
    BY <1>1, <2>1
<1>3. (CHOOSE w \in c.pair : w # u) = v
  BY <1>2
<1>4. /\ q.at = "change" /\ q.user = u /\ q.peer = v /\ q.asked = NoStore /\ q.conv = c.id
      /\ q.isNew = FALSE /\ q.holds = FALSE /\ q.claims = FALSE /\ q.mine = {} /\ q.store = NoStore
  BY <1>3 DEF Idle
<1> HIDE DEF q
<1>5. Meant(q) /\ Handed(q)
  BY <1>2, <1>4 DEF Meant, Places, Talking, Leaving, Handed, IInv, Numbered
<1>6. Finds(q) /\ Inserts(q) /\ Refers(q) /\ TakesOwn(q) /\ Overtaken(q)
  BY <1>2, <1>4 DEF Finds, Inserts, Refers, TakesOwn, Overtaken, Pair, IInv, Distinct
<1>7. Fine(q)
  BY <1>5, <1>6 DEF Fine
<1> QED
  BY <1>1, <1>4, <1>7, Quiet, Untouched

-----------------------------------------------------------------------------
(* Commits *)

LEMMA CommitStep ==
  ASSUME IInv, Promise, NEW r \in Requests, Becomes(r, Idle), past'.ids = past.ids, Tables',
         \A o \in Requests \ {r} : /\ Finds(req[o])' /\ Inserts(req[o])' /\ Refers(req[o])'
                                   /\ TakesOwn(req[o])' /\ Overtaken(req[o])'
  PROVE  Promise'
<1>1. req'[r] = Idle /\ \A o \in Requests \ {r} : req'[o] = req[o]
  BY DEF IInv, Shape, Requested, Becomes
<1>2. ASSUME NEW o \in Requests \ {r}
      PROVE  Fine(req[o])'
  <2>1. Meant(req[o]) /\ Handed(req[o])
    BY DEF Promise, Fine
  <2>2. Meant(req[o])' /\ Handed(req[o])'
    BY <1>1, <2>1 DEF Meant, Handed, Given
  <2> QED
    BY <2>2 DEF Fine
<1>3. Fine(Idle)'
  <2>1. (past.ids \in Nat)'
    BY DEF IInv, Numbered
  <2> QED
    BY <2>1 DEF Fine, Meant, Places, Talking, Leaving, Handed, Given, Finds, Inserts, Refers,
                TakesOwn, Overtaken, Idle
<1>4. Fine(req[r])'
  BY <1>1, <1>3
<1>5. \A o \in Requests : Apart(Idle, req[o]) /\ Apart(req[o], Idle)
  BY IdleApart DEF Promise, Fine
<1> QED
  BY <1>1, <1>2, <1>4, <1>5, ApartStep

(* What remains of the tables when conversations keep id and pair.         *)
LEMMA TalkTables ==
  ASSUME IInv, Promise, NEW r \in Requests, CommitTalk(r),
         \A c \in conv : \E d \in conv' : d.id = c.id /\ d.pair = c.pair,
         req[r].writes => \E d \in conv' : d.id = req[r].conv /\ req[r].user \in d.pair,
         \A d \in conv' : Conversation(d)',
         \A d, e \in conv' : d.pair = e.pair => d = e
  PROVE  Tables'
<1> DEFINE q == req[r]
<1>1. /\ UNCHANGED <<shops, gone>>
      /\ q.writes => past.said < MaxMessages
      /\ msgs' = IF q.writes THEN msgs \cup {[id |-> past.said + 1, conv |-> q.conv,
                                              from |-> q.user, read |-> FALSE]}
                 ELSE msgs
      /\ inquiries' = [s \in Users |-> inquiries[s] + IF q.store = s /\ s \in shops THEN 1 ELSE 0]
      /\ conv' = Written(q)
  BY DEF CommitTalk
<1>2. /\ past'.ids = past.ids /\ past'.said = (IF q.writes THEN past.said + 1 ELSE past.said)
      /\ past'.through = past.through \cup {<<c.store, c.id>> : c \in Written(q)}
      /\ past.said \in 0 .. MaxMessages /\ MaxMessages \in Nat
  BY BoundsAssumption DEF CommitTalk, IInv, Shape, Recorded, Promise, Tables
<1>3. ASSUME NEW m \in msgs'
      PROVE  Message(m)'
  <2>1. CASE m \in msgs
    BY <1>2, <2>1 DEF Promise, Tables, Message
  <2>2. CASE m \notin msgs
    <3>1. q.writes /\ m.id = past.said + 1 /\ m.conv = q.conv /\ m.from = q.user
      BY <1>1, <2>2
    <3> QED
      BY <1>1, <1>2, <3>1 DEF Message
  <2> QED
    BY <2>1, <2>2
<1>4. \A x \in past'.through : x = <<x[1], x[2]>> /\ x[2] \in Given'
  <2>1. \A c \in Written(q) : c.id \in Given'
    BY <1>1 DEF Conversation
  <2> QED
    BY <1>2, <2>1 DEF Promise, Tables, Given
<1>5. inquiries' \in [Users -> Nat]
  BY <1>1 DEF Promise, Tables
<1> QED
  BY <1>1, <1>2, <1>3, <1>4, <1>5 DEF Promise, Tables

(* The conversation that was inserted is there.                            *)
LEMMA TalkNew ==
  ASSUME IInv, Promise, NEW r \in Requests, CommitTalk(r), req[r].isNew
  PROVE  Promise'
<1> DEFINE q == req[r]
           new == [id |-> q.conv, pair |-> Pair(q), store |-> q.asked]
<1>1. /\ UNCHANGED <<shops, gone>> /\ conv' = conv \cup {new}
      /\ Becomes(r, Idle) /\ q.at = "commit"
  BY DEF CommitTalk, Written
<1>2. /\ past'.ids = past.ids
      /\ past'.through = past.through \cup {<<c.store, c.id>> : c \in conv'}
  BY DEF CommitTalk, IInv, Shape, Recorded
<1>3. Fine(q) /\ Unseen(r)
  BY DEF Promise, IInv, Unborn
<1>4. req'[r] = Idle /\ \A o \in Requests \ {r} : req'[o] = req[o]
  BY <1>1 DEF IInv, Shape, Requested, Becomes
<1>5. /\ new.id = q.conv /\ new.pair = {q.user, q.peer} /\ new.store = q.asked
      /\ \A c \in conv : c.pair # new.pair /\ c.id # new.id
      /\ <<new.store, new.id>> \in past'.through
  BY <1>1, <1>2, <1>3 DEF Fine, Inserts, Unseen, Pair
<1> HIDE DEF new
<1>6. Tables'
  <2>1. ASSUME NEW d \in conv'
        PROVE  Conversation(d)'
    <3>1. CASE d = new
      <4>1. /\ q.user \in Users /\ q.peer \in Users /\ q.user # q.peer
            /\ q.asked \in {q.peer, NoStore} /\ q.conv \in Given \ {0}
            /\ q.asked # NoStore => q.asked \in shops
        BY <1>1, <1>3 DEF Fine, Meant, Talking, Handed, Given, Refers
      <4>2. IsPair(d.pair)
        BY <1>5, <3>1, <4>1 DEF IsPair
      <4>3. d.id \in Given \ {0} /\ d.store \in (d.pair \cap shops) \cup {NoStore}
        BY <1>5, <3>1, <4>1
      <4> QED
        BY <1>1, <1>2, <1>5, <3>1, <4>2, <4>3 DEF Conversation, IsPair, Given
    <3>2. CASE d # new
      <4>1. Conversation(d)
        BY <1>1, <3>2 DEF Promise, Tables
      <4> QED
        BY <1>1, <1>2, <4>1 DEF Conversation, IsPair, Given, Over
    <3> QED
      BY <3>1, <3>2
  <2>2. \A d, e \in conv' : d.pair = e.pair => d = e
    BY <1>1, <1>5 DEF Promise, Tables
  <2>3. new \in conv' /\ q.user \in new.pair /\ conv \subseteq conv'
    BY <1>1, <1>5
  <2> QED
    BY <1>5, <2>1, <2>2, <2>3, TalkTables
<1>7. ASSUME NEW o \in Requests \ {r}
      PROVE  /\ Finds(req[o])' /\ Inserts(req[o])' /\ Refers(req[o])'
             /\ TakesOwn(req[o])' /\ Overtaken(req[o])'
  <2>1. Fine(req[o]) /\ Apart(q, req[o]) /\ (req[o].isNew => Unseen(o)) /\ req'[o] = req[o]
    BY <1>4 DEF Promise, IInv, Unborn
  <2>2. /\ q.conv # req[o].conv /\ q.conv \notin req[o].mine
        /\ req[o].isNew => new.pair # Pair(req[o])
    BY <1>5, <2>1 DEF Apart, Pair
  <2>3. Finds(req[o])' /\ Refers(req[o])' /\ TakesOwn(req[o])' /\ Overtaken(req[o])'
    BY <1>1, <1>2, <1>5, <2>1, <2>2 DEF Fine, Finds, Refers, TakesOwn, Overtaken, Over, Pair
  <2>4. Inserts(req[o])'
    <3> SUFFICES ASSUME req[o].isNew
                 PROVE  /\ \A c \in conv' : c.pair # Pair(req[o])
                        /\ \A x \in past'.through : x[2] # req[o].conv
      BY <2>1 DEF Inserts, Pair
    <3>1. \A c \in conv' : c.pair # Pair(req[o]) /\ c.id # req[o].conv
      BY <1>1, <1>5, <2>1, <2>2 DEF Fine, Inserts, Unseen
    <3> QED
      BY <1>2, <2>1, <3>1 DEF Fine, Inserts
  <2> QED
    BY <2>3, <2>4
<1> QED
  BY <1>1, <1>2, <1>6, <1>7, CommitStep

(* Nothing is changed but the time of the last message.                    *)
LEMMA TalkOn ==
  ASSUME IInv, Promise, NEW r \in Requests, CommitTalk(r), ~req[r].isNew, ~req[r].claims
  PROVE  Promise'
<1> DEFINE q == req[r]
<1>1. /\ UNCHANGED <<shops, gone>> /\ conv' = conv
      /\ Becomes(r, Idle) /\ q.at = "commit"
  BY DEF CommitTalk, Written
<1>2. /\ past'.ids = past.ids
      /\ past'.through = past.through \cup {<<c.store, c.id>> : c \in conv'}
  BY DEF CommitTalk, IInv, Shape, Recorded
<1>3. Fine(q)
  BY DEF Promise
<1>4. req'[r] = Idle /\ \A o \in Requests \ {r} : req'[o] = req[o]
  BY <1>1 DEF IInv, Shape, Requested, Becomes
<1>5. Tables'
  <2>1. ASSUME NEW c \in conv
        PROVE  Conversation(c)'
    <3>1. Conversation(c)
      BY DEF Promise, Tables
    <3> QED
      BY <1>1, <1>2, <3>1 DEF Conversation, IsPair, Given, Over
  <2>2. q.writes => \E d \in conv' : d.id = q.conv /\ q.user \in d.pair
    BY <1>1, <1>3 DEF Fine, Meant, Finds, Pair
  <2> QED
    BY <1>1, <2>1, <2>2, TalkTables DEF Promise, Tables
<1>6. ASSUME NEW o \in Requests \ {r}
      PROVE  /\ Finds(req[o])' /\ Inserts(req[o])' /\ Refers(req[o])'
             /\ TakesOwn(req[o])' /\ Overtaken(req[o])'
  <2>1. Fine(req[o]) /\ (req[o].isNew => Unseen(o)) /\ req'[o] = req[o]
    BY <1>4 DEF Promise, IInv, Unborn
  <2> QED
    BY <1>1, <1>2, <2>1 DEF Fine, Finds, Inserts, Refers, TakesOwn, Overtaken, Over, Pair, Unseen
<1> QED
  BY <1>1, <1>2, <1>5, <1>6, CommitStep

(* A conversation becomes one of the storefront that the request came      *)
(* through.  If another set one meanwhile, it had found none either.       *)
LEMMA TalkClaims ==
  ASSUME IInv, Promise, NEW r \in Requests, CommitTalk(r), ~req[r].isNew, req[r].claims
  PROVE  Promise'
<1> DEFINE q == req[r]
           W(c) == IF c.id = q.conv THEN [c EXCEPT !.store = q.asked] ELSE c
<1>1. /\ UNCHANGED <<shops, gone>> /\ conv' = {W(c) : c \in conv}
      /\ Becomes(r, Idle) /\ q.at = "commit"
  BY DEF CommitTalk, Written
<1>2. /\ past'.ids = past.ids
      /\ past'.through = past.through \cup {<<c.store, c.id>> : c \in conv'}
  BY DEF CommitTalk, IInv, Shape, Recorded
<1>3. Fine(q)
  BY DEF Promise
<1>4. req'[r] = Idle /\ \A o \in Requests \ {r} : req'[o] = req[o]
  BY <1>1 DEF IInv, Shape, Requested, Becomes
<1>5. \A c \in conv : /\ W(c).id = c.id /\ W(c).pair = c.pair
                      /\ c.id = q.conv => W(c).store = q.asked
                      /\ c.id # q.conv => W(c) = c
  BY DEF IInv, Shape, Opened
<1> HIDE DEF W
<1>6. /\ q.holds /\ q.asked = q.peer /\ q.asked # NoStore /\ q.asked \in shops
      /\ \E c \in conv : c.id = q.conv /\ c.pair = {q.user, q.peer}
      /\ \A c \in conv : c.id = q.conv => c.pair = {q.user, q.peer}
  BY <1>1, <1>3 DEF Fine, Meant, Talking, Finds, Refers, Pair
<1>7. Tables'
  <2>1. ASSUME NEW d \in conv'
        PROVE  Conversation(d)'
    <3>1. PICK c \in conv : d = W(c)
      BY <1>1
    <3>2. Conversation(c) /\ d.id = c.id /\ d.pair = c.pair
      BY <1>5, <3>1 DEF Promise, Tables
    <3>3. d.store \in (d.pair \cap shops) \cup {NoStore}
      BY <1>5, <1>6, <3>1, <3>2 DEF Conversation
    <3>4. d.store = NoStore => <<NoStore, d.id>> \in past'.through
      BY <1>2
    <3> QED
      BY <1>1, <1>2, <3>2, <3>3, <3>4 DEF Conversation, IsPair, Given
  <2>2. ASSUME NEW d \in conv', NEW e \in conv', d.pair = e.pair
        PROVE  d = e
    BY <1>1, <1>5, <2>2 DEF Promise, Tables
  <2>3. \A c \in conv : \E d \in conv' : d.id = c.id /\ d.pair = c.pair
    BY <1>1, <1>5
  <2> QED
    BY <1>6, <2>1, <2>2, <2>3, TalkTables
<1>8. ASSUME NEW o \in Requests \ {r}
      PROVE  /\ Finds(req[o])' /\ Inserts(req[o])' /\ Refers(req[o])'
             /\ TakesOwn(req[o])' /\ Overtaken(req[o])'
  <2>1. Fine(req[o]) /\ (req[o].isNew => Unseen(o)) /\ req'[o] = req[o]
    BY <1>4 DEF Promise, IInv, Unborn
  <2>2. Finds(req[o])'
    BY <1>1, <1>5, <2>1 DEF Fine, Finds, Pair
  <2>3. Inserts(req[o])'
    <3>1. \A d \in conv' : \E c \in conv : c.id = d.id /\ c.pair = d.pair
      BY <1>1, <1>5
    <3>2. req[o].isNew => /\ \A d \in conv' : d.pair # Pair(req[o]) /\ d.id # req[o].conv
                          /\ \A x \in past.through : x[2] # req[o].conv
      BY <2>1, <3>1 DEF Fine, Inserts, Unseen
    <3>3. req[o].isNew => \A x \in past'.through : x[2] # req[o].conv
      BY <1>2, <3>2
    <3> QED
      BY <2>1, <3>2, <3>3 DEF Inserts, Pair
  <2>4. Refers(req[o])' /\ TakesOwn(req[o])'
    BY <1>1, <1>5, <2>1 DEF Fine, Refers, TakesOwn
  <2>5. Overtaken(req[o])'
    <3> SUFFICES ASSUME req[o].claims, ~Over(req[o].asked), NEW c \in conv, c.id = req[o].conv,
                        W(c).store \notin {NoStore, req[o].asked}
                 PROVE  <<NoStore, c.id>> \in past.through
      BY <1>1, <1>2, <1>5, <2>1 DEF Overtaken, Over
    <3>1. CASE c.id # q.conv
      BY <1>5, <2>1, <3>1 DEF Fine, Overtaken
    <3>2. CASE c.id = q.conv /\ c.store = NoStore
      <4>1. req[o].asked \in c.pair /\ req[o].asked # q.asked
        BY <1>5, <2>1, <3>2 DEF Fine, Meant, Talking, Finds, Pair
      <4>2. req[o].asked = q.user /\ c.pair = {q.user, q.asked} /\ ~Over(q.asked)
        BY <1>6, <3>2, <4>1 DEF Over
      <4> QED
        BY <3>2, <4>2 DEF Promise, Tables, Conversation
    <3>3. CASE c.id = q.conv /\ c.store # NoStore
      <4>1. ~Over(q.asked) /\ q.asked # req[o].asked
        BY <1>5, <1>6, <3>3 DEF Over
      <4> QED
        BY <1>3, <2>1, <3>3, <4>1 DEF Fine, Overtaken
    <3> QED
      BY <3>1, <3>2, <3>3
  <2> QED
    BY <2>2, <2>3, <2>4, <2>5
<1> QED
  BY <1>1, <1>2, <1>7, <1>8, CommitStep

-----------------------------------------------------------------------------
(* Reading, and storefronts *)

LEMMA ListPromise ==
  ASSUME IInv, Promise, NEW r \in Requests, NEW u \in Users, NEW c \in conv, List(r, u, c)
  PROVE  Promise'
<1> DEFINE ids == {m.id : m \in Unread(u, c.id)}
           q == [Idle EXCEPT !.at = "mark", !.user = u, !.conv = c.id, !.seen = ids]
<1>1. /\ Becomes(r, q) /\ UNCHANGED tables
      /\ past' = [past EXCEPT !.shown = @ \cup ids]
  BY DEF List
<1>2. /\ q.at = "mark" /\ q.asked = NoStore /\ q.conv = c.id /\ q.isNew = FALSE
      /\ q.holds = FALSE /\ q.claims = FALSE /\ q.mine = {} /\ q.store = NoStore
  BY DEF Idle
<1> HIDE DEF q, ids
<1>3. req'[r] = q /\ \A o \in Requests \ {r} : req'[o] = req[o]
  BY <1>1 DEF IInv, Shape, Requested, Becomes
<1>4. past'.ids = past.ids /\ past'.said = past.said /\ past'.through = past.through
  BY <1>1 DEF IInv, Shape, Recorded
<1>5. past.ids \in Nat /\ past.ids <= MaxConversations /\ c.id \in Given
  BY DEF IInv, Numbered, Promise, Tables
<1>6. Fine(req[r])'
  BY <1>2, <1>3, <1>4, <1>5 DEF Fine, Meant, Places, Talking, Leaving, Handed, Given, Finds,
                                Inserts, Refers, TakesOwn, Overtaken
<1> QED
  BY <1>1, <1>2, <1>3, <1>4, <1>5, <1>6, Steady, Untouched DEF tables

(* Messages are where they were.                                           *)
LEMMA MarkPromise ==
  ASSUME IInv, Promise, NEW r \in Requests, Mark(r)
  PROVE  Promise'
<1>1. /\ msgs' = {[m EXCEPT !.read = @ \/ m.id \in Marked(req[r])] : m \in msgs}
      /\ Becomes(r, Idle) /\ UNCHANGED <<shops, gone, conv, inquiries, past>>
  BY DEF Mark
<1>2. req'[r] = Idle /\ \A o \in Requests \ {r} : req'[o] = req[o]
  BY <1>1 DEF IInv, Shape, Requested, Becomes
<1>3. ASSUME NEW n \in msgs'
      PROVE  Message(n)'
  <2>1. PICK m \in msgs : n = [m EXCEPT !.read = @ \/ m.id \in Marked(req[r])]
    BY <1>1
  <2>2. DOMAIN m = {"id", "conv", "from", "read"}
    BY DEF IInv, Shape, Sent
  <2>3. n.id = m.id /\ n.conv = m.conv /\ n.from = m.from
    BY <2>1, <2>2
  <2> QED
    BY <1>1, <2>3 DEF Promise, Tables, Message
<1>4. \A c \in conv : Conversation(c)'
  BY <1>1 DEF Promise, Tables, Conversation, IsPair, Given, Over
<1>5. Tables'
  BY <1>1, <1>3, <1>4 DEF Promise, Tables, Given
<1>6. ASSUME NEW o \in Requests \ {r}
      PROVE  /\ Finds(req[o])' /\ Inserts(req[o])' /\ Refers(req[o])'
             /\ TakesOwn(req[o])' /\ Overtaken(req[o])'
  <2>1. Fine(req[o]) /\ req'[o] = req[o]
    BY <1>2 DEF Promise
  <2> QED
    BY <1>1, <2>1 DEF Fine, Finds, Inserts, Refers, TakesOwn, Overtaken, Over, Pair
<1> QED
  BY <1>1, <1>5, <1>6, CommitStep

(* Whoever opens a storefront is not among those who are gone.             *)
LEMMA ElsewherePromise ==
  ASSUME IInv, Promise, UNCHANGED <<gone, conv, msgs, req>>,
         shops \subseteq shops', shops' \subseteq Users, \A u \in gone : u \in shops' => u \in shops,
         past'.ids = past.ids, past'.said = past.said, past'.through = past.through,
         inquiries' \in [Users -> Nat]
  PROVE  Promise'
<1>1. \A u : Over(u) <=> u \in gone /\ u \notin shops'
  BY DEF Over
<1>2. \A c \in conv : Conversation(c)'
  BY <1>1 DEF Promise, Tables, Conversation, IsPair, Given, Over
<1>3. Tables'
  <2>1. \A m \in msgs : Message(m)'
    BY DEF Promise, Tables, Message
  <2> QED
    BY <1>2, <2>1 DEF Promise, Tables, Given
<1>4. ASSUME NEW o \in Requests
      PROVE  Fine(req[o])'
  <2>1. Fine(req[o]) /\ req'[o] = req[o]
    BY DEF Promise
  <2>2. Meant(req[o])' /\ Handed(req[o])' /\ Finds(req[o])' /\ Inserts(req[o])'
    BY <2>1 DEF Fine, Meant, Handed, Given, Finds, Inserts, Pair
  <2>3. Refers(req[o])' /\ TakesOwn(req[o])' /\ Overtaken(req[o])'
    BY <1>1, <2>1 DEF Fine, Refers, TakesOwn, Overtaken, Over
  <2> QED
    BY <2>2, <2>3 DEF Fine
<1>5. \A r, o \in Requests : r # o => Apart(req[r], req[o])'
  BY DEF Promise, Apart, Pair
<1> QED
  BY <1>3, <1>4, <1>5 DEF Promise

LEMMA ShopPromise ==
  ASSUME IInv, Promise, NEW u \in Users, OpenShop(u) \/ Click(u)
  PROVE  Promise'
<1>1. inquiries' \in [Users -> Nat]
  BY DEF OpenShop, Click, Promise, Tables
<1>2. past'.ids = past.ids /\ past'.said = past.said /\ past'.through = past.through
  BY DEF OpenShop, Click, IInv, Shape, Recorded
<1> QED
  BY <1>1, <1>2, ElsewherePromise DEF OpenShop, Click, Promise, Tables

-----------------------------------------------------------------------------
(* Leaving *)

LEMMA DepartPromise ==
  ASSUME IInv, Promise, NEW r \in Requests, NEW u \in Users, Depart(r, u)
  PROVE  Promise'
<1> DEFINE q == [Idle EXCEPT !.at = "collect", !.user = u,
                     !.asked = IF u \in shops THEN u ELSE NoStore,
                     !.known = {c.id : c \in RowsOf(u)}]
<1>1. Becomes(r, q) /\ UNCHANGED <<tables, past>>
  BY DEF Depart
<1>2. /\ q.at = "collect" /\ q.user = u /\ q.asked \in {u, NoStore} /\ q.conv = 0
      /\ q.isNew = FALSE /\ q.holds = FALSE /\ q.claims = FALSE /\ q.mine = {} /\ q.store = NoStore
  BY DEF Idle
<1> HIDE DEF q
<1>3. Fine(q)
  BY <1>2 DEF Fine, Meant, Places, Talking, Leaving, Handed, Given, Finds, Inserts, Refers,
              TakesOwn, Overtaken, IInv, Numbered
<1> QED
  BY <1>1, <1>2, <1>3, Quiet, Untouched

LEMMA CollectPromise ==
  ASSUME IInv, Promise, NEW r \in Requests, Collect(r)
  PROVE  Promise'
<1> DEFINE q == [req[r] EXCEPT !.at = "erase", !.mine = Collected(req[r].user)]
<1>1. Becomes(r, q) /\ UNCHANGED <<tables, past>> /\ req[r].at = "collect"
  BY DEF Collect
<1>2. Request(req[r]) /\ Fine(req[r])
  BY DEF IInv, Shape, Requested, Promise
<1>3. /\ q.at = "erase" /\ q.mine = Collected(req[r].user)
      /\ q.user = req[r].user /\ q.asked = req[r].asked /\ q.conv = req[r].conv
      /\ q.isNew = req[r].isNew /\ q.holds = req[r].holds /\ q.claims = req[r].claims
      /\ q.store = req[r].store
  BY <1>2 DEF Request
<1> HIDE DEF q
<1>4. ~q.isNew /\ ~q.holds /\ ~q.claims /\ q.store = NoStore
  BY <1>1, <1>2, <1>3 DEF Fine, Meant
<1>5. \A k \in q.mine : \E c \in conv : k = c.id /\ q.user \in c.pair
  BY <1>3 DEF Collected, RowsOf
<1>6. Meant(q)
  BY <1>1, <1>2, <1>3, <1>4 DEF Fine, Meant, Places, Talking, Leaving
<1>7. Handed(q)
  BY <1>2, <1>3, <1>5 DEF Fine, Handed, IInv, Numbered
<1>8. TakesOwn(q)
  BY <1>5 DEF TakesOwn, IInv, Distinct
<1>9. Fine(q)
  BY <1>3, <1>4, <1>6, <1>7, <1>8 DEF Fine, Finds, Inserts, Refers, Overtaken
<1> QED
  BY <1>1, <1>3, <1>4, <1>5, <1>9, Quiet, Untouched

(* It waits for those who have changed one of the conversations.           *)
LEMMA ErasePromise ==
  ASSUME IInv, Promise, NEW r \in Requests, Erase(r)
  PROVE  Promise'
<1> DEFINE q == [req[r] EXCEPT !.at = "close"]
<1>1. /\ Becomes(r, q) /\ UNCHANGED <<tables, past>> /\ req[r].at = "erase"
      /\ \A id \in req[r].mine : ~RowLocked(r, id)
  BY DEF Erase, Goes
<1>2. Request(req[r]) /\ Fine(req[r])
  BY DEF IInv, Shape, Requested, Promise
<1>3. /\ q.at = "close" /\ q.mine = req[r].mine
      /\ q.user = req[r].user /\ q.asked = req[r].asked /\ q.conv = req[r].conv
      /\ q.isNew = req[r].isNew /\ q.holds = req[r].holds /\ q.claims = req[r].claims
      /\ q.store = req[r].store
  BY <1>2 DEF Request
<1> HIDE DEF q
<1>4. ~q.isNew /\ ~q.holds /\ ~q.claims /\ q.store = NoStore
  BY <1>1, <1>2, <1>3 DEF Fine, Meant
<1>5. Fine(q)
  BY <1>1, <1>2, <1>3, <1>4 DEF Fine, Meant, Places, Talking, Leaving, Handed, Finds, Inserts,
                                Refers, TakesOwn, Overtaken
<1>6. ASSUME NEW o \in Requests \ {r}
      PROVE  Apart(q, req[o]) /\ Apart(req[o], q)
  <2>1. Apart(req[o], req[r]) /\ req[o] \in Others(r)
    BY DEF Promise, Others
  <2>2. req[o].holds => req[o].conv \notin q.mine
    BY <1>1, <1>3, <2>1 DEF RowLocked
  <2> QED
    BY <1>3, <1>4, <2>1, <2>2 DEF Apart
<1> QED
  BY <1>1, <1>5, <1>6, Quiet

(* And for those who are about to refer to the storefront.                 *)
LEMMA ClosePromise ==
  ASSUME IInv, Promise, NEW r \in Requests, Close(r)
  PROVE  Promise'
<1> DEFINE q == [req[r] EXCEPT !.at = "leave", !.store = req[r].asked]
<1>1. /\ Becomes(r, q) /\ UNCHANGED <<tables, past>> /\ req[r].at = "close"
      /\ req[r].asked # NoStore => \A o \in Others(r) : ~Referring(o, req[r].asked)
  BY DEF Close
<1>2. Request(req[r]) /\ Fine(req[r])
  BY DEF IInv, Shape, Requested, Promise
<1>3. /\ q.at = "leave" /\ q.store = req[r].asked /\ q.mine = req[r].mine
      /\ q.user = req[r].user /\ q.asked = req[r].asked /\ q.conv = req[r].conv
      /\ q.isNew = req[r].isNew /\ q.holds = req[r].holds /\ q.claims = req[r].claims
  BY <1>2 DEF Request
<1> HIDE DEF q
<1>4. ~q.isNew /\ ~q.holds /\ ~q.claims
  BY <1>1, <1>2, <1>3 DEF Fine, Meant
<1>5. Fine(q)
  BY <1>1, <1>2, <1>3, <1>4 DEF Fine, Meant, Places, Talking, Leaving, Handed, Finds, Inserts,
                                Refers, TakesOwn, Overtaken
<1>6. ASSUME NEW o \in Requests \ {r}
      PROVE  Apart(q, req[o]) /\ Apart(req[o], q)
  <2>1. Apart(req[o], req[r]) /\ req[o] \in Others(r)
    BY DEF Promise, Others
  <2>2. req[o].holds /\ (req[o].isNew \/ req[o].claims) /\ req[o].asked # NoStore =>
            q.store # req[o].asked
    BY <1>1, <1>3, <2>1 DEF Referring
  <2> QED
    BY <1>1, <1>3, <1>4, <2>1, <2>2 DEF Apart
<1> QED
  BY <1>1, <1>5, <1>6, Quiet

LEMMA CommitLeavePromise ==
  ASSUME IInv, Promise, NEW r \in Requests, CommitLeave(r)
  PROVE  Promise'
<1> DEFINE q == req[r]
           Forgotten(c) == IF c.store = q.asked THEN [c EXCEPT !.store = NoStore] ELSE c
<1>1. /\ conv' = {Forgotten(c) : c \in {d \in conv : d.id \notin q.mine}}
      /\ msgs' = {m \in msgs : m.conv \notin q.mine}
      /\ gone' = gone \cup {q.user} /\ shops' = shops \ {q.asked}
      /\ past' = [past EXCEPT !.dead = @ \cup q.known]
      /\ Becomes(r, Idle) /\ q.at = "leave" /\ inquiries' = inquiries
  BY DEF CommitLeave
<1>2. past'.ids = past.ids /\ past'.said = past.said /\ past'.through = past.through
  BY <1>1 DEF IInv, Shape, Recorded
<1>3. req'[r] = Idle /\ \A o \in Requests \ {r} : req'[o] = req[o]
  BY <1>1 DEF IInv, Shape, Requested, Becomes
<1>4. q.user \in Users /\ q.asked \in {q.user, NoStore} /\ q.store = q.asked
  BY <1>1 DEF Promise, Fine, Meant, Leaving
<1>5. \A c \in conv : /\ Forgotten(c).id = c.id /\ Forgotten(c).pair = c.pair
                      /\ Forgotten(c).store = IF c.store = q.asked THEN NoStore ELSE c.store
  BY DEF IInv, Shape, Opened
<1> HIDE DEF Forgotten
<1>6. \A u : Over(u) => Over(u)'
  BY <1>1 DEF Over
<1>7. Tables'
  <2>1. ASSUME NEW d \in conv'
        PROVE  Conversation(d)'
    <3>1. PICK c \in conv : d = Forgotten(c)
      BY <1>1
    <3>2. /\ Conversation(c) /\ d.id = c.id /\ d.pair = c.pair
          /\ d.store = IF c.store = q.asked THEN NoStore ELSE c.store
      BY <1>5, <3>1 DEF Promise, Tables
    <3>3. d.store \in (d.pair \cap shops') \cup {NoStore}
      BY <1>1, <3>2 DEF Conversation
    <3>4. d.store = NoStore => \/ <<NoStore, d.id>> \in past.through
                               \/ \E u \in d.pair : Over(u)'
      <4>1. CASE c.store = q.asked /\ q.asked # NoStore
        BY <1>1, <1>4, <3>2, <4>1 DEF Conversation, Over
      <4>2. CASE c.store = NoStore
        BY <1>6, <3>2, <4>2 DEF Conversation
      <4> QED
        BY <3>2, <4>1, <4>2
    <3> QED
      BY <1>2, <3>2, <3>3, <3>4 DEF Conversation, IsPair, Given
  <2>2. ASSUME NEW m \in msgs'
        PROVE  Message(m)'
    <3>1. PICK c \in conv : m.conv = c.id /\ m.from \in c.pair
      BY <1>1 DEF Promise, Tables, Message
    <3>2. Forgotten(c) \in conv'
      BY <1>1, <3>1
    <3> QED
      BY <1>1, <1>2, <1>5, <3>1, <3>2 DEF Promise, Tables, Message
  <2>3. ASSUME NEW d \in conv', NEW e \in conv', d.pair = e.pair
        PROVE  d = e
    BY <1>1, <1>5, <2>3 DEF Promise, Tables
  <2> QED
    BY <1>1, <1>2, <1>4, <2>1, <2>2, <2>3 DEF Promise, Tables, Given
<1>8. ASSUME NEW o \in Requests \ {r}
      PROVE  /\ Finds(req[o])' /\ Inserts(req[o])' /\ Refers(req[o])'
             /\ TakesOwn(req[o])' /\ Overtaken(req[o])'
  <2>1. Fine(req[o]) /\ Apart(req[o], q) /\ req'[o] = req[o]
    BY <1>3 DEF Promise
  <2>2. \A d \in conv' : \E c \in conv : /\ c.id = d.id /\ c.pair = d.pair
                                         /\ d.store \in {NoStore, c.store}
    BY <1>1, <1>5
  <2>3. Finds(req[o])'
    <3>1. req[o].holds /\ ~req[o].isNew => \A c \in conv : c.id = req[o].conv =>
                                               Forgotten(c) \in conv'
      BY <1>1, <2>1 DEF Apart
    <3> QED
      BY <1>5, <2>1, <2>2, <3>1 DEF Fine, Finds, Pair
  <2>4. Inserts(req[o])' /\ TakesOwn(req[o])'
    BY <1>2, <2>1, <2>2 DEF Fine, Inserts, TakesOwn, Pair
  <2>5. Refers(req[o])'
    BY <1>1, <1>4, <2>1 DEF Fine, Refers, Apart
  <2>6. Overtaken(req[o])'
    BY <1>2, <1>6, <2>1, <2>2 DEF Fine, Overtaken
  <2> QED
    BY <2>3, <2>4, <2>5, <2>6
<1> QED
  BY <1>1, <1>2, <1>7, <1>8, CommitStep

-----------------------------------------------------------------------------
(* The theorems about the tables *)

LEMMA NextPromise == IInv /\ Promise /\ [Next]_vars => Promise'
<1> SUFFICES ASSUME IInv, Promise, [Next]_vars PROVE Promise'
  OBVIOUS
<1>1. CASE UNCHANGED vars
  BY <1>1, ElsewherePromise DEF vars, tables, Promise, Tables
<1>2. ASSUME NEW r \in Requests, NEW u \in Users, NEW v \in Users, NEW writes \in BOOLEAN,
             NEW byStore \in BOOLEAN, Ask(r, u, v, writes, byStore)
      PROVE  Promise'
  BY <1>2, AskPromise
<1>3. ASSUME NEW r \in Requests, Find(r) \/ Insert(r) \/ Change(r) \/ Count(r)
      PROVE  Promise'
  BY <1>3, FindPromise, InsertPromise, ChangePromise, CountPromise
<1>4. ASSUME NEW r \in Requests, CommitTalk(r)
      PROVE  Promise'
  BY <1>4, TalkNew, TalkOn, TalkClaims
<1>5. ASSUME NEW r \in Requests, NEW u \in Users, NEW c \in conv, Reply(r, u, c) \/ List(r, u, c)
      PROVE  Promise'
  BY <1>5, ReplyPromise, ListPromise
<1>6. ASSUME NEW r \in Requests, Mark(r) \/ Collect(r) \/ Erase(r) \/ Close(r) \/ CommitLeave(r)
      PROVE  Promise'
  BY <1>6, MarkPromise, CollectPromise, ErasePromise, ClosePromise, CommitLeavePromise
<1>7. ASSUME NEW r \in Requests, NEW u \in Users, Depart(r, u)
      PROVE  Promise'
  BY <1>7, DepartPromise
<1>8. ASSUME NEW r \in Requests, Fail(r)
      PROVE  Promise'
  BY <1>8, RefusePromise DEF Fail
<1>9. ASSUME NEW u \in Users, OpenShop(u) \/ Click(u)
      PROVE  Promise'
  BY <1>9, ShopPromise
<1> QED
  BY <1>1, <1>2, <1>3, <1>4, <1>5, <1>6, <1>7, <1>8, <1>9 DEF Next

(* Only a commit changes what others see.                                  *)
LEMMA OnlyCommits ==
  ASSUME IInv, [Next]_vars
  PROVE  \/ \E r \in Requests : CommitTalk(r) \/ CommitLeave(r) \/ Mark(r)
         \/ \E u \in Users : OpenShop(u) \/ Click(u)
         \/ UNCHANGED tables /\ past'.through = past.through /\ past'.clicks = past.clicks
<1>1. CASE UNCHANGED vars
  BY <1>1 DEF vars
<1>2. ASSUME NEW r \in Requests,
             \/ \E u, v \in Users : \E writes, byStore \in BOOLEAN : Ask(r, u, v, writes, byStore)
             \/ \E u \in Users, c \in conv : Reply(r, u, c)
             \/ \E u \in Users : Depart(r, u)
      PROVE  UNCHANGED <<tables, past>>
  BY <1>2 DEF Ask, Reply, Depart
<1>3. ASSUME NEW r \in Requests, Find(r) \/ Change(r) \/ Count(r)
      PROVE  UNCHANGED <<tables, past>>
  BY <1>3 DEF Find, Change, Count
<1>4. ASSUME NEW r \in Requests, Collect(r) \/ Erase(r) \/ Close(r) \/ Fail(r)
      PROVE  UNCHANGED <<tables, past>>
  BY <1>4 DEF Collect, Erase, Close, Fail
<1>5. ASSUME NEW r \in Requests, Insert(r)
      PROVE  UNCHANGED tables /\ past'.through = past.through /\ past'.clicks = past.clicks
  BY <1>5 DEF Insert, IInv, Shape, Recorded
<1>6. ASSUME NEW r \in Requests, NEW u \in Users, NEW c \in conv, List(r, u, c)
      PROVE  UNCHANGED tables /\ past'.through = past.through /\ past'.clicks = past.clicks
  BY <1>6 DEF List, IInv, Shape, Recorded
<1> QED
  BY <1>1, <1>2, <1>3, <1>4, <1>5, <1>6 DEF Next

LEMMA PromiseInductive == Spec => [](IInv /\ Promise)
<1>1. IInv /\ Promise /\ [Next]_vars => (IInv /\ Promise)'
  BY NextInv, NextPromise
<1> QED
  BY InitInv, InitPromise, <1>1, PTL DEF Spec

LEMMA TwoMembers ==
  ASSUME NEW u, NEW v, u # v
  PROVE  Cardinality({u, v}) = 2
<1>1. IsFiniteSet({u}) /\ Cardinality({u}) = 1 /\ v \notin {u}
  BY FS_Singleton
<1>2. Cardinality({u} \cup {v}) = 2
  BY <1>1, FS_AddElement
<1>3. {u, v} = {u} \cup {v}
  OBVIOUS
<1> QED
  BY <1>2, <1>3

(* The foreign keys hold and both ids and pairs are unique: no interleaving*)
(* of sending, reading and deleting leaves a message without its           *)
(* conversation or a context without its storefront.                       *)
THEOREM TypeCorrect == Spec => []TypeOK
<1>1. IInv /\ Promise => TypeOK
  <2> SUFFICES ASSUME IInv, Promise PROVE TypeOK
    OBVIOUS
  <2>1. ASSUME NEW c \in conv
        PROVE  /\ c.id \in 1 .. MaxConversations
               /\ c.pair \subseteq Users /\ Cardinality(c.pair) = 2
               /\ c.store \in (c.pair \cap shops) \cup {NoStore}
    <3>1. Conversation(c) /\ past.ids <= MaxConversations /\ past.ids \in Nat /\ MaxConversations \in Nat
      BY BoundsAssumption DEF Promise, Tables, IInv, Numbered
    <3>2. PICK u, v \in Users : u # v /\ c.pair = {u, v}
      BY <3>1 DEF Conversation, IsPair
    <3>3. Cardinality(c.pair) = 2
      <4>1. Cardinality({u, v}) = 2
        BY <3>2, TwoMembers
      <4> QED
        BY <3>2, <4>1
    <3> QED
      BY <3>1, <3>2, <3>3 DEF Conversation, Given
  <2>2. \A r \in Requests : req[r].at \in Places
    BY DEF Promise, Fine, Meant
  <2> QED
    BY <2>1, <2>2 DEF TypeOK, Promise, Tables, Message, IInv, Distinct, Places, Talking, Leaving
<1> QED
  BY PromiseInductive, <1>1, PTL

(* A conversation has one entry at most for a storefront, so there is a    *)
(* number of them.                                                         *)
Via(s) == {x \in past.through : x[1] = s}

LEMMA ViaFinite ==
  ASSUME Tables, past.ids \in Nat, NEW s
  PROVE  IsFiniteSet(Via(s))
<1>1. IsFiniteSet(0 .. past.ids)
  <2>1. 0 \in Int /\ past.ids \in Int
    OBVIOUS
  <2> QED
    BY <2>1, FS_Interval
<1>2. IsFiniteSet({s} \X (0 .. past.ids))
  BY <1>1, FS_Singleton, FS_Product
<1>3. Via(s) \subseteq {s} \X (0 .. past.ids)
  <2> SUFFICES ASSUME NEW x \in Via(s) PROVE x \in {s} \X (0 .. past.ids)
    OBVIOUS
  <2>1. x = <<x[1], x[2]>> /\ x[1] = s /\ x[2] \in Given
    BY DEF Via, Tables
  <2>2. x[2] \in 0 .. past.ids
    BY <2>1 DEF Given
  <2> QED
    BY <2>1, <2>2
<1> QED
  BY <1>2, <1>3, FS_Subset

LEMMA NextCounted == IInv /\ Promise /\ InquiriesOnce /\ [Next]_vars => InquiriesOnce'
<1> SUFFICES ASSUME IInv, Promise, InquiriesOnce, [Next]_vars, NEW s \in Users
             PROVE  inquiries'[s] <= (IF s \in past'.clicks THEN 1 ELSE 0) + Cardinality(Via(s)')
  BY DEF InquiriesOnce, Via
<1>1. /\ inquiries[s] <= (IF s \in past.clicks THEN 1 ELSE 0) + Cardinality(Via(s))
      /\ inquiries[s] \in Nat
  BY DEF InquiriesOnce, Via, Promise, Tables
<1>2. IsFiniteSet(Via(s)) /\ IsFiniteSet(Via(s)')
  <2>1. IInv' /\ Promise'
    BY NextInv, NextPromise
  <2>2. past.ids \in Nat /\ Tables /\ (past.ids \in Nat)' /\ Tables'
    BY <2>1 DEF IInv, Numbered, Promise
  <2>3. IsFiniteSet(Via(s))
    BY <2>2, ViaFinite
  <2>4. IsFiniteSet(Via(s))'
    BY <2>2, ViaFinite, PTL
  <2> QED
    BY <2>3, <2>4
<1>3. Cardinality(Via(s)) \in Nat /\ Cardinality(Via(s)') \in Nat
  BY <1>2, FS_CardinalityType
<1>4. ASSUME past.through \subseteq past'.through, past.clicks \subseteq past'.clicks,
             inquiries'[s] = inquiries[s]
      PROVE  inquiries'[s] <= (IF s \in past'.clicks THEN 1 ELSE 0) + Cardinality(Via(s)')
  <2>1. Cardinality(Via(s)) <= Cardinality(Via(s)')
    BY <1>2, <1>4, FS_Subset DEF Via
  <2> QED
    BY <1>1, <1>3, <1>4, <2>1
<1>5. CASE \E r \in Requests : CommitTalk(r)
  <2>1. PICK r \in Requests : CommitTalk(r)
    BY <1>5
  <2> DEFINE q == req[r]
  <2>2. /\ past'.through = past.through \cup {<<c.store, c.id>> : c \in Written(q)}
        /\ past'.clicks = past.clicks
        /\ inquiries'[s] = inquiries[s] + IF q.store = s /\ s \in shops THEN 1 ELSE 0
    BY <2>1 DEF CommitTalk, IInv, Shape, Recorded
  <2>3. CASE ~(q.store = s /\ s \in shops)
    BY <1>1, <1>4, <2>2, <2>3
  <2>4. CASE q.store = s /\ s \in shops
    <3>1. q.at = "commit" /\ q.store # NoStore /\ Fine(q)
      BY <2>1, <2>4, NoStoreAssumption DEF CommitTalk, Promise
    <3>2. q.isNew /\ q.asked = s /\ \A x \in past.through : x[2] # q.conv
      BY <2>4, <3>1 DEF Fine, Meant, Inserts
    <3> DEFINE x == <<s, q.conv>>
    <3>3. x \notin Via(s) /\ Via(s) \cup {x} \subseteq Via(s)'
      <4>1. \E c \in Written(q) : c.store = s /\ c.id = q.conv
        <5> DEFINE new == [id |-> q.conv, pair |-> Pair(q), store |-> q.asked]
        <5>1. new \in Written(q)
          BY <3>2 DEF Written
        <5>2. new.store = s /\ new.id = q.conv
          BY <3>2
        <5> QED
          BY <5>1, <5>2
      <4>2. x \in past'.through /\ x[1] = s /\ x[2] = q.conv
        BY <2>2, <4>1
      <4> QED
        BY <2>2, <3>2, <4>2 DEF Via
    <3>4. IsFiniteSet(Via(s) \cup {x}) /\ Cardinality(Via(s) \cup {x}) = Cardinality(Via(s)) + 1
      BY <1>2, <3>3, FS_AddElement
    <3>5. Cardinality(Via(s) \cup {x}) <= Cardinality(Via(s)')
      BY <1>2, <3>3, FS_Subset
    <3> QED
      BY <1>1, <1>3, <2>2, <2>4, <3>4, <3>5
  <2> QED
    BY <2>3, <2>4
<1>6. CASE \E u \in Users : Click(u)
  <2>1. PICK u \in Users : Click(u)
    BY <1>6
  <2>2. /\ past'.through = past.through /\ past'.clicks = past.clicks \cup {u} /\ u \notin past.clicks
        /\ inquiries' = [inquiries EXCEPT ![u] = @ + 1] /\ inquiries \in [Users -> Nat]
    BY <2>1 DEF Click, IInv, Shape, Recorded, Promise, Tables
  <2>3. Via(s)' = Via(s)
    BY <2>2 DEF Via
  <2> QED
    BY <1>1, <1>3, <2>2, <2>3
<1>7. CASE \E u \in Users : OpenShop(u)
  <2>1. PICK u \in Users : OpenShop(u)
    BY <1>7
  <2>2. past' = past /\ inquiries' = [inquiries EXCEPT ![u] = 0] /\ inquiries \in [Users -> Nat]
    BY <2>1 DEF OpenShop, Promise, Tables
  <2>3. Via(s)' = Via(s)
    BY <2>2 DEF Via
  <2> QED
    BY <1>1, <1>3, <2>2, <2>3
<1>8. CASE \E r \in Requests : CommitLeave(r) \/ Mark(r)
  <2>1. inquiries' = inquiries /\ past'.through = past.through /\ past'.clicks = past.clicks
    BY <1>8 DEF CommitLeave, Mark, IInv, Shape, Recorded
  <2> QED
    BY <1>4, <2>1
<1>9. CASE UNCHANGED tables /\ past'.through = past.through /\ past'.clicks = past.clicks
  BY <1>4, <1>9 DEF tables
<1> QED
  BY <1>5, <1>6, <1>7, <1>8, <1>9, OnlyCommits

(* bump_inquiry_count runs only for the request that inserted the          *)
(* conversation (services/messaging.py), so that a conversation counts     *)
(* once at most, however many requests raced to open it.                   *)
THEOREM InquiriesCounted == Spec => []InquiriesOnce
<1>1. Init => InquiriesOnce
  <2> SUFFICES ASSUME Init, NEW s \in Users
               PROVE  inquiries[s] <= (IF s \in past.clicks THEN 1 ELSE 0) + Cardinality(Via(s))
    BY DEF InquiriesOnce, Via
  <2>1. inquiries[s] = 0 /\ Via(s) = {} /\ past.clicks = {}
    BY DEF Init, Via
  <2> QED
    BY <2>1, FS_EmptySet
<1> QED
  BY <1>1, PromiseInductive, NextCounted, PTL DEF Spec

(* Only a deletion of the storefront, or a request that had found the      *)
(* conversation without one, changes the context of a conversation.        *)
THEOREM ContextStays == Spec => ContextKept
<1> DEFINE Keeps ==
      \A c \in conv, d \in conv' :
          (c.id = d.id /\ c.store \notin {NoStore, d.store}) =>
              \/ d.store = NoStore /\ c.store \notin shops'
              \/ \E r \in Requests : /\ req[r].at = "commit" /\ req[r].conv = c.id
                                     /\ req[r].claims /\ req[r].asked = d.store
                                     /\ <<NoStore, c.id>> \in past.through
<1>1. IInv /\ Promise /\ [Next]_vars => [Keeps]_vars
  <2> SUFFICES ASSUME IInv, Promise, [Next]_vars, NEW c \in conv, NEW d \in conv',
                      c.id = d.id, c.store \notin {NoStore, d.store}
               PROVE  \/ d.store = NoStore /\ c.store \notin shops'
                      \/ \E r \in Requests : /\ req[r].at = "commit" /\ req[r].conv = c.id
                                             /\ req[r].claims /\ req[r].asked = d.store
                                             /\ <<NoStore, c.id>> \in past.through
    OBVIOUS
  <2>1. CASE conv' = conv
    BY <2>1 DEF IInv, Distinct
  <2>2. CASE \E r \in Requests : CommitTalk(r)
    <3>1. PICK r \in Requests : CommitTalk(r)
      BY <2>2
    <3>2. conv' = Written(req[r]) /\ req[r].at = "commit" /\ Fine(req[r])
      BY <3>1 DEF CommitTalk, Promise
    <3>3. CASE req[r].isNew
      BY <3>2, <3>3 DEF Written, IInv, Distinct, Unborn, Unseen
    <3>4. CASE ~req[r].isNew
      <4>1. PICK e \in conv : d = IF e.id = req[r].conv /\ req[r].claims
                                  THEN [e EXCEPT !.store = req[r].asked] ELSE e
        BY <3>2, <3>4 DEF Written
      <4>2. DOMAIN e = {"id", "pair", "store"}
        BY DEF IInv, Shape, Opened
      <4>3. d.id = e.id /\ e = c
        BY <4>1, <4>2 DEF IInv, Distinct
      <4>4. c.id = req[r].conv /\ req[r].claims /\ d.store = req[r].asked
        BY <4>1, <4>2, <4>3
      <4>5. ~Over(req[r].asked)
        BY <3>2, <3>4, <4>4 DEF Fine, Meant, Refers, Over
      <4> QED
        BY <3>2, <4>4, <4>5 DEF Fine, Overtaken
    <3> QED
      BY <3>3, <3>4
  <2>3. CASE \E r \in Requests : CommitLeave(r)
    <3>1. PICK r \in Requests : CommitLeave(r)
      BY <2>3
    <3>2. PICK e \in conv : d = IF e.store = req[r].asked THEN [e EXCEPT !.store = NoStore] ELSE e
      BY <3>1 DEF CommitLeave
    <3>3. DOMAIN e = {"id", "pair", "store"}
      BY DEF IInv, Shape, Opened
    <3>4. d.id = e.id /\ e = c
      BY <3>2, <3>3 DEF IInv, Distinct
    <3>5. d.store = NoStore /\ c.store = req[r].asked
      BY <3>2, <3>3, <3>4
    <3> QED
      BY <3>1, <3>5 DEF CommitLeave
  <2>4. CASE \E r \in Requests : Mark(r)
    BY <2>1, <2>4 DEF Mark
  <2>5. CASE \E u \in Users : OpenShop(u) \/ Click(u)
    BY <2>1, <2>5 DEF OpenShop, Click
  <2> QED
    BY <2>1, <2>2, <2>3, <2>4, <2>5, OnlyCommits DEF tables
<1> QED
  BY <1>1, PromiseInductive, PTL DEF Spec, ContextKept

-----------------------------------------------------------------------------
(* The requests implement Conversations *)

(* What has been said in a conversation, and what Conversations sees of it.*)
Lines(id) == {[id |-> m.id, from |-> m.from] : m \in {n \in msgs : n.conv = id}}
Thread(c) == [pair |-> c.pair, store |-> c.store, said |-> Lines(c.id)]

LEMMA ThreadsAre == Threads = {Thread(c) : c \in conv}
  BY DEF Threads, Thread, Lines

LEMMA ThreadsWillBe ==
  Threads' = {[pair |-> c.pair, store |-> c.store, said |-> Lines(c.id)'] : c \in conv'}
  BY DEF Threads, Lines

LEMMA NothingTold ==
  ASSUME UNCHANGED <<conv, msgs, gone>>
  PROVE  UNCHANGED <<Threads, gone>>
  BY DEF Threads

LEMMA MarkTellsNothing ==
  ASSUME IInv, NEW r \in Requests, Mark(r)
  PROVE  UNCHANGED <<Threads, gone>>
<1>1. /\ msgs' = {[m EXCEPT !.read = @ \/ m.id \in Marked(req[r])] : m \in msgs}
      /\ UNCHANGED <<conv, gone>>
  BY DEF Mark
<1> DEFINE M(m) == [m EXCEPT !.read = @ \/ m.id \in Marked(req[r])]
<1>2. \A m \in msgs : M(m).id = m.id /\ M(m).conv = m.conv /\ M(m).from = m.from
  BY DEF IInv, Shape, Sent
<1>3. msgs' = {M(m) : m \in msgs}
  BY <1>1
<1> HIDE DEF M
<1>4. ASSUME NEW id
      PROVE  Lines(id)' = Lines(id)
  <2>1. ASSUME NEW x \in Lines(id)
        PROVE  x \in Lines(id)'
    <3>1. PICK m \in msgs : m.conv = id /\ x = [id |-> m.id, from |-> m.from]
      BY DEF Lines
    <3>2. M(m) \in msgs' /\ M(m).conv = id /\ x = [id |-> M(m).id, from |-> M(m).from]
      BY <1>2, <1>3, <3>1
    <3> QED
      BY <3>2 DEF Lines
  <2>2. ASSUME NEW x \in Lines(id)'
        PROVE  x \in Lines(id)
    <3>1. PICK n \in msgs' : n.conv = id /\ x = [id |-> n.id, from |-> n.from]
      BY DEF Lines
    <3>2. PICK m \in msgs : n = M(m)
      BY <1>3
    <3>3. m.conv = id /\ x = [id |-> m.id, from |-> m.from]
      BY <1>2, <3>1, <3>2
    <3> QED
      BY <3>3 DEF Lines
  <2> QED
    BY <2>1, <2>2
<1> QED
  BY <1>1, <1>4, ThreadsAre, ThreadsWillBe DEF Thread

(* What the messages of a request add to a conversation.                   *)
Adds(q) == IF q.writes THEN {[id |-> past.said + 1, from |-> q.user]} ELSE {}

LEMMA LinesGrow ==
  ASSUME IInv, Promise, NEW r \in Requests, CommitTalk(r), NEW id
  PROVE  Lines(id)' = Lines(id) \cup IF id = req[r].conv THEN Adds(req[r]) ELSE {}
<1> DEFINE q == req[r]
           new == [id |-> past.said + 1, conv |-> q.conv, from |-> q.user, read |-> FALSE]
<1>1. msgs' = IF q.writes THEN msgs \cup {new} ELSE msgs
  BY DEF CommitTalk
<1>2. new.id = past.said + 1 /\ new.conv = q.conv /\ new.from = q.user
  OBVIOUS
<1> HIDE DEF new
<1>3. CASE ~q.writes
  BY <1>1, <1>3 DEF Lines, Adds
<1>4. CASE q.writes /\ id # q.conv
  <2>1. {n \in msgs' : n.conv = id} = {n \in msgs : n.conv = id}
    BY <1>1, <1>2, <1>4
  <2> QED
    BY <1>4, <2>1 DEF Lines
<1>5. CASE q.writes /\ id = q.conv
  <2>1. {n \in msgs' : n.conv = id} = {n \in msgs : n.conv = id} \cup {new}
    BY <1>1, <1>2, <1>5
  <2>2. Lines(id)' = Lines(id) \cup {[id |-> new.id, from |-> new.from]}
    BY <2>1 DEF Lines
  <2> QED
    BY <1>2, <1>5, <2>2 DEF Adds
<1> QED
  BY <1>3, <1>4, <1>5

(* A message is new, and its sender's.                                     *)
LEMMA AddsNew ==
  ASSUME IInv, Promise, NEW r \in Requests, CommitTalk(r)
  PROVE  /\ \A m \in Adds(req[r]) : m.from = req[r].user /\ \A t \in Threads : m \notin t.said
         /\ \/ Adds(req[r]) = {}
            \/ \E i \in 1 .. MaxMessages : Adds(req[r]) = {[id |-> i, from |-> req[r].user]}
<1>1. past.said \in Nat /\ (req[r].writes => past.said < MaxMessages) /\ MaxMessages \in Nat
  BY BoundsAssumption DEF CommitTalk, Promise, Tables
<1>2. ASSUME NEW t \in Threads, NEW x \in t.said
      PROVE  x.id <= past.said
  <2>1. PICK c \in conv : t = Thread(c)
    BY ThreadsAre
  <2>2. PICK m \in msgs : x = [id |-> m.id, from |-> m.from]
    BY <1>2, <2>1 DEF Thread, Lines
  <2>3. m.id \in 1 .. past.said /\ x.id = m.id
    BY <2>2 DEF Promise, Tables, Message
  <2> QED
    BY <1>1, <2>3
<1>3. \A m \in Adds(req[r]) : m.from = req[r].user /\ m.id = past.said + 1
  BY DEF Adds
<1>4. \A m \in Adds(req[r]) : \A t \in Threads : m \notin t.said
  BY <1>1, <1>2, <1>3
<1>5. req[r].writes => past.said + 1 \in 1 .. MaxMessages
  BY <1>1
<1> QED
  BY <1>3, <1>4, <1>5 DEF Adds

LEMMA TalkAllowed ==
  ASSUME IInv, Promise, NEW r \in Requests, CommitTalk(r),
         NEW u \in Users, NEW v \in Users, NEW store \in Users \cup {NoStore}, u # v, u = req[r].user,
         \/ Promised!Open(u, v, store, Adds(req[r]))
         \/ Promised!Continue(u, v, store, Adds(req[r]))
  PROVE  Promised!Next
<1>1. Promised!Talk(u, v, store, Adds(req[r]))
  BY AddsNew DEF Promised!Talk
<1>2. CASE Adds(req[r]) = {}
  <2>1. Promised!Talk(u, v, store, {})
    BY <1>1, <1>2
  <2> QED
    BY <2>1 DEF Promised!Next
<1>3. CASE \E i \in 1 .. MaxMessages : Adds(req[r]) = {[id |-> i, from |-> u]}
  <2>1. PICK i \in 1 .. MaxMessages : Adds(req[r]) = {[id |-> i, from |-> u]}
    BY <1>3
  <2>2. Promised!Talk(u, v, store, {[id |-> i, from |-> u]})
    BY <1>1, <2>1
  <2> QED
    BY <2>2 DEF Promised!Next
<1> QED
  BY <1>2, <1>3, AddsNew

LEMMA TalkNewAllowed ==
  ASSUME IInv, Promise, NEW r \in Requests, CommitTalk(r), req[r].isNew
  PROVE  Promised!Next
<1> DEFINE q == req[r]
           new == [id |-> q.conv, pair |-> Pair(q), store |-> q.asked]
<1>1. /\ q.user \in Users /\ q.peer \in Users /\ q.user # q.peer
      /\ q.asked \in {q.peer, NoStore} /\ gone' = gone /\ conv' = conv \cup {new}
  BY DEF CommitTalk, Written, Promise, Fine, Meant, Talking
<1>2. /\ \A c \in conv : c.id # q.conv /\ c.pair # {q.user, q.peer}
      /\ \A m \in msgs : m.conv # q.conv
  BY DEF IInv, Unborn, Unseen, Promise, Fine, Inserts, Pair, Tables, Message
<1>3. new.id = q.conv /\ new.pair = {q.user, q.peer} /\ new.store = q.asked
  BY DEF Pair
<1> HIDE DEF new
<1>4. ASSUME NEW c
      PROVE  /\ c \in conv => Lines(c.id)' = Lines(c.id)
             /\ c.id = q.conv => Lines(c.id)' = Adds(q)
  <2>1. Lines(c.id)' = Lines(c.id) \cup IF c.id = q.conv THEN Adds(q) ELSE {}
    BY LinesGrow
  <2>2. c.id = q.conv => Lines(c.id) = {}
    BY <1>2 DEF Lines
  <2> QED
    BY <1>2, <2>1, <2>2
<1>5. Threads' = Threads \cup {[pair |-> {q.user, q.peer}, store |-> q.asked, said |-> Adds(q)]}
  <2> DEFINE T(c) == [pair |-> c.pair, store |-> c.store, said |-> Lines(c.id)']
  <2>1. Threads' = {T(c) : c \in conv \cup {new}}
    BY <1>1, ThreadsWillBe
  <2>2. \A c \in conv : T(c) = Thread(c)
    BY <1>4 DEF Thread
  <2>3. \A c : c = new => T(c) = [pair |-> {q.user, q.peer}, store |-> q.asked, said |-> Adds(q)]
    BY <1>3, <1>4
  <2> HIDE DEF T
  <2> QED
    BY <2>1, <2>2, <2>3, ThreadsAre
<1>6. \A t \in Threads : t.pair # {q.user, q.peer}
  BY <1>2, ThreadsAre DEF Thread
<1>7. Promised!Open(q.user, q.peer, q.asked, Adds(q))
  BY <1>1, <1>5, <1>6 DEF Promised!Open
<1> QED
  BY <1>1, <1>7, TalkAllowed

(* Two conversations are two threads.                                      *)
LEMMA ThreadsApart ==
  ASSUME Promise, NEW c \in conv, NEW d \in conv, Thread(c).pair = Thread(d).pair
  PROVE  c = d
  BY DEF Thread, Promise, Tables

LEMMA ThreadChanged ==
  ASSUME NEW c, NEW store, NEW X
  PROVE  [Thread(c) EXCEPT !.said = @ \cup X, !.store = store] =
             [pair |-> c.pair, store |-> store, said |-> Lines(c.id) \cup X]
<1> DEFINE said == Lines(c.id) \cup X
           d == [Thread(c) EXCEPT !.said = said]
           f == [d EXCEPT !.store = store]
<1>1. Thread(c).said \cup X = said
  BY DEF Thread
<1>2. d = [pair |-> c.pair, store |-> c.store, said |-> said]
  <2> HIDE DEF said
  <2> QED
    BY DEF Thread
<1>3. f = [pair |-> c.pair, store |-> store, said |-> said]
  <2> HIDE DEF d, said
  <2> QED
    BY <1>2
<1> QED
  BY <1>1, <1>3

LEMMA TalkOldAllowed ==
  ASSUME IInv, Promise, NEW r \in Requests, CommitTalk(r), ~req[r].isNew, req[r].holds
  PROVE  Promised!Next
<1> DEFINE q == req[r]
           W(c) == IF c.id = q.conv /\ q.claims THEN [c EXCEPT !.store = q.asked] ELSE c
<1>1. /\ q.user \in Users /\ q.peer \in Users /\ q.user # q.peer
      /\ q.asked \in {q.peer, NoStore} /\ (q.claims => q.asked = q.peer)
      /\ gone' = gone /\ conv' = {W(c) : c \in conv}
  BY DEF CommitTalk, Written, Promise, Fine, Meant, Talking
<1>2. \A c \in conv : /\ W(c).id = c.id /\ W(c).pair = c.pair
                      /\ W(c).store = IF c.id = q.conv /\ q.claims THEN q.asked ELSE c.store
  BY DEF IInv, Shape, Opened
<1> HIDE DEF W
<1>3. PICK e \in conv : e.id = q.conv /\ e.pair = {q.user, q.peer}
  BY DEF CommitTalk, Promise, Fine, Finds, Pair
<1> DEFINE store == IF q.claims THEN q.asked ELSE e.store
           next == [Thread(e) EXCEPT !.said = @ \cup Adds(q), !.store = store]
<1>4. next = [pair |-> e.pair, store |-> store, said |-> Lines(e.id) \cup Adds(q)]
  BY ThreadChanged
<1>5. Threads' = (Threads \ {Thread(e)}) \cup {next}
  <2> DEFINE T(d) == [pair |-> d.pair, store |-> d.store, said |-> Lines(d.id)']
  <2>1. Threads' = {T(d) : d \in conv'}
    BY ThreadsWillBe
  <2>2. ASSUME NEW c \in conv, NEW d \in conv', d = W(c)
        PROVE  T(d) = IF c = e THEN next ELSE Thread(c)
    <3>1. Lines(d.id)' = Lines(d.id) \cup IF d.id = q.conv THEN Adds(q) ELSE {}
      BY LinesGrow
    <3>2. d.id = c.id /\ (c.id = q.conv <=> c = e)
      BY <1>2, <1>3, <2>2 DEF IInv, Distinct
    <3>3. Lines(d.id)' = IF c = e THEN Lines(e.id) \cup Adds(q) ELSE Lines(c.id)
      BY <3>1, <3>2
    <3>4. d.pair = c.pair /\ d.store = IF c = e THEN store ELSE c.store
      BY <1>2, <2>2, <3>2
    <3> HIDE DEF store, next
    <3> QED
      BY <1>4, <3>3, <3>4 DEF Thread
  <2>3. \A c \in conv : Thread(c) = Thread(e) => c = e
    BY ThreadsApart
  <2>4. Threads' = {IF c = e THEN next ELSE Thread(c) : c \in conv}
    <3> HIDE DEF T, next
    <3> QED
      BY <1>1, <2>1, <2>2
  <2> HIDE DEF T, next
  <2> QED
    BY <2>3, <2>4, ThreadsAre
<1>6. /\ Thread(e).pair = {q.user, q.peer} /\ Thread(e).store = e.store
      /\ Thread(e) \in Threads
  BY <1>3, ThreadsAre DEF Thread
<1>7. e.store \in {q.user, q.peer, NoStore} /\ store \in {e.store, q.peer}
  BY <1>1, <1>3 DEF Promise, Tables, Conversation
<1>8. Promised!Continue(q.user, q.peer, store, Adds(q))
  <2> HIDE DEF store
  <2> QED
    BY <1>1, <1>5, <1>6, <1>7 DEF Promised!Continue
<1>9. store \in Users \cup {NoStore}
  BY <1>1, <1>7
<1> QED
  BY <1>1, <1>8, <1>9, TalkAllowed

LEMMA CommitTalkAllowed ==
  ASSUME IInv, Promise, NEW r \in Requests, CommitTalk(r)
  PROVE  Promised!Next \/ UNCHANGED <<Threads, gone>>
<1>1. CASE ~req[r].isNew /\ ~req[r].holds
  <2>1. ~req[r].writes /\ ~req[r].claims
    BY <1>1 DEF CommitTalk, Promise, Fine, Meant
  <2>2. UNCHANGED <<conv, msgs, gone>>
    BY <1>1, <2>1 DEF CommitTalk, Written
  <2> QED
    BY <2>2, NothingTold
<1> QED
  BY <1>1, TalkNewAllowed, TalkOldAllowed

(* A deletion takes threads of its user; of those it leaves, opened by     *)
(* others meanwhile, it closes the storefront.                             *)
LEMMA CommitLeaveAllowed ==
  ASSUME IInv, Promise, NEW r \in Requests, CommitLeave(r)
  PROVE  Promised!Next
<1> DEFINE q == req[r]
           u == q.user
           Forgotten(c) == IF c.store = q.asked THEN [c EXCEPT !.store = NoStore] ELSE c
           closed == IF q.asked = NoStore THEN {} ELSE {u}
           Left == {c \in conv : c.id \notin q.mine}
           kept == {Thread(c) : c \in {d \in Left : u \in d.pair}}
           Mine == {t \in Threads : u \in t.pair}
           After(t) == [t EXCEPT !.store = IF @ \in closed THEN NoStore ELSE @]
<1>1. /\ u \in Users /\ q.asked \in {u, NoStore} /\ gone' = gone \cup {u}
      /\ conv' = {Forgotten(c) : c \in Left}
      /\ msgs' = {m \in msgs : m.conv \notin q.mine}
      /\ \A c \in conv : c.id \in q.mine => u \in c.pair
  BY DEF CommitLeave, Promise, Fine, Meant, Leaving, TakesOwn
<1>2. \A c \in conv : /\ Forgotten(c).id = c.id /\ Forgotten(c).pair = c.pair
                      /\ Forgotten(c).store = IF c.store = q.asked THEN NoStore ELSE c.store
  BY DEF IInv, Shape, Opened
<1> HIDE DEF Forgotten
<1>3. ASSUME NEW id, id \notin q.mine
      PROVE  Lines(id)' = Lines(id)
  BY <1>1, <1>3 DEF Lines
<1> DEFINE T(d) == [pair |-> d.pair, store |-> d.store, said |-> Lines(d.id)']
<1>4. Threads' = {T(d) : d \in conv'}
  BY ThreadsWillBe
<1>5. ASSUME NEW c \in Left, NEW d \in conv', d = Forgotten(c)
      PROVE  T(d) = IF u \in c.pair THEN After(Thread(c)) ELSE Thread(c)
  <2>1. /\ d.id = c.id /\ d.pair = c.pair
        /\ d.store = IF c.store = q.asked THEN NoStore ELSE c.store
    BY <1>2, <1>5
  <2>2. T(d) = [pair |-> c.pair, store |-> IF c.store = q.asked THEN NoStore ELSE c.store,
                said |-> Lines(c.id)]
    BY <1>3, <2>1
  <2>3. After(Thread(c)) = [pair |-> c.pair, said |-> Lines(c.id),
                            store |-> IF c.store \in closed THEN NoStore ELSE c.store]
    BY DEF Thread
  <2>4. c.store \in c.pair \cup {NoStore}
    BY DEF Promise, Tables, Conversation
  <2>5. u # NoStore
    BY <1>1, NoStoreAssumption
  <2>6. (IF c.store = q.asked THEN NoStore ELSE c.store) =
            IF c.store \in closed THEN NoStore ELSE c.store
    BY <1>1, <2>5
  <2>7. u \notin c.pair => (IF c.store = q.asked THEN NoStore ELSE c.store) = c.store
    BY <1>1, <2>4, <2>5
  <2> QED
    BY <2>2, <2>3, <2>6, <2>7 DEF Thread
<1>6. kept \subseteq Mine
  BY ThreadsAre DEF Thread
<1>7. Threads' = (Threads \ Mine) \cup {After(t) : t \in kept}
  <2>1. Threads \ Mine = {Thread(c) : c \in {d \in Left : u \notin d.pair}}
    <3>1. \A c \in conv : Thread(c).pair = c.pair
      BY DEF Thread
    <3>2. \A c \in conv : u \notin c.pair => c \in Left
      BY <1>1
    <3> QED
      BY <3>1, <3>2, ThreadsAre
  <2>2. Threads' = {IF u \in c.pair THEN After(Thread(c)) ELSE Thread(c) : c \in Left}
    <3> HIDE DEF T, After, Left
    <3> QED
      BY <1>1, <1>4, <1>5
  <2> HIDE DEF T, After, Left, Mine
  <2> QED
    BY <2>1, <2>2
<1>8. Promised!Leave(u, kept, closed)
  <2> HIDE DEF kept, closed
  <2> QED
    BY <1>1, <1>6, <1>7 DEF Promised!Leave
<1>9. kept \in SUBSET Threads /\ closed \in {{}, {u}}
  BY <1>6
<1> QED
  <2> HIDE DEF kept, closed
  <2> QED
    BY <1>1, <1>8, <1>9 DEF Promised!Next

LEMMA NextAllowed ==
  ASSUME IInv, Promise, [Next]_vars
  PROVE  Promised!Next \/ UNCHANGED <<Threads, gone>>
<1>1. ASSUME NEW r \in Requests, CommitTalk(r) \/ CommitLeave(r) \/ Mark(r)
      PROVE  Promised!Next \/ UNCHANGED <<Threads, gone>>
  BY <1>1, CommitTalkAllowed, CommitLeaveAllowed, MarkTellsNothing
<1>2. CASE \E u \in Users : OpenShop(u) \/ Click(u)
  BY <1>2, NothingTold DEF OpenShop, Click
<1>3. CASE UNCHANGED tables
  BY <1>3, NothingTold DEF tables
<1> QED
  BY <1>1, <1>2, <1>3, OnlyCommits

(* Statement by statement the concurrent requests do what Conversations    *)
(* promises, and nothing else: one conversation for two users, a message   *)
(* in it as long as none of them leaves, one storefront it belongs to.     *)
THEOREM Implementation == Spec => PromiseKept
<1>1. Init => Promised!Init
  BY ThreadsAre DEF Init, Promised!Init
<1>2. IInv /\ Promise /\ [Next]_vars => [Promised!Next]_(Promised!conversationVars)
  BY NextAllowed DEF Promised!conversationVars
<1> QED
  BY <1>1, <1>2, PromiseInductive, PTL DEF Spec, PromiseKept, Promised!Spec

=============================================================================
