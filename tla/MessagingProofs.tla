--------------------------- MODULE MessagingProofs ---------------------------
(***************************************************************************)
(* Two promises of Messaging to the people who write, proved for any users *)
(* and any number of requests: what is marked as read was shown, and what  *)
(* a deleted account had asked to forget does not come back.               *)
(***************************************************************************)
EXTENDS Messaging, TLAPS

-----------------------------------------------------------------------------
(* The invariant *)

(* Records keep their fields.                                              *)
Request(q) ==
    DOMAIN q = {"at", "user", "peer", "asked", "writes", "conv", "isNew", "claims", "seen",
                "mine", "known", "holds", "store"}
Requested == /\ req = [r \in Requests |-> req[r]]
             /\ \A r \in Requests : Request(req[r])
Recorded == DOMAIN past = {"ids", "said", "shown", "through", "dead", "clicks"}
Sent == \A m \in msgs : DOMAIN m = {"id", "conv", "from", "read"}
Opened == \A c \in conv : DOMAIN c = {"id", "pair", "store"}

(* Ids of conversations are handed out once, in this order.                *)
Given == {n \in Nat : n <= past.ids}
Numbered ==
    /\ past.ids \in Nat
    /\ past.dead \subseteq Given
    /\ \A c \in conv : c.id \in Given
    /\ \A r \in Requests : /\ req[r].known \subseteq Given
                           /\ req[r].isNew => /\ req[r].conv \in Given
                                              /\ req[r].at \in {"change", "count", "commit"}

(* What a request is about to insert nobody has seen.                      *)
Unseen(r) ==
    /\ req[r].conv \notin past.dead
    /\ \A c \in conv : c.id # req[r].conv
    /\ \A o \in Requests : /\ req[r].conv \notin req[o].known
                           /\ o # r /\ req[o].isNew => req[o].conv # req[r].conv
Unborn == \A r \in Requests : req[r].isNew => Unseen(r)

(* No two conversations have one id.                                       *)
Distinct == \A c, d \in conv : c.id = d.id => c = d

(* A deletion will find, or has found, the conversations that were known.  *)
Leaves(q) ==
    \A c \in conv : c.id \in q.known =>
        /\ q.at = "collect" => q.user \in c.pair
        /\ q.at \in {"erase", "close", "leave"} => c.id \in q.mine
Departures == \A r \in Requests : Leaves(req[r])

(* What a request is about to mark, it has listed.                         *)
Shown(q) == q.at = "mark" => q.seen \subseteq past.shown
Listed == \A r \in Requests : Shown(req[r])

Shape == Requested /\ Recorded /\ Sent /\ Opened
IInv == Shape /\ Numbered /\ Unborn /\ Distinct /\ Departures /\ Listed
        /\ ForgottenForGood /\ ReadMeansShown

-----------------------------------------------------------------------------

LEMMA InitInv == Init => IInv
<1> SUFFICES ASSUME Init PROVE IInv
  OBVIOUS
<1>1. conv = {} /\ msgs = {} /\ past.ids = 0 /\ past.dead = {}
  BY DEF Init
<1>2. /\ req = [r \in Requests |-> Idle]
      /\ \A r \in Requests : req[r] = Idle
  BY DEF Init
<1>3. Shape
  BY <1>1, <1>2 DEF Shape, Requested, Request, Idle, Recorded, Sent, Opened, Init
<1>4. Numbered
  BY <1>1, <1>2 DEF Numbered, Given, Idle
<1>5. Unborn /\ Distinct /\ Departures /\ Listed
  BY <1>1, <1>2 DEF Unborn, Distinct, Departures, Leaves, Listed, Shown, Idle
<1>6. ForgottenForGood /\ ReadMeansShown
  BY <1>1 DEF ForgottenForGood, ReadMeansShown
<1> QED
  BY <1>3, <1>4, <1>5, <1>6 DEF IInv

(* A statement that only the request itself can see.                       *)
LEMMA PrivateStep ==
  ASSUME IInv, NEW r \in Requests, NEW q, Becomes(r, q), UNCHANGED <<tables, past>>,
         Request(q), Leaves(q), Shown(q),
         \A k \in q.known : k \in req[r].known \/ \E c \in conv : c.id = k,
         q.isNew => /\ req[r].isNew /\ q.conv = req[r].conv
                    /\ q.at \in {"change", "count", "commit"}
  PROVE  IInv'
<1> USE DEF tables
<1>1. /\ req'[r] = q
      /\ \A o \in Requests \ {r} : req'[o] = req[o]
      /\ req' = [o \in Requests |-> req'[o]]
  BY DEF IInv, Shape, Requested, Becomes
<1>2. Shape'
  BY <1>1 DEF IInv, Shape, Requested, Request, Recorded, Sent, Opened
<1>3. Numbered'
  BY <1>1 DEF IInv, Numbered, Given
<1>4. Unborn' /\ Distinct'
  BY <1>1 DEF IInv, Unborn, Unseen, Distinct
<1>5. Departures' /\ Listed'
  BY <1>1 DEF IInv, Departures, Leaves, Listed, Shown
<1>6. ForgottenForGood' /\ ReadMeansShown'
  BY DEF IInv, ForgottenForGood, ReadMeansShown
<1> QED
  BY <1>2, <1>3, <1>4, <1>5, <1>6 DEF IInv

(* A request that fails, or begins without a past.                         *)
LEMMA RefuseInv ==
  ASSUME IInv, NEW r \in Requests, Refuse(r), UNCHANGED <<tables, past>>
  PROVE  IInv'
  BY PrivateStep DEF Refuse, Idle, Request, Leaves, Shown

-----------------------------------------------------------------------------
(* The actions *)

LEMMA AskInv ==
  ASSUME IInv, NEW r \in Requests, NEW u \in Users, NEW v \in Users,
         NEW writes \in BOOLEAN, NEW byStore \in BOOLEAN, Ask(r, u, v, writes, byStore)
  PROVE  IInv'
<1> DEFINE q == [Idle EXCEPT !.at = "find", !.user = u, !.peer = v, !.writes = writes,
                             !.asked = IF v \in shops THEN v ELSE NoStore]
<1>1. Becomes(r, q) /\ UNCHANGED <<tables, past>>
  BY DEF Ask
<1>2. /\ Request(q) /\ q.at = "find" /\ q.known = {} /\ q.isNew = FALSE
  BY DEF Idle, Request
<1> HIDE DEF q
<1> QED
  BY <1>1, <1>2, PrivateStep DEF Leaves, Shown

(* A step of a request that is under way, in fields that say where it is.  *)
LEMMA WithinStep ==
  ASSUME IInv, NEW r \in Requests, NEW q, Becomes(r, q), UNCHANGED <<tables, past>>,
         Request(q), q.known = req[r].known, q.mine = req[r].mine,
         q.isNew => req[r].isNew /\ q.conv = req[r].conv,
         q.at \in {"change", "count", "commit"}
  PROVE  IInv'
  BY PrivateStep DEF Leaves, Shown

LEMMA FindInv ==
  ASSUME IInv, NEW r \in Requests, Find(r)
  PROVE  IInv'
<1>1. Request(req[r]) /\ UNCHANGED <<tables, past>>
  BY DEF IInv, Shape, Requested, Find
<1>2. CASE Goes(r, "insert")
  <2> DEFINE q == [req[r] EXCEPT !.at = "insert"]
  <2>1. /\ Request(q) /\ q.at = "insert" /\ q.known = req[r].known /\ q.mine = req[r].mine
        /\ q.isNew = req[r].isNew /\ q.conv = req[r].conv
    BY <1>1 DEF Request
  <2>2. Becomes(r, q)
    BY <1>2 DEF Goes
  <2>3. ~req[r].isNew
    BY DEF Find, IInv, Numbered
  <2> HIDE DEF q
  <2> QED
    BY <1>1, <2>1, <2>2, <2>3, PrivateStep DEF Leaves, Shown
<1>3. ASSUME NEW c \in conv,
             Becomes(r, [req[r] EXCEPT !.conv = c.id, !.claims = Claims(req[r], c),
                 !.at = IF req[r].writes \/ Claims(req[r], c) THEN "change" ELSE "commit"]),
             req[r].at = "find"
      PROVE  IInv'
  <2> DEFINE q == [req[r] EXCEPT !.conv = c.id, !.claims = Claims(req[r], c),
                 !.at = IF req[r].writes \/ Claims(req[r], c) THEN "change" ELSE "commit"]
  <2>1. /\ Request(q) /\ q.at \in {"change", "commit"}
        /\ q.known = req[r].known /\ q.mine = req[r].mine
        /\ q.isNew = req[r].isNew /\ q.conv = c.id
    BY <1>1 DEF Request
  <2>2. ~req[r].isNew
    BY <1>3 DEF IInv, Numbered
  <2>3. Becomes(r, q)
    BY <1>3
  <2> HIDE DEF q
  <2> QED
    BY <1>1, <2>1, <2>2, <2>3, WithinStep
<1> QED
  BY <1>2, <1>3 DEF Find

(* A new conversation gets an id that nobody has seen.                     *)
LEMMA InsertInv ==
  ASSUME IInv, NEW r \in Requests, Insert(r)
  PROVE  IInv'
<1>1. CASE Refuse(r) /\ UNCHANGED past
  BY <1>1, RefuseInv DEF Insert
<1>2. CASE ~(Refuse(r) /\ UNCHANGED past)
  <2> DEFINE q == [req[r] EXCEPT !.conv = past.ids + 1, !.isNew = TRUE, !.holds = TRUE,
                             !.at = IF req[r].writes THEN "change" ELSE "commit"]
  <2>1. /\ Becomes(r, q) /\ UNCHANGED tables
        /\ past' = [past EXCEPT !.ids = @ + 1]
    BY <1>2 DEF Insert
  <2>2. /\ Request(q) /\ q.at \in {"change", "commit"} /\ q.isNew = TRUE
        /\ q.conv = past.ids + 1 /\ q.known = req[r].known
    BY DEF IInv, Shape, Requested, Request
  <2> HIDE DEF q
  <2>3. /\ req'[r] = q
        /\ \A o \in Requests \ {r} : req'[o] = req[o]
        /\ req' = [o \in Requests |-> req'[o]]
    BY <2>1 DEF IInv, Shape, Requested, Becomes
  <2>4. /\ past'.ids = past.ids + 1 /\ past'.dead = past.dead /\ past'.shown = past.shown
        /\ DOMAIN past' = DOMAIN past
        /\ past.ids \in Nat
    BY <2>1 DEF IInv, Shape, Recorded, Numbered
  <2>5. Given \subseteq Given' /\ past.ids + 1 \in Given' /\ past.ids + 1 \notin Given
    BY <2>4 DEF Given
  <2>6. Shape'
    BY <2>1, <2>2, <2>3, <2>4 DEF IInv, Shape, Requested, Recorded, Sent, Opened, tables
  <2>7. Numbered'
    BY <2>1, <2>2, <2>3, <2>4, <2>5 DEF IInv, Numbered, tables
  <2>8. Unborn'
    <3>1. Unseen(r)'
      BY <2>1, <2>2, <2>3, <2>4, <2>5 DEF IInv, Numbered, Unseen, tables
    <3>2. ASSUME NEW o \in Requests \ {r}, req[o].isNew
          PROVE  Unseen(o)'
      BY <2>1, <2>2, <2>3, <2>4, <2>5, <3>2 DEF IInv, Numbered, Unborn, Unseen, tables
    <3> QED
      BY <2>3, <3>1, <3>2 DEF Unborn
  <2>9. Distinct' /\ Departures' /\ Listed'
    BY <2>1, <2>2, <2>3, <2>4 DEF IInv, Distinct, Departures, Leaves, Listed, Shown, tables
  <2>10. ForgottenForGood' /\ ReadMeansShown'
    BY <2>1, <2>4 DEF IInv, ForgottenForGood, ReadMeansShown, tables
  <2> QED
    BY <2>6, <2>7, <2>8, <2>9, <2>10 DEF IInv
<1> QED
  BY <1>1, <1>2

LEMMA ChangeInv ==
  ASSUME IInv, NEW r \in Requests, Change(r)
  PROVE  IInv'
<1>1. UNCHANGED <<tables, past>>
  BY DEF Change
<1>2. CASE Refuse(r)
  BY <1>1, <1>2, RefuseInv
<1>3. CASE ~Refuse(r)
  <2> DEFINE q == [req[r] EXCEPT !.holds = TRUE,
                             !.at = IF Counts(req[r]) THEN "count" ELSE "commit"]
  <2>1. /\ Request(q) /\ q.at \in {"count", "commit"}
        /\ q.known = req[r].known /\ q.mine = req[r].mine
        /\ q.isNew = req[r].isNew /\ q.conv = req[r].conv
    BY DEF IInv, Shape, Requested, Request
  <2>2. Becomes(r, q)
    BY <1>3 DEF Change
  <2> HIDE DEF q
  <2> QED
    BY <1>1, <2>1, <2>2, WithinStep
<1> QED
  BY <1>2, <1>3

LEMMA CountInv ==
  ASSUME IInv, NEW r \in Requests, Count(r)
  PROVE  IInv'
<1> DEFINE q == [req[r] EXCEPT !.store = req[r].asked, !.at = "commit"]
<1>1. /\ Request(q) /\ q.at = "commit"
      /\ q.known = req[r].known /\ q.mine = req[r].mine
      /\ q.isNew = req[r].isNew /\ q.conv = req[r].conv
  BY DEF IInv, Shape, Requested, Request
<1>2. Becomes(r, q) /\ UNCHANGED <<tables, past>>
  BY DEF Count
<1> HIDE DEF q
<1> QED
  BY <1>1, <1>2, WithinStep

LEMMA ReplyInv ==
  ASSUME IInv, NEW r \in Requests, NEW u \in Users, NEW c \in conv, Reply(r, u, c)
  PROVE  IInv'
<1> DEFINE q == [Idle EXCEPT !.at = "change", !.user = u, !.writes = TRUE, !.conv = c.id,
                             !.peer = CHOOSE v \in c.pair : v # u]
<1>1. Request(q) /\ q.at = "change" /\ q.known = {} /\ q.isNew = FALSE
  BY DEF Idle, Request
<1>2. Becomes(r, q) /\ UNCHANGED <<tables, past>>
  BY DEF Reply
<1> HIDE DEF q
<1> QED
  BY <1>1, <1>2, PrivateStep DEF Leaves, Shown

(* What a request publishes are the conversations there were, and its own. *)
LEMMA WrittenRows ==
  ASSUME NEW q, NEW d \in Written(q), Opened
  PROVE  /\ DOMAIN d = {"id", "pair", "store"}
         /\ \/ \E c \in conv : c.id = d.id /\ c.pair = d.pair
            \/ q.isNew /\ d.id = q.conv
<1>1. CASE q.isNew
  BY <1>1 DEF Written, Opened
<1>2. CASE ~q.isNew
  <2>1. PICK c \in conv : d = IF c.id = q.conv /\ q.claims THEN [c EXCEPT !.store = q.asked] ELSE c
    BY <1>2 DEF Written
  <2>2. DOMAIN c = {"id", "pair", "store"}
    BY DEF Opened
  <2>3. DOMAIN d = DOMAIN c /\ d.id = c.id /\ d.pair = c.pair
    BY <2>1, <2>2
  <2> QED
    BY <2>2, <2>3
<1> QED
  BY <1>1, <1>2

LEMMA WrittenDistinct ==
  ASSUME NEW q, Opened, Distinct, q.isNew => \A c \in conv : c.id # q.conv,
         NEW d \in Written(q), NEW e \in Written(q), d.id = e.id
  PROVE  d = e
<1>1. CASE q.isNew
  BY <1>1 DEF Written, Distinct
<1>2. CASE ~q.isNew
  <2> DEFINE W(c) == IF c.id = q.conv /\ q.claims THEN [c EXCEPT !.store = q.asked] ELSE c
  <2>1. \A c \in conv : W(c).id = c.id
    BY DEF Opened
  <2>2. PICK c \in conv, b \in conv : d = W(c) /\ e = W(b)
    BY <1>2 DEF Written
  <2>3. c = b
    BY <2>1, <2>2 DEF Distinct
  <2> QED
    BY <2>2, <2>3
<1> QED
  BY <1>1, <1>2

LEMMA CommitTalkInv ==
  ASSUME IInv, NEW r \in Requests, CommitTalk(r)
  PROVE  IInv'
<1> DEFINE q == req[r]
<1>1. /\ conv' = Written(q)
      /\ \A m \in msgs' : m \in msgs \/ (DOMAIN m = {"id", "conv", "from", "read"} /\ ~m.read)
      /\ Becomes(r, Idle)
  BY DEF CommitTalk
<1>2. /\ past'.ids = past.ids /\ past'.dead = past.dead /\ past'.shown = past.shown
      /\ DOMAIN past' = DOMAIN past
  BY DEF CommitTalk, IInv, Shape, Recorded
<1>3. /\ req'[r] = Idle
      /\ \A o \in Requests \ {r} : req'[o] = req[o]
      /\ req' = [o \in Requests |-> req'[o]]
  BY <1>1 DEF IInv, Shape, Requested, Becomes
<1>4. q.isNew => Unseen(r) /\ q.conv \in Given
  BY DEF IInv, Unborn, Numbered
<1> HIDE DEF q
<1>5. \A d \in conv' : /\ DOMAIN d = {"id", "pair", "store"}
                       /\ \/ \E c \in conv : c.id = d.id /\ c.pair = d.pair
                          \/ q.isNew /\ d.id = q.conv
  BY <1>1, WrittenRows DEF IInv, Shape
<1>6. Shape'
  BY <1>1, <1>2, <1>3, <1>5 DEF IInv, Shape, Requested, Request, Idle, Recorded, Sent, Opened
<1>7. Numbered'
  BY <1>2, <1>3, <1>4, <1>5 DEF IInv, Numbered, Given, Idle
<1>8. Unborn'
  BY <1>2, <1>3, <1>4, <1>5 DEF IInv, Unborn, Unseen, Idle, q
<1>9. Distinct'
  <2>1. \A d, e \in Written(q) : d.id = e.id => d = e
    BY <1>4, WrittenDistinct DEF IInv, Shape, Unseen, q
  <2> QED
    BY <1>1, <2>1 DEF Distinct
<1>10. Departures'
  BY <1>3, <1>4, <1>5 DEF IInv, Departures, Leaves, Unseen, Idle, q
<1>11. Listed' /\ ForgottenForGood' /\ ReadMeansShown'
  BY <1>1, <1>2, <1>3, <1>4, <1>5
     DEF IInv, Listed, Shown, Idle, ForgottenForGood, ReadMeansShown, Unseen, q
<1> QED
  BY <1>6, <1>7, <1>8, <1>9, <1>10, <1>11 DEF IInv

LEMMA ListInv ==
  ASSUME IInv, NEW r \in Requests, NEW u \in Users, NEW c \in conv, List(r, u, c)
  PROVE  IInv'
<1> DEFINE ids == {m.id : m \in Unread(u, c.id)}
           q == [Idle EXCEPT !.at = "mark", !.user = u, !.conv = c.id, !.seen = ids]
<1>1. /\ Becomes(r, q) /\ UNCHANGED tables
      /\ past' = [past EXCEPT !.shown = @ \cup ids]
  BY DEF List
<1>2. /\ Request(q) /\ q.at = "mark" /\ q.known = {} /\ q.isNew = FALSE /\ q.seen = ids
  BY DEF Idle, Request
<1> HIDE DEF q, ids
<1>3. /\ past'.ids = past.ids /\ past'.dead = past.dead /\ past'.shown = past.shown \cup ids
      /\ DOMAIN past' = DOMAIN past
  BY <1>1 DEF IInv, Shape, Recorded
<1>4. /\ req'[r] = q
      /\ \A o \in Requests \ {r} : req'[o] = req[o]
      /\ req' = [o \in Requests |-> req'[o]]
  BY <1>1 DEF IInv, Shape, Requested, Becomes
<1>5. conv' = conv /\ msgs' = msgs
  BY <1>1 DEF tables
<1>6. Shape'
  BY <1>2, <1>3, <1>4, <1>5 DEF IInv, Shape, Requested, Recorded, Sent, Opened
<1>7. Numbered' /\ Unborn' /\ Distinct'
  BY <1>2, <1>3, <1>4, <1>5 DEF IInv, Numbered, Given, Unborn, Unseen, Distinct
<1>8. Departures' /\ Listed'
  BY <1>2, <1>3, <1>4, <1>5 DEF IInv, Departures, Leaves, Listed, Shown
<1>9. ForgottenForGood' /\ ReadMeansShown'
  BY <1>3, <1>5 DEF IInv, ForgottenForGood, ReadMeansShown
<1> QED
  BY <1>6, <1>7, <1>8, <1>9 DEF IInv

(* What is marked was listed by the same request.                          *)
LEMMA MarkInv ==
  ASSUME IInv, NEW r \in Requests, Mark(r)
  PROVE  IInv'
<1>1. /\ msgs' = {[m EXCEPT !.read = @ \/ m.id \in req[r].seen] : m \in msgs}
      /\ Becomes(r, Idle) /\ conv' = conv /\ past' = past
      /\ req[r].seen \subseteq past.shown
  BY DEF Mark, Marked, IInv, Listed, Shown
<1>2. /\ req'[r] = Idle
      /\ \A o \in Requests \ {r} : req'[o] = req[o]
      /\ req' = [o \in Requests |-> req'[o]]
  BY <1>1 DEF IInv, Shape, Requested, Becomes
<1>3. ASSUME NEW n \in msgs'
      PROVE  DOMAIN n = {"id", "conv", "from", "read"} /\ (n.read => n.id \in past.shown)
  <2>1. PICK m \in msgs : n = [m EXCEPT !.read = @ \/ m.id \in req[r].seen]
    BY <1>1
  <2>2. DOMAIN m = {"id", "conv", "from", "read"}
    BY DEF IInv, Shape, Sent
  <2>3. DOMAIN n = DOMAIN m /\ n.id = m.id /\ n.read = (m.read \/ m.id \in req[r].seen)
    BY <2>1, <2>2
  <2> QED
    BY <1>1, <2>2, <2>3 DEF IInv, ReadMeansShown
<1>4. Shape'
  BY <1>1, <1>2, <1>3 DEF IInv, Shape, Requested, Request, Idle, Recorded, Sent, Opened
<1>5. Numbered' /\ Unborn' /\ Distinct' /\ Departures' /\ Listed'
  BY <1>1, <1>2 DEF IInv, Numbered, Given, Unborn, Unseen, Distinct, Departures, Leaves,
                    Listed, Shown, Idle
<1>6. ForgottenForGood' /\ ReadMeansShown'
  BY <1>1, <1>3 DEF IInv, ForgottenForGood, ReadMeansShown
<1> QED
  BY <1>4, <1>5, <1>6 DEF IInv

(* A storefront is opened, a contact counted.                              *)
LEMMA ElsewhereInv ==
  ASSUME IInv, UNCHANGED <<conv, msgs, req>>,
         past'.ids = past.ids, past'.dead = past.dead, past'.shown = past.shown,
         DOMAIN past' = DOMAIN past
  PROVE  IInv'
  BY DEF IInv, Shape, Requested, Request, Recorded, Sent, Opened, Numbered, Given, Unborn, Unseen,
         Distinct, Departures, Leaves, Listed, Shown, ForgottenForGood, ReadMeansShown

LEMMA ShopInv ==
  ASSUME IInv, NEW u \in Users, OpenShop(u) \/ Click(u)
  PROVE  IInv'
  BY ElsewhereInv DEF OpenShop, Click, IInv, Shape, Recorded

LEMMA DepartInv ==
  ASSUME IInv, NEW r \in Requests, NEW u \in Users, Depart(r, u)
  PROVE  IInv'
<1> DEFINE q == [Idle EXCEPT !.at = "collect", !.user = u,
                     !.asked = IF u \in shops THEN u ELSE NoStore,
                     !.known = {c.id : c \in RowsOf(u)}]
<1>1. Becomes(r, q) /\ UNCHANGED <<tables, past>>
  BY DEF Depart
<1>2. /\ Request(q) /\ q.at = "collect" /\ q.user = u /\ q.isNew = FALSE
      /\ q.known = {c.id : c \in RowsOf(u)}
  BY DEF Idle, Request
<1> HIDE DEF q
<1>3. \A c \in conv : c.id \in q.known => u \in c.pair
  BY <1>2 DEF RowsOf, IInv, Distinct
<1>4. \A k \in q.known : \E c \in conv : c.id = k
  BY <1>2 DEF RowsOf
<1> QED
  BY <1>1, <1>2, <1>3, <1>4, PrivateStep DEF Leaves, Shown

LEMMA CollectInv ==
  ASSUME IInv, NEW r \in Requests, Collect(r)
  PROVE  IInv'
<1> DEFINE q == [req[r] EXCEPT !.at = "erase", !.mine = Collected(req[r].user)]
<1>1. Becomes(r, q) /\ UNCHANGED <<tables, past>> /\ req[r].at = "collect"
  BY DEF Collect
<1>2. /\ Request(q) /\ q.at = "erase" /\ q.mine = Collected(req[r].user)
      /\ q.isNew = req[r].isNew /\ q.known = req[r].known
  BY DEF IInv, Shape, Requested, Request
<1> HIDE DEF q
<1>3. ~req[r].isNew
  BY <1>1 DEF IInv, Numbered
<1>4. \A c \in conv : c.id \in q.known => c.id \in q.mine
  BY <1>1, <1>2 DEF IInv, Departures, Leaves, Collected, RowsOf
<1> QED
  BY <1>1, <1>2, <1>3, <1>4, PrivateStep DEF Leaves, Shown

LEMMA EraseInv ==
  ASSUME IInv, NEW r \in Requests, Erase(r)
  PROVE  IInv'
<1> DEFINE q == [req[r] EXCEPT !.at = "close"]
<1>1. Becomes(r, q) /\ UNCHANGED <<tables, past>> /\ req[r].at = "erase"
  BY DEF Erase, Goes
<1>2. /\ Request(q) /\ q.at = "close" /\ q.mine = req[r].mine
      /\ q.isNew = req[r].isNew /\ q.known = req[r].known
  BY DEF IInv, Shape, Requested, Request
<1> HIDE DEF q
<1>3. ~req[r].isNew /\ Leaves(req[r])
  BY <1>1 DEF IInv, Numbered, Departures
<1> QED
  BY <1>1, <1>2, <1>3, PrivateStep DEF Leaves, Shown

LEMMA CloseInv ==
  ASSUME IInv, NEW r \in Requests, Close(r)
  PROVE  IInv'
<1> DEFINE q == [req[r] EXCEPT !.at = "leave", !.store = req[r].asked]
<1>1. Becomes(r, q) /\ UNCHANGED <<tables, past>> /\ req[r].at = "close"
  BY DEF Close
<1>2. /\ Request(q) /\ q.at = "leave" /\ q.mine = req[r].mine
      /\ q.isNew = req[r].isNew /\ q.known = req[r].known
  BY DEF IInv, Shape, Requested, Request
<1> HIDE DEF q
<1>3. ~req[r].isNew /\ Leaves(req[r])
  BY <1>1 DEF IInv, Numbered, Departures
<1> QED
  BY <1>1, <1>2, <1>3, PrivateStep DEF Leaves, Shown

(* All that was known when the deletion was asked for goes with it.        *)
LEMMA CommitLeaveInv ==
  ASSUME IInv, NEW r \in Requests, CommitLeave(r)
  PROVE  IInv'
<1> DEFINE q == req[r]
           Forgotten(c) == IF c.store = q.asked THEN [c EXCEPT !.store = NoStore] ELSE c
<1>1. /\ conv' = {Forgotten(c) : c \in {d \in conv : d.id \notin q.mine}}
      /\ msgs' \subseteq msgs
      /\ past' = [past EXCEPT !.dead = @ \cup q.known]
      /\ Becomes(r, Idle) /\ q.at = "leave"
  BY DEF CommitLeave
<1>2. /\ past'.ids = past.ids /\ past'.dead = past.dead \cup q.known /\ past'.shown = past.shown
      /\ DOMAIN past' = DOMAIN past
  BY <1>1 DEF IInv, Shape, Recorded
<1>3. /\ req'[r] = Idle
      /\ \A o \in Requests \ {r} : req'[o] = req[o]
      /\ req' = [o \in Requests |-> req'[o]]
  BY <1>1 DEF IInv, Shape, Requested, Becomes
<1>4. \A c \in conv : /\ DOMAIN Forgotten(c) = {"id", "pair", "store"}
                      /\ Forgotten(c).id = c.id /\ Forgotten(c).pair = c.pair
  BY DEF IInv, Shape, Opened
<1>5. \A c \in conv : c.id \in q.known => c.id \in q.mine
  BY <1>1 DEF IInv, Departures, Leaves
<1>6. \A d \in conv' : /\ DOMAIN d = {"id", "pair", "store"}
                       /\ d.id \notin q.known
                       /\ \E c \in conv : d = Forgotten(c) /\ c.id = d.id /\ c.pair = d.pair
  BY <1>1, <1>4, <1>5
<1>7. Distinct'
  <2>1. \A c, d \in conv : c.id = d.id => Forgotten(c) = Forgotten(d)
    BY DEF IInv, Distinct
  <2>2. \A d \in conv' : \E c \in conv : d = Forgotten(c) /\ c.id = d.id
    BY <1>6
  <2> HIDE DEF Forgotten
  <2>3. ASSUME NEW d \in conv', NEW e \in conv', d.id = e.id
        PROVE  d = e
    <3>1. PICK c \in conv, b \in conv : /\ d = Forgotten(c) /\ c.id = d.id
                                       /\ e = Forgotten(b) /\ b.id = e.id
      BY <2>2
    <3> QED
      BY <2>1, <2>3, <3>1
  <2> QED
    BY <2>3 DEF Distinct
<1> HIDE DEF Forgotten
<1>8. \A d \in conv' : \E c \in conv : c.id = d.id /\ c.pair = d.pair
  BY <1>6
<1>9. Shape'
  BY <1>1, <1>2, <1>3, <1>6 DEF IInv, Shape, Requested, Request, Idle, Recorded, Sent, Opened
<1>10. Numbered'
  BY <1>2, <1>3, <1>8 DEF IInv, Numbered, Given, Idle
<1>11. Unborn'
  BY <1>2, <1>3, <1>8 DEF IInv, Unborn, Unseen, Idle
<1>12. Departures' /\ Listed'
  BY <1>2, <1>3, <1>8 DEF IInv, Departures, Leaves, Listed, Shown, Idle
<1>13. ForgottenForGood' /\ ReadMeansShown'
  BY <1>1, <1>2, <1>6, <1>8 DEF IInv, ForgottenForGood, ReadMeansShown
<1> QED
  BY <1>7, <1>9, <1>10, <1>11, <1>12, <1>13 DEF IInv

-----------------------------------------------------------------------------
(* The theorems *)

LEMMA NextInv == IInv /\ [Next]_vars => IInv'
<1> SUFFICES ASSUME IInv, [Next]_vars PROVE IInv'
  OBVIOUS
<1>1. CASE UNCHANGED vars
  BY <1>1, ElsewhereInv DEF vars, tables
<1>2. ASSUME NEW r \in Requests, NEW u \in Users, NEW v \in Users, NEW writes \in BOOLEAN,
             NEW byStore \in BOOLEAN, Ask(r, u, v, writes, byStore)
      PROVE  IInv'
  BY <1>2, AskInv
<1>3. ASSUME NEW r \in Requests, Find(r) \/ Insert(r) \/ Change(r) \/ Count(r) \/ CommitTalk(r)
      PROVE  IInv'
  BY <1>3, FindInv, InsertInv, ChangeInv, CountInv, CommitTalkInv
<1>4. ASSUME NEW r \in Requests, NEW u \in Users, NEW c \in conv, Reply(r, u, c) \/ List(r, u, c)
      PROVE  IInv'
  BY <1>4, ReplyInv, ListInv
<1>5. ASSUME NEW r \in Requests, Mark(r) \/ Collect(r) \/ Erase(r) \/ Close(r) \/ CommitLeave(r)
      PROVE  IInv'
  BY <1>5, MarkInv, CollectInv, EraseInv, CloseInv, CommitLeaveInv
<1>6. ASSUME NEW r \in Requests, NEW u \in Users, Depart(r, u)
      PROVE  IInv'
  BY <1>6, DepartInv
<1>7. ASSUME NEW r \in Requests, Fail(r)
      PROVE  IInv'
  BY <1>7, RefuseInv DEF Fail
<1>8. ASSUME NEW u \in Users, OpenShop(u) \/ Click(u)
      PROVE  IInv'
  BY <1>8, ShopInv
<1> QED
  BY <1>1, <1>2, <1>3, <1>4, <1>5, <1>6, <1>7, <1>8 DEF Next

LEMMA Inductive == Spec => []IInv
  BY InitInv, NextInv, PTL DEF Spec

(* A message carries read_at only if a request of its recipient had it in  *)
(* its answer: list_messages marks what it listed, not what came since     *)
(* (routers/seller_ops.py), for any users and requests.                    *)
THEOREM MarkedWasShown == Spec => []ReadMeansShown
<1>1. IInv => ReadMeansShown
  BY DEF IInv
<1> QED
  BY Inductive, <1>1, PTL

(* Once delete_account has committed, no conversation its user had when he *)
(* asked for it exists, nor is one inserted again by a request under way.  *)
THEOREM DeletionIsFinal == Spec => []ForgottenForGood
<1>1. IInv => ForgottenForGood
  BY DEF IInv
<1> QED
  BY Inductive, <1>1, PTL
=============================================================================
