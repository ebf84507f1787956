----------------------------- MODULE Migrations -----------------------------
(***************************************************************************)
(* The database from its first release to the latest one: containers that  *)
(* start and run `alembic upgrade head`, an operator who downgrades, the   *)
(* program that goes on writing rows meanwhile.                            *)
(*                                                                         *)
(* All the revisions of one command run in ONE transaction (alembic/env.py *)
(* begins one around run_migrations); an action is one SQL statement of    *)
(* it.  Until it commits, others see the old database and wait for the     *)
(* tables it locked.                                                       *)
(***************************************************************************)
EXTENDS Integers, FiniteSets, MigrationScripts, OrmModels

CONSTANTS
    Jobs,     \* processes that run alembic at the same time
    Releases, \* head revisions of the releases that are deployed
    Fans,     \* the users whose favourites are followed: those of two users never meet
    Rollbacks,\* the downgrades an operator may run, as <<from, to>>
    Users,    \* account ids; uuids are ordered, and so are these numbers
    Stores,   \* storefronts
    Owner,    \* their owners
    FiveStars,\* numbers of five-star reviews the storefront can come to have
    MaxFavorites, MaxOpened, MaxSaid, \* bounds: favourites, conversations, messages
    MaxTime,  \* bound: instants a favourite can be created at
    MaxDowngrades \* bound: downgrades by the operator

NoUser == 0
NoStore == "no_store"

ASSUME UsersAssumption == Users \subseteq Nat \ {0} /\ Fans \subseteq Users
(* seller_profiles.user_id is unique                                       *)
ASSUME OwnerAssumption ==
    /\ Owner \in [Stores -> Users] /\ NoStore \notin Stores
    /\ \A s, t \in Stores : Owner[s] = Owner[t] => s = t
ASSUME ReleasesAssumption == Releases \subseteq 1 .. Latest /\ Rollbacks \subseteq (0 .. Latest) \X (0 .. Latest)
ASSUME FiveStarsAssumption == FiveStars \subseteq Nat
ASSUME BoundsAssumption ==
    MaxFavorites \in Nat /\ MaxOpened \in Nat /\ MaxSaid \in Nat /\ MaxTime \in Nat
    /\ MaxDowngrades \in Nat

VARIABLES
    rev,    \* the committed alembic_version
    db,     \* the committed schema and rows
    job,    \* the processes
    undone, \* how many downgrades there were, and which scripts of Lossy they undid (history)
    past    \* what was ever favourited and said (history)

vars == <<rev, db, job, undone, past>>

(* favorites     : a product or a storefront, created at an instant        *)
(* conversations : participants a, b and context, or buyer and seller      *)
(* fives         : reviews with rating 5                                   *)
(* unscored      : some review has no category scores                      *)
(* filed         : a storefront is filed under a category                  *)
Things == {"product", "store"}
NoRows == [favorites |-> {}, conversations |-> {}, messages |-> {}, fives |-> 0,
           stars |-> 0, crowns |-> 0, unscored |-> FALSE, filed |-> FALSE]
Empty == [schema |-> {}, rows |-> NoRows]

(* at       : what the process does                                        *)
(* up       : upgrade or downgrade                                         *)
(* from     : the revision it found                                        *)
(* goal     : the revision to reach                                        *)
(* step     : the revision being applied or undone                         *)
(* k        : the next statement of its script                             *)
(* view     : the database as its transaction sees it, once it has changed *)
(* locks    : tables it locked, with the mode; none as long as it has not  *)
(* versioned: it has updated alembic_version                               *)
(* culprit  : the statement that failed                                    *)
Idle == [at |-> "idle", up |-> TRUE, from |-> 0, goal |-> 0, step |-> 0, k |-> 1,
         view |-> Empty, locks |-> {}, versioned |-> FALSE, culprit |-> NoName]

Failed(q, s) == [Idle EXCEPT !.at = "failed", !.up = q.up, !.from = q.from, !.culprit = s]

-----------------------------------------------------------------------------
(* The schema: a set of tables, columns, indexes and constraints           *)

Object(kind, t, name, cols) == [kind |-> kind, table |-> t, name |-> name, cols |-> cols]
Table(t) == Object("table", t, NoName, {})
Column(t, c) == Object("column", t, c, {c})
Required(t, c) == Object("required", t, c, {c})

(* a statement fails: what it creates is there, what it needs is not       *)
Refused(S, s) ==
    LET named == {o \in S : o.name = s.name /\ o.kind \in {"index", "unique", "constraint"}} IN
    CASE s.op = "create_table" ->
            \/ Table(s.table) \in S
            \/ \E ref \in s.refs : ref[2] # s.table /\ Table(ref[2]) \notin S
      [] s.op = "drop_table" ->
            \/ Table(s.table) \notin S
            \/ \E o \in S : o.kind = "reference" /\ o.name = s.table /\ o.table # s.table
      [] s.op = "drop_cascade" -> FALSE
      [] s.op = "add_column" ->
            Table(s.table) \notin S \/ (Column(s.table, s.name) \in S /\ ~s.lenient)
      [] s.op = "drop_object" -> named = {} /\ ~s.lenient
      [] s.op = "drop_column" ->
            Table(s.table) \notin S \/ (Column(s.table, s.name) \notin S /\ ~s.lenient)
      [] s.op \in {"create_index", "create_unique", "add_check", "add_foreign_key"} ->
            \/ \E c \in s.cols : Column(s.table, c) \notin S
            \/ named # {} /\ ~s.lenient
      [] OTHER -> \E c \in s.cols : Column(s.table, c) \notin S

(* the schema after a statement that does not fail                         *)
Altered(S, s) ==
    LET t == s.table
        named == {o \in S : o.name = s.name /\ o.kind \in {"index", "unique", "constraint"}}
        Added(kind) == IF named = {} THEN S \cup {Object(kind, t, s.name, s.cols)} ELSE S
        References == {Object("reference", t, ref[2], {ref[1]}) : ref \in s.refs}
    IN
    CASE s.op = "create_table" ->
            S \cup {Table(t)} \cup {Column(t, c) : c \in s.cols} \cup References
              \cup {Required(t, c) : c \in s.required}
              \cup {Object("unique", t, u[1], u[2]) : u \in s.uniques}
      [] s.op \in {"drop_table", "drop_cascade"} ->
            {o \in S : o.table # t /\ ~(o.kind = "reference" /\ o.name = t)}
      [] s.op = "add_column" -> S \cup {Column(t, s.name)}
      [] s.op = "drop_column" -> {o \in S : ~(o.table = t /\ s.name \in o.cols)}
      [] s.op = "set_not_null" -> S \cup {Required(t, s.name)}
      [] s.op = "create_index" -> Added("index")
      [] s.op = "create_unique" -> Added("unique")
      [] s.op = "add_check" -> Added("constraint")
      [] s.op = "add_foreign_key" ->
            IF named = {} THEN Added("constraint") \cup References ELSE S
      [] s.op = "drop_object" ->
            {o \in S : o \notin named /\
                ~(o.kind = "reference" /\ o.table = t /\
                  \E n \in named : n.kind = "constraint" /\ n.cols = o.cols)}
      [] s.op = "to_numeric" -> S \cup {Object("numeric", t, s.name, s.cols)}
      [] s.op = "to_double" -> S \ {Object("numeric", t, s.name, s.cols)}
      [] OTHER -> S

(* the schemas after each of the statements of a script, beginning with S  *)
Schemas(S, script) ==
    LET after[i \in 0 .. Len(script)] ==
            IF i = 0 THEN S ELSE Altered(after[i - 1], script[i])
    IN after
(* the schema that the scripts up to revision n make of an empty database  *)
SchemaOf ==
    LET built[n \in 0 .. Latest] ==
            IF n = 0 THEN {} ELSE UNION {Schemas(S, Up[n])[Len(Up[n])] : S \in {built[n - 1]}}
    IN [n \in 0 .. Latest |-> built[n]]

-----------------------------------------------------------------------------
(* The rows *)

SamePair(c, d) == c.a = d.a /\ c.b = d.b
Older(c, d) == c.id < d.id
Duplicates(C) == {c \in C : c.a # NoUser /\ \E d \in C : SamePair(c, d) /\ Older(d, c)}
Keeper(C, c) == CHOOSE d \in C : SamePair(c, d) /\ \A e \in C : SamePair(d, e) => e.id >= d.id

(* Seeded fault: >= in the place of >.                                     *)
RepeatsOrSame(F, thing) ==
    {f \in F : f.thing = thing /\
        \E g \in F : g.thing = thing /\ g.user = f.user /\ g.at <= f.at}
Repeats(F, thing) ==
    {f \in F : f.thing = thing /\
        \E g \in F : g.thing = thing /\ g.user = f.user /\ g.at < f.at}

(* rows that a NOT NULL, a unique index or a foreign key does not allow    *)
Unfilled(R, t, c) ==
    \/ t = "reviews" /\ R.unscored
    \/ \E x \in R.conversations :
          /\ t = "conversations"
          /\ \/ c = "participant_a_id" /\ x.a = NoUser
             \/ c = "participant_b_id" /\ x.b = NoUser
             \/ c = "buyer_id" /\ x.buyer = NoUser
             \/ c = "seller_id" /\ x.seller = NoStore

Repeated(R, index) ==
    \/ \E x, y \in R.conversations :
          /\ x # y
          /\ \/ index = "uq_conversation_participants" /\ SamePair(x, y)
             \/ /\ index = "uq_conversation_buyer_seller"
                /\ x.buyer = y.buyer /\ x.seller = y.seller
    \/ \E f, g \in R.favorites :
          /\ f # g /\ f.user = g.user /\ f.thing = g.thing
          /\ \/ index = "uq_favorites_user_product" /\ f.thing = "product"
             \/ index = "uq_favorites_user_seller" /\ f.thing = "store"

Violated(R, s) ==
    \/ s.op = "set_not_null" /\ Unfilled(R, s.table, s.name)
    \/ s.op = "create_unique" /\ Repeated(R, s.name)
    \* seller_categories refers to categories
    \/ s.name = "delete_categories" /\ R.filed

(* Seeded fault: the messages stay behind.                                 *)
WithoutConversationsOnly(R, X) == [R EXCEPT !.conversations = @ \ X]
(* DELETE of conversations, and of their messages by ON DELETE CASCADE     *)
WithoutConversations(R, X) ==
    [R EXCEPT !.conversations = @ \ X,
              !.messages = {m \in @ : \A c \in X : m.conversation # c.id}]

(* Seeded fault: the storefront is not carried over.                       *)
BackfilledPair(c) ==
    LET owner == Owner[c.seller]
        first == IF c.buyer < owner THEN c.buyer ELSE owner
    IN [c EXCEPT !.a = first, !.b = c.buyer + owner - first]

(* 011: LEAST and GREATEST of the buyer and the storefront's owner         *)
Backfilled(c) ==
    LET owner == Owner[c.seller]
        first == IF c.buyer < owner THEN c.buyer ELSE owner
    IN IF c.a # NoUser /\ c.b # NoUser THEN c
       ELSE [c EXCEPT !.a = first, !.b = c.buyer + owner - first, !.context = c.seller]

(* Seeded fault: the stars that became crowns stay.                        *)
SplitCrownsTwice(R) == IF R.stars >= 10 THEN [R EXCEPT !.crowns = R.stars \div 10] ELSE R
SplitCrowns(R) ==
    IF R.stars >= 10 THEN [R EXCEPT !.crowns = R.stars \div 10, !.stars = R.stars % 10] ELSE R

(* rows that a DROP TABLE takes away                                       *)
Emptied(R, t) ==
    CASE t = "favorites" -> [R EXCEPT !.favorites = {}]
      [] t = "conversations" -> WithoutConversations(R, R.conversations)
      [] t = "messages" -> [R EXCEPT !.messages = {}]
      [] t = "reviews" -> [R EXCEPT !.fives = 0, !.unscored = FALSE]
      [] t = "seller_profiles" -> [R EXCEPT !.stars = 0]
      [] t = "seller_categories" -> [R EXCEPT !.filed = FALSE]
      [] OTHER -> R

Every(R, F(_)) == [R EXCEPT !.conversations = {F(c) : c \in @}]

(* values that a DROP COLUMN takes away                                    *)
Forgotten(R, t, column) ==
    LET ForgetA(c) == [c EXCEPT !.a = NoUser]
        ForgetB(c) == [c EXCEPT !.b = NoUser]
        ForgetContext(c) == [c EXCEPT !.context = NoStore]
        ForgetBuyer(c) == [c EXCEPT !.buyer = NoUser]
        ForgetSeller(c) == [c EXCEPT !.seller = NoStore]
    IN
    CASE t = "conversations" /\ column = "participant_a_id" -> Every(R, ForgetA)
      [] t = "conversations" /\ column = "participant_b_id" -> Every(R, ForgetB)
      [] t = "conversations" /\ column = "context_seller_id" -> Every(R, ForgetContext)
      [] t = "conversations" /\ column = "buyer_id" -> Every(R, ForgetBuyer)
      [] t = "conversations" /\ column = "seller_id" -> Every(R, ForgetSeller)
      [] t = "seller_profiles" /\ column = "golden_crowns" -> [R EXCEPT !.crowns = 0]
      [] OTHER -> R

(* 011: a conversation's messages go to the oldest one of the same pair    *)
Moved(C, m) ==
    [m EXCEPT !.conversation = Keeper(C, CHOOSE c \in C : c.id = m.conversation).id]
(* 011 undone: the columns of 006 get their values again                   *)
Restored(c) ==
    IF c.buyer # NoUser THEN c ELSE [c EXCEPT !.buyer = c.a, !.seller = c.context]

(* what the statements on rows write                                       *)
Rewritten(R, name) ==
    CASE name = "dedupe_products" -> [R EXCEPT !.favorites = @ \ Repeats(@, "product")]
      [] name = "dedupe_stores" -> [R EXCEPT !.favorites = @ \ Repeats(@, "store")]
      [] name = "backfill_participants" -> Every(R, Backfilled)
      [] name = "move_messages" ->
            [R EXCEPT !.messages = {Moved(R.conversations, m) : m \in @}]
      [] name = "drop_duplicates" -> WithoutConversations(R, Duplicates(R.conversations))
      [] name = "restore_storefronts" -> Every(R, Restored)
      [] name = "delete_peer_chats" ->
            WithoutConversations(R, {c \in R.conversations : c.seller = NoStore})
      [] name = "backfill_scores" -> [R EXCEPT !.unscored = FALSE]
      [] name = "recompute_sellers" ->
            IF R.fives > 0 THEN [R EXCEPT !.stars = R.fives \div 100] ELSE R
      [] name = "split_crowns" -> SplitCrowns(R)
      [] name = "join_crowns" -> [R EXCEPT !.stars = R.crowns * 10 + R.stars]
      [] OTHER -> R

(* the rows after a statement that does not fail                           *)
Changed(S, R, s) ==
    CASE s.op \in {"drop_table", "drop_cascade"} -> Emptied(R, s.table)
      [] s.op = "drop_column" -> Forgotten(R, s.table, s.name)
      [] s.op = "rows" -> Rewritten(R, s.name)
      [] s.op = "add_column" /\ s.table = "reviews" /\ Column(s.table, s.name) \notin S ->
            [R EXCEPT !.unscored = (R.fives > 0)]
      [] OTHER -> R

-----------------------------------------------------------------------------
(* Table locks *)

LocksOf(s) ==
    CASE s.op = "rows" ->
            {<<s.table, "row">>} \cup
            (IF s.table = "conversations" THEN {<<"messages", "row">>} ELSE {})
      [] s.op \in {"create_index", "create_unique"} -> {<<s.table, "share">>}
      [] s.op = "create_table" ->
            {<<s.table, "alone">>} \cup {<<ref[2], "share">> : ref \in s.refs}
      [] OTHER -> {<<s.table, "alone">>}

Conflict(x, y) == x[1] = y[1] /\ (x[2] # y[2] \/ x[2] = "alone")

Locked(j, wanted) == \E x \in job[j].locks, y \in wanted : Conflict(x, y)

(* a write of the program goes through                                     *)
Unlocked(t) == \A j \in Jobs : ~Locked(j, {<<t, "row">>})
(* and does not meet rows that a migration has updated                     *)
Untouched(t) == \A j \in Jobs : ~ \E x \in job[j].locks : x[1] = t

Script(q) == IF q.up THEN Up[q.step] ELSE Down[q.step]
AtVersion(q) == q.k > Len(Script(q))

(* the next statement of j has to wait for i                               *)
WaitsFor(j, i) ==
    /\ i # j
    /\ job[j].at = "run"
    /\ IF AtVersion(job[j]) THEN job[i].versioned
       ELSE Locked(i, LocksOf(Script(job[j])[job[j].k]))
Free(j) == \A i \in Jobs : ~WaitsFor(j, i)

-----------------------------------------------------------------------------
(* alembic *)

Becomes(j, q) == job' = [job EXCEPT ![j] = q]

Undoing == \E j \in Jobs : ~job[j].up /\ job[j].at \notin {"idle", "failed"}

(* entrypoint.sh of a container of release n: alembic upgrade head         *)
Start(j, n) ==
    /\ job[j].at = "idle"
    /\ n > rev
    /\ ~Undoing
    /\ Becomes(j, [Idle EXCEPT !.at = "run", !.from = rev, !.goal = n, !.step = rev + 1])
    /\ UNCHANGED <<rev, db, undone, past>>

(* alembic downgrade n, by an operator who starts no container meanwhile   *)
Downgrade(j, n) ==
    /\ \A i \in Jobs : job[i].at = "idle"
    /\ <<rev, n>> \in Rollbacks
    /\ n < rev
    /\ undone.times < MaxDowngrades
    /\ Becomes(j, [Idle EXCEPT !.at = "run", !.up = FALSE, !.from = rev, !.goal = n,
                               !.step = rev])
    /\ UNCHANGED <<rev, db, undone, past>>

(* What a job sees when its next statement begins, at READ COMMITTED: as   *)
(* long as its transaction changed nothing, what others commit.            *)
Seen(q) == IF q.locks = {} THEN db ELSE q.view

Executed(q, now) ==
    LET s == Script(q)[q.k] IN
    IF Refused(now.schema, s) \/ Violated(now.rows, s)
    THEN Failed(q, IF s.name = NoName THEN s.table ELSE s.name)
    ELSE [q EXCEPT !.k = @ + 1, !.locks = @ \cup LocksOf(s),
                   !.view = [schema |-> Altered(now.schema, s),
                             rows |-> Changed(now.schema, now.rows, s)]]

Execute(j) ==
    LET q == job[j] IN
    /\ q.at = "run"
    /\ ~AtVersion(q)
    /\ Free(j)
    /\ Becomes(j, Executed(q, Seen(q)))
    /\ UNCHANGED <<rev, db, undone, past>>

VersionMatched(q) == q.versioned \/ rev = q.from

(* UPDATE alembic_version ... WHERE version_num = the revision it found    *)
SetVersion(j) ==
    LET q == job[j] IN
    /\ q.at = "run"
    /\ AtVersion(q)
    /\ Free(j)
    /\ Becomes(j,
         IF ~VersionMatched(q) THEN Failed(q, "alembic_version")
         ELSE IF q.step = (IF q.up THEN q.goal ELSE q.goal + 1)
         THEN [q EXCEPT !.at = "commit", !.versioned = TRUE]
         ELSE [q EXCEPT !.k = 1, !.versioned = TRUE, !.step = IF q.up THEN @ + 1 ELSE @ - 1])
    /\ UNCHANGED <<rev, db, undone, past>>

(* The revisions whose downgrade() does not bring back what was there.     *)
Lossy == {6, 7, 11}

CommitAll(j) ==
    LET q == job[j] IN
    /\ q.at = "commit"
    /\ rev' = q.goal
    /\ db' = q.view
    /\ undone' = IF q.up THEN undone
                 ELSE [times |-> undone.times + 1,
                       scripts |-> undone.scripts \cup (Lossy \cap (q.goal + 1 .. q.from))]
    /\ Becomes(j, Idle)
    /\ UNCHANGED past

(* The container stops or loses its connection, at any place; a failed one *)
(* ends (set -e) and is started again.                                     *)
Stop(j) ==
    /\ job[j].at # "idle"
    /\ Becomes(j, Idle)
    /\ UNCHANGED <<rev, db, undone, past>>

(* PostgreSQL aborts one of two transactions that wait for one another.    *)
DeadlockVictim(j) ==
    /\ \E i \in Jobs : WaitsFor(j, i) /\ WaitsFor(i, j)
    /\ Becomes(j, Failed(job[j], "deadlock"))
    /\ UNCHANGED <<rev, db, undone, past>>

-----------------------------------------------------------------------------
(* The program of the current revision writes rows.  The tables it writes  *)
(* are not locked, so a running migration sees the new rows too.           *)

(* Bound: the rows of a behaviour are all favourites, or conversations and *)
(* messages, or reviews, or categories; no statement of the scripts has    *)
(* two of these meet.                                                      *)
Rooms == [favorites |-> MaxFavorites - Cardinality(past.liked),
          conversations |-> MaxOpened + MaxSaid - Cardinality(past.opened) - Cardinality(past.said),
          seller_profiles |-> IF db.rows.fives > 0 THEN 0 ELSE 1,
          categories |-> IF db.rows.filed THEN 0 ELSE 1]
NoRoomUsed == [favorites |-> MaxFavorites, conversations |-> MaxOpened + MaxSaid,
               seller_profiles |-> 1, categories |-> 1]
Room(t) == Rooms[t] > 0 /\ \A x \in DOMAIN Rooms \ {t} : Rooms[x] = NoRoomUsed[x]

Write(t, F(_)) ==
    /\ Unlocked(t)
    /\ db' = [db EXCEPT !.rows = F(@)]
    /\ job' = [j \in Jobs |-> IF job[j].locks = {} THEN job[j]
                              ELSE [job[j] EXCEPT !.view.rows = F(@)]]
    /\ UNCHANGED <<rev, undone>>

Constrained(name) == \E o \in db.schema : o.kind = "unique" /\ o.name = name

(* Before 008 nothing but a SELECT keeps a user from favouriting twice.    *)
Favorite(u, thing, instant) ==
    LET F == db.rows.favorites
        f == [id |-> Cardinality(past.liked) + 1, user |-> u, thing |-> thing, at |-> instant]
        Insert(R) == [R EXCEPT !.favorites = @ \cup {f}]
    IN
    /\ rev >= 7
    /\ Room("favorites")
    /\ Constrained("uq_favorites_user_product") =>
          ~ \E g \in F : g.user = u /\ g.thing = thing
    /\ Write("favorites", Insert)
    /\ past' = [past EXCEPT !.liked = @ \cup {f}]

Open(c) ==
    LET Insert(R) == [R EXCEPT !.conversations = @ \cup {c}] IN
    /\ Room("conversations")
    /\ Cardinality(past.opened) < MaxOpened
    /\ Write("conversations", Insert)
    /\ past' = [past EXCEPT !.opened = @ \cup {c}]

Conversation == [id |-> Cardinality(past.opened) + 1, a |-> NoUser, b |-> NoUser,
                 context |-> NoStore, buyer |-> NoUser, seller |-> NoStore]

(* 006 to 010: a buyer contacts a storefront                               *)
Contact(u, s) ==
    /\ rev \in 6 .. 10
    /\ u # Owner[s]
    /\ \A c \in db.rows.conversations : ~(c.buyer = u /\ c.seller = s)
    /\ Open([Conversation EXCEPT !.buyer = u, !.seller = s])

(* from 011: two users, perhaps through a storefront of one of them        *)
Converse(u, v, s) ==
    /\ rev >= 11
    /\ u < v
    /\ s # NoStore => Owner[s] \in {u, v}
    /\ \A c \in db.rows.conversations : ~(c.a = u /\ c.b = v)
    /\ Open([Conversation EXCEPT !.a = u, !.b = v, !.context = s])

Members(c) == IF c.a # NoUser THEN {c.a, c.b} ELSE {c.buyer, Owner[c.seller]}

Say(c, u) ==
    LET m == [id |-> Cardinality(past.said) + 1, conversation |-> c.id, sender |-> u]
        Insert(R) == [R EXCEPT !.messages = @ \cup {m}]
    IN
    /\ Room("conversations")
    /\ Cardinality(past.said) < MaxSaid
    /\ Unlocked("conversations")
    /\ Write("messages", Insert)
    /\ past' = [past EXCEPT !.said = @ \cup
            {[id |-> m.id, sender |-> u, to |-> Members(c), conversation |-> c.id,
              store |-> IF c.seller = NoStore THEN c.context ELSE c.seller]}]

(* A review comes or changes, and the storefront's milestones with it.     *)
Review(n) ==
    LET crowned == rev >= 13
        Update(R) == [R EXCEPT !.fives = n,
            !.stars = IF crowned THEN (n % 1000) \div 100 ELSE n \div 100,
            !.crowns = IF crowned THEN n \div 1000 ELSE 0]
    IN
    /\ rev >= 1
    /\ Room("seller_profiles")
    /\ Unlocked("reviews")
    /\ Untouched("seller_profiles")
    /\ Write("seller_profiles", Update)
    /\ UNCHANGED past

(* The storefront is filed under one of the seeded categories.             *)
File ==
    LET Insert(R) == [R EXCEPT !.filed = TRUE] IN
    /\ rev >= 2
    /\ Room("categories")
    /\ Write("categories", Insert)
    /\ UNCHANGED past

-----------------------------------------------------------------------------

Init ==
    /\ rev = 0
    /\ db = Empty
    /\ job = [j \in Jobs |-> Idle]
    /\ undone = [times |-> 0, scripts |-> {}]
    /\ past = [liked |-> {}, opened |-> {}, said |-> {}]

Programs ==
    \/ \E u \in Fans, thing \in Things, t \in 1 .. MaxTime : Favorite(u, thing, t)
    \/ \E u \in Users, s \in Stores : Contact(u, s)
    \/ \E u, v \in Users, s \in Stores \cup {NoStore} : Converse(u, v, s)
    \/ \E c \in db.rows.conversations : \E u \in Members(c) : Say(c, u)
    \/ \E n \in FiveStars : Review(n)
    \/ File

Alembic(j) ==
    \/ \E n \in Releases : Start(j, n)
    \/ \E d \in Rollbacks : Downgrade(j, d[2])
    \/ Execute(j) \/ SetVersion(j) \/ CommitAll(j)
    \/ Stop(j) \/ DeadlockVictim(j)

(* the latest release, and the bounds are reached                          *)
Done == rev = Latest /\ UNCHANGED vars

Next == Programs \/ (\E j \in Jobs : Alembic(j)) \/ Done

Spec == Init /\ [][Next]_vars

-----------------------------------------------------------------------------
(* Properties *)

Undone(n) == n \in undone.scripts

TypeOK ==
    /\ rev \in 0 .. Latest
    /\ \A o \in db.schema : o.kind \in {"table", "column", "required", "index", "unique",
                                        "constraint", "reference", "numeric"}
    /\ \A c \in db.rows.conversations :
          /\ c.a \in Users \cup {NoUser} /\ c.b \in Users \cup {NoUser}
          /\ c.buyer \in Users \cup {NoUser}
          /\ c.seller \in Stores \cup {NoStore} /\ c.context \in Stores \cup {NoStore}
    /\ \A m \in db.rows.messages : \E c \in db.rows.conversations : m.conversation = c.id
    /\ \A j \in Jobs :
          /\ job[j].at \in {"idle", "run", "commit", "failed"}
          /\ job[j].locks = {} => job[j].view = Empty
    /\ undone.times <= MaxDowngrades

(* Whatever containers start at once, stop half-way or fail, and whatever  *)
(* is downgraded and upgraded again, the committed schema is the one that  *)
(* its revision's scripts build from nothing.  Not so once 007 is undone,  *)
(* and, below 011, once 011 is: their downgrade() is no inverse.           *)
SchemaFollowsRevision ==
    \/ db.schema = SchemaOf[rev]
    \/ Undone(7)
    \/ rev < 11 /\ Undone(11)

(* At the latest revision, which the tests never build (conftest.py calls  *)
(* create_all), the program finds every column it reads, gives a value to  *)
(* every column that needs one, and can rely on what it declares unique.   *)
ModelsFit ==
    rev = Latest =>
        /\ \A t \in DOMAIN Models : \A c \in Models[t].sent \cup Models[t].served :
              Column(t, c) \in db.schema
        /\ \A o \in db.schema :
              o.kind = "required" /\ o.table \in DOMAIN Models => o.name \in Models[o.table].sent
        /\ LET Promised == {<<o.table, o.cols>> : o \in {x \in db.schema : x.kind = "unique"}}
           IN \A t \in DOMAIN Models : \A cols \in Models[t].unique : <<t, cols>> \in Promised
        /\ \A n \in ModelNumerics : Object("numeric", n[1], n[2], {n[2]}) \in db.schema

(* An upgrade fails only after 007 was undone, when another container was  *)
(* faster or in a deadlock with it, or on favourites that 008 cannot tell  *)
(* apart or that came after it looked; a downgrade only on categories in   *)
(* use, on two conversations of an owner, or below an undone 007.          *)
FailuresExplained ==
    \A j \in Jobs :
        LET q == job[j] IN
        q.at = "failed" =>
            \/ q.culprit = "deadlock"
            \/ rev # q.from
            \/ rev = 6 /\ Undone(7)
            \/ /\ q.up /\ rev = 7
               /\ q.culprit \in {"uq_favorites_user_product", "uq_favorites_user_seller"}
               /\ \E f, g \in db.rows.favorites :
                     f # g /\ f.user = g.user /\ f.thing = g.thing
            \/ ~q.up /\ q.culprit = "delete_categories" /\ db.rows.filed
            \/ ~q.up /\ rev >= 7 /\ q.culprit = "coupons"
            \/ /\ ~q.up /\ rev >= 11 /\ q.culprit = "uq_conversation_buyer_seller"
               /\ \E c, d \in db.rows.conversations : c # d /\ c.a = d.a /\ c.context = d.context

(* A message stays, in a conversation of the same two people, through the  *)
(* merge of 011 and all the rest, unless 011 or 006 is undone.             *)
NothingSaidIsLost ==
    \/ Undone(11) \/ Undone(6)
    \/ \A m \in past.said :
          \E n \in db.rows.messages, c \in db.rows.conversations :
             n.id = m.id /\ n.sender = m.sender /\ n.conversation = c.id /\ Members(c) = m.to

(* Who wrote to a storefront may still review it after 011 (the message    *)
(* is in a conversation with that context), unless its owner had written   *)
(* first to a storefront of his own: the older conversation's context is   *)
(* the one kept.                                                           *)
EligibilityKept ==
    rev >= 11 /\ ~Undone(11) /\ ~Undone(6) =>
        \A m \in past.said :
            m.store = NoStore \/ m.sender = Owner[m.store] \/
            \E n \in db.rows.messages, c \in db.rows.conversations :
                /\ n.id = m.id /\ n.conversation = c.id
                /\ \/ c.context = m.store
                   \/ \E d \in past.opened : /\ d.id < m.conversation
                                             /\ d.buyer = Owner[m.store]
                                             /\ Owner[d.seller] = m.sender

(* The milestones are those of the five-star reviews, by the rule of the   *)
(* revision: from 013 on a crown for a thousand, a star for a hundred of   *)
(* the rest (services/ratings.py), before it a star for every hundred.     *)
MilestonesFollowReviews ==
    LET R == db.rows IN
    IF rev >= 13 THEN R.crowns = R.fives \div 1000 /\ R.stars = (R.fives % 1000) \div 100
    ELSE R.crowns = 0 /\ R.stars = R.fives \div 100

(* Dropping repeated favourites leaves each user the first one of every    *)
(* item he ever liked.                                                     *)
TastesKept ==
    Undone(7) \/
    \A f \in past.liked :
        \E g \in db.rows.favorites : g.user = f.user /\ g.thing = f.thing /\ g.at <= f.at

=============================================================================
