-------------------------- MODULE FavoriteCounters --------------------------
(***************************************************************************)
(* The favourites of ONE seller: the rows of table favorites that name its *)
(* storefront or one of its products, its column favorite_count, and the   *)
(* HTTP requests that change them concurrently.  The favourites of several *)
(* sellers share no row and no counter.                                    *)
(*                                                                         *)
(* A request is one SQLAlchemy session: one PostgreSQL transaction at READ *)
(* COMMITTED.  session.add and session.delete are flushed by the UPDATE of *)
(* the counter that follows (autoflush), so the row comes first.  One      *)
(* action is one SQL statement, or one row of a DELETE of several rows.    *)
(* The unique indexes are those of migration 008.                          *)
(***************************************************************************)
EXTENDS Integers, FiniteSets

CONSTANTS
    Requests,  \* requests the server runs at the same time
    Users,
    Products,  \* the products of the seller
    Store,     \* stands for the storefront: a favourite whose product_id is NULL
    NoUser,    \* deleting a product concerns no user
    RollbackExpires, \* rollback() expires the objects of the session (SQLAlchemy: it does)
    MaxRows,   \* bound: rows ever inserted
    Handlers   \* bound: the handlers that are called

ASSUME RequestsAssumption == IsFiniteSet(Requests)
ASSUME MaxRowsAssumption == MaxRows \in Nat \ {0}
ASSUME RollbackExpiresAssumption == RollbackExpires \in BOOLEAN
ASSUME NamesAssumption == Store \notin Products /\ NoUser \notin Users

VARIABLES
    favorites, \* the committed rows
    count,     \* the committed favorite_count
    listed,    \* the products that exist
    left,      \* the users whose account is deleted
    serial,    \* number of rows given an id
    cascaded,  \* rows removed with a product or an account (history)
    spurious,  \* decrements by a removal that deleted no row (history)
    req        \* the requests: their place in the handler and their transaction

vars == <<favorites, count, listed, left, serial, cascaded, spurious, req>>
db == <<favorites, count, listed, left, cascaded, spurious>>

Item == [user : Users, thing : Products \cup {Store}]
Favorite == [id : 1 .. MaxRows, item : Item]

(* kind   : the handler                                                    *)
(* at     : the statement to run next                                      *)
(* item   : the item it concerns; its user, or its product                 *)
(* todo   : guest items a migration has yet to look at                     *)
(* doomed : rows the current DELETE has yet to lock                        *)
(* inserts, deletes, delta: what the transaction wrote                     *)
Idle == [kind |-> "add", at |-> "idle", item |-> [user |-> NoUser, thing |-> Store],
         todo |-> {}, doomed |-> {}, inserts |-> {}, deletes |-> {}, delta |-> 0]

TypeOK ==
    /\ favorites \subseteq Favorite
    /\ count \in Nat
    /\ listed \subseteq Products
    /\ left \subseteq Users
    /\ serial \in 0 .. MaxRows
    /\ cascaded \in Nat
    /\ spurious \in Nat
    /\ req \in [Requests ->
                  [kind : {"add", "remove", "migrate", "unlist", "leave"},
                   at : {"idle", "check", "insert", "up", "lock", "delete", "down",
                         "commit", "reread", "failed"},
                   item : [user : Users \cup {NoUser}, thing : Products \cup {Store}],
                   todo : SUBSET Item, doomed : SUBSET Favorite,
                   inserts : SUBSET Favorite, deletes : SUBSET Favorite,
                   delta : Int]]

-----------------------------------------------------------------------------
(* Locks and waiting *)

Running(r) == req[r].at \notin {"idle", "failed"}

RowsOf(i) == {f \in favorites : f.item = i}
Inserts(p, i) == \E f \in req[p].inserts : f.item = i
Deletes(p, i) == \E f \in req[p].deletes : f.item = i

(* An UPDATE of the counter that matched its row holds that row.           *)
HoldsSeller(p) == req[p].delta # 0

(* DELETE FROM products holds the product until the end of the transaction *)
HoldsProduct(p, t) ==
    /\ req[p].kind = "unlist" /\ req[p].item.thing = t
    /\ t \in listed
    /\ req[p].at \in {"delete", "commit"}

(* The next statement of r may have to wait for transaction p to end.      *)
WaitsFor(r, p) ==
    /\ p # r
    /\ LET q == req[r] IN
       \/ /\ q.at = "insert"
          /\ Inserts(p, q.item) \/ Deletes(p, q.item) \/ HoldsProduct(p, q.item.thing)
       \/ q.at = "up" /\ HoldsSeller(p)
       \* WHERE favorite_count > 0 does not match the committed row: no wait
       \/ q.at = "down" /\ count > 0 /\ HoldsSeller(p)
       \/ /\ q.at = "lock"
          /\ \/ HoldsProduct(p, q.item.thing)
             \/ \E f \in req[p].inserts : f.item.thing = q.item.thing
       \* of several rows the DELETE may lock this one next
       \/ \E f \in q.doomed : f \in req[p].deletes
       \* the UPDATE of users changes the key that inserted rows refer to
       \/ /\ q.kind = "leave" /\ q.at = "commit"
          /\ \E f \in req[p].inserts : f.item.user = q.item.user

Free(r) == \A p \in Requests : ~WaitsFor(r, p)

(* Seeded fault: waiting transactions are never aborted.                   *)
DeadlockedUndetected(r) == FALSE

(* Requests that wait for one another, so that none can go on              *)
Deadlocked(r) ==
    \E D \in SUBSET Requests :
        /\ r \in D
        /\ \A q \in D :
              IF req[q].doomed # {}
              THEN \A f \in req[q].doomed : \E p \in D \ {q} : f \in req[p].deletes
              ELSE \E p \in D : WaitsFor(q, p)

Becomes(r, q) == req' = [req EXCEPT ![r] = q]

-----------------------------------------------------------------------------
(* Requests arrive.  A request that its first reads turn away (unknown     *)
(* product, favourite already there, nothing to remove) writes nothing and *)
(* is not represented.                                                     *)

Arrive(r, k, place, i, items, rows) ==
    /\ k \in Handlers
    /\ req[r].at = "idle"
    /\ i.user \notin left
    /\ Becomes(r, [Idle EXCEPT !.kind = k, !.at = place, !.item = i,
                               !.todo = items, !.doomed = rows])
    /\ UNCHANGED <<db, serial>>

Exists(t) == t \in listed \cup {Store}

(* Seeded fault: adding a product adds the storefront in one transaction.  *)
AddFavoriteAndStore(r, i) ==
    /\ Exists(i.thing)
    /\ RowsOf(i) = {}
    /\ Arrive(r, "add", "check", i, {i, [i EXCEPT !.thing = Store]}, {})

(* add_favorite_product, add_favorite_seller                               *)
AddFavorite(r, i) ==
    /\ Exists(i.thing)
    /\ RowsOf(i) = {}
    /\ Arrive(r, "add", "insert", i, {}, {})

(* remove_favorite_product, remove_favorite_seller                         *)
RemoveFavorite(r, f) ==
    /\ f \in favorites
    /\ Arrive(r, "remove", "delete", f.item, {}, {f})

(* migrate_guest_favorites                                                 *)
MigrateGuest(r, u, S) ==
    /\ S # {}
    /\ Arrive(r, "migrate", "check", [user |-> u, thing |-> Store],
              [user : {u}, thing : S], {})

(* delete_product, by the seller                                           *)
Unlist(r, t) ==
    /\ t \in listed
    /\ Arrive(r, "unlist", "lock", [user |-> NoUser, thing |-> t], {}, {})

(* delete_account of a user who has favourites here                        *)
Leave(r, u) ==
    LET rows == {f \in favorites : f.item.user = u} IN
    /\ rows # {}
    /\ Arrive(r, "leave", "delete", [user |-> u, thing |-> Store], {}, rows)

-----------------------------------------------------------------------------
(* Statements *)

Step(r, place) == req[r].at = place /\ Free(r)

Skips(i) == ~Exists(i.thing) \/ RowsOf(i) # {}

(* the SELECTs of migrate-guest for its next item                          *)
CheckItem(r) ==
    /\ req[r].at = "check"
    /\ \E i \in req[r].todo :
          LET rest == [req[r] EXCEPT !.todo = @ \ {i}] IN
          Becomes(r, IF ~Skips(i) THEN [rest EXCEPT !.at = "insert", !.item = i]
                     ELSE IF rest.todo = {} THEN [rest EXCEPT !.at = "commit"]
                     ELSE rest)
    /\ UNCHANGED <<db, serial>>

Integrity(i) == Exists(i.thing) /\ RowsOf(i) = {}

(* IntegrityError: add_favorite_* rolls back and reads again, the          *)
(* migration fails.                                                        *)
Conflict(r) ==
    /\ Becomes(r, [Idle EXCEPT !.kind = req[r].kind, !.item = req[r].item,
                               !.at = IF req[r].kind = "add" THEN "reread" ELSE "failed"])
    /\ UNCHANGED <<db, serial>>

(* INSERT INTO favorites: unique index, then foreign keys                  *)
InsertFavorite(r) ==
    /\ Step(r, "insert")
    /\ \/ /\ Integrity(req[r].item)
          /\ serial < MaxRows
          /\ serial' = serial + 1
          /\ Becomes(r, [req[r] EXCEPT !.at = "up",
                !.inserts = @ \cup {[id |-> serial + 1, item |-> req[r].item]}])
          /\ UNCHANGED db
       \/ ~Integrity(req[r].item) /\ Conflict(r)

(* The SELECT after the rollback takes the row of the winner.  scalar_one  *)
(* fails when that row is gone; and with RollbackExpires the SELECT is not *)
(* even built, as rollback() has expired the attributes of `user`.         *)
Reread(r) ==
    /\ req[r].at = "reread"
    /\ Becomes(r, IF RowsOf(req[r].item) # {} /\ ~RollbackExpires THEN Idle
                  ELSE [req[r] EXCEPT !.at = "failed"])
    /\ UNCHANGED <<db, serial>>

(* Seeded fault: a migration counts once, however many rows it inserts.    *)
BumpedOnce(r) == 1
Bumped(r) == req[r].delta + 1

(* bump_favorite_count(delta=1)                                            *)
BumpUp(r) ==
    /\ Step(r, "up")
    /\ Becomes(r, [req[r] EXCEPT !.delta = Bumped(r),
                                 !.at = IF req[r].todo = {} THEN "commit" ELSE "check"])
    /\ UNCHANGED <<db, serial>>

(* Seeded fault: without the condition favorite_count > 0.                 *)
DecrementUnguarded == -1
Decrement == IF count > 0 THEN -1 ELSE 0

(* bump_favorite_count(delta=-1)                                           *)
BumpDown(r) ==
    /\ Step(r, "down")
    /\ Becomes(r, [req[r] EXCEPT !.delta = Decrement, !.at = "commit"])
    /\ UNCHANGED <<db, serial>>

(* DELETE FROM products; its cascade then deletes the product's favourites *)
LockProduct(r) ==
    /\ Step(r, "lock")
    /\ LET rows == {f \in favorites : f.item.thing = req[r].item.thing} IN
       Becomes(r, [req[r] EXCEPT !.doomed = rows,
                                 !.at = IF rows = {} THEN "commit" ELSE "delete"])
    /\ UNCHANGED <<db, serial>>

(* DELETE FROM favorites, one row: nothing is deleted when it is gone.     *)
DeleteRow(r) ==
    /\ req[r].at = "delete"
    /\ \E f \in req[r].doomed :
          /\ \A p \in Requests \ {r} : f \notin req[p].deletes
          /\ Becomes(r, [req[r] EXCEPT
                !.doomed = @ \ {f},
                !.deletes = @ \cup ({f} \cap favorites),
                !.at = IF req[r].doomed # {f} THEN "delete"
                       ELSE IF req[r].kind = "remove" THEN "down" ELSE "commit"])
    /\ UNCHANGED <<db, serial>>

-----------------------------------------------------------------------------
(* The end of a transaction *)

Commit(r) ==
    LET q == req[r] IN
    /\ Step(r, "commit")
    /\ favorites' = (favorites \ q.deletes) \cup q.inserts
    /\ count' = count + q.delta
    /\ listed' = IF q.kind = "unlist" THEN listed \ {q.item.thing} ELSE listed
    /\ left' = IF q.kind = "leave" THEN left \cup {q.item.user} ELSE left
    /\ cascaded' = IF q.kind \in {"unlist", "leave"}
                   THEN cascaded + Cardinality(q.deletes) ELSE cascaded
    /\ spurious' = IF q.delta = -1 /\ q.deletes = {} THEN spurious + 1 ELSE spurious
    /\ Becomes(r, Idle)
    /\ UNCHANGED serial

(* The connection is lost or the server stops, at any place.               *)
Abort(r) ==
    /\ Running(r)
    /\ Becomes(r, Idle)
    /\ UNCHANGED <<db, serial>>

(* PostgreSQL aborts a transaction of a wait cycle; the answer is a 500.   *)
DeadlockVictim(r) ==
    /\ Deadlocked(r)
    /\ Becomes(r, [Idle EXCEPT !.kind = req[r].kind, !.item = req[r].item, !.at = "failed"])
    /\ UNCHANGED <<db, serial>>

(* The error has been answered.                                            *)
Respond(r) ==
    /\ req[r].at = "failed"
    /\ Becomes(r, Idle)
    /\ UNCHANGED <<db, serial>>

-----------------------------------------------------------------------------

(* Rows that running requests may still insert                             *)
Awaited == {x \in Requests \X Item :
               \/ x[2] \in req[x[1]].todo
               \/ req[x[1]].at = "insert" /\ req[x[1]].item = x[2]}
Room(n) == serial + Cardinality(Awaited) + n <= MaxRows

Arrivals(r) ==
    \/ \E i \in Item : Room(1) /\ AddFavorite(r, i)
    \/ \E f \in favorites : RemoveFavorite(r, f)
    \/ \E u \in Users, S \in SUBSET (Products \cup {Store}) :
          Room(Cardinality(S)) /\ MigrateGuest(r, u, S)
    \/ \E t \in Products : Unlist(r, t)
    \/ \E u \in Users : Leave(r, u)

Advance(r) ==
    \/ CheckItem(r) \/ InsertFavorite(r) \/ Reread(r)
    \/ BumpUp(r) \/ BumpDown(r)
    \/ LockProduct(r) \/ DeleteRow(r)
    \/ Commit(r) \/ Respond(r)

Init ==
    /\ favorites = {}
    /\ count = 0
    /\ listed = Products
    /\ left = {}
    /\ serial = 0
    /\ cascaded = 0
    /\ spurious = 0
    /\ req = [r \in Requests |-> Idle]

(* No request can come any more: the bound on rows is reached, or no user  *)
(* is left.                                                                *)
Quiet ==
    /\ ~Room(1) \/ left = Users
    /\ \A r \in Requests : req[r].at = "idle"
    /\ UNCHANGED vars

Next ==
    \/ \E r \in Requests : Arrivals(r) \/ Advance(r) \/ Abort(r) \/ DeadlockVictim(r)
    \/ Quiet

Spec == Init /\ [][Next]_vars

(* A statement that can run again and again is run in the end: a waiter is *)
(* queued and woken; and a waiter looks for deadlocks after a delay.       *)
Fairness == \A r \in Requests : SF_vars(Advance(r)) /\ WF_vars(DeadlockVictim(r))
FairSpec == Spec /\ Fairness

-----------------------------------------------------------------------------
(* Properties *)

(* The public favorite_count misses the number of rows only by the         *)
(* cascades of deleted products and accounts, which do not decrement it,   *)
(* and by the removals that found their row gone and decremented it all    *)
(* the same: a removal that may not decrement at zero never adds a drift.  *)
DriftExplained ==
    LET rows == Cardinality(favorites) IN
    /\ rows + cascaded - spurious <= count
    /\ count <= rows + cascaded

(* Adding and removing favourites one at a time, and deleting products,    *)
(* take their locks in one order: every wait cycle has a guest migration,  *)
(* which keeps the counter locked while it inserts the next row, or the    *)
(* deletion of an account, which takes rows of many products.              *)
TapsDoNotDeadlock ==
    \A D \in SUBSET Requests :
        D # {} /\ (\A q \in D : \E p \in D : WaitsFor(q, p))
            => \E q \in D : req[q].kind \in {"migrate", "leave"}

(* Every request ends: none waits for ever for a row, the counter or a     *)
(* product.                                                                *)
EveryRequestEnds == \A r \in Requests : Running(r) ~> ~Running(r)

(* test_favorite_count_increments_atomically: when no request runs, the    *)
(* counter is the number of favourites.                                    *)
CountIsFavorites ==
    (\A r \in Requests : req[r].at = "idle") => count = Cardinality(favorites)

(* "Favouriting is idempotent, so return the row committed by the winner": *)
(* an add whose row exists already does not fail.                          *)
AddNeverFails == \A r \in Requests : req[r].kind = "add" => req[r].at # "failed"

=============================================================================
