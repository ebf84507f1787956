----------------------- MODULE FavoriteCountersProofs -----------------------
(***************************************************************************)
(* Safety of FavoriteCounters for every number of requests, users and      *)
(* products.  The theorems come from one inductive invariant, IInv: the    *)
(* counter has one writer at a time, a removal that is about to decrement  *)
(* has seen a positive counter that nobody else can change, and a product  *)
(* being deleted is referred to by no row its deletion does not take.      *)
(***************************************************************************)
EXTENDS FavoriteCounters, FiniteSetTheorems, TLAPS

(* What holds at each statement of a handler                               *)
PlaceInv(q) ==
    /\ q.doomed # {} <=> q.at = "delete"
    /\ q.at \in {"check", "insert", "up"} => q.kind \in {"add", "migrate"}
    /\ q.at = "check" => q.kind = "migrate"
    /\ q.at = "reread" => q.kind = "add"
    /\ q.at = "insert" => q.item \in Item
    /\ q.kind = "add" => q.todo = {}
    /\ q.at = "down" => q.kind = "remove"
    /\ q.at = "lock" => q.kind = "unlist"
    /\ q.at = "delete" => q.kind \in {"remove", "unlist", "leave"}
    /\ q.at \in {"idle", "reread", "failed"} =>
          q.inserts = {} /\ q.deletes = {} /\ q.delta = 0

(* What a transaction has written so far                                   *)
WriteInv(q) ==
    /\ IsFiniteSet(q.inserts) /\ IsFiniteSet(q.deletes)
    /\ q.inserts # {} => q.kind \in {"add", "migrate"}
    /\ q.deletes # {} => q.kind \in {"remove", "unlist", "leave"}
    /\ q.delta # 0 => q.kind \in {"add", "migrate", "remove"}
    /\ q.kind \in {"add", "migrate"} => q.delta >= 0
    /\ q.kind = "remove" => q.delta \in {0, -1}
    /\ q.kind = "remove" /\ q.delta # 0 => q.at = "commit"
    /\ q.kind = "remove" /\ q.deletes # {} => q.at \in {"down", "commit"}
    /\ q.kind = "remove" /\ q.at = "delete" => \E f \in Favorite : q.doomed = {f}
    /\ q.kind = "add" /\ q.inserts # {} => q.at \in {"up", "commit"}
    /\ q.kind = "add" /\ q.delta # 0 => q.at = "commit"
    /\ q.kind = "unlist" => \A f \in q.deletes \cup q.doomed : f.item.thing = q.item.thing
    /\ q.kind = "unlist" /\ q.at = "lock" => q.deletes = {}
    /\ q.kind = "unlist" /\ q.at = "lock" => q.item.thing # Store
    /\ q.kind = "unlist" /\ q.deletes # {} => q.at \in {"delete", "commit"}
    /\ q.kind = "leave" /\ q.at \in {"delete", "commit"} => q.item.user \in Users

(* A request with the record q would hold product t                        *)
Holding(q, t) ==
    /\ q.kind = "unlist" /\ q.item.thing = t
    /\ t \in listed
    /\ q.at \in {"delete", "commit"}

(* What the locks of request r, with record q, say of the other requests   *)
Claims(r, q) ==
    /\ q.delta # 0 => \A p \in Requests \ {r} : req[p].delta = 0
    /\ q.delta < 0 => count > 0
    /\ \A f \in q.inserts :
          /\ Exists(f.item.thing)
          /\ \A p \in Requests \ {r} : ~Holding(req[p], f.item.thing)
    /\ q.kind = "unlist" /\ q.at = "delete" => q.item.thing \in listed
    /\ \A t \in Products : Holding(q, t) =>
          /\ \A p \in Requests \ {r} : ~Holding(req[p], t)
          /\ \A p \in Requests \ {r} : \A f \in req[p].inserts : f.item.thing # t
          /\ \A f \in favorites : f.item.thing = t => f \in q.deletes \cup q.doomed

(* The foreign key of favorites.product_id *)
RowsExist == \A f \in favorites : Exists(f.item.thing)

ReqInv(r) == PlaceInv(req[r]) /\ WriteInv(req[r]) /\ Claims(r, req[r])

IInv == TypeOK /\ RowsExist /\ \A r \in Requests : ReqInv(r)

-----------------------------------------------------------------------------

(* The record of a request *)
Request == [kind : {"add", "remove", "migrate", "unlist", "leave"},
            at : {"idle", "check", "insert", "up", "lock", "delete", "down",
                  "commit", "reread", "failed"},
            item : [user : Users \cup {NoUser}, thing : Products \cup {Store}],
            todo : SUBSET Item, doomed : SUBSET Favorite,
            inserts : SUBSET Favorite, deletes : SUBSET Favorite,
            delta : Int]

(* A record of a transaction that has written nothing and runs no DELETE   *)
Blank(q) == /\ q \in Request
            /\ q.inserts = {} /\ q.deletes = {} /\ q.doomed = {}
            /\ q.todo = {} /\ q.delta = 0
            /\ q.at \in {"idle", "reread", "failed"}
            /\ q.at = "reread" => q.kind = "add"

LEMMA BlankIdle == Blank(Idle)
BY DEF Blank, Idle, Request

LEMMA BlankAnswer ==
  ASSUME NEW q \in Request, NEW place \in {"reread", "failed"},
         place = "reread" => q.kind = "add"
  PROVE  Blank([Idle EXCEPT !.kind = q.kind, !.item = q.item, !.at = place])
<1> DEFINE m == [Idle EXCEPT !.kind = q.kind, !.item = q.item, !.at = place]
<1>1. /\ m.inserts = {} /\ m.deletes = {} /\ m.doomed = {} /\ m.todo = {}
      /\ m.delta = 0 /\ m.kind = q.kind /\ m.at = place
  BY DEF Idle
<1>2. m \in Request
  <2>1. Idle \in Request
    BY BlankIdle DEF Blank
  <2> QED BY <2>1 DEF Request
<1> HIDE DEF m
<1>3. Blank(m)
  BY <1>1, <1>2 DEF Blank
<1> QED BY <1>3 DEF m

LEMMA BlankInv ==
  ASSUME NEW r \in Requests, NEW q, Blank(q)
  PROVE  PlaceInv(q) /\ WriteInv(q) /\ Claims(r, q)
BY FS_EmptySet DEF Blank, Request, PlaceInv, WriteInv, Claims, Holding

(* The initial states satisfy the invariant.                               *)
LEMMA InitInv == Init => IInv
<1> SUFFICES ASSUME Init PROVE IInv
  OBVIOUS
<1>1. \A r \in Requests : req[r] = Idle
  BY DEF Init
<1>2. TypeOK
  <2>1. Idle \in Request
    BY BlankIdle DEF Blank
  <2> QED BY <2>1, MaxRowsAssumption DEF Init, TypeOK, Request
<1>3. \A r \in Requests : ReqInv(r)
  BY <1>1, BlankIdle, BlankInv DEF ReqInv
<1> QED BY <1>2, <1>3 DEF IInv, RowsExist, Init

LEMMA Known ==
  ASSUME IInv, NEW r \in Requests
  PROVE  req \in [Requests -> Request] /\ req[r] \in Request /\ ReqInv(r)
BY DEF IInv, TypeOK, Request

(* A statement that writes only into its own transaction.                  *)
LEMMA LocalStep ==
  ASSUME IInv, NEW r \in Requests, NEW n \in Request, Becomes(r, n),
         UNCHANGED db, serial' \in 0 .. MaxRows,
         PlaceInv(n), WriteInv(n), Claims(r, n)
  PROVE  IInv'
<1>1. req' = [req EXCEPT ![r] = n] /\ req \in [Requests -> Request]
  BY Known DEF Becomes
<1>2. req'[r] = n /\ \A p \in Requests \ {r} : req'[p] = req[p]
  BY <1>1
<1>3. /\ favorites' = favorites /\ count' = count /\ listed' = listed
      /\ left' = left /\ cascaded' = cascaded /\ spurious' = spurious
  BY DEF db
<1>4. TypeOK'
  <2>1. req' \in [Requests -> Request]
    BY <1>1
  <2> QED BY <2>1, <1>3 DEF IInv, TypeOK, Request
<1>5. RowsExist'
  BY <1>3 DEF IInv, RowsExist, Exists
<1>6. PlaceInv(n)' /\ WriteInv(n)'
  BY DEF PlaceInv, WriteInv
<1>7. Claims(r, n)'
  BY <1>2, <1>3 DEF Claims, Holding, Exists
<1>8. ASSUME NEW p \in Requests \ {r} PROVE Claims(p, req[p])'
  <2>1. Claims(p, req[p]) /\ req[p] \in Request
    BY Known DEF ReqInv
  <2>2. req'[p].delta # 0 => \A x \in Requests \ {p} : req'[x].delta = 0
    BY <2>1, <1>2 DEF Claims
  <2>3. ASSUME NEW f \in req[p].inserts, NEW x \in Requests \ {p}
        PROVE  ~Holding(req[x], f.item.thing)'
    <3>1. CASE x # r
      BY <3>1, <2>1, <1>2, <1>3 DEF Claims, Holding
    <3>2. CASE x = r
      <4>1. f.item.thing \in Products \cup {Store}
        BY <2>1 DEF Request, Favorite, Item
      <4>2. f.item.thing = Store => ~Holding(n, f.item.thing)
        BY NamesAssumption DEF Holding, IInv, TypeOK
      <4>3. ~Holding(n, f.item.thing)
        BY <4>1, <4>2 DEF Claims
      <4> QED BY <4>3, <3>2, <1>2, <1>3 DEF Holding
    <3> QED BY <3>1, <3>2
  <2>4. ASSUME NEW t \in Products, Holding(req[p], t)' PROVE
          /\ \A x \in Requests \ {p} : ~Holding(req[x], t)'
          /\ \A x \in Requests \ {p} : \A f \in req'[x].inserts : f.item.thing # t
          /\ \A f \in favorites' : f.item.thing = t => f \in req'[p].deletes \cup req'[p].doomed
    <3>1. Holding(req[p], t)
      BY <2>4, <1>2, <1>3 DEF Holding
    <3>2. ~Holding(n, t) /\ \A f \in n.inserts : f.item.thing # t
      BY <3>1 DEF Claims
    <3> QED BY <3>1, <3>2, <2>1, <1>2, <1>3 DEF Claims, Holding
  <2> QED BY <2>1, <2>2, <2>3, <2>4, <1>2, <1>3 DEF Claims, Exists
<1>9. \A p \in Requests : ReqInv(p)'
  BY <1>2, <1>6, <1>7, <1>8, Known DEF ReqInv, PlaceInv, WriteInv
<1> QED BY <1>4, <1>5, <1>9 DEF IInv

(* A transaction that ends without effect, or has not begun                *)
LEMMA BlankStep ==
  ASSUME IInv, NEW r \in Requests, NEW n, Blank(n), Becomes(r, n),
         UNCHANGED <<db, serial>>
  PROVE  IInv'
<1>1. n \in Request
  BY DEF Blank
<1>2. serial' \in 0 .. MaxRows
  BY DEF IInv, TypeOK
<1> QED BY <1>1, <1>2, BlankInv, LocalStep

(* A request that has only read so far                                     *)
LEMMA ArriveInv ==
  ASSUME IInv, NEW r \in Requests, NEW k, NEW place, NEW i, NEW items, NEW rows,
         Arrive(r, k, place, i, items, rows),
         i \in [user : Users \cup {NoUser}, thing : Products \cup {Store}],
         items \in SUBSET Item, rows \in SUBSET Favorite,
         \/ k = "add" /\ place = "insert" /\ i \in Item /\ items = {} /\ rows = {}
         \/ k = "remove" /\ place = "delete" /\ \E f \in Favorite : rows = {f}
         \/ k = "migrate" /\ place = "check" /\ rows = {}
         \/ k = "unlist" /\ place = "lock" /\ i.thing # Store /\ rows = {}
         \/ k = "leave" /\ place = "delete" /\ i.user \in Users /\ rows # {}
  PROVE  IInv'
<1> DEFINE n == [Idle EXCEPT !.kind = k, !.at = place, !.item = i,
                             !.todo = items, !.doomed = rows]
<1>1. serial' \in 0 .. MaxRows /\ UNCHANGED db /\ Becomes(r, n)
  BY DEF Arrive, IInv, TypeOK
<1>2. /\ n.kind = k /\ n.at = place /\ n.item = i /\ n.todo = items /\ n.doomed = rows
      /\ n.inserts = {} /\ n.deletes = {} /\ n.delta = 0
  BY DEF Idle
<1>3. n \in Request
  BY BlankIdle DEF Blank, Request
<1> HIDE DEF n
<1>4. PlaceInv(n)
  BY <1>2 DEF PlaceInv
<1>5. WriteInv(n)
  BY <1>2, FS_EmptySet DEF WriteInv
<1>6. Claims(r, n)
  BY <1>2 DEF Claims, Holding
<1> QED BY <1>1, <1>3, <1>4, <1>5, <1>6, LocalStep

LEMMA ArrivalsInv ==
  ASSUME IInv, NEW r \in Requests, Arrivals(r)
  PROVE  IInv'
<1>1. favorites \subseteq Favorite /\ \A i \in Item :
         i \in [user : Users \cup {NoUser}, thing : Products \cup {Store}]
  BY DEF IInv, TypeOK, Item
<1>2. ASSUME NEW i \in Item, AddFavorite(r, i) PROVE IInv'
  BY <1>1, <1>2, ArriveInv DEF AddFavorite
<1>3. ASSUME NEW f \in favorites, RemoveFavorite(r, f) PROVE IInv'
  <2>1. f \in Favorite /\ f.item \in Item
    BY <1>1 DEF Favorite
  <2> QED BY <1>1, <1>3, <2>1, ArriveInv DEF RemoveFavorite
<1>4. ASSUME NEW u \in Users, NEW S \in SUBSET (Products \cup {Store}),
             MigrateGuest(r, u, S)
      PROVE  IInv'
  <2> DEFINE items == [user : {u}, thing : S]
             i == [user |-> u, thing |-> Store]
  <2>1. items \in SUBSET Item
    BY DEF Item
  <2>2. i \in [user : Users \cup {NoUser}, thing : Products \cup {Store}]
    OBVIOUS
  <2>3. Arrive(r, "migrate", "check", i, items, {})
    BY <1>4 DEF MigrateGuest
  <2> HIDE DEF items, i
  <2> QED BY <2>1, <2>2, <2>3, ArriveInv
<1>5. ASSUME NEW t \in Products, Unlist(r, t) PROVE IInv'
  <2> DEFINE i == [user |-> NoUser, thing |-> t]
  <2>1. i \in [user : Users \cup {NoUser}, thing : Products \cup {Store}]
    OBVIOUS
  <2>2. i.thing # Store
    BY NamesAssumption
  <2>3. Arrive(r, "unlist", "lock", i, {}, {})
    BY <1>5 DEF Unlist
  <2> HIDE DEF i
  <2> QED BY <2>1, <2>2, <2>3, ArriveInv
<1>6. ASSUME NEW u \in Users, Leave(r, u) PROVE IInv'
  <2>1. [user |-> u, thing |-> Store]
           \in [user : Users \cup {NoUser}, thing : Products \cup {Store}]
    OBVIOUS
  <2>2. {f \in favorites : f.item.user = u} \in SUBSET Favorite
    BY <1>1
  <2> QED BY <1>6, <2>1, <2>2, ArriveInv DEF Leave
<1> QED BY <1>2, <1>3, <1>4, <1>5, <1>6 DEF Arrivals

LEMMA CheckItemShape ==
  ASSUME IInv, NEW r \in Requests, CheckItem(r)
  PROVE  \E n \in Request :
           /\ Becomes(r, n) /\ UNCHANGED <<db, serial>>
           /\ n.kind = req[r].kind /\ n.doomed = req[r].doomed
           /\ n.inserts = req[r].inserts /\ n.deletes = req[r].deletes
           /\ n.delta = req[r].delta
           /\ n.at \in {"insert", "commit", "check"}
           /\ n.at = "insert" => n.item \in Item
<1> DEFINE q == req[r]
<1>1. q \in Request
  BY Known
<1>2. PICK i \in q.todo :
        LET rest == [q EXCEPT !.todo = q.todo \ {i}] IN
        Becomes(r, IF ~Skips(i) THEN [rest EXCEPT !.at = "insert", !.item = i]
                   ELSE IF rest.todo = {} THEN [rest EXCEPT !.at = "commit"]
                   ELSE rest)
  BY DEF CheckItem
<1> DEFINE rest == [q EXCEPT !.todo = q.todo \ {i}]
           found == [rest EXCEPT !.at = "insert", !.item = i]
           last == [rest EXCEPT !.at = "commit"]
<1>3. i \in Item /\ i \in [user : Users \cup {NoUser}, thing : Products \cup {Store}]
  BY <1>1 DEF Request, Item
<1>4. rest \in Request /\ rest.at = "check"
  BY <1>1 DEF Request, CheckItem
<1>5. found \in Request /\ last \in Request
  BY <1>3, <1>4 DEF Request
<1>6. Becomes(r, found) \/ Becomes(r, last) \/ Becomes(r, rest)
  BY <1>2
<1>7. \A n \in {found, last, rest} :
        /\ n.kind = q.kind /\ n.doomed = q.doomed /\ n.inserts = q.inserts
        /\ n.deletes = q.deletes /\ n.delta = q.delta
  BY <1>1 DEF Request
<1>8. found.at = "insert" /\ found.item = i /\ last.at = "commit"
  BY <1>1 DEF Request
<1>9. UNCHANGED <<db, serial>>
  BY DEF CheckItem
<1> HIDE DEF rest, found, last
<1> QED BY <1>3, <1>4, <1>5, <1>6, <1>7, <1>8, <1>9

LEMMA CheckItemInv ==
  ASSUME IInv, NEW r \in Requests, CheckItem(r)
  PROVE  IInv'
<1> DEFINE q == req[r]
<1>1. q \in Request /\ PlaceInv(q) /\ WriteInv(q) /\ Claims(r, q)
  BY Known DEF ReqInv
<1>2. serial' \in 0 .. MaxRows /\ UNCHANGED db
  BY DEF CheckItem, IInv, TypeOK
<1>3. PICK n \in Request :
         /\ Becomes(r, n)
         /\ n.kind = q.kind /\ n.doomed = q.doomed /\ n.inserts = q.inserts
         /\ n.deletes = q.deletes /\ n.delta = q.delta
         /\ n.at \in {"insert", "commit", "check"}
         /\ n.at = "insert" => n.item \in Item
  BY CheckItemShape
<1>4. q.at = "check" /\ q.kind = "migrate"
  BY <1>1 DEF CheckItem, PlaceInv
<1>5. PlaceInv(n) /\ WriteInv(n)
  BY <1>1, <1>3, <1>4 DEF PlaceInv, WriteInv
<1>6. Claims(r, n)
  BY <1>1, <1>3, <1>4 DEF Claims, Holding
<1> QED BY <1>2, <1>3, <1>5, <1>6, LocalStep

LEMMA BumpUpInv ==
  ASSUME IInv, NEW r \in Requests, BumpUp(r)
  PROVE  IInv'
<1> DEFINE q == req[r]
           n == [q EXCEPT !.delta = Bumped(r),
                          !.at = IF q.todo = {} THEN "commit" ELSE "check"]
<1>1. q \in Request /\ PlaceInv(q) /\ WriteInv(q) /\ Claims(r, q)
  BY Known DEF ReqInv
<1>2. serial' \in 0 .. MaxRows /\ UNCHANGED db /\ Becomes(r, n)
  BY DEF BumpUp, IInv, TypeOK
<1>3. q.at = "up" /\ q.kind \in {"add", "migrate"}
  BY <1>1 DEF BumpUp, Step, PlaceInv
<1>4. /\ n.kind = q.kind /\ n.doomed = q.doomed
      /\ n.inserts = q.inserts /\ n.deletes = q.deletes /\ n.item = q.item
      /\ n.todo = q.todo /\ n.delta = q.delta + 1
      /\ n.at = IF q.todo = {} THEN "commit" ELSE "check"
  BY <1>1 DEF Request, Bumped
<1>10. n \in Request
  <2>1. Bumped(r) \in Int
    BY <1>1 DEF Request, Bumped
  <2> QED BY <1>1, <2>1 DEF Request
<1>5. \A p \in Requests \ {r} : req[p].delta = 0
  BY <1>3 DEF BumpUp, Step, Free, WaitsFor, HoldsSeller
<1> HIDE DEF n
<1>6. n.delta > 0 /\ n.delta >= 0 /\ n.delta # 0 /\ ~(n.delta < 0)
  BY <1>1, <1>3, <1>4 DEF WriteInv, Request
<1>7. PlaceInv(n)
  BY <1>1, <1>3, <1>4 DEF PlaceInv
<1>8. WriteInv(n)
  BY <1>1, <1>3, <1>4, <1>6 DEF WriteInv, PlaceInv, Request
<1>9. Claims(r, n)
  BY <1>1, <1>3, <1>4, <1>5, <1>6 DEF Claims, Holding
<1> QED BY <1>2, <1>7, <1>8, <1>9, <1>10, LocalStep

LEMMA BumpDownInv ==
  ASSUME IInv, NEW r \in Requests, BumpDown(r)
  PROVE  IInv'
<1> DEFINE q == req[r]
           n == [q EXCEPT !.delta = Decrement, !.at = "commit"]
<1>1. q \in Request /\ PlaceInv(q) /\ WriteInv(q) /\ Claims(r, q)
  BY Known DEF ReqInv
<1>2. serial' \in 0 .. MaxRows /\ UNCHANGED db /\ Becomes(r, n)
  BY DEF BumpDown, IInv, TypeOK
<1>3. q.at = "down" /\ q.kind = "remove"
  BY <1>1 DEF BumpDown, Step, PlaceInv
<1>4. /\ n.kind = q.kind /\ n.doomed = q.doomed
      /\ n.inserts = q.inserts /\ n.deletes = q.deletes /\ n.item = q.item
      /\ n.todo = q.todo /\ n.delta = Decrement /\ n.at = "commit"
  BY <1>1 DEF Request
<1>10. n \in Request
  <2>1. Decrement \in Int
    BY DEF Decrement
  <2> QED BY <1>1, <2>1 DEF Request
<1>5. n.delta # 0 => /\ n.delta = -1 /\ count > 0
                     /\ \A p \in Requests \ {r} : req[p].delta = 0
  BY <1>3, <1>4 DEF BumpDown, Step, Free, WaitsFor, HoldsSeller, Decrement
<1> HIDE DEF n
<1>7. PlaceInv(n)
  BY <1>1, <1>3, <1>4 DEF PlaceInv
<1>8. WriteInv(n)
  BY <1>1, <1>3, <1>4, <1>5 DEF WriteInv
<1>9. Claims(r, n)
  BY <1>1, <1>3, <1>4, <1>5 DEF Claims, Holding
<1> QED BY <1>2, <1>7, <1>8, <1>9, <1>10, LocalStep

LEMMA InsertFavoriteInv ==
  ASSUME IInv, NEW r \in Requests, InsertFavorite(r)
  PROVE  IInv'
<1> DEFINE q == req[r]
           f == [id |-> serial + 1, item |-> q.item]
           n == [q EXCEPT !.at = "up", !.inserts = q.inserts \cup {f}]
<1>1. q \in Request /\ PlaceInv(q) /\ WriteInv(q) /\ Claims(r, q)
  BY Known DEF ReqInv
<1>2. q.at = "insert" /\ q.kind \in {"add", "migrate"} /\ q.item \in Item
  BY <1>1 DEF InsertFavorite, Step, PlaceInv
<1>3. CASE Conflict(r)
  <2> DEFINE m == [Idle EXCEPT !.kind = q.kind, !.item = q.item,
                               !.at = IF q.kind = "add" THEN "reread" ELSE "failed"]
  <2>1. Becomes(r, m) /\ UNCHANGED <<db, serial>>
    BY <1>3 DEF Conflict
  <2>2. Blank(m)
    BY <1>1, BlankAnswer
  <2> HIDE DEF m
  <2> QED BY <2>1, <2>2, BlankStep
<1>4. CASE ~Conflict(r)
  <2>1. /\ Integrity(q.item) /\ serial < MaxRows /\ serial' = serial + 1
        /\ Becomes(r, n) /\ UNCHANGED db
    BY <1>4 DEF InsertFavorite
  <2>2. serial' \in 0 .. MaxRows /\ serial + 1 \in 1 .. MaxRows
    BY <2>1, MaxRowsAssumption DEF IInv, TypeOK
  <2>3. f \in Favorite
    BY <1>2, <2>2 DEF Favorite
  <2>4. /\ n.kind = q.kind /\ n.doomed = q.doomed /\ n.todo = q.todo
        /\ n.inserts = q.inserts \cup {f} /\ n.deletes = q.deletes /\ n.item = q.item
        /\ n.delta = q.delta /\ n.at = "up"
    BY <1>1 DEF Request
  <2>5. n \in Request
    BY <1>1, <2>3 DEF Request
  <2>6. f.item = q.item
    OBVIOUS
  <2>7. \A p \in Requests \ {r} : ~Holding(req[p], f.item.thing)
    BY <1>2, <2>6 DEF InsertFavorite, Step, Free, WaitsFor, HoldsProduct, Holding
  <2> HIDE DEF n, f
  <2>8. PlaceInv(n)
    BY <1>1, <1>2, <2>4 DEF PlaceInv
  <2>9. WriteInv(n)
    BY <1>1, <1>2, <2>4, FS_AddElement DEF WriteInv
  <2>10. Claims(r, n)
    BY <1>1, <1>2, <2>1, <2>4, <2>6, <2>7 DEF Claims, Holding, Integrity
  <2> QED BY <2>1, <2>2, <2>5, <2>8, <2>9, <2>10, LocalStep
<1> QED BY <1>3, <1>4

LEMMA DeleteRowInv ==
  ASSUME IInv, NEW r \in Requests, DeleteRow(r)
  PROVE  IInv'
<1> DEFINE q == req[r]
<1>1. q \in Request /\ PlaceInv(q) /\ WriteInv(q) /\ Claims(r, q)
  BY Known DEF ReqInv
<1>2. serial' \in 0 .. MaxRows /\ UNCHANGED db
  BY DEF DeleteRow, IInv, TypeOK
<1>3. q.at = "delete" /\ q.kind \in {"remove", "unlist", "leave"}
  BY <1>1 DEF DeleteRow, PlaceInv
<1>4. PICK f \in q.doomed :
         Becomes(r, [q EXCEPT !.doomed = q.doomed \ {f},
                              !.deletes = q.deletes \cup ({f} \cap favorites),
                              !.at = IF q.doomed # {f} THEN "delete"
                                     ELSE IF q.kind = "remove" THEN "down" ELSE "commit"])
  BY DEF DeleteRow
<1> DEFINE n == [q EXCEPT !.doomed = q.doomed \ {f},
                          !.deletes = q.deletes \cup ({f} \cap favorites),
                          !.at = IF q.doomed # {f} THEN "delete"
                                 ELSE IF q.kind = "remove" THEN "down" ELSE "commit"]
<1>5. f \in Favorite
  BY <1>1 DEF Request
<1>6. /\ n.kind = q.kind /\ n.doomed = q.doomed \ {f} /\ n.todo = q.todo
      /\ n.inserts = q.inserts /\ n.item = q.item /\ n.delta = q.delta
      /\ n.deletes = q.deletes \cup ({f} \cap favorites)
      /\ n.at = IF q.doomed # {f} THEN "delete"
                ELSE IF q.kind = "remove" THEN "down" ELSE "commit"
  BY <1>1 DEF Request
<1>7. n \in Request
  BY <1>1, <1>5 DEF Request
<1>8. Becomes(r, n)
  BY <1>4
<1> HIDE DEF n
<1>9. PlaceInv(n)
  BY <1>1, <1>3, <1>6 DEF PlaceInv
<1>10. WriteInv(n)
  <2>1. IsFiniteSet(n.deletes)
    <3>1. n.deletes = q.deletes \/ n.deletes = q.deletes \cup {f}
      BY <1>6
    <3>2. IsFiniteSet(q.deletes)
      BY <1>1 DEF WriteInv
    <3> QED BY <3>1, <3>2, FS_AddElement
  <2>2. q.kind = "remove" => q.doomed = {f}
    BY <1>1, <1>3 DEF WriteInv
  <2> QED BY <1>1, <1>3, <1>6, <2>1, <2>2 DEF WriteInv
<1>11. Claims(r, n)
  <2>1. \A t \in Products : Holding(n, t) => Holding(q, t)
    BY <1>3, <1>6 DEF Holding
  <2> QED BY <1>1, <1>3, <1>6, <2>1 DEF Claims
<1> QED BY <1>2, <1>7, <1>8, <1>9, <1>10, <1>11, LocalStep

LEMMA LockProductInv ==
  ASSUME IInv, NEW r \in Requests, LockProduct(r)
  PROVE  IInv'
<1> DEFINE q == req[r]
           rows == {f \in favorites : f.item.thing = q.item.thing}
           n == [q EXCEPT !.doomed = rows,
                          !.at = IF rows = {} THEN "commit" ELSE "delete"]
<1>1. q \in Request /\ PlaceInv(q) /\ WriteInv(q) /\ Claims(r, q)
  BY Known DEF ReqInv
<1>2. serial' \in 0 .. MaxRows /\ UNCHANGED db /\ Becomes(r, n)
  BY DEF LockProduct, IInv, TypeOK
<1>3. q.at = "lock" /\ q.kind = "unlist"
  BY <1>1 DEF LockProduct, Step, PlaceInv
<1>4. rows \subseteq Favorite
  BY DEF IInv, TypeOK
<1>5. /\ n.kind = q.kind /\ n.doomed = rows /\ n.todo = q.todo
      /\ n.inserts = q.inserts /\ n.item = q.item /\ n.delta = q.delta
      /\ n.deletes = q.deletes /\ n.at = IF rows = {} THEN "commit" ELSE "delete"
  BY <1>1 DEF Request
<1>6. n \in Request
  BY <1>1, <1>4 DEF Request
<1>7. \A p \in Requests \ {r} : /\ ~Holding(req[p], q.item.thing)
                               /\ \A f \in req[p].inserts : f.item.thing # q.item.thing
  BY <1>3 DEF LockProduct, Step, Free, WaitsFor, HoldsProduct, Holding
<1>8. rows # {} => q.item.thing \in listed
  <2>1. ASSUME NEW f \in rows PROVE q.item.thing \in listed \cup {Store}
    BY <2>1 DEF IInv, RowsExist, Exists
  <2>2. q.item.thing # Store
    BY <1>1, <1>3 DEF WriteInv
  <2> QED BY <2>1, <2>2
<1> HIDE DEF n
<1>9. PlaceInv(n)
  BY <1>1, <1>3, <1>5 DEF PlaceInv
<1>10. WriteInv(n)
  BY <1>1, <1>3, <1>5 DEF WriteInv
<1>11. Claims(r, n)
  BY <1>1, <1>3, <1>5, <1>7, <1>8 DEF Claims, Holding, WriteInv
<1> QED BY <1>2, <1>6, <1>9, <1>10, <1>11, LocalStep

(* Each of these steps leaves a record without writes.                    *)
LEMMA EndShape ==
  ASSUME IInv, NEW r \in Requests,
         Reread(r) \/ Abort(r) \/ DeadlockVictim(r) \/ Respond(r)
  PROVE  \E n : Blank(n) /\ Becomes(r, n) /\ UNCHANGED <<db, serial>>
<1> DEFINE q == req[r]
           failed == [Idle EXCEPT !.kind = q.kind, !.item = q.item, !.at = "failed"]
           gone == [q EXCEPT !.at = "failed"]
<1>1. q \in Request /\ PlaceInv(q)
  BY Known DEF ReqInv
<1>2. Blank(failed)
  BY <1>1, BlankAnswer
<1>3. ASSUME q.at = "reread" PROVE Blank(gone)
  <2>1. q.kind = "add" /\ q.todo = {} /\ q.doomed = {}
        /\ q.inserts = {} /\ q.deletes = {} /\ q.delta = 0
    BY <1>1, <1>3 DEF PlaceInv
  <2> QED BY <1>1, <2>1 DEF Blank, Request
<1>4. UNCHANGED <<db, serial>>
  BY DEF Reread, Abort, DeadlockVictim, Respond
<1>5. \/ Becomes(r, Idle)
      \/ Becomes(r, failed)
      \/ q.at = "reread" /\ Becomes(r, gone)
  BY DEF Reread, Abort, DeadlockVictim, Respond
<1> HIDE DEF failed, gone
<1> QED BY <1>2, <1>3, <1>4, <1>5, BlankIdle

LEMMA EndInv ==
  ASSUME IInv, NEW r \in Requests,
         Reread(r) \/ Abort(r) \/ DeadlockVictim(r) \/ Respond(r)
  PROVE  IInv'
BY EndShape, BlankStep

LEMMA CommitInv ==
  ASSUME IInv, NEW r \in Requests, Commit(r)
  PROVE  IInv'
<1> DEFINE q == req[r]
<1>1. q \in Request /\ PlaceInv(q) /\ WriteInv(q) /\ Claims(r, q)
  BY Known DEF ReqInv
<1>2. q.at = "commit" /\ q.doomed = {}
  BY <1>1 DEF Commit, Step, PlaceInv
<1>3. req' = [req EXCEPT ![r] = Idle] /\ req \in [Requests -> Request]
  BY Known DEF Commit, Becomes
<1>4. req'[r] = Idle /\ \A p \in Requests \ {r} : req'[p] = req[p]
  BY <1>3
<1>5. favorites' = (favorites \ q.deletes) \cup q.inserts
  BY DEF Commit
<1>6. listed' = IF q.kind = "unlist" THEN listed \ {q.item.thing} ELSE listed
  BY DEF Commit
<1>7. \A f \in favorites \cup q.inserts :
         Exists(f.item.thing) /\ f.item.thing \in Products \cup {Store}
  BY <1>1 DEF IInv, RowsExist, Claims, TypeOK, Favorite, Item, Request
<1>8. RowsExist'
  <2>1. CASE q.kind # "unlist"
    BY <2>1, <1>5, <1>6, <1>7 DEF RowsExist, Exists
  <2>2. CASE q.kind = "unlist" /\ q.item.thing \notin listed
    <3>1. q.inserts = {}
      BY <2>2, <1>1 DEF WriteInv
    <3> QED BY <2>2, <3>1, <1>5, <1>6, <1>7 DEF RowsExist, Exists
  <2>3. CASE q.kind = "unlist" /\ q.item.thing \in listed
    <3>1. q.inserts = {}
      BY <2>3, <1>1 DEF WriteInv
    <3>2. q.item.thing \in Products /\ Holding(q, q.item.thing)
      BY <2>3, <1>2 DEF Holding, IInv, TypeOK
    <3>3. \A f \in favorites : f.item.thing = q.item.thing => f \in q.deletes
      BY <3>2, <1>1, <1>2 DEF Claims
    <3> QED BY <2>3, <3>1, <3>3, <1>5, <1>6, <1>7 DEF RowsExist, Exists
  <2> QED BY <2>1, <2>2, <2>3
<1>9. count' \in Nat
  <2>1. count' = count + q.delta /\ count \in Nat /\ q.delta \in Int
    BY <1>1 DEF Commit, IInv, TypeOK, Request
  <2>2. q.delta = 0 \/ q.delta >= 0 \/ q.delta = -1
    BY <1>1 DEF WriteInv
  <2>3. q.delta < 0 => count > 0
    BY <1>1 DEF Claims
  <2> QED BY <2>1, <2>2, <2>3
<1>10. TypeOK'
  <2>1. req' \in [Requests -> Request]
    BY <1>3, BlankIdle DEF Blank
  <2>2. favorites' \subseteq Favorite /\ listed' \subseteq Products
    BY <1>1, <1>5, <1>6 DEF IInv, TypeOK, Request
  <2>3. left' \subseteq Users
    <3>1. ASSUME q.kind = "leave" PROVE q.item.user \in Users
      BY <3>1, <1>1, <1>2 DEF WriteInv
    <3> QED BY <3>1 DEF Commit, IInv, TypeOK
  <2>4. Cardinality(q.deletes) \in Nat
    BY <1>1, FS_CardinalityType DEF WriteInv
  <2>5. cascaded' \in Nat /\ spurious' \in Nat /\ serial' \in 0 .. MaxRows
    BY <2>4 DEF Commit, IInv, TypeOK
  <2> QED BY <2>1, <2>2, <2>3, <2>5, <1>9 DEF TypeOK, Request
<1>11. ASSUME NEW p \in Requests \ {r} PROVE Claims(p, req[p])'
  <2>1. Claims(p, req[p]) /\ req[p] \in Request /\ WriteInv(req[p])
    BY Known DEF ReqInv
  <2>2. req'[p] = req[p] /\ Idle.delta = 0 /\ Idle.inserts = {}
        /\ \A t : ~Holding(Idle, t)'
    BY <1>4 DEF Idle, Holding
  <2>3. req[p].delta # 0 => \A x \in Requests \ {p} : req'[x].delta = 0
    BY <2>1, <2>2, <1>4 DEF Claims
  <2>4. req[p].delta < 0 => count' > 0
    <3>1. CASE q.delta = 0
      BY <3>1, <2>1 DEF Commit, Claims, IInv, TypeOK
    <3>2. CASE q.delta # 0
      BY <3>2, <1>1 DEF Claims
    <3> QED BY <3>1, <3>2
  <2>5. \A t \in Products : t \notin listed' /\ t \in listed => Holding(q, t)
    BY <1>2, <1>6 DEF Holding
  <2>6. \A t : Holding(req[p], t)' => Holding(req[p], t)
    BY <1>6, <2>2 DEF Holding
  <2>7. ASSUME NEW f \in req[p].inserts PROVE
           /\ Exists(f.item.thing)'
           /\ \A x \in Requests \ {p} : ~Holding(req[x], f.item.thing)'
    <3>1. Exists(f.item.thing) /\ ~Holding(q, f.item.thing)
          /\ f.item.thing \in Products \cup {Store}
      BY <2>1 DEF Claims, Request, Favorite, Item
    <3>2. Exists(f.item.thing)'
      BY <3>1, <2>5 DEF Exists
    <3>3. ASSUME NEW x \in Requests \ {p} PROVE ~Holding(req[x], f.item.thing)'
      <4>1. CASE x = r
        BY <4>1, <1>4, <2>2 DEF Holding
      <4>2. CASE x # r
        BY <4>2, <1>4, <1>6, <2>1 DEF Holding, Claims
      <4> QED BY <4>1, <4>2
    <3> QED BY <3>2, <3>3
  <2>8. ASSUME req[p].kind = "unlist", req[p].at = "delete"
        PROVE  req[p].item.thing \in listed'
    <3>1. req[p].item.thing \in listed /\ req[p].item.thing \in Products
      BY <2>8, <2>1 DEF Claims, IInv, TypeOK
    <3>2. ~Holding(q, req[p].item.thing)
      BY <3>1, <2>8, <2>1 DEF Claims, Holding
    <3> QED BY <3>1, <3>2, <2>5
  <2>9. ASSUME NEW t \in Products, Holding(req[p], t)' PROVE
          /\ \A x \in Requests \ {p} : ~Holding(req[x], t)'
          /\ \A x \in Requests \ {p} : \A f \in req'[x].inserts : f.item.thing # t
          /\ \A f \in favorites' : f.item.thing = t =>
                f \in req[p].deletes \cup req[p].doomed
    <3>1. Holding(req[p], t)
      BY <2>6, <2>9
    <3>2. ASSUME NEW x \in Requests \ {p} PROVE ~Holding(req[x], t)'
      <4>1. CASE x = r
        BY <4>1, <1>4, <2>2 DEF Holding
      <4>2. CASE x # r
        BY <4>2, <3>1, <1>4, <1>6, <2>1 DEF Holding, Claims
      <4> QED BY <4>1, <4>2
    <3>3. \A x \in Requests \ {p} : \A f \in req'[x].inserts : f.item.thing # t
      BY <3>1, <2>1, <2>2, <1>4 DEF Claims
    <3>4. \A f \in favorites' : f.item.thing = t =>
                f \in req[p].deletes \cup req[p].doomed
      BY <3>1, <2>1, <1>5 DEF Claims
    <3> QED BY <3>2, <3>3, <3>4
  <2> QED BY <2>2, <2>3, <2>4, <2>7, <2>8, <2>9 DEF Claims
<1>12. ReqInv(r)'
  <2>1. PlaceInv(Idle)' /\ WriteInv(Idle)'
    BY BlankIdle, FS_EmptySet DEF Blank, PlaceInv, WriteInv, Request
  <2>2. Claims(r, Idle)'
    BY DEF Idle, Claims, Holding
  <2> QED BY <2>1, <2>2, <1>4 DEF ReqInv, PlaceInv, WriteInv
<1>13. \A p \in Requests : ReqInv(p)'
  BY <1>4, <1>11, <1>12, Known DEF ReqInv, PlaceInv, WriteInv
<1> QED BY <1>8, <1>10, <1>13 DEF IInv

(* Every step preserves the invariant.                                     *)
LEMMA NextInv == IInv /\ [Next]_vars => IInv'
<1> SUFFICES ASSUME IInv, [Next]_vars PROVE IInv'
  OBVIOUS
<1>1. CASE UNCHANGED vars
  BY <1>1 DEF vars, IInv, TypeOK, RowsExist, ReqInv, PlaceInv, WriteInv, Claims,
     Holding, Exists
<1>2. ASSUME NEW r \in Requests, Arrivals(r) PROVE IInv'
  BY <1>2, ArrivalsInv
<1>3. ASSUME NEW r \in Requests, Advance(r) PROVE IInv'
  BY <1>3, CheckItemInv, InsertFavoriteInv, BumpUpInv, BumpDownInv, LockProductInv,
     DeleteRowInv, CommitInv, EndInv DEF Advance
<1>4. ASSUME NEW r \in Requests, Abort(r) \/ DeadlockVictim(r) PROVE IInv'
  BY <1>4, EndInv
<1> QED BY <1>1, <1>2, <1>3, <1>4 DEF Next, Quiet

LEMMA Invariance == Spec => []IInv
BY InitInv, NextInv, PTL DEF Spec

-----------------------------------------------------------------------------

(* The variables keep their types; above all favorite_count is a natural   *)
(* number: of two removals that both saw a positive counter only one holds *)
(* it, so no decrement takes it below zero.                                *)
THEOREM TypeCorrect == Spec => []TypeOK
<1>1. IInv => TypeOK
  BY DEF IInv
<1> QED BY <1>1, Invariance, PTL

(* In a set of taps that wait for one another nobody waits for the         *)
(* counter, because its holder is at its commit; so nobody waits for a row *)
(* of a removal; so nobody waits for a product; so nobody waits.           *)
LEMMA NoTapCycle == IInv => TapsDoNotDeadlock
<1> SUFFICES ASSUME IInv, NEW D \in SUBSET Requests, D # {},
                    \A q \in D : \E p \in D : WaitsFor(q, p),
                    \A q \in D : req[q].kind \notin {"migrate", "leave"}
             PROVE  FALSE
  BY DEF TapsDoNotDeadlock
<1>1. \A q \in D : /\ req[q] \in Request /\ PlaceInv(req[q]) /\ WriteInv(req[q])
                   /\ Claims(q, req[q])
  BY Known DEF ReqInv
<1>2. \A q \in D : req[q].at # "commit"
  BY <1>1 DEF WaitsFor, PlaceInv
<1>3. \A q \in D : ~HoldsSeller(q)
  BY <1>1, <1>2 DEF WriteInv, HoldsSeller, Request
<1>4. \A q \in D : req[q].at \notin {"up", "down"}
  BY <1>1, <1>3 DEF WaitsFor, PlaceInv
<1>5. \A p \in D : req[p].inserts = {}
  BY <1>1, <1>2, <1>4 DEF WriteInv, Request
<1>6. \A p \in D : req[p].deletes # {} => req[p].kind = "unlist"
  BY <1>1, <1>2, <1>4 DEF WriteInv
<1>7. \A q \in D : req[q].at # "delete"
  <2> SUFFICES ASSUME NEW q \in D, req[q].at = "delete" PROVE FALSE
    OBVIOUS
  <2>1. ASSUME NEW x \in D, req[x].at = "delete" PROVE
           \E p \in D : /\ p # x /\ \E f \in req[x].doomed : f \in req[p].deletes
    BY <2>1, <1>1 DEF WaitsFor, PlaceInv
  <2>2. ASSUME NEW x \in D, NEW p \in D, p # x, req[x].kind = "unlist",
               req[x].at = "delete",
               NEW f \in req[x].doomed, f \in req[p].deletes
        PROVE  FALSE
    <3>1. req[p].kind = "unlist"
      BY <2>2, <1>6
    <3>2. f.item.thing = req[x].item.thing /\ f.item.thing = req[p].item.thing
      BY <2>2, <3>1, <1>1 DEF WriteInv
    <3>3. req[x].item.thing \in listed /\ req[x].item.thing \in Products
      BY <2>2, <1>1 DEF Claims, IInv, TypeOK
    <3>4. req[p].at = "delete"
      BY <3>1, <2>2, <1>1, <1>2, <1>4 DEF WriteInv, PlaceInv, Request
    <3>5. Holding(req[x], req[x].item.thing) /\ Holding(req[p], req[x].item.thing)
      BY <2>2, <3>1, <3>2, <3>3, <3>4 DEF Holding
    <3> QED BY <3>3, <3>5, <2>2, <1>1 DEF Claims
  <2>3. PICK p \in D : p # q /\ \E f \in req[q].doomed : f \in req[p].deletes
    BY <2>1
  <2>4. req[p].kind = "unlist"
    BY <2>3, <1>6
  <2>5. req[p].at = "delete"
    BY <2>3, <2>4, <1>1, <1>2, <1>4 DEF WriteInv, PlaceInv, Request
  <2>6. PICK x \in D : x # p /\ \E f \in req[p].doomed : f \in req[x].deletes
    BY <2>1, <2>5
  <2> QED BY <2>2, <2>4, <2>5, <2>6
<1>8. \A p \in D, t \in Products \cup {Store} : ~HoldsProduct(p, t)
  BY <1>2, <1>7 DEF HoldsProduct
<1>9. \A p \in D : req[p].deletes = {}
  BY <1>1, <1>2, <1>6, <1>7 DEF WriteInv, PlaceInv, Request
<1>10. \A q \in D : req[q].at \in {"insert", "lock"}
  BY <1>1, <1>2, <1>4, <1>7 DEF WaitsFor, PlaceInv, Request
<1>11. PICK q \in D, p \in D : WaitsFor(q, p)
  OBVIOUS
<1>12. req[q].item.thing \in Products \cup {Store}
  BY <1>1 DEF Request
<1> QED BY <1>1, <1>5, <1>8, <1>9, <1>10, <1>11, <1>12
        DEF WaitsFor, Inserts, Deletes, PlaceInv

(* For any number of requests, users and products.                         *)
THEOREM TapsNeverDeadlock == Spec => []TapsDoNotDeadlock
BY Invariance, NoTapCycle, PTL

-----------------------------------------------------------------------------
(* The drift of the counter.                                               *)

(* A removal that deletes a row and, at zero, leaves the counter           *)
Skipping(q) == /\ q.kind = "remove" /\ q.at = "commit"
               /\ q.delta = 0 /\ q.deletes # {}
Skippers == {r \in Requests : Skipping(req[r])}

(* Rows inserted, deleted and counted by one transaction                   *)
Books(r, q) ==
    /\ q.deletes \subseteq favorites
    /\ q.inserts \cap favorites = {}
    /\ \A p \in Requests \ {r} : /\ q.deletes \cap req[p].deletes = {}
                                /\ q.inserts \cap req[p].inserts = {}
    /\ q.kind \in {"add", "migrate"} =>
          Cardinality(q.inserts) = q.delta + (IF q.at = "up" THEN 1 ELSE 0)
    /\ q.kind = "remove" => q.deletes = {} \/ \E f \in Favorite : q.deletes = {f}

(* The ids handed out so far *)
Numbered == /\ \A f \in favorites : f.id <= serial
            /\ \A r \in Requests : \A f \in req[r].inserts : f.id <= serial

(* The removals that will not decrement are paid for by earlier decrements *)
Balance ==
    /\ Cardinality(favorites) + cascaded <= count + spurious
    /\ count + Cardinality(Skippers) <= Cardinality(favorites) + cascaded

DriftInv == /\ IsFiniteSet(favorites)
            /\ Numbered
            /\ \A r \in Requests : Books(r, req[r])
            /\ Balance

LEMMA InitDrift == Init => DriftInv
<1> SUFFICES ASSUME Init PROVE DriftInv
  OBVIOUS
<1>1. \A r \in Requests : /\ req[r].kind = "add" /\ req[r].at = "idle"
                         /\ req[r].deletes = {} /\ req[r].inserts = {} /\ req[r].delta = 0
  BY DEF Init, Idle
<1>2. Skippers = {}
  BY <1>1 DEF Skippers, Skipping
<1>3. Cardinality({}) = 0
  BY FS_EmptySet
<1>4. \A r \in Requests : Books(r, req[r])
  BY <1>1, <1>3 DEF Books
<1> QED BY <1>1, <1>2, <1>3, <1>4, FS_EmptySet DEF Init, DriftInv, Numbered, Balance

LEMMA SkippersFinite ==
  /\ IsFiniteSet(Skippers) /\ Cardinality(Skippers) \in Nat
BY RequestsAssumption, FS_Subset, FS_CardinalityType DEF Skippers

(* A statement that writes only into its own transaction.                  *)
LEMMA LocalBooks ==
  ASSUME IInv, DriftInv, NEW r \in Requests, NEW n \in Request, Becomes(r, n),
         UNCHANGED db, serial' \in 0 .. MaxRows, serial <= serial',
         Books(r, n), \A f \in n.inserts : f.id <= serial'
  PROVE  /\ IsFiniteSet(favorites)' /\ Numbered'
         /\ \A p \in Requests : Books(p, req[p])'
<1>1. req' = [req EXCEPT ![r] = n] /\ req \in [Requests -> Request]
  BY Known DEF Becomes
<1>2. req'[r] = n /\ \A p \in Requests \ {r} : req'[p] = req[p]
  BY <1>1
<1>3. favorites' = favorites
  BY DEF db
<1>4. Numbered'
  <2>1. \A f \in Favorite : f.id \in Int
    BY DEF Favorite
  <2>2. /\ favorites \subseteq Favorite /\ serial \in Int
        /\ \A p \in Requests : req[p].inserts \subseteq Favorite
    BY <1>1 DEF IInv, TypeOK, Request
  <2> QED BY <1>2, <1>3, <2>1, <2>2 DEF DriftInv, Numbered
<1>5. ASSUME NEW p \in Requests PROVE Books(p, req[p])'
  BY <1>2, <1>3 DEF Books, DriftInv
<1> QED BY <1>3, <1>4, <1>5 DEF DriftInv

(* ... and is no removal that finds the counter at zero.                   *)
LEMMA LocalDrift ==
  ASSUME IInv, DriftInv, NEW r \in Requests, NEW n \in Request, Becomes(r, n),
         UNCHANGED db, serial' \in 0 .. MaxRows, serial <= serial',
         Books(r, n), \A f \in n.inserts : f.id <= serial',
         Skipping(n) => Skipping(req[r])
  PROVE  DriftInv'
<1>1. /\ IsFiniteSet(favorites)' /\ Numbered'
      /\ \A p \in Requests : Books(p, req[p])'
  BY LocalBooks
<1>2. Skippers' \subseteq Skippers
  BY Known DEF Becomes, Skippers, Skipping
<1>3. Cardinality(Skippers') \in Nat /\ Cardinality(Skippers') <= Cardinality(Skippers)
  BY <1>2, SkippersFinite, FS_Subset, FS_CardinalityType
<1>4. /\ favorites' = favorites /\ count' = count
      /\ cascaded' = cascaded /\ spurious' = spurious
  BY DEF db
<1>5. /\ count \in Nat /\ cascaded \in Nat /\ spurious \in Nat
      /\ Cardinality(favorites) \in Nat /\ Cardinality(Skippers) \in Nat
  BY SkippersFinite, FS_CardinalityType DEF IInv, TypeOK, DriftInv
<1>6. Balance'
  BY <1>3, <1>4, <1>5 DEF Balance, DriftInv
<1> QED BY <1>1, <1>6 DEF DriftInv

LEMMA BlankDrift ==
  ASSUME IInv, DriftInv, NEW r \in Requests, NEW n, Blank(n), Becomes(r, n),
         UNCHANGED <<db, serial>>
  PROVE  DriftInv'
<1>1. n \in Request /\ ~Skipping(n) /\ n.inserts = {}
  BY DEF Blank, Skipping
<1>2. Books(r, n)
  BY FS_EmptySet DEF Blank, Books
<1>3. serial' \in 0 .. MaxRows /\ serial <= serial'
  BY DEF IInv, TypeOK
<1> QED BY <1>1, <1>2, <1>3, LocalDrift

LEMMA EndDrift ==
  ASSUME IInv, DriftInv, NEW r \in Requests,
         Reread(r) \/ Abort(r) \/ DeadlockVictim(r) \/ Respond(r)
  PROVE  DriftInv'
BY EndShape, BlankDrift

LEMMA ArrivalsDrift ==
  ASSUME IInv, DriftInv, NEW r \in Requests, Arrivals(r), IInv'
  PROVE  DriftInv'
<1> DEFINE n == req'[r]
<1>1. PICK k, place, i, items, rows : Arrive(r, k, place, i, items, rows)
  BY DEF Arrivals, AddFavorite, RemoveFavorite, MigrateGuest, Unlist, Leave
<1>2. /\ n.inserts = {} /\ n.deletes = {} /\ n.delta = 0
      /\ Becomes(r, n) /\ UNCHANGED <<db, serial>>
  BY <1>1, Known DEF Arrive, Becomes, Idle
<1>3. n.at # "up"
  BY Known DEF Arrivals, AddFavorite, RemoveFavorite, MigrateGuest, Unlist, Leave,
     Arrive, Becomes, Idle
<1>4. n \in Request
  BY DEF IInv, TypeOK, Request
<1> HIDE DEF n
<1>5. Books(r, n)
  BY <1>2, <1>3, FS_EmptySet DEF Books
<1>6. serial' \in 0 .. MaxRows /\ serial <= serial'
  BY <1>2 DEF IInv, TypeOK
<1> QED BY <1>2, <1>4, <1>5, <1>6, LocalDrift DEF Skipping

(* The statements that change neither inserts nor deletes nor delta        *)
LEMMA ReadDrift ==
  ASSUME IInv, DriftInv, NEW r \in Requests, NEW n \in Request, Becomes(r, n),
         UNCHANGED <<db, serial>>,
         n.kind = req[r].kind, n.inserts = req[r].inserts, n.deletes = req[r].deletes,
         n.delta = req[r].delta, n.at # "up", req[r].at # "up",
         n.kind # "remove"
  PROVE  DriftInv'
<1>1. ~Skipping(n)
  BY DEF Skipping
<1>2. Books(r, n)
  BY DEF DriftInv, Books
<1>3. serial' \in 0 .. MaxRows /\ serial <= serial'
  BY DEF IInv, TypeOK
<1>4. \A f \in n.inserts : f.id <= serial'
  BY DEF DriftInv, Numbered
<1> QED BY <1>1, <1>2, <1>3, <1>4, LocalDrift

LEMMA CheckItemDrift ==
  ASSUME IInv, DriftInv, NEW r \in Requests, CheckItem(r)
  PROVE  DriftInv'
<1>1. req[r].at = "check" /\ req[r].kind # "remove"
  BY Known DEF CheckItem, ReqInv, PlaceInv
<1> QED BY <1>1, CheckItemShape, ReadDrift

LEMMA LockProductDrift ==
  ASSUME IInv, DriftInv, IInv', NEW r \in Requests, LockProduct(r)
  PROVE  DriftInv'
<1> DEFINE q == req[r]
           n == req'[r]
<1>1. q \in Request /\ q.at # "up" /\ q.kind # "remove"
  BY Known DEF LockProduct, Step, ReqInv, PlaceInv
<1>2. /\ n.kind = q.kind /\ n.inserts = q.inserts /\ n.deletes = q.deletes
      /\ n.delta = q.delta /\ n.at # "up"
  BY <1>1, Known DEF LockProduct, Becomes, Request
<1>3. Becomes(r, n) /\ UNCHANGED <<db, serial>>
  BY Known DEF LockProduct, Becomes
<1>4. n \in Request
  BY DEF IInv, TypeOK, Request
<1> HIDE DEF n
<1> QED BY <1>1, <1>2, <1>3, <1>4, ReadDrift

LEMMA BumpUpDrift ==
  ASSUME IInv, DriftInv, IInv', NEW r \in Requests, BumpUp(r)
  PROVE  DriftInv'
<1> DEFINE q == req[r]
           n == req'[r]
<1>1. q \in Request /\ PlaceInv(q) /\ Books(r, q)
  BY Known DEF ReqInv, DriftInv
<1>2. q.at = "up" /\ q.kind \in {"add", "migrate"}
  BY <1>1 DEF BumpUp, Step, PlaceInv
<1>3. /\ n.kind = q.kind /\ n.inserts = q.inserts /\ n.deletes = q.deletes
      /\ n.delta = q.delta + 1 /\ n.at # "up"
  BY <1>1, Known DEF BumpUp, Bumped, Becomes, Request
<1>4. Becomes(r, n) /\ UNCHANGED <<db, serial>>
  BY Known DEF BumpUp, Becomes
<1>5. n \in Request
  BY DEF IInv, TypeOK, Request
<1>6. Cardinality(q.inserts) = q.delta + 1 /\ q.delta \in Int
  BY <1>1, <1>2 DEF Books, Request
<1> HIDE DEF n
<1>7. ~Skipping(n) /\ \A f \in n.inserts : f.id <= serial'
  BY <1>2, <1>3, <1>4 DEF Skipping, DriftInv, Numbered
<1>8. Books(r, n)
  BY <1>1, <1>2, <1>3, <1>6 DEF Books
<1>9. serial' \in 0 .. MaxRows /\ serial <= serial'
  BY <1>4 DEF IInv, TypeOK
<1> QED BY <1>4, <1>5, <1>7, <1>8, <1>9, LocalDrift

LEMMA InsertFavoriteDrift ==
  ASSUME IInv, DriftInv, IInv', NEW r \in Requests, InsertFavorite(r)
  PROVE  DriftInv'
<1> DEFINE q == req[r]
           n == req'[r]
           f == [id |-> serial + 1, item |-> q.item]
<1>1. q \in Request /\ PlaceInv(q) /\ WriteInv(q) /\ Books(r, q)
  BY Known DEF ReqInv, DriftInv
<1>2. q.at = "insert" /\ q.kind \in {"add", "migrate"}
  BY <1>1 DEF InsertFavorite, Step, PlaceInv
<1>3. CASE Conflict(r)
  <2> DEFINE m == [Idle EXCEPT !.kind = q.kind, !.item = q.item,
                               !.at = IF q.kind = "add" THEN "reread" ELSE "failed"]
  <2>1. Becomes(r, m) /\ UNCHANGED <<db, serial>>
    BY <1>3 DEF Conflict
  <2>2. Blank(m)
    BY <1>1, BlankAnswer
  <2> HIDE DEF m
  <2> QED BY <2>1, <2>2, BlankDrift
<1>4. CASE ~Conflict(r)
  <2>1. /\ n.kind = q.kind /\ n.inserts = q.inserts \cup {f} /\ n.deletes = q.deletes
        /\ n.delta = q.delta /\ n.at = "up"
    <3> DEFINE m == [q EXCEPT !.at = "up", !.inserts = q.inserts \cup {f}]
    <3>1. Becomes(r, m)
      BY <1>4 DEF InsertFavorite
    <3>2. n = m
      BY <3>1, Known DEF Becomes
    <3> QED BY <3>2, <1>1 DEF Request
  <2>2. Becomes(r, n) /\ UNCHANGED db /\ serial' = serial + 1
    BY <1>4, Known DEF InsertFavorite, Becomes
  <2>3. n \in Request /\ serial' \in 0 .. MaxRows
    BY DEF IInv, TypeOK, Request
  <2>4. serial \in Int /\ serial <= serial' /\ f.id = serial + 1 /\ ~(f.id <= serial)
    BY <2>2 DEF IInv, TypeOK
  <2> HIDE DEF n, f
  <2>5. \A g \in n.inserts : g.id <= serial'
    <3>1. \A g \in q.inserts : g.id \in Int /\ g.id <= serial
      BY <1>1 DEF DriftInv, Numbered, Request, Favorite
    <3> QED BY <3>1, <2>1, <2>2, <2>4
  <2>6. f \notin favorites /\ \A p \in Requests : f \notin req[p].inserts
    BY <2>4 DEF DriftInv, Numbered
  <2>7. Cardinality(n.inserts) = Cardinality(q.inserts) + 1
    BY <1>1, <2>1, <2>6, FS_AddElement DEF WriteInv
  <2>8. Books(r, n)
    BY <1>1, <1>2, <2>1, <2>6, <2>7 DEF Books, Request
  <2> QED BY <2>1, <2>2, <2>3, <2>4, <2>5, <2>8, LocalDrift DEF Skipping
<1> QED BY <1>3, <1>4

LEMMA DeleteRowDrift ==
  ASSUME IInv, DriftInv, IInv', NEW r \in Requests, DeleteRow(r)
  PROVE  DriftInv'
<1> DEFINE q == req[r]
           n == req'[r]
<1>1. q \in Request /\ PlaceInv(q) /\ WriteInv(q) /\ Books(r, q)
  BY Known DEF ReqInv, DriftInv
<1>2. q.at = "delete" /\ q.kind \in {"remove", "unlist", "leave"}
  BY <1>1 DEF DeleteRow, PlaceInv
<1>3. PICK f \in q.doomed :
        /\ \A p \in Requests \ {r} : f \notin req[p].deletes
        /\ n.kind = q.kind /\ n.inserts = q.inserts /\ n.delta = q.delta
        /\ n.deletes = q.deletes \cup ({f} \cap favorites)
        /\ q.kind = "remove" => n.at # "commit"
  BY <1>1, Known DEF DeleteRow, Becomes, Request
<1>4. Becomes(r, n) /\ UNCHANGED <<db, serial>>
  BY Known DEF DeleteRow, Becomes
<1>5. n \in Request /\ f \in Favorite
  BY <1>1 DEF IInv, TypeOK, Request
<1> HIDE DEF n
<1>6. ~Skipping(n) /\ \A g \in n.inserts : g.id <= serial'
  BY <1>3, <1>4 DEF Skipping, DriftInv, Numbered
<1>7. Books(r, n)
  <2>1. q.kind = "remove" => q.deletes = {}
    BY <1>1, <1>2 DEF WriteInv
  <2>2. n.kind = "remove" => n.deletes = {} \/ n.deletes = {f}
    BY <2>1, <1>3
  <2> QED BY <1>1, <1>2, <1>3, <1>5, <2>2 DEF Books
<1>8. serial' \in 0 .. MaxRows /\ serial <= serial'
  BY <1>4 DEF IInv, TypeOK
<1> QED BY <1>4, <1>5, <1>6, <1>7, <1>8, LocalDrift

(* Nonempty, pairwise disjoint subsets of a finite set are no more than    *)
(* its elements.                                                           *)
LEMMA DisjointSubsets ==
  ASSUME NEW S, NEW T, IsFiniteSet(T), NEW d \in [S -> SUBSET T],
         \A x \in S : d[x] # {},
         \A x, y \in S : x # y => d[x] \cap d[y] = {}
  PROVE  Cardinality(S) <= Cardinality(T)
<1> DEFINE pick == [x \in S |-> CHOOSE t : t \in d[x]]
<1>1. \A x \in S : pick[x] \in d[x]
  OBVIOUS
<1>2. pick \in [S -> T]
  BY <1>1
<1> HIDE DEF pick
<1>3. \A x, y \in S : pick[x] = pick[y] => x = y
  BY <1>1
<1>4. pick \in Injection(S, T)
  BY <1>2, <1>3 DEF Injection, IsInjective
<1> QED BY <1>4, FS_Injection

LEMMA BumpDownDrift ==
  ASSUME IInv, DriftInv, IInv', NEW r \in Requests, BumpDown(r)
  PROVE  DriftInv'
<1> DEFINE q == req[r]
           n == req'[r]
<1>1. q \in Request /\ PlaceInv(q) /\ WriteInv(q) /\ Books(r, q)
  BY Known DEF ReqInv, DriftInv
<1>2. q.at = "down" /\ q.kind = "remove"
  BY <1>1 DEF BumpDown, Step, PlaceInv
<1>3. /\ n.kind = q.kind /\ n.inserts = q.inserts /\ n.deletes = q.deletes
      /\ n.delta = Decrement /\ n.at = "commit"
  BY <1>1, Known DEF BumpDown, Becomes, Request
<1>4. Becomes(r, n) /\ UNCHANGED <<db, serial>>
  BY Known DEF BumpDown, Becomes
<1>5. n \in Request
  BY DEF IInv, TypeOK, Request
<1> HIDE DEF n
<1>6. \A f \in n.inserts : f.id <= serial'
  BY <1>3, <1>4 DEF DriftInv, Numbered
<1>7. Books(r, n)
  BY <1>1, <1>2, <1>3 DEF Books
<1>8. serial' \in 0 .. MaxRows /\ serial <= serial'
  BY <1>4 DEF IInv, TypeOK
<1>9. CASE count > 0
  <2>1. ~Skipping(n)
    BY <1>3, <1>9 DEF Skipping, Decrement
  <2> QED BY <1>4, <1>5, <1>6, <1>7, <1>8, <2>1, LocalDrift
<1>10. CASE ~(count > 0)
  <2>1. count = 0
    BY <1>10 DEF IInv, TypeOK
  <2>2. /\ IsFiniteSet(favorites)' /\ Numbered'
        /\ \A p \in Requests : Books(p, req[p])'
    BY <1>4, <1>5, <1>6, <1>7, <1>8, LocalBooks
  <2>3. Cardinality(Skippers') <= Cardinality(favorites')
    <3> DEFINE S == Skippers'
               T == favorites'
               d == [p \in S |-> req'[p].deletes]
    <3>1. \A p \in S : p \in Requests /\ req'[p].deletes # {}
      BY DEF Skippers, Skipping
    <3>2. \A p \in S : Books(p, req[p])'
      BY <2>2, <3>1
    <3>3. d \in [S -> SUBSET T] /\ \A p \in S : d[p] # {}
      BY <3>1, <3>2 DEF Books
    <3>4. \A p, x \in S : p # x => d[p] \cap d[x] = {}
      BY <3>1, <3>2 DEF Books
    <3>5. IsFiniteSet(T)
      BY <2>2
    <3> HIDE DEF S, T, d
    <3>6. Cardinality(S) <= Cardinality(T)
      BY <3>3, <3>4, <3>5, DisjointSubsets
    <3> QED BY <3>6 DEF S, T
  <2>4. IsFiniteSet(Skippers') /\ Cardinality(Skippers') \in Nat
    BY RequestsAssumption, FS_Subset, FS_CardinalityType DEF Skippers
  <2>5. /\ favorites' = favorites /\ count' = count
        /\ cascaded' = cascaded /\ spurious' = spurious
    BY <1>4 DEF db
  <2>6. cascaded \in Nat /\ spurious \in Nat /\ Cardinality(favorites) \in Nat
    BY FS_CardinalityType DEF IInv, TypeOK, DriftInv
  <2>7. Balance'
    BY <2>1, <2>3, <2>4, <2>5, <2>6 DEF Balance, DriftInv
  <2> QED BY <2>2, <2>7 DEF DriftInv
<1> QED BY <1>9, <1>10

LEMMA CommitDrift ==
  ASSUME IInv, DriftInv, IInv', NEW r \in Requests, Commit(r)
  PROVE  DriftInv'
<1> DEFINE q == req[r]
           rows == Cardinality(favorites)
           ins == Cardinality(q.inserts)
           del == Cardinality(q.deletes)
           skip == IF Skipping(q) THEN 1 ELSE 0
<1>1. q \in Request /\ PlaceInv(q) /\ WriteInv(q) /\ Books(r, q)
  BY Known DEF ReqInv, DriftInv
<1>2. q.at = "commit"
  BY DEF Commit, Step
<1>3. req'[r] = Idle /\ \A p \in Requests \ {r} : req'[p] = req[p]
  BY Known DEF Commit, Becomes
<1>4. favorites' = (favorites \ q.deletes) \cup q.inserts
  BY DEF Commit
<1>5. IsFiniteSet(favorites') /\ Cardinality(favorites') = rows - del + ins
  <2>1. /\ IsFiniteSet(favorites) /\ IsFiniteSet(q.deletes) /\ IsFiniteSet(q.inserts)
        /\ favorites \cap q.deletes = q.deletes
    BY <1>1 DEF DriftInv, WriteInv, Books
  <2>2. /\ IsFiniteSet(favorites \ q.deletes)
        /\ Cardinality(favorites \ q.deletes) = rows - del
    BY <2>1, FS_Difference
  <2>3. (favorites \ q.deletes) \cap q.inserts = {}
    BY <1>1 DEF Books
  <2>4. Cardinality(favorites') = (rows - del) + ins - 0
    BY <2>1, <2>2, <2>3, <1>4, FS_Union, FS_EmptySet
  <2>5. rows \in Nat /\ del \in Nat /\ ins \in Nat
    BY <2>1, FS_CardinalityType
  <2>6. IsFiniteSet(favorites')
    BY <2>1, <2>2, <1>4, FS_Union
  <2> QED BY <2>4, <2>5, <2>6
<1>6. Numbered'
  <2>1. serial' = serial /\ Idle.inserts = {}
    BY DEF Commit, Idle
  <2> QED BY <2>1, <1>3, <1>4 DEF DriftInv, Numbered
<1>7. ASSUME NEW p \in Requests PROVE Books(p, req[p])'
  <2>1. CASE p = r
    <3>1. /\ Idle.kind = "add" /\ Idle.at = "idle" /\ Idle.delta = 0
          /\ Idle.inserts = {} /\ Idle.deletes = {}
      BY DEF Idle
    <3> QED BY <2>1, <3>1, <1>3, FS_EmptySet DEF Books
  <2>2. CASE p # r
    <3>1. Books(p, req[p]) /\ req'[p] = req[p]
      BY <2>2, <1>3 DEF DriftInv
    <3>2. Idle.inserts = {} /\ Idle.deletes = {}
      BY DEF Idle
    <3>3. req[p].deletes \cap q.deletes = {} /\ req[p].inserts \cap q.inserts = {}
      BY <2>2, <3>1 DEF Books
    <3> QED BY <2>2, <3>1, <3>2, <3>3, <1>3, <1>4 DEF Books
  <2> QED BY <2>1, <2>2
<1>8. Cardinality(Skippers') = Cardinality(Skippers) - skip
  <2>1. ~Skipping(Idle)
    BY DEF Idle, Skipping
  <2>2. Skippers' = Skippers \ {r}
    BY <2>1, <1>3 DEF Skippers, Skipping
  <2>3. r \in Skippers <=> Skipping(q)
    BY DEF Skippers
  <2>4. Cardinality(Skippers \ {r}) =
           IF r \in Skippers THEN Cardinality(Skippers) - 1 ELSE Cardinality(Skippers)
    BY SkippersFinite, FS_RemoveElement
  <2>5. Cardinality(Skippers) \in Nat
    BY SkippersFinite
  <2> QED BY <2>2, <2>3, <2>4, <2>5
<1>9. /\ rows \in Nat /\ ins \in Nat /\ del \in Nat /\ Cardinality(Skippers) \in Nat
      /\ count \in Nat /\ cascaded \in Nat /\ spurious \in Nat /\ q.delta \in Int
  BY <1>1, SkippersFinite, FS_CardinalityType DEF IInv, TypeOK, DriftInv, WriteInv, Request
<1>10. /\ count' = count + q.delta
       /\ cascaded' = IF q.kind \in {"unlist", "leave"} THEN cascaded + del ELSE cascaded
       /\ spurious' = IF q.delta = -1 /\ q.deletes = {} THEN spurious + 1 ELSE spurious
  BY DEF Commit
<1>11. Balance
  BY DEF DriftInv
<1>12. Balance'
  <2>1. CASE q.kind \in {"add", "migrate"}
    <3>1. q.deletes = {} /\ del = 0 /\ ins = q.delta /\ skip = 0 /\ q.delta >= 0
      BY <2>1, <1>1, <1>2, <1>9, FS_EmptySet DEF WriteInv, Books, Skipping
    <3>2. cascaded' = cascaded /\ spurious' = spurious
      BY <2>1, <3>1, <1>9, <1>10
    <3> HIDE DEF rows, ins, del, skip
    <3> QED BY <3>1, <3>2, <1>5, <1>8, <1>9, <1>10, <1>11 DEF Balance, rows
  <2>2. CASE q.kind \in {"unlist", "leave"}
    <3>1. q.inserts = {} /\ ins = 0 /\ q.delta = 0 /\ skip = 0
      BY <2>2, <1>1, FS_EmptySet DEF WriteInv, Skipping
    <3>2. cascaded' = cascaded + del /\ spurious' = spurious
      BY <2>2, <3>1, <1>10
    <3> HIDE DEF rows, ins, del, skip
    <3> QED BY <3>1, <3>2, <1>5, <1>8, <1>9, <1>10, <1>11 DEF Balance, rows
  <2>3. CASE q.kind = "remove"
    <3>1. q.inserts = {} /\ ins = 0 /\ cascaded' = cascaded /\ q.delta \in {0, -1}
      BY <2>3, <1>1, <1>10, FS_EmptySet DEF WriteInv
    <3>2. CASE q.deletes = {}
      <4>1. del = 0 /\ skip = 0
        BY <3>2, FS_EmptySet DEF Skipping
      <4>2. spurious' = IF q.delta = -1 THEN spurious + 1 ELSE spurious
        BY <3>2, <1>10
      <4> HIDE DEF rows, ins, del, skip
      <4> QED BY <3>1, <4>1, <4>2, <1>5, <1>8, <1>9, <1>10, <1>11 DEF Balance, rows
    <3>3. CASE q.deletes # {}
      <4>1. PICK f \in Favorite : q.deletes = {f}
        BY <3>3, <2>3, <1>1 DEF Books
      <4>2. del = 1 /\ spurious' = spurious
        BY <4>1, <3>3, <1>10, FS_Singleton
      <4>3. skip = IF q.delta = 0 THEN 1 ELSE 0
        BY <2>3, <3>3, <1>2 DEF Skipping
      <4> HIDE DEF rows, ins, del, skip
      <4> QED BY <3>1, <4>2, <4>3, <1>5, <1>8, <1>9, <1>10, <1>11 DEF Balance, rows
    <3> QED BY <3>2, <3>3
  <2> QED BY <2>1, <2>2, <2>3, <1>1 DEF Request
<1> QED BY <1>5, <1>6, <1>7, <1>12 DEF DriftInv

LEMMA NextDrift == IInv /\ DriftInv /\ [Next]_vars => DriftInv'
<1> SUFFICES ASSUME IInv, DriftInv, [Next]_vars PROVE DriftInv'
  OBVIOUS
<1>0. IInv'
  BY NextInv
<1>1. CASE UNCHANGED vars
  BY <1>1 DEF vars, DriftInv, Numbered, Books, Balance, Skippers, Skipping
<1>2. ASSUME NEW r \in Requests, Arrivals(r) PROVE DriftInv'
  BY <1>0, <1>2, ArrivalsDrift
<1>3. ASSUME NEW r \in Requests, Advance(r) PROVE DriftInv'
  BY <1>0, <1>3, CheckItemDrift, InsertFavoriteDrift, BumpUpDrift, BumpDownDrift,
     LockProductDrift, DeleteRowDrift, CommitDrift, EndDrift DEF Advance
<1>4. ASSUME NEW r \in Requests, Abort(r) \/ DeadlockVictim(r) PROVE DriftInv'
  BY <1>4, EndDrift
<1> QED BY <1>1, <1>2, <1>3, <1>4 DEF Next, Quiet

(* However many requests run, however they interleave and abort, the       *)
(* counter is off by no more than what cascades and lost removals explain. *)
THEOREM DriftIsExplained == Spec => []DriftExplained
<1>1. IInv /\ DriftInv => DriftExplained
  <2> SUFFICES ASSUME IInv, DriftInv PROVE DriftExplained
    OBVIOUS
  <2>1. /\ Cardinality(favorites) \in Nat /\ Cardinality(Skippers) \in Nat
        /\ count \in Nat /\ cascaded \in Nat /\ spurious \in Nat
    BY SkippersFinite, FS_CardinalityType DEF IInv, TypeOK, DriftInv
  <2> QED BY <2>1 DEF DriftExplained, DriftInv, Balance
<1>2. Init => DriftInv
  BY InitDrift
<1>3. IInv /\ DriftInv /\ [Next]_vars => DriftInv'
  BY NextDrift
<1> QED BY <1>1, <1>2, <1>3, Invariance, PTL DEF Spec

=============================================================================
