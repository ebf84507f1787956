----------------------- MODULE RefreshSessionsProofs -----------------------
(***************************************************************************)
(* Safety of RefreshSessions for every number of requests, tokens and      *)
(* sessions.  All theorems but the last come from one inductive invariant, *)
(* IInv: the row locks are exclusive and cover every uncommitted write, a  *)
(* row being inserted is known to its transaction only, and a refresh      *)
(* holds the lock of the live token it replaces from its SELECT FOR UPDATE *)
(* to its commit.  The cap on sessions has a second one on top of it,      *)
(* Bounded.                                                                *)
(***************************************************************************)
EXTENDS RefreshSessions, TLAPS, FiniteSetTheorems

(* The row a transaction has inserted and not yet committed                *)
OwnRow(q) == {t \in Token : t = q.new /\ row[t] = "pending"}

(* Rows a transaction may lock: committed ones, its own, the users row     *)
Reach(q) == {UserRow} \cup Committed \cup OwnRow(q)

(* Ids handed out so far, each to one transaction                          *)
Fresh == \A t \in Token : t > clock => row[t] = "none"
OwnIds == \A r, p \in Requests :
              r # p /\ req[r].new \in Token => req[p].new # req[r].new
IdInv(q) ==
    /\ q.new <= clock
    /\ q.new \in Token => row[q.new] \in {"none", "pending"}

(* Row locks are exclusive, and cover what a transaction has written       *)
Exclusive == \A r, p \in Requests : r # p => req[r].held \cap req[p].held = {}
LockInv(q) ==
    /\ q.held \subseteq Reach(q)
    /\ q.todo \subseteq Reach(q)
    /\ q.revokes \subseteq q.held

(* What holds at each statement of a handler                               *)
PlaceInv(q) ==
    /\ q.at \in {"lock", "prune", "flush", "insert"} =>
          /\ q.new \in Token
          /\ row[q.new] = "none"
          /\ q.kind \in {"login", "refresh"}
    /\ q.at = "lock" => /\ q.token \in Committed
                        /\ q.kind = "refresh"
                        /\ q.revokes = {}
    /\ q.at \in {"flush", "revoke", "sweep"} => q.todo \subseteq Token
    /\ q.at \in {"attach", "touch", "describe"} =>
          /\ q.kind = "login"
          /\ q.new \in OwnRow(q)
    /\ q.at \in {"touch", "describe"} =>
          /\ q.token \in Reach(q) \cap Token
          /\ q.token >= q.new
    /\ q.at = "commit" /\ q.kind = "login" =>
          /\ q.token \in Token
          /\ q.token >= q.new
    /\ q.at = "status" => q.kind = "refresh"
    /\ q.at \in {"revoke", "sweepStart", "sweep", "user"} =>
          q.kind \notin {"login", "refresh"}
    /\ q.at \in {"idle", "ok", "refused"} =>
          /\ q.new = NoToken
          /\ q.held = {}
    /\ q.at = "attach" => q.new \notin q.revokes
    /\ q.at \in {"idle", "prune", "insert", "attach", "status", "sweepStart",
                "commit", "rollback", "ok", "refused"} => q.todo = {}
    /\ q.at = "user" => q.todo \subseteq {UserRow}

(* Lineage of tokens: what a transaction that issues one knows of it       *)
Lineage == \A t \in Committed : family[t] \in Committed
FamilyInv(q) ==
    /\ q.at = "rollback" => OwnRow(q) = {}
    /\ OwnRow(q) # {} => q.kind \in {"login", "refresh", "blocked"}
    /\ \A t \in OwnRow(q) :
          /\ q.kind = "login" => family[t] = t
          /\ q.kind # "login" => family[t] = family[q.token]
    /\ /\ q.kind \in {"refresh", "blocked"}
       /\ q.at \notin {"lock", "rollback", "ok", "refused"}
       => /\ q.token \in q.revokes
          /\ row[q.token] = "live"

(* What a transaction that revokes everything has done so far              *)
SweepInv(q) ==
    /\ q.at = "sweep" => q.swept \subseteq q.todo \cup q.revokes
    /\ q.at \in {"user", "commit"} => q.swept \subseteq q.revokes
    /\ q.at = "user" /\ q.kind # "delete" => q.swept = {}
    /\ q.at \notin {"sweep", "user", "commit", "rollback", "ok", "refused"} =>
          q.swept = {}
    /\ q.at = "rollback" => q.kind \notin Sweeping
    /\ /\ q.at \in {"ok", "refused"}
       /\ q.kind \in Sweeping
       => \A t \in q.swept : row[t] = "revoked"

ReqInv(q) == /\ IdInv(q) /\ LockInv(q) /\ PlaceInv(q) /\ FamilyInv(q)
             /\ SweepInv(q)

IInv == /\ TypeOK
        /\ Fresh
        /\ Exclusive
        /\ Lineage
        /\ OwnIds
        /\ \A r \in Requests : ReqInv(req[r])
        /\ OneLivePerLogin
        /\ DeviceNotNewer

-----------------------------------------------------------------------------

(* The record of a request *)
Request == [kind : Kind, at : Location, token : 0 .. MaxTokens,
            new : 0 .. MaxTokens, todo : SUBSET Row, held : SUBSET Row,
            revokes : SUBSET Token, swept : SUBSET Token]

(* The initial states satisfy the invariant.                               *)
LEMMA InitInv == Init => IInv
<1> SUFFICES ASSUME Init PROVE IInv
  OBVIOUS
<1> USE MaxTokensAssumption DEF Init, Idle, Token, NoToken, UserRow, Row
<1>1. TypeOK
  BY DEF TypeOK, Kind, AdminKind, Location
<1>2. Fresh /\ Exclusive /\ OwnIds
  BY DEF Fresh, Exclusive, OwnIds
<1>3. Lineage /\ OneLivePerLogin /\ DeviceNotNewer
  BY DEF Lineage, OneLivePerLogin, DeviceNotNewer, Committed, Live
<1>4. ReqInv(Idle)
  <2>1. IdInv(Idle) /\ LockInv(Idle) /\ PlaceInv(Idle)
    BY DEF IdInv, LockInv, PlaceInv, Reach
  <2>2. OwnRow(Idle) = {}
    BY DEF OwnRow
  <2>3. FamilyInv(Idle) /\ SweepInv(Idle)
    BY <2>2 DEF FamilyInv, SweepInv, Sweeping
  <2> QED BY <2>1, <2>3 DEF ReqInv
<1> QED BY <1>1, <1>2, <1>3, <1>4 DEF IInv

LEMMA IdleRequest == Idle \in Request
BY MaxTokensAssumption DEF Idle, Request, Kind, Location, NoToken

(* What the invariant says of one request, spelt out for the steps below.  *)
LEMMA Known ==
  ASSUME IInv, NEW r \in Requests
  PROVE  /\ req \in [Requests -> Request]
         /\ req[r] \in Request
         /\ ReqInv(req[r])
BY DEF IInv, TypeOK, Request

(* A statement that writes only into its own transaction: nothing another  *)
(* request's part of the invariant speaks of has changed.                  *)
LEMMA PrivateStep ==
  ASSUME IInv,
         NEW r \in Requests,
         UNCHANGED <<db, clock>>,
         NEW n \in Request,
         req' = [req EXCEPT ![r] = n],
         n.new = req[r].new \/ n.new = NoToken,
         \A p \in Requests \ {r} : n.held \cap req[p].held = {},
         ReqInv(n)
  PROVE  IInv'
<1>1. req \in [Requests -> Request] /\ req' \in [Requests -> Request]
  BY DEF IInv, TypeOK, Request
<1>2. /\ req'[r] = n
      /\ \A p \in Requests \ {r} : req'[p] = req[p]
  BY <1>1
<1>3. TypeOK'
  BY <1>1 DEF IInv, TypeOK, Request, db
<1>4. Committed' = Committed /\ Live' = Live
  BY DEF Committed, Live, db
<1>5. Fresh' /\ Lineage' /\ OneLivePerLogin' /\ DeviceNotNewer'
  BY <1>4 DEF IInv, Fresh, Lineage, OneLivePerLogin, DeviceNotNewer, db
<1>6. Exclusive' /\ OwnIds'
  BY <1>2 DEF IInv, Exclusive, OwnIds, NoToken, Token
<1>7. ASSUME NEW p \in Requests PROVE ReqInv(req[p])'
  <2>1. ReqInv(req'[p])
    BY <1>2 DEF IInv
  <2>2. OwnRow(req[p])' = OwnRow(req'[p]) /\ Reach(req[p])' = Reach(req'[p])
    BY <1>4 DEF OwnRow, Reach, db
  <2> QED
    BY <2>1, <2>2, <1>4
    DEF ReqInv, IdInv, LockInv, PlaceInv, FamilyInv, SweepInv, db
<1> QED BY <1>3, <1>5, <1>6, <1>7 DEF IInv

LEMMA ArriveInv ==
  ASSUME IInv, NEW r \in Requests, NEW k \in Kind, NEW place \in Location,
         NEW t \in 0 .. MaxTokens, NEW rows \in SUBSET Row,
         Arrive(r, k, place, t, rows),
         place \in {"revoke", "sweepStart", "user"},
         k \notin {"login", "refresh", "blocked"},
         rows \subseteq {UserRow} \cup Committed,
         place = "revoke" => rows \subseteq Token,
         place = "user" => rows = {UserRow},
         place = "sweepStart" => rows = {}
  PROVE  IInv'
<1> DEFINE n == [Idle EXCEPT !.kind = k, !.at = place, !.token = t, !.todo = rows]
<1>1. n \in Request
  BY IdleRequest DEF Request
<1>2. UNCHANGED <<db, clock>> /\ req' = [req EXCEPT ![r] = n]
  BY DEF Arrive, Becomes
<1>3. n.new = NoToken /\ n.held = {} /\ OwnRow(n) = {}
  BY DEF Idle, OwnRow, NoToken, Token
<1>4. IdInv(n) /\ LockInv(n)
  BY <1>1, <1>3 DEF IInv, TypeOK, IdInv, LockInv, Idle, Reach, NoToken, Token
<1>5. PlaceInv(n) /\ FamilyInv(n) /\ SweepInv(n)
  BY <1>3 DEF PlaceInv, FamilyInv, SweepInv, Idle
<1> QED
  BY <1>1, <1>2, <1>3, <1>4, <1>5, PrivateStep DEF ReqInv

LEMMA LockPresentedInv ==
  ASSUME IInv, NEW r \in Requests, LockPresented(r) PROVE IInv'
<1> DEFINE q == req[r]
           t == q.token
           reuse == [q EXCEPT !.kind = "reuse", !.todo = {},
                              !.at = "sweepStart", !.held = {t}]
           rotate == [q EXCEPT !.at = "prune", !.todo = {},
                               !.held = {t}, !.revokes = {t}]
           expired == [q EXCEPT !.at = "rollback", !.todo = {}, !.held = {t}]
<1>1. q \in Request /\ ReqInv(q) /\ q.at = "lock"
  BY Known DEF LockPresented
<1>2. t \in Committed /\ t \in Token /\ q.kind = "refresh" /\ OwnRow(q) = {}
  BY <1>1 DEF ReqInv, PlaceInv, Committed, OwnRow
<1>3. /\ reuse \in Request /\ rotate \in Request /\ expired \in Request
      /\ OwnRow(reuse) = {} /\ OwnRow(rotate) = {} /\ OwnRow(expired) = {}
      /\ reuse.new = q.new /\ rotate.new = q.new /\ expired.new = q.new
      /\ reuse.held = {t} /\ rotate.held = {t} /\ expired.held = {t}
  BY <1>1, <1>2 DEF Request, Kind, Location, Row, OwnRow
<1>4. \A p \in Requests \ {r} : {t} \cap req[p].held = {}
  BY DEF LockPresented, PresentedLocked, Free, Blocks
<1>5. ReqInv(reuse)
  BY <1>1, <1>2, <1>3
  DEF ReqInv, IdInv, LockInv, PlaceInv, FamilyInv, SweepInv, Reach, Request
<1>6. ReqInv(expired)
  BY <1>1, <1>2, <1>3
  DEF ReqInv, IdInv, LockInv, PlaceInv, FamilyInv, SweepInv, Sweeping, Reach, Request
<1>7. row[t] = "live" => ReqInv(rotate)
  BY <1>1, <1>2, <1>3
  DEF ReqInv, IdInv, LockInv, PlaceInv, FamilyInv, SweepInv, Reach, Request
<1>8. UNCHANGED <<db, clock>>
  BY DEF LockPresented
<1> HIDE DEF reuse, rotate, expired
<1>9. CASE req' = [req EXCEPT ![r] = reuse]
  BY <1>3, <1>4, <1>5, <1>8, <1>9, PrivateStep
<1>10. CASE req' = [req EXCEPT ![r] = expired]
  BY <1>3, <1>4, <1>6, <1>8, <1>10, PrivateStep
<1>11. CASE row[t] = "live" /\ req' = [req EXCEPT ![r] = rotate]
  <2>1. ReqInv(rotate) /\ req' = [req EXCEPT ![r] = rotate]
    BY <1>7, <1>11
  <2> QED BY <2>1, <1>3, <1>4, <1>8, PrivateStep
<1> QED
  BY <1>9, <1>10, <1>11 DEF LockPresented, Becomes, reuse, rotate, expired

LEMMA PruneSelectInv ==
  ASSUME IInv, NEW r \in Requests, PruneSelect(r) PROVE IInv'
<1> DEFINE q == req[r]
           n == [q EXCEPT !.at = IF Stale(r) = {} THEN "insert" ELSE "flush",
                          !.todo = Stale(r)]
<1>1. q \in Request /\ ReqInv(q)
  BY Known
<1>2. /\ n \in Request /\ n.new = q.new
      /\ OwnRow(n) = OwnRow(q)
  BY <1>1 DEF Request, Location, OwnRow, Stale, VisibleLive, OwnInsert, Live, Row
<1>3. \A p \in Requests \ {r} : n.held \cap req[p].held = {}
  BY DEF IInv, Exclusive
<1>4. ReqInv(n)
  <2>1. /\ n.at \in {"insert", "flush"} /\ n.todo = Stale(r)
        /\ n.at = "insert" => n.todo = {}
        /\ n.kind = q.kind /\ n.token = q.token /\ n.held = q.held
        /\ n.revokes = q.revokes /\ n.swept = q.swept
    BY <1>1 DEF Request
  <2>2. Stale(r) \subseteq Reach(q) \cap Token
    BY DEF Stale, VisibleLive, OwnInsert, Live, Committed, OwnRow, Reach
  <2>3. q.at = "prune"
    BY DEF PruneSelect
  <2> HIDE DEF n
  <2>4. IdInv(n) /\ LockInv(n)
    BY <1>1, <1>2, <2>1, <2>2 DEF ReqInv, IdInv, LockInv, Reach
  <2>5. PlaceInv(n)
    BY <1>1, <1>2, <2>1, <2>2, <2>3 DEF ReqInv, PlaceInv
  <2>6. FamilyInv(n) /\ SweepInv(n)
    BY <1>1, <1>2, <2>1, <2>3 DEF ReqInv, FamilyInv, SweepInv
  <2> QED BY <2>4, <2>5, <2>6 DEF ReqInv
<1>5. UNCHANGED <<db, clock>> /\ req' = [req EXCEPT ![r] = n]
  BY DEF PruneSelect, Becomes
<1> QED
  BY <1>2, <1>3, <1>4, <1>5, PrivateStep

LEMMA TouchUserInv ==
  ASSUME IInv, NEW r \in Requests, TouchUser(r) PROVE IInv'
<1> DEFINE q == req[r]
           n == [q EXCEPT !.at = "describe", !.todo = {q.token},
                          !.held = q.held \cup {UserRow}]
<1>1. q \in Request /\ ReqInv(q)
  BY Known
<1>2. /\ n \in Request /\ n.new = q.new
      /\ OwnRow(n) = OwnRow(q)
  BY <1>1 DEF Request, Location, OwnRow, Row, ReqInv, PlaceInv, TouchUser
<1>3. \A p \in Requests \ {r} : n.held \cap req[p].held = {}
  BY DEF IInv, Exclusive, TouchUser, Free, Blocks
<1>4. ReqInv(n)
  <2>1. /\ n.at = "describe" /\ n.todo = {q.token}
        /\ n.held = q.held \cup {UserRow}
        /\ n.kind = q.kind /\ n.token = q.token
        /\ n.revokes = q.revokes /\ n.swept = q.swept
    BY <1>1 DEF Request
  <2> HIDE DEF n
  <2>2. IdInv(n) /\ LockInv(n)
    BY <1>1, <1>2, <2>1 DEF ReqInv, IdInv, LockInv, PlaceInv, Reach, TouchUser
  <2>3. PlaceInv(n)
    BY <1>1, <1>2, <2>1 DEF ReqInv, PlaceInv, Reach, TouchUser
  <2>4. FamilyInv(n) /\ SweepInv(n)
    BY <1>1, <1>2, <2>1 DEF ReqInv, FamilyInv, SweepInv, TouchUser
  <2> QED BY <2>2, <2>3, <2>4 DEF ReqInv
<1>5. UNCHANGED <<db, clock>> /\ req' = [req EXCEPT ![r] = n]
  BY DEF TouchUser, Becomes
<1> QED
  BY <1>2, <1>3, <1>4, <1>5, PrivateStep

LEMMA DescribeRowInv ==
  ASSUME IInv, NEW r \in Requests, DescribeRow(r) PROVE IInv'
<1> DEFINE q == req[r]
           n == [q EXCEPT !.at = "commit", !.todo = {},
                          !.held = q.held \cup {q.token}]
<1>1. q \in Request /\ ReqInv(q)
  BY Known
<1>2. /\ n \in Request /\ n.new = q.new
      /\ OwnRow(n) = OwnRow(q)
  BY <1>1 DEF Request, Location, OwnRow, Row, ReqInv, PlaceInv, DescribeRow
<1>3. \A p \in Requests \ {r} : n.held \cap req[p].held = {}
  BY DEF IInv, Exclusive, DescribeRow, Free, Blocks
<1>4. ReqInv(n)
  <2>1. /\ n.at = "commit" /\ n.todo = {}
        /\ n.held = q.held \cup {q.token}
        /\ n.kind = q.kind /\ n.token = q.token
        /\ n.revokes = q.revokes /\ n.swept = q.swept
    BY <1>1 DEF Request
  <2> HIDE DEF n
  <2>2. IdInv(n) /\ LockInv(n)
    BY <1>1, <1>2, <2>1 DEF ReqInv, IdInv, LockInv, PlaceInv, Reach, DescribeRow
  <2>3. PlaceInv(n)
    BY <1>1, <1>2, <2>1 DEF ReqInv, PlaceInv, Reach, DescribeRow
  <2>4. FamilyInv(n) /\ SweepInv(n)
    BY <1>1, <1>2, <2>1 DEF ReqInv, FamilyInv, SweepInv, DescribeRow
  <2> QED BY <2>2, <2>3, <2>4 DEF ReqInv
<1>5. UNCHANGED <<db, clock>> /\ req' = [req EXCEPT ![r] = n]
  BY DEF DescribeRow, Becomes
<1> QED
  BY <1>2, <1>3, <1>4, <1>5, PrivateStep

LEMMA SweepStartInv ==
  ASSUME IInv, NEW r \in Requests, SweepStart(r) PROVE IInv'
<1> DEFINE q == req[r]
           n == [q EXCEPT !.at = "sweep",
                          !.todo = Committed \cup OwnRow(q),
                          !.swept = Committed \cup OwnRow(q)]
<1>1. q \in Request /\ ReqInv(q)
  BY Known
<1>2. /\ n \in Request /\ n.new = q.new
      /\ OwnRow(n) = OwnRow(q)
  BY <1>1 DEF Request, Location, OwnRow, Row, Committed
<1>3. \A p \in Requests \ {r} : n.held \cap req[p].held = {}
  BY DEF IInv, Exclusive
<1>4. ReqInv(n)
  <2>1. /\ n.at = "sweep" /\ n.held = q.held
        /\ n.todo = Committed \cup OwnRow(q) /\ n.swept = n.todo
        /\ n.todo \subseteq Token
        /\ n.kind = q.kind /\ n.token = q.token
        /\ n.revokes = q.revokes
    BY <1>1 DEF Request, Committed, OwnRow
  <2> HIDE DEF n
  <2>2. IdInv(n) /\ LockInv(n)
    BY <1>1, <1>2, <2>1 DEF ReqInv, IdInv, LockInv, Reach, SweepStart
  <2>3. PlaceInv(n)
    BY <1>1, <1>2, <2>1 DEF ReqInv, PlaceInv, Reach, SweepStart
  <2>4. FamilyInv(n) /\ SweepInv(n)
    BY <1>1, <1>2, <2>1 DEF ReqInv, FamilyInv, SweepInv, SweepStart
  <2> QED BY <2>2, <2>3, <2>4 DEF ReqInv
<1>5. UNCHANGED <<db, clock>> /\ req' = [req EXCEPT ![r] = n]
  BY DEF SweepStart, Becomes, OwnInsert, OwnRow
<1> QED
  BY <1>2, <1>3, <1>4, <1>5, PrivateStep

LEMMA UpdateUserInv ==
  ASSUME IInv, NEW r \in Requests, UpdateUser(r) PROVE IInv'
<1> DEFINE q == req[r]
           n == [q EXCEPT !.at = IF q.kind \in {"delete", "reactivate"} THEN "commit"
                                ELSE "sweepStart",
                          !.todo = {}, !.held = q.held \cup {UserRow}]
<1>1. q \in Request /\ ReqInv(q)
  BY Known
<1>2. /\ n \in Request /\ n.new = q.new
      /\ OwnRow(n) = OwnRow(q)
  BY <1>1 DEF Request, Location, OwnRow, Row
<1>3. \A p \in Requests \ {r} : n.held \cap req[p].held = {}
  BY DEF IInv, Exclusive, UpdateUser, Free, Blocks
<1>4. ReqInv(n)
  BY <1>1, <1>2
  DEF ReqInv, IdInv, LockInv, PlaceInv, FamilyInv, SweepInv, Reach, Request, UpdateUser
<1>5. UNCHANGED <<db, clock>> /\ req' = [req EXCEPT ![r] = n]
  BY DEF UpdateUser, Becomes
<1> QED
  BY <1>2, <1>3, <1>4, <1>5, PrivateStep

LEMMA ReadStatusInv ==
  ASSUME IInv, NEW r \in Requests, ReadStatus(r) PROVE IInv'
<1> DEFINE q == req[r]
           go == [q EXCEPT !.at = "commit"]
           stop == [q EXCEPT !.at = "sweepStart", !.kind = "blocked"]
<1>1. q \in Request /\ ReqInv(q) /\ q.at = "status"
  BY Known DEF ReadStatus
<1>2. /\ go \in Request /\ go.new = q.new /\ go.held = q.held
      /\ stop \in Request /\ stop.new = q.new /\ stop.held = q.held
      /\ OwnRow(go) = OwnRow(q) /\ OwnRow(stop) = OwnRow(q)
  BY <1>1 DEF Request, Location, Kind, OwnRow
<1>3. \A p \in Requests \ {r} : q.held \cap req[p].held = {}
  BY DEF IInv, Exclusive
<1>4. q.todo = {}
  BY <1>1 DEF ReqInv, PlaceInv
<1>5. ReqInv(go)
  BY <1>1, <1>2, <1>4
  DEF ReqInv, IdInv, LockInv, PlaceInv, FamilyInv, SweepInv, Reach, Request
<1>6. ReqInv(stop)
  BY <1>1, <1>2, <1>4
  DEF ReqInv, IdInv, LockInv, PlaceInv, FamilyInv, SweepInv, Reach, Request
<1>7. UNCHANGED <<db, clock>>
  BY DEF ReadStatus
<1>8. CASE req' = [req EXCEPT ![r] = go]
  BY <1>2, <1>3, <1>5, <1>7, <1>8, PrivateStep
<1>9. CASE req' = [req EXCEPT ![r] = stop]
  BY <1>2, <1>3, <1>6, <1>7, <1>9, PrivateStep
<1> QED
  BY <1>8, <1>9 DEF ReadStatus, Becomes

LEMMA AttachSelectInv ==
  ASSUME IInv, NEW r \in Requests, AttachSelect(r) PROVE IInv'
<1> DEFINE q == req[r]
<1>1. q \in Request /\ ReqInv(q)
  BY Known
<1>2. PICK t \in VisibleLive(r) :
        /\ \A u \in VisibleLive(r) : u <= t
        /\ req' = [req EXCEPT ![r] = [q EXCEPT !.at = "touch", !.todo = {UserRow},
                                               !.token = t]]
  BY DEF AttachSelect, IsFirst, Becomes
<1> DEFINE n == [q EXCEPT !.at = "touch", !.todo = {UserRow}, !.token = t]
<1>3. /\ t \in Reach(q) \cap Token /\ t \in 0 .. MaxTokens
      /\ q.new \in OwnRow(q)
  BY <1>1 DEF VisibleLive, OwnInsert, OwnRow, Live, Reach, Committed, AttachSelect,
     ReqInv, PlaceInv, Token
<1>4. t >= q.new
  BY <1>1, <1>2, <1>3 DEF VisibleLive, OwnInsert, OwnRow, Token, ReqInv, PlaceInv,
     AttachSelect
<1>5. /\ n \in Request /\ n.new = q.new /\ n.held = q.held
      /\ OwnRow(n) = OwnRow(q)
  BY <1>1, <1>3 DEF Request, Location, OwnRow, Row
<1>6. \A p \in Requests \ {r} : n.held \cap req[p].held = {}
  BY <1>5 DEF IInv, Exclusive
<1>7. ReqInv(n)
  BY <1>1, <1>3, <1>4, <1>5
  DEF ReqInv, IdInv, LockInv, PlaceInv, FamilyInv, SweepInv, Reach, Request, AttachSelect
<1>8. UNCHANGED <<db, clock>> /\ req' = [req EXCEPT ![r] = n]
  BY <1>2 DEF AttachSelect
<1> QED
  BY <1>5, <1>6, <1>7, <1>8, PrivateStep

LEMMA RespondInv ==
  ASSUME IInv, NEW r \in Requests, Respond(r) PROVE IInv'
<1>1. UNCHANGED <<db, clock>> /\ req' = [req EXCEPT ![r] = Idle]
  BY DEF Respond, Becomes
<1>2. Idle.new = NoToken /\ Idle.held = {} /\ OwnRow(Idle) = {}
  BY DEF Idle, OwnRow, NoToken, Token
<1>3. ReqInv(Idle)
  BY <1>2 DEF IInv, TypeOK, ReqInv, IdInv, LockInv, PlaceInv, FamilyInv, SweepInv,
     Idle, Reach, NoToken, Token
<1> QED
  BY <1>1, <1>2, <1>3, IdleRequest, PrivateStep

LEMMA RevokeRowInv ==
  ASSUME IInv, NEW r \in Requests, RevokeRow(r) PROVE IInv'
<1> DEFINE q == req[r]
<1>1. q \in Request /\ ReqInv(q) /\ q.at \in {"flush", "revoke", "sweep"}
  BY Known DEF RevokeRow
<1>2. PICK t \in q.todo :
        /\ Free(t, r)
        /\ req' = [req EXCEPT ![r] =
                     [q EXCEPT
                       !.at = IF q.todo = {t} THEN AfterRevoking(r) ELSE q.at,
                       !.todo = IF q.todo = {t} /\ AfterRevoking(r) = "user" THEN {UserRow}
                                ELSE q.todo \ {t},
                       !.held = q.held \cup {t},
                       !.revokes = q.revokes \cup {t}]]
  BY DEF RevokeRow, Becomes
<1> DEFINE n == [q EXCEPT
                   !.at = IF q.todo = {t} THEN AfterRevoking(r) ELSE q.at,
                   !.todo = IF q.todo = {t} /\ AfterRevoking(r) = "user" THEN {UserRow}
                            ELSE q.todo \ {t},
                   !.held = q.held \cup {t},
                   !.revokes = q.revokes \cup {t}]
<1>3. t \in Token /\ t \in Reach(q)
  BY <1>1 DEF ReqInv, PlaceInv, LockInv
<1>4. AfterRevoking(r) \in {"insert", "rollback", "user", "commit"}
  BY DEF AfterRevoking
<1>5. /\ n \in Request /\ n.new = q.new /\ n.held = q.held \cup {t}
      /\ OwnRow(n) = OwnRow(q)
  BY <1>1, <1>3, <1>4 DEF Request, Location, OwnRow, Row
<1>6. \A p \in Requests \ {r} : n.held \cap req[p].held = {}
  BY <1>2, <1>5 DEF IInv, Exclusive, Free, Blocks
<1>7. ReqInv(n)
  <2>1. CASE q.todo # {t}
    <3>1. /\ n.at = q.at /\ n.todo = q.todo \ {t}
          /\ n.kind = q.kind /\ n.token = q.token /\ n.swept = q.swept
          /\ n.revokes = q.revokes \cup {t}
      BY <1>1, <2>1 DEF Request
    <3> HIDE DEF n
    <3>2. IdInv(n) /\ LockInv(n)
      BY <1>1, <1>3, <1>5, <3>1 DEF ReqInv, IdInv, LockInv, Reach
    <3>3. PlaceInv(n)
      BY <1>1, <1>3, <1>5, <3>1 DEF ReqInv, PlaceInv
    <3>4. FamilyInv(n) /\ SweepInv(n)
      BY <1>1, <1>5, <3>1 DEF ReqInv, FamilyInv, SweepInv
    <3> QED BY <3>2, <3>3, <3>4 DEF ReqInv
  <2>2. CASE q.todo = {t}
    <3>1. /\ n.at = AfterRevoking(r)
          /\ n.todo = IF AfterRevoking(r) = "user" THEN {UserRow} ELSE {}
          /\ n.kind = q.kind /\ n.token = q.token /\ n.swept = q.swept
          /\ n.revokes = q.revokes \cup {t}
      BY <1>1, <2>2 DEF Request
    <3>2. /\ q.at = "flush" => n.at = "insert"
          /\ q.at = "revoke" => n.at = "commit"
          /\ q.at = "sweep" => n.at \in {"rollback", "user", "commit"}
          /\ q.at = "sweep" => (n.at = "rollback" <=> q.kind = "reuse")
          /\ q.at = "sweep" => (n.at = "user" <=> q.kind = "delete")
      BY <3>1 DEF AfterRevoking
    <3>3. n.todo = IF n.at = "user" THEN {UserRow} ELSE {}
      BY <3>1
    <3> HIDE DEF n
    <3>4. IdInv(n) /\ LockInv(n)
      BY <1>1, <1>3, <1>5, <3>1, <3>3 DEF ReqInv, IdInv, LockInv, Reach
    <3>5. PlaceInv(n)
      <4>1. PlaceInv(q)
        BY <1>1 DEF ReqInv
      <4>2. CASE q.at = "flush"
        BY <3>1, <3>2, <3>3, <4>1, <4>2, <1>5 DEF PlaceInv
      <4>3. CASE q.at # "flush"
        <5>1. q.kind \notin {"login", "refresh"}
          BY <4>1, <4>3, <1>1 DEF PlaceInv
        <5>2. n.at \in {"rollback", "user", "commit"}
          BY <3>2, <4>3, <1>1
        <5> QED BY <5>1, <5>2, <3>1, <3>3 DEF PlaceInv
      <4> QED BY <4>2, <4>3
    <3>6. FamilyInv(n)
      BY <1>1, <1>5, <3>1, <3>2 DEF ReqInv, FamilyInv
    <3>7. SweepInv(n)
      <4>1. SweepInv(q)
        BY <1>1 DEF ReqInv
      <4>2. CASE q.at = "sweep"
        <5>1. n.swept \subseteq n.revokes
          BY <4>1, <4>2, <2>2, <3>1 DEF SweepInv
        <5> QED BY <5>1, <4>2, <3>1, <3>2 DEF SweepInv, Sweeping
      <4>3. CASE q.at # "sweep"
        <5>1. n.swept = {} /\ n.at \in {"insert", "commit"}
          BY <4>1, <4>3, <1>1, <3>1, <3>2 DEF SweepInv
        <5> QED BY <5>1 DEF SweepInv
      <4> QED BY <4>2, <4>3
    <3> QED BY <3>4, <3>5, <3>6, <3>7 DEF ReqInv
  <2> QED BY <2>1, <2>2
<1>8. UNCHANGED <<db, clock>> /\ req' = [req EXCEPT ![r] = n]
  BY <1>2 DEF RevokeRow
<1> QED
  BY <1>5, <1>6, <1>7, <1>8, PrivateStep

(* A request that may issue a token gets an id nobody has.                 *)
LEMMA IssueStep ==
  ASSUME IInv, NEW r \in Requests, NEW n \in Request,
         UNCHANGED db, clock < MaxTokens, clock' = clock + 1,
         req' = [req EXCEPT ![r] = n],
         n.new = clock + 1,
         n.held = {}, n.revokes = {}, n.swept = {},
         \/ /\ n.at = "lock" /\ n.kind = "refresh"
            /\ n.token \in Committed /\ n.todo = {n.token}
         \/ n.at = "prune" /\ n.kind = "login" /\ n.todo = {}
  PROVE  IInv'
<1>1. clock \in 0 .. MaxTokens /\ req \in [Requests -> Request]
  BY Known DEF IInv, TypeOK
<1>2. n.new \in Token /\ row[n.new] = "none"
  BY <1>1, MaxTokensAssumption DEF IInv, Fresh, Token
<1>3. /\ req'[r] = n
      /\ \A p \in Requests \ {r} : req'[p] = req[p]
  BY <1>1
<1>4. TypeOK'
  <2>1. req' \in [Requests -> Request]
    BY <1>1
  <2>2. clock' \in 0 .. MaxTokens
    BY <1>1, MaxTokensAssumption
  <2> QED
    BY <2>1, <2>2 DEF IInv, TypeOK, Request, db
<1>5. Committed' = Committed /\ Live' = Live
  BY DEF Committed, Live, db
<1>6. Fresh' /\ Lineage' /\ OneLivePerLogin' /\ DeviceNotNewer'
  BY <1>1, <1>5 DEF IInv, Fresh, Lineage, OneLivePerLogin, DeviceNotNewer, db, Token
<1>7. Exclusive'
  BY <1>3 DEF IInv, Exclusive
<1>8. OwnIds'
  <2>1. \A p \in Requests : req[p].new <= clock /\ req[p].new \in 0 .. MaxTokens
    BY <1>1 DEF IInv, ReqInv, IdInv, Request
  <2> QED
    BY <2>1, <1>1, <1>2, <1>3 DEF IInv, OwnIds
<1>9. ASSUME NEW p \in Requests PROVE ReqInv(req[p])'
  <2>1. CASE p = r
    <3>1. OwnRow(req[p])' = {} /\ Reach(req[p])' = {UserRow} \cup Committed
      BY <2>1, <1>2, <1>3, <1>5 DEF OwnRow, Reach, db
    <3>2. IdInv(req[p])' /\ LockInv(req[p])'
      BY <3>1, <2>1, <1>1, <1>2, <1>3 DEF IdInv, LockInv, db
    <3>3. PlaceInv(req[p])'
      BY <2>1, <1>2, <1>3, <1>5 DEF PlaceInv, db
    <3>4. FamilyInv(req[p])' /\ SweepInv(req[p])'
      BY <3>1, <2>1, <1>3 DEF FamilyInv, SweepInv
    <3> QED BY <3>2, <3>3, <3>4 DEF ReqInv
  <2>2. CASE p # r
    <3>1. ReqInv(req[p]) /\ req'[p] = req[p] /\ req[p].new \in 0 .. MaxTokens
      BY <2>2, <1>1, <1>3 DEF IInv, Request
    <3>2. OwnRow(req[p])' = OwnRow(req[p]) /\ Reach(req[p])' = Reach(req[p])
      BY <3>1, <1>1, <1>5 DEF OwnRow, Reach, db
    <3> QED
      BY <3>1, <3>2, <1>1, <1>5
      DEF ReqInv, IdInv, LockInv, PlaceInv, FamilyInv, SweepInv, db
  <2> QED BY <2>1, <2>2
<1> QED BY <1>4, <1>6, <1>7, <1>8, <1>9 DEF IInv

LEMMA ArriveToIssueInv ==
  ASSUME IInv, NEW r \in Requests, NEW k \in {"login", "refresh"},
         NEW place \in {"prune", "lock"}, NEW t \in 0 .. MaxTokens, NEW rows \in SUBSET Row,
         ArriveToIssue(r, k, place, t, rows),
         \/ place = "lock" /\ k = "refresh" /\ t \in Committed /\ rows = {t}
         \/ place = "prune" /\ k = "login" /\ rows = {}
  PROVE  IInv'
<1> DEFINE n == [Idle EXCEPT !.kind = k, !.at = place, !.token = t, !.todo = rows,
                             !.new = clock + 1]
<1>1. /\ UNCHANGED db /\ clock' = clock + 1 /\ clock < MaxTokens
      /\ req' = [req EXCEPT ![r] = n]
  BY DEF ArriveToIssue, Becomes
<1>2. clock + 1 \in 0 .. MaxTokens
  BY <1>1, MaxTokensAssumption DEF IInv, TypeOK
<1>3. k \in Kind /\ place \in Location
  BY DEF Kind, Location
<1>4. n \in Request
  BY <1>2, <1>3, IdleRequest DEF Request
<1>5. /\ n.new = clock + 1 /\ n.held = {} /\ n.revokes = {} /\ n.swept = {}
      /\ n.at = place /\ n.kind = k /\ n.token = t /\ n.todo = rows
  BY DEF Idle
<1> QED
  BY <1>1, <1>4, <1>5, IssueStep

(* A rolled back or dying request: its insert is undone, its locks go.     *)
LEMMA UndoneInv ==
  ASSUME IInv, NEW r \in Requests, NEW n \in Request,
         row' = Undone(r),
         req' = [req EXCEPT ![r] = n],
         UNCHANGED <<family, device, status, hasPassword, clock>>,
         n.new = NoToken, n.held = {}, n.todo = {}, n.revokes = {},
         n.at \in {"idle", "refused"},
         n.kind \notin Sweeping,
         n.at = "idle" => n.swept = {} /\ n.kind = "logout"
  PROVE  IInv'
<1>1. /\ req \in [Requests -> Request]
      /\ row \in [Token -> {"none", "pending", "live", "revoked"}]
  BY DEF IInv, TypeOK, Request
<1>2. /\ req'[r] = n
      /\ \A p \in Requests \ {r} : req'[p] = req[p]
  BY <1>1
<1>3. Committed' = Committed /\ Live' = Live
  BY <1>1 DEF Committed, Live, Undone
<1>4. TypeOK'
  <2>1. req' \in [Requests -> Request]
    BY <1>1
  <2>2. row' \in [Token -> {"none", "pending", "live", "revoked"}]
    BY <1>1 DEF Undone
  <2> QED BY <2>1, <2>2 DEF IInv, TypeOK, Request
<1>5. Fresh' /\ Lineage' /\ OneLivePerLogin' /\ DeviceNotNewer'
  BY <1>3 DEF IInv, Fresh, Undone, Lineage, OneLivePerLogin, DeviceNotNewer
<1>6. Exclusive' /\ OwnIds'
  BY <1>2 DEF IInv, Exclusive, OwnIds, NoToken, Token
<1>7. ASSUME NEW p \in Requests PROVE ReqInv(req[p])'
  <2>1. CASE p = r
    <3>1. OwnRow(n)' = {} /\ OwnRow(req[p])' = {}
      BY <1>2, <2>1 DEF OwnRow, NoToken, Token
    <3>2. ReqInv(n)'
      BY <3>1, <1>3 DEF IInv, TypeOK, ReqInv, IdInv, LockInv, PlaceInv, FamilyInv,
         SweepInv, Reach, NoToken, Token
    <3> QED BY <3>1, <3>2, <1>2, <2>1 DEF ReqInv, IdInv, LockInv, PlaceInv, FamilyInv,
         SweepInv, Reach
  <2>2. CASE p # r
    <3>1. ReqInv(req[p]) /\ req'[p] = req[p] /\ req[p] \in Request
      BY <2>2, <1>1, <1>2 DEF IInv
    <3>2. req[p].new \in Token => req[p].new # req[r].new
      BY <2>2 DEF IInv, OwnIds
    <3>3. OwnRow(req[p])' = OwnRow(req[p]) /\ Reach(req[p])' = Reach(req[p])
      BY <3>1, <3>2, <1>1, <1>3 DEF OwnRow, Reach, Undone
    <3>4. \A t \in Token : row[t] \notin {"pending"} => row'[t] = row[t]
      BY DEF Undone
    <3>5. IdInv(req[p])' /\ LockInv(req[p])'
      BY <3>1, <3>2, <3>3 DEF ReqInv, IdInv, LockInv, Undone, Request
    <3>6. PlaceInv(req[p])'
      BY <3>1, <3>3, <3>4, <1>3 DEF ReqInv, PlaceInv, Request
    <3>7. FamilyInv(req[p])' /\ SweepInv(req[p])'
      BY <3>1, <3>3, <3>4 DEF ReqInv, FamilyInv, SweepInv, Request
    <3> QED BY <3>5, <3>6, <3>7 DEF ReqInv
  <2> QED BY <2>1, <2>2
<1> QED BY <1>4, <1>5, <1>6, <1>7 DEF IInv

LEMMA RollbackInv ==
  ASSUME IInv, NEW r \in Requests, Rollback(r) PROVE IInv'
<1> DEFINE n == [req[r] EXCEPT !.at = "refused", !.token = NoToken, !.new = NoToken,
                               !.held = {}, !.revokes = {}]
<1>1. req[r] \in Request /\ ReqInv(req[r]) /\ req[r].at = "rollback"
  BY Known DEF Rollback
<1>2. n \in Request
  <2>1. NoToken \in 0 .. MaxTokens /\ "refused" \in Location
    BY MaxTokensAssumption DEF Location, NoToken
  <2> QED BY <1>1, <2>1 DEF Request
<1>3. /\ n.new = NoToken /\ n.held = {} /\ n.revokes = {} /\ n.at = "refused"
      /\ n.todo = {} /\ n.kind \notin Sweeping
  BY <1>1 DEF Request, ReqInv, PlaceInv, SweepInv
<1> QED
  BY <1>2, <1>3, UndoneInv DEF Rollback, Becomes

LEMMA AbortInv ==
  ASSUME IInv, NEW r \in Requests, Abort(r) PROVE IInv'
<1>1. /\ Idle.new = NoToken /\ Idle.held = {} /\ Idle.revokes = {} /\ Idle.at = "idle"
      /\ Idle.todo = {} /\ Idle.swept = {} /\ Idle.kind = "logout"
      /\ Idle.kind \notin Sweeping
  BY DEF Idle, Sweeping
<1> QED
  BY <1>1, IdleRequest, UndoneInv DEF Abort, Becomes

(* An insert touches a row nobody else can see or lock.                    *)
LEMMA InsertTokenInv ==
  ASSUME IInv, NEW r \in Requests, InsertToken(r) PROVE IInv'
<1> DEFINE q == req[r]
<1>1. /\ q \in Request /\ ReqInv(q) /\ q.at = "insert"
      /\ req \in [Requests -> Request]
      /\ row \in [Token -> {"none", "pending", "live", "revoked"}]
      /\ family \in [Token -> 0 .. MaxTokens]
  BY Known DEF InsertToken, IInv, TypeOK
<1>2. /\ q.new \in Token /\ row[q.new] = "none" /\ q.kind \in {"login", "refresh"}
      /\ q.todo = {}
      /\ q.kind = "refresh" => q.token \in Token /\ row[q.token] = "live"
                               /\ q.token \in q.revokes
  BY <1>1 DEF ReqInv, PlaceInv, FamilyInv, Request
<1>3. PICK n \in Request :
        /\ req' = [req EXCEPT ![r] = n]
        /\ n.kind = q.kind /\ n.token = q.token /\ n.new = q.new
        /\ n.todo = q.todo /\ n.revokes = q.revokes /\ n.swept = q.swept
        /\ n.held = q.held \cup {q.new}
        /\ n.at = IF q.kind = "refresh" THEN "status" ELSE "attach"
  <2> DEFINE m == [q EXCEPT !.at = IF q.kind = "refresh" THEN "status" ELSE "attach",
                            !.held = q.held \cup {q.new}]
  <2>1. m \in Request
    BY <1>1, <1>2 DEF Request, Location, Row
  <2>2. /\ m.kind = q.kind /\ m.token = q.token /\ m.new = q.new
        /\ m.todo = q.todo /\ m.revokes = q.revokes /\ m.swept = q.swept
        /\ m.held = q.held \cup {q.new}
        /\ m.at = IF q.kind = "refresh" THEN "status" ELSE "attach"
    BY <1>1 DEF Request
  <2>3. req' = [req EXCEPT ![r] = m]
    BY DEF InsertToken, Becomes
  <2> HIDE DEF m
  <2> QED BY <2>1, <2>2, <2>3
<1>4. /\ row' = [row EXCEPT ![q.new] = "pending"]
      /\ family' = [family EXCEPT ![q.new] =
                      IF q.kind = "refresh" THEN family[q.token] ELSE q.new]
      /\ UNCHANGED <<device, status, hasPassword, clock>>
  BY DEF InsertToken
<1>5. /\ req'[r] = n
      /\ \A p \in Requests \ {r} : req'[p] = req[p]
  BY <1>1, <1>3
<1>6. Committed' = Committed /\ Live' = Live /\ q.new \notin Committed
  BY <1>1, <1>2, <1>4 DEF Committed, Live
<1>7. TypeOK'
  <2>1. req' \in [Requests -> Request]
    BY <1>1, <1>3
  <2>2. row' \in [Token -> {"none", "pending", "live", "revoked"}]
    BY <1>1, <1>4
  <2>3. family' \in [Token -> 0 .. MaxTokens]
    BY <1>1, <1>2, <1>4 DEF Token
  <2> QED BY <2>1, <2>2, <2>3, <1>4 DEF IInv, TypeOK, Request
<1>8. Fresh'
  BY <1>1, <1>2, <1>4 DEF IInv, Fresh, ReqInv, IdInv, TypeOK, Token
<1>9. Lineage' /\ OneLivePerLogin' /\ DeviceNotNewer'
  <2>1. \A t \in Committed : t \in Token /\ family'[t] = family[t]
    BY <1>1, <1>4, <1>6 DEF Committed
  <2>2. Live \subseteq Committed
    BY DEF Live, Committed
  <2> QED
    BY <2>1, <2>2, <1>4, <1>6 DEF IInv, Lineage, OneLivePerLogin, DeviceNotNewer
<1>10. OwnIds'
  BY <1>3, <1>5 DEF IInv, OwnIds
<1>11. \A p \in Requests \ {r} : q.new \notin req[p].held /\ req[p].new # q.new
  <2> TAKE p \in Requests \ {r}
  <2>1. req[p].held \subseteq Reach(req[p])
    BY DEF IInv, ReqInv, LockInv
  <2>2. req[p].new # q.new
    BY <1>2 DEF IInv, OwnIds
  <2> QED BY <2>1, <2>2, <1>2, <1>6 DEF Reach, OwnRow, UserRow, Token
<1>12. Exclusive'
  BY <1>3, <1>5, <1>11 DEF IInv, Exclusive
<1>13. ASSUME NEW p \in Requests PROVE ReqInv(req[p])'
  <2>1. CASE p = r
    <3>1. OwnRow(req[p])' = {q.new}
      BY <2>1, <1>1, <1>2, <1>3, <1>4, <1>5 DEF OwnRow
    <3>2. Reach(q) \subseteq Reach(req[p])' /\ q.new \in Reach(req[p])'
      BY <3>1, <1>2, <1>6 DEF Reach, OwnRow
    <3>3. IdInv(req[p])' /\ LockInv(req[p])'
      BY <3>2, <2>1, <1>1, <1>2, <1>3, <1>4, <1>5 DEF ReqInv, IdInv, LockInv
    <3>4. q.new \notin q.revokes
      BY <1>1, <1>2, <1>6 DEF ReqInv, LockInv, Reach, OwnRow, UserRow, Token
    <3>5. PlaceInv(req[p])'
      BY <3>1, <3>4, <2>1, <1>1, <1>2, <1>3, <1>5 DEF ReqInv, PlaceInv
    <3>6. FamilyInv(req[p])'
      BY <3>1, <2>1, <1>1, <1>2, <1>3, <1>4, <1>5 DEF FamilyInv
    <3>7. SweepInv(req[p])'
      BY <2>1, <1>1, <1>2, <1>3, <1>5 DEF ReqInv, SweepInv
    <3> QED BY <3>3, <3>5, <3>6, <3>7 DEF ReqInv
  <2>2. CASE p # r
    <3>1. ReqInv(req[p]) /\ req'[p] = req[p] /\ req[p] \in Request
          /\ req[p].new # q.new
      BY <2>2, <1>1, <1>5, <1>11 DEF IInv
    <3>2. OwnRow(req[p])' = OwnRow(req[p]) /\ Reach(req[p])' = Reach(req[p])
      BY <3>1, <1>1, <1>4, <1>6 DEF OwnRow, Reach
    <3>3. \A t \in Token : t # q.new => row'[t] = row[t] /\ family'[t] = family[t]
      BY <1>1, <1>4
    <3>4. IdInv(req[p])' /\ LockInv(req[p])'
      BY <3>1, <3>2, <3>3, <1>4 DEF ReqInv, IdInv, LockInv
    <3>5. PlaceInv(req[p])'
      BY <3>1, <3>2, <3>3, <1>6 DEF ReqInv, PlaceInv
    <3>6. FamilyInv(req[p])'
      <4>1. ASSUME NEW t \in OwnRow(req[p]), req[p].kind # "login"
            PROVE  req[p].token \in Token /\ row[req[p].token] = "live"
        <5>1. req[p].kind \in {"refresh", "blocked"}
          BY <4>1, <3>1 DEF ReqInv, FamilyInv
        <5>2. req[p].at \notin {"lock", "rollback", "ok", "refused"}
          BY <4>1, <3>1 DEF ReqInv, FamilyInv, PlaceInv, OwnRow, NoToken, Token
        <5> QED BY <5>1, <5>2, <3>1 DEF ReqInv, FamilyInv, Request
      <4>2. \A t \in OwnRow(req[p]) : t \in Token /\ t # q.new
        BY <3>1 DEF OwnRow
      <4>3. req[p].revokes \subseteq Token
        BY <3>1 DEF Request
      <4> QED BY <4>1, <4>2, <4>3, <3>1, <3>2, <3>3, <1>2 DEF ReqInv, FamilyInv
    <3>7. SweepInv(req[p])'
      <4>1. req[p].swept \subseteq Token
        BY <3>1 DEF Request
      <4> QED BY <4>1, <3>1, <3>3, <1>2 DEF ReqInv, SweepInv
    <3> QED BY <3>4, <3>5, <3>6, <3>7 DEF ReqInv
  <2> QED BY <2>1, <2>2
<1> QED BY <1>7, <1>8, <1>9, <1>10, <1>12, <1>13 DEF IInv

(* What a commit makes visible: the inserted row, unless it was revoked    *)
(* too, and the revocations, all of rows it held locked.                   *)
LEMMA CommitRows ==
  ASSUME IInv, NEW r \in Requests, Commit(r)
  PROVE  /\ req[r].revokes \subseteq Committed \cup OwnRow(req[r])
         /\ row' \in [Token -> {"none", "pending", "live", "revoked"}]
         /\ \A t \in req[r].revokes : row'[t] = "revoked"
         /\ \A t \in Token \ (req[r].revokes \cup OwnRow(req[r])) : row'[t] = row[t]
         /\ Committed' = Committed \cup OwnRow(req[r])
         /\ Live' = (Live \cup OwnRow(req[r])) \ req[r].revokes
<1> DEFINE q == req[r]
<1>1. q \in Request /\ ReqInv(q)
  BY Known
<1>2. q.revokes \subseteq Committed \cup OwnRow(q)
  BY <1>1 DEF ReqInv, LockInv, Reach, Request, UserRow, Token
<1>3. row \in [Token -> {"none", "pending", "live", "revoked"}]
  BY DEF IInv, TypeOK
<1>4. row' = [t \in Token |->
                CASE t \in q.revokes -> "revoked"
                  [] t \notin q.revokes /\ t = q.new /\ row[t] = "pending" -> "live"
                  [] OTHER -> row[t]]
  BY DEF Commit
<1>5. \A t \in Token :
        /\ t \in q.revokes => row'[t] = "revoked"
        /\ t \in OwnRow(q) \ q.revokes => row'[t] = "live"
        /\ t \notin q.revokes \cup OwnRow(q) => row'[t] = row[t]
  BY <1>4 DEF OwnRow
<1>6. row' \in [Token -> {"none", "pending", "live", "revoked"}]
  BY <1>3, <1>4
<1>7. \A t \in Token : t \in OwnRow(q) => row[t] = "pending"
  BY DEF OwnRow
<1>8. q.revokes \subseteq Token /\ OwnRow(q) \subseteq Token
  BY <1>1 DEF Request, OwnRow
<1>9. Committed' = Committed \cup OwnRow(q)
  BY <1>2, <1>5, <1>7, <1>8 DEF Committed
<1>10. Live' = (Live \cup OwnRow(q)) \ q.revokes
  BY <1>2, <1>5, <1>7, <1>8 DEF Live
<1> QED BY <1>2, <1>5, <1>6, <1>8, <1>9, <1>10

(* The heart of the argument: a refresh that commits revokes the one live  *)
(* token of its family, and a login starts a family of its own.            *)
LEMMA CommitOneLive ==
  ASSUME IInv, NEW r \in Requests, Commit(r) PROVE Lineage' /\ OneLivePerLogin'
<1> DEFINE q == req[r]
<1>1. q \in Request /\ ReqInv(q) /\ q.at = "commit" /\ UNCHANGED family
  BY Known DEF Commit
<1>2. /\ Committed' = Committed \cup OwnRow(q)
      /\ Live' = (Live \cup OwnRow(q)) \ q.revokes
  BY CommitRows
<1>3. Live \subseteq Committed /\ Committed \subseteq Token
  BY DEF Live, Committed
<1>4. \A t \in OwnRow(q) : t \in Token /\ t = q.new /\ t \notin Committed
  BY DEF OwnRow, Committed
<1>5. ASSUME NEW t \in OwnRow(q)
      PROVE  \/ q.kind = "login" /\ family[t] = t
             \/ /\ q.token \in Live /\ q.token \in q.revokes
                /\ family[t] = family[q.token]
  <2>1. CASE q.kind = "login"
    BY <2>1, <1>1 DEF ReqInv, FamilyInv
  <2>2. CASE q.kind # "login"
    <3>1. q.kind \in {"refresh", "blocked"}
      BY <2>2, <1>1, <1>5 DEF ReqInv, FamilyInv
    <3> QED BY <3>1, <2>2, <1>1 DEF ReqInv, FamilyInv, Live, Request
  <2> QED BY <2>1, <2>2
<1>6. Lineage'
  BY <1>1, <1>2, <1>3, <1>5 DEF IInv, Lineage
<1>7. ASSUME NEW t \in Live', NEW u \in Live', family[t] = family[u]
      PROVE  t = u
  <2>1. ASSUME NEW v \in OwnRow(q), NEW w \in Live \ q.revokes, family[v] = family[w]
        PROVE  FALSE
    <3>1. CASE family[v] = v
      BY <3>1, <2>1, <1>3, <1>4 DEF IInv, Lineage
    <3>2. CASE q.token \in Live /\ q.token \in q.revokes /\ family[v] = family[q.token]
      BY <3>2, <2>1 DEF IInv, OneLivePerLogin
    <3> QED BY <3>1, <3>2, <1>5
  <2>2. CASE t \in OwnRow(q) /\ u \in OwnRow(q)
    BY <2>2, <1>4
  <2>3. CASE t \in Live \ q.revokes /\ u \in Live \ q.revokes
    BY <2>3, <1>7 DEF IInv, OneLivePerLogin
  <2> QED BY <2>1, <2>2, <2>3, <1>2, <1>7
<1> QED BY <1>1, <1>6, <1>7 DEF OneLivePerLogin

LEMMA CommitInv ==
  ASSUME IInv, NEW r \in Requests, Commit(r) PROVE IInv'
<1> DEFINE q == req[r]
           own == OwnRow(q)
<1>1. /\ q \in Request /\ ReqInv(q) /\ q.at = "commit" /\ q.todo = {}
      /\ req \in [Requests -> Request]
      /\ UNCHANGED <<family, clock>>
  BY Known DEF Commit, ReqInv, PlaceInv
<1>2. /\ q.revokes \subseteq Committed \cup own
      /\ row' \in [Token -> {"none", "pending", "live", "revoked"}]
      /\ \A t \in q.revokes : row'[t] = "revoked"
      /\ \A t \in Token \ (q.revokes \cup own) : row'[t] = row[t]
      /\ Committed' = Committed \cup own
  BY CommitRows
<1>3. PICK n \in Request :
        /\ req' = [req EXCEPT ![r] = n]
        /\ n.kind = q.kind /\ n.token = NoToken /\ n.new = NoToken
        /\ n.todo = q.todo /\ n.revokes = {} /\ n.swept = q.swept /\ n.held = {}
        /\ n.at \in {"ok", "refused"}
  <2> DEFINE m == [q EXCEPT !.at = IF q.kind = "blocked" THEN "refused" ELSE "ok",
                            !.token = NoToken, !.new = NoToken,
                            !.held = {}, !.revokes = {}]
  <2>1. NoToken \in 0 .. MaxTokens /\ "refused" \in Location /\ "ok" \in Location
    BY MaxTokensAssumption DEF Location, NoToken
  <2>2. m \in Request
    BY <1>1, <2>1 DEF Request
  <2>3. /\ m.kind = q.kind /\ m.token = NoToken /\ m.new = NoToken
        /\ m.todo = q.todo /\ m.revokes = {} /\ m.swept = q.swept /\ m.held = {}
        /\ m.at \in {"ok", "refused"}
    BY <1>1 DEF Request
  <2>4. req' = [req EXCEPT ![r] = m]
    BY DEF Commit, Becomes
  <2> HIDE DEF m
  <2> QED BY <2>2, <2>3, <2>4
<1>4. /\ req'[r] = n
      /\ \A p \in Requests \ {r} : req'[p] = req[p]
  BY <1>1, <1>3
<1>5. device' \in [Token -> 0 .. MaxTokens] /\ DeviceNotNewer'
  <2>1. device \in [Token -> 0 .. MaxTokens] /\ \A t \in Token : device[t] <= t
    BY DEF IInv, TypeOK, DeviceNotNewer
  <2>2. CASE q.kind = "login"
    <3>1. q.token \in Token /\ q.new \in 0 .. MaxTokens /\ q.new <= q.token
      BY <1>1, <2>2 DEF ReqInv, PlaceInv, Request, Token
    <3>2. device' = [device EXCEPT ![q.token] = q.new]
      BY <2>2 DEF Commit
    <3> QED BY <2>1, <3>1, <3>2 DEF DeviceNotNewer
  <2>3. CASE q.kind # "login"
    BY <2>1, <2>3 DEF Commit, DeviceNotNewer
  <2> QED BY <2>2, <2>3
<1>6. TypeOK'
  <2>1. req' \in [Requests -> Request]
    BY <1>1, <1>3
  <2>2. status' \in {"ACTIVE", "SUSPENDED", "DELETED"}
    BY DEF Commit, StatusSetBy, IInv, TypeOK
  <2>3. hasPassword' \in BOOLEAN
    BY DEF Commit, IInv, TypeOK
  <2> QED BY <2>1, <2>2, <2>3, <1>1, <1>2, <1>5 DEF IInv, TypeOK, Request
<1>7. Fresh'
  <2>1. ASSUME NEW t \in Token, t > clock PROVE row'[t] = "none"
    <3>1. row[t] = "none"
      BY <2>1 DEF IInv, Fresh
    <3>2. t \notin q.revokes \cup own
      BY <3>1, <1>2 DEF Committed, OwnRow
    <3> QED BY <3>1, <3>2, <1>2
  <2> QED BY <2>1, <1>1 DEF Fresh
<1>8. Exclusive' /\ OwnIds'
  BY <1>3, <1>4 DEF IInv, Exclusive, OwnIds, NoToken, Token
<1>9. ASSUME NEW p \in Requests PROVE ReqInv(req[p])'
  <2>1. CASE p = r
    <3>1. OwnRow(req[p])' = {}
      BY <2>1, <1>3, <1>4 DEF OwnRow, NoToken, Token
    <3>2. IdInv(req[p])' /\ LockInv(req[p])' /\ PlaceInv(req[p])' /\ FamilyInv(req[p])'
      BY <3>1, <2>1, <1>1, <1>3, <1>4
      DEF IdInv, LockInv, PlaceInv, FamilyInv, NoToken, Token, IInv, TypeOK
    <3>3. q.swept \subseteq q.revokes
      BY <1>1 DEF ReqInv, SweepInv
    <3>4. SweepInv(req[p])'
      BY <3>3, <2>1, <1>2, <1>3, <1>4 DEF SweepInv
    <3> QED BY <3>2, <3>4 DEF ReqInv
  <2>2. CASE p # r
    <3> DEFINE s == req[p]
    <3>1. /\ ReqInv(s) /\ req'[p] = s /\ s \in Request
          /\ s.held \cap q.held = {}
          /\ s.new \in Token => s.new # q.new
      BY <2>2, <1>1, <1>4 DEF IInv, Exclusive, OwnIds
    <3>2. q.revokes \subseteq q.held /\ s.revokes \subseteq s.held
      BY <1>1, <3>1 DEF ReqInv, LockInv
    <3>3. s.new \in Token => s.new \notin own
      BY <3>1 DEF OwnRow
    <3>4. \A t \in Token : row[t] \in {"none", "pending"} /\ t \notin own
             => row'[t] = row[t]
      BY <1>2 DEF Committed
    <3>5. \A t \in Token : row'[t] \in {"none", "pending"} => row'[t] = row[t]
      <4>1. \A t \in own : t \in Token /\ row'[t] \in {"live", "revoked"}
        BY <1>2 DEF OwnRow, Committed
      <4> QED BY <4>1, <1>2
    <3>6. OwnRow(req[p])' = OwnRow(s)
      <4>1. OwnRow(s)' = {t \in Token : t = s'.new /\ row'[t] = "pending"}
        BY DEF OwnRow
      <4> QED BY <4>1, <3>1, <3>3, <3>4, <3>5 DEF OwnRow
    <3>7. Reach(s) \subseteq Reach(req[p])'
      BY <3>6, <1>2 DEF Reach
    <3>8. IdInv(req[p])' /\ LockInv(req[p])'
      BY <3>1, <3>3, <3>4, <3>7, <1>1 DEF ReqInv, IdInv, LockInv
    <3>9. PlaceInv(req[p])'
      BY <3>1, <3>3, <3>4, <3>6, <3>7, <1>2 DEF ReqInv, PlaceInv
    <3>10. FamilyInv(req[p])'
      <4>1. \A t \in s.revokes : t \in Token /\ (row[t] = "live" => row'[t] = "live")
        BY <3>1, <3>2, <1>2 DEF Request, OwnRow
      <4> QED BY <4>1, <3>1, <3>6, <1>1 DEF ReqInv, FamilyInv
    <3>11. SweepInv(req[p])'
      <4>1. \A t \in s.swept : t \in Token /\ (row[t] = "revoked" => row'[t] = "revoked")
        BY <3>1, <1>2 DEF Request, OwnRow
      <4> QED BY <4>1, <3>1 DEF ReqInv, SweepInv
    <3> QED BY <3>8, <3>9, <3>10, <3>11 DEF ReqInv
  <2> QED BY <2>1, <2>2
<1> QED BY <1>5, <1>6, <1>7, <1>8, <1>9, CommitOneLive DEF IInv

LEMMA BeginInv ==
  ASSUME IInv, NEW r \in Requests, Begin(r) PROVE IInv'
<1> USE DEF Kind, AdminKind, Location
<1>1. NoToken \in 0 .. MaxTokens /\ {} \in SUBSET Row /\ {UserRow} \in SUBSET Row
  BY MaxTokensAssumption DEF NoToken, Row
<1>2. \A t \in Committed : t \in 0 .. MaxTokens /\ t \in Token /\ {t} \in SUBSET Row
  BY DEF Committed, Token, Row
<1>3. \A t \in Live : t \in Committed
  BY DEF Live, Committed
<1>4. CASE Login(r)
  BY <1>1, <1>4, ArriveToIssueInv DEF Login
<1>5. CASE Refresh(r)
  <2>1. PICK t \in Committed : ArriveToIssue(r, "refresh", "lock", t, {t})
    BY <1>5 DEF Refresh
  <2> QED BY <2>1, <1>2, ArriveToIssueInv
<1>6. CASE Logout(r)
  <2>1. PICK t \in Live : Arrive(r, "logout", "revoke", t, {t})
    BY <1>6 DEF Logout
  <2> QED BY <2>1, <1>2, <1>3, ArriveInv
<1>7. CASE LogoutAll(r)
  BY <1>1, <1>7, ArriveInv DEF LogoutAll
<1>8. CASE ChangePassword(r)
  BY <1>1, <1>8, ArriveInv DEF ChangePassword
<1>9. CASE ResetPassword(r) \/ DeleteAccount(r)
  BY <1>1, <1>9, ArriveInv DEF ResetPassword, DeleteAccount
<1>10. CASE AdminSetStatus(r)
  <2>1. PICK k \in AdminKind :
          \/ Arrive(r, k, "user", NoToken, {UserRow})
          \/ Arrive(r, k, "sweepStart", NoToken, {})
    BY <1>10 DEF AdminSetStatus
  <2>2. k \in Kind /\ k \notin {"login", "refresh", "blocked"}
    OBVIOUS
  <2>3. CASE Arrive(r, k, "user", NoToken, {UserRow})
    BY <2>2, <2>3, <1>1, ArriveInv
  <2>4. CASE Arrive(r, k, "sweepStart", NoToken, {})
    BY <2>2, <2>4, <1>1, ArriveInv
  <2> QED BY <2>1, <2>3, <2>4
<1> QED
  BY <1>4, <1>5, <1>6, <1>7, <1>8, <1>9, <1>10 DEF Begin

(* The invariant is inductive.                                             *)
LEMMA NextInv == IInv /\ [Next]_vars => IInv'
<1> SUFFICES ASSUME IInv, [Next]_vars PROVE IInv'
  OBVIOUS
<1>1. CASE UNCHANGED vars
  BY <1>1 DEF vars, IInv, TypeOK, Fresh, Exclusive, Lineage, OwnIds, OneLivePerLogin,
     DeviceNotNewer, ReqInv, IdInv, LockInv, PlaceInv, FamilyInv, SweepInv,
     Reach, OwnRow, Committed, Live
<1>2. ASSUME NEW r \in Requests, Advance(r) PROVE IInv'
  BY <1>2, LockPresentedInv, PruneSelectInv, RevokeRowInv, InsertTokenInv,
     AttachSelectInv, TouchUserInv, DescribeRowInv, ReadStatusInv, SweepStartInv,
     UpdateUserInv, CommitInv, RollbackInv, RespondInv DEF Advance
<1> QED
  BY <1>1, <1>2, BeginInv, AbortInv DEF Next

THEOREM Invariance == Spec => []IInv
BY InitInv, NextInv, PTL DEF Spec

-----------------------------------------------------------------------------

(* Every state of the service is well formed, whatever the number of       *)
(* requests, tokens and sessions.                                          *)
THEOREM TypeCorrect == Spec => []TypeOK
<1>1. IInv => TypeOK
  BY DEF IInv
<1> QED BY <1>1, Invariance, PTL

(* However many copies of a refresh token are presented at once, at most   *)
(* one token of its login is live.                                         *)
THEOREM OneCredential == Spec => []OneLivePerLogin
<1>1. IInv => OneLivePerLogin
  BY DEF IInv
<1> QED BY <1>1, Invariance, PTL

(* Once an answer to logout-all, a password change, a suspension or a      *)
(* deletion is out, none of the tokens its UPDATE saw is ever live.        *)
THEOREM SweepIsFinal == Spec => []SweepTakesEffect
<1>1. IInv => SweepTakesEffect
  BY DEF IInv, ReqInv, SweepInv, SweepTakesEffect
<1> QED BY <1>1, Invariance, PTL

(* A row never shows the device of a login that started after its own.     *)
THEOREM DeviceOrder == Spec => []DeviceNotNewer
<1>1. IInv => DeviceNotNewer
  BY DEF IInv
<1> QED BY <1>1, Invariance, PTL

-----------------------------------------------------------------------------
(* The transactions implement LoginSessions.                               *)

(* The current credential of a login, before and after a step              *)
LEMMA CurrentIs ==
  ASSUME OneLivePerLogin, NEW s \in Token
  PROVE  /\ LiveOf(s) = {} => CurrentOf[s] = NoToken
         /\ \A t \in LiveOf(s) : LiveOf(s) = {t} /\ CurrentOf[s] = t
<1>1. CurrentOf[s] = IF LiveOf(s) = {} THEN NoToken
                     ELSE CHOOSE t \in LiveOf(s) : TRUE
  BY DEF CurrentOf
<1>2. \A t \in LiveOf(s) : LiveOf(s) = {t}
  BY DEF OneLivePerLogin, LiveOf
<1> QED BY <1>1, <1>2

LEMMA CurrentIsPrimed ==
  ASSUME OneLivePerLogin', NEW s \in Token
  PROVE  /\ LiveOf(s)' = {} => CurrentOf'[s] = NoToken
         /\ \A t \in LiveOf(s)' : LiveOf(s)' = {t} /\ CurrentOf'[s] = t
<1>1. CurrentOf'[s] = IF LiveOf(s)' = {} THEN NoToken
                      ELSE CHOOSE t \in LiveOf(s)' : TRUE
  BY DEF CurrentOf
<1>2. \A t \in LiveOf(s)' : LiveOf(s)' = {t}
  BY DEF OneLivePerLogin, LiveOf
<1> QED BY <1>1, <1>2

(* A step that is no commit changes no live row: a stutter of the sessions.*)
LEMMA Stutter ==
  ASSUME OneLivePerLogin, Live' = Live, Committed' = Committed,
         \A t \in Live : family'[t] = family[t]
  PROVE  UNCHANGED Sessions!vars
<1>1. \A s \in Token : LiveOf(s)' = LiveOf(s)
  BY DEF LiveOf
<1>2. OneLivePerLogin'
  BY DEF OneLivePerLogin
<1>3. \A s \in Token : CurrentOf'[s] = CurrentOf[s]
  BY <1>1, <1>2, CurrentIs, CurrentIsPrimed
<1>4. CurrentOf' = CurrentOf
  BY <1>3 DEF CurrentOf
<1> QED BY <1>4 DEF Sessions!vars

LEMMA UndoneStutter ==
  ASSUME IInv, NEW r \in Requests, row' = Undone(r), UNCHANGED family
  PROVE  UNCHANGED Sessions!vars
<1>1. row \in [Token -> {"none", "pending", "live", "revoked"}]
  BY DEF IInv, TypeOK
<1>2. Live' = Live /\ Committed' = Committed
  BY <1>1 DEF Live, Committed, Undone
<1> QED BY <1>2, Stutter DEF IInv

LEMMA InsertStutter ==
  ASSUME IInv, NEW r \in Requests, InsertToken(r)
  PROVE  UNCHANGED Sessions!vars
<1>1. /\ row \in [Token -> {"none", "pending", "live", "revoked"}]
      /\ family \in [Token -> 0 .. MaxTokens]
  BY DEF IInv, TypeOK
<1>2. req[r].new \in Token /\ row[req[r].new] = "none"
  BY Known DEF InsertToken, ReqInv, PlaceInv
<1>3. Live' = Live /\ Committed' = Committed
  BY <1>1, <1>2 DEF InsertToken, Live, Committed
<1>4. \A t \in Live : family'[t] = family[t]
  BY <1>1, <1>2 DEF InsertToken, Live
<1> QED BY <1>3, <1>4, Stutter DEF IInv

(* A commit ends the logins whose live token it revoked, and at most one   *)
(* login gets a new current token: the one the transaction inserted.       *)
LEMMA CommitImplements ==
  ASSUME IInv, NEW r \in Requests, Commit(r) PROVE Sessions!Next
<1> DEFINE q == req[r]
           own == OwnRow(q)
           ended == {s \in Token : LiveOf(s)' = {}}
<1>1. /\ Committed' = Committed \cup own
      /\ Live' = (Live \cup own) \ q.revokes
      /\ UNCHANGED family
  BY CommitRows DEF Commit
<1>2. OneLivePerLogin /\ OneLivePerLogin'
  BY CommitOneLive DEF IInv
<1>3. \A t \in own : t \in Token /\ t = q.new /\ t \notin Committed /\ t \notin Live
  BY DEF OwnRow, Committed, Live
<1>4. ended \in SUBSET Token
  OBVIOUS
<1>5. \A s \in ended : CurrentOf'[s] = NoToken
  BY <1>2, CurrentIsPrimed
<1>6. \A s \in Token \ ended :
         LiveOf(s)' \cap own = {} => CurrentOf'[s] = CurrentOf[s]
  <2> TAKE s \in Token \ ended
  <2> HAVE LiveOf(s)' \cap own = {}
  <2>1. PICK t \in LiveOf(s)' : t \notin own
    OBVIOUS
  <2>2. t \in LiveOf(s)
    BY <2>1, <1>1 DEF LiveOf
  <2> QED BY <2>1, <2>2, <1>2, CurrentIs, CurrentIsPrimed
<1>7. CurrentOf' = [s \in Token |-> CurrentOf'[s]]
  BY DEF CurrentOf
<1>8. CASE own \cap Live' = {}
  <2>1. \A s \in Token : LiveOf(s)' \cap own = {}
    BY <1>8 DEF LiveOf
  <2>2. CurrentOf' = [s \in Token |-> IF s \in ended THEN NoToken ELSE CurrentOf[s]]
    BY <2>1, <1>5, <1>6, <1>7
  <2>3. CASE own = {}
    <3>1. Sessions!End(ended)
      BY <2>2, <2>3, <1>1 DEF Sessions!End, Sessions!Ended, Sessions!NoToken, NoToken
    <3> QED BY <3>1, <1>4 DEF Sessions!Next
  <2>4. CASE own # {}
    <3>1. PICK n \in own : own = {n}
      BY <2>4, <1>3
    <3>2. Sessions!Waste(n, ended)
      BY <2>2, <3>1, <1>1, <1>3
      DEF Sessions!Waste, Sessions!Ended, Sessions!NoToken, NoToken
    <3> QED BY <3>1, <3>2, <1>3, <1>4 DEF Sessions!Next
  <2> QED BY <2>3, <2>4
<1>9. CASE own \cap Live' # {}
  <2>1. PICK n \in own \cap Live' : own = {n}
    BY <1>3, <1>9
  <2>2. n \in Token /\ n \notin Committed /\ Committed' = Committed \cup {n}
    BY <2>1, <1>1, <1>3
  <2>3. PICK s0 \in Token : family[n] = s0
                            /\ (s0 = n \/ CurrentOf[s0] # NoToken)
    <3>1. q \in Request /\ ReqInv(q) /\ q.at = "commit"
      BY Known DEF Commit
    <3>2. CASE q.kind = "login"
      BY <3>1, <3>2, <2>1, <1>3 DEF ReqInv, FamilyInv
    <3>3. CASE q.kind # "login"
      <4>1. q.kind \in {"refresh", "blocked"}
        BY <3>1, <3>3, <2>1 DEF ReqInv, FamilyInv
      <4>2. q.token \in Live /\ family[n] = family[q.token]
        BY <4>1, <3>1, <3>3, <2>1 DEF ReqInv, FamilyInv, Live, Request
      <4>3. family[q.token] \in Token
        BY <4>2 DEF IInv, Lineage, Committed, Live
      <4>4. q.token \in LiveOf(family[q.token]) /\ q.token # NoToken
        BY <4>2 DEF LiveOf, Live, Token, NoToken
      <4>5. CurrentOf[family[q.token]] # NoToken
        BY <4>3, <4>4, <1>2, CurrentIs
      <4> QED BY <4>2, <4>3, <4>5
    <3> QED BY <3>2, <3>3
  <2>4. n \in LiveOf(s0)'
    BY <2>1, <2>3, <1>1 DEF LiveOf
  <2>5. s0 \notin ended /\ CurrentOf'[s0] = n
    BY <2>4, <1>2, CurrentIsPrimed
  <2>6. \A s \in Token \ {s0} : LiveOf(s)' \cap own = {}
    BY <2>1, <2>3, <1>1 DEF LiveOf
  <2>7. CurrentOf' = [[s \in Token |-> IF s \in ended THEN NoToken ELSE CurrentOf[s]]
                        EXCEPT ![s0] = n]
    BY <2>5, <2>6, <1>5, <1>6, <1>7
  <2>8. CASE s0 = n
    <3>1. Sessions!Open(n, ended)
      BY <2>2, <2>5, <2>7, <2>8
      DEF Sessions!Open, Sessions!Ended, Sessions!NoToken, NoToken
    <3> QED BY <3>1, <2>2, <1>4 DEF Sessions!Next
  <2>9. CASE s0 # n
    <3>1. Sessions!Rotate(s0, n, ended)
      BY <2>2, <2>3, <2>5, <2>7, <2>9
      DEF Sessions!Rotate, Sessions!Ended, Sessions!NoToken, NoToken
    <3> QED BY <3>1, <2>2, <1>4 DEF Sessions!Next
  <2> QED BY <2>8, <2>9
<1> QED BY <1>8, <1>9

LEMMA StepImplements ==
  IInv /\ [Next]_vars => [Sessions!Next]_(Sessions!vars)
<1> SUFFICES ASSUME IInv, [Next]_vars PROVE [Sessions!Next]_(Sessions!vars)
  OBVIOUS
<1>1. ASSUME UNCHANGED row, UNCHANGED family PROVE UNCHANGED Sessions!vars
  BY <1>1, Stutter DEF IInv, Live, Committed
<1>2. CASE UNCHANGED vars
  BY <1>1, <1>2 DEF vars
<1>3. ASSUME NEW r \in Requests, Begin(r) PROVE UNCHANGED Sessions!vars
  BY <1>1, <1>3 DEF Begin, Login, Refresh, Logout, LogoutAll, ChangePassword,
     ResetPassword, DeleteAccount, AdminSetStatus, Arrive, ArriveToIssue, db
<1>4. ASSUME NEW r \in Requests, Abort(r) PROVE UNCHANGED Sessions!vars
  BY <1>4, UndoneStutter DEF Abort
<1>5. ASSUME NEW r \in Requests, Advance(r) PROVE [Sessions!Next]_(Sessions!vars)
  <2>1. CASE Commit(r)
    BY <2>1, CommitImplements
  <2>2. CASE Rollback(r)
    BY <2>2, UndoneStutter DEF Rollback
  <2>3. CASE InsertToken(r)
    BY <2>3, InsertStutter
  <2>4. CASE UNCHANGED row /\ UNCHANGED family
    BY <2>4, <1>1
  <2> QED
    BY <1>5, <2>1, <2>2, <2>3, <2>4 DEF Advance, LockPresented, PruneSelect, RevokeRow,
       AttachSelect, TouchUser, DescribeRow, ReadStatus, SweepStart, UpdateUser, Respond, db
<1> QED
  BY <1>2, <1>3, <1>4, <1>5 DEF Next

LEMMA InitImplements == Init => Sessions!Init
<1> SUFFICES ASSUME Init PROVE Sessions!Init
  OBVIOUS
<1>1. 1 \in Token
  BY MaxTokensAssumption DEF Token
<1>2. Committed = {1} /\ Live = {1} /\ family[1] = 1
  BY <1>1 DEF Init, Committed, Live
<1>3. LiveOf(1) = {1} /\ \A s \in Token \ {1} : LiveOf(s) = {}
  BY <1>2 DEF LiveOf
<1>4. CurrentOf = [s \in Token |-> IF s = 1 THEN 1 ELSE NoToken]
  BY <1>3 DEF CurrentOf
<1> QED
  BY <1>2, <1>4 DEF Sessions!Init, Sessions!NoToken, NoToken

(* Every behaviour of the concurrent, crashing transactions is one of the  *)
(* simple sessions: a login opens one, a rotation moves its credential to  *)
(* one never stored before, and what was revoked never comes back.         *)
THEOREM Implementation == Spec => ImplementsLoginSessions
BY InitInv, NextInv, InitImplements, StepImplements, PTL
   DEF Spec, ImplementsLoginSessions, Sessions!Spec

-----------------------------------------------------------------------------
(* The cap on sessions *)

(* A request that may insert a row and has pruned; a refresh that finds    *)
(* the account blocked goes on to revoke what it inserted.                 *)
Issuing(q) == /\ q.kind \in {"login", "refresh", "blocked"}
              /\ q.at \notin {"idle", "lock", "prune", "rollback", "ok", "refused"}

(* What its commit leaves live of what is live now                         *)
Revoking(q) == q.revokes \cup IF q.at = "flush" THEN q.todo ELSE {}
Spared(q) == Live \ Revoking(q)

(* since[r]: the requests in whose slots a row was committed since r       *)
(* pruned.  Each adds one session to the MaxSessions that r spared, for a  *)
(* second commit in the same slot pruned after the first.                  *)
Counts(since) ==
    /\ \A r \in Requests : r \notin since[r]
    /\ \A r, p \in Requests :
          Issuing(req[r]) /\ Issuing(req[p]) /\ p \in since[r] => since[p] \subseteq since[r]
    /\ \A r \in Requests :
          Issuing(req[r]) =>
             Cardinality(Spared(req[r])) <= MaxSessions + Cardinality(since[r])

Bounded == SessionCap /\ \E since \in [Requests -> SUBSET Requests] : Counts(since)

LEMMA FiniteTokens ==
  ASSUME NEW S \in SUBSET Token
  PROVE  IsFiniteSet(S) /\ Cardinality(S) \in Nat
<1>1. IsFiniteSet(Token)
  BY MaxTokensAssumption, FS_Interval DEF Token
<1>2. IsFiniteSet(S)
  BY <1>1, FS_Subset
<1> QED
  BY <1>2, FS_CardinalityType

LEMMA LiveTokens == Live \subseteq Token /\ Live' \subseteq Token
BY DEF Live

(* Of a finite set of numbers, at most M have fewer than M above them.     *)
LEMMA FewAbove ==
  ASSUME NEW V \in SUBSET Nat, IsFiniteSet(V), NEW M \in Nat,
         NEW K, K = {t \in V : ~(Cardinality({u \in V : u > t}) >= M)}
  PROVE  Cardinality(K) <= M
<1> DEFINE Above(t) == {u \in V : u > t}
           rank == [t \in K |-> Cardinality(Above(t))]
<1>1. \A t \in V : IsFiniteSet(Above(t)) /\ Cardinality(Above(t)) \in Nat
  <2>1. ASSUME NEW t \in V
        PROVE  IsFiniteSet(Above(t))
    BY FS_Subset
  <2> HIDE DEF Above
  <2> QED
    BY <2>1, FS_CardinalityType
<1>2. ASSUME NEW t \in K, NEW u \in K, t < u
      PROVE  rank[t] # rank[u]
  <2>1. Above(u) \subseteq Above(t) /\ u \in Above(t) /\ u \notin Above(u)
    <3>1. K \subseteq V
      OBVIOUS
    <3>2. t \in Nat /\ u \in Nat /\ u \in V /\ \A v \in V : v \in Nat
      BY <3>1
    <3>3. u > t /\ ~(u > u) /\ \A v \in V : v > u => v > t
      BY <1>2, <3>2
    <3> QED
      BY <3>2, <3>3, Zenon
  <2>2. IsFiniteSet(Above(t))
    BY <1>1
  <2> HIDE DEF Above
  <2>3. Cardinality(Above(u)) # Cardinality(Above(t))
    BY <2>1, <2>2, FS_Subset
  <2> QED
    BY <2>3
<1>3. rank \in [K -> 0 .. M - 1]
  <2>1. \A t \in K : Cardinality(Above(t)) \in Nat /\ ~(Cardinality(Above(t)) >= M)
    BY <1>1
  <2> HIDE DEF Above
  <2>2. \A t \in K : Cardinality(Above(t)) \in 0 .. M - 1
    BY <2>1
  <2> QED
    BY <2>2
<1>4. rank \in Injection(K, 0 .. M - 1)
  <2>1. \A t, u \in K : t = u \/ t < u \/ u < t
    OBVIOUS
  <2>2. DOMAIN rank = K
    OBVIOUS
  <2> HIDE DEF rank
  <2>3. \A t, u \in K : rank[t] = rank[u] => t = u
    BY <1>2, <2>1
  <2> QED
    BY <1>3, <2>2, <2>3 DEF Injection, IsInjective
<1>5. IsFiniteSet(0 .. M - 1) /\ Cardinality(0 .. M - 1) = M
  BY FS_Interval
<1> QED
  BY <1>4, <1>5, FS_Injection

LEMMA BoundedInit == Init => Bounded
<1> SUFFICES ASSUME Init PROVE Bounded
  OBVIOUS
<1>1. Live \subseteq {1}
  BY DEF Init, Live
<1>2. Cardinality(Live) <= 1 /\ Cardinality(Live) \in Nat
  <2>1. IsFiniteSet({1}) /\ Cardinality({1}) = 1
    BY FS_Singleton
  <2>2. IsFiniteSet(Live) /\ Cardinality(Live) <= 1
    BY <1>1, <2>1, FS_Subset
  <2> QED
    BY <2>2, FS_CardinalityType
<1>3. Cardinality(Requests) \in Nat
  BY RequestsAssumption, FS_CardinalityType
<1>4. SessionCap
  BY <1>2, <1>3, MaxSessionsAssumption DEF SessionCap
<1>5. \A r \in Requests : ~Issuing(req[r])
  BY DEF Init, Idle, Issuing
<1> DEFINE since == [r \in Requests |-> {}]
<1>6. since \in [Requests -> SUBSET Requests] /\ Counts(since)
  BY <1>5 DEF Counts
<1> QED
  BY <1>4, <1>6 DEF Bounded

(* A step that makes nothing live.                                         *)
LEMMA BoundedKept ==
  ASSUME Bounded, NEW r \in Requests,
         \A p \in Requests \ {r} : req'[p] = req[p],
         Live' \subseteq Live,
         Issuing(req'[r]) => Issuing(req[r]) /\ Revoking(req[r]) \subseteq Revoking(req'[r])
  PROVE  Bounded'
<1>3. /\ IsFiniteSet(Live) /\ Cardinality(Live) \in Nat /\ Cardinality(Live') \in Nat
      /\ Cardinality(Requests) \in Nat
  BY LiveTokens, FiniteTokens, RequestsAssumption, FS_CardinalityType
<1>4. SessionCap'
  <2>1. Cardinality(Live') <= Cardinality(Live)
    BY <1>3, FS_Subset
  <2> QED
    BY <1>3, <2>1, MaxSessionsAssumption DEF Bounded, SessionCap
<1>5. PICK since \in [Requests -> SUBSET Requests] : Counts(since)
  BY DEF Bounded
<1>6. ASSUME NEW p \in Requests, Issuing(req'[p])
      PROVE  /\ Issuing(req[p])
             /\ Cardinality(Spared(req[p])') <= MaxSessions + Cardinality(since[p])
  <2>1. Issuing(req[p]) /\ Revoking(req[p]) \subseteq Revoking(req'[p])
    BY <1>6
  <2>2. Spared(req[p])' \subseteq Spared(req[p])
    BY <2>1 DEF Spared, Revoking
  <2>3. /\ IsFiniteSet(Spared(req[p])) /\ Cardinality(Spared(req[p])) \in Nat
        /\ Cardinality(Spared(req[p])') \in Nat
    <3>1. Spared(req[p]) \subseteq Token /\ Spared(req[p])' \subseteq Token
      BY DEF Spared, Live
    <3> QED
      BY <3>1, FiniteTokens
  <2>4. Cardinality(Spared(req[p])') <= Cardinality(Spared(req[p]))
    BY <2>2, <2>3, FS_Subset
  <2>5. Cardinality(since[p]) \in Nat
    BY RequestsAssumption, FS_Subset, FS_CardinalityType
  <2> QED
    BY <1>5, <2>1, <2>3, <2>4, <2>5, MaxSessionsAssumption DEF Counts
<1>7. Counts(since)'
  BY <1>5, <1>6 DEF Counts, Issuing
<1> QED
  BY <1>4, <1>5, <1>7 DEF Bounded

LEMMA BoundedArrive ==
  ASSUME IInv, Bounded, NEW r \in Requests, NEW k, NEW place, NEW t, NEW rows,
         \/ Arrive(r, k, place, t, rows) /\ k \notin {"login", "refresh", "blocked"}
         \/ ArriveToIssue(r, k, place, t, rows) /\ place \in {"lock", "prune"}
  PROVE  Bounded'
<1>1. Live' = Live
  BY DEF Arrive, ArriveToIssue, db, Live
<1>2. /\ \A p \in Requests \ {r} : req'[p] = req[p]
      /\ req'[r].kind = k /\ req'[r].at = place
  BY Known DEF Arrive, ArriveToIssue, Becomes, Idle
<1> QED
  BY <1>1, <1>2, BoundedKept DEF Issuing

LEMMA BoundedBegin ==
  ASSUME IInv, Bounded, NEW r \in Requests, Begin(r)
  PROVE  Bounded'
<1>1. CASE Login(r)
  BY <1>1, BoundedArrive DEF Login
<1>2. CASE Refresh(r)
  BY <1>2, BoundedArrive DEF Refresh
<1>3. CASE Logout(r)
  BY <1>3, BoundedArrive DEF Logout
<1>4. CASE LogoutAll(r)
  BY <1>4, BoundedArrive DEF LogoutAll
<1>5. CASE ChangePassword(r)
  BY <1>5, BoundedArrive DEF ChangePassword
<1>6. CASE ResetPassword(r)
  BY <1>6, BoundedArrive DEF ResetPassword
<1>7. CASE DeleteAccount(r)
  BY <1>7, BoundedArrive DEF DeleteAccount
<1>8. CASE AdminSetStatus(r)
  BY <1>8, BoundedArrive DEF AdminSetStatus, AdminKind
<1> QED
  BY <1>1, <1>2, <1>3, <1>4, <1>5, <1>6, <1>7, <1>8 DEF Begin

(* Statements that change nothing of what the transaction will revoke.     *)
LEMMA BoundedStatement ==
  ASSUME IInv, Bounded, NEW r \in Requests,
         \/ AttachSelect(r) \/ TouchUser(r) \/ DescribeRow(r)
         \/ ReadStatus(r) \/ SweepStart(r) \/ UpdateUser(r)
  PROVE  Bounded'
<1>1. /\ Live' = Live
      /\ req[r].at \in {"attach", "touch", "describe", "status", "sweepStart", "user"}
  BY DEF AttachSelect, TouchUser, DescribeRow, ReadStatus, SweepStart, UpdateUser, db, Live
<1>2. req \in [Requests -> Request] /\ req[r] \in Request /\ PlaceInv(req[r])
  BY Known DEF ReqInv
<1>3. /\ \A p \in Requests \ {r} : req'[p] = req[p]
      /\ req'[r].revokes = req[r].revokes
      /\ req'[r].kind = req[r].kind \/ req[r].kind = "refresh"
  <2>1. CASE AttachSelect(r)
    BY <1>2, <2>1 DEF AttachSelect, Becomes, Request
  <2>2. CASE TouchUser(r)
    BY <1>2, <2>2 DEF TouchUser, Becomes, Request
  <2>3. CASE DescribeRow(r)
    BY <1>2, <2>3 DEF DescribeRow, Becomes, Request
  <2>4. CASE ReadStatus(r)
    <3>1. req[r].kind = "refresh"
      BY <1>2, <2>4 DEF ReadStatus, PlaceInv
    <3>2. CASE req' = [req EXCEPT ![r] = [req[r] EXCEPT !.at = "commit"]]
      BY <1>2, <3>1, <3>2 DEF Request
    <3>3. CASE req' = [req EXCEPT ![r] = [req[r] EXCEPT !.at = "sweepStart", !.kind = "blocked"]]
      BY <1>2, <3>1, <3>3 DEF Request
    <3> QED
      BY <2>4, <3>2, <3>3 DEF ReadStatus, Becomes
  <2>5. CASE SweepStart(r)
    BY <1>2, <2>5 DEF SweepStart, Becomes, Request
  <2>6. CASE UpdateUser(r)
    BY <1>2, <2>6 DEF UpdateUser, Becomes, Request
  <2> QED
    BY <2>1, <2>2, <2>3, <2>4, <2>5, <2>6
<1>4. Issuing(req'[r]) => Issuing(req[r]) /\ Revoking(req[r]) \subseteq Revoking(req'[r])
  BY <1>1, <1>3 DEF Issuing, Revoking
<1> QED
  BY <1>1, <1>3, <1>4, BoundedKept

(* Statements after which the transaction is before its prune or is over,  *)
(* without a row that becomes live.                                        *)
LEMMA BoundedOutside ==
  ASSUME IInv, Bounded, NEW r \in Requests,
         LockPresented(r) \/ Respond(r) \/ Rollback(r) \/ Abort(r)
  PROVE  Bounded'
<1>1. Live' \subseteq Live
  BY DEF LockPresented, Respond, Rollback, Abort, Undone, db, Live
<1>2. req \in [Requests -> Request] /\ req[r] \in Request
  BY Known
<1>3. (\A p \in Requests \ {r} : req'[p] = req[p]) /\ ~Issuing(req'[r])
  <2>1. CASE LockPresented(r)
    <3>1. PICK t : req' \in {[req EXCEPT ![r] = [req[r] EXCEPT !.kind = "reuse", !.todo = {},
                                                !.at = "sweepStart", !.held = {t}]],
                             [req EXCEPT ![r] = [req[r] EXCEPT !.at = "prune", !.todo = {},
                                                !.held = {t}, !.revokes = {t}]],
                             [req EXCEPT ![r] = [req[r] EXCEPT !.at = "rollback", !.todo = {},
                                                !.held = {t}]]}
      BY <2>1 DEF LockPresented, Becomes
    <3>2. /\ \A p \in Requests \ {r} : req'[p] = req[p]
          /\ req'[r].at \in {"prune", "rollback"} \/ req'[r].kind = "reuse"
      BY <1>2, <3>1 DEF Request
    <3> QED
      BY <3>2 DEF Issuing
  <2>2. CASE Rollback(r)
    BY <1>2, <2>2 DEF Rollback, Becomes, Request, Issuing
  <2>3. CASE Respond(r) \/ Abort(r)
    BY <1>2, <2>3 DEF Respond, Abort, Becomes, Idle, Issuing
  <2> QED
    BY <2>1, <2>2, <2>3
<1> QED
  BY <1>1, <1>3, BoundedKept

(* One more of the rows that are to be revoked is locked.                  *)
LEMMA BoundedRevokeRow ==
  ASSUME IInv, Bounded, NEW r \in Requests, RevokeRow(r)
  PROVE  Bounded'
<1>1. Live' = Live /\ req[r].at \in {"flush", "revoke", "sweep"}
  BY DEF RevokeRow, db, Live
<1>2. req \in [Requests -> Request] /\ req[r] \in Request
  BY Known
<1>3. PICK t \in req[r].todo :
         Becomes(r, [req[r] EXCEPT
                      !.at = IF req[r].todo = {t} THEN AfterRevoking(r) ELSE req[r].at,
                      !.todo = IF req[r].todo = {t} /\ AfterRevoking(r) = "user" THEN {UserRow}
                               ELSE req[r].todo \ {t},
                      !.held = req[r].held \cup {t},
                      !.revokes = req[r].revokes \cup {t}])
  BY DEF RevokeRow
<1>4. /\ \A p \in Requests \ {r} : req'[p] = req[p]
      /\ req'[r].kind = req[r].kind
      /\ req'[r].revokes = req[r].revokes \cup {t}
      /\ req'[r].at = IF req[r].todo = {t} THEN AfterRevoking(r) ELSE req[r].at
      /\ req[r].todo # {t} => req'[r].todo = req[r].todo \ {t}
  BY <1>2, <1>3 DEF Becomes, Request
<1>5. Issuing(req'[r]) => Issuing(req[r])
  BY <1>1, <1>4 DEF Issuing
<1>6. Revoking(req[r]) \subseteq Revoking(req'[r])
  <2>1. CASE req[r].todo = {t}
    BY <1>4, <2>1 DEF Revoking
  <2>2. CASE req[r].todo # {t}
    BY <1>4, <2>2 DEF Revoking
  <2> QED
    BY <2>1, <2>2
<1> QED
  BY <1>1, <1>4, <1>5, <1>6, BoundedKept

LEMMA BoundedInsert ==
  ASSUME IInv, Bounded, NEW r \in Requests, InsertToken(r)
  PROVE  Bounded'
<1>1. /\ req \in [Requests -> Request] /\ req[r] \in Request /\ req[r].at = "insert"
      /\ PlaceInv(req[r]) /\ row \in [Token -> {"none", "pending", "live", "revoked"}]
  BY Known DEF InsertToken, ReqInv, IInv, TypeOK
<1>2. Live' = Live
  BY <1>1 DEF InsertToken, PlaceInv, Live
<1>3. /\ \A p \in Requests \ {r} : req'[p] = req[p]
      /\ req'[r].kind = req[r].kind /\ req'[r].revokes = req[r].revokes
  BY <1>1 DEF InsertToken, Becomes, Request
<1>4. Issuing(req'[r]) => Issuing(req[r]) /\ Revoking(req[r]) \subseteq Revoking(req'[r])
  BY <1>1, <1>3 DEF Issuing, Revoking
<1> QED
  BY <1>2, <1>3, <1>4, BoundedKept

(* A prune leaves MaxSessions of the rows that are live now.               *)
LEMMA PruneSpares ==
  ASSUME IInv, NEW r \in Requests, PruneSelect(r)
  PROVE  Cardinality(Spared(req[r])') <= MaxSessions
<1>1. /\ req \in [Requests -> Request] /\ req[r] \in Request
      /\ req[r].at = "prune" /\ Live' = Live
  BY Known DEF PruneSelect, db, Live
<1>2. /\ req'[r].revokes = req[r].revokes /\ req'[r].todo = Stale(r)
      /\ req'[r].at = IF Stale(r) = {} THEN "insert" ELSE "flush"
  BY <1>1 DEF PruneSelect, Becomes, Request
<1> DEFINE V == VisibleLive(r)
           K == {t \in V : ~(Cardinality({u \in V : u > t}) >= MaxSessions)}
<1>3. V \subseteq Token /\ V \subseteq Nat
  BY MaxTokensAssumption DEF VisibleLive, OwnInsert, Live, Token
<1>4. Cardinality(K) <= MaxSessions
  <2>1. IsFiniteSet(V) /\ MaxSessions \in Nat
    BY <1>3, FiniteTokens, MaxSessionsAssumption
  <2> HIDE DEF V
  <2> QED
    BY <1>3, <2>1, FewAbove
<1>5. K = V \ Stale(r)
  BY DEF Stale
<1>6. Spared(req[r])' \subseteq K
  <2>1. Revoking(req'[r]) = req[r].revokes \cup Stale(r)
    BY <1>2 DEF Revoking
  <2>2. Spared(req[r])' = Live \ (req[r].revokes \cup Stale(r))
    BY <1>1, <2>1 DEF Spared, Revoking
  <2> HIDE DEF K
  <2> QED
    BY <1>5, <2>2 DEF VisibleLive
<1>7. K \subseteq Token
  BY <1>3
<1> HIDE DEF K, V
<1>8. IsFiniteSet(K) /\ Cardinality(K) \in Nat /\ Cardinality(Spared(req[r])') \in Nat
  BY <1>6, <1>7, FiniteTokens
<1>9. Cardinality(Spared(req[r])') <= Cardinality(K)
  BY <1>6, <1>8, FS_Subset
<1> QED
  BY <1>4, <1>8, <1>9, MaxSessionsAssumption

LEMMA BoundedPrune ==
  ASSUME IInv, Bounded, NEW r \in Requests, PruneSelect(r)
  PROVE  Bounded'
<1>1. /\ req \in [Requests -> Request] /\ req[r] \in Request
      /\ req[r].at = "prune" /\ Live' = Live
  BY Known DEF PruneSelect, db, Live
<1>2. \A p \in Requests \ {r} : req'[p] = req[p]
  BY <1>1 DEF PruneSelect, Becomes
<1>3. PICK since \in [Requests -> SUBSET Requests] : Counts(since)
  BY DEF Bounded
<1> DEFINE now == [since EXCEPT ![r] = {}]
<1>4. /\ now \in [Requests -> SUBSET Requests] /\ now[r] = {}
      /\ \A p \in Requests \ {r} : now[p] = since[p]
  OBVIOUS
<1> HIDE DEF now
<1>5. ASSUME NEW p \in Requests, Issuing(req'[p])
      PROVE  Cardinality(Spared(req[p])') <= MaxSessions + Cardinality(now[p])
  <2>1. CASE p = r
    <3>1. Cardinality(Spared(req[r])') <= MaxSessions
      BY PruneSpares
    <3>2. Cardinality(now[r]) = 0
      BY <1>4, FS_EmptySet
    <3>3. Cardinality(Spared(req[r])') <= MaxSessions + Cardinality(now[r])
      BY <3>1, <3>2, MaxSessionsAssumption
    <3> QED
      BY <2>1, <3>3
  <2>2. CASE p # r
    <3>1. Issuing(req[p]) /\ Spared(req[p])' = Spared(req[p]) /\ now[p] = since[p]
      BY <1>1, <1>2, <1>4, <1>5, <2>2 DEF Spared, Revoking
    <3> QED
      BY <1>3, <3>1 DEF Counts
  <2> QED
    BY <2>1, <2>2
<1>6. ASSUME NEW p \in Requests, NEW o \in Requests, Issuing(req'[p]), Issuing(req'[o]),
             o \in now[p]
      PROVE  now[o] \subseteq now[p]
  <2>1. p # r
    BY <1>4, <1>6
  <2>2. CASE o = r
    BY <1>4, <2>2
  <2>3. CASE o # r
    BY <1>2, <1>3, <1>4, <1>6, <2>1, <2>3 DEF Counts
  <2> QED
    BY <2>2, <2>3
<1>7. \A p \in Requests : p \notin now[p]
  BY <1>3, <1>4 DEF Counts
<1>8. Counts(now)'
  BY <1>5, <1>6, <1>7 DEF Counts, Issuing
<1>9. SessionCap'
  BY <1>1 DEF Bounded, SessionCap
<1> QED
  BY <1>4, <1>8, <1>9 DEF Bounded

LEMMA OneMore ==
  ASSUME NEW A, IsFiniteSet(A), NEW x, NEW B, B \subseteq A \cup {x}
  PROVE  /\ Cardinality(A) \in Nat /\ Cardinality(B) \in Nat
         /\ Cardinality(B) <= Cardinality(A) + 1
<1>1. IsFiniteSet(A \cup {x}) /\ Cardinality(A) \in Nat /\ Cardinality(A \cup {x}) \in Nat
  BY FS_AddElement, FS_CardinalityType
<1>2. Cardinality(A \cup {x}) <= Cardinality(A) + 1
  BY <1>1, FS_AddElement
<1>3. IsFiniteSet(B) /\ Cardinality(B) <= Cardinality(A \cup {x})
  BY <1>1, FS_Subset
<1>4. Cardinality(B) \in Nat
  BY <1>3, FS_CardinalityType
<1> QED
  BY <1>1, <1>2, <1>3, <1>4

(* What r committed is new to those that pruned before, or its slot had    *)
(* committed something since and r pruned after that.                      *)
LEMMA CommitSpares ==
  ASSUME IInv, NEW r \in Requests, Commit(r), Issuing(req[r]),
         NEW since \in [Requests -> SUBSET Requests], Counts(since),
         NEW p \in Requests \ {r}, Issuing(req[p])
  PROVE  Cardinality(Live' \ Revoking(req[p])) <= MaxSessions + Cardinality(since[p] \cup {r})
<1> DEFINE n == req[r].new
           A == Spared(req[p])
           R == Spared(req[r])
           B == Live' \ Revoking(req[p])
<1>1. B \subseteq A \cup {n} /\ B \subseteq R \cup {n}
  <2>1. OwnRow(req[r]) \subseteq {n} /\ req[r].at = "commit"
    BY DEF OwnRow, Commit
  <2>2. Live' \subseteq (Live \cup {n}) \ req[r].revokes
    BY <2>1, CommitRows
  <2> QED
    BY <2>1, <2>2 DEF Spared, Revoking
<1>2. IsFiniteSet(A) /\ IsFiniteSet(R)
  <2>1. A \subseteq Token /\ R \subseteq Token
    BY DEF Spared, Live
  <2> QED
    BY <2>1, FiniteTokens
<1>3. /\ Cardinality(A) \in Nat /\ Cardinality(R) \in Nat /\ Cardinality(B) \in Nat
      /\ Cardinality(B) <= Cardinality(A) + 1 /\ Cardinality(B) <= Cardinality(R) + 1
  <2> HIDE DEF A, R, B, n
  <2> QED
    BY <1>1, <1>2, OneMore
<1>4. /\ Cardinality(A) <= MaxSessions + Cardinality(since[p])
      /\ Cardinality(R) <= MaxSessions + Cardinality(since[r])
      /\ r \notin since[r] /\ (r \in since[p] => since[r] \subseteq since[p])
  BY DEF Counts
<1> HIDE DEF A, R, B
<1>5. IsFiniteSet(since[p]) /\ IsFiniteSet(since[r])
  BY RequestsAssumption, FS_Subset
<1>6. Cardinality(since[p]) \in Nat /\ Cardinality(since[r]) \in Nat
  BY <1>5, FS_CardinalityType
<1>7. CASE r \notin since[p]
  <2>1. Cardinality(since[p] \cup {r}) = Cardinality(since[p]) + 1
    BY <1>5, <1>7, FS_AddElement
  <2> QED
    BY <1>3, <1>4, <1>6, <2>1, MaxSessionsAssumption DEF B
<1>8. CASE r \in since[p]
  <2>1. since[p] \cup {r} = since[p] /\ since[r] \subseteq since[p] \ {r}
    BY <1>4, <1>8
  <2>2. IsFiniteSet(since[p] \ {r}) /\ Cardinality(since[p] \ {r}) = Cardinality(since[p]) - 1
    BY <1>5, <1>8, FS_RemoveElement
  <2>3. Cardinality(since[r]) <= Cardinality(since[p]) - 1
    BY <2>1, <2>2, FS_Subset
  <2>4. Cardinality(B) <= MaxSessions + Cardinality(since[p])
    BY <1>3, <1>4, <1>6, <2>3, MaxSessionsAssumption
  <2> QED
    BY <2>1, <2>4 DEF B
<1> QED
  BY <1>7, <1>8

(* What r leaves live is what it spared, one for each other slot in which  *)
(* something was committed since, and its own row.                         *)
LEMMA CommitCap ==
  ASSUME IInv, NEW r \in Requests, Commit(r), Issuing(req[r]),
         NEW since \in [Requests -> SUBSET Requests], Counts(since)
  PROVE  SessionCap'
<1> DEFINE n == req[r].new
           R == Spared(req[r])
<1>1. Live' \subseteq R \cup {n}
  <2>1. OwnRow(req[r]) \subseteq {n} /\ req[r].at = "commit"
    BY DEF OwnRow, Commit
  <2> QED
    BY <2>1, CommitRows DEF Spared, Revoking
<1>2. IsFiniteSet(R) /\ Cardinality(R) <= MaxSessions + Cardinality(since[r])
  <2>1. R \subseteq Token
    BY DEF Spared, Live
  <2> QED
    BY <2>1, FiniteTokens DEF Counts
<1> HIDE DEF R, n
<1>3. Cardinality(R) \in Nat /\ Cardinality(Live') \in Nat /\ Cardinality(Live') <= Cardinality(R) + 1
  BY <1>1, <1>2, OneMore
<1>4. since[r] \subseteq Requests \ {r}
  BY DEF Counts
<1>5. /\ IsFiniteSet(Requests \ {r}) /\ Cardinality(Requests \ {r}) = Cardinality(Requests) - 1
      /\ Cardinality(Requests) \in Nat
  BY RequestsAssumption, FS_RemoveElement, FS_CardinalityType
<1>6. Cardinality(since[r]) <= Cardinality(Requests) - 1 /\ Cardinality(since[r]) \in Nat
  <2>1. IsFiniteSet(since[r]) /\ Cardinality(since[r]) <= Cardinality(Requests \ {r})
    BY <1>4, <1>5, FS_Subset
  <2> QED
    BY <1>5, <2>1, FS_CardinalityType
<1> QED
  BY <1>2, <1>3, <1>5, <1>6, MaxSessionsAssumption DEF SessionCap

LEMMA BoundedCommit ==
  ASSUME IInv, Bounded, NEW r \in Requests, Commit(r)
  PROVE  Bounded'
<1>1. /\ req \in [Requests -> Request] /\ req[r] \in Request /\ FamilyInv(req[r])
      /\ req[r].at = "commit"
  BY Known DEF Commit, ReqInv
<1>2. (\A p \in Requests \ {r} : req'[p] = req[p]) /\ ~Issuing(req'[r])
  <2>1. \A p \in Requests \ {r} : req'[p] = req[p]
    BY <1>1 DEF Commit, Becomes
  <2>2. req'[r].at \in {"ok", "refused"}
    BY <1>1 DEF Commit, Becomes, Request
  <2> QED
    BY <2>1, <2>2 DEF Issuing
<1>3. CASE ~Issuing(req[r])
  <2>1. OwnRow(req[r]) = {}
    BY <1>1, <1>3 DEF FamilyInv, Issuing
  <2>2. Live' \subseteq Live
    BY <2>1, CommitRows
  <2> QED
    BY <1>2, <2>2, BoundedKept
<1>4. CASE Issuing(req[r])
  <2>1. PICK since \in [Requests -> SUBSET Requests] : Counts(since)
    BY DEF Bounded
  <2> DEFINE now == [p \in Requests |-> IF p = r THEN {} ELSE since[p] \cup {r}]
  <2>2. /\ now \in [Requests -> SUBSET Requests] /\ now[r] = {}
        /\ \A p \in Requests \ {r} : now[p] = since[p] \cup {r}
    OBVIOUS
  <2> HIDE DEF now
  <2>3. ASSUME NEW p \in Requests, Issuing(req'[p])
        PROVE  Cardinality(Spared(req[p])') <= MaxSessions + Cardinality(now[p])
    <3>1. p \in Requests \ {r} /\ req'[p] = req[p]
      BY <1>2, <2>3
    <3>2. Issuing(req[p])
      BY <2>3, <3>1
    <3>3. Spared(req[p])' = Live' \ Revoking(req[p])
      BY <3>1 DEF Spared, Revoking
    <3>4. Cardinality(Live' \ Revoking(req[p])) <= MaxSessions + Cardinality(since[p] \cup {r})
      BY <1>4, <2>1, <3>1, <3>2, CommitSpares
    <3> QED
      BY <2>2, <3>1, <3>3, <3>4
  <2>4. ASSUME NEW p \in Requests, NEW o \in Requests, Issuing(req'[p]), Issuing(req'[o]),
               o \in now[p]
        PROVE  now[o] \subseteq now[p]
    <3>1. p # r /\ o # r /\ Issuing(req[p]) /\ Issuing(req[o])
      BY <1>2, <2>4
    <3> QED
      BY <2>1, <2>2, <2>4, <3>1 DEF Counts
  <2>5. \A p \in Requests : p \notin now[p]
    BY <2>1, <2>2 DEF Counts
  <2>6. Counts(now)'
    BY <2>3, <2>4, <2>5 DEF Counts, Issuing
  <2>7. SessionCap'
    BY <1>4, <2>1, CommitCap
  <2> QED
    BY <2>2, <2>6, <2>7 DEF Bounded
<1> QED
  BY <1>3, <1>4

LEMMA BoundedInv == IInv /\ Bounded /\ [Next]_vars => Bounded'
<1> SUFFICES ASSUME IInv, Bounded, [Next]_vars PROVE Bounded'
  OBVIOUS
<1>1. CASE UNCHANGED vars
  BY <1>1 DEF vars, Bounded, SessionCap, Counts, Issuing, Spared, Revoking, Live
<1>2. ASSUME NEW r \in Requests, Advance(r)
      PROVE  Bounded'
  BY <1>2, BoundedStatement, BoundedOutside, BoundedRevokeRow, BoundedInsert, BoundedPrune,
     BoundedCommit DEF Advance
<1> QED
  BY <1>1, <1>2, BoundedBegin, BoundedOutside DEF Next

(* issue_refresh_token prunes before it inserts, without a lock: that      *)
(* bounds the live sessions of an account by _MAX_REFRESH_SESSIONS and one *)
(* for each request that runs at once, however they interleave.            *)
THEOREM CapHolds == Spec => []SessionCap
<1>1. Bounded => SessionCap
  BY DEF Bounded
<1>2. Spec => []Bounded
  BY InitInv, BoundedInit, NextInv, BoundedInv, PTL DEF Spec
<1> QED BY <1>1, <1>2, PTL

=============================================================================
