-------------------------- MODULE RefreshSessions --------------------------
(***************************************************************************)
(* The refresh-token sessions of ONE MarGem account: the rows of table     *)
(* refresh_tokens that belong to it, its row in table users, and the HTTP  *)
(* requests that read and write them concurrently.  Every statement of the *)
(* handlers names the rows by user_id or by token hash, so rows of other   *)
(* accounts never take part.                                               *)
(*                                                                         *)
(* A request is one SQLAlchemy session: one PostgreSQL transaction at READ *)
(* COMMITTED, closed (rolled back) by get_db when the handler leaves       *)
(* without commit().  One action is one SQL statement, or one row of an    *)
(* UPDATE of several rows: such an UPDATE locks row after row, in an order *)
(* the plan decides, and waits for a row another transaction holds.        *)
(***************************************************************************)
EXTENDS Integers, FiniteSets

CONSTANTS
    Requests,     \* requests the server runs at the same time
    MaxSessions,  \* _MAX_REFRESH_SESSIONS
    MaxTokens,    \* bound: ids of token rows, so of requests that may issue one
    Handlers      \* bound: the handlers that are called

ASSUME RequestsAssumption == IsFiniteSet(Requests)
ASSUME MaxSessionsAssumption == MaxSessions \in Nat \ {0}
ASSUME MaxTokensAssumption == MaxTokens \in Nat \ {0}

(* A token row is named by its place in the order of created_at, which is  *)
(* now(): the start of the transaction that inserts the row.               *)
Token == 1 .. MaxTokens
NoToken == 0
UserRow == 0               \* the lock on the account's row of table users
Row == Token \cup {UserRow}

VARIABLES
    row,         \* committed state of each token row; "pending": an uncommitted insert
    family,      \* the login a token descends from by rotations (history)
    device,      \* the login whose device metadata the row shows
    status,      \* users.status
    hasPassword, \* users.password_hash is not NULL
    clock,       \* number of transactions that were given a created_at
    req          \* the requests: their place in the handler and their transaction

vars == <<row, family, device, status, hasPassword, clock, req>>
db == <<row, family, device, status, hasPassword>>

AdminKind == {"reactivate", "suspend", "remove"}
(* Seeded fault: a status outside the enumeration UserStatus.              *)
StatusSetByUnlisted(k) == IF k = "suspend" THEN "BLOCKED" ELSE status
StatusSetBy(k) == CASE k = "reactivate" -> "ACTIVE"
                    [] k = "suspend" -> "SUSPENDED"
                    [] k = "remove" -> "DELETED"
                    [] k = "delete" -> "DELETED"
                    [] OTHER -> status
Kind == AdminKind \cup {"login", "refresh", "reuse", "blocked", "logout",
                        "logoutAll", "setPassword", "resetPassword", "delete"}

(* kind   : the handler, and for a refresh the branch it took             *)
(* at     : the statement to run next ("ok", "refused": the answer)       *)
(* token  : the token presented, or the row a login describes             *)
(* new    : the row this transaction may insert                           *)
(* todo   : rows the current statement has yet to lock                    *)
(* held   : rows the transaction has locked                               *)
(* revokes: rows it has set revoked                                       *)
(* swept  : rows its revoke_all UPDATE saw when it started                *)
Idle == [kind |-> "logout", at |-> "idle", token |-> NoToken, new |-> NoToken,
         todo |-> {}, held |-> {}, revokes |-> {}, swept |-> {}]

Location == {"idle", "lock", "prune", "flush", "insert", "attach", "touch", "describe",
             "status", "revoke", "user", "sweepStart", "sweep", "commit",
             "rollback", "ok", "refused"}

TypeOK ==
    /\ row \in [Token -> {"none", "pending", "live", "revoked"}]
    /\ family \in [Token -> 0 .. MaxTokens]
    /\ device \in [Token -> 0 .. MaxTokens]
    /\ status \in {"ACTIVE", "SUSPENDED", "DELETED"}
    /\ hasPassword \in BOOLEAN
    /\ clock \in 0 .. MaxTokens
    /\ req \in [Requests -> [kind : Kind, at : Location,
                             token : 0 .. MaxTokens, new : 0 .. MaxTokens,
                             todo : SUBSET Row, held : SUBSET Row,
                             revokes : SUBSET Token, swept : SUBSET Token]]

-----------------------------------------------------------------------------
(* What transactions see *)

Committed == {t \in Token : row[t] \in {"live", "revoked"}}
Live == {t \in Token : row[t] = "live"}

(* READ COMMITTED: committed rows as they are now, overlaid with the       *)
(* transaction's own writes.                                               *)
OwnInsert(r) == {t \in Token : t = req[r].new /\ row[t] = "pending"}
VisibleLive(r) == (Live \cup OwnInsert(r)) \ req[r].revokes

(* Seeded fault: the slice starts one row too late.                        *)
StaleOffByOne(r) ==
    {t \in VisibleLive(r) :
        Cardinality({u \in VisibleLive(r) : u > t}) > MaxSessions}

(* tokens[_MAX_REFRESH_SESSIONS:] of the visible live rows, newest first   *)
Stale(r) ==
    {t \in VisibleLive(r) :
        Cardinality({u \in VisibleLive(r) : u > t}) >= MaxSessions}

(* order_by(created_at.desc()).limit(1); seeded fault: ascending order.    *)
IsFirstAscending(t, S) == \A u \in S : t <= u
IsFirst(t, S) == \A u \in S : u <= t

(* Transaction p keeps r from writing row x.  An INSERT that refers to the *)
(* users row shares its key, which the UPDATE of users by delete_account   *)
(* changes (the email is unique), and the other UPDATEs of users do not.   *)
Blocks(p, x, r) ==
    \/ x \in req[p].held
    \/ x = UserRow /\ req[r].kind = "delete" /\ OwnInsert(p) # {}

Free(x, r) == \A p \in Requests \ {r} : ~Blocks(p, x, r)

Running(r) == req[r].at \notin {"idle", "ok", "refused"}

(* Seeded fault: waiting transactions are never aborted.                   *)
DeadlockedUndetected(r) == FALSE

(* Requests that wait for rows held by one another, so that none can go on *)
Deadlocked(r) ==
    \E D \in SUBSET Requests :
        /\ r \in D
        /\ \A q \in D : /\ req[q].todo # {}
                        /\ \A x \in req[q].todo :
                              \E p \in D \ {q} : Blocks(p, x, q)

Becomes(r, q) == req' = [req EXCEPT ![r] = q]

-----------------------------------------------------------------------------
(* Requests arrive.  A request that is turned away by its first read       *)
(* (wrong password, account not active, unknown session id) writes nothing *)
(* and is not represented.                                                 *)

Arrive(r, k, place, t, rows) ==
    /\ k \in Handlers
    /\ req[r].at = "idle"
    /\ Becomes(r, [Idle EXCEPT !.kind = k, !.at = place, !.token = t, !.todo = rows])
    /\ UNCHANGED <<db, clock>>

(* ... the same for a request that may insert a row: its transaction       *)
(* starts now, and so will be the created_at of that row.                  *)
ArriveToIssue(r, k, place, t, rows) ==
    /\ k \in Handlers
    /\ req[r].at = "idle"
    /\ clock < MaxTokens
    /\ clock' = clock + 1
    /\ Becomes(r, [Idle EXCEPT !.kind = k, !.at = place, !.token = t, !.todo = rows,
                               !.new = clock + 1])
    /\ UNCHANGED db

Login(r) ==
    /\ status = "ACTIVE"
    /\ hasPassword
    /\ ArriveToIssue(r, "login", "prune", NoToken, {})

(* Any token ever given to a client can come back: the current one, one    *)
(* already rotated (its answer was lost, or a copy was kept), one revoked. *)
Refresh(r) ==
    \E t \in Committed : ArriveToIssue(r, "refresh", "lock", t, {t})

(* logout and revoke_session: read the row without a lock, and write it    *)
(* at commit only if the value read was not revoked yet.                   *)
Logout(r) ==
    \E t \in Live : Arrive(r, "logout", "revoke", t, {t})

LogoutAll(r) ==
    /\ status = "ACTIVE"
    /\ Arrive(r, "logoutAll", "sweepStart", NoToken, {})

(* The new hash is flushed, and the users row locked, before revoke_all.   *)
ChangePassword(r) ==
    /\ status = "ACTIVE"
    /\ hasPassword
    /\ Arrive(r, "setPassword", "user", NoToken, {UserRow})

(* confirm_password_reset: the same for a caller with a reset token, which *)
(* asks for no status and may have been issued just before a deletion.     *)
ResetPassword(r) == Arrive(r, "resetPassword", "user", NoToken, {UserRow})

(* delete_account sets the users columns after revoke_all.                 *)
DeleteAccount(r) ==
    /\ status = "ACTIVE"
    /\ hasPassword
    /\ Arrive(r, "delete", "sweepStart", NoToken, {})

(* admin_set_status: a status that is already set is not written again.    *)
AdminSetStatus(r) ==
    \E k \in AdminKind :
        \/ /\ StatusSetBy(k) # status
           /\ Arrive(r, k, "user", NoToken, {UserRow})
        \/ /\ StatusSetBy(k) = status
           /\ k # "reactivate"
           /\ Arrive(r, k, "sweepStart", NoToken, {})

-----------------------------------------------------------------------------
(* rotate_refresh_token, issue_refresh_token, _token_response *)

(* with_for_update(): the SELECT waits for the row.  Seeded fault: without. *)
PresentedUnlocked(r) == TRUE
PresentedLocked(r) == Free(req[r].token, r)

(* ... and then reads its newest committed version.                        *)
LockPresented(r) ==
    LET t == req[r].token IN
    /\ req[r].at = "lock"
    /\ PresentedLocked(r)
    /\ \/ /\ row[t] = "revoked"
          /\ Becomes(r, [req[r] EXCEPT !.kind = "reuse", !.todo = {},
                                       !.at = "sweepStart", !.held = {t}])
       \/ /\ row[t] = "live"           \* not expired: revoked, then replaced
          /\ Becomes(r, [req[r] EXCEPT !.at = "prune", !.todo = {},
                                       !.held = {t}, !.revokes = {t}])
       \/ /\ row[t] = "live"           \* expired: stored.revoked is never flushed
          /\ Becomes(r, [req[r] EXCEPT !.at = "rollback", !.todo = {},
                                       !.held = {t}])
    /\ UNCHANGED <<db, clock>>

PruneSelect(r) ==
    /\ req[r].at = "prune"
    /\ Becomes(r, [req[r] EXCEPT !.at = IF Stale(r) = {} THEN "insert" ELSE "flush",
                                 !.todo = Stale(r)])
    /\ UNCHANGED <<db, clock>>

(* Seeded fault: logout_all returns without commit().                      *)
AfterRevokingUncommitted(r) ==
    CASE req[r].at = "flush" -> "insert"
      [] req[r].kind \in {"reuse", "logoutAll"} -> "rollback"
      [] req[r].at = "sweep" /\ req[r].kind = "delete" -> "user"
      [] OTHER -> "commit"

(* Where a handler goes after the last row of an UPDATE that sets revoked: *)
(* it inserts the new row after the pruned ones, commits a logout; after   *)
(* revoke_all, the handler of a reused token leaves with 401 before any    *)
(* commit(), and delete_account still has the users row to write.          *)
AfterRevoking(r) ==
    CASE req[r].at = "flush" -> "insert"
      [] req[r].at = "sweep" /\ req[r].kind = "reuse" -> "rollback"
      [] req[r].at = "sweep" /\ req[r].kind = "delete" -> "user"
      [] OTHER -> "commit"

(* One row of an UPDATE that sets revoked: the pruned rows, the row of a   *)
(* logout, the rows of revoke_all.                                         *)
RevokeRow(r) ==
    /\ req[r].at \in {"flush", "revoke", "sweep"}
    /\ \E t \in req[r].todo :
        LET last == req[r].todo = {t} IN
        /\ Free(t, r)
        /\ Becomes(r, [req[r] EXCEPT
                      !.at = IF last THEN AfterRevoking(r) ELSE req[r].at,
                      !.todo = IF last /\ AfterRevoking(r) = "user" THEN {UserRow}
                               ELSE req[r].todo \ {t},
                      !.held = req[r].held \cup {t},
                      !.revokes = req[r].revokes \cup {t}])
    /\ UNCHANGED <<db, clock>>

InsertToken(r) ==
    LET n == req[r].new
        refreshing == req[r].kind = "refresh" IN
    /\ req[r].at = "insert"
    /\ \A p \in Requests \ {r} : req[p].kind = "delete" => UserRow \notin req[p].held
    /\ row' = [row EXCEPT ![n] = "pending"]
    /\ family' = [family EXCEPT ![n] = IF refreshing THEN family[req[r].token] ELSE n]
    /\ Becomes(r, [req[r] EXCEPT
                    !.at = IF refreshing THEN "status" ELSE "attach",
                    !.held = req[r].held \cup {n}])
    /\ UNCHANGED <<device, status, hasPassword, clock>>

(* The row that gets the device metadata is looked up again: the newest    *)
(* live row of the account.  The flush that follows writes last_login_at   *)
(* to the users row first.                                                 *)
AttachSelect(r) ==
    /\ req[r].at = "attach"
    /\ \E t \in VisibleLive(r) :
        /\ IsFirst(t, VisibleLive(r))
        /\ Becomes(r, [req[r] EXCEPT !.at = "touch", !.todo = {UserRow},
                                     !.token = t])
    /\ UNCHANGED <<db, clock>>

TouchUser(r) ==
    /\ req[r].at = "touch"
    /\ Free(UserRow, r)
    /\ Becomes(r, [req[r] EXCEPT !.at = "describe",
                                 !.todo = {req[r].token},
                                 !.held = req[r].held \cup {UserRow}])
    /\ UNCHANGED <<db, clock>>

DescribeRow(r) ==
    /\ req[r].at = "describe"
    /\ Free(req[r].token, r)
    /\ Becomes(r, [req[r] EXCEPT !.at = "commit", !.todo = {},
                                 !.held = req[r].held \cup {req[r].token}])
    /\ UNCHANGED <<db, clock>>

(* refresh_tokens reads users.status after the rotation.                   *)
ReadStatus(r) ==
    /\ req[r].at = "status"
    /\ IF status = "ACTIVE"
         THEN Becomes(r, [req[r] EXCEPT !.at = "commit"])
         ELSE Becomes(r, [req[r] EXCEPT !.at = "sweepStart", !.kind = "blocked"])
    /\ UNCHANGED <<db, clock>>

-----------------------------------------------------------------------------
(* revoke_all_refresh_tokens, and the UPDATE of the users row *)

SweepStart(r) ==
    LET rows == Committed \cup OwnInsert(r) IN
    /\ req[r].at = "sweepStart"
    /\ Becomes(r, [req[r] EXCEPT !.at = "sweep", !.todo = rows, !.swept = rows])
    /\ UNCHANGED <<db, clock>>

UpdateUser(r) ==
    /\ req[r].at = "user"
    /\ Free(UserRow, r)
    /\ Becomes(r, [req[r] EXCEPT
                  !.at = IF req[r].kind \in {"delete", "reactivate"} THEN "commit"
                         ELSE "sweepStart",
                  !.todo = {}, !.held = req[r].held \cup {UserRow}])
    /\ UNCHANGED <<db, clock>>

-----------------------------------------------------------------------------
(* The end of a transaction *)

Commit(r) ==
    LET q == req[r] IN
    /\ q.at = "commit"
    /\ row' = [t \in Token |->
                 CASE t \in q.revokes -> "revoked"
                   [] t \notin q.revokes /\ t = q.new /\ row[t] = "pending" -> "live"
                   [] OTHER -> row[t]]
    /\ device' = IF q.kind = "login" THEN [device EXCEPT ![q.token] = q.new]
                 ELSE device
    /\ status' = IF UserRow \in q.held THEN StatusSetBy(q.kind) ELSE status
    /\ hasPassword' = CASE q.kind = "delete" -> FALSE
                         [] q.kind \in {"setPassword", "resetPassword"} -> TRUE
                         [] OTHER -> hasPassword
    /\ Becomes(r, [req[r] EXCEPT
                   !.at = IF q.kind = "blocked" THEN "refused" ELSE "ok",
                   !.token = NoToken, !.new = NoToken,
                   !.held = {}, !.revokes = {}])
    /\ UNCHANGED <<family, clock>>

(* Seeded fault: the INSERT was committed on its own.                      *)
UndoneAutocommit(r) == [t \in Token |-> IF t = req[r].new /\ row[t] = "pending"
                                        THEN "live" ELSE row[t]]

(* What a rollback leaves of the rows: the insert never happened.          *)
Undone(r) == [t \in Token |-> IF t = req[r].new /\ row[t] = "pending"
                              THEN "none" ELSE row[t]]

(* get_db closes the session of a handler that raised.                     *)
Rollback(r) ==
    /\ req[r].at = "rollback"
    /\ row' = Undone(r)
    /\ Becomes(r, [req[r] EXCEPT !.at = "refused", !.token = NoToken,
                                 !.new = NoToken, !.held = {}, !.revokes = {}])
    /\ UNCHANGED <<family, device, status, hasPassword, clock>>

(* The answer is sent (and may be lost: nothing here depends on it).       *)
Respond(r) ==
    /\ req[r].at \in {"ok", "refused"}
    /\ Becomes(r, Idle)
    /\ UNCHANGED <<db, clock>>

(* A worker or its connection dies at any point before commit returns.     *)
Abort(r) ==
    /\ Running(r)
    /\ row' = Undone(r)
    /\ Becomes(r, Idle)
    /\ UNCHANGED <<family, device, status, hasPassword, clock>>

(* PostgreSQL breaks a cycle of waiting transactions by aborting one.      *)
DeadlockVictim(r) == Deadlocked(r) /\ Abort(r)

-----------------------------------------------------------------------------
(* A fresh registration: the account exists and is logged in once.         *)
Init ==
    /\ row = [t \in Token |-> IF t = 1 THEN "live" ELSE "none"]
    /\ family = [t \in Token |-> IF t = 1 THEN 1 ELSE 0]
    /\ device = [t \in Token |-> IF t = 1 THEN 1 ELSE 0]
    /\ status = "ACTIVE"
    /\ hasPassword = TRUE
    /\ clock = 1
    /\ req = [r \in Requests |-> Idle]

Begin(r) ==
    \/ Login(r)
    \/ Refresh(r)
    \/ Logout(r)
    \/ LogoutAll(r)
    \/ ChangePassword(r)
    \/ ResetPassword(r)
    \/ DeleteAccount(r)
    \/ AdminSetStatus(r)

Advance(r) ==
    \/ LockPresented(r)
    \/ PruneSelect(r)
    \/ RevokeRow(r)
    \/ InsertToken(r)
    \/ AttachSelect(r)
    \/ TouchUser(r)
    \/ DescribeRow(r)
    \/ ReadStatus(r)
    \/ SweepStart(r)
    \/ UpdateUser(r)
    \/ Commit(r)
    \/ Rollback(r)
    \/ Respond(r)

Next == \E r \in Requests : Begin(r) \/ Advance(r) \/ Abort(r)

Spec == Init /\ [][Next]_vars

(* The event loop keeps running every request; PostgreSQL queues waiters   *)
(* of a row first come first served, so a waiter is not passed over for    *)
(* ever (strong fairness); its deadlock detector always runs.              *)
Fairness == \A r \in Requests : /\ SF_vars(Advance(r))
                                /\ WF_vars(DeadlockVictim(r))

FairSpec == Spec /\ Fairness

-----------------------------------------------------------------------------
(* A login gives its client one credential: of the tokens that descend     *)
(* from one login by rotation at most one is live, however many copies of  *)
(* any of them are presented at the same time.                             *)
OneLivePerLogin ==
    \A t, u \in Live : family[t] = family[u] => t = u

(* Pruning before inserting bounds the sessions of an account by           *)
(* _MAX_REFRESH_SESSIONS plus one for each request that may be between its *)
(* prune and its commit, and by nothing tighter.                           *)
SessionCap == Cardinality(Live) <= MaxSessions + Cardinality(Requests)

(* When a request that revokes everything has answered, no token that was  *)
(* committed when its UPDATE started is live: not even one that a          *)
(* concurrent refresh or login held locked at that time.                   *)
Sweeping == {"logoutAll", "setPassword", "resetPassword", "suspend", "remove",
             "delete", "blocked"}
SweepTakesEffect ==
    \A r \in Requests :
        /\ req[r].at \in {"ok", "refused"}
        /\ req[r].kind \in Sweeping
        => \A t \in req[r].swept : row[t] = "revoked"

(* A row is described by the login that inserted it or by an older one     *)
(* that committed later, never by a login that started after it.           *)
DeviceNotNewer == \A t \in Token : device[t] <= t

(* Every request is answered or aborted: no set of requests waits for one  *)
(* another for ever.                                                       *)
EveryRequestEnds == \A r \in Requests : Running(r) ~> ~Running(r)

(* The transactions implement LoginSessions: however requests interleave,  *)
(* abort or wait, every commit opens a session, moves one from its current *)
(* credential to a new one, or ends sessions; a revoked credential is      *)
(* never current again.                                                    *)
LiveOf(s) == {t \in Live : family[t] = s}
CurrentOf == [s \in Token |-> IF LiveOf(s) = {} THEN NoToken
                              ELSE CHOOSE t \in LiveOf(s) : TRUE]
Sessions == INSTANCE LoginSessions WITH current <- CurrentOf, used <- Committed
ImplementsLoginSessions == Sessions!Spec

(* services/security.py:108: "Reuse of a revoked refresh token => possible *)
(* theft; revoke entire family".                                           *)
ReuseRevokesFamily ==
    \A r \in Requests :
        req[r].at = "refused" /\ req[r].kind = "reuse"
        => \A t \in req[r].swept : row[t] = "revoked"

(* services/security.py:22: "Cap concurrent refresh sessions per user".    *)
TenSessions == Cardinality(Live) <= MaxSessions

=============================================================================
