---------------------------- MODULE MobileSession ----------------------------
(***************************************************************************)
(* The tokens of the mobile app: ApiService, which refreshes them when a   *)
(* request is answered 401 (mobile/lib/core/services/api_service.dart),    *)
(* AuthService, which keeps them in memory and in secure storage           *)
(* (auth_service.dart), and the screens that log in and out and start up.  *)
(*                                                                         *)
(* The app runs several asynchronous calls at once; an action is what one  *)
(* of them does from one `await` to the next.  The server is that of       *)
(* LoginSessions, which RefreshSessions implements: a pair of tokens is a  *)
(* number, that of its refresh token.  A request whose answer is no longer *)
(* awaited may reach the server later, or never.                           *)
(***************************************************************************)
EXTENDS Naturals, FiniteSets

CONSTANTS
    Tasks,     \* slots for calls that are under way at the same time
    MaxTokens, \* bound: tokens ever issued
    MaxKills,  \* bound: times the app is killed
    MaxCalls   \* bound: calls and logins ever begun

ASSUME BoundsAssumption == MaxTokens \in Nat \ {0} /\ MaxKills \in Nat /\ MaxCalls \in Nat

VARIABLES
    current, used, \* the server's sessions
    expired,       \* access tokens that have expired
    app,           \* the process: it is on, its tokens, _refreshInProgress
    disk,          \* what survives it: tokens, and the session of AppStorage
    task,          \* the calls under way
    late,          \* requests under way that nobody awaits
    past,          \* what happened (history)
    out            \* tokens over which the app has signed its user out (history)

server == <<current, used, expired>>
vars == <<server, app, disk, task, late, past, out>>

Token == 1 .. MaxTokens
NoToken == 0

Server == INSTANCE LoginSessions

(* job    : call, login, logout, or start (the splash screen)              *)
(* at     : it awaits an answer, or the storage: save, wipe                *)
(* asks   : the request it has sent: api, refresh, login, logout           *)
(* with   : the token it was sent with                                     *)
(* answer : none as yet, yes (with new tokens), no                         *)
(* flagged: it has set _refreshInProgress                                  *)
(* stage  : of the splash screen                                           *)
(* known  : the splash screen has seen /auth/me                            *)
(* alone  : no refresh or login has run beside this logout (history)       *)
Idle == [job |-> "none", at |-> "idle", asks |-> "api", with |-> NoToken, answer |-> "none",
         new |-> NoToken, flagged |-> FALSE, stage |-> 0, known |-> FALSE, alone |-> TRUE]

Off == [on |-> FALSE, access |-> NoToken, refresh |-> NoToken, refreshing |-> FALSE]

Sends(q, asks, with) ==
    [q EXCEPT !.at = "wait", !.asks = asks, !.with = with, !.answer = "none", !.new = NoToken]

Holding(q) == q.at = "save" \/ (q.at = "wait" /\ q.asks \in {"refresh", "login"})

(* The app gives its tokens up: it sends them to be revoked, forgets them, *)
(* or ends the session.  It does so by itself unless the task is a logout. *)
GivesUp(k, a, d, q) ==
    /\ "logout" \notin {task[k].job, q.job}
    /\ \/ q.at = "wait" /\ q.asks = "logout"
       \/ a.refresh = NoToken
       \/ disk.session /\ ~d.session

(* Task k goes on as q, in an app a with storage d.  When it begins a      *)
(* refresh or a login, a logout under way is no longer alone.              *)
Goes(k, a, d, q) ==
    /\ out' = IF GivesUp(k, a, d, q) THEN out \cup ({app.refresh} \ {NoToken}) ELSE out
    /\ app' = a
    /\ disk' = d
    /\ task' = [o \in Tasks |->
                   IF o = k THEN q
                   ELSE IF task[o] = Idle THEN Idle
                   ELSE [task[o] EXCEPT !.alone = @ /\ ~Holding(q)]]

-----------------------------------------------------------------------------
(* The splash screen: restoreAuthSession, then ensureSessionValid when a   *)
(* user was signed in, and restoreAuthSession again if the first had failed*)

Loaded(a, d) == [a EXCEPT !.access = d.access, !.refresh = d.refresh]
SignedOut(d) == [d EXCEPT !.session = FALSE]
AsksMe(q, stage, a) == Sends([q EXCEPT !.stage = stage], "api", a.access)

Restore(k, a, d, q) ==
    LET b == Loaded(a, d) IN
    IF b.access = NoToken THEN Goes(k, b, SignedOut(d), Idle)
    ELSE Goes(k, b, d, AsksMe(q, 3, b))

(* The tokens are good, as far as ensureSessionValid can tell.             *)
Valid(k, a, d, q) == IF q.known THEN Goes(k, a, d, Idle) ELSE Restore(k, a, d, q)

Ensure(k, a, d, q) ==
    LET b == Loaded(a, d) IN
    IF ~d.session THEN Goes(k, a, d, Idle)
    ELSE IF b.access = NoToken /\ b.refresh = NoToken THEN Goes(k, b, SignedOut(d), Idle)
    ELSE Goes(k, b, d, AsksMe(q, 2, b))

(* /auth/me has failed: any error leads to a refresh, outside _request.    *)
Insist(k, a, d, q) ==
    IF a.refresh = NoToken THEN Goes(k, a, SignedOut(d), Idle)
    ELSE Goes(k, a, d, Sends(q, "refresh", a.refresh))

-----------------------------------------------------------------------------
(* ApiService._request *)

(* Seeded fault: the flag is reset when the retry succeeds only.           *)
UnflaggedIfOk(a, q, ok) == [a EXCEPT !.refreshing = @ /\ ~(q.flagged /\ ok)]
(* finally                                                                 *)
Unflagged(a, q, ok) == [a EXCEPT !.refreshing = @ /\ ~q.flagged]

(* The request has succeeded or not, and whoever made it goes on.          *)
Returns(k, a, d, ok) ==
    LET b == Unflagged(a, task[k], ok)
        q == [task[k] EXCEPT !.flagged = FALSE, !.known = @ \/ (task[k].stage = 1 /\ ok)]
    IN  \/ q.stage = 0 /\ Goes(k, b, d, Idle)
        \/ q.stage = 1 /\ Ensure(k, b, d, q)
        \/ q.stage = 2 /\ ok /\ Valid(k, b, d, q)
        \/ q.stage = 2 /\ ~ok /\ Insist(k, b, d, q)
        \/ q.stage = 3 /\ Goes(k, b, IF ok THEN d ELSE SignedOut(d), Idle)

(* Seeded fault: the second delete is forgotten.                           *)
WipedAccess(d) == SignedOut(d)
Wiped(d) == [SignedOut(d) EXCEPT !.refresh = NoToken]

(* Seeded fault: the tokens are only forgotten.                            *)
RevokesNothing(a) == FALSE
Revokes(a) == a.refresh # NoToken

(* AuthService.logout: the server is told, then memory and storage cleared *)
Clears(k, a, q) ==
    Goes(k, [a EXCEPT !.access = NoToken, !.refresh = NoToken],
            [disk EXCEPT !.access = NoToken], [q EXCEPT !.at = "wipe"])
LogsOut(k, a, q) ==
    IF Revokes(a) THEN Goes(k, a, disk, Sends(q, "logout", a.refresh)) ELSE Clears(k, a, q)
Undisturbed(k) == \A o \in Tasks \ {k} : ~Holding(task[o])

(* Seeded fault: every request refreshes.                                  *)
MayRefreshAlways == TRUE
MayRefresh == ~app.refreshing

(* requests that may still change something                                *)
Adrift(Q) == {[asks |-> q.asks, with |-> q.with] :
                 q \in {p \in Q : p.at = "wait" /\ p.answer = "none" /\ p.asks # "api"}}

(* A request without an answer fails: timeout, or no connection.           *)
Unanswered(k) ==
    LET q == task[k] IN
    /\ late' = late \cup Adrift({q})
    /\ past' = [past EXCEPT
         !.lost = @ \cup {q.new} \cup (IF q.asks = "logout" THEN {q.with, app.refresh} ELSE {}),
         !.spoiled = IF q.asks = "refresh" THEN @ \cup {q.with} ELSE @,
         !.unsure = IF q.asks = "api" /\ q.stage = 3 THEN @ \cup {app.refresh} ELSE @]
    /\ \/ q.asks = "api" /\ Returns(k, app, disk, FALSE)
       \/ /\ q.asks = "refresh" /\ q.flagged
          /\ LogsOut(k, app, [q EXCEPT !.alone = Undisturbed(k)])
       \/ q.asks = "refresh" /\ ~q.flagged /\ Goes(k, app, SignedOut(disk), Idle)
       \/ q.asks = "login" /\ Goes(k, app, disk, Idle)
       \/ q.asks = "logout" /\ Clears(k, app, q)
    /\ UNCHANGED server

Abandon(k) == task[k].at = "wait" /\ Unanswered(k)

(* An api request is answered: 401 leads to one refresh, unless one is     *)
(* running; the retry takes what comes.                                    *)
ReceiveApi(k) ==
    LET q == task[k]
        refused == [q EXCEPT !.flagged = TRUE, !.alone = Undisturbed(k)]
        busy == [app EXCEPT !.refreshing = TRUE]
    IN
    /\ q.at = "wait" /\ q.asks = "api" /\ q.answer # "none"
    /\ IF q.answer = "yes" \/ q.flagged \/ ~MayRefresh
       THEN Returns(k, app, disk, q.answer = "yes")
       ELSE IF app.refresh = NoToken
       THEN Clears(k, busy, refused)
       ELSE Goes(k, busy, disk, Sends(refused, "refresh", app.refresh))
    /\ past' = IF q.answer = "no" /\ q.flagged /\ q.stage = 3
               THEN [past EXCEPT !.unsure = @ \cup {app.refresh}] ELSE past
    /\ UNCHANGED <<server, late>>

(* New tokens: kept in memory, and the first of two writes is begun.       *)
Keeps(k, n) ==
    Goes(k, [app EXCEPT !.access = n, !.refresh = n], [disk EXCEPT !.access = n],
         [task[k] EXCEPT !.at = "save", !.new = NoToken])

(* The session expires on any refresh that fails.                          *)
ReceiveRefresh(k) ==
    LET q == task[k] IN
    /\ q.at = "wait" /\ q.asks = "refresh" /\ q.answer # "none"
    /\ IF q.answer = "yes"
       THEN Keeps(k, q.new) /\ past' = [past EXCEPT !.lost = @ \cup ({app.refresh} \ {q.with})]
       ELSE /\ IF q.flagged THEN LogsOut(k, app, [q EXCEPT !.alone = Undisturbed(k)])
               ELSE Goes(k, app, SignedOut(disk), Idle)
            /\ UNCHANGED past
    /\ UNCHANGED <<server, late>>

(* A refresh, or the end of a session that has expired, which is under way *)
MayEnd(q) == /\ q.job # "logout"
             /\ q.at = "wipe" \/ (q.at = "wait" /\ q.asks \in {"refresh", "logout"})

ReceiveLogin(k) ==
    LET q == task[k] IN
    /\ q.at = "wait" /\ q.asks = "login" /\ q.answer # "none"
    /\ IF q.answer = "yes"
       THEN /\ Keeps(k, q.new)
            /\ past' = [past EXCEPT !.lost = @ \cup {app.refresh, disk.refresh},
                 !.overtaken = IF \E o \in Tasks : MayEnd(task[o]) THEN @ \cup {q.new} ELSE @]
       ELSE Goes(k, app, disk, Idle) /\ UNCHANGED past
    /\ UNCHANGED <<server, late>>

ReceiveLogout(k) ==
    LET q == task[k] IN
    /\ q.at = "wait" /\ q.asks = "logout" /\ q.answer # "none"
    /\ Clears(k, app, q)
    /\ past' = [past EXCEPT !.lost = @ \cup (IF q.answer = "yes" THEN {app.refresh} \ {q.with}
                                              ELSE {app.refresh, q.with})]
    /\ UNCHANGED <<server, late>>

(* The refresh token that is in memory by now is written: after a login    *)
(* the user is signed in; after a refresh the request is sent again.       *)
Save(k) ==
    LET q == task[k]
        saved == [disk EXCEPT !.refresh = app.refresh]
    IN
    /\ q.at = "save"
    /\ IF q.job = "login"
       THEN \E d \in {IF app.refresh = NoToken THEN disk ELSE saved} :
               Goes(k, app, [d EXCEPT !.session = TRUE], Idle)
       ELSE IF app.refresh = NoToken \* `_refreshToken!` throws
       THEN IF q.flagged THEN Clears(k, app, [q EXCEPT !.alone = Undisturbed(k)])
            ELSE Goes(k, app, SignedOut(disk), Idle)
       ELSE IF q.flagged THEN Goes(k, app, saved, Sends(q, "api", app.access))
            ELSE Valid(k, app, saved, q)
    /\ UNCHANGED <<server, late, past>>

(* The second delete, and the end of the session in AppStorage.            *)
Wipe(k) ==
    /\ task[k].at = "wipe"
    /\ past' = [past EXCEPT !.left = task[k].alone]
    /\ IF task[k].job = "logout" THEN Goes(k, app, Wiped(disk), Idle)
       ELSE Returns(k, app, Wiped(disk), FALSE)
    /\ UNCHANGED <<server, late>>

-----------------------------------------------------------------------------
(* What the user does *)

Begins(k) ==
    /\ app.on
    /\ task[k].at = "idle"
    /\ \A o \in Tasks : task[o].job # "start"

Call(k) ==
    /\ Begins(k)
    /\ disk.session
    /\ past.calls < MaxCalls
    /\ Goes(k, app, disk, Sends([Idle EXCEPT !.job = "call"], "api", app.access))
    /\ past' = [past EXCEPT !.calls = @ + 1]
    /\ UNCHANGED <<server, late>>

Login(k) ==
    /\ Begins(k)
    /\ ~disk.session
    /\ past.calls < MaxCalls
    /\ Goes(k, app, disk, Sends([Idle EXCEPT !.job = "login"], "login", NoToken))
    /\ past' = [past EXCEPT !.calls = @ + 1, !.left = FALSE]
    /\ UNCHANGED <<server, late>>

(* From now on the tokens in use are the user's to lose.                   *)
Logout(k) ==
    /\ Begins(k)
    /\ disk.session
    /\ \A o \in Tasks : task[o].job # "logout"
    /\ LogsOut(k, app, [Idle EXCEPT !.job = "logout", !.alone = Undisturbed(k)])
    /\ past' = [past EXCEPT !.spoiled = @ \cup {app.refresh} \cup
                              {task[o].with : o \in {p \in Tasks : Holding(task[p])}}]
    /\ UNCHANGED <<server, late>>

Launch(k) ==
    LET a == [Off EXCEPT !.on = TRUE, !.access = disk.access, !.refresh = disk.refresh]
        q == [Idle EXCEPT !.job = "start"]
    IN
    /\ ~app.on
    /\ IF a.access = NoToken THEN Ensure(k, a, disk, q) ELSE Goes(k, a, disk, AsksMe(q, 1, a))
    /\ UNCHANGED <<server, late, past>>

(* The system kills the app, at any time.                                  *)
Kill ==
    LET Waiting == {q \in {task[k] : k \in Tasks} : q.at = "wait"} IN
    /\ app.on
    /\ past.kills < MaxKills
    /\ app' = Off
    /\ task' = [k \in Tasks |-> Idle]
    /\ late' = late \cup Adrift(Waiting)
    /\ past' = [past EXCEPT !.kills = @ + 1,
         !.lost = @ \cup {app.refresh} \cup {q.new : q \in Waiting},
         !.spoiled = @ \cup (IF disk.refresh = app.refresh THEN {} ELSE {disk.refresh})
                       \cup {q.with : q \in {p \in Waiting : p.asks = "refresh"}}]
    /\ UNCHANGED <<server, disk, out>>

-----------------------------------------------------------------------------
(* The server *)

Fresh == Cardinality(used) + 1
SessionsOf(t) == {s \in Token : t # NoToken /\ current[s] = t}

(* It does what m asks for, and says so, or issues token n; or refuses.    *)
Performs(m, n) ==
    \/ /\ m.asks = "refresh" /\ n \in Token
       /\ \E s \in SessionsOf(m.with) : Server!Rotate(s, n, {})
    \/ m.asks = "login" /\ n \in Token /\ Server!Open(n, {})
    \/ m.asks = "logout" /\ n = NoToken /\ Server!End(SessionsOf(m.with))
    \/ /\ m.asks = "api" /\ n = NoToken /\ m.with \in used \ expired
       /\ UNCHANGED <<current, used>>

Serve(k) ==
    LET q == task[k]
        Answers(yes, n) == task' = [task EXCEPT ![k].answer = yes, ![k].new = n]
    IN
    /\ q.at = "wait" /\ q.answer = "none"
    /\ \/ \E n \in {NoToken, Fresh} : Performs(q, n) /\ Answers("yes", n) /\ UNCHANGED past
       \* 401; and 429 or 500, for no reason of the token's
       \/ /\ Answers("no", NoToken)
          /\ q.asks = "api" => q.with \notin used \ expired
          /\ past' = IF q.asks = "refresh" /\ SessionsOf(q.with) # {}
                     THEN [past EXCEPT !.spoiled = @ \cup {q.with}] ELSE past
          /\ UNCHANGED <<current, used>>
    /\ UNCHANGED <<expired, app, disk, late, out>>

(* A request that nobody awaits arrives, or does not.                      *)
ServeLate(m) ==
    /\ late' = late \ {m}
    /\ \/ /\ \E n \in {NoToken, Fresh} : Performs(m, n)
          /\ past' = [past EXCEPT !.lost = @ \cup (used' \ used)]
       \/ UNCHANGED <<current, used, past>>
    /\ UNCHANGED <<expired, app, disk, task, out>>

Expire(t) ==
    /\ t \in used \ expired
    /\ expired' = expired \cup {t}
    /\ UNCHANGED <<current, used, app, disk, task, late, past, out>>

(* The session is ended from another device.                               *)
EndElsewhere(s) ==
    /\ current[s] # NoToken
    /\ Server!End({s})
    /\ past' = [past EXCEPT !.spoiled = @ \cup {current[s]}]
    /\ UNCHANGED <<expired, app, disk, task, late, out>>

-----------------------------------------------------------------------------

(* just registered, with token 1                                           *)
Init ==
    /\ Server!Init
    /\ expired = {}
    /\ app = [on |-> TRUE, access |-> 1, refresh |-> 1, refreshing |-> FALSE]
    /\ disk = [access |-> 1, refresh |-> 1, session |-> TRUE]
    /\ task = [k \in Tasks |-> Idle]
    /\ late = {}
    /\ past = [calls |-> 0, kills |-> 0, lost |-> {}, spoiled |-> {}, overtaken |-> {},
               unsure |-> {}, left |-> FALSE]
    /\ out = {}

Next ==
    \/ \E k \in Tasks :
          \/ Call(k) \/ Login(k) \/ Logout(k) \/ Launch(k)
          \/ ReceiveApi(k) \/ ReceiveRefresh(k) \/ ReceiveLogin(k) \/ ReceiveLogout(k)
          \/ Abandon(k) \/ Save(k) \/ Wipe(k)
          \/ Serve(k)
    \/ \E m \in late : ServeLate(m)
    \/ \E t \in Token : Expire(t) \/ EndElsewhere(t)
    \/ Kill

Spec == Init /\ [][Next]_vars

-----------------------------------------------------------------------------
(* Properties *)

(* Types; when _refreshInProgress is set a call is under way to reset it.  *)
TypeOK ==
    /\ used \subseteq Token /\ expired \subseteq used
    /\ {app.access, app.refresh, disk.access, disk.refresh} \subseteq used \cup {NoToken}
    /\ disk.session \in BOOLEAN
    /\ \A k \in Tasks : /\ task[k].at \in {"idle", "wait", "save", "wipe"}
                        /\ task[k].job \in {"none", "call", "login", "logout", "start"}
                        /\ task[k].with \in used \cup {NoToken}
    /\ app.refreshing => \E k \in Tasks : task[k].flagged

(* The app gives a refresh token up by itself (after a refresh that failed,*)
(* or on the splash screen) only if that token                             *)
(*   - was no longer good, or its refresh was refused for another reason,  *)
(*     went unanswered or was cut off by a kill, or a logout took it       *)
(*     (past.spoiled),                                                     *)
(*   - came from a login that was answered while an older token was being  *)
(*     refreshed or its session ended (past.overtaken), or                 *)
(*   - was there when the last /auth/me of the splash screen went          *)
(*     unanswered, or was refused just after a refresh (past.unsure).      *)
(* Calls that run at the same time and all meet an expired access token    *)
(* never make it do so.                                                    *)
OutForCause == out \subseteq past.spoiled \cup past.overtaken \cup past.unsure

(* After a logout that no refresh and no login ran beside, no token is in  *)
(* memory or in storage, whatever answers are still to come.               *)
NothingLeft ==
    past.left => /\ {app.access, app.refresh, disk.access, disk.refresh} = {NoToken}
                 /\ ~disk.session

(* A session that is open at the server is held by the app, or on its way  *)
(* to it, unless its tokens were lost: in an answer that never came, in a  *)
(* kill, with a logout that the server did not confirm, or when a later    *)
(* login or answer took their place.                                       *)
SessionsAccounted ==
    \A s \in Token :
        current[s] \in {NoToken, app.refresh, disk.refresh} \cup past.lost
                         \cup {task[k].new : k \in Tasks}

=============================================================================
