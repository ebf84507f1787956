# Verification of MarGem

This directory holds TLA+ models of the code in this repository, the TLC
configurations that check them, and TLAPS proofs. The code is the reference:
each definition is translated from the lines `PROJECT.json` ("map") names.

The repository holds two programs. **MarGem** (`src/souq-local`) is a
marketplace for local sellers: a FastAPI backend on PostgreSQL
(`backend/app`) and a Flutter client (`mobile/lib`). **SCAD**
(`src/app`, `src/.github/actions/scad-risk-score`) is a small Node.js service
that stores security findings and scores them for a CI gate. The rest is
infrastructure, seeds and thesis material.

## 1. Inventory

Paths are relative to `src/souq-local/backend/app` unless they start with `src/`.

| Component | State | Operations | Hard behaviour | What makes it correct |
|---|---|---|---|---|
| Refresh-token sessions: `services/security.py`, `routers/auth.py`, `routers/seller_ops.py:601` | `refresh_tokens` rows (revoked, created_at, device), `users.status`, `users.password_hash` | register, login, refresh, logout, revoke session, logout-all, change and reset password, delete account, admin status | transactions at READ COMMITTED, row locks, deadlock, lost commit, crash | one live token per login; revoke-all is final; bounded number of sessions |
| One-time tokens: `routers/auth.py:86-111, 386-485` | `auth_tokens` rows (hash, purpose, used_at, expiry) | request, confirm | two confirmations at once, collisions of short codes, expiry, a later request | a code works once, for its purpose, before it expires |
| Account lifecycle: `auth.py`, `routers/auth.py:488`, `routers/sellers.py` | `users.status`, role, account type, seller profile | check of every request, suspend, reactivate, delete, become a seller | a request that read the old status; partial deletion | nothing is done for a suspended account; a deleted one leaves nothing behind |
| Premium: `services/premium.py`, `auth.py:75`, `routers/seller_ops.py:497-719` | `is_premium` (user and seller), `premium_until`, `subscriptions` | subscribe, admin grant, lazy expiry on read | expiry from a stale read against a grant; two activations | flags agree with the end date; one active subscription |
| Favourites and counters: `routers/discovery.py:134-296`, `services/seller_counters.py` | `favorites` rows, `seller_profiles.favorite_count` | add, remove, migrate guest favourites, cascade deletes | double tap, double removal, removal against add, lock order | the count follows the rows and is never negative; no wait without end |
| Messaging: `services/messaging.py`, `routers/seller_ops.py:302-461` | `conversations` (ordered pair, context seller), `messages`, `inquiry_count` | open, send, list, read | two first messages at once, the single context slot | one conversation per pair; an inquiry counted once |
| Reviews and ratings: `services/reviews.py`, `services/ratings.py`, `routers/sellers.py:604-671` | `reviews`, aggregates of the seller | eligibility, submit or update, recompute | aggregate recomputed in a second transaction; rounding | eligible reviewers only; aggregates match the reviews |
| Uploads: `routers/uploads.py`, `services/local_storage.py`, `services/azure_storage.py` | files; a ticket is signed, not stored | ticket, PUT, URL saved in a profile | none that two requests share | checks on strings |
| Migrations: `src/souq-local/backend/alembic`, `models/__init__.py`, `src/souq-local/backend/scripts/entrypoint.sh` | the schema, `alembic_version`, rows the scripts move | upgrade, downgrade, one statement after the other | two containers at once, a container that stops, rows written meanwhile, downgrade and upgrade again | the schema is that of the revision, the models fit it, no data is lost |
| Request pipeline: `main.py`, `middleware/`, `limiter.py` | per-request buffer | limit body size, replay it | none that two requests share | never more than the limit |
| Search, catalogue, storefront | none of their own | queries | none | the SQL is the answer |
| Notifications, follows, saved searches, audit | rows of one user | insert, delete, mark | none | nothing relates them |
| Mobile session client: `src/souq-local/mobile/lib/core/services/api_service.dart`, `auth_service.dart` | access and refresh token in memory and in secure storage, `_refreshInProgress` | request, refresh on 401 and retry, login, logout, restore at start | several requests meet 401 at once, a refresh that answers after a logout, lost answers, the app is killed | nobody is signed out without cause; no credential after logout; no session that nobody holds |
| Mobile local storage and uploads: `app_storage.dart`, `upload_service.dart` | guest favourites, preferences | migrate after login | failed migration retried | nothing lost, nothing twice |
| Mobile screens, translations | view state | - | - | presentation only |
| SCAD: `src/app/src/findings.js`, `risk-scoring.js`, `server.js`, the CI action | map of findings in one process | add, add many, clear, score | none: synchronous, nothing is kept | the gate agrees with the score |
| Infrastructure, seeds, documents | - | - | - | not program logic |

**Interactions.** Every endpoint is one SQLAlchemy session, so one PostgreSQL
transaction (`database.py:18-20`) unless it commits more than once; handlers
meet only in the database, through row locks, unique constraints and what READ
COMMITTED lets them see. `get_current_user` runs first on every authenticated
request, reads the `users` row without a lock, and may itself commit (premium
expiry). The mobile client talks to the backend over HTTP only; a refresh is
triggered by a 401 and any answer may be lost after the server committed. SCAD
shares nothing with MarGem.

`PROJECT.json` ("hazards") lists, line by line, what is hard to test in this code
and the properties that cover it.

## 2. Plan

The order follows what would hurt most: sessions first.

| # | Modules | Covers | Composes | Proofs |
|---|---|---|---|---|
| 1 | `RefreshSessions`, `LoginSessions` | refresh-token sessions | implements `LoginSessions` | `RefreshSessionsProofs` |
| 2 | `FavoriteCounters` | favourites, counter, guest migration, cascades | - | `FavoriteCountersProofs` |
| 3 | `MobileSession` | the tokens of the app, lost answers, kills | instantiates `LoginSessions` as its server | `MobileSessionProofs` |
| 4 | `Accounts` | one-time codes, premium membership, suspension, deletion | - | `AccountsProofs` |
| 5 | `Messaging`, `Conversations` | conversations, messages, inquiry counts | implements `Conversations` | `MessagingProofs`, `MessagingImplements` |
| 6 | `Reviews` | reviews, averages, milestones | instantiates `Conversations` as its messaging | `ReviewsProofs` |
| 7 | `Migrations`, `MigrationScripts`, `OrmModels` | the thirteen Alembic scripts | scripts, models and the process that runs them | `MigrationsProofs` |

All of these are done, and every safety invariant and action property that the runs
check is stated by a theorem, except two of `Migrations` (`ModelsFit`,
`FailuresExplained`). What is left, in this order:
an owner who leaves while the storefront is reviewed; roles and account types.

Abstract specifications: `LoginSessions` says what the sessions promise;
the database implements it and the app is checked against it instead of against
the database. `Conversations` says what messaging promises; `Messaging`
implements it and `Reviews` relies on it. For favourites it would be "the counter is
the number of rows", which the code does not keep (section 4, findings);
`DriftExplained` says what it keeps instead.

## 3. What is modelled

### `RefreshSessions`

The sessions of one account. All statements select rows by `user_id` or by token
hash, so accounts do not interfere and one is enough. State:

| Variable | Code |
|---|---|
| `row[t]` | `refresh_tokens.revoked` as committed; `"pending"` is an insert not yet committed. Tokens are numbered by `created_at`, which is `now()`, the start of the inserting transaction: this is why a token can become visible after a "newer" one |
| `device[t]` | which login wrote `device_name`, `ip_address`, `user_agent` of the row |
| `status`, `hasPassword` | `users.status`, `users.password_hash IS NOT NULL` |
| `family[t]` | history: the login a token descends from by rotations |
| `clock` | number of transactions that were given a `created_at` |
| `req[r]` | a request: its handler, the statement it runs next, the rows it waits for, holds locked, has revoked |

One action is one SQL statement of a handler, or one row of an UPDATE of several
rows: PostgreSQL locks such rows one after the other, in an order the plan
decides (`\E t \in req[r].todo`), waits for a row another transaction holds, and
then works on its newest version. A write is private (`revokes`, `"pending"`)
until `Commit`. `LockPresented` is `SELECT ... FOR UPDATE`. `PruneSelect` reads
live rows without a lock and `RevokeRow` writes them at the next flush, as
SQLAlchemy does. The rotation of an expired token marks an object that is never
flushed. `Abort` is a worker that dies anywhere before its commit; `Deadlocked`
is the cycle test of PostgreSQL, which breaks it through the same `Abort`.
Whether a token has expired is a choice in `LockPresented`: no property depends
on when.

Requests turned away by their first read (wrong password, unknown token,
account not active) write nothing and are left out. Access tokens carry no
server state. The guards of `Login`, `ChangePassword` and the others read
`users` when the request starts and never again, as the handlers do, so a login
that overlaps a suspension is part of the model.

### `LoginSessions`

What the owner of an account is promised: a login opens a session, a session has
one current credential, a rotation moves it to a credential never stored before,
an ended session stays ended. `RefreshSessions` implements it with
`current = CurrentOf` (the live token of each family) and `used = Committed`.

### `FavoriteCounters`

The favourites of one seller: of its storefront (`Store`, a row whose
`product_id` is NULL) and of its products. Rows of other sellers touch another
counter, so one is enough.

| Variable | Code |
|---|---|
| `favorites` | committed rows of `favorites`: an id and the user and thing it is about |
| `count` | committed `seller_profiles.favorite_count` |
| `listed`, `left` | products that exist; users whose account is deleted |
| `serial` | ids handed out (`uuid4()` never repeats) |
| `cascaded`, `spurious` | history: rows removed without a decrement, decrements without a removed row |
| `req[r]` | a request: handler, next statement, and what its transaction has written (`inserts`, `deletes`, `delta`) |

The order of the statements is that of SQLAlchemy's autoflush: the INSERT or
DELETE that `session.add` or `session.delete` announced is sent before the UPDATE
of `bump_favorite_count`. A transaction that has written the counter
(`delta # 0`) keeps its row locked. `WaitsFor` lists, per statement, whom it may wait
for: the unique indexes of migration 008 make an INSERT wait for an uncommitted
insert or delete of the same favourite; a foreign key makes it wait for a product
being deleted, and that deletion for it. `WHERE favorite_count > 0` makes the decrement
skip a committed zero without waiting. A DELETE whose row is gone deletes
nothing (SQLAlchemy warns and goes on). `delete_product` locks the product and then cascades;
`delete_account` deletes the rows of the user (`routers/auth.py:542`) and, just before
its commit, changes the user's key. The seller's own account deletion removes
the counter with everything else and is not an action here. A hidden product is a
request that does not arrive.

`RollbackExpires` says what `session.rollback()` does to loaded objects. SQLAlchemy
expires them, so after an IntegrityError the add handler cannot even read `user.id`.
The passing run takes that (`TRUE`); `FavoriteCountersTaps` takes the reading of the
comment (`FALSE`) and still finds a failure.

### `Conversations`

What messaging promises, without requests or locks: a pair of users has one
conversation (`rooms`), with one storefront at most, which it keeps; messages are
written by its members and stay until a member leaves. It has no assumption of its own.

### `Messaging`

Any number of users with at most one storefront each, named by its owner.

| Variable | Code |
|---|---|
| `conv` | `conversations`: id, the ordered pair of participants as a set, `context_seller_id` |
| `msgs` | `messages`: id, conversation, sender, `read_at IS NOT NULL` |
| `notes` | the `notifications` that `notify_new_message` inserts |
| `inquiries` | `seller_profiles.inquiry_count` |
| `shops`, `gone` | users with a `seller_profiles` row, users with status DELETED |
| `req[r]` | a request: who asks whom, the conversation it found or inserts, what it has locked |
| `past` | history: ids handed out, contexts there were, messages listed, conversations known to a deletion |

`Ask` ... `CommitTalk` are the endpoints that send: the storefront is read
(`routers/seller_ops.py`), the conversation looked for (`Find`), inserted (`Insert`,
which waits for whoever inserts or deletes the same pair and then fails on
`uq_conversation_participants`), the row updated by its primary key (`Change`; a row
that is gone is SQLAlchemy's StaleDataError), the inquiry counted (`Count`). A column
that the session did not change is not written: this is why of two requests that
each found an empty context the later one replaces it. `List` and `Mark` are the two
halves of `list_messages`. `Depart` ... `CommitLeave` are `delete_account`, with the
conversations selected before they are deleted and the storefront deleted after. A
request may fail at any statement (`Fail`), which also stands for deadlocks.

### `Reviews`

One storefront. The conversations are those of `Conversations`, instantiated
with the same variables, so its right to review (`HasWritten`) is decided on any
state that messaging can reach. A review is submitted in one transaction
(`CreateReview`, `ReadReview`, `InsertReview` or `UpdateReview`) and
`refresh_seller_ratings` is a second one (`ReadStats`, `WriteStats`) of the same session,
which still holds the storefront as it was loaded first: `WriteStats` writes only the
columns that differ from that. `reviews` has the scores of the four categories as two
sums of two, because only sums enter the arithmetic. `RatingsOf` is the whole of
`refresh_seller_ratings`. A rating is rounded twice: by Python when the review is
written (`rounded_overall`), and by PostgreSQL when the five-star reviews are counted
(`CountsAsFive`). Both take a half to the even number (`HalfEven`): the 4.0 of
`ratings.py:61` is a Python float, which SQLAlchemy binds as `FLOAT`, so that
`round()` is that of a double precision. With a numeric, as in the SQL text of
migration 012, the same expression would round a half up and count a review that is
shown with four stars as a five-star one; that is the seeded fault
`CountsAsFiveNumeric`, which `MilestonesAddUp` catches.

### `Accounts`

The row of one user, his storefront's premium flag, his subscriptions and codes.

| Variable | Code |
|---|---|
| `user` | `users`: status, whether the e-mail is still his (`named`), password, `email_verified_at`, `is_premium`, `premium_until` |
| `store` | `seller_profiles.is_premium`, or that there is none |
| `subs` | `subscriptions`: status ACTIVE or not, end |
| `tokens` | `auth_tokens`: code, purpose, `used_at`, expiry; `uses` is history |
| `req[r]` | a request with the rows as its session loaded them |

`Flushed` is SQLAlchemy's unit of work: of the row, the columns whose assigned
value differs from the one loaded. That is what makes a stale read harmful
(`CommitClear`) or harmless. `Enforce` is `_enforce_account_state`, `See` is
`apply_seller_premium_expiry` for whoever looks at the storefront, `Grant` is
`subscribe` and `admin_grant_premium`. A confirmation locks its code. A code is one
of a small set, of which one belongs to somebody else: uniqueness is over all users.

### `MigrationScripts`, `OrmModels`, `Migrations`

`MigrationScripts` holds `upgrade()` and `downgrade()` of the thirteen revisions as
sequences of statements, `OrmModels` the columns and unique constraints that
`models/__init__.py` declares. `Migrations` runs them.

| Variable | Code |
|---|---|
| `rev` | the committed `alembic_version` |
| `db` | the committed schema, and the rows that a script touches: favourites (008), conversations and messages (011), the five-star count, stars and crowns (012, 013), categories in use (002) |
| `job[j]` | a process that runs alembic: the revision it found, the one to reach, the script and statement it is at, the tables it has locked, the database as its transaction sees it |
| `undone` | history: how many downgrades there were, and which of the scripts whose `downgrade()` is no inverse (`Lossy`) they undid |
| `past` | history: what was ever favourited, opened and said |

One action is one SQL statement. `Altered` and `Refused` say what it does to a schema
and when it fails; `Changed` (with `Rewritten`, `Emptied`, `Forgotten`) and `Violated`
say the same of rows. All scripts of one command are one transaction
(`alembic/env.py`), so `db` changes in `CommitAll` only. A statement works on what it
sees at READ COMMITTED (`Seen`): what others commit, until the transaction has changed
something, and its own version of it from then on. `LocksOf` are the table locks of
PostgreSQL that make others wait. The program writes rows while the scripts run
(`Favorite`, `Contact`, `Converse`, `Say`, `Review`, `File`), to tables that are not
locked, and the rest of a running migration sees these rows too. `SchemaOf[n]` is the
schema that the scripts up to revision n make of an empty database.

### `MobileSession`

The app, as asynchronous calls that are interrupted at each `await`, and the
server of `LoginSessions`.

| Variable | Code |
|---|---|
| `current`, `used` | the server's sessions (`LoginSessions`) |
| `expired` | access tokens that have expired; a pair of tokens is one number |
| `app` | the process: `_accessToken`, `_refreshToken` (`auth_service.dart`), `_refreshInProgress` (`api_service.dart`) |
| `disk` | secure storage and the session flag of `app_storage.dart` |
| `task[k]` | a call: what it does (`job`), the request it has sent, its answer, whether it set the flag |
| `late` | requests nobody awaits any more, which may still reach the server |
| `past` | history: tokens whose refresh was refused, lost or overtaken (`spoiled`), of a login that met the end of another session (`overtaken`), in memory when the splash screen's last `/auth/me` failed (`unsure`); tokens lost; and so on |
| `out` | history: the tokens the app has given up by itself (`GivesUp`): sent to `/auth/logout` by `onSessionExpired`, forgotten in memory, or left in place while the splash screen ends the session of `app_storage.dart` |

`ReceiveApi`, `ReceiveRefresh`, `Returns` are `_request` with its one retry and its
`finally`; `Keeps` and `Save` are the two writes of `saveTokens`, `Clears` and `Wipe`
those of `logout`; `Restore`, `Ensure`, `Insist` are the splash screen. Every step of
the app goes through `Goes`, which records in `out` a token that the step gives up without
a logout of the user's: so the sign-outs of `_request` and of the splash screen are all
there, and what allows them is written elsewhere, at the answer or the missing answer. `Abandon` is
any request without an answer (timeout, no connection), after which the
server may have acted or may act later; `Kill` ends the process between any two steps.
`EndElsewhere` is a session ended by another device, a password change or reuse
detection.

## 4. What the runs check

| Run | Bounds | Shows |
|---|---|---|
| `RefreshSessionsSafety` | 2 requests, 4 tokens, cap of 1 session, all handlers except removal, deletion and password reset; symmetry over requests | `TypeOK`, `OneLivePerLogin`, `SessionCap`, `SweepTakesEffect`, `DeviceNotNewer`, `ImplementsLoginSessions` |
| `RefreshSessionsLive` | 2 requests, cap of 1 session, logins, refreshes, logout of all devices, password reset, removal and deletion over 3 tokens, and a fourth token beside the first three of them (the action constraint `LastAmongFew`); no symmetry | `EveryRequestEnds`, and `SweepTakesEffect` with the handlers left out above |
| `RefreshSessionsReuse` | as Safety | `ReuseRevokesFamily` fails: see findings |
| `RefreshSessionsCap` | as Safety | `TenSessions` fails: see findings |
| `FavoriteCounters` | 2 requests, 1 user, 1 product, 3 rows ever inserted, every handler; no symmetry | `TypeOK` (the counter is never negative), `DriftExplained`, `TapsDoNotDeadlock`, `EveryRequestEnds` |
| `FavoriteCountersDrift` | 2 requests, 2 users, 2 rows, adds and removals | `CountIsFavorites` fails: see findings |
| `FavoriteCountersTaps` | 3 requests, 1 user, 3 rows, adds and removals, `RollbackExpires = FALSE` | `AddNeverFails` fails: see findings |
| `MobileSession` | 2 calls at a time, 2 calls or logins begun in all, 3 tokens, 1 kill; symmetry over calls | `TypeOK`, `OutForCause`, `NothingLeft`, `SessionsAccounted` |
| `Accounts` | 2 requests at a time, 5 in all, 2 free codes and one of another user, 3 instants; symmetry over requests and free codes | `TypeOK`, `ConsumedOnce`, `PaidShown`, `OneActive`, `DeletedIsInert` |
| `Messaging` | 2 users, 2 requests, 2 conversations, 2 messages, 1 contact event, 1 deletion; symmetry | `TypeOK`, `PromiseKept` (implements `Conversations`), `ContextKept`, `InquiriesOnce`, `ReadMeansShown`, `ForgottenForGood` |
| `Reviews` | 2 buyers, 2 requests, 4 submissions, 1 deletion, 3 payloads, a star per five-star review and a crown per two; symmetry | `TypeOK`, `ReviewsEarned`, `RatingsSettle`, `MilestonesAddUp`, `RatingIsMean` |
| `Migrations` | 2 processes, releases at 5, 7 and 13, one downgrade (5 to 0 or 4, 7 to 6, 13 to 6 or 10), 2 favourites of one user at 2 instants, or 2 conversations of 3 users and a message, or a change of rating, or a category in use; symmetry over processes | `TypeOK`, `SchemaFollowsRevision`, `ModelsFit`, `FailuresExplained`, `NothingSaidIsLost`, `EligibilityKept`, `MilestonesFollowReviews`, `TastesKept` |

Why the bounds are enough. Transactions conflict pairwise, and every conflict of
two handlers occurs with two requests in flight; the theorems cover any number
of requests. Four tokens let a login, two rotations and a second login follow one
another, so a token can be rotated while an older one is pruned; a cap of one
session makes pruning happen at the second login after the registration. For the
liveness property, three tokens are what a deadlock between pruning and a revoke-all
that holds the users row needs: the second login has pruned a row and waits for
the users row, the other transaction has that one and waits for the pruned row. The
deadlocks on token rows alone need a fourth: a login that prunes two rows, or a
refresh that has locked its own row and prunes another, against a revoke-all that takes the
same rows in the other order. All handlers over four tokens are more than the
liveness check can take, so the last token is issued beside logins, refreshes and
logouts of all devices only. What the run leaves out takes the locks of something it
has: a change of password those of a reset, a suspension those of a removal; a
reactivation and the logout of one device lock one row and then commit.
`MaxTokens` and `Handlers` are bounds of the model, not of
the code; requests keep being aborted and retried without limit.

For favourites, one user with two favourites (the product and the storefront)
gives two rows on one counter, and three inserted rows are what a deadlock
of a migration with another insert needs. A request that has ended starts
again as another, so two of them produce the double removal with an insert
in between. The three safety properties are proved for any number. `Quiet` is
the server waiting when the bound on rows is reached or the last user has left; in every
other state a missing step would be reported as a deadlock.

For the app, two calls are enough for every race of the code: two requests that
both meet 401, a refresh against a logout, a login or a call that a failed refresh
overtakes. Three tokens are the first pair, one rotation or login, and one more that
replaces it. For accounts and messaging, a race is again between two requests;
five requests give, for instance, two grants, an expiry between them, a deletion and
a code. Two users give one pair, which is the unit of the constraints; two
conversations in sequence are a conversation that is deleted and opened again.
For reviews, the payloads have means 5, 4.5 and 3.25, so that a half and a quarter
are rounded, and milestones of one and two reviews make
quotient and remainder vary within three reviews; the definitions take the
code's 100 and 1000 as `PerStar` and `PerCrown`. For migrations, the releases are
chosen so that 006, 008 and 011 each meet a database with rows, and the
downgrades so that each stops above and below the scripts whose `downgrade()` is no
inverse (007, 011): 4 and 0 from release 5 undo the first five, 6 undoes 007 alone, 10 undoes 011.
Favourites, conversations, ratings and categories do not meet in any
statement, so a behaviour has rows of one kind only; the favourites of two users do not
meet either, so those of one (`Fans`) are enough. The run explores the interleavings
that can differ (`MCSpec`): a statement on tables that its transaction has locked for
itself alone is executed before anything else happens, since until the commit nobody
sees it and nobody waits for it who did not wait before. 2350 five-star reviews give
crowns and stars that are both not zero.

Deadlock checking is off in the runs where a bound really stops the system
(`MobileSession`, `Accounts`, `Messaging`, `Reviews`): when all requests
have begun, all tokens are used or everybody has left, nothing more can happen.

`SessionCap` is the bound that holds: the configured cap, plus one for each
request that may be between its prune and its commit. It is tight.

Fairness (`FairSpec` of `RefreshSessions` and `FavoriteCounters`): strong fairness of each request's next statement, because
the event loop runs every handler and PostgreSQL grants a row lock in order of
arrival, so a waiter is not overtaken for ever; weak fairness of the deadlock
detector, which runs after `deadlock_timeout`. Nothing is assumed of clients, of
the start of requests, or of crashes. The other modules state safety only: a request
of theirs is the same handlers on the same locks, and their `Fail` abstracts from
who is aborted, so that "every request ends" would say nothing of the code; on the
phone nothing obliges an answer to come.

### Findings

* **Revocation on reuse is rolled back** (`services/security.py:108-112`,
  `routers/auth.py:232-234`). The comment promises to "revoke entire family" when
  a revoked token is presented. The UPDATE runs, the handler raises 401 without
  `commit()`, and `get_db` closes the session: the rollback restores every row.
  `ReuseRevokesFamily` finds it. The rest of the model is unaffected: the
  theorems hold of the code as it is.
* **The cap admits one session more** (`services/security.py:22, 71-83`). Ten rows
  are kept and then one is inserted; concurrent logins add one each.
  `TenSessions` finds it.

* **A double removal decrements twice** (`routers/discovery.py:182-191, 243-254`).
  Both removals read the row before either deletes it. The second DELETE matches
  nothing, and `bump_favorite_count(delta=-1)` runs all the same.
  `test_favorite_count_increments_atomically` states that the counter is the number
  of favourites; `CountIsFavorites` finds a state at rest where it is not.
* **The loser of a double tap can fail** (`routers/discovery.py:155-166`). The comment
  says it returns "the row committed by the winner"; that row may be removed before it
  is read, and `scalar_one()` raises. `AddNeverFails` finds it under the
  weaker assumption; with `RollbackExpires` every conflict fails.

One more disagreement with a document has no run of its own. `mobile/README.md:89`
promises "JWT auth with automatic token refresh (sessions stay logged in)". The app signs
its user out over a refresh token that may be good when

* a refresh is not answered, or is answered 429 or 500 (`auth_service.dart:64-79`; in
  `_request`, `api_service.dart:189-199`, and on the splash screen);
* `/auth/me` is not answered once more after the session was found valid
  (`splash_screen.dart:81-87`), or is refused just after the refresh that it led to:
  the tokens stay in storage, the user is sent to the login screen;
* a login is answered while an older token's refresh fails or its session ends: `logout()`
  sends and deletes the token it finds in memory, which is the new one
  (`auth_service.dart:105-117`).

`OutForCause` names these three (`past.spoiled`, `past.unsure`, `past.overtaken`) and says
that there is no fourth: in particular not a burst of calls that all meet an expired access
token, of which one refreshes and the others are told 401. Each of the three is needed:
without any one of them TLC finds the sign-out.

Not counted as findings, because no document or comment says otherwise, but
visible in the models, and the reason why the properties are worded as they are:

* A login that read the password or the status before a change commits a live token
  after everything was revoked. `SweepTakesEffect` is stated for the tokens the
  revocation saw.
* A request that loaded an expired premium row clears the flag of a subscription
  granted meanwhile, and of two grants at once both subscriptions stay active
  (`PaidShown` and `OneActive` speak of grants that ran alone).
* A code asked for while the account is being deleted survives the deletion
  (`DeletedIsInert`).
* Two users who each enter a conversation through the other's storefront at
  once: the later commit replaces the context of the earlier (`ContextKept`), and with it
  the right of one of them to review.
* A conversation opened by a request that runs while a participant deletes his account
  stays (`ForgottenForGood`).
* Two edits of one review write only what each changed: a row can have scores of both
  and a rating of one (`RatingIsMean`). Averages stay behind after a crash between
  the two transactions and after a reviewer's deletion, until the next review
  (`RatingsSettle`).
* `downgrade()` of 007 does not restore what `upgrade()` dropped, and leaves columns
  behind: 006 can then not be undone, and 007 not be applied again. That of 011 loses conversations
  without a storefront and can fail. 008 fails when two favourites were created at
  one instant, or while it looks (`FailuresExplained`).
* 011 merges the conversations of two storefront owners into the older one, and
  drops the storefront of the younger (`EligibilityKept`).
* A logout and a refresh or login that cross can leave a session open at the server that
  the app no longer knows (`SessionsAccounted`), or tokens on the phone after the logout
  (`NothingLeft` speaks of logouts that ran alone).

## 5. What is proved

`RefreshSessionsProofs` proves, for every finite number of requests, every number of
tokens and every cap (assumptions `RequestsAssumption`, `MaxSessionsAssumption`,
`MaxTokensAssumption`), including every handler:

* `TypeCorrect`: `Spec => []TypeOK`
* `OneCredential`: `Spec => []OneLivePerLogin`
* `SweepIsFinal`: `Spec => []SweepTakesEffect`
* `DeviceOrder`: `Spec => []DeviceNotNewer`
* `Implementation`: `Spec => ImplementsLoginSessions`
* `CapHolds`: `Spec => []SessionCap`

All rest on one inductive invariant, `IInv`, checked by TLC before it was proved. The
properties are not inductive alone: from "at most one live token per family" nothing
follows about a commit unless one knows what the committing transaction has locked.
`IInv` adds that

* ids are handed out once, and a row being inserted is reachable for its own
  transaction only (`Fresh`, `OwnIds`, `IdInv`, `LockInv`);
* row locks are exclusive and cover every uncommitted write (`Exclusive`,
  `LockInv`);
* from its SELECT FOR UPDATE to its commit, a refresh holds a live token and has
  revoked it (`FamilyInv`), and a login's row starts a family no committed token
  belongs to (`Lineage`, `FamilyInv`);
* what revoke-all saw is what it has revoked plus what it has still to do
  (`SweepInv`), and each statement's own preconditions (`PlaceInv`).

There is one lemma per action. Statements that write into their transaction only share
`PrivateStep`, rollback and abort share `UndoneInv`, and `CommitOneLive` is the heart:
the inserted token is the only live one of its family, because the family is new or its
one live token is in `revokes`. For the refinement, every step except `Commit` leaves
`Live` alone (`Stutter`), and `CommitImplements` exhibits the sessions that end and the
one that moves.

`CapHolds` needs `Bounded` on top of `IInv`, because the cap is about time: a login
prunes what it can see, and others commit before it does. `Bounded` says that each
request that has pruned and not yet committed can be given a set of other requests
(`Counts`), those in whose slots a row was committed since, such that what is live and
it does not revoke is at most `MaxSessions` plus the size of its set. A request adds one
to the sets of others once, however many logins its slot serves: a second login in the
slot pruned after the first one's commit, and counted what it saw. When a request
commits, what it spares is bounded by its own set, which has at most all other requests,
and its own row is the one more. `FewAbove` is the bound on what a prune leaves live, by
an injection into the ranks that are kept; cardinalities are reasoned about with the
library's facts on finite sets.

`FavoriteCountersProofs` proves, for every finite set of requests and any users,
products and number of rows (`RequestsAssumption`, `MaxRowsAssumption`,
`NamesAssumption`):

* `TypeCorrect`: `Spec => []TypeOK`, so the counter is a natural number
* `TapsNeverDeadlock`: `Spec => []TapsDoNotDeadlock`
* `DriftIsExplained`: `Spec => []DriftExplained`

The first two follow from `IInv`. Its core is `Claims`, what the locks of one request
say of the others: one writer of the counter at a time; who is about to decrement saw a
positive counter that nobody else can change since; and while a product is being deleted
no uncommitted row refers to it and its deletion has, or has yet to take, every
committed one. `TapsNeverDeadlock` then rules out, one kind of lock after the other,
that a member of a wait cycle waits for it: the holder of the counter is at its commit,
so nobody in the cycle waits for the counter, so none of its removals holds a row, so
nobody waits for a row, a product or a key.

`DriftIsExplained` needs `DriftInv` on top. The upper bound is not inductive: a removal
that finds the counter at zero skips the decrement and later still removes a row.
`Balance` therefore counts these removals (`Skippers`) on the side of the counter. When
one appears the counter is zero, and `DisjointSubsets` bounds their number by the number
of rows, because no two transactions delete the same row.

`MessagingProofs` proves, for any users and requests and without an assumption on them:

* `MarkedWasShown`: `Spec => []ReadMeansShown`
* `DeletionIsFinal`: `Spec => []ForgottenForGood`

Both follow from `IInv`. For the first it is enough that a request at its UPDATE has
listed what it will mark (`Listed`). The second needs that ids are handed out once
(`Numbered`, `Distinct`), that the id of a conversation about to be inserted is known to
nobody (`Unborn`), so that a deletion cannot have known it, and that a deletion finds
every conversation that was there when it began (`Departures`): between its first read
and its SELECT the row may be changed or deleted by others, but its pair stays what it
was. Records are described by their domains (`Shape`) rather than by a type, so the
proof does not depend on what the fields hold.

`MessagingImplements` proves, for any users, any requests and any bounds
(`BoundsAssumption`):

* `TypeCorrect`: `Spec => []TypeOK`, which includes the foreign keys
* `InquiriesCounted`: `Spec => []InquiriesOnce`
* `ContextStays`: `Spec => ContextKept`
* `Implementation`: `Spec => PromiseKept`, the refinement of `Conversations`

They need `Promise` on top of `IInv`. Its parts are what a request knows about the
tables while it holds no lock on them: the conversation that it found is that of its
pair, if it is still there, and is there once its row is locked (`Finds`); one that it
inserts is the only one of its pair and has been seen by nobody (`Inserts`); the
storefront that it is about to refer to stays (`Refers`); a deletion takes conversations
of its own user only (`TakesOwn`). `Apart` is what locks do: no deletion that has listed
its conversations goes past one that another request has locked, and no two insert for
the same pair. `Overtaken` is the delicate one: a message through a storefront may find
a conversation without one, and by its UPDATE find another storefront there; then the
conversation was opened without one, and this is why its inquiry was counted already.
For the refinement, every step but `CommitTalk` (`Talk`) and the last step of a deletion
(`Leave`) stutters; a marking of messages writes nothing the promise speaks of. The
proof found an omission in `Conversations`: that someone opens a conversation and writes
nothing stood under `\E m \in Messages`, and so was not allowed where there are no
messages at all.

`ReviewsProofs` proves, for any buyers, requests, scores and milestones
(`BuyersAssumption`: the owner of the storefront is no buyer; `PayloadsAssumption`: each
score is the sum of two that lie between 1 and 5; `MilestonesAssumption`: neither
milestone is zero):

* `TypeCorrect`: `Spec => []TypeOK`
* `OnlyCustomersReview`: `Spec => []ReviewsEarned`
* `MeanIsShown`: `Spec => []RatingIsMean`
* `OneRefreshRepairs`: `Spec => []RatingsSettle`
* `MilestonesCorrect`: `Spec => []MilestonesAddUp`

That a review was earned is known when it is written and not when it is stored; `Asks`
and `Knows` carry it, with the identity of the row, from the check to the commit, and
`Spoken` connects the check to what `Conversations` records. That a refresh that ran
alone repairs the numbers needs that it still has the profile it loaded and the count it
made (`Alone`), and that a request between its write and its refresh is the only reason
for the numbers to be old (`UpToDate`). `MilestonesAddUp` needs `RatingIsMean` besides,
to know that the reviews stored with five stars are those that were counted, and
arithmetic for the milestones.

`MobileSessionProofs` proves, for any number of calls, tokens and kills
(`BoundsAssumption`):

* `TypeCorrect`: `Spec => []TypeOK`
* `SignedOutForCause`: `Spec => []OutForCause`
* `LogoutLeavesNothing`: `Spec => []NothingLeft`
* `SessionsAccountedFor`: `Spec => []SessionsAccounted`

`SignedOutForCause` covers every sign-out the app makes by itself, those of the splash
screen too. After a refresh it has two parts. A refresh is refused for cause
only because the token in memory is good (open on the
server, or there is cause to give it up), or its successor is on its way to the
one call that refreshes (`Held`); and what is then revoked and deleted is the token in
memory, which `Ending` shows to be the one that was sent, unless a login has replaced it. This rests on `Flagged` (one call at a time has
`_refreshInProgress`), on `Starts` (the splash screen's own refresh, which does not look
at the flag, has nothing beside it), and on `Renewed` (a token on its way to a call is
known to nobody else). Requests whose caller has died may still reach the server;
`Lingering` says that all of them are for tokens given up. On the splash screen, storage and
memory agree and an answered `/auth/me` was sent with the stored access token (`Starts`,
`Sent`), so that restoring the session from storage loses no token, and the last stage is
the only one that can end a session over a good one (`ReturnsForCause`). `Logouts` carries from a
logout's first step to its last that nothing else runs and that the memory is empty.

`AccountsProofs` proves, for any finite set of requests, any codes and any instants
(`RequestsAssumption`; `CodesAssumption`: the code another user holds is one of the
codes; `BoundsAssumption`: the bounds are numbers):

* `TypeCorrect`: `Spec => []TypeOK`
* `CodeWorksOnce`: `Spec => []ConsumedOnce`
* `DeletionIsFinal`: `Spec => []DeletedIsInert`
* `PaidIsShown`: `Spec => []PaidShown`
* `OneAtATime`: `Spec => []OneActive`

Again the first three follow from one `IInv`. That a row is not yet used when a
confirmation commits is not said by `ConsumedOnce`: it follows from `Locks` (the
confirmation holds the row's lock from its SELECT on, no other request holds it or has
deleted the row) together with `Unique` and `Unborn` (the hash names one row, and a code
on its way to the database is nobody's yet). `DeletedIsInert` speaks of deletions that
ran alone, so `Alone` carries from the request's beginning to its commit that every
other request is idle, that the deletion has read the row as it is and that its second
statement has found every code; `Deletes` and `Inert` keep requests without the right
credentials from starting. `Numbered` is needed for `TypeOK` only: ids of subscriptions
are handed out in order.

The two about premium membership need `Premium` on top. What was paid for is shown as
long as whoever is about to clear the flag has loaded the date that is still in the row,
and found it past, and whoever is about to replace or cancel subscriptions has found the
one that is paid (`Found`, `Shown`). Activations that overlap can each leave an active
subscription, since none sees the other's; `OneActive` bounds them by the number of
requests. `Activated` exhibits the injective map from active subscriptions to requests
that this needs: the next activation in a slot finds, and cancels, that of the last.
That there are finitely many requests is used only here, to count.

`MigrationsProofs` proves, for any processes, any releases and any downgrades an
operator may run, any users, storefronts and rows (`UsersAssumption`;
`OwnerAssumption`: `seller_profiles.user_id` is unique; `ReleasesAssumption`: releases
and downgrades are between the first and the last revision; `FiveStarsAssumption`,
`BoundsAssumption`: counts are numbers):

* `OneMigrates`: `Spec => []Control`: of processes that run at once, one has updated
  `alembic_version`, and it found the committed revision; a downgrade is alone
* `TypesHold`: `Spec => []TypeOK`, which includes that messages keep a conversation
* `MilestonesFollow`: `Spec => []MilestonesFollowReviews`
* `TastesStay`: `Spec => []TastesKept`
* `WordsStay`: `Spec => []NothingSaidIsLost`
* `ReviewersStay`: `Spec => []EligibilityKept`
* `SchemaFollows`: `Spec => []SchemaFollowsRevision`

None of them is inductive, since a commit puts in place what a transaction has prepared
over many statements. `Control` and `Held` say where a process is in its scripts
(`Placed`) and which tables it has locked by then: from its first statement on
conversations, milestones or favourites to its commit the program cannot write them, so
what it sees is what it will commit. For each property there is then one invariant of
the rows that a live process sees (one that found the committed revision: others fail
at `alembic_version`), as a function of the statement it is at: `Scored` the milestones
while 013 splits or joins them, `JobFits` the columns of a conversation that have a
value while 011 fills and empties them, `UpKept` where each message is before, while and
after 011 merges the conversations of a pair. `Settled` is the delicate one: when 011 deletes the
duplicates no message is in one, so the cascade takes none. For the right to review, the
conversation that is kept is the oldest of its pair (`KeeperIs`), so a storefront gives
way only to one that the other user had written to before (`Earlier`). The lemmas about
the scripts say of each of the 26 which of its statements touch such rows, and where
they are; every other statement is `Calm`.

`SchemaFollows` rests on `Followed`: the committed schema is the one that the upgrades up
to its revision make of an empty database, or differs from it only in what an undone 011
leaves behind; and what a live process sees is what its script has made, so far, of such
a schema (`Built`). The work is in the lemma that a downgrade takes an upgrade back. An
object of the schema has an age, the revision whose downgrade drops it, with its table,
with its column or by its name (`TableAge`, `ColumnAge`, `NameAge`). Each upgrade creates
only objects of its own age (`AllMake`) and keeps every other (`UpKeeps`), each downgrade
drops those of its age and nothing else (`AllUndo`). So a downgrade ends at the schema its
upgrade began with (`DownBack`). 007's does not, which is the exception the property
names. 011's does but for the unique constraint of 006 and what else is on the columns it
drops (`DownAlike`); 011 applied again removes these before anything could depend on
them (`BlindAlike`, `NoneLeft`). Scripts are taken one statement at a time, by
induction on a bounded number of statements, with the lemmas about `Altered`, the effect
of one statement.

Only model-checked:

* `EveryRequestEnds` of `RefreshSessions` and `FavoriteCounters`: liveness under fairness
  is out of TLAPS's reach.
* `ModelsFit` of `Migrations`: `SchemaFollows` reduces it, where 007 was not undone, to a
  statement about one constant, `SchemaOf[13]`, and TLC has evaluated that constant; a
  proof would compare some two hundred tables, columns and constraints with the models
  by hand.
* `FailuresExplained` of `Migrations`: it depends on which statements a schema refuses,
  for each statement of the thirteen scripts.

## 6. Not modelled, and why

Components:

* Media uploads: a ticket is signed and not stored, a PUT overwrites the object, a
  URL is stored in a profile; no two requests meet in any state. What could go wrong
  is in checks on strings and bytes.
* Request pipeline, rate limits, configuration, telemetry, e-mail, logging: a buffer
  per request, libraries, start-up checks and pure I/O.
* Search, catalogue, storefront queries, and the edits of products and profiles: single
  statements on rows that no rule relates.
* Follows, saved searches, recently viewed, reports, audit log, and the read flags of
  notifications: rows of one user, inserted, deleted or marked once.
* Mobile local storage, uploads, screens, translations: preferences of one device, and
  presentation of what the server answered. The server's side of the guest migration
  is in `FavoriteCounters`.
* SCAD: one map, written synchronously and never persisted; its score is a weighted sum
  of floating-point factors, which integers would only imitate.
* Seeds, infrastructure, CI, thesis: data and declarations.

Parts of components that are modelled:

* Sessions: expiry times are choices, entropy is the uniqueness of numbers. A failure
  of `commit()` after the database has committed is, to the client, a lost answer, on which
  no server state depends.
* Accounts: roles and account types; edits of the profile; the guard that asks for a
  verified e-mail, which reads one column. The row of another user matters only as the owner
  of a code.
* Reviews: a storefront whose owner deletes his account, which removes the reviews
  by cascade; the comment of a review; the four averages per category, which are
  computed like the overall one.
* Migrations: enumerated types, the type of a column unless a script changes
  it (`price_mad`), the values of server defaults, and index methods.
* Mobile session: account deletion, which ends on the client like a logout; the
  calls between a login and the saving of the user; the 25 s limit of the login form,
  after which a second login may overlap the first, as it may here anyway.
