------------------------------- MODULE Accounts -------------------------------
(***************************************************************************)
(* One account and everything that writes its row beside the sessions:     *)
(* codes for email verification and password reset, premium membership     *)
(* with its expiry, suspension and deletion (routers/auth.py, auth.py,     *)
(* services/premium.py, routers/seller_ops.py, routers/sellers.py).        *)
(*                                                                         *)
(* A request loads rows, decides, and writes at its commit.  The ORM       *)
(* writes only the columns whose new value is not the one it loaded, so    *)
(* that two requests can each leave half of what they meant.               *)
(***************************************************************************)
EXTENDS Naturals, FiniteSets

CONSTANTS
    Requests,  \* slots for requests that run at the same time
    Codes,     \* values of a code; one is in use by another account
    Foreign,   \* that one
    MaxTime, MaxRequests \* bounds: the clock, the requests that ever begin

ASSUME CodesAssumption == Foreign \in Codes
ASSUME RequestsAssumption == IsFiniteSet(Requests)
ASSUME BoundsAssumption == MaxTime \in Nat \ {0} /\ MaxRequests \in Nat

VARIABLES
    clock,
    user,   \* the row of users
    store,  \* is_premium of his seller_profiles row, as "plain" or "premium"
    subs,   \* subscriptions
    tokens, \* auth_tokens
    req,    \* the requests
    past    \* what happened (history)

rows == <<user, store, subs, tokens>>
vars == <<clock, rows, req, past>>

Purposes == {"email_verify", "password_reset"}
NoDate == 0
(* named: the email is his, not the one of a deleted account               *)
User == [status : {"active", "suspended", "deleted"}, named : BOOLEAN, password : BOOLEAN,
         verified : BOOLEAN, premium : BOOLEAN, until : Nat]
NewUser == [status |-> "active", named |-> TRUE, password |-> TRUE, verified |-> FALSE,
            premium |-> FALSE, until |-> NoDate]

(* at     : what the request does next                                     *)
(* user   : the row as the session loaded it                               *)
(* store  : the storefront's flag as loaded, or none                       *)
(* status : what an administrator sets                                     *)
(* ids    : subscriptions it found, and                                    *)
(* codes  : codes                                                          *)
(* code   : the code it issues or confirms, for                            *)
(* purpose: this purpose                                                   *)
(* alone  : no other request has run beside it (history)                   *)
NoStore == "none"
Idle == [at |-> "idle", user |-> NewUser, store |-> NoStore, status |-> "active",
         ids |-> {}, codes |-> {}, code |-> Foreign, purpose |-> "email_verify", alone |-> TRUE]

Others(r) == Requests \ {r}
Becomes(r, q) == req' = [req EXCEPT ![r] = q]
End(r) == Becomes(r, Idle)

(* A request begins: from now on those that run are not alone.             *)
Begin(r, q) ==
    /\ req[r].at = "idle"
    /\ past.begun < MaxRequests
    /\ req' = [o \in Requests |->
                 IF o = r THEN [q EXCEPT !.alone = \A p \in Others(r) : req[p].at = "idle"]
                 ELSE IF req[o].at = "idle" THEN Idle ELSE [req[o] EXCEPT !.alone = FALSE]]
    /\ past' = [past EXCEPT !.begun = @ + 1]
    /\ UNCHANGED <<clock, rows>>

(* The row after the columns are written that differ from those loaded.    *)
Flushed(row, loaded, wanted) ==
    [col \in DOMAIN row |-> IF wanted[col] # loaded[col] THEN wanted[col] ELSE row[col]]

-----------------------------------------------------------------------------
(* Premium *)

(* Seeded fault: over as soon as the last instant begins.                  *)
is_premium_before(premium, until) == premium /\ (until = NoDate \/ until > clock)
is_premium_active(premium, until) == premium /\ (until = NoDate \/ until >= clock)

(* Any request of the user passes _enforce_account_state: an expired flag  *)
(* is to be cleared, in his row and in his storefront's.                   *)
Enforce(r) ==
    /\ user.status = "active"
    /\ user.premium
    /\ ~is_premium_active(user.premium, user.until)
    /\ Begin(r, [Idle EXCEPT !.at = "expired", !.user = user])

FindStore(r) ==
    /\ req[r].at = "expired"
    /\ Becomes(r, [req[r] EXCEPT !.at = "clear", !.store = store])
    /\ UNCHANGED <<clock, rows, past>>

(* The UPDATE of a storefront that has gone fails with StaleDataError.     *)
WriteFlag(loaded, wanted) == IF loaded \in {NoStore, wanted} THEN store ELSE wanted
Missed(loaded, wanted) == store = NoStore /\ loaded \notin {NoStore, wanted}

CommitClear(r) ==
    LET q == req[r] IN
    /\ q.at = "clear"
    /\ ~Missed(q.store, "plain")
    /\ user' = Flushed(user, q.user, [q.user EXCEPT !.premium = FALSE])
    /\ store' = WriteFlag(q.store, "plain")
    /\ End(r)
    /\ UNCHANGED <<clock, subs, tokens, past>>

(* Somebody sees the storefront, alone or in a list:                       *)
(* apply_seller_premium_expiry clears expired flags, or aligns the         *)
(* storefront's with the owner's; the latter is written if only the        *)
(* transaction commits, as it does to count a view.                        *)
See(r) ==
    /\ store # NoStore
    /\ Begin(r, [Idle EXCEPT !.at = "align", !.user = user, !.store = store])

CommitAlign(r) ==
    LET q == req[r]
        shown == q.user.premium \/ q.store = "premium"
        active == is_premium_active(shown, q.user.until)
        flag == IF active THEN "premium" ELSE "plain"
    IN
    /\ q.at = "align"
    /\ ~Missed(q.store, flag)
    /\ user' = IF shown /\ ~active THEN Flushed(user, q.user, [q.user EXCEPT !.premium = FALSE])
               ELSE user
    /\ store' = WriteFlag(q.store, flag)
    /\ End(r)
    /\ UNCHANGED <<clock, subs, tokens, past>>

Active == {s.id : s \in {x \in subs : x.active}}

(* subscribe and admin_grant_premium: the user is loaded.  An              *)
(* administrator may grant to whom he likes.                               *)
Grant(r) == Begin(r, [Idle EXCEPT !.at = "select", !.user = user])

(* his ACTIVE subscriptions and his storefront                             *)
SelectActive(r) ==
    /\ req[r].at = "select"
    /\ Becomes(r, [req[r] EXCEPT !.at = "grant", !.ids = Active, !.store = store])
    /\ UNCHANGED <<clock, rows, past>>

(* Seeded fault: the others stay active.                                   *)
KeptActive(ids) == subs
Canceled(ids) == {IF s.id \in ids THEN [s EXCEPT !.active = FALSE] ELSE s : s \in subs}

(* They are canceled, the new one is inserted, the flags are set.  (When   *)
(* one of them has been deleted the request fails, see Fail.)              *)
CommitGrant(r) ==
    LET q == req[r]
        end == clock + 1
        new == [id |-> past.sold + 1, active |-> TRUE, end |-> end, alone |-> q.alone]
    IN
    /\ q.at = "grant"
    /\ q.ids \subseteq {s.id : s \in subs}
    /\ \A o \in Others(r) : req[o].at = "leave" => req[o].ids \cap q.ids = {}
    /\ ~Missed(q.store, "premium")
    /\ subs' = Canceled(q.ids) \cup {new}
    /\ user' = [Flushed(user, q.user, [q.user EXCEPT !.premium = TRUE]) EXCEPT !.until = end]
    /\ store' = WriteFlag(q.store, "premium")
    /\ past' = [past EXCEPT !.sold = @ + 1]
    /\ End(r)
    /\ UNCHANGED <<clock, tokens>>

(* POST /sellers                                                           *)
CreateSeller ==
    /\ user.status = "active"
    /\ store = NoStore
    /\ store' = "plain"
    /\ UNCHANGED <<clock, user, subs, tokens, req, past>>

-----------------------------------------------------------------------------
(* Codes *)

(* request_email_verification, request_password_reset                      *)
AskCode(r, purpose) ==
    /\ IF purpose = "email_verify" THEN user.status = "active" /\ ~user.verified
       ELSE user.named /\ user.password
    /\ Begin(r, [Idle EXCEPT !.at = "issue", !.purpose = purpose])

Issued == {t.code : t \in tokens} \cup {req[r].code : r \in {o \in Requests : req[o].at = "mail"}}
(* Seeded fault: unique among the user's own codes only.                   *)
InUseByUser == Issued
InUse == {Foreign} \cup Issued

(* _issue_auth_token tries values until one is free, twenty at most, each  *)
(* in a savepoint; the request fails if none was.                          *)
IssueCode(r) ==
    LET q == req[r] IN
    /\ q.at = "issue"
    /\ \/ \E c \in Codes \ InUse : Becomes(r, [q EXCEPT !.at = "mail", !.code = c])
       \/ End(r) \* RuntimeError
    /\ UNCHANGED <<clock, rows, past>>

(* It is committed, and mailed after that.                                 *)
CommitCode(r) ==
    LET q == req[r] IN
    /\ q.at = "mail"
    /\ tokens' = tokens \cup {[code |-> q.code, purpose |-> q.purpose, used |-> FALSE,
                               expires |-> clock + 1, uses |-> 0]}
    /\ End(r)
    /\ UNCHANGED <<clock, user, store, subs, past>>

(* Seeded fault: it may have been used before.                             *)
Unexpired(t) == t.expires >= clock
Valid(t) == ~t.used /\ t.expires >= clock

(* confirm_email_verification, confirm_password_reset: the row is locked   *)
(* until the commit, which waits for nobody.                               *)
Confirm(r, t) ==
    /\ \A o \in Others(r) : /\ (req[o].at = "consume" => req[o].code # t.code)
                             /\ (req[o].at = "leave" => t.code \notin req[o].codes)
    /\ Valid(t)
    /\ Begin(r, [Idle EXCEPT !.at = "consume", !.code = t.code, !.purpose = t.purpose])

CommitConfirm(r) ==
    LET q == req[r] IN
    /\ q.at = "consume"
    /\ user' = IF q.purpose = "email_verify" THEN [user EXCEPT !.verified = TRUE]
               ELSE [user EXCEPT !.password = TRUE]
    /\ tokens' = {IF t.code = q.code THEN [t EXCEPT !.used = TRUE, !.uses = @ + 1] ELSE t :
                     t \in tokens}
    /\ End(r)
    /\ UNCHANGED <<clock, store, subs, past>>

-----------------------------------------------------------------------------
(* Suspension and deletion *)

(* admin_set_status: DELETED may become ACTIVE again                       *)
SetStatus(r, status) ==
    Begin(r, [Idle EXCEPT !.at = "set status", !.user = user, !.status = status])

CommitStatus(r) ==
    LET q == req[r] IN
    /\ q.at = "set status"
    /\ user' = Flushed(user, q.user, [q.user EXCEPT !.status = q.status])
    /\ past' = [past EXCEPT !.left = FALSE]
    /\ End(r)
    /\ UNCHANGED <<clock, store, subs, tokens>>

(* delete_account: the password is checked against the row loaded (an      *)
(* expired flag has been cleared first, by Enforce).                       *)
Delete(r) ==
    /\ user.status = "active"
    /\ user.premium => is_premium_active(user.premium, user.until)
    /\ user.password
    /\ Begin(r, [Idle EXCEPT !.at = "delete", !.user = user, !.store = store])

(* Seeded fault: the codes stay.                                           *)
NoCodes == {}
OwnCodes == {t.code : t \in tokens}

(* The rows there are by now are deleted, once those that are locked for a *)
(* confirmation are free.                                                  *)
DeleteRows(r) ==
    /\ req[r].at = "delete"
    /\ \A o \in Others(r) : req[o].at \notin {"consume", "leave"}
    /\ Becomes(r, [req[r] EXCEPT !.at = "leave", !.ids = {s.id : s \in subs},
                                 !.codes = OwnCodes])
    /\ UNCHANGED <<clock, rows, past>>

(* The columns of the row are cleared, of those that were set when it was  *)
(* loaded.                                                                 *)
CommitDelete(r) ==
    LET q == req[r]
        tombstone == [q.user EXCEPT !.status = "deleted", !.named = FALSE, !.password = FALSE,
                               !.premium = FALSE, !.until = NoDate]
    IN
    /\ q.at = "leave"
    /\ user' = Flushed(user, q.user, tombstone)
    /\ store' = IF q.store = NoStore THEN store ELSE NoStore
    /\ subs' = {s \in subs : s.id \notin q.ids}
    /\ tokens' = {t \in tokens : t.code \notin q.codes}
    /\ past' = [past EXCEPT !.left = q.alone]
    /\ End(r)
    /\ UNCHANGED clock

(* A request fails before its commit.                                      *)
Fail(r) ==
    /\ req[r].at # "idle"
    /\ End(r)
    /\ UNCHANGED <<clock, rows, past>>

Tick ==
    /\ clock < MaxTime
    /\ clock' = clock + 1
    /\ UNCHANGED <<rows, req, past>>

-----------------------------------------------------------------------------

Init ==
    /\ clock = 1
    /\ user = NewUser
    /\ store = NoStore
    /\ subs = {}
    /\ tokens = {}
    /\ req = [r \in Requests |-> Idle]
    /\ past = [begun |-> 0, sold |-> 0, left |-> FALSE]

Next ==
    \/ \E r \in Requests :
          \/ Enforce(r) \/ FindStore(r) \/ CommitClear(r) \/ See(r) \/ CommitAlign(r)
          \/ Grant(r) \/ SelectActive(r) \/ CommitGrant(r)
          \/ \E purpose \in Purposes : AskCode(r, purpose)
          \/ IssueCode(r) \/ CommitCode(r)
          \/ \E t \in tokens : Confirm(r, t)
          \/ CommitConfirm(r)
          \/ \E status \in {"active", "suspended", "deleted"} : SetStatus(r, status)
          \/ CommitStatus(r)
          \/ Delete(r) \/ DeleteRows(r) \/ CommitDelete(r)
          \/ Fail(r)
    \/ CreateSeller
    \/ Tick

Spec == Init /\ [][Next]_vars

-----------------------------------------------------------------------------
(* Properties *)

(* Types; no two rows of auth_tokens have one hash, those of other         *)
(* accounts included.                                                      *)
TypeOK ==
    /\ clock \in 1 .. MaxTime
    /\ user \in User
    /\ store \in {NoStore, "plain", "premium"}
    /\ \A s, x \in subs : s.id = x.id => s = x
    /\ \A t, x \in tokens : t.code \in Codes \ {Foreign} /\ (t.code = x.code => t = x)
    /\ \A r \in Requests :
          req[r].at \in {"idle", "expired", "clear", "align", "select", "grant", "issue", "mail",
                         "consume", "set status", "delete", "leave"}

(* A code is consumed once, however many confirmations run at once and     *)
(* whatever they are answered.                                             *)
ConsumedOnce == \A t \in tokens : t.uses = (IF t.used THEN 1 ELSE 0)

(* Whoever has a running subscription is shown as premium, unless it was   *)
(* activated while another request on the account ran: one that had loaded *)
(* the expired row clears the new flag, and an activation that loaded the  *)
(* old flag does not write it again.                                       *)
PaidShown ==
    \A s \in subs : s.active /\ s.alone /\ s.end >= clock => user.premium

(* One subscription at a time is active, or as many as there were requests *)
(* at once; activations that had nothing beside them leave one.            *)
OneActive ==
    /\ Cardinality({s \in subs : s.active /\ s.alone}) <= 1
    /\ Cardinality(Active) <= Cardinality(Requests)

(* A deleted account stays so until an administrator says otherwise: no    *)
(* code is left to set a password again.  (A request that ran beside the   *)
(* deletion may have left one.)                                            *)
DeletedIsInert ==
    past.left => user.status = "deleted" /\ ~user.password /\ tokens = {}

=============================================================================
