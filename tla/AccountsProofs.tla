---------------------------- MODULE AccountsProofs ----------------------------
(***************************************************************************)
(* What Accounts promises about codes, about a deleted account and about   *)
(* premium membership, proved for any number of requests, codes and        *)
(* instants: first the invariant IInv with the theorems it carries, then   *)
(* Premium on top of it.                                                   *)
(***************************************************************************)
EXTENDS Accounts, TLAPS, FiniteSetTheorems

-----------------------------------------------------------------------------
(* The invariant *)

Places == {"idle", "expired", "clear", "align", "select", "grant", "issue", "mail",
           "consume", "set status", "delete", "leave"}
Statuses == {"active", "suspended", "deleted"}
Flags == {NoStore, "plain", "premium"}
Request == [at : Places, user : User, store : Flags, status : Statuses, ids : SUBSET Nat,
            codes : SUBSET Codes, code : Codes, purpose : Purposes, alone : BOOLEAN]
Subscription == [id : Nat, active : BOOLEAN, end : Nat, alone : BOOLEAN]
Row == [code : Codes \ {Foreign}, purpose : Purposes, used : BOOLEAN, expires : Nat, uses : Nat]

Typed ==
    /\ clock \in 1 .. MaxTime
    /\ user \in User
    /\ store \in Flags
    /\ subs \subseteq Subscription
    /\ tokens \subseteq Row
    /\ req \in [Requests -> Request]
    /\ past \in [begun : Nat, sold : Nat, left : BOOLEAN]

(* Ids of subscriptions are handed out in order, and hashes are unique.    *)
Numbered == \A s \in subs : /\ s.id <= past.sold
                            /\ \A x \in subs : s.id = x.id => s = x
Unique == \A t, x \in tokens : t.code = x.code => t = x

(* A code on its way is nobody's yet.                                      *)
Unborn(r) ==
    req[r].at = "mail" =>
        /\ req[r].code # Foreign
        /\ \A t \in tokens : t.code # req[r].code
        /\ \A o \in Others(r) : req[o].at = "mail" => req[o].code # req[r].code

(* Whoever confirms a code has locked its row, which is unused, and a      *)
(* deletion that is under way has not deleted it.                          *)
Locks(r) ==
    req[r].at = "consume" =>
        /\ \E t \in tokens : t.code = req[r].code /\ ~t.used
        /\ \A o \in Others(r) :
              /\ req[o].at = "consume" => req[o].code # req[r].code
              /\ req[o].at = "leave" => req[r].code \notin req[o].codes

(* Alone means that no other request runs; then a deletion knows the row   *)
(* and, once it has deleted them, all the codes.                           *)
Alone(r) ==
    req[r].at # "idle" /\ req[r].alone =>
        /\ \A o \in Others(r) : req[o].at = "idle"
        /\ req[r].at \in {"delete", "leave"} => user = req[r].user
        /\ req[r].at = "leave" => \A t \in tokens : t.code \in req[r].codes
Deletes(r) ==
    req[r].at \in {"delete", "leave"} => req[r].user.status = "active" /\ req[r].user.password

(* After a deletion like that nothing is under way with a code.            *)
Inert(r) == past.left => req[r].at \notin {"issue", "mail", "consume"}

Fine(r) == Unborn(r) /\ Locks(r) /\ Alone(r) /\ Deletes(r) /\ Inert(r)

IInv == /\ Typed /\ Numbered /\ Unique
        /\ ConsumedOnce /\ DeletedIsInert
        /\ \A r \in Requests : Fine(r)

-----------------------------------------------------------------------------

LEMMA InitInv == Init => IInv
<1> SUFFICES ASSUME Init PROVE IInv
  OBVIOUS
<1>1. NewUser \in User
  BY DEF NewUser, User, NoDate
<1>2. Idle \in Request /\ Idle.at = "idle"
  BY <1>1, CodesAssumption DEF Idle, Request, Places, Statuses, Flags, NoStore, Purposes
<1>3. Typed
  BY <1>1, <1>2, BoundsAssumption DEF Init, Typed, Flags, NoStore
<1>4. Numbered /\ Unique /\ ConsumedOnce /\ DeletedIsInert
  BY DEF Init, Numbered, Unique, ConsumedOnce, DeletedIsInert
<1>5. \A r \in Requests : Fine(r)
  BY <1>2 DEF Init, Fine, Unborn, Locks, Alone, Deletes, Inert
<1> QED
  BY <1>3, <1>4, <1>5 DEF IInv

LEMMA IdleFine == Idle \in Request /\ Idle.at = "idle"
<1>1. NewUser \in User
  BY DEF NewUser, User, NoDate
<1> QED
  BY <1>1, CodesAssumption DEF Idle, Request, Places, Statuses, Flags, NoStore, Purposes

LEMMA RequestFields ==
  ASSUME Typed, NEW r \in Requests
  PROVE  /\ req[r] \in Request
         /\ req[r].at \in Places /\ req[r].user \in User /\ req[r].store \in Flags
         /\ req[r].status \in Statuses /\ req[r].ids \subseteq Nat /\ req[r].codes \subseteq Codes
         /\ req[r].code \in Codes /\ req[r].purpose \in Purposes /\ req[r].alone \in BOOLEAN
  BY DEF Typed, Request

LEMMA Changed ==
  ASSUME Typed, NEW r \in Requests, NEW q \in Request, Becomes(r, q)
  PROVE  /\ req' \in [Requests -> Request]
         /\ req'[r] = q
         /\ \A o \in Others(r) : req'[o] = req[o]
  BY DEF Typed, Becomes, Others

(* A request that is under way writes nothing yet, or ends.                *)
LEMMA PrivateStep ==
  ASSUME IInv, NEW r \in Requests, NEW q \in Request, Becomes(r, q),
         UNCHANGED <<clock, rows, past>>,
         req[r].at # "idle",
         q.at # "consume",
         q.at = "idle" \/ q.alone = req[r].alone,
         q.at = "mail" =>
             /\ q.code # Foreign
             /\ \A t \in tokens : t.code # q.code
             /\ \A o \in Others(r) : req[o].at = "mail" => req[o].code # q.code,
         q.at \in {"issue", "mail"} => req[r].at = "issue",
         q.at # "delete",
         q.at = "leave" => /\ req[r].at = "delete" /\ q.user = req[r].user
                           /\ \A t \in tokens : t.code \in q.codes
                           /\ \A o \in Others(r) : req[o].at # "consume"
  PROVE  IInv'
<1> USE DEF rows
<1>1. /\ req' \in [Requests -> Request]
      /\ req'[r] = q
      /\ \A o \in Others(r) : req'[o] = req[o]
  BY Changed DEF IInv
<1>2. Typed' /\ Numbered' /\ Unique' /\ ConsumedOnce' /\ DeletedIsInert'
  BY <1>1 DEF IInv, Typed, Numbered, Unique, ConsumedOnce, DeletedIsInert
<1>3. Fine(r)
  BY DEF IInv
<1>4. Fine(r)'
  <2>1. Unborn(r)' /\ Locks(r)' /\ Deletes(r)' /\ Inert(r)'
    BY <1>1, <1>3 DEF Fine, Unborn, Locks, Deletes, Inert, Others
  <2>2. Alone(r)'
    BY <1>1, <1>3 DEF Fine, Alone, Others
  <2> QED
    BY <2>1, <2>2 DEF Fine
<1>5. ASSUME NEW o \in Others(r) PROVE Fine(o)'
  <2>1. Fine(o) /\ o \in Requests /\ r \in Others(o) /\ req'[o] = req[o]
    BY <1>1 DEF IInv, Others
  <2>2. Unborn(o)'
    BY <1>1, <2>1 DEF Fine, Unborn, Others
  <2>3. Locks(o)'
    BY <1>1, <2>1 DEF Fine, Locks, Others
  <2>4. Alone(o)' /\ Deletes(o)' /\ Inert(o)'
    BY <1>1, <2>1 DEF Fine, Alone, Deletes, Inert, Others
  <2> QED
    BY <2>2, <2>3, <2>4 DEF Fine
<1>6. \A o \in Requests : Fine(o)'
  BY <1>4, <1>5 DEF Others
<1> QED
  BY <1>2, <1>6 DEF IInv

LEMMA EndStep ==
  ASSUME IInv, NEW r \in Requests, End(r), UNCHANGED <<clock, rows, past>>, req[r].at # "idle"
  PROVE  IInv'
<1>1. Idle \in Request /\ Idle.at = "idle"
  BY IdleFine
<1>2. Becomes(r, Idle)
  BY DEF End
<1> QED
  BY <1>1, <1>2, PrivateStep

LEMMA PastBegun ==
  ASSUME Typed, past' = [past EXCEPT !.begun = @ + 1]
  PROVE  /\ past' \in [begun : Nat, sold : Nat, left : BOOLEAN]
         /\ past'.sold = past.sold /\ past'.left = past.left
<1>1. past \in [begun : Nat, sold : Nat, left : BOOLEAN]
  BY DEF Typed
<1>2. past.begun + 1 \in Nat
  BY <1>1
<1> QED
  BY <1>1, <1>2

(* A request begins, beside others or not.                                 *)
LEMMA BeginStep ==
  ASSUME IInv, NEW r \in Requests, NEW q \in Request, Begin(r, q),
         q.at \in {"expired", "align", "select", "issue", "consume", "set status", "delete"},
         q.at = "consume" =>
             /\ \E t \in tokens : t.code = q.code /\ ~t.used
             /\ \A o \in Others(r) : /\ req[o].at = "consume" => req[o].code # q.code
                                     /\ req[o].at = "leave" => q.code \notin req[o].codes,
         q.at = "delete" => q.user = user /\ user.status = "active" /\ user.password,
         past.left => q.at \notin {"issue", "consume"}
  PROVE  IInv'
<1> USE DEF rows
<1> DEFINE alone == \A p \in Others(r) : req[p].at = "idle"
           p == [q EXCEPT !.alone = alone]
<1>1. /\ req[r].at = "idle" /\ UNCHANGED <<clock, rows>>
      /\ past' = [past EXCEPT !.begun = @ + 1]
      /\ req' = [o \in Requests |->
                   IF o = r THEN p
                   ELSE IF req[o].at = "idle" THEN Idle ELSE [req[o] EXCEPT !.alone = FALSE]]
  BY DEF Begin
<1>2. /\ p \in Request /\ p.at = q.at /\ p.user = q.user /\ p.code = q.code
      /\ p.alone = alone
  BY DEF Request
<1> HIDE DEF p
<1>3. /\ req'[r] = p
      /\ \A o \in Others(r) :
            /\ req'[o].at = req[o].at
            /\ req[o].at # "idle" => /\ req'[o].code = req[o].code /\ req'[o].user = req[o].user
                                     /\ req'[o].codes = req[o].codes /\ ~req'[o].alone
      /\ req' \in [Requests -> Request]
  <2>1. req'[r] = p
    BY <1>1
  <2>2. ASSUME NEW o \in Others(r)
        PROVE  /\ req'[o] \in Request
               /\ req'[o].at = req[o].at
               /\ req[o].at # "idle" =>
                      /\ req'[o].code = req[o].code /\ req'[o].user = req[o].user
                      /\ req'[o].codes = req[o].codes /\ ~req'[o].alone
    <3>1. req'[o] = IF req[o].at = "idle" THEN Idle ELSE [req[o] EXCEPT !.alone = FALSE]
      BY <1>1 DEF Others
    <3>2. req[o] \in Request
      BY DEF IInv, Typed, Others
    <3>3. CASE req[o].at = "idle"
      BY <3>1, <3>3, IdleFine
    <3>4. CASE req[o].at # "idle"
      BY <3>1, <3>2, <3>4 DEF Request
    <3> QED
      BY <3>3, <3>4
  <2>3. \A o \in Requests : req'[o] \in Request
    BY <2>1, <2>2, <1>2 DEF Others
  <2> QED
    BY <1>1, <2>1, <2>2, <2>3
<1>4. /\ past' \in [begun : Nat, sold : Nat, left : BOOLEAN]
      /\ past'.sold = past.sold /\ past'.left = past.left
  <2>1. Typed /\ past' = [past EXCEPT !.begun = @ + 1]
    BY <1>1 DEF IInv
  <2> QED
    BY <2>1, PastBegun
<1>0. /\ req[r].at = "idle"
      /\ clock' = clock /\ user' = user /\ store' = store /\ subs' = subs /\ tokens' = tokens
  BY <1>1
<1>5. Typed' /\ Numbered' /\ Unique' /\ ConsumedOnce' /\ DeletedIsInert'
  BY <1>0, <1>3, <1>4 DEF IInv, Typed, Numbered, Unique, ConsumedOnce, DeletedIsInert
<1>6. Fine(r)'
  <2>1. Unborn(r)' /\ Deletes(r)' /\ Inert(r)'
    BY <1>0, <1>2, <1>3, <1>4 DEF Unborn, Deletes, Inert
  <2>2. Locks(r)'
    BY <1>0, <1>2, <1>3 DEF Locks
  <2>3. Alone(r)'
    BY <1>0, <1>2, <1>3 DEF Alone
  <2> QED
    BY <2>1, <2>2, <2>3 DEF Fine
<1>7. ASSUME NEW o \in Others(r) PROVE Fine(o)'
  <2>1. Fine(o) /\ o \in Requests /\ r \in Others(o)
    BY DEF IInv, Others
  <2>2. Unborn(o)'
    BY <1>0, <1>2, <1>3, <2>1 DEF Fine, Unborn, Others
  <2>3. Locks(o)'
    <3> SUFFICES ASSUME req[o].at = "consume" PROVE Locks(o)'
      BY <1>3 DEF Locks
    <3>1. /\ \E t \in tokens' : t.code = req'[o].code /\ ~t.used
          /\ req'[o].code = req[o].code
      BY <1>0, <1>3, <2>1 DEF Fine, Locks
    <3>2. ASSUME NEW x \in Others(o)
          PROVE  /\ req'[x].at = "consume" => req'[x].code # req[o].code
                 /\ req'[x].at = "leave" => req[o].code \notin req'[x].codes
      <4>1. CASE x = r
        BY <1>2, <1>3, <4>1
      <4>2. CASE x \in Others(r)
        BY <1>3, <2>1, <4>2 DEF Fine, Locks
      <4> QED
        BY <4>1, <4>2 DEF Others
    <3> QED
      BY <3>1, <3>2 DEF Locks, Others
  <2>4. Alone(o)'
    BY <1>3, <2>1 DEF Alone
  <2>5. Deletes(o)'
    BY <1>3, <2>1 DEF Fine, Deletes
  <2>6. Inert(o)'
    BY <1>3, <1>4, <2>1 DEF Fine, Inert
  <2> QED
    BY <2>2, <2>3, <2>4, <2>5, <2>6 DEF Fine
<1>8. \A o \in Requests : Fine(o)'
  BY <1>6, <1>7 DEF Others
<1> QED
  BY <1>5, <1>8 DEF IInv

-----------------------------------------------------------------------------
(* Requests that begin *)

LEMMA IdleWith ==
  ASSUME Typed
  PROVE  /\ \A at \in Places :
               /\ [Idle EXCEPT !.at = at, !.user = user] \in Request
               /\ [Idle EXCEPT !.at = at, !.user = user, !.store = store] \in Request
         /\ \A purpose \in Purposes, code \in Codes :
               /\ [Idle EXCEPT !.at = "issue", !.purpose = purpose] \in Request
               /\ [Idle EXCEPT !.at = "consume", !.code = code, !.purpose = purpose] \in Request
         /\ \A status \in Statuses :
               [Idle EXCEPT !.at = "set status", !.user = user, !.status = status] \in Request
  BY IdleFine DEF Typed, Request, Places

LEMMA EnforceInv == ASSUME IInv, NEW r \in Requests, Enforce(r) PROVE IInv'
<1> DEFINE q == [Idle EXCEPT !.at = "expired", !.user = user]
<1>1. q \in Request
  BY IdleWith DEF IInv, Places
<1>2. q.at = "expired"
  BY IdleFine DEF Request
<1>3. Begin(r, q)
  BY DEF Enforce
<1> HIDE DEF q
<1> QED
  BY <1>1, <1>2, <1>3, BeginStep

LEMMA SeeInv == ASSUME IInv, NEW r \in Requests, See(r) PROVE IInv'
<1> DEFINE q == [Idle EXCEPT !.at = "align", !.user = user, !.store = store]
<1>1. q \in Request
  BY IdleWith DEF IInv, Places
<1>2. q.at = "align"
  BY IdleFine DEF Request
<1>3. Begin(r, q)
  BY DEF See
<1> HIDE DEF q
<1> QED
  BY <1>1, <1>2, <1>3, BeginStep

LEMMA GrantInv == ASSUME IInv, NEW r \in Requests, Grant(r) PROVE IInv'
<1> DEFINE q == [Idle EXCEPT !.at = "select", !.user = user]
<1>1. q \in Request
  BY IdleWith DEF IInv, Places
<1>2. q.at = "select"
  BY IdleFine DEF Request
<1>3. Begin(r, q)
  BY DEF Grant
<1> HIDE DEF q
<1> QED
  BY <1>1, <1>2, <1>3, BeginStep

(* Nobody asks for a code for a deleted account.                           *)
LEMMA AskCodeInv ==
  ASSUME IInv, NEW r \in Requests, NEW purpose \in Purposes, AskCode(r, purpose)
  PROVE  IInv'
<1> DEFINE q == [Idle EXCEPT !.at = "issue", !.purpose = purpose]
<1>1. q \in Request
  BY IdleWith, CodesAssumption DEF IInv
<1>2. q.at = "issue"
  BY IdleFine DEF Request
<1>3. Begin(r, q) /\ (user.status = "active" \/ user.password)
  BY DEF AskCode
<1>4. ~past.left
  BY <1>3 DEF IInv, DeletedIsInert
<1> HIDE DEF q
<1> QED
  BY <1>1, <1>2, <1>3, <1>4, BeginStep

LEMMA ConfirmInv ==
  ASSUME IInv, NEW r \in Requests, NEW t \in tokens, Confirm(r, t)
  PROVE  IInv'
<1> DEFINE q == [Idle EXCEPT !.at = "consume", !.code = t.code, !.purpose = t.purpose]
<1>1. t.code \in Codes /\ t.purpose \in Purposes
  BY DEF IInv, Typed, Row
<1>2. q \in Request
  BY <1>1, IdleWith DEF IInv
<1>3. q.at = "consume" /\ q.code = t.code
  BY IdleFine DEF Request
<1>4. Begin(r, q) /\ ~t.used
  BY DEF Confirm, Valid
<1>5. \A o \in Others(r) : /\ req[o].at = "consume" => req[o].code # t.code
                           /\ req[o].at = "leave" => t.code \notin req[o].codes
  BY DEF Confirm
<1>6. ~past.left
  BY DEF IInv, DeletedIsInert
<1> HIDE DEF q
<1> QED
  BY <1>2, <1>3, <1>4, <1>5, <1>6, BeginStep

LEMMA SetStatusInv ==
  ASSUME IInv, NEW r \in Requests, NEW status \in Statuses, SetStatus(r, status)
  PROVE  IInv'
<1> DEFINE q == [Idle EXCEPT !.at = "set status", !.user = user, !.status = status]
<1>1. q \in Request
  BY IdleWith DEF IInv
<1>2. q.at = "set status"
  BY IdleFine DEF Request
<1>3. Begin(r, q)
  BY DEF SetStatus
<1> HIDE DEF q
<1> QED
  BY <1>1, <1>2, <1>3, BeginStep

LEMMA DeleteInv == ASSUME IInv, NEW r \in Requests, Delete(r) PROVE IInv'
<1> DEFINE q == [Idle EXCEPT !.at = "delete", !.user = user, !.store = store]
<1>1. q \in Request
  BY IdleWith DEF IInv, Places
<1>2. q.at = "delete" /\ q.user = user
  BY IdleFine DEF Request
<1>3. Begin(r, q) /\ user.status = "active" /\ user.password
  BY DEF Delete
<1> HIDE DEF q
<1> QED
  BY <1>1, <1>2, <1>3, BeginStep

-----------------------------------------------------------------------------
(* Requests that go on *)

LEMMA FindStoreInv == ASSUME IInv, NEW r \in Requests, FindStore(r) PROVE IInv'
<1> DEFINE q == [req[r] EXCEPT !.at = "clear", !.store = store]
<1>1. req[r] \in Request /\ store \in Flags
  BY DEF IInv, Typed
<1>2. q \in Request /\ q.at = "clear" /\ q.alone = req[r].alone
  BY <1>1 DEF Request, Places
<1>3. Becomes(r, q) /\ UNCHANGED <<clock, rows, past>> /\ req[r].at = "expired"
  BY DEF FindStore
<1> HIDE DEF q
<1> QED
  BY <1>2, <1>3, PrivateStep

LEMMA SelectActiveInv == ASSUME IInv, NEW r \in Requests, SelectActive(r) PROVE IInv'
<1> DEFINE q == [req[r] EXCEPT !.at = "grant", !.ids = Active, !.store = store]
<1>1. req[r] \in Request /\ store \in Flags /\ Active \subseteq Nat
  BY DEF IInv, Typed, Active, Subscription
<1>2. q \in Request /\ q.at = "grant" /\ q.alone = req[r].alone
  BY <1>1 DEF Request, Places
<1>3. Becomes(r, q) /\ UNCHANGED <<clock, rows, past>> /\ req[r].at = "select"
  BY DEF SelectActive
<1> HIDE DEF q
<1> QED
  BY <1>2, <1>3, PrivateStep

(* What is free is no row's and no other request's.                        *)
LEMMA IssueCodeInv == ASSUME IInv, NEW r \in Requests, IssueCode(r) PROVE IInv'
<1>1. UNCHANGED <<clock, rows, past>> /\ req[r].at = "issue"
  BY DEF IssueCode
<1>2. CASE End(r)
  BY <1>1, <1>2, EndStep
<1>3. ASSUME NEW c \in Codes \ InUse, Becomes(r, [req[r] EXCEPT !.at = "mail", !.code = c])
      PROVE  IInv'
  <2> DEFINE q == [req[r] EXCEPT !.at = "mail", !.code = c]
  <2>1. req[r] \in Request
    BY DEF IInv, Typed
  <2>2. q \in Request /\ q.at = "mail" /\ q.alone = req[r].alone /\ q.code = c
    BY <2>1 DEF Request, Places
  <2>3. /\ c # Foreign
        /\ \A t \in tokens : t.code # c
        /\ \A o \in Others(r) : req[o].at = "mail" => req[o].code # c
    BY DEF InUse, Issued, Others
  <2>4. Becomes(r, q)
    BY <1>3
  <2> HIDE DEF q
  <2> QED
    BY <1>1, <2>2, <2>3, <2>4, PrivateStep
<1> QED
  BY <1>2, <1>3 DEF IssueCode

LEMMA DeleteRowsInv == ASSUME IInv, NEW r \in Requests, DeleteRows(r) PROVE IInv'
<1> DEFINE q == [req[r] EXCEPT !.at = "leave", !.ids = {s.id : s \in subs}, !.codes = OwnCodes]
<1>1. /\ req[r] \in Request /\ OwnCodes = {t.code : t \in tokens}
      /\ {s.id : s \in subs} \subseteq Nat /\ OwnCodes \subseteq Codes
  BY DEF IInv, Typed, OwnCodes, Subscription, Row
<1>2. /\ q \in Request /\ q.at = "leave" /\ q.alone = req[r].alone /\ q.user = req[r].user
      /\ q.codes = {t.code : t \in tokens}
  BY <1>1 DEF Request, Places
<1>3. /\ Becomes(r, q) /\ UNCHANGED <<clock, rows, past>> /\ req[r].at = "delete"
      /\ \A o \in Others(r) : req[o].at # "consume"
  BY DEF DeleteRows
<1> HIDE DEF q
<1>4. \A t \in tokens : t.code \in q.codes
  BY <1>2
<1> QED
  BY <1>2, <1>3, <1>4, PrivateStep

-----------------------------------------------------------------------------
(* Requests that commit *)

(* What the others are owed when r commits.                                *)
LEMMA CommitStep ==
  ASSUME IInv, NEW r \in Requests, End(r), req[r].at # "idle",
         Typed', Numbered', Unique', ConsumedOnce', DeletedIsInert',
         \A o \in Others(r) :
             /\ req[o].at = "mail" => \A t \in tokens' : t.code # req[o].code
             /\ req[o].at = "consume" => \E t \in tokens' : t.code = req[o].code /\ ~t.used
             /\ past'.left => req[o].at \notin {"issue", "mail", "consume"}
  PROVE  IInv'
<1>1. Typed /\ Becomes(r, Idle) /\ Idle \in Request /\ Idle.at = "idle"
  BY IdleFine DEF IInv, End
<1>2. req'[r].at = "idle" /\ \A o \in Others(r) : req'[o] = req[o]
  BY <1>1, Changed
<1>3. Fine(r)'
  BY <1>2 DEF Fine, Unborn, Locks, Alone, Deletes, Inert
<1>4. ASSUME NEW o \in Others(r) PROVE Fine(o)'
  <2>1. Fine(o) /\ o \in Requests /\ r \in Others(o) /\ req'[o] = req[o]
    BY <1>2 DEF IInv, Others
  <2>2. Unborn(o)'
    BY <1>2, <2>1 DEF Fine, Unborn, Others
  <2>3. Locks(o)'
    BY <1>2, <2>1 DEF Fine, Locks, Others
  <2>4. Alone(o)' /\ Deletes(o)' /\ Inert(o)'
    BY <1>2, <2>1 DEF Fine, Alone, Deletes, Inert
  <2> QED
    BY <2>2, <2>3, <2>4 DEF Fine
<1>5. \A o \in Requests : Fine(o)'
  BY <1>3, <1>4 DEF Others
<1> QED
  BY <1>5 DEF IInv

LEMMA Ended ==
  ASSUME Typed, NEW r \in Requests, End(r)
  PROVE  req' \in [Requests -> Request]
  BY IdleFine, Changed DEF End

LEMMA FlushedUser ==
  ASSUME NEW u \in User, NEW v \in User, NEW w \in User
  PROVE  /\ Flushed(u, v, w) \in User
         /\ w.status = v.status => Flushed(u, v, w).status = u.status
         /\ w.password = v.password => Flushed(u, v, w).password = u.password
         /\ u = v => Flushed(u, v, w) = w
<1>1. DOMAIN u = {"status", "named", "password", "verified", "premium", "until"}
  BY DEF User
<1>2. DOMAIN w = DOMAIN u
  BY DEF User
<1>3. Flushed(u, v, w) \in User
  BY <1>1 DEF Flushed, User
<1>4. /\ w.status = v.status => Flushed(u, v, w).status = u.status
      /\ w.password = v.password => Flushed(u, v, w).password = u.password
  BY <1>1 DEF Flushed
<1>5. ASSUME u = v PROVE Flushed(u, v, w) = w
  <2>1. \A col \in DOMAIN u : Flushed(u, v, w)[col] = w[col]
    BY <1>5 DEF Flushed
  <2>2. DOMAIN Flushed(u, v, w) = DOMAIN u
    BY DEF Flushed
  <2>3. w = [col \in DOMAIN w |-> w[col]]
    BY DEF User
  <2> QED
    BY <1>2, <2>1, <2>2, <2>3 DEF Flushed
<1> QED
  BY <1>3, <1>4, <1>5

LEMMA PremiumOnly ==
  ASSUME NEW u \in User, NEW v \in User, NEW p \in BOOLEAN
  PROVE  LET f == Flushed(u, v, [v EXCEPT !.premium = p]) IN
         f \in User /\ f.status = u.status /\ f.password = u.password
<1> DEFINE w == [v EXCEPT !.premium = p]
<1>1. w \in User /\ w.status = v.status /\ w.password = v.password
  BY DEF User
<1> HIDE DEF w
<1>2. LET f == Flushed(u, v, w) IN f \in User /\ f.status = u.status /\ f.password = u.password
  BY <1>1, FlushedUser
<1> QED
  BY <1>2 DEF w

(* The premium flags and the subscriptions matter to none of this.         *)
LEMMA PremiumStep ==
  ASSUME IInv, NEW r \in Requests, End(r), req[r].at # "idle",
         clock' = clock, tokens' = tokens,
         user' \in User, user'.status = user.status, user'.password = user.password,
         store' \in Flags, subs' \subseteq Subscription, Numbered',
         past' \in [begun : Nat, sold : Nat, left : BOOLEAN], past'.left = past.left
  PROVE  IInv'
<1>1. Typed'
  BY Ended DEF IInv, Typed
<1>2. Unique' /\ ConsumedOnce' /\ DeletedIsInert'
  BY DEF IInv, Unique, ConsumedOnce, DeletedIsInert
<1>3. \A o \in Others(r) :
             /\ req[o].at = "mail" => \A t \in tokens' : t.code # req[o].code
             /\ req[o].at = "consume" => \E t \in tokens' : t.code = req[o].code /\ ~t.used
             /\ past'.left => req[o].at \notin {"issue", "mail", "consume"}
  BY DEF IInv, Fine, Unborn, Locks, Inert, Others
<1> QED
  BY <1>1, <1>2, <1>3, CommitStep

LEMMA WriteFlagType ==
  ASSUME Typed, NEW loaded, NEW wanted \in Flags
  PROVE  WriteFlag(loaded, wanted) \in Flags
  BY DEF Typed, WriteFlag

LEMMA CommitClearInv == ASSUME IInv, NEW r \in Requests, CommitClear(r) PROVE IInv'
<1>1. /\ End(r) /\ req[r].at # "idle" /\ UNCHANGED <<clock, subs, tokens, past>>
      /\ user' = Flushed(user, req[r].user, [req[r].user EXCEPT !.premium = FALSE])
      /\ store' = WriteFlag(req[r].store, "plain")
  BY DEF CommitClear
<1>2. user \in User /\ req[r].user \in User
  BY RequestFields DEF IInv, Typed
<1>3. user' \in User /\ user'.status = user.status /\ user'.password = user.password
  BY <1>1, <1>2, PremiumOnly
<1>4. store' \in Flags
  BY <1>1, WriteFlagType DEF IInv, Flags
<1>5. Numbered' /\ subs' \subseteq Subscription /\ past' \in [begun : Nat, sold : Nat, left : BOOLEAN]
  BY <1>1 DEF IInv, Typed, Numbered
<1> QED
  BY <1>1, <1>3, <1>4, <1>5, PremiumStep

LEMMA CommitAlignInv == ASSUME IInv, NEW r \in Requests, CommitAlign(r) PROVE IInv'
<1>1. /\ End(r) /\ req[r].at # "idle" /\ UNCHANGED <<clock, subs, tokens, past>>
      /\ \/ user' = user
         \/ user' = Flushed(user, req[r].user, [req[r].user EXCEPT !.premium = FALSE])
      /\ \/ store' = WriteFlag(req[r].store, "plain")
         \/ store' = WriteFlag(req[r].store, "premium")
  BY DEF CommitAlign
<1>2. user \in User /\ req[r].user \in User
  BY RequestFields DEF IInv, Typed
<1>3. user' \in User /\ user'.status = user.status /\ user'.password = user.password
  <2>1. CASE user' = user
    BY <1>2, <2>1
  <2>2. CASE user' = Flushed(user, req[r].user, [req[r].user EXCEPT !.premium = FALSE])
    BY <1>2, <2>2, PremiumOnly
  <2> QED
    BY <1>1, <2>1, <2>2
<1>4. store' \in Flags
  BY <1>1, WriteFlagType DEF IInv, Flags
<1>5. Numbered' /\ subs' \subseteq Subscription /\ past' \in [begun : Nat, sold : Nat, left : BOOLEAN]
  BY <1>1 DEF IInv, Typed, Numbered
<1> QED
  BY <1>1, <1>3, <1>4, <1>5, PremiumStep

(* A subscription gets the next id.                                        *)
LEMMA PastSold ==
  ASSUME Typed, past' = [past EXCEPT !.sold = @ + 1]
  PROVE  /\ past' \in [begun : Nat, sold : Nat, left : BOOLEAN]
         /\ past.sold \in Nat /\ past'.sold = past.sold + 1 /\ past'.left = past.left
<1>1. past \in [begun : Nat, sold : Nat, left : BOOLEAN]
  BY DEF Typed
<1>2. past.sold + 1 \in Nat
  BY <1>1
<1> QED
  BY <1>1, <1>2

LEMMA GrantedSubs ==
  ASSUME Typed, Numbered, NEW ids, NEW new \in Subscription, new.id = past.sold + 1,
         subs' = Canceled(ids) \cup {new}, past'.sold = past.sold + 1, past.sold \in Nat
  PROVE  subs' \subseteq Subscription /\ Numbered'
<1>1. ASSUME NEW s \in Canceled(ids)
      PROVE  /\ s \in Subscription
             /\ \E x \in subs : /\ x.id = s.id
                                /\ s = IF x.id \in ids THEN [x EXCEPT !.active = FALSE] ELSE x
  <2>1. PICK x \in subs : s = IF x.id \in ids THEN [x EXCEPT !.active = FALSE] ELSE x
    BY DEF Canceled
  <2>2. x \in Subscription
    BY DEF Typed
  <2> QED
    BY <2>1, <2>2 DEF Subscription
<1>2. \A s \in Canceled(ids) : s.id \in Nat /\ s.id <= past.sold
  BY <1>1 DEF Numbered, Subscription
<1>3. ASSUME NEW s \in Canceled(ids), NEW x \in Canceled(ids), s.id = x.id
      PROVE  s = x
  <2>1. PICK a \in subs : /\ a.id = s.id
                          /\ s = IF a.id \in ids THEN [a EXCEPT !.active = FALSE] ELSE a
    BY <1>1
  <2>2. PICK b \in subs : /\ b.id = x.id
                          /\ x = IF b.id \in ids THEN [b EXCEPT !.active = FALSE] ELSE b
    BY <1>1
  <2>3. a = b
    <3>1. a.id = b.id
      BY <1>3, <2>1, <2>2
    <3> QED
      BY <3>1 DEF Numbered
  <2> QED
    BY <2>1, <2>2, <2>3
<1>4. subs' \subseteq Subscription
  BY <1>1
<1>5. Numbered'
  BY <1>2, <1>3 DEF Numbered
<1> QED
  BY <1>4, <1>5

LEMMA CommitGrantInv == ASSUME IInv, NEW r \in Requests, CommitGrant(r) PROVE IInv'
<1> DEFINE new == [id |-> past.sold + 1, active |-> TRUE, end |-> clock + 1,
                   alone |-> req[r].alone]
           f == Flushed(user, req[r].user, [req[r].user EXCEPT !.premium = TRUE])
<1>1. /\ End(r) /\ req[r].at # "idle" /\ clock' = clock /\ tokens' = tokens
      /\ user' = [f EXCEPT !.until = clock + 1]
      /\ store' = WriteFlag(req[r].store, "premium")
      /\ subs' = Canceled(req[r].ids) \cup {new}
      /\ past' = [past EXCEPT !.sold = @ + 1]
  BY DEF CommitGrant
<1>2. user \in User /\ req[r].user \in User /\ req[r].alone \in BOOLEAN
  BY RequestFields DEF IInv, Typed
<1>3. clock \in Nat /\ clock + 1 \in Nat
  BY BoundsAssumption DEF IInv, Typed
<1>4. f \in User /\ f.status = user.status /\ f.password = user.password
  BY <1>2, PremiumOnly
<1>5. user' \in User /\ user'.status = user.status /\ user'.password = user.password
  <2> HIDE DEF f
  <2> QED
    BY <1>1, <1>3, <1>4 DEF User
<1>6. /\ past' \in [begun : Nat, sold : Nat, left : BOOLEAN]
      /\ past.sold \in Nat /\ past'.sold = past.sold + 1 /\ past'.left = past.left
  BY <1>1, PastSold DEF IInv
<1>7. new \in Subscription /\ new.id = past.sold + 1
  BY <1>2, <1>3, <1>6 DEF Subscription
<1> HIDE DEF new, f
<1>8. subs' \subseteq Subscription /\ Numbered'
  BY <1>1, <1>6, <1>7, GrantedSubs DEF IInv
<1>9. store' \in Flags
  BY <1>1, WriteFlagType DEF IInv, Flags
<1> QED
  BY <1>1, <1>5, <1>6, <1>8, <1>9, PremiumStep

(* The code is still nobody's when its row is committed.                   *)
LEMMA CommitCodeInv == ASSUME IInv, NEW r \in Requests, CommitCode(r) PROVE IInv'
<1> DEFINE new == [code |-> req[r].code, purpose |-> req[r].purpose, used |-> FALSE,
                   expires |-> clock + 1, uses |-> 0]
<1>1. /\ End(r) /\ req[r].at = "mail" /\ UNCHANGED <<clock, user, store, subs, past>>
      /\ tokens' = tokens \cup {new}
  BY DEF CommitCode
<1>2. Fine(r) /\ req[r].code \in Codes /\ req[r].purpose \in Purposes
  BY RequestFields DEF IInv
<1>3. /\ req[r].code # Foreign
      /\ \A t \in tokens : t.code # req[r].code
      /\ \A o \in Others(r) : req[o].at = "mail" => req[o].code # req[r].code
      /\ ~past.left
  BY <1>1, <1>2 DEF Fine, Unborn, Inert
<1>4. clock + 1 \in Nat
  BY BoundsAssumption DEF IInv, Typed
<1>5. /\ new \in Row /\ new.code = req[r].code /\ new.used = FALSE /\ new.uses = 0
  BY <1>2, <1>3, <1>4 DEF Row
<1> HIDE DEF new
<1>6. Typed'
  BY <1>1, <1>5, Ended DEF IInv, Typed
<1>7. Numbered' /\ Unique' /\ ConsumedOnce' /\ DeletedIsInert'
  BY <1>1, <1>3, <1>5 DEF IInv, Numbered, Unique, ConsumedOnce, DeletedIsInert
<1>8. \A o \in Others(r) :
             /\ req[o].at = "mail" => \A t \in tokens' : t.code # req[o].code
             /\ req[o].at = "consume" => \E t \in tokens' : t.code = req[o].code /\ ~t.used
             /\ past'.left => req[o].at \notin {"issue", "mail", "consume"}
  BY <1>1, <1>3, <1>5 DEF IInv, Fine, Unborn, Locks, Others
<1> QED
  BY <1>1, <1>6, <1>7, <1>8, CommitStep

(* A row that is consumed for the first time.                              *)
LEMMA FirstUse ==
  ASSUME NEW t \in Row, t.uses = 0, NEW u, u = [t EXCEPT !.used = TRUE, !.uses = @ + 1]
  PROVE  u \in Row /\ u.code = t.code /\ u.uses = 1 /\ u.used = TRUE
<1>1. t.uses + 1 = 1
  OBVIOUS
<1> DEFINE v == [t EXCEPT !.used = TRUE]
<1>2. v \in Row /\ v.code = t.code /\ v.used = TRUE
  BY DEF Row
<1>3. u = [v EXCEPT !.uses = t.uses + 1]
  BY Zenon
<1> HIDE DEF v
<1>4. u = [v EXCEPT !.uses = 1]
  BY <1>1, <1>3
<1>5. u \in Row
  BY <1>2, <1>4 DEF Row
<1>6. u.code = v.code /\ u.uses = 1
  BY <1>2, <1>4 DEF Row
<1>7. u.used = v.used
  <2>1. "used" \in DOMAIN v /\ "used" # "uses"
    BY <1>2 DEF Row
  <2>2. u["used"] = v["used"]
    BY <1>4, <2>1, Zenon
  <2> QED
    BY <2>2, Zenon
<1> QED
  BY <1>2, <1>5, <1>6, <1>7, Zenon

(* The row that is locked is unused, so it has been consumed once now.     *)
LEMMA CommitConfirmInv == ASSUME IInv, NEW r \in Requests, CommitConfirm(r) PROVE IInv'
<1> DEFINE Consumed(t) ==
        IF t.code = req[r].code THEN [t EXCEPT !.used = TRUE, !.uses = @ + 1] ELSE t
<1>1. /\ End(r) /\ req[r].at = "consume" /\ UNCHANGED <<clock, store, subs, past>>
      /\ user' \in {[user EXCEPT !.verified = TRUE], [user EXCEPT !.password = TRUE]}
      /\ tokens' = {Consumed(t) : t \in tokens}
  BY DEF CommitConfirm
<1>2. Fine(r)
  BY DEF IInv
<1>3. /\ \A t \in tokens : t.code = req[r].code => ~t.used
      /\ \A o \in Others(r) : req[o].at = "consume" => req[o].code # req[r].code
      /\ ~past.left
  <2>1. Locks(r) /\ Inert(r) /\ Unique
    BY <1>2 DEF IInv, Fine
  <2> QED
    BY <1>1, <2>1 DEF Locks, Inert, Unique
<1>4. ASSUME NEW t \in tokens
      PROVE  /\ Consumed(t) \in Row /\ Consumed(t).code = t.code
             /\ Consumed(t).uses = (IF Consumed(t).used THEN 1 ELSE 0)
             /\ t.code # req[r].code => Consumed(t) = t
  <2>1. t \in Row /\ t.uses = (IF t.used THEN 1 ELSE 0)
    BY DEF IInv, Typed, ConsumedOnce
  <2>2. CASE t.code # req[r].code
    BY <2>1, <2>2
  <2>3. CASE t.code = req[r].code
    <3>1. t.uses = 0
      BY <1>3, <2>1, <2>3
    <3>2. Consumed(t) = [t EXCEPT !.used = TRUE, !.uses = @ + 1]
      BY <2>3
    <3> HIDE DEF Consumed
    <3>3. /\ Consumed(t) \in Row /\ Consumed(t).code = t.code
          /\ Consumed(t).uses = 1 /\ Consumed(t).used = TRUE
      BY <2>1, <3>1, <3>2, FirstUse
    <3> QED
      BY <2>3, <3>3
  <2> QED
    BY <2>2, <2>3
<1> HIDE DEF Consumed
<1>5. user' \in User
  BY <1>1 DEF IInv, Typed, User
<1>6. Typed'
  BY <1>1, <1>4, <1>5, Ended DEF IInv, Typed
<1>7. Unique'
  <2>1. \A t, x \in tokens : Consumed(t).code = Consumed(x).code => t = x
    BY <1>4 DEF IInv, Unique
  <2> QED
    BY <1>1, <2>1 DEF Unique
<1>8. Numbered' /\ ConsumedOnce' /\ DeletedIsInert'
  BY <1>1, <1>3, <1>4 DEF IInv, Numbered, ConsumedOnce, DeletedIsInert
<1>9. ASSUME NEW o \in Others(r)
      PROVE  /\ req[o].at = "mail" => \A t \in tokens' : t.code # req[o].code
             /\ req[o].at = "consume" => \E t \in tokens' : t.code = req[o].code /\ ~t.used
             /\ past'.left => req[o].at \notin {"issue", "mail", "consume"}
  <2>1. Fine(o)
    BY DEF IInv, Others
  <2>2. ASSUME req[o].at = "consume"
        PROVE  \E t \in tokens' : t.code = req[o].code /\ ~t.used
    <3>1. PICK t \in tokens : t.code = req[o].code /\ ~t.used
      BY <2>1, <2>2 DEF Fine, Locks
    <3>2. Consumed(t) = t
      BY <1>3, <1>4, <2>2, <3>1
    <3> QED
      BY <1>1, <3>1, <3>2
  <2> QED
    BY <1>1, <1>3, <1>4, <2>1, <2>2 DEF Fine, Unborn
<1> QED
  BY <1>1, <1>6, <1>7, <1>8, <1>9, CommitStep

LEMMA CommitStatusInv == ASSUME IInv, NEW r \in Requests, CommitStatus(r) PROVE IInv'
<1> DEFINE w == [req[r].user EXCEPT !.status = req[r].status]
<1>1. /\ End(r) /\ req[r].at = "set status" /\ UNCHANGED <<clock, store, subs, tokens>>
      /\ user' = Flushed(user, req[r].user, w)
      /\ past' = [past EXCEPT !.left = FALSE]
  BY DEF CommitStatus
<1>2. user \in User /\ req[r].user \in User /\ req[r].status \in Statuses
  BY RequestFields DEF IInv, Typed
<1>3. w \in User
  BY <1>2 DEF User, Statuses
<1> HIDE DEF w
<1>4. user' \in User
  BY <1>1, <1>2, <1>3, FlushedUser
<1>5. /\ past' \in [begun : Nat, sold : Nat, left : BOOLEAN]
      /\ past'.sold = past.sold /\ past'.left = FALSE
  BY <1>1 DEF IInv, Typed
<1>6. Typed'
  BY <1>1, <1>4, <1>5, Ended DEF IInv, Typed
<1>7. Numbered' /\ Unique' /\ ConsumedOnce' /\ DeletedIsInert'
  BY <1>1, <1>5 DEF IInv, Numbered, Unique, ConsumedOnce, DeletedIsInert
<1>8. \A o \in Others(r) :
             /\ req[o].at = "mail" => \A t \in tokens' : t.code # req[o].code
             /\ req[o].at = "consume" => \E t \in tokens' : t.code = req[o].code /\ ~t.used
             /\ past'.left => req[o].at \notin {"issue", "mail", "consume"}
  BY <1>1, <1>5 DEF IInv, Fine, Unborn, Locks, Others
<1> QED
  BY <1>1, <1>6, <1>7, <1>8, CommitStep

(* A deletion that ran alone knew the row, and all the codes there are.    *)
LEMMA CommitDeleteInv == ASSUME IInv, NEW r \in Requests, CommitDelete(r) PROVE IInv'
<1> DEFINE w == [req[r].user EXCEPT !.status = "deleted", !.named = FALSE, !.password = FALSE,
                               !.premium = FALSE, !.until = NoDate]
<1>1. /\ End(r) /\ req[r].at = "leave" /\ clock' = clock
      /\ user' = Flushed(user, req[r].user, w)
      /\ store' \in {store, NoStore}
      /\ subs' \subseteq subs
      /\ tokens' = {t \in tokens : t.code \notin req[r].codes}
      /\ past' = [past EXCEPT !.left = req[r].alone]
  BY DEF CommitDelete
<1>2. user \in User /\ req[r].user \in User /\ req[r].alone \in BOOLEAN /\ Fine(r)
  BY RequestFields DEF IInv, Typed
<1>3. w \in User /\ w.status = "deleted" /\ ~w.password
  BY <1>2 DEF User, NoDate
<1> HIDE DEF w
<1>4. user' \in User
  BY <1>1, <1>2, <1>3, FlushedUser
<1>5. /\ past' \in [begun : Nat, sold : Nat, left : BOOLEAN]
      /\ past'.sold = past.sold /\ past'.left = req[r].alone
  BY <1>1, <1>2 DEF IInv, Typed
<1>6. Typed'
  BY <1>1, <1>4, <1>5, Ended DEF IInv, Typed, Flags
<1>7. Numbered' /\ Unique' /\ ConsumedOnce'
  BY <1>1, <1>5 DEF IInv, Numbered, Unique, ConsumedOnce
<1>8. ASSUME req[r].alone
      PROVE  /\ user'.status = "deleted" /\ ~user'.password /\ tokens' = {}
             /\ \A o \in Others(r) : req[o].at = "idle"
  <2>1. /\ user = req[r].user
        /\ \A o \in Others(r) : req[o].at = "idle"
        /\ \A t \in tokens : t.code \in req[r].codes
    BY <1>1, <1>2, <1>8 DEF Fine, Alone
  <2>2. user' = w
    BY <1>1, <1>2, <1>3, <2>1, FlushedUser
  <2> QED
    BY <1>1, <1>3, <2>1, <2>2
<1>9. DeletedIsInert'
  BY <1>5, <1>8 DEF DeletedIsInert
<1>10. ASSUME NEW o \in Others(r)
       PROVE  /\ req[o].at = "mail" => \A t \in tokens' : t.code # req[o].code
              /\ req[o].at = "consume" => \E t \in tokens' : t.code = req[o].code /\ ~t.used
              /\ past'.left => req[o].at \notin {"issue", "mail", "consume"}
  <2>1. Fine(o) /\ r \in Others(o)
    BY DEF IInv, Others
  <2>2. req[o].at = "consume" => \E t \in tokens' : t.code = req[o].code /\ ~t.used
    BY <1>1, <2>1 DEF Fine, Locks
  <2> QED
    BY <1>1, <1>5, <1>8, <2>1, <2>2 DEF Fine, Unborn
<1> QED
  BY <1>1, <1>6, <1>7, <1>9, <1>10, CommitStep

-----------------------------------------------------------------------------
(* The theorems *)

(* The clock, and a new storefront.                                        *)
LEMMA ElsewhereInv ==
  ASSUME IInv, clock' \in 1 .. MaxTime, store' \in Flags, UNCHANGED <<user, subs, tokens, req, past>>
  PROVE  IInv'
<1>1. Typed' /\ Numbered' /\ Unique' /\ ConsumedOnce' /\ DeletedIsInert'
  BY DEF IInv, Typed, Numbered, Unique, ConsumedOnce, DeletedIsInert
<1>2. \A r \in Requests : Fine(r)'
  BY DEF IInv, Fine, Unborn, Locks, Alone, Deletes, Inert, Others
<1> QED
  BY <1>1, <1>2 DEF IInv

LEMMA OthersInv ==
  ASSUME IInv, CreateSeller \/ Tick \/ UNCHANGED vars
  PROVE  IInv'
<1>1. clock \in 1 .. MaxTime /\ store \in Flags
  BY DEF IInv, Typed
<1>2. clock' \in 1 .. MaxTime
  BY <1>1, BoundsAssumption DEF CreateSeller, Tick, vars
<1>3. store' \in Flags /\ UNCHANGED <<user, subs, tokens, req, past>>
  BY <1>1 DEF CreateSeller, Tick, vars, rows, Flags
<1> QED
  BY <1>2, <1>3, ElsewhereInv

LEMMA NextInv == IInv /\ [Next]_vars => IInv'
<1> SUFFICES ASSUME IInv, [Next]_vars PROVE IInv'
  OBVIOUS
<1>1. CASE CreateSeller \/ Tick \/ UNCHANGED vars
  BY <1>1, OthersInv
<1>2. ASSUME NEW r \in Requests, Enforce(r) \/ See(r) \/ Grant(r) \/ Delete(r)
      PROVE  IInv'
  BY <1>2, EnforceInv, SeeInv, GrantInv, DeleteInv
<1>3. ASSUME NEW r \in Requests, FindStore(r) \/ SelectActive(r) \/ IssueCode(r) \/ DeleteRows(r)
      PROVE  IInv'
  BY <1>3, FindStoreInv, SelectActiveInv, IssueCodeInv, DeleteRowsInv
<1>4. ASSUME NEW r \in Requests,
             CommitClear(r) \/ CommitAlign(r) \/ CommitGrant(r) \/ CommitCode(r)
      PROVE  IInv'
  BY <1>4, CommitClearInv, CommitAlignInv, CommitGrantInv, CommitCodeInv
<1>5. ASSUME NEW r \in Requests, CommitConfirm(r) \/ CommitStatus(r) \/ CommitDelete(r)
      PROVE  IInv'
  BY <1>5, CommitConfirmInv, CommitStatusInv, CommitDeleteInv
<1>6. ASSUME NEW r \in Requests, Fail(r)
      PROVE  IInv'
  BY <1>6, EndStep DEF Fail
<1>7. ASSUME NEW r \in Requests, NEW purpose \in Purposes, AskCode(r, purpose)
      PROVE  IInv'
  BY <1>7, AskCodeInv
<1>8. ASSUME NEW r \in Requests, NEW t \in tokens, Confirm(r, t)
      PROVE  IInv'
  BY <1>8, ConfirmInv
<1>9. ASSUME NEW r \in Requests, NEW status \in Statuses, SetStatus(r, status)
      PROVE  IInv'
  BY <1>9, SetStatusInv
<1> QED
  BY <1>1, <1>2, <1>3, <1>4, <1>5, <1>6, <1>7, <1>8, <1>9 DEF Next, Statuses

LEMMA Inductive == Spec => []IInv
  BY InitInv, NextInv, PTL DEF Spec

(* Rows and requests stay well formed, and no two rows of auth_tokens have *)
(* one hash, for any number of requests, codes and instants.               *)
THEOREM TypeCorrect == Spec => []TypeOK
<1>1. IInv => TypeOK
  <2> SUFFICES ASSUME IInv PROVE TypeOK
    OBVIOUS
  <2>1. clock \in 1 .. MaxTime /\ user \in User /\ store \in {NoStore, "plain", "premium"}
    BY DEF IInv, Typed, Flags
  <2>2. \A s, x \in subs : s.id = x.id => s = x
    BY DEF IInv, Numbered
  <2>3. \A t, x \in tokens : t.code \in Codes \ {Foreign} /\ (t.code = x.code => t = x)
    BY DEF IInv, Typed, Row, Unique
  <2>4. \A r \in Requests : req[r].at \in Places
    BY RequestFields DEF IInv
  <2> QED
    BY <2>1, <2>2, <2>3, <2>4 DEF TypeOK, Places
<1> QED
  BY Inductive, <1>1, PTL

(* confirm_email_verification and confirm_password_reset, however many run *)
(* at once, take a code for good once (routers/auth.py, FOR UPDATE).       *)
THEOREM CodeWorksOnce == Spec => []ConsumedOnce
<1>1. IInv => ConsumedOnce
  BY DEF IInv
<1> QED
  BY Inductive, <1>1, PTL

(* After delete_account, if nothing ran beside it, the account stays       *)
(* deleted, without password and codes, until an administrator sets its    *)
(* status, whatever else is requested.                                     *)
THEOREM DeletionIsFinal == Spec => []DeletedIsInert
<1>1. IInv => DeletedIsInert
  BY DEF IInv
<1> QED
  BY Inductive, <1>1, PTL

-----------------------------------------------------------------------------
(* Premium: a second invariant, on top of the first *)

(* The running subscription that was activated alone is the only one, and  *)
(* the account's end of premium is its.                                    *)
Paid == {s \in subs : s.active /\ s.alone}
Shown ==
    /\ \A s, x \in Paid : s = x
    /\ \A s \in Paid : user.until = s.end /\ s.end # NoDate /\ (s.end >= clock => user.premium)

(* Whoever would clear the flag has loaded that date, and found it past;   *)
(* whoever would replace or delete it has found it.                        *)
Found(r) ==
    /\ req[r].at \in {"select", "grant"} /\ req[r].alone => user = req[r].user
    /\ req[r].at \in {"expired", "clear", "align"} => \A s \in Paid : req[r].user.until = s.end
    /\ req[r].at \in {"expired", "clear"} =>
           req[r].user.until # NoDate /\ req[r].user.until < clock
    /\ req[r].at \in {"grant", "leave"} => \A s \in Paid : s.id \in req[r].ids

(* Active subscriptions were activated by requests in different slots: the *)
(* next in a slot finds, and cancels, that of the last.                    *)
Activates(f) ==
    /\ \A i, j \in Active : f[i] = f[j] => i = j
    /\ \A r \in Requests : req[r].at = "grant" =>
           \A i \in Active : f[i] = r => i \in req[r].ids
Activated == \E f \in [Active -> Requests] : Activates(f)

Premium == Shown /\ Activated /\ \A r \in Requests : Found(r)

LEMMA PremiumInit == Init => Premium
<1> SUFFICES ASSUME Init PROVE Premium
  OBVIOUS
<1>1. Paid = {} /\ Active = {} /\ \A r \in Requests : req[r].at = "idle"
  BY IdleFine DEF Init, Paid, Active
<1>2. Shown /\ \A r \in Requests : Found(r)
  BY <1>1 DEF Shown, Found
<1>3. Activated
  <2>1. [i \in Active |-> i] \in [Active -> Requests]
    BY <1>1
  <2>2. Activates([i \in Active |-> i])
    BY <1>1 DEF Activates
  <2> QED
    BY <2>1, <2>2 DEF Activated
<1> QED
  BY <1>2, <1>3 DEF Premium

(* A request loads what it will decide by, or begins.                      *)
LEMMA PremiumLoad ==
  ASSUME Premium, NEW r \in Requests, UNCHANGED <<clock, user, subs>>,
         \A o \in Others(r) :
             /\ req'[o].at = req[o].at
             /\ req[o].at # "idle" => /\ req'[o].user = req[o].user /\ req'[o].ids = req[o].ids
                                      /\ req'[o].alone => req[o].alone,
         Found(r)', req'[r].at = "grant" => Active \subseteq req'[r].ids
  PROVE  Premium'
<1>1. Paid' = Paid /\ Active' = Active
  BY DEF Paid, Active
<1>2. Shown'
  BY <1>1 DEF Premium, Shown
<1>3. ASSUME NEW o \in Others(r)
      PROVE  Found(o)'
  BY <1>1 DEF Premium, Found, Others
<1>4. Activated'
  <2>1. PICK f \in [Active -> Requests] : Activates(f)
    BY DEF Premium, Activated
  <2>2. f \in [Active' -> Requests] /\ Activates(f)'
    BY <1>1, <2>1 DEF Activates, Others
  <2> QED
    BY <2>2 DEF Activated, Activates
<1> QED
  BY <1>2, <1>3, <1>4 DEF Premium, Others

(* A request ends without a subscription.                                  *)
LEMMA PremiumEnd ==
  ASSUME IInv, Premium, NEW r \in Requests, End(r), req[r].at # "idle", UNCHANGED <<clock, subs>>,
         user'.until = user.until,
         user'.premium = user.premium \/ \A s \in Paid : ~(s.end >= clock)
  PROVE  Premium'
<1>1. Paid' = Paid /\ Active' = Active
  BY DEF Paid, Active
<1>2. Typed /\ Becomes(r, Idle) /\ Idle \in Request /\ Idle.at = "idle"
  BY IdleFine DEF IInv, End
<1>3. req'[r].at = "idle" /\ \A o \in Others(r) : req'[o] = req[o]
  BY <1>2, Changed
<1>4. Shown'
  BY <1>1 DEF Premium, Shown
<1>5. ASSUME NEW o \in Others(r)
      PROVE  Found(o)'
  <2>1. ~(req[o].at # "idle" /\ req[o].alone) /\ req'[o] = req[o] /\ Found(o)
    BY <1>3 DEF IInv, Fine, Alone, Others, Premium
  <2> QED
    BY <1>1, <2>1 DEF Found
<1>6. Found(r)'
  BY <1>3 DEF Found
<1>7. Activated'
  <2>1. PICK f \in [Active -> Requests] : Activates(f)
    BY DEF Premium, Activated
  <2>2. f \in [Active' -> Requests] /\ Activates(f)'
    BY <1>1, <1>3, <2>1 DEF Activates, Others
  <2> QED
    BY <2>2 DEF Activated, Activates
<1> QED
  BY <1>4, <1>5, <1>6, <1>7 DEF Premium, Others

LEMMA PremiumElsewhere ==
  ASSUME IInv, Premium, CreateSeller \/ Tick \/ UNCHANGED vars
  PROVE  Premium'
<1>1. /\ UNCHANGED <<user, subs, req>> /\ clock \in Nat /\ (clock' = clock \/ clock' = clock + 1)
  BY BoundsAssumption DEF CreateSeller, Tick, vars, rows, IInv, Typed
<1>2. Paid' = Paid /\ Active' = Active
  BY <1>1 DEF Paid, Active
<1>3. \A s \in Paid : s.end \in Nat
  BY DEF Paid, IInv, Typed, Subscription
<1>4. Shown'
  BY <1>1, <1>2, <1>3 DEF Premium, Shown
<1>5. ASSUME NEW r \in Requests
      PROVE  Found(r)'
  <2>1. req[r].user.until \in Nat
    BY RequestFields DEF IInv, User
  <2> QED
    BY <1>1, <1>2, <2>1 DEF Premium, Found
<1>6. Activated'
  BY <1>1, <1>2 DEF Premium, Activated, Activates
<1> QED
  BY <1>4, <1>5, <1>6 DEF Premium

LEMMA Begun ==
  ASSUME IInv, NEW r \in Requests, NEW q \in Request, Begin(r, q)
  PROVE  /\ UNCHANGED <<clock, user, store, subs, tokens>>
         /\ req'[r].at = q.at /\ req'[r].user = q.user
         /\ \A o \in Others(r) :
                /\ req'[o].at = req[o].at
                /\ req[o].at # "idle" => /\ req'[o].user = req[o].user /\ req'[o].ids = req[o].ids
                                         /\ ~req'[o].alone
<1> DEFINE p == [q EXCEPT !.alone = \A o \in Others(r) : req[o].at = "idle"]
<1>1. /\ UNCHANGED <<clock, user, store, subs, tokens>>
      /\ req' = [o \in Requests |->
                   IF o = r THEN p
                   ELSE IF req[o].at = "idle" THEN Idle ELSE [req[o] EXCEPT !.alone = FALSE]]
  BY DEF Begin, rows
<1>2. p.at = q.at /\ p.user = q.user
  BY DEF Request
<1> HIDE DEF p
<1>3. ASSUME NEW o \in Others(r)
      PROVE  /\ req'[o].at = req[o].at
             /\ req[o].at # "idle" => /\ req'[o].user = req[o].user /\ req'[o].ids = req[o].ids
                                      /\ ~req'[o].alone
  <2>1. req'[o] = IF req[o].at = "idle" THEN Idle ELSE [req[o] EXCEPT !.alone = FALSE]
    BY <1>1 DEF Others
  <2>2. req[o] \in Request
    BY DEF IInv, Typed, Others
  <2>3. CASE req[o].at = "idle"
    BY <2>1, <2>3, IdleFine
  <2>4. CASE req[o].at # "idle"
    BY <2>1, <2>2, <2>4 DEF Request
  <2> QED
    BY <2>3, <2>4
<1> QED
  BY <1>1, <1>2, <1>3

LEMMA PremiumBegin ==
  ASSUME IInv, Premium, NEW r \in Requests, NEW q \in Request, Begin(r, q),
         q.at \in {"expired", "align", "select", "issue", "consume", "set status", "delete"},
         q.at \in {"expired", "align", "select"} => q.user = user,
         q.at = "expired" => user.until # NoDate /\ user.until < clock
  PROVE  Premium'
<1>1. /\ UNCHANGED <<clock, user, store, subs, tokens>>
      /\ req'[r].at = q.at /\ req'[r].user = q.user
      /\ \A o \in Others(r) :
             /\ req'[o].at = req[o].at
             /\ req[o].at # "idle" => /\ req'[o].user = req[o].user /\ req'[o].ids = req[o].ids
                                      /\ ~req'[o].alone
  BY Begun
<1>2. Paid' = Paid
  BY <1>1 DEF Paid
<1>3. Found(r)'
  BY <1>1, <1>2 DEF Premium, Shown, Found
<1> QED
  BY <1>1, <1>3, PremiumLoad

LEMMA PremiumBegins ==
  ASSUME IInv, Premium, NEW r \in Requests,
         \/ Enforce(r) \/ See(r) \/ Grant(r) \/ Delete(r)
         \/ \E purpose \in Purposes : AskCode(r, purpose)
         \/ \E t \in tokens : Confirm(r, t)
         \/ \E status \in Statuses : SetStatus(r, status)
  PROVE  Premium'
<1>0. Typed /\ user \in User /\ clock \in Nat
  BY BoundsAssumption DEF IInv, Typed
<1>1. CASE Enforce(r)
  <2> DEFINE q == [Idle EXCEPT !.at = "expired", !.user = user]
  <2>0. q \in Request
    BY <1>0, IdleWith DEF Places
  <2>1. q.at = "expired" /\ q.user = user
    BY IdleFine DEF Request
  <2>2. Begin(r, q) /\ user.until # NoDate /\ user.until < clock
    <3>1. user.until \in Nat
      BY <1>0 DEF User
    <3> QED
      BY <1>0, <1>1, <3>1 DEF Enforce, is_premium_active
  <2> HIDE DEF q
  <2> QED
    BY <2>0, <2>1, <2>2, PremiumBegin
<1>2. CASE See(r)
  <2> DEFINE q == [Idle EXCEPT !.at = "align", !.user = user, !.store = store]
  <2>0. q \in Request
    BY <1>0, IdleWith DEF Places
  <2>1. q.at = "align" /\ q.user = user
    BY IdleFine DEF Request
  <2>2. Begin(r, q)
    BY <1>2 DEF See
  <2> HIDE DEF q
  <2> QED
    BY <2>0, <2>1, <2>2, PremiumBegin
<1>3. CASE Grant(r)
  <2> DEFINE q == [Idle EXCEPT !.at = "select", !.user = user]
  <2>0. q \in Request
    BY <1>0, IdleWith DEF Places
  <2>1. q.at = "select" /\ q.user = user
    BY IdleFine DEF Request
  <2>2. Begin(r, q)
    BY <1>3 DEF Grant
  <2> HIDE DEF q
  <2> QED
    BY <2>0, <2>1, <2>2, PremiumBegin
<1>4. CASE Delete(r)
  <2> DEFINE q == [Idle EXCEPT !.at = "delete", !.user = user, !.store = store]
  <2>0. q \in Request
    BY <1>0, IdleWith DEF Places
  <2>1. q.at = "delete"
    BY IdleFine DEF Request
  <2>2. Begin(r, q)
    BY <1>4 DEF Delete
  <2> HIDE DEF q
  <2> QED
    BY <2>0, <2>1, <2>2, PremiumBegin
<1>5. ASSUME NEW purpose \in Purposes, AskCode(r, purpose)
      PROVE  Premium'
  <2> DEFINE q == [Idle EXCEPT !.at = "issue", !.purpose = purpose]
  <2>1. q \in Request /\ q.at = "issue"
    BY <1>0, IdleWith, IdleFine, CodesAssumption DEF Request
  <2>2. Begin(r, q)
    BY <1>5 DEF AskCode
  <2> HIDE DEF q
  <2> QED
    BY <2>1, <2>2, PremiumBegin
<1>6. ASSUME NEW t \in tokens, Confirm(r, t)
      PROVE  Premium'
  <2> DEFINE q == [Idle EXCEPT !.at = "consume", !.code = t.code, !.purpose = t.purpose]
  <2>1. t.code \in Codes /\ t.purpose \in Purposes
    BY DEF IInv, Typed, Row
  <2>2. q \in Request /\ q.at = "consume"
    BY <1>0, <2>1, IdleWith, IdleFine DEF Request
  <2>3. Begin(r, q)
    BY <1>6 DEF Confirm
  <2> HIDE DEF q
  <2> QED
    BY <2>2, <2>3, PremiumBegin
<1>7. ASSUME NEW status \in Statuses, SetStatus(r, status)
      PROVE  Premium'
  <2> DEFINE q == [Idle EXCEPT !.at = "set status", !.user = user, !.status = status]
  <2>1. q \in Request /\ q.at = "set status"
    BY <1>0, IdleWith, IdleFine DEF Request
  <2>2. Begin(r, q)
    BY <1>7 DEF SetStatus
  <2> HIDE DEF q
  <2> QED
    BY <2>1, <2>2, PremiumBegin
<1> QED
  BY <1>1, <1>2, <1>3, <1>4, <1>5, <1>6, <1>7

(* What a request loads next is what it decides by.                        *)
LEMMA PremiumNext ==
  ASSUME IInv, Premium, NEW r \in Requests, NEW q \in Request, Becomes(r, q),
         UNCHANGED <<clock, rows>>, req[r].at # "idle",
         q.user = req[r].user, q.alone = req[r].alone,
         \/ q.at = "clear" /\ req[r].at = "expired"
         \/ q.at = "grant" /\ req[r].at = "select" /\ q.ids = Active
         \/ q.at = "mail"
         \/ q.at = "leave" /\ q.ids = {s.id : s \in subs}
  PROVE  Premium'
<1>1. Typed /\ UNCHANGED <<clock, user, subs>> /\ Found(r)
  BY DEF IInv, Premium, rows
<1>2. req'[r] = q /\ \A o \in Others(r) : req'[o] = req[o]
  BY <1>1, Changed
<1>3. Paid' = Paid /\ \A s \in Paid : s \in subs /\ s.id \in Active
  BY <1>1 DEF Paid, Active
<1>4. q.at \in {"grant", "leave"} => \A s \in Paid : s.id \in q.ids
  BY <1>3
<1>5. Found(r)'
  BY <1>1, <1>2, <1>3, <1>4 DEF Found
<1>6. req'[r].at = "grant" => Active \subseteq req'[r].ids
  BY <1>2
<1> QED
  BY <1>1, <1>2, <1>5, <1>6, PremiumLoad

LEMMA PremiumGoesOn ==
  ASSUME IInv, Premium, NEW r \in Requests,
         FindStore(r) \/ SelectActive(r) \/ IssueCode(r) \/ DeleteRows(r) \/ Fail(r)
  PROVE  Premium'
<1>0. /\ req[r] \in Request /\ store \in Flags /\ Active \subseteq Nat
      /\ OwnCodes \subseteq Codes /\ {s.id : s \in subs} \subseteq Nat
  BY DEF IInv, Typed, Active, OwnCodes, Subscription, Row
<1>1. CASE FindStore(r)
  <2> DEFINE q == [req[r] EXCEPT !.at = "clear", !.store = store]
  <2>1. q \in Request /\ q.at = "clear" /\ q.user = req[r].user /\ q.alone = req[r].alone
    BY <1>0 DEF Request, Places
  <2>2. Becomes(r, q) /\ UNCHANGED <<clock, rows>> /\ req[r].at = "expired"
    BY <1>1 DEF FindStore
  <2> HIDE DEF q
  <2> QED
    BY <2>1, <2>2, PremiumNext
<1>2. CASE SelectActive(r)
  <2> DEFINE q == [req[r] EXCEPT !.at = "grant", !.ids = Active, !.store = store]
  <2>1. /\ q \in Request /\ q.at = "grant" /\ q.user = req[r].user /\ q.alone = req[r].alone
        /\ q.ids = Active
    BY <1>0 DEF Request, Places
  <2>2. Becomes(r, q) /\ UNCHANGED <<clock, rows>> /\ req[r].at = "select"
    BY <1>2 DEF SelectActive
  <2> HIDE DEF q
  <2> QED
    BY <2>1, <2>2, PremiumNext
<1>3. CASE DeleteRows(r)
  <2> DEFINE q == [req[r] EXCEPT !.at = "leave", !.ids = {s.id : s \in subs}, !.codes = OwnCodes]
  <2>1. /\ q \in Request /\ q.at = "leave" /\ q.user = req[r].user /\ q.alone = req[r].alone
        /\ q.ids = {s.id : s \in subs}
    BY <1>0 DEF Request, Places
  <2>2. Becomes(r, q) /\ UNCHANGED <<clock, rows>> /\ req[r].at = "delete"
    BY <1>3 DEF DeleteRows
  <2> HIDE DEF q
  <2> QED
    BY <2>1, <2>2, PremiumNext
<1>4. ASSUME NEW c \in Codes, Becomes(r, [req[r] EXCEPT !.at = "mail", !.code = c]), IssueCode(r)
      PROVE  Premium'
  <2> DEFINE q == [req[r] EXCEPT !.at = "mail", !.code = c]
  <2>1. q \in Request /\ q.at = "mail" /\ q.user = req[r].user /\ q.alone = req[r].alone
    BY <1>0 DEF Request, Places
  <2>2. Becomes(r, q) /\ UNCHANGED <<clock, rows>> /\ req[r].at = "issue"
    BY <1>4 DEF IssueCode
  <2> HIDE DEF q
  <2> QED
    BY <2>1, <2>2, PremiumNext
<1>5. CASE End(r) /\ (IssueCode(r) \/ Fail(r))
  <2>1. UNCHANGED <<clock, rows>> /\ req[r].at # "idle"
    BY <1>5 DEF IssueCode, Fail
  <2>2. UNCHANGED <<clock, subs>> /\ user' = user
    BY <2>1 DEF rows
  <2> QED
    BY <1>5, <2>1, <2>2, PremiumEnd
<1>6. IssueCode(r) => \/ End(r)
                      \/ \E c \in Codes : Becomes(r, [req[r] EXCEPT !.at = "mail", !.code = c])
  BY DEF IssueCode
<1> QED
  BY <1>1, <1>2, <1>3, <1>4, <1>5, <1>6 DEF Fail

-----------------------------------------------------------------------------
(* Premium: what a commit writes *)

LEMMA FlushedColumns ==
  ASSUME NEW u \in User, NEW v \in User, NEW w \in User
  PROVE  /\ w.premium = v.premium => Flushed(u, v, w).premium = u.premium
         /\ w.until = v.until => Flushed(u, v, w).until = u.until
  BY DEF Flushed, User

LEMMA ClearedUntil ==
  ASSUME NEW u \in User, NEW v \in User
  PROVE  Flushed(u, v, [v EXCEPT !.premium = FALSE]).until = u.until
<1> DEFINE w == [v EXCEPT !.premium = FALSE]
<1>1. w \in User /\ w.until = v.until
  BY DEF User
<1> HIDE DEF w
<1>2. Flushed(u, v, w).until = u.until
  BY <1>1, FlushedColumns
<1> QED
  BY <1>2 DEF w

(* The flag is cleared only after the end of what was paid.                *)
LEMMA PremiumExpires ==
  ASSUME IInv, Premium, NEW r \in Requests, CommitClear(r) \/ CommitAlign(r)
  PROVE  Premium'
<1> DEFINE u == req[r].user
           cleared == Flushed(user, u, [u EXCEPT !.premium = FALSE])
<1>1. End(r) /\ req[r].at # "idle" /\ UNCHANGED <<clock, subs>>
  BY DEF CommitClear, CommitAlign
<1>2. Found(r) /\ user \in User /\ u \in User /\ clock \in Nat
  BY RequestFields, BoundsAssumption DEF IInv, Typed, Premium
<1>3. user' = user \/ (user' = cleared /\ \A s \in Paid : s.end < clock)
  <2>1. CASE CommitClear(r)
    BY <1>2, <2>1 DEF CommitClear, Found
  <2>2. CASE CommitAlign(r)
    <3>1. user' = user \/ (user' = cleared /\ u.until # NoDate /\ ~(u.until >= clock))
      BY <2>2 DEF CommitAlign, is_premium_active
    <3>2. u.until \in Nat
      BY <1>2 DEF User
    <3>3. \A s \in Paid : u.until = s.end
      BY <1>2, <2>2 DEF CommitAlign, Found
    <3> QED
      BY <1>2, <3>1, <3>2, <3>3
  <2> QED
    BY <2>1, <2>2
<1>4. cleared.until = user.until
  BY <1>2, ClearedUntil
<1> HIDE DEF cleared
<1>5. \A s \in Paid : s.end \in Nat
  BY DEF Paid, IInv, Typed, Subscription
<1>6. user'.until = user.until /\ (user'.premium = user.premium \/ \A s \in Paid : ~(s.end >= clock))
  BY <1>2, <1>3, <1>4, <1>5
<1> QED
  BY <1>1, <1>6, PremiumEnd

(* A code, or an administrator's verdict, leaves the subscription alone.   *)
LEMMA PremiumKept ==
  ASSUME IInv, Premium, NEW r \in Requests, CommitCode(r) \/ CommitConfirm(r) \/ CommitStatus(r)
  PROVE  Premium'
<1>1. End(r) /\ req[r].at # "idle" /\ UNCHANGED <<clock, subs>>
  BY DEF CommitCode, CommitConfirm, CommitStatus
<1>2. user \in User /\ req[r].user \in User /\ req[r].status \in Statuses
  BY RequestFields DEF IInv, Typed
<1>3. user'.until = user.until /\ user'.premium = user.premium
  <2>1. CASE CommitCode(r)
    BY <2>1 DEF CommitCode
  <2>2. CASE CommitConfirm(r)
    BY <1>2, <2>2 DEF CommitConfirm, User
  <2>3. CASE CommitStatus(r)
    <3> DEFINE w == [req[r].user EXCEPT !.status = req[r].status]
    <3>1. w \in User /\ w.until = req[r].user.until /\ w.premium = req[r].user.premium
      BY <1>2 DEF User, Statuses
    <3>2. user' = Flushed(user, req[r].user, w)
      BY <2>3 DEF CommitStatus
    <3> HIDE DEF w
    <3> QED
      BY <1>2, <3>1, <3>2, FlushedColumns
  <2> QED
    BY <2>1, <2>2, <2>3
<1> QED
  BY <1>1, <1>3, PremiumEnd

(* A request ends and has changed the subscriptions: nobody else is under  *)
(* way, or none is left that was activated alone.                          *)
LEMMA PremiumReplaced ==
  ASSUME IInv, Premium, NEW r \in Requests, End(r), req[r].at # "idle", clock' = clock,
         Paid' = {} \/ \A o \in Others(r) : req[o].at = "idle",
         Shown', Activated'
  PROVE  Premium'
<1>1. Typed /\ Becomes(r, Idle) /\ Idle \in Request /\ Idle.at = "idle"
  BY IdleFine DEF IInv, End
<1>2. req'[r].at = "idle" /\ \A o \in Others(r) : req'[o] = req[o]
  BY <1>1, Changed
<1>3. Found(r)'
  BY <1>2 DEF Found
<1>4. ASSUME NEW o \in Others(r)
      PROVE  Found(o)'
  <2>1. ~(req[o].at # "idle" /\ req[o].alone) /\ req'[o] = req[o] /\ Found(o)
    BY <1>2 DEF IInv, Fine, Alone, Others, Premium
  <2> QED
    BY <2>1 DEF Found
<1> QED
  BY <1>3, <1>4 DEF Premium, Others

LEMMA PremiumDeleted == ASSUME IInv, Premium, NEW r \in Requests, CommitDelete(r) PROVE Premium'
<1>1. /\ End(r) /\ req[r].at = "leave" /\ clock' = clock
      /\ subs' = {s \in subs : s.id \notin req[r].ids}
  BY DEF CommitDelete
<1>2. Paid' = {}
  BY <1>1 DEF Premium, Found, Paid
<1>3. Shown'
  BY <1>2 DEF Shown
<1>4. Activated'
  <2>1. PICK f \in [Active -> Requests] : Activates(f)
    BY DEF Premium, Activated
  <2>2. Active' \subseteq Active
    BY <1>1 DEF Active
  <2> DEFINE g == [i \in Active' |-> f[i]]
  <2>3. g \in [Active' -> Requests]
    BY <2>1, <2>2
  <2>4. \A i \in Active' : g[i] = f[i]
    OBVIOUS
  <2> HIDE DEF g
  <2>5. \A o \in Requests : req'[o].at = "grant" => req'[o] = req[o]
    <3>1. Typed /\ Becomes(r, Idle) /\ Idle \in Request /\ Idle.at = "idle"
      BY <1>1, IdleFine DEF IInv, End
    <3> QED
      BY <3>1, Changed DEF Others
  <2>6. /\ \A i, j \in Active' : g[i] = g[j] => i = j
        /\ \A o \in Requests : req'[o].at = "grant" =>
               \A i \in Active' : g[i] = o => i \in req'[o].ids
    BY <2>1, <2>2, <2>4, <2>5 DEF Activates
  <2> QED
    BY <2>3, <2>6 DEF Activated, Activates
<1> QED
  BY <1>1, <1>2, <1>3, <1>4, PremiumReplaced

(* What is active after an activation was so before, and was not found by  *)
(* it, or it is the new one.                                               *)
LEMMA ActiveNow ==
  ASSUME Typed, NEW ids, NEW new \in Subscription, subs' = Canceled(ids) \cup {new}
  PROVE  \A s \in subs' : s.active => s = new \/ (s \in subs /\ s.id \notin ids)
<1>1. ASSUME NEW x \in subs, x.id \in ids
      PROVE  [x EXCEPT !.active = FALSE].active = FALSE
  BY DEF Typed, Subscription
<1> QED
  BY <1>1 DEF Canceled

LEMMA PremiumGranted == ASSUME IInv, Premium, NEW r \in Requests, CommitGrant(r) PROVE Premium'
<1> DEFINE end == clock + 1
           ids == req[r].ids
           new == [id |-> past.sold + 1, active |-> TRUE, end |-> end, alone |-> req[r].alone]
           w == [req[r].user EXCEPT !.premium = TRUE]
           row == Flushed(user, req[r].user, w)
<1>1. /\ End(r) /\ req[r].at = "grant" /\ clock' = clock
      /\ subs' = Canceled(ids) \cup {new}
      /\ user' = [row EXCEPT !.until = end]
  BY DEF CommitGrant
<1>2. /\ Typed /\ Found(r) /\ Fine(r)
      /\ clock \in Nat /\ end \in Nat /\ end # NoDate /\ end >= clock
      /\ past.sold \in Nat /\ past.sold + 1 \in Nat
      /\ user \in User /\ req[r].user \in User /\ req[r].alone \in BOOLEAN
  BY RequestFields, BoundsAssumption DEF IInv, Typed, Premium, NoDate
<1>3. /\ new \in Subscription /\ new.id = past.sold + 1 /\ new.active /\ new.end = end
      /\ new.alone = req[r].alone
  BY <1>2 DEF Subscription
<1>4. w \in User /\ w.premium = TRUE
  BY <1>2 DEF User
<1>5. row \in User /\ (req[r].alone => row = w)
  <2>1. row \in User /\ (user = req[r].user => row = w)
    BY <1>2, <1>4, FlushedUser
  <2>2. req[r].alone => user = req[r].user
    BY <1>1, <1>2 DEF Found
  <2> QED
    BY <2>1, <2>2
<1> HIDE DEF new, w, row
<1>6. user'.until = end /\ (req[r].alone => user'.premium)
  <2>1. user'.until = end /\ user'.premium = row.premium
    BY <1>1, <1>5 DEF User
  <2> QED
    BY <1>4, <1>5, <2>1
<1>7. \A s \in subs' : s.active => s = new \/ (s \in subs /\ s.id \notin ids)
  BY <1>1, <1>2, <1>3, ActiveNow
<1> HIDE DEF end, ids
<1>8. \A s \in Paid' : s = new /\ req[r].alone
  <2>1. \A s \in subs : s.active /\ s.alone => s.id \in ids
    BY <1>1, <1>2 DEF Found, Paid, ids
  <2> QED
    BY <1>3, <1>7, <2>1 DEF Paid
<1>9. Shown'
  BY <1>1, <1>2, <1>3, <1>6, <1>8 DEF Shown
<1>10. Paid' = {} \/ \A o \in Others(r) : req[o].at = "idle"
  BY <1>1, <1>2, <1>8 DEF Fine, Alone
<1>11. Activated'
  <2>1. PICK f \in [Active -> Requests] : Activates(f)
    BY DEF Premium, Activated
  <2> DEFINE n == past.sold + 1
             g == [i \in Active' |-> IF i = n THEN r ELSE f[i]]
  <2>2. \A i \in Active : i \in Nat /\ i <= past.sold
    BY DEF Active, IInv, Typed, Numbered, Subscription
  <2>3. \A i \in Active' : i = n \/ (i \in Active /\ i \notin ids)
    BY <1>3, <1>7 DEF Active
  <2>4. /\ g \in [Active' -> Requests]
        /\ \A i \in Active' : g[i] = IF i = n THEN r ELSE f[i]
    BY <2>1, <2>3
  <2> HIDE DEF g, n
  <2>5. \A i \in Active : i \notin ids => f[i] # r
    BY <1>1, <2>1 DEF Activates, ids
  <2>6. \A i, j \in Active' : g[i] = g[j] => i = j
    BY <2>1, <2>3, <2>4, <2>5 DEF Activates
  <2>7. \A o \in Requests : req'[o].at = "grant" => o # r /\ req'[o] = req[o]
    <3>1. Becomes(r, Idle) /\ Idle \in Request /\ Idle.at = "idle"
      BY <1>1, IdleFine DEF End
    <3> QED
      BY <1>2, <3>1, Changed DEF Others
  <2>8. \A o \in Requests : req'[o].at = "grant" => \A i \in Active' : g[i] = o => i \in req'[o].ids
    BY <2>1, <2>3, <2>4, <2>7 DEF Activates
  <2> QED
    BY <2>4, <2>6, <2>8 DEF Activated, Activates
<1> QED
  BY <1>1, <1>9, <1>10, <1>11, PremiumReplaced

LEMMA PremiumInv == IInv /\ Premium /\ [Next]_vars => Premium'
<1> SUFFICES ASSUME IInv, Premium, [Next]_vars PROVE Premium'
  OBVIOUS
<1>1. CASE CreateSeller \/ Tick \/ UNCHANGED vars
  BY <1>1, PremiumElsewhere
<1>2. ASSUME NEW r \in Requests,
             \/ Enforce(r) \/ See(r) \/ Grant(r) \/ Delete(r)
             \/ \E purpose \in Purposes : AskCode(r, purpose)
             \/ \E t \in tokens : Confirm(r, t)
             \/ \E status \in Statuses : SetStatus(r, status)
      PROVE  Premium'
  BY <1>2, PremiumBegins
<1>3. ASSUME NEW r \in Requests,
             FindStore(r) \/ SelectActive(r) \/ IssueCode(r) \/ DeleteRows(r) \/ Fail(r)
      PROVE  Premium'
  BY <1>3, PremiumGoesOn
<1>4. ASSUME NEW r \in Requests, CommitClear(r) \/ CommitAlign(r)
      PROVE  Premium'
  BY <1>4, PremiumExpires
<1>5. ASSUME NEW r \in Requests, CommitCode(r) \/ CommitConfirm(r) \/ CommitStatus(r)
      PROVE  Premium'
  BY <1>5, PremiumKept
<1>6. ASSUME NEW r \in Requests, CommitGrant(r) \/ CommitDelete(r)
      PROVE  Premium'
  BY <1>6, PremiumGranted, PremiumDeleted
<1> QED
  BY <1>1, <1>2, <1>3, <1>4, <1>5, <1>6 DEF Next, Statuses

LEMMA PremiumInductive == Spec => []Premium
  BY InitInv, NextInv, PremiumInit, PremiumInv, PTL DEF Spec

(* subscribe and admin_grant_premium: whoever has a running subscription   *)
(* that was activated with nothing beside it is shown as premium, whatever *)
(* expires, is seen, granted or set afterwards.                            *)
THEOREM PaidIsShown == Spec => []PaidShown
<1>1. Premium => PaidShown
  BY DEF Premium, Shown, Paid, PaidShown
<1> QED
  BY PremiumInductive, <1>1, PTL

(* No more subscriptions are active than requests ran at once, since each  *)
(* activation cancels what the last in its slot left.                      *)
THEOREM OneAtATime == Spec => []OneActive
<1>1. ASSUME Premium
      PROVE  OneActive
  <2>1. Cardinality(Paid) <= 1
    <3>1. CASE Paid = {}
      BY <3>1, FS_EmptySet
    <3>2. ASSUME NEW s \in Paid
          PROVE  Cardinality(Paid) = 1
      <4>1. Paid = {s}
        BY <1>1, <3>2 DEF Premium, Shown
      <4> QED
        BY <4>1, FS_Singleton
    <3> QED
      BY <3>1, <3>2
  <2>2. Cardinality(Active) <= Cardinality(Requests)
    <3>1. PICK f \in [Active -> Requests] : Activates(f)
      BY <1>1 DEF Premium, Activated
    <3>2. f \in Injection(Active, Requests)
      BY <3>1 DEF Activates, Injection, IsInjective
    <3> QED
      BY <3>2, RequestsAssumption, FS_Injection
  <2> QED
    BY <2>1, <2>2 DEF OneActive, Paid
<1> QED
  BY PremiumInductive, <1>1, PTL

=============================================================================
