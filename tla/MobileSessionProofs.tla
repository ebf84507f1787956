------------------------ MODULE MobileSessionProofs ------------------------
(***************************************************************************)
(* What MobileSession promises the owner of a phone, proved for any number *)
(* of calls at once, of tokens and of kills: the app signs him out for a   *)
(* cause only, a logout leaves nothing, and no session of his is open that *)
(* the app neither holds nor lost.                                         *)
(***************************************************************************)
EXTENDS MobileSession, TLAPS

-----------------------------------------------------------------------------
(* The invariant *)

(* Records keep their fields.                                              *)
Called(q) == DOMAIN q = {"job", "at", "asks", "with", "answer", "new", "flagged", "stage", "known",
                         "alone"}
Shape ==
    /\ DOMAIN app = {"on", "access", "refresh", "refreshing"}
    /\ DOMAIN disk = {"access", "refresh", "session"} /\ disk.session \in BOOLEAN
    /\ DOMAIN past = {"calls", "kills", "lost", "spoiled", "overtaken", "unsure", "left"}
    /\ task = [k \in Tasks |-> task[k]]
    /\ \A k \in Tasks : Called(task[k])

(* Tokens have been issued, and each to one session.                       *)
Issued == used \cup {NoToken}
Tokens ==
    /\ used \subseteq Token /\ expired \subseteq used
    /\ {app.access, app.refresh, disk.access, disk.refresh} \subseteq Issued
    /\ \A k \in Tasks : task[k].with \in Issued /\ task[k].new \in Issued
    /\ \A m \in late : m.with \in Issued
    /\ current \in [Token -> Issued]
    /\ \A s \in Token : current[s] # NoToken => s \in used
    /\ \A s, t \in Token : current[s] = current[t] /\ current[s] # NoToken => s = t

(* The tokens there is cause to give up.                                   *)
Causes == past.spoiled \cup past.overtaken \cup past.unsure

(* A token that a refresh will be answered for, or that there is cause to  *)
(* give up; and one that is replaced or ended.                             *)
Open(t) == \E s \in Token : current[s] = t
Good(t) == t = NoToken \/ t \in Causes \/ Open(t)

Asking(q, what) == q.at = "wait" /\ q.asks = what
LoggingOut(q) == Asking(q, "logout") \/ q.at = "wipe"

(* What the fields of a task mean where it is.                             *)
Meant(q) ==
    /\ q.at \in {"idle", "wait", "save", "wipe"}
    /\ q.job \in {"none", "call", "login", "logout", "start"}
    /\ q.stage \in 0 .. 3 /\ (q.stage # 0 <=> q.job = "start")
    /\ (q.at = "idle" <=> q.job = "none") /\ (q.flagged => q.job \in {"call", "start"})
    /\ q.at = "wait" => /\ q.asks \in {"api", "refresh", "login", "logout"}
                        /\ q.answer \in {"none", "yes", "no"}
    /\ q.job = "login" => Asking(q, "login") \/ q.at = "save"
    /\ q.job = "logout" => LoggingOut(q)
    /\ LoggingOut(q) => q.flagged \/ q.job = "logout"
    /\ Asking(q, "login") => q.job = "login"
    /\ Asking(q, "refresh") => q.flagged \/ q.stage = 2
    /\ q.at = "save" => q.flagged \/ q.stage = 2 \/ q.job = "login"

(* What a request and its answer mean for the tokens.                      *)
Sent(q) ==
    /\ Asking(q, "api") /\ q.answer = "yes" => q.with # NoToken
    /\ Asking(q, "refresh") =>
           /\ q.with # NoToken
           /\ q.answer = "none" => Good(q.with)
           /\ q.answer = "no" => q.with \in Causes
           /\ q.answer = "yes" => ~Open(q.with)
    /\ Asking(q, "logout") => /\ q.with \in Causes \ {NoToken}
                              /\ q.answer = "yes" => ~Open(q.with)

(* A new token nobody else has.                                            *)
Renews(q) == q.at = "wait" /\ q.asks \in {"refresh", "login"} /\ q.answer = "yes"
Renewed(k) ==
    LET n == task[k].new IN
    Renews(task[k]) =>
        /\ n \in used /\ n # NoToken /\ Good(n) /\ n # app.refresh
        /\ \A o \in Tasks : /\ Asking(task[o], "refresh") => task[o].with # n
                            /\ o # k /\ Renews(task[o]) => task[o].new # n

Calls == \A k \in Tasks : Meant(task[k]) /\ Sent(task[k]) /\ Renewed(k)

(* _refreshInProgress is that of one call.                                 *)
Flagged ==
    /\ app.refreshing => \E k \in Tasks : task[k].flagged
    /\ \A k \in Tasks : task[k].flagged => /\ app.refreshing
                                           /\ \A o \in Tasks : task[o].flagged => o = k

(* The splash screen is alone, and works with what is in storage.          *)
Starts ==
    \A k \in Tasks : task[k].job = "start" =>
        /\ \A o \in Tasks \ {k} : task[o].at = "idle"
        /\ task[k].at = "wait" => app.refresh = disk.refresh
        /\ task[k].at = "wipe" => app.refresh = NoToken
        /\ task[k].at = "save" => app.access = disk.access /\ disk.access # NoToken
        /\ Asking(task[k], "api") => task[k].with = disk.access

(* Without the process nothing runs, and storage has what it had.          *)
OffIsOff ==
    ~app.on => /\ \A k \in Tasks : task[k].at = "idle"
               /\ app.access = NoToken /\ app.refresh = NoToken /\ ~app.refreshing
               /\ Good(disk.refresh)

(* The token in memory is good, unless its successor is on its way.        *)
Replaced(q, t) == Asking(q, "refresh") /\ q.answer = "yes" /\ q.with = t
Held == Good(app.refresh) \/ \E k \in Tasks : Replaced(task[k], app.refresh)

(* A request that nobody awaits is one for a token given up.               *)
Lingering ==
    \A m \in late : m.asks = "login" \/ (m.asks \in {"refresh", "logout"} /\ m.with \in Causes)

(* While a call may end the session, the token in memory is the one it has *)
(* sent to be refreshed, or there is cause to give it up.                  *)
Doomed(q) ==
    MayEnd(q) => \/ app.refresh \in {NoToken} \cup Causes
                 \/ Asking(q, "refresh") /\ app.refresh = q.with
Ending == \A k \in Tasks : Doomed(task[k])

(* A logout beside which nothing runs has emptied the memory.              *)
Emptied == app.access = NoToken /\ app.refresh = NoToken /\ disk.access = NoToken
Quiet(k) == \A o \in Tasks \ {k} : ~Holding(task[o])
Logouts ==
    \A k \in Tasks : /\ LoggingOut(task[k]) /\ task[k].alone => Quiet(k)
                     /\ task[k].at = "wipe" /\ task[k].alone => Emptied
Left == past.left => /\ Emptied /\ disk.refresh = NoToken /\ ~disk.session
                     /\ \A k \in Tasks : ~Holding(task[k])

(* A session is the app's unless it has been lost.                         *)
Accounted ==
    \A s \in Token :
        \/ current[s] \in {NoToken, app.refresh} \cup past.lost
        \/ \E k \in Tasks : Renews(task[k]) /\ task[k].new = current[s]

IInv == Shape /\ Tokens /\ Calls /\ Flagged /\ Starts /\ OffIsOff /\ Held /\ Lingering
        /\ Ending /\ Logouts /\ Left /\ Accounted

-----------------------------------------------------------------------------

LEMMA InitInv == Init => IInv
<1> SUFFICES ASSUME Init PROVE IInv
  OBVIOUS
<1>1. /\ current = [s \in Token |-> IF s = 1 THEN 1 ELSE NoToken] /\ used = {1} /\ 1 \in Token
      /\ expired = {} /\ late = {} /\ \A k \in Tasks : task[k] = Idle
      /\ app.on /\ app.access = 1 /\ app.refresh = 1 /\ ~app.refreshing
      /\ disk.access = 1 /\ disk.refresh = 1 /\ disk.session = TRUE
      /\ past.lost = {} /\ Causes = {} /\ past.left = FALSE
  BY BoundsAssumption DEF Init, Causes, Server!Init, Server!NoToken, NoToken, Token
<1>2. /\ Idle.job = "none" /\ Idle.at = "idle" /\ Idle.with = NoToken /\ Idle.new = NoToken
      /\ Idle.flagged = FALSE /\ Idle.stage = 0 /\ Called(Idle)
  BY DEF Idle, Called
<1>3. Shape
  BY <1>1, <1>2 DEF Shape, Init
<1>4. Tokens
  BY <1>1, <1>2 DEF Tokens, Issued
<1>5. Calls
  BY <1>1, <1>2 DEF Calls, Meant, LoggingOut, Sent, Renewed, Renews, Asking
<1>6. Flagged /\ Starts /\ OffIsOff /\ Lingering
  BY <1>1, <1>2 DEF Flagged, Starts, OffIsOff, Lingering
<1>7. Held
  BY <1>1 DEF Held, Good, Open
<1>8. Ending /\ Logouts /\ Left
  BY <1>1, <1>2 DEF Ending, Doomed, MayEnd, Logouts, Left, LoggingOut, Asking
<1>9. Accounted
  BY <1>1 DEF Accounted
<1> QED
  BY <1>3, <1>4, <1>5, <1>6, <1>7, <1>8, <1>9 DEF IInv

-----------------------------------------------------------------------------
(* Steps of the app *)

(* All fields but alone.                                                   *)
Same(q, o) ==
    /\ q.job = o.job /\ q.at = o.at /\ q.asks = o.asks /\ q.with = o.with /\ q.answer = o.answer
    /\ q.new = o.new /\ q.flagged = o.flagged /\ q.stage = o.stage /\ q.known = o.known

Aside(k) ==
    /\ task' = [o \in Tasks |-> task'[o]]
    /\ \A o \in Tasks \ {k} :
           /\ Called(task'[o]) /\ Same(task'[o], task[o])
           /\ task'[o].alone => task[o].alone /\ (task[o].at = "idle" \/ ~Holding(task'[k]))

LEMMA GoesAside ==
  ASSUME Shape, NEW k \in Tasks, NEW a, NEW d, NEW q, Goes(k, a, d, q)
  PROVE  app' = a /\ disk' = d /\ task'[k] = q /\ Aside(k)
<1>1. app' = a /\ disk' = d /\ task'[k] = q /\ task' = [o \in Tasks |-> task'[o]]
  BY DEF Goes
<1>2. ASSUME NEW o \in Tasks \ {k}
      PROVE  /\ Called(task'[o]) /\ Same(task'[o], task[o])
             /\ task'[o].alone => task[o].alone /\ (task[o].at = "idle" \/ ~Holding(q))
  <2>1. CASE task[o] = Idle
    <3>1. task'[o] = Idle /\ Idle.at = "idle"
      BY <2>1 DEF Goes, Idle
    <3> QED
      BY <2>1, <3>1 DEF Same, Shape
  <2>2. CASE task[o] # Idle
    <3>1. task'[o] = [task[o] EXCEPT !.alone = @ /\ ~Holding(q)]
      BY <2>2 DEF Goes
    <3> QED
      BY <3>1 DEF Same, Shape, Called
  <2> QED
    BY <2>1, <2>2
<1> QED
  BY <1>1, <1>2 DEF Aside

(* What the app's own steps leave alone, and what history adds.            *)
Grows ==
    /\ UNCHANGED server
    /\ DOMAIN past' = {"calls", "kills", "lost", "spoiled", "overtaken", "unsure", "left"}
    /\ past.lost \subseteq past'.lost /\ Causes \subseteq Causes'
    /\ \A m \in late' : \/ m \in late
                        \/ /\ m.with \in Issued
                           /\ \/ m.asks = "login"
                              \/ m.asks \in {"refresh", "logout"} /\ m.with \in Causes'

(* A task that is under way has the app on, and no splash screen beside it.*)
LEMMA Acting ==
  ASSUME IInv, NEW k \in Tasks, task[k].at # "idle"
  PROVE  /\ app.on
         /\ \A o \in Tasks \ {k} : task[o].job # "start"
         /\ task[k].job = "start" => \A o \in Tasks \ {k} : task[o].at = "idle"
  BY DEF IInv, OffIsOff, Starts

Formed(k) ==
    /\ DOMAIN app' = {"on", "access", "refresh", "refreshing"}
    /\ DOMAIN disk' = {"access", "refresh", "session"} /\ disk'.session \in BOOLEAN
    /\ Called(task'[k]) /\ Meant(task'[k]) /\ ~Renews(task'[k])
    /\ {app'.access, app'.refresh, disk'.access, disk'.refresh} \subseteq Issued
    /\ {task'[k].with, task'[k].new} \subseteq Issued

Flags(k) ==
    \/ (app'.refreshing <=> app.refreshing) /\ (task'[k].flagged <=> task[k].flagged)
    \/ ~app.refreshing /\ app'.refreshing /\ task'[k].flagged
    \/ task[k].flagged /\ ~app'.refreshing /\ ~task'[k].flagged

Refreshed(k) ==
    \/ app'.refresh = NoToken
    \/ app'.refresh = app.refresh /\ (Replaced(task[k], app.refresh) => app.refresh \in Causes')
    \/ /\ app'.refresh = task[k].new /\ Renews(task[k])
       /\ \/ task[k].asks = "refresh" \/ task[k].new \in Causes'
          \/ \A o \in Tasks : ~MayEnd(task[o])
    \/ app'.refresh = disk.refresh /\ ~app.on

Loses(k) ==
    /\ app'.refresh = app.refresh \/ app.refresh \in past'.lost \cup {NoToken} \/ ~Open(app.refresh)
    /\ Renews(task[k]) => task[k].new \in past'.lost \cup {app'.refresh}

Empties(k) ==
    /\ LoggingOut(task'[k]) /\ task'[k].alone => Quiet(k)
    /\ task'[k].at = "wipe" /\ task'[k].alone => Emptied'
    /\ (Emptied => Emptied') \/ Holding(task[k]) \/ \A o \in Tasks \ {k} : task[o].at = "idle"
    /\ past'.left => /\ Emptied' /\ disk'.refresh = NoToken /\ ~disk'.session
                     /\ ~Holding(task'[k]) /\ Quiet(k)

Alone(k) ==
    /\ \A o \in Tasks \ {k} : task[o].at = "idle"
    /\ task'[k].at = "wait" => app'.refresh = disk'.refresh
    /\ task'[k].at = "wipe" => app'.refresh = NoToken
    /\ task'[k].at = "save" => app'.access = disk'.access /\ disk'.access # NoToken
    /\ Asking(task'[k], "api") => task'[k].with = disk'.access

LEMMA Step ==
  ASSUME IInv, NEW k \in Tasks, Aside(k), Grows, Formed(k), Flags(k), app'.on,
         \A o \in Tasks \ {k} : task[o].job # "start",
         task'[k].job = "start" => Alone(k),
         Sent(task[k])', Doomed(task[k])', Asking(task'[k], "refresh") => task'[k].with = app.refresh,
         Refreshed(k), Loses(k), Empties(k)
  PROVE  IInv'
<1>1. /\ UNCHANGED <<current, used, expired>> /\ Issued' = Issued
      /\ \A t : Open(t)' <=> Open(t)
      /\ \A t : Good(t) => Good(t)'
  BY DEF Grows, server, Issued, Open, Good
<1>2. \A o \in Tasks \ {k} : Called(task'[o]) /\ Same(task'[o], task[o])
  BY DEF Aside
<1>3. Shape'
  BY <1>2 DEF Shape, Aside, Grows, Formed
<1>4. Tokens'
  BY <1>1, <1>2 DEF IInv, Tokens, Grows, Formed, Same
<1>5. Calls'
  <2>1. ASSUME NEW o \in Tasks \ {k}
        PROVE  Meant(task[o])' /\ Sent(task[o])' /\ Renewed(o)'
    <3>1. Meant(task[o]) /\ Sent(task[o]) /\ Renewed(o) /\ Same(task'[o], task[o])
      BY <1>2 DEF IInv, Calls
    <3>2. Meant(task[o])'
      BY <3>1 DEF Same, Meant, LoggingOut, Asking
    <3>3. Sent(task[o])'
      BY <1>1, <3>1 DEF Grows, Same, Sent, Asking
    <3>4. Renewed(o)'
      <4> SUFFICES ASSUME Renews(task'[o])
                   PROVE  /\ task'[o].new \in used' /\ task'[o].new # NoToken
                          /\ Good(task[o].new)' /\ task'[o].new # app'.refresh
                          /\ \A j \in Tasks : /\ Asking(task'[j], "refresh") => task'[j].with # task'[o].new
                                              /\ j # o /\ Renews(task'[j]) => task'[j].new # task'[o].new
        BY DEF Renewed, Renews, Asking
      <4>1. /\ Renews(task[o]) /\ task'[o].new = task[o].new /\ task[o].at # "idle"
            /\ task[o].new \in used /\ task[o].new # NoToken /\ Good(task[o].new)
            /\ task[o].new # app.refresh
        BY <3>1 DEF Same, Renews, Renewed
      <4>2. task'[o].new # app'.refresh
        BY <3>1, <4>1 DEF Refreshed, Renewed, IInv, OffIsOff
      <4>3. ASSUME NEW j \in Tasks
            PROVE  /\ Asking(task'[j], "refresh") => task'[j].with # task'[o].new
                   /\ j # o /\ Renews(task'[j]) => task'[j].new # task'[o].new
        <5>1. CASE j = k
          BY <4>1, <5>1 DEF Formed
        <5>2. CASE j # k
          <6>1. Same(task'[j], task[j])
            BY <1>2, <5>2
          <6> QED
            BY <3>1, <4>1, <6>1 DEF Same, Asking, Renews, Renewed
        <5> QED
          BY <5>1, <5>2
      <4>4. Good(task[o].new)'
        BY <1>1, <4>1 DEF Good, Grows
      <4> QED
        BY <1>1, <4>1, <4>2, <4>3, <4>4
    <3> QED
      BY <3>2, <3>3, <3>4
  <2>2. Meant(task[k])' /\ Sent(task[k])' /\ Renewed(k)'
    BY DEF Formed, Meant, LoggingOut, Asking, Renewed, Renews
  <2> QED
    BY <2>1, <2>2 DEF Calls
<1>6. Flagged'
  BY <1>2 DEF IInv, Flagged, Flags, Same
<1>7. Starts'
  <2>1. ASSUME NEW o \in Tasks \ {k}
        PROVE  task'[o].job # "start" /\ task'[o].at = task[o].at
    BY <1>2 DEF Same
  <2>2. Asking(task[k], "api")' <=> Asking(task'[k], "api")
    BY DEF Asking
  <2> QED
    BY <2>1, <2>2 DEF Starts, Alone
<1>8. OffIsOff'
  BY DEF OffIsOff
<1>9. Held'
  <2>1. CASE app'.refresh = NoToken \/ app'.refresh \in Causes'
    BY <2>1 DEF Held, Good
  <2>2. CASE app'.refresh = app.refresh /\ Good(app.refresh)
    BY <1>1, <2>2 DEF Held, Good, Grows
  <2>3. CASE app'.refresh = app.refresh /\ \E o \in Tasks \ {k} : Replaced(task[o], app.refresh)
    BY <1>2, <2>3 DEF Held, Replaced, Asking, Same
  <2>4. CASE app'.refresh = task[k].new /\ Renews(task[k])
    <3>1. Good(task[k].new)
      BY <2>4 DEF IInv, Calls, Renewed
    <3> QED
      BY <1>1, <2>4, <3>1 DEF Held, Good, Grows
  <2>5. CASE app'.refresh = disk.refresh /\ ~app.on
    BY <1>1, <2>5 DEF IInv, OffIsOff, Held, Good, Grows
  <2> QED
    BY <2>1, <2>2, <2>3, <2>4, <2>5 DEF IInv, Held, Refreshed
<1>10. Lingering'
  BY DEF IInv, Lingering, Grows
<1>11. Logouts'
  <2>1. ASSUME NEW o \in Tasks \ {k}, LoggingOut(task'[o]), task'[o].alone
        PROVE  Quiet(o)' /\ (task'[o].at = "wipe" => Emptied')
    <3>1. /\ LoggingOut(task[o]) /\ task[o].alone /\ task[o].at # "idle" /\ ~Holding(task'[k])
          /\ task'[o].at = task[o].at
      BY <1>2, <2>1 DEF Aside, Same, LoggingOut, Asking
    <3>2. Quiet(o) /\ (task[o].at = "wipe" => Emptied)
      BY <3>1 DEF IInv, Logouts
    <3>3. Quiet(o)'
      BY <1>2, <3>1, <3>2 DEF Quiet, Holding, Same
    <3>4. ~Holding(task[k])
      BY <3>2 DEF Quiet
    <3> QED
      BY <3>1, <3>2, <3>3, <3>4 DEF Empties
  <2>2. LoggingOut(task'[k]) /\ task'[k].alone => Quiet(k)'
    BY <1>2 DEF Empties, Quiet, Holding, Same
  <2>3. task'[k].at = "wipe" /\ task'[k].alone => Emptied'
    BY DEF Empties
  <2>4. ASSUME NEW o \in Tasks
        PROVE  /\ (LoggingOut(task[o]) /\ task[o].alone)' => Quiet(o)'
               /\ (task[o].at = "wipe" /\ task[o].alone)' => Emptied'
    <3>1. LoggingOut(task[o])' <=> LoggingOut(task'[o])
      BY DEF LoggingOut, Asking
    <3>2. task'[o].at = "wipe" => LoggingOut(task'[o])
      BY DEF LoggingOut
    <3>3. CASE o = k
      BY <2>2, <2>3, <3>1, <3>3
    <3>4. CASE o # k
      BY <2>1, <3>1, <3>2, <3>4
    <3> QED
      BY <3>3, <3>4
  <2> QED
    BY <2>4 DEF Logouts
<1>12. Left'
  BY <1>2 DEF Left, Empties, Quiet, Holding, Same
<1>13. Ending'
  <2>1. ASSUME NEW o \in Tasks \ {k}, MayEnd(task[o])'
        PROVE  \/ app'.refresh \in {NoToken} \cup Causes'
               \/ Asking(task[o], "refresh")' /\ app'.refresh = task'[o].with
    <3>1. MayEnd(task[o]) /\ Same(task'[o], task[o]) /\ task[o].at # "idle"
      BY <1>2, <2>1 DEF MayEnd, Same
    <3>2. \/ app.refresh \in {NoToken} \cup Causes'
          \/ Asking(task[o], "refresh")' /\ app.refresh = task'[o].with
      BY <3>1 DEF IInv, Ending, Doomed, Asking, Same, Grows
    <3>3. ~(Renews(task[k]) /\ task[k].asks = "refresh")
      <4>1. task[o].flagged \/ task[o].stage = 2
        BY <3>1 DEF IInv, Calls, Meant, MayEnd, LoggingOut, Asking
      <4>2. task[o].flagged
        BY <3>1, <4>1 DEF IInv, Calls, Meant
      <4>3. ASSUME Renews(task[k]), task[k].asks = "refresh"
            PROVE  task[k].flagged \/ task[k].job = "start"
        BY <4>3 DEF IInv, Calls, Meant, Renews, Asking
      <4>4. task[k].job = "start" => task[o].at = "idle"
        BY DEF IInv, Starts
      <4> QED
        BY <3>1, <4>2, <4>3, <4>4 DEF IInv, Flagged
    <3>4. app.on
      BY <3>1 DEF IInv, OffIsOff
    <3> QED
      BY <3>1, <3>2, <3>3, <3>4 DEF Refreshed
  <2> QED
    BY <2>1 DEF Ending, Doomed
<1>14. Accounted'
  <2> SUFFICES ASSUME NEW s \in Token
               PROVE  \/ current[s] \in {NoToken, app'.refresh} \cup past'.lost
                      \/ \E o \in Tasks : Renews(task'[o]) /\ task'[o].new = current[s]
    BY <1>1 DEF Accounted, Renews
  <2>1. CASE current[s] \in {NoToken} \cup past.lost
    BY <2>1 DEF Grows
  <2>2. CASE current[s] = app.refresh
    BY <2>2 DEF Loses, Open
  <2>3. ASSUME NEW o \in Tasks, Renews(task[o]), task[o].new = current[s]
        PROVE  \/ current[s] \in {NoToken, app'.refresh} \cup past'.lost
               \/ \E j \in Tasks : Renews(task'[j]) /\ task'[j].new = current[s]
    BY <1>2, <2>3 DEF Loses, Same, Renews
  <2> QED
    BY <2>1, <2>2, <2>3 DEF IInv, Accounted
<1> QED
  BY <1>3, <1>4, <1>5, <1>6, <1>7, <1>8, <1>9, <1>10, <1>11, <1>12, <1>13, <1>14 DEF IInv

-----------------------------------------------------------------------------
(* What a step leaves the task at *)

LEMMA SendsFields ==
  ASSUME NEW q, Called(q), NEW asks, NEW with
  PROVE  LET s == Sends(q, asks, with) IN
         /\ Called(s) /\ s.at = "wait" /\ s.asks = asks /\ s.with = with /\ s.answer = "none"
         /\ s.new = NoToken /\ s.job = q.job /\ s.flagged = q.flagged /\ s.stage = q.stage
         /\ s.known = q.known /\ s.alone = q.alone
<1> DEFINE a == [q EXCEPT !.at = "wait"]
           b == [a EXCEPT !.asks = asks]
           c == [b EXCEPT !.with = with]
           d == [c EXCEPT !.answer = "none"]
           s == [d EXCEPT !.new = NoToken]
<1>1. Sends(q, asks, with) = s
  BY DEF Sends
<1>2. Called(a) /\ a.at = "wait" /\ a.job = q.job /\ a.flagged = q.flagged /\ a.stage = q.stage
      /\ a.known = q.known /\ a.alone = q.alone
  BY DEF Called
<1>3. Called(b) /\ b.at = "wait" /\ b.asks = asks /\ b.job = q.job /\ b.flagged = q.flagged
      /\ b.stage = q.stage /\ b.known = q.known /\ b.alone = q.alone
  <2> HIDE DEF a
  <2> QED BY <1>2 DEF Called
<1>4. Called(c) /\ c.at = "wait" /\ c.asks = asks /\ c.with = with /\ c.job = q.job
      /\ c.flagged = q.flagged /\ c.stage = q.stage /\ c.known = q.known /\ c.alone = q.alone
  <2> HIDE DEF b
  <2> QED BY <1>3 DEF Called
<1>5. Called(d) /\ d.at = "wait" /\ d.asks = asks /\ d.with = with /\ d.answer = "none"
      /\ d.job = q.job /\ d.flagged = q.flagged /\ d.stage = q.stage /\ d.known = q.known
      /\ d.alone = q.alone
  <2> HIDE DEF c
  <2> QED BY <1>4 DEF Called
<1>6. Called(s) /\ s.at = "wait" /\ s.asks = asks /\ s.with = with /\ s.answer = "none"
      /\ s.new = NoToken /\ s.job = q.job /\ s.flagged = q.flagged /\ s.stage = q.stage
      /\ s.known = q.known /\ s.alone = q.alone
  <2> HIDE DEF d
  <2> QED BY <1>5 DEF Called
<1> HIDE DEF s
<1> QED
  BY <1>1, <1>6

(* The task is done, or has sent a request.                                *)
Onward(k) ==
    /\ Called(task'[k]) /\ Meant(task'[k]) /\ ~Renews(task'[k]) /\ task'[k].at # "wipe"
    /\ {task'[k].with, task'[k].new} \subseteq Issued
    /\ Sent(task[k])' /\ Doomed(task[k])'
    /\ Asking(task'[k], "refresh") => task'[k].with = app.refresh
    /\ Holding(task'[k]) => ~past'.left
    /\ LoggingOut(task'[k]) /\ task'[k].alone => Quiet(k)
    /\ task'[k].job = "start" => /\ \A o \in Tasks \ {k} : task[o].at = "idle"
                                 /\ app'.refresh = disk'.refresh /\ task'[k].at # "save"
                                 /\ Asking(task'[k], "api") => task'[k].with = disk'.access

LEMMA ToIdle ==
  ASSUME NEW k \in Tasks, task'[k] = Idle
  PROVE  Onward(k)
<1>1. /\ Called(Idle) /\ Idle.job = "none" /\ Idle.at = "idle" /\ Idle.with = NoToken
      /\ Idle.new = NoToken /\ Idle.flagged = FALSE /\ Idle.stage = 0
  BY DEF Called, Idle
<1> QED
  BY <1>1 DEF Onward, Meant, Asking, LoggingOut, Renews, Holding, Sent, Doomed, MayEnd, Issued

(* q is what task k has become but for its request.                        *)
Serves(k, q) ==
    /\ Called(q) /\ q.job \in {"call", "start"} /\ q.stage \in 0 .. 3
    /\ q.stage # 0 <=> q.job = "start"
    /\ q.job = "start" => /\ \A o \in Tasks \ {k} : task[o].at = "idle"
                          /\ app'.refresh = disk'.refresh

LEMMA ToApi ==
  ASSUME NEW k \in Tasks, NEW q, Serves(k, q), NEW with \in Issued, task'[k] = Sends(q, "api", with),
         q.job = "start" => with = disk'.access
  PROVE  Onward(k)
<1>1. /\ Called(task'[k]) /\ task'[k].at = "wait" /\ task'[k].asks = "api" /\ task'[k].with = with
      /\ task'[k].answer = "none" /\ task'[k].new = NoToken /\ task'[k].job = q.job
      /\ task'[k].flagged = q.flagged /\ task'[k].stage = q.stage
  BY SendsFields DEF Serves
<1> QED
  BY <1>1 DEF Onward, Serves, Meant, Asking, LoggingOut, Renews, Holding, Sent, Doomed, MayEnd, Issued

LEMMA ToRefresh ==
  ASSUME NEW k \in Tasks, NEW q, Serves(k, q), q.flagged \/ q.stage = 2,
         app.refresh \in Issued \ {NoToken}, Good(app.refresh), Grows, ~past'.left,
         app'.refresh = app.refresh,
         task'[k] = Sends(q, "refresh", app.refresh)
  PROVE  Onward(k)
<1>1. /\ Called(task'[k]) /\ task'[k].at = "wait" /\ task'[k].asks = "refresh"
      /\ task'[k].with = app.refresh /\ task'[k].answer = "none" /\ task'[k].new = NoToken
      /\ task'[k].job = q.job /\ task'[k].flagged = q.flagged /\ task'[k].stage = q.stage
  BY SendsFields DEF Serves
<1>2. app.refresh \in Causes' \/ \E s \in Token : current'[s] = app.refresh
  BY DEF Good, Open, Grows, server
<1>3. \A t : t = app.refresh => Good(t)'
  BY <1>2 DEF Good, Open
<1>4. Sent(task[k])'
  BY <1>1, <1>3 DEF Sent, Asking
<1>5. Doomed(task[k])'
  BY <1>1 DEF Doomed, MayEnd, Asking
<1> QED
  BY <1>1, <1>4, <1>5 DEF Onward, Serves, Meant, Asking, LoggingOut, Renews, Issued

LEMMA ToLogout ==
  ASSUME NEW k \in Tasks, NEW q, Called(q), q.job \in {"call", "start", "logout"},
         q.flagged <=> q.job # "logout", app'.refresh = app.refresh,
         q.stage \in 0 .. 3, q.stage # 0 <=> q.job = "start",
         q.job = "start" => /\ \A o \in Tasks \ {k} : task[o].at = "idle"
                            /\ app'.refresh = disk'.refresh,
         app.refresh \in Issued \ {NoToken}, app.refresh \in Causes', q.alone => Quiet(k),
         task'[k] = Sends(q, "logout", app.refresh)
  PROVE  Onward(k)
<1>1. /\ Called(task'[k]) /\ task'[k].at = "wait" /\ task'[k].asks = "logout"
      /\ task'[k].with = app.refresh /\ task'[k].answer = "none" /\ task'[k].new = NoToken
      /\ task'[k].job = q.job /\ task'[k].flagged = q.flagged /\ task'[k].stage = q.stage
      /\ task'[k].alone = q.alone
  BY SendsFields
<1>2. Doomed(task[k])'
  BY <1>1 DEF Doomed
<1> QED
  BY <1>1, <1>2 DEF Onward, Meant, Asking, LoggingOut, Renews, Holding, Sent, Issued

(* The token in memory stays.                                              *)
LEMMA Stays ==
  ASSUME IInv, NEW k \in Tasks, Aside(k), Grows, Onward(k), Flags(k), app'.on,
         \A o \in Tasks \ {k} : task[o].job # "start",
         DOMAIN app' = DOMAIN app, DOMAIN disk' = DOMAIN disk, disk'.session \in BOOLEAN,
         app'.refresh = app.refresh, app'.access \in {app.access, disk.access},
         disk'.access = disk.access, disk'.refresh \in {disk.refresh, app.refresh, NoToken},
         Renews(task[k]) => task[k].new \in past'.lost,
         Replaced(task[k], app.refresh) => app.refresh \in Causes',
         past'.left => Emptied /\ disk'.refresh = NoToken /\ ~disk'.session /\ Quiet(k)
  PROVE  IInv'
<1>1. Formed(k)
  BY DEF Formed, Onward, IInv, Shape, Tokens, Issued
<1>2. Refreshed(k) /\ Loses(k)
  BY DEF Refreshed, Loses
<1>3. Emptied => Emptied'
  BY DEF Emptied
<1>4. Empties(k)
  BY <1>3 DEF Empties, Onward
<1>5. task'[k].job = "start" => Alone(k)
  BY DEF Onward, Alone
<1>6. Sent(task[k])' /\ Doomed(task[k])' /\ (Asking(task'[k], "refresh") => task'[k].with = app.refresh)
  BY DEF Onward
<1> QED
  BY <1>1, <1>2, <1>4, <1>5, <1>6, Step

(* Memory and half of storage are cleared.                                 *)
LEMMA Cleared ==
  ASSUME IInv, NEW k \in Tasks, Grows, past'.left => past.left, app.on,
         \A o \in Tasks \ {k} : task[o].job # "start",
         NEW a, NEW q, Clears(k, a, q), DOMAIN a = DOMAIN app, a.on = app.on,
         Called(q), q.job \in {"call", "start", "logout"},
         q.flagged <=> q.job # "logout", q.stage \in 0 .. 3,
         q.stage # 0 <=> q.job = "start",
         q.job = "start" => \A o \in Tasks \ {k} : task[o].at = "idle",
         {q.with, q.new} \subseteq Issued, q.alone => Quiet(k),
         \/ (a.refreshing <=> app.refreshing) /\ (q.flagged <=> task[k].flagged)
         \/ ~app.refreshing /\ a.refreshing /\ q.flagged,
         app.refresh \in past'.lost \cup {NoToken} \/ ~Open(app.refresh),
         Renews(task[k]) => task[k].new \in past'.lost
  PROVE  IInv'
<1> DEFINE b == [a EXCEPT !.access = NoToken]
           c == [b EXCEPT !.refresh = NoToken]
           d == [disk EXCEPT !.access = NoToken]
           r == [q EXCEPT !.at = "wipe"]
<1>1. app' = c /\ disk' = d /\ task'[k] = r /\ Aside(k)
  <2>1. Goes(k, c, d, r)
    BY DEF Clears
  <2> QED
    BY <2>1, GoesAside DEF IInv
<1>2. /\ DOMAIN b = DOMAIN app /\ b.access = NoToken /\ b.on /\ b.refreshing = a.refreshing
  BY DEF IInv, Shape
<1>3. /\ DOMAIN c = DOMAIN app /\ c.access = NoToken /\ c.refresh = NoToken /\ c.on
      /\ c.refreshing = a.refreshing
  <2> HIDE DEF b
  <2> QED BY <1>2 DEF IInv, Shape
<1>4. /\ DOMAIN d = DOMAIN disk /\ d.access = NoToken /\ d.refresh = disk.refresh
      /\ d.session = disk.session
  BY DEF IInv, Shape
<1>5. /\ Called(r) /\ r.at = "wipe" /\ r.with = q.with /\ r.new = q.new /\ r.job = q.job
      /\ r.stage = q.stage /\ r.flagged = q.flagged /\ r.alone = q.alone
  BY DEF Called
<1> HIDE DEF b, c, d, r
<1>6. Formed(k)
  BY <1>1, <1>3, <1>4, <1>5 DEF Formed, Meant, Asking, LoggingOut, Renews, IInv, Shape, Tokens, Issued
<1>7. Flags(k) /\ app'.on
  BY <1>1, <1>3, <1>5 DEF Flags
<1>8. task'[k].job = "start" => Alone(k)
  BY <1>1, <1>3, <1>5 DEF Alone, Asking
<1>9. /\ Sent(task[k])' /\ Doomed(task[k])'
      /\ Asking(task'[k], "refresh") => task'[k].with = app.refresh
  BY <1>1, <1>3, <1>5 DEF Sent, Doomed, Asking
<1>10. Refreshed(k) /\ Loses(k)
  BY <1>1, <1>3 DEF Refreshed, Loses
<1>11. Emptied'
  BY <1>1, <1>3, <1>4 DEF Emptied
<1>12. Empties(k)
  <2>1. past'.left => disk'.refresh = NoToken /\ ~disk'.session /\ Quiet(k)
    BY <1>1, <1>4 DEF IInv, Left, Quiet
  <2>2. ~Holding(task'[k])
    BY <1>1, <1>5 DEF Holding
  <2> QED
    BY <1>1, <1>5, <1>11, <2>1, <2>2 DEF Empties
<1> QED
  BY <1>1, <1>6, <1>7, <1>8, <1>9, <1>10, <1>12, Step

-----------------------------------------------------------------------------
(* A request has succeeded or failed *)

LEMMA LoadedFields ==
  ASSUME NEW a, DOMAIN a = DOMAIN app, Shape, NEW d
  PROVE  LET b == Loaded(a, d) IN
         /\ DOMAIN b = DOMAIN app /\ b.on = a.on /\ b.access = d.access /\ b.refresh = d.refresh
         /\ b.refreshing = a.refreshing
<1> DEFINE c == [a EXCEPT !.access = d.access]
           b == [c EXCEPT !.refresh = d.refresh]
<1>1. Loaded(a, d) = b
  BY DEF Loaded
<1>2. DOMAIN c = DOMAIN app /\ c.on = a.on /\ c.access = d.access /\ c.refreshing = a.refreshing
  BY DEF Shape
<1>3. /\ DOMAIN b = DOMAIN app /\ b.on = a.on /\ b.access = d.access /\ b.refresh = d.refresh
      /\ b.refreshing = a.refreshing
  <2> HIDE DEF c
  <2> QED BY <1>2 DEF Shape
<1> HIDE DEF b
<1> QED
  BY <1>1, <1>3

LEMMA SignedOutFields ==
  ASSUME NEW d, DOMAIN d = DOMAIN disk, Shape
  PROVE  LET e == SignedOut(d) IN
         /\ DOMAIN e = DOMAIN disk /\ e.access = d.access /\ e.refresh = d.refresh
         /\ e.session = FALSE
BY DEF Shape, SignedOut

(* What the splash screen does next, or that it is done.                   *)
Resumes(k, a, d, q) ==
    /\ Aside(k)
    /\ app' = a \/ (app' = Loaded(a, d) /\ q.stage \in {1, 2})
    /\ disk' \in {d, SignedOut(d)}
    /\ \/ task'[k] = Idle
       \/ /\ q.stage \in {1, 2} /\ app' = Loaded(a, d)
          /\ \E stage \in {2, 3} : task'[k] = AsksMe(q, stage, app')
       \/ /\ q.stage = 2 /\ a.refresh # NoToken /\ app' = a
          /\ disk' = d /\ task'[k] = Sends(q, "refresh", a.refresh)

LEMMA RestoreResumes ==
  ASSUME Shape, NEW k \in Tasks, NEW a, NEW d, NEW q, q.stage \in {1, 2}, Restore(k, a, d, q)
  PROVE  Resumes(k, a, d, q)
<1> DEFINE b == Loaded(a, d)
<1>1. CASE b.access = NoToken
  <2>1. Goes(k, b, SignedOut(d), Idle)
    BY <1>1 DEF Restore
  <2>2. app' = b /\ disk' = SignedOut(d) /\ task'[k] = Idle /\ Aside(k)
    BY <2>1, GoesAside
  <2> QED
    BY <2>2 DEF Resumes
<1>2. CASE b.access # NoToken
  <2>1. Goes(k, b, d, AsksMe(q, 3, b))
    BY <1>2 DEF Restore
  <2>2. app' = b /\ disk' = d /\ task'[k] = AsksMe(q, 3, b) /\ Aside(k)
    BY <2>1, GoesAside
  <2> QED
    BY <2>2 DEF Resumes
<1> QED
  BY <1>1, <1>2

LEMMA ValidResumes ==
  ASSUME Shape, NEW k \in Tasks, NEW a, NEW d, NEW q, q.stage \in {1, 2}, Valid(k, a, d, q)
  PROVE  Resumes(k, a, d, q)
<1>1. CASE q.known
  <2>1. Goes(k, a, d, Idle)
    BY <1>1 DEF Valid
  <2>2. app' = a /\ disk' = d /\ task'[k] = Idle /\ Aside(k)
    BY <2>1, GoesAside
  <2> QED
    BY <2>2 DEF Resumes
<1>2. CASE ~q.known
  BY <1>2, RestoreResumes DEF Valid
<1> QED
  BY <1>1, <1>2

LEMMA EnsureEnds ==
  ASSUME Shape, NEW k \in Tasks, NEW a, NEW d, NEW q, Ensure(k, a, d, q)
  PROVE  /\ Aside(k) /\ app' \in {a, Loaded(a, d)} /\ disk' \in {d, SignedOut(d)}
         /\ \/ task'[k] = Idle
            \/ task'[k] = AsksMe(q, 2, app') /\ app' = Loaded(a, d)
<1> DEFINE b == Loaded(a, d)
<1>1. CASE ~d.session
  <2>1. Goes(k, a, d, Idle)
    BY <1>1 DEF Ensure
  <2> QED
    BY <2>1, GoesAside
<1>2. CASE d.session /\ b.access = NoToken /\ b.refresh = NoToken
  <2>1. Goes(k, b, SignedOut(d), Idle)
    BY <1>2 DEF Ensure
  <2> QED
    BY <2>1, GoesAside
<1>3. CASE d.session /\ ~(b.access = NoToken /\ b.refresh = NoToken)
  <2>1. Goes(k, b, d, AsksMe(q, 2, b))
    BY <1>3 DEF Ensure
  <2>2. app' = b /\ disk' = d /\ task'[k] = AsksMe(q, 2, b) /\ Aside(k)
    BY <2>1, GoesAside
  <2> QED
    BY <2>2
<1> QED
  BY <1>1, <1>2, <1>3

LEMMA EnsureResumes ==
  ASSUME Shape, NEW k \in Tasks, NEW a, NEW d, NEW q, q.stage \in {1, 2}, Ensure(k, a, d, q)
  PROVE  Resumes(k, a, d, q)
BY EnsureEnds DEF Resumes

LEMMA InsistResumes ==
  ASSUME Shape, NEW k \in Tasks, NEW a, NEW d, NEW q, q.stage = 2, Insist(k, a, d, q)
  PROVE  Resumes(k, a, d, q)
<1>1. CASE a.refresh = NoToken
  <2>1. Goes(k, a, SignedOut(d), Idle)
    BY <1>1 DEF Insist
  <2>2. app' = a /\ disk' = SignedOut(d) /\ task'[k] = Idle /\ Aside(k)
    BY <2>1, GoesAside
  <2> QED
    BY <2>2 DEF Resumes
<1>2. CASE a.refresh # NoToken
  <2>1. Goes(k, a, d, Sends(q, "refresh", a.refresh))
    BY <1>2 DEF Insist
  <2>2. app' = a /\ disk' = d /\ task'[k] = Sends(q, "refresh", a.refresh) /\ Aside(k)
    BY <2>1, GoesAside
  <2> QED
    BY <1>2, <2>2 DEF Resumes
<1> QED
  BY <1>1, <1>2

(* So it goes on from a refresh, too, when its tokens have been written.   *)
LEMMA Resumed ==
  ASSUME IInv, NEW k \in Tasks, NEW a, NEW d, NEW q, Resumes(k, a, d, q),
         app.on, \A o \in Tasks \ {k} : task[o].job # "start", Grows,
         DOMAIN a = DOMAIN app, a.on = app.on, a.access = app.access, a.refresh = app.refresh,
         \/ (a.refreshing <=> app.refreshing) /\ (q.flagged <=> task[k].flagged)
         \/ task[k].flagged /\ ~a.refreshing /\ ~q.flagged,
         DOMAIN d = DOMAIN disk, d.session \in BOOLEAN, d.access = disk.access,
         d.refresh \in {disk.refresh, app.refresh, NoToken},
         Called(q), ~q.flagged, q.job \in {"call", "start"}, q.stage \in 0 .. 3,
         q.stage # 0 <=> q.job = "start",
         q.job = "start" => /\ \A o \in Tasks \ {k} : task[o].at = "idle"
                            /\ d.refresh = app.refresh,
         ~Renews(task[k]), ~Replaced(task[k], app.refresh),
         past'.left => Emptied /\ d.refresh = NoToken /\ ~d.session /\ Quiet(k)
  PROVE  IInv'
<1>1. /\ DOMAIN app' = DOMAIN app /\ app'.on /\ app'.refreshing = a.refreshing
      /\ app'.refresh = app.refresh /\ app'.access \in {app.access, disk.access}
  <2>1. CASE app' = a
    BY <2>1
  <2>2. CASE app' = Loaded(a, d) /\ q.stage \in {1, 2}
    <3>1. d.refresh = app.refresh
      BY <2>2
    <3>2. /\ DOMAIN app' = DOMAIN app /\ app'.on = a.on /\ app'.access = d.access
          /\ app'.refresh = d.refresh /\ app'.refreshing = a.refreshing
      BY <2>2, LoadedFields DEF IInv
    <3> QED
      BY <3>1, <3>2
  <2> QED
    BY <2>1, <2>2 DEF Resumes
<1>2. /\ DOMAIN disk' = DOMAIN disk /\ disk'.session \in BOOLEAN /\ (disk'.session => d.session)
      /\ disk'.access = disk.access /\ disk'.refresh = d.refresh
  BY SignedOutFields DEF Resumes, IInv
<1>3. Onward(k) /\ ~task'[k].flagged
  <2>1. CASE task'[k] = Idle
    <3>1. Idle.flagged = FALSE
      BY DEF Idle
    <3> QED
      BY <2>1, <3>1, ToIdle
  <2>2. ASSUME NEW stage \in {2, 3}, q.stage \in {1, 2}, task'[k] = AsksMe(q, stage, app'),
               app' = Loaded(a, d)
        PROVE  Onward(k) /\ ~task'[k].flagged
    <3> DEFINE r == [q EXCEPT !.stage = stage]
    <3>1. Serves(k, r) /\ ~r.flagged
      BY <1>1, <1>2, <2>2 DEF Serves, Called
    <3>2. /\ task'[k] = Sends(r, "api", app'.access) /\ app'.access \in Issued
          /\ app'.access = disk'.access
      BY <1>1, <1>2, <2>2, LoadedFields DEF AsksMe, IInv, Tokens
    <3>3. Called(r)
      BY <3>1 DEF Serves
    <3> HIDE DEF r
    <3> QED
      BY <3>1, <3>2, <3>3, ToApi, SendsFields
  <2>3. CASE q.stage = 2 /\ a.refresh # NoToken /\ task'[k] = Sends(q, "refresh", a.refresh)
    <3>1. Good(app.refresh)
      BY <2>3 DEF IInv, Held, Replaced, Asking
    <3>2. Serves(k, q)
      BY <1>1, <1>2 DEF Serves
    <3>3. app.refresh \in Issued \ {NoToken} /\ ~past'.left
      BY <2>3 DEF IInv, Tokens, Emptied
    <3> QED
      BY <1>1, <2>3, <3>1, <3>2, <3>3, ToRefresh, SendsFields
  <2> QED
    BY <2>1, <2>2, <2>3 DEF Resumes
<1>4. Flags(k)
  BY <1>1, <1>3 DEF Flags
<1>5. Aside(k)
  BY DEF Resumes
<1> QED
  BY <1>1, <1>2, <1>3, <1>4, <1>5, Stays

Freed(q, ok) == [q EXCEPT !.flagged = FALSE, !.known = @ \/ (q.stage = 1 /\ ok)]

LEMMA ReturnsResumes ==
  ASSUME Shape, NEW k \in Tasks, task[k].stage \in 0 .. 3, NEW d, NEW ok, Returns(k, app, d, ok)
  PROVE  LET a == Unflagged(app, task[k], ok)
             q == Freed(task[k], ok)
         IN  /\ Resumes(k, a, d, q)
             /\ DOMAIN a = DOMAIN app /\ a.on = app.on /\ a.access = app.access
             /\ a.refresh = app.refresh /\ (a.refreshing <=> app.refreshing /\ ~task[k].flagged)
             /\ Called(q) /\ ~q.flagged /\ q.job = task[k].job /\ q.stage = task[k].stage
<1> DEFINE a == Unflagged(app, task[k], ok)
           c == [task[k] EXCEPT !.flagged = FALSE]
           r == [c EXCEPT !.known = @ \/ (task[k].stage = 1 /\ ok)]
           q == Freed(task[k], ok)
<1>1. Called(c) /\ ~c.flagged /\ c.job = task[k].job /\ c.stage = task[k].stage
  BY DEF Shape, Called
<1>2. Called(r) /\ ~r.flagged /\ r.job = task[k].job /\ r.stage = task[k].stage
  <2> HIDE DEF c
  <2> QED BY <1>1 DEF Called
<1>3. Called(q) /\ ~q.flagged /\ q.job = task[k].job /\ q.stage = task[k].stage
  <2>1. q = r
    BY DEF Freed, Shape, Called
  <2> HIDE DEF q, r
  <2> QED
    BY <1>2, <2>1
<1>4. /\ DOMAIN a = DOMAIN app /\ a.on = app.on /\ a.access = app.access
      /\ a.refresh = app.refresh /\ (a.refreshing <=> app.refreshing /\ ~task[k].flagged)
  BY DEF Shape, Unflagged
<1>5. \/ q.stage = 0 /\ Goes(k, a, d, Idle)
      \/ q.stage = 1 /\ Ensure(k, a, d, q)
      \/ q.stage = 2 /\ ok /\ Valid(k, a, d, q)
      \/ q.stage = 2 /\ ~ok /\ Insist(k, a, d, q)
      \/ q.stage = 3 /\ Goes(k, a, IF ok THEN d ELSE SignedOut(d), Idle)
  BY DEF Returns, Freed
<1> HIDE DEF a, q
<1>6. Resumes(k, a, d, q)
  <2>1. CASE Goes(k, a, d, Idle)
    <3>1. app' = a /\ disk' = d /\ task'[k] = Idle /\ Aside(k)
      BY <2>1, GoesAside
    <3> QED
      BY <3>1 DEF Resumes
  <2>2. CASE q.stage = 1 /\ Ensure(k, a, d, q)
    BY <2>2, EnsureResumes
  <2>3. CASE q.stage = 2 /\ (Valid(k, a, d, q) \/ Insist(k, a, d, q))
    BY <2>3, ValidResumes, InsistResumes
  <2>4. CASE Goes(k, a, IF ok THEN d ELSE SignedOut(d), Idle)
    <3>1. app' = a /\ disk' = (IF ok THEN d ELSE SignedOut(d)) /\ task'[k] = Idle /\ Aside(k)
      BY <2>4, GoesAside
    <3> QED
      BY <3>1 DEF Resumes
  <2> QED
    BY <1>5, <2>1, <2>2, <2>3, <2>4
<1> QED
  BY <1>3, <1>4, <1>6 DEF a, q

LEMMA Returned ==
  ASSUME IInv, NEW k \in Tasks, Asking(task[k], "api") \/ task[k].at = "wipe",
         task[k].job # "logout", Grows, NEW d, NEW ok, Returns(k, app, d, ok),
         DOMAIN d = DOMAIN disk, d.session \in BOOLEAN, d.access = disk.access,
         d.refresh \in {disk.refresh, NoToken}, task[k].job = "start" => d.refresh = app.refresh,
         past'.left => Emptied /\ d.refresh = NoToken /\ ~d.session /\ Quiet(k)
  PROVE  IInv'
<1>1. /\ app.on /\ (\A o \in Tasks \ {k} : task[o].job # "start")
      /\ task[k].job = "start" => \A o \in Tasks \ {k} : task[o].at = "idle"
  BY Acting DEF Asking
<1>2. Meant(task[k]) /\ Shape /\ (task[k].flagged => app.refreshing)
  BY DEF IInv, Calls, Flagged
<1>3. /\ task[k].job \in {"call", "start"} /\ task[k].stage \in 0 .. 3
      /\ task[k].stage # 0 <=> task[k].job = "start"
  BY <1>2 DEF Meant, LoggingOut, Asking
<1>4. ~Renews(task[k]) /\ ~Replaced(task[k], app.refresh)
  BY DEF Renews, Replaced, Asking
<1> DEFINE a == Unflagged(app, task[k], ok)
           q == Freed(task[k], ok)
<1>5. /\ Resumes(k, a, d, q)
      /\ DOMAIN a = DOMAIN app /\ a.on = app.on /\ a.access = app.access
      /\ a.refresh = app.refresh /\ (a.refreshing <=> app.refreshing /\ ~task[k].flagged)
      /\ Called(q) /\ ~q.flagged /\ q.job = task[k].job /\ q.stage = task[k].stage
  BY <1>2, <1>3, ReturnsResumes
<1> HIDE DEF a, q
<1>6. \/ (a.refreshing <=> app.refreshing) /\ (q.flagged <=> task[k].flagged)
      \/ task[k].flagged /\ ~a.refreshing /\ ~q.flagged
  BY <1>2, <1>5
<1>7. /\ q.job \in {"call", "start"} /\ q.stage \in 0 .. 3 /\ (q.stage # 0 <=> q.job = "start")
      /\ q.job = "start" => /\ \A o \in Tasks \ {k} : task[o].at = "idle"
                            /\ d.refresh = app.refresh
  BY <1>1, <1>3, <1>5
<1> QED
  BY <1>1, <1>4, <1>5, <1>6, <1>7, Resumed

-----------------------------------------------------------------------------
(* The actions of the app *)

LEMMA CallInv ==
  ASSUME IInv, NEW k \in Tasks, Call(k)
  PROVE  IInv'
<1> DEFINE q == [Idle EXCEPT !.job = "call"]
<1>1. app' = app /\ disk' = disk /\ task'[k] = Sends(q, "api", app.access) /\ Aside(k)
  <2>1. Goes(k, app, disk, Sends(q, "api", app.access))
    BY DEF Call
  <2> QED
    BY <2>1, GoesAside DEF IInv
<1>2. Called(q) /\ q.job = "call" /\ q.stage = 0 /\ q.flagged = FALSE
  BY DEF Called, Idle
<1> HIDE DEF q
<1>3. Grows /\ past'.left = past.left
  BY DEF Call, Grows, IInv, Shape, Causes
<1>4. app.access \in Issued /\ Serves(k, q)
  BY <1>2 DEF Serves, IInv, Tokens
<1>5. Onward(k) /\ task'[k].flagged = FALSE
  BY <1>1, <1>2, <1>4, ToApi, SendsFields
<1>6. ~task[k].flagged /\ ~Renews(task[k]) /\ ~Replaced(task[k], app.refresh)
  BY DEF Call, Begins, IInv, Calls, Meant, Renews, Replaced, Asking
<1>7. Flags(k)
  BY <1>1, <1>5, <1>6 DEF Flags
<1>8. ~past'.left /\ disk'.session \in BOOLEAN
  BY <1>1, <1>3 DEF Call, IInv, Left, Shape
<1> QED
  BY <1>1, <1>3, <1>5, <1>6, <1>7, <1>8, Stays DEF Call, Begins

LEMMA LoginInv ==
  ASSUME IInv, NEW k \in Tasks, Login(k)
  PROVE  IInv'
<1> DEFINE q == [Idle EXCEPT !.job = "login"]
<1>1. app' = app /\ disk' = disk /\ task'[k] = Sends(q, "login", NoToken) /\ Aside(k)
  <2>1. Goes(k, app, disk, Sends(q, "login", NoToken))
    BY DEF Login
  <2> QED
    BY <2>1, GoesAside DEF IInv
<1>2. Called(q) /\ q.job = "login" /\ q.stage = 0 /\ q.flagged = FALSE
  BY DEF Called, Idle
<1> HIDE DEF q
<1>3. Grows /\ ~past'.left
  BY DEF Login, Grows, IInv, Shape, Causes
<1>4. /\ Called(task'[k]) /\ task'[k].at = "wait" /\ task'[k].asks = "login"
      /\ task'[k].with = NoToken /\ task'[k].answer = "none" /\ task'[k].new = NoToken
      /\ task'[k].job = "login" /\ task'[k].flagged = FALSE /\ task'[k].stage = 0
  BY <1>1, <1>2, SendsFields
<1>5. Onward(k)
  BY <1>3, <1>4 DEF Onward, Meant, Asking, LoggingOut, Renews, Holding, Sent, Doomed, MayEnd, Issued
<1>6. ~task[k].flagged /\ ~Renews(task[k]) /\ ~Replaced(task[k], app.refresh)
  BY DEF Login, Begins, IInv, Calls, Meant, Renews, Replaced, Asking
<1>7. Flags(k)
  BY <1>1, <1>4, <1>6 DEF Flags
<1>8. disk'.session \in BOOLEAN
  BY <1>1 DEF IInv, Shape
<1> QED
  BY <1>1, <1>3, <1>5, <1>6, <1>7, <1>8, Stays DEF Login, Begins

LEMMA AloneFields ==
  ASSUME NEW q, Called(q), NEW alone
  PROVE  LET r == [q EXCEPT !.alone = alone] IN
         /\ Called(r) /\ r.alone = alone /\ r.at = q.at /\ r.job = q.job /\ r.asks = q.asks
         /\ r.with = q.with /\ r.new = q.new /\ r.answer = q.answer /\ r.flagged = q.flagged
         /\ r.stage = q.stage
BY DEF Called

(* AuthService.logout, for the user or for the app.                        *)
LEMMA LogsOutStep ==
  ASSUME IInv, NEW k \in Tasks, Grows, past'.left => past.left, app.on,
         \A o \in Tasks \ {k} : task[o].job # "start",
         NEW q, LogsOut(k, app, q),
         Called(q), q.job \in {"call", "start", "logout"},
         q.flagged <=> q.job # "logout", q.stage \in 0 .. 3,
         q.stage # 0 <=> q.job = "start",
         q.job = "start" => /\ \A o \in Tasks \ {k} : task[o].at = "idle"
                            /\ app.refresh = disk.refresh,
         {q.with, q.new} \subseteq Issued, q.alone => Quiet(k), q.flagged <=> task[k].flagged,
         app.refresh \in Causes' \cup {NoToken},
         Renews(task[k]) => task[k].new \in past'.lost
  PROVE  IInv'
<1>1. CASE app.refresh # NoToken
  <2>1. app' = app /\ disk' = disk /\ task'[k] = Sends(q, "logout", app.refresh) /\ Aside(k)
    <3>1. Goes(k, app, disk, Sends(q, "logout", app.refresh))
      BY <1>1 DEF LogsOut, Revokes
    <3> QED
      BY <3>1, GoesAside DEF IInv
  <2>2. app.refresh \in Issued \ {NoToken}
    BY <1>1 DEF IInv, Tokens
  <2>3. Onward(k)
    BY <1>1, <2>1, <2>2, ToLogout
  <2>4. Flags(k)
    BY <2>1, SendsFields DEF Flags
  <2>5. ~past'.left /\ disk'.session \in BOOLEAN
    BY <1>1, <2>1 DEF IInv, Left, Emptied, Shape
  <2> QED
    BY <1>1, <2>1, <2>3, <2>4, <2>5, Stays
<1>2. CASE app.refresh = NoToken
  <2>1. Clears(k, app, q)
    BY <1>2 DEF LogsOut, Revokes
  <2> QED
    BY <1>2, <2>1, Cleared
<1> QED
  BY <1>1, <1>2

LEMMA LogoutInv ==
  ASSUME IInv, NEW k \in Tasks, Logout(k)
  PROVE  IInv'
<1> DEFINE p == [Idle EXCEPT !.job = "logout"]
           q == [p EXCEPT !.alone = Undisturbed(k)]
<1>1. LogsOut(k, app, q)
  <2>1. q = [Idle EXCEPT !.job = "logout", !.alone = Undisturbed(k)]
    BY DEF Idle
  <2> QED
    BY <2>1 DEF Logout
<1>2. /\ Called(p) /\ p.job = "logout" /\ p.stage = 0 /\ p.flagged = FALSE /\ p.with = NoToken
      /\ p.new = NoToken
  BY DEF Called, Idle
<1>3. /\ Called(q) /\ q.job = "logout" /\ q.stage = 0 /\ q.flagged = FALSE /\ q.with = NoToken
      /\ q.new = NoToken /\ q.alone = Undisturbed(k)
  <2> HIDE DEF p
  <2> QED
    BY <1>2, AloneFields
<1> HIDE DEF q
<1>4. Grows /\ past'.left = past.left /\ app.refresh \in Causes'
  BY DEF Logout, Grows, IInv, Shape, Causes
<1>5. q.alone => Quiet(k)
  BY <1>3 DEF Undisturbed, Quiet
<1>6. ~task[k].flagged /\ ~Renews(task[k])
  BY DEF Logout, Begins, IInv, Calls, Meant, Renews
<1>7. app.on /\ \A o \in Tasks \ {k} : task[o].job # "start"
  BY DEF Logout, Begins
<1>8. {q.with, q.new} \subseteq Issued
  BY <1>3 DEF Issued
<1> QED
  BY <1>1, <1>3, <1>4, <1>5, <1>6, <1>7, <1>8, LogsOutStep

(* The facts about a call that is under way which its steps go by.         *)
LEMMA UnderWay ==
  ASSUME IInv, NEW k \in Tasks, task[k].at # "idle"
  PROVE  /\ app.on /\ Shape /\ Called(task[k]) /\ Meant(task[k]) /\ Sent(task[k]) /\ Renewed(k)
         /\ \A o \in Tasks \ {k} : task[o].job # "start"
         /\ task[k].job = "start" => /\ \A o \in Tasks \ {k} : task[o].at = "idle"
                                     /\ task[k].at = "wait" => app.refresh = disk.refresh
         /\ {task[k].with, task[k].new} \subseteq Issued
         /\ task[k].flagged => app.refreshing
         /\ past.left => Emptied /\ disk.refresh = NoToken /\ ~disk.session /\ Quiet(k)
<1>1. past.left => Emptied /\ disk.refresh = NoToken /\ ~disk.session /\ Quiet(k)
  BY DEF IInv, Left, Quiet
<1>2. Called(task[k]) /\ Meant(task[k]) /\ Sent(task[k]) /\ Renewed(k) /\ (task[k].flagged => app.refreshing)
  BY DEF IInv, Shape, Calls, Flagged
<1> QED
  BY <1>1, <1>2, Acting DEF IInv, Tokens, Starts

(* The token in memory is the one a refresh was sent with, or there is     *)
(* cause to give it up.                                                    *)
LEMMA SentIsHeld ==
  ASSUME IInv, NEW k \in Tasks, Asking(task[k], "refresh")
  PROVE  app.refresh \in {task[k].with, NoToken} \cup Causes
BY DEF IInv, Ending, Doomed, MayEnd, Calls, Meant, Asking

(* A task ends, and the tokens stay; the user may be signed out.           *)
LEMMA EndsAsIs ==
  ASSUME IInv, NEW k \in Tasks, task[k].at # "idle", Grows, past'.left => past.left,
         ~task[k].flagged, Renews(task[k]) => task[k].new \in past'.lost,
         Replaced(task[k], app.refresh) => app.refresh \in Causes',
         NEW d \in {disk, SignedOut(disk)}, Goes(k, app, d, Idle)
  PROVE  IInv'
<1>1. app' = app /\ disk' = d /\ task'[k] = Idle /\ Aside(k)
  BY GoesAside DEF IInv
<1>2. /\ DOMAIN disk' = DOMAIN disk /\ disk'.session \in BOOLEAN /\ (disk'.session => disk.session)
      /\ disk'.access = disk.access /\ disk'.refresh = disk.refresh
  BY <1>1, SignedOutFields DEF IInv, Shape
<1>3. Idle.flagged = FALSE
  BY DEF Idle
<1>4. Onward(k) /\ Flags(k)
  BY <1>1, <1>3, ToIdle DEF Flags
<1> QED
  BY <1>1, <1>2, <1>4, UnderWay, Stays

LEMMA AbandonInv ==
  ASSUME IInv, NEW k \in Tasks, Abandon(k)
  PROVE  IInv'
<1> DEFINE q == task[k]
<1>1. q.at = "wait" /\ q.at # "idle" /\ UNCHANGED server
  BY DEF Abandon, Unanswered
<1>2. /\ Called(q) /\ Meant(q) /\ Sent(q) /\ app.on
      /\ \A o \in Tasks \ {k} : task[o].job # "start"
      /\ q.job = "start" => /\ \A o \in Tasks \ {k} : task[o].at = "idle"
                            /\ app.refresh = disk.refresh
      /\ {q.with, q.new} \subseteq Issued
      /\ past.left => Emptied /\ disk.refresh = NoToken /\ ~disk.session /\ Quiet(k)
  BY <1>1, UnderWay
<1>3. /\ DOMAIN past' = DOMAIN past /\ past'.left = past.left
      /\ past'.lost = past.lost \cup {q.new}
                        \cup (IF q.asks = "logout" THEN {q.with, app.refresh} ELSE {})
      /\ Causes \subseteq Causes' /\ (q.asks = "refresh" => q.with \in Causes')
  BY DEF Abandon, Unanswered, IInv, Shape, Causes
<1>4. ASSUME NEW m \in late', m \notin late
      PROVE  /\ m.with \in Issued
             /\ m.asks = "login" \/ (m.asks \in {"refresh", "logout"} /\ m.with \in Causes')
  <2>1. m = [asks |-> q.asks, with |-> q.with] /\ q.asks # "api"
    BY <1>4 DEF Abandon, Unanswered, Adrift
  <2>2. m.asks = q.asks /\ m.with = q.with
    BY <2>1
  <2> QED
    BY <1>1, <1>2, <1>3, <2>1, <2>2 DEF Meant, Sent, Asking
<1>5. Grows
  BY <1>1, <1>3, <1>4 DEF Grows, IInv, Shape, Causes
<1>6. q.asks \in {"api", "refresh", "login", "logout"} /\ q.stage \in 0 .. 3
      /\ (q.stage # 0 <=> q.job = "start")
  BY <1>1, <1>2 DEF Meant
<1>7. CASE q.asks = "api" /\ Returns(k, app, disk, FALSE)
  <2>1. Asking(task[k], "api") /\ task[k].job # "logout" /\ disk.session \in BOOLEAN
    BY <1>1, <1>2, <1>7 DEF Asking, Meant, LoggingOut, IInv, Shape
  <2> QED
    BY <1>2, <1>3, <1>5, <1>7, <2>1, Returned
<1>8. CASE /\ q.asks = "refresh" /\ q.flagged
           /\ LogsOut(k, app, [q EXCEPT !.alone = Undisturbed(k)])
  <2> DEFINE r == [q EXCEPT !.alone = Undisturbed(k)]
  <2>1. /\ Called(r) /\ r.alone = Undisturbed(k) /\ r.job = q.job /\ r.with = q.with
        /\ r.new = q.new /\ r.flagged = q.flagged /\ r.stage = q.stage
    BY <1>2, AloneFields
  <2>2. r.alone => Quiet(k)
    BY <2>1 DEF Undisturbed, Quiet
  <2>3. r.job \in {"call", "start", "logout"} /\ (r.flagged <=> r.job # "logout")
    BY <1>1, <1>2, <1>8, <2>1 DEF Meant, Asking
  <2>4. LogsOut(k, app, r)
    BY <1>8
  <2> HIDE DEF r
  <2>5. app.refresh \in Causes' \cup {NoToken}
    BY <1>1, <1>3, <1>8, SentIsHeld DEF Asking
  <2> QED
    BY <1>2, <1>3, <1>5, <1>6, <1>8, <2>1, <2>2, <2>3, <2>4, <2>5, LogsOutStep
<1>9. CASE \/ q.asks = "refresh" /\ ~q.flagged /\ Goes(k, app, SignedOut(disk), Idle)
           \/ q.asks = "login" /\ Goes(k, app, disk, Idle)
  <2>1. ~q.flagged
    BY <1>1, <1>2, <1>9 DEF Meant, Asking
  <2> QED
    BY <1>1, <1>3, <1>5, <1>9, <2>1, EndsAsIs DEF Replaced, Asking
<1>10. CASE q.asks = "logout" /\ Clears(k, app, q)
  <2>1. q.job \in {"call", "start", "logout"} /\ (q.flagged <=> q.job # "logout")
    BY <1>1, <1>2, <1>10 DEF Meant, LoggingOut, Asking
  <2>2. q.alone => Quiet(k)
    BY <1>1, <1>10 DEF IInv, Logouts, LoggingOut, Asking
  <2> QED
    BY <1>2, <1>3, <1>5, <1>6, <1>10, <2>1, <2>2, Cleared
<1> QED
  BY <1>7, <1>8, <1>9, <1>10 DEF Abandon, Unanswered

LEMMA ReceiveApiInv ==
  ASSUME IInv, NEW k \in Tasks, ReceiveApi(k)
  PROVE  IInv'
<1> DEFINE q == task[k]
           r == [q EXCEPT !.flagged = TRUE]
           refused == [r EXCEPT !.alone = Undisturbed(k)]
           busy == [app EXCEPT !.refreshing = TRUE]
<1>1. Asking(q, "api") /\ q.at # "idle"
  BY DEF ReceiveApi, Asking
<1>2. /\ app.on /\ Shape /\ Called(q) /\ Meant(q)
      /\ \A o \in Tasks \ {k} : task[o].job # "start"
      /\ q.job = "start" => /\ \A o \in Tasks \ {k} : task[o].at = "idle"
                            /\ app.refresh = disk.refresh
      /\ {q.with, q.new} \subseteq Issued
      /\ past.left => Emptied /\ disk.refresh = NoToken /\ ~disk.session /\ Quiet(k)
  BY <1>1, UnderWay DEF Asking
<1>3. Grows /\ past'.left = past.left
  BY DEF ReceiveApi, Grows, IInv, Shape, Causes
<1>4. /\ q.job \in {"call", "start"} /\ q.stage \in 0 .. 3 /\ (q.stage # 0 <=> q.job = "start")
      /\ disk.session \in BOOLEAN
  BY <1>1, <1>2 DEF Meant, Asking, LoggingOut, Shape
<1>5. ~Renews(q) /\ ~Replaced(q, app.refresh)
  BY <1>1 DEF Renews, Replaced, Asking
<1>6. CASE Returns(k, app, disk, q.answer = "yes")
  BY <1>1, <1>2, <1>3, <1>4, <1>6, Returned
<1>7. /\ DOMAIN busy = DOMAIN app /\ busy.on = app.on /\ busy.access = app.access
      /\ busy.refresh = app.refresh /\ busy.refreshing = TRUE
  BY <1>2 DEF Shape
<1>8. /\ Called(refused) /\ refused.flagged = TRUE /\ refused.alone = Undisturbed(k)
      /\ refused.job = q.job /\ refused.stage = q.stage /\ refused.with = q.with
      /\ refused.new = q.new
  <2>1. /\ Called(r) /\ r.flagged = TRUE /\ r.job = q.job /\ r.stage = q.stage /\ r.with = q.with
        /\ r.new = q.new
    BY <1>2 DEF Called
  <2> HIDE DEF r
  <2> QED
    BY <2>1, AloneFields
<1>9. refused = [q EXCEPT !.flagged = TRUE, !.alone = Undisturbed(k)]
  BY <1>2 DEF Called
<1> HIDE DEF busy, refused
<1>10. CASE MayRefresh /\ app.refresh = NoToken /\ Clears(k, busy, refused)
  <2>1. refused.alone => Quiet(k)
    BY <1>8 DEF Undisturbed, Quiet
  <2> QED
    BY <1>2, <1>3, <1>4, <1>5, <1>7, <1>8, <1>10, <2>1, Cleared DEF MayRefresh
<1>11. CASE /\ ~q.flagged /\ MayRefresh /\ app.refresh # NoToken
            /\ Goes(k, busy, disk, Sends(refused, "refresh", app.refresh))
  <2>1. /\ app' = busy /\ disk' = disk /\ task'[k] = Sends(refused, "refresh", app.refresh)
        /\ Aside(k)
    BY <1>2, <1>11, GoesAside
  <2>2. Good(app.refresh)
    <3>1. \A o \in Tasks : ~task[o].flagged
      BY <1>11 DEF MayRefresh, IInv, Flagged
    <3>2. ASSUME NEW o \in Tasks, Replaced(task[o], app.refresh)
          PROVE  FALSE
      <4>1. Asking(task[o], "refresh") /\ Meant(task[o])
        BY <3>2 DEF Replaced, IInv, Calls
      <4>2. task[o].job = "start"
        BY <3>1, <4>1 DEF Meant
      <4> QED
        BY <1>1, <1>2, <4>1, <4>2 DEF Asking
    <3> QED
      BY <3>2 DEF IInv, Held
  <2>3. Serves(k, refused)
    BY <1>2, <1>4, <1>7, <1>8, <2>1 DEF Serves
  <2>4. app.refresh \in Issued \ {NoToken} /\ ~past'.left
    BY <1>2, <1>3, <1>11 DEF IInv, Tokens, Emptied
  <2>5. Onward(k)
    BY <1>3, <1>7, <1>8, <2>1, <2>2, <2>3, <2>4, ToRefresh
  <2>6. task'[k].flagged = TRUE
    BY <1>8, <2>1, SendsFields
  <2>7. Flags(k)
    BY <1>7, <1>11, <2>1, <2>6 DEF Flags, MayRefresh
  <2> QED
    BY <1>2, <1>3, <1>4, <1>5, <1>7, <2>1, <2>4, <2>5, <2>7, Stays
<1> QED
  BY <1>6, <1>9, <1>10, <1>11 DEF ReceiveApi, busy

(* New tokens take the place of the old, in memory.                        *)
LEMMA Kept ==
  ASSUME IInv, NEW k \in Tasks, Renews(task[k]), Grows, past'.left => past.left,
         Keeps(k, task[k].new),
         app.refresh \in past'.lost \cup {NoToken} \/ ~Open(app.refresh),
         \/ task[k].asks = "refresh" \/ task[k].new \in Causes'
         \/ \A o \in Tasks : ~MayEnd(task[o])
  PROVE  IInv'
<1> DEFINE n == task[k].new
           b == [app EXCEPT !.access = n]
           c == [b EXCEPT !.refresh = n]
           d == [disk EXCEPT !.access = n]
           p == [task[k] EXCEPT !.at = "save"]
           r == [p EXCEPT !.new = NoToken]
<1>1. task[k].at # "idle" /\ Holding(task[k])
  BY DEF Renews, Holding
<1>2. /\ app.on /\ Shape /\ Called(task[k]) /\ Meant(task[k])
      /\ \A o \in Tasks \ {k} : task[o].job # "start"
      /\ task[k].job = "start" => \A o \in Tasks \ {k} : task[o].at = "idle"
      /\ {task[k].with, n} \subseteq Issued
  BY <1>1, UnderWay
<1>3. app' = c /\ disk' = d /\ task'[k] = r /\ Aside(k)
  <2>1. c = [app EXCEPT !.access = n, !.refresh = n]
    BY <1>2 DEF Shape
  <2>2. r = [task[k] EXCEPT !.at = "save", !.new = NoToken]
    BY <1>2 DEF Called
  <2>3. Goes(k, c, d, r)
    BY <2>1, <2>2 DEF Keeps
  <2> QED
    BY <1>2, <2>3, GoesAside
<1>4. DOMAIN b = DOMAIN app /\ b.access = n /\ b.on = app.on /\ b.refreshing = app.refreshing
  BY <1>2 DEF Shape
<1>5. /\ DOMAIN c = DOMAIN app /\ c.access = n /\ c.refresh = n /\ c.on = app.on
      /\ c.refreshing = app.refreshing
  <2> HIDE DEF b
  <2> QED BY <1>2, <1>4 DEF Shape
<1>6. /\ DOMAIN d = DOMAIN disk /\ d.access = n /\ d.refresh = disk.refresh
      /\ d.session = disk.session
  BY <1>2 DEF Shape
<1>7. /\ Called(p) /\ p.at = "save" /\ p.job = task[k].job /\ p.with = task[k].with
      /\ p.flagged = task[k].flagged /\ p.stage = task[k].stage
  BY <1>2 DEF Called
<1>8. /\ Called(r) /\ r.at = "save" /\ r.job = task[k].job /\ r.with = task[k].with
      /\ r.flagged = task[k].flagged /\ r.stage = task[k].stage /\ r.new = NoToken
  <2> HIDE DEF p
  <2> QED BY <1>7 DEF Called
<1> HIDE DEF b, c, d, p, r
<1>9. Meant(r)
  BY <1>2, <1>8 DEF Meant, LoggingOut, Asking, Renews
<1>10. Formed(k)
  BY <1>2, <1>3, <1>5, <1>6, <1>8, <1>9 DEF Formed, Renews, IInv, Shape, Tokens, Issued
<1>11. Flags(k) /\ app'.on
  BY <1>2, <1>3, <1>5, <1>8 DEF Flags
<1>12. task'[k].job = "start" => Alone(k)
  <2>1. n # NoToken
    BY UnderWay, <1>1 DEF Renewed
  <2> QED
    BY <1>2, <1>3, <1>5, <1>6, <1>8, <2>1 DEF Alone, Asking
<1>13. /\ Sent(task[k])' /\ Doomed(task[k])'
       /\ Asking(task'[k], "refresh") => task'[k].with = app.refresh
  BY <1>3, <1>8 DEF Sent, Doomed, MayEnd, Asking
<1>14. Refreshed(k) /\ Loses(k)
  BY <1>3, <1>5 DEF Refreshed, Loses
<1>15. Empties(k)
  BY <1>1, <1>3, <1>8 DEF Empties, LoggingOut, Asking, IInv, Left
<1> QED
  BY <1>2, <1>3, <1>10, <1>11, <1>12, <1>13, <1>14, <1>15, Step

LEMMA ReceiveRefreshInv ==
  ASSUME IInv, NEW k \in Tasks, ReceiveRefresh(k)
  PROVE  IInv'
<1> DEFINE q == task[k]
<1>1. Asking(q, "refresh") /\ q.at # "idle" /\ q.answer # "none" /\ UNCHANGED <<server, late>>
  BY DEF ReceiveRefresh, Asking
<1>2. /\ app.on /\ Shape /\ Called(q) /\ Meant(q) /\ Sent(q)
      /\ \A o \in Tasks \ {k} : task[o].job # "start"
      /\ q.job = "start" => /\ \A o \in Tasks \ {k} : task[o].at = "idle"
                            /\ app.refresh = disk.refresh
      /\ {q.with, q.new} \subseteq Issued
  BY <1>1, UnderWay DEF Asking
<1>3. CASE /\ q.answer = "yes" /\ Keeps(k, q.new)
           /\ past' = [past EXCEPT !.lost = @ \cup ({app.refresh} \ {q.with})]
  <2>1. /\ Grows /\ past'.left = past.left
        /\ past'.lost = past.lost \cup ({app.refresh} \ {q.with})
    BY <1>1, <1>2, <1>3 DEF Grows, IInv, Shape, Causes
  <2>2. Renews(q) /\ ~Open(q.with)
    BY <1>1, <1>2, <1>3 DEF Renews, Sent, Asking
  <2>3. (app.refresh \in past'.lost \/ ~Open(app.refresh)) /\ q.asks = "refresh"
    BY <1>1, <2>1, <2>2 DEF Asking
  <2> QED
    BY <1>3, <2>1, <2>2, <2>3, Kept
<1>4. q.answer # "yes" => q.answer = "no" /\ q.with \in Causes
  BY <1>1, <1>2 DEF Meant, Sent, Asking
<1>5. CASE /\ q.answer # "yes" /\ q.flagged
           /\ LogsOut(k, app, [q EXCEPT !.alone = Undisturbed(k)]) /\ past' = past
  <2> DEFINE r == [q EXCEPT !.alone = Undisturbed(k)]
  <2>1. /\ Called(r) /\ r.alone = Undisturbed(k) /\ r.job = q.job /\ r.with = q.with
        /\ r.new = q.new /\ r.flagged = q.flagged /\ r.stage = q.stage
    BY <1>2, AloneFields
  <2>2. r.alone => Quiet(k)
    BY <2>1 DEF Undisturbed, Quiet
  <2>3. /\ r.job \in {"call", "start", "logout"} /\ (r.flagged <=> r.job # "logout")
        /\ r.stage \in 0 .. 3 /\ (r.stage # 0 <=> r.job = "start")
    BY <1>1, <1>2, <1>5, <2>1 DEF Meant, Asking
  <2>4. LogsOut(k, app, r)
    BY <1>5
  <2> HIDE DEF r
  <2>5. Grows /\ past'.left = past.left
    BY <1>1, <1>5 DEF Grows, IInv, Shape, Causes
  <2>6. app.refresh \in Causes' \cup {NoToken}
    BY <1>1, <1>4, <1>5, <2>5, SentIsHeld DEF Grows
  <2>7. ~Renews(q)
    BY <1>5 DEF Renews
  <2> QED
    BY <1>2, <2>1, <2>2, <2>3, <2>4, <2>5, <2>6, <2>7, LogsOutStep
<1>6. CASE q.answer # "yes" /\ ~q.flagged /\ Goes(k, app, SignedOut(disk), Idle) /\ past' = past
  <2>1. Grows /\ past'.left = past.left
    BY <1>1, <1>6 DEF Grows, IInv, Shape, Causes
  <2>2. ~Renews(q) /\ ~Replaced(q, app.refresh)
    BY <1>6 DEF Renews, Replaced
  <2> QED
    BY <1>1, <1>6, <2>1, <2>2, EndsAsIs
<1> QED
  BY <1>3, <1>5, <1>6 DEF ReceiveRefresh

LEMMA ReceiveLoginInv ==
  ASSUME IInv, NEW k \in Tasks, ReceiveLogin(k)
  PROVE  IInv'
<1> DEFINE q == task[k]
<1>1. Asking(q, "login") /\ q.at # "idle" /\ q.answer # "none" /\ UNCHANGED <<server, late>>
  BY DEF ReceiveLogin, Asking
<1>2. Shape /\ Meant(q)
  BY <1>1, UnderWay
<1>3. CASE /\ q.answer = "yes" /\ Keeps(k, q.new)
           /\ past' = [past EXCEPT !.lost = @ \cup {app.refresh, disk.refresh},
                   !.overtaken = IF \E o \in Tasks : MayEnd(task[o]) THEN @ \cup {q.new} ELSE @]
  <2>1. /\ Grows /\ past'.left = past.left /\ app.refresh \in past'.lost
        /\ q.new \in Causes' \/ \A o \in Tasks : ~MayEnd(task[o])
    BY <1>1, <1>2, <1>3 DEF Grows, IInv, Shape, Causes
  <2>2. Renews(q)
    BY <1>1, <1>3 DEF Renews, Asking
  <2> QED
    BY <1>3, <2>1, <2>2, Kept
<1>4. CASE q.answer # "yes" /\ Goes(k, app, disk, Idle) /\ past' = past
  <2>1. Grows /\ past'.left = past.left
    BY <1>1, <1>4 DEF Grows, IInv, Shape, Causes
  <2>2. ~q.flagged /\ ~Renews(q) /\ ~Replaced(q, app.refresh)
    BY <1>1, <1>2, <1>4 DEF Renews, Replaced, Meant
  <2> QED
    BY <1>1, <1>4, <2>1, <2>2, EndsAsIs
<1> QED
  BY <1>3, <1>4 DEF ReceiveLogin

LEMMA ReceiveLogoutInv ==
  ASSUME IInv, NEW k \in Tasks, ReceiveLogout(k)
  PROVE  IInv'
<1> DEFINE q == task[k]
<1>1. /\ Asking(q, "logout") /\ q.at # "idle" /\ q.answer # "none" /\ UNCHANGED <<server, late>>
      /\ Clears(k, app, q)
  BY DEF ReceiveLogout, Asking
<1>2. /\ app.on /\ Shape /\ Called(q) /\ Meant(q) /\ Sent(q)
      /\ \A o \in Tasks \ {k} : task[o].job # "start"
      /\ q.job = "start" => \A o \in Tasks \ {k} : task[o].at = "idle"
      /\ {q.with, q.new} \subseteq Issued
  BY <1>1, UnderWay
<1>3. /\ Grows /\ past'.left = past.left
      /\ past'.lost = past.lost \cup (IF q.answer = "yes" THEN {app.refresh} \ {q.with}
                                       ELSE {app.refresh, q.with})
  BY <1>1, <1>2 DEF ReceiveLogout, Grows, IInv, Shape, Causes
<1>4. app.refresh \in past'.lost \/ ~Open(app.refresh)
  BY <1>1, <1>2, <1>3 DEF Sent
<1>5. /\ q.job \in {"call", "start", "logout"} /\ (q.flagged <=> q.job # "logout")
      /\ q.stage \in 0 .. 3 /\ (q.stage # 0 <=> q.job = "start")
  BY <1>1, <1>2 DEF Meant, LoggingOut, Asking
<1>6. q.alone => Quiet(k)
  BY <1>1 DEF IInv, Logouts, LoggingOut
<1>7. ~Renews(q)
  BY <1>1 DEF Renews, Asking
<1> QED
  BY <1>1, <1>2, <1>3, <1>4, <1>5, <1>6, <1>7, Cleared

LEMMA SaveInv ==
  ASSUME IInv, NEW k \in Tasks, Save(k)
  PROVE  IInv'
<1> DEFINE q == task[k]
           saved == [disk EXCEPT !.refresh = app.refresh]
<1>1. /\ q.at = "save" /\ q.at # "idle" /\ Holding(q) /\ UNCHANGED <<server, late>>
      /\ past' = past
  BY DEF Save, Holding
<1>2. /\ app.on /\ Shape /\ Called(q) /\ Meant(q)
      /\ \A o \in Tasks \ {k} : task[o].job # "start"
      /\ q.job = "start" => \A o \in Tasks \ {k} : task[o].at = "idle"
      /\ {q.with, q.new} \subseteq Issued
  BY <1>1, UnderWay
<1>3. Grows /\ ~past'.left
  BY <1>1, <1>2 DEF Grows, IInv, Shape, Causes, Left
<1>4. ~Renews(q) /\ ~Replaced(q, app.refresh)
  BY <1>1 DEF Renews, Replaced, Asking
<1>5. /\ DOMAIN saved = DOMAIN disk /\ saved.access = disk.access /\ saved.refresh = app.refresh
      /\ saved.session = disk.session /\ disk.session \in BOOLEAN
  BY <1>2 DEF Shape
<1>6. /\ q.job \in {"call", "start", "login"} /\ q.stage \in 0 .. 3
      /\ q.stage # 0 <=> q.job = "start"
      /\ q.job = "login" => ~q.flagged
      /\ q.job # "login" /\ ~q.flagged => q.stage = 2
  BY <1>1, <1>2 DEF Meant, LoggingOut, Asking
<1> HIDE DEF saved
<1>7. ASSUME q.job = "login", NEW d \in {disk, saved},
             Goes(k, app, [d EXCEPT !.session = TRUE], Idle)
      PROVE  IInv'
  <2> DEFINE e == [d EXCEPT !.session = TRUE]
  <2>1. app' = app /\ disk' = e /\ task'[k] = Idle /\ Aside(k)
    BY <1>2, <1>7, GoesAside
  <2>2. /\ DOMAIN e = DOMAIN disk /\ e.access = disk.access /\ e.session = TRUE
        /\ e.refresh \in {disk.refresh, app.refresh}
    BY <1>2, <1>5, <1>7 DEF Shape
  <2> HIDE DEF e
  <2>3. Idle.flagged = FALSE
    BY DEF Idle
  <2>4. Onward(k) /\ Flags(k)
    BY <1>6, <1>7, <2>1, <2>3, ToIdle DEF Flags
  <2> QED
    BY <1>2, <1>3, <1>4, <2>1, <2>2, <2>4, Stays
<1>8. CASE /\ q.job # "login" /\ app.refresh = NoToken /\ q.flagged
           /\ Clears(k, app, [q EXCEPT !.alone = Undisturbed(k)])
  <2> DEFINE r == [q EXCEPT !.alone = Undisturbed(k)]
  <2>1. /\ Called(r) /\ r.alone = Undisturbed(k) /\ r.job = q.job /\ r.with = q.with
        /\ r.new = q.new /\ r.flagged = q.flagged /\ r.stage = q.stage
    BY <1>2, AloneFields
  <2>2. r.alone => Quiet(k)
    BY <2>1 DEF Undisturbed, Quiet
  <2>3. r.job \in {"call", "start", "logout"} /\ (r.flagged <=> r.job # "logout")
    BY <1>6, <1>8, <2>1
  <2>4. Clears(k, app, r)
    BY <1>8
  <2> HIDE DEF r
  <2> QED
    BY <1>2, <1>3, <1>4, <1>6, <1>8, <2>1, <2>2, <2>3, <2>4, Cleared
<1>9. CASE /\ q.job # "login" /\ app.refresh = NoToken /\ ~q.flagged
           /\ Goes(k, app, SignedOut(disk), Idle)
  BY <1>1, <1>3, <1>4, <1>9, EndsAsIs
<1>10. CASE /\ q.job # "login" /\ app.refresh # NoToken /\ q.flagged
            /\ Goes(k, app, saved, Sends(q, "api", app.access))
  <2>1. app' = app /\ disk' = saved /\ task'[k] = Sends(q, "api", app.access) /\ Aside(k)
    BY <1>2, <1>10, GoesAside
  <2>2. Serves(k, q)
    BY <1>2, <1>5, <1>6, <1>10, <2>1 DEF Serves
  <2>3. app.access \in Issued /\ (q.job = "start" => app.access = disk'.access)
    BY <1>1, <1>5, <2>1 DEF IInv, Tokens, Starts
  <2>4. Onward(k)
    BY <2>1, <2>2, <2>3, ToApi
  <2>5. Flags(k)
    BY <1>2, <2>1, SendsFields DEF Flags
  <2> QED
    BY <1>2, <1>3, <1>4, <1>5, <2>1, <2>4, <2>5, Stays
<1>11. CASE /\ q.job # "login" /\ app.refresh # NoToken /\ ~q.flagged
            /\ Valid(k, app, saved, q)
  <2>1. q.stage = 2
    BY <1>6, <1>11
  <2>2. Resumes(k, app, saved, q)
    BY <1>2, <1>11, <2>1, ValidResumes
  <2> QED
    BY <1>2, <1>3, <1>4, <1>5, <1>6, <1>11, <2>1, <2>2, Resumed
<1> QED
  <2>1. CASE q.job = "login"
    <3>1. PICK d \in {disk, saved} : Goes(k, app, [d EXCEPT !.session = TRUE], Idle)
      BY <2>1 DEF Save, saved
    <3> QED
      BY <1>7, <2>1, <3>1
  <2>2. CASE q.job # "login"
    BY <1>8, <1>9, <1>10, <1>11, <2>2 DEF Save, saved
  <2> QED
    BY <2>1, <2>2

LEMMA WipeInv ==
  ASSUME IInv, NEW k \in Tasks, Wipe(k)
  PROVE  IInv'
<1> DEFINE q == task[k]
           d == Wiped(disk)
<1>1. q.at = "wipe" /\ q.at # "idle" /\ UNCHANGED <<server, late>>
  BY DEF Wipe
<1>2. /\ app.on /\ Shape /\ Called(q) /\ Meant(q)
      /\ \A o \in Tasks \ {k} : task[o].job # "start"
  BY <1>1, UnderWay
<1>3. Grows /\ (past'.left => q.alone)
  BY <1>1, <1>2 DEF Wipe, Grows, IInv, Shape, Causes
<1>4. /\ DOMAIN d = DOMAIN disk /\ d.access = disk.access /\ d.refresh = NoToken
      /\ d.session = FALSE
  <2>1. /\ DOMAIN SignedOut(disk) = DOMAIN disk /\ SignedOut(disk).access = disk.access
        /\ SignedOut(disk).session = FALSE
    BY <1>2, SignedOutFields
  <2> QED
    BY <1>2, <2>1 DEF Wiped, Shape
<1> HIDE DEF d
<1>5. past'.left => Emptied /\ d.refresh = NoToken /\ ~d.session /\ Quiet(k)
  BY <1>1, <1>3, <1>4 DEF IInv, Logouts, LoggingOut
<1>6. CASE q.job = "logout" /\ Goes(k, app, d, Idle)
  <2>1. app' = app /\ disk' = d /\ task'[k] = Idle /\ Aside(k)
    BY <1>2, <1>6, GoesAside
  <2>2. Idle.flagged = FALSE
    BY DEF Idle
  <2>3. ~q.flagged /\ ~Renews(q) /\ ~Replaced(q, app.refresh)
    BY <1>1, <1>2, <1>6 DEF Meant, Renews, Replaced, Asking
  <2>4. Onward(k) /\ Flags(k)
    BY <2>1, <2>2, <2>3, ToIdle DEF Flags
  <2> QED
    BY <1>2, <1>3, <1>4, <1>5, <2>1, <2>3, <2>4, Stays
<1>7. CASE q.job # "logout" /\ Returns(k, app, d, FALSE)
  <2>1. q.job = "start" => d.refresh = app.refresh
    BY <1>1, <1>4 DEF IInv, Starts
  <2> QED
    BY <1>1, <1>3, <1>4, <1>5, <1>7, <2>1, Returned
<1> QED
  BY <1>6, <1>7 DEF Wipe, d

LEMMA LaunchInv ==
  ASSUME IInv, NEW k \in Tasks, Launch(k)
  PROVE  IInv'
<1> DEFINE a == [Off EXCEPT !.on = TRUE, !.access = disk.access, !.refresh = disk.refresh]
           q == [Idle EXCEPT !.job = "start"]
<1>1. /\ ~app.on /\ (\A o \in Tasks : task[o].at = "idle") /\ app.access = NoToken
      /\ app.refresh = NoToken /\ ~app.refreshing /\ Shape
  BY DEF Launch, IInv, OffIsOff
<1>2. Grows /\ past' = past
  BY DEF Launch, Grows, IInv, Shape, Causes
<1>3. \A o \in Tasks : task[o].job = "none" /\ ~task[o].flagged
  BY <1>1 DEF IInv, Calls, Meant
<1>4. /\ DOMAIN a = DOMAIN app /\ a.on = TRUE /\ a.access = disk.access
      /\ a.refresh = disk.refresh /\ a.refreshing = FALSE
  BY <1>1 DEF Off, Shape
<1>5. Called(q) /\ q.job = "start" /\ q.flagged = FALSE
  BY DEF Idle, Called
<1> HIDE DEF a, q
<1>6. /\ Aside(k) /\ app' \in {a, Loaded(a, disk)} /\ disk' \in {disk, SignedOut(disk)}
      /\ \/ task'[k] = Idle
         \/ \E stage \in {1, 2} : task'[k] = AsksMe(q, stage, app')
  <2>1. CASE Ensure(k, a, disk, q)
    BY <1>1, <2>1, EnsureEnds
  <2>2. CASE Goes(k, a, disk, AsksMe(q, 1, a))
    <3>1. app' = a /\ disk' = disk /\ task'[k] = AsksMe(q, 1, a) /\ Aside(k)
      BY <1>1, <2>2, GoesAside
    <3> QED
      BY <3>1
  <2> QED
    BY <2>1, <2>2 DEF Launch, a, q
<1>7. /\ DOMAIN app' = DOMAIN app /\ app'.on = TRUE /\ app'.access = disk.access
      /\ app'.refresh = disk.refresh /\ app'.refreshing = FALSE
  BY <1>1, <1>4, <1>6, LoadedFields
<1>8. /\ DOMAIN disk' = DOMAIN disk /\ disk'.access = disk.access /\ disk'.refresh = disk.refresh
      /\ disk'.session \in BOOLEAN /\ (disk'.session => disk.session)
  BY <1>1, <1>6, SignedOutFields DEF Shape
<1>9. Onward(k) /\ task'[k].flagged = FALSE
  <2>1. CASE task'[k] = Idle
    <3>1. Idle.flagged = FALSE
      BY DEF Idle
    <3> QED
      BY <2>1, <3>1, ToIdle
  <2>2. ASSUME NEW stage \in {1, 2}, task'[k] = AsksMe(q, stage, app')
        PROVE  Onward(k) /\ task'[k].flagged = FALSE
    <3> DEFINE r == [q EXCEPT !.stage = stage]
    <3>1. Called(r) /\ r.job = "start" /\ r.stage = stage /\ r.flagged = FALSE
      BY <1>5 DEF Called
    <3>2. task'[k] = Sends(r, "api", app'.access) /\ app'.access \in Issued
      BY <1>7, <2>2 DEF AsksMe, IInv, Tokens
    <3> HIDE DEF r
    <3>3. Serves(k, r) /\ app'.access = disk'.access
      BY <1>1, <1>7, <1>8, <2>2, <3>1 DEF Serves
    <3> QED
      BY <3>1, <3>2, <3>3, ToApi, SendsFields
  <2> QED
    BY <1>6, <2>1, <2>2
<1>10. Formed(k)
  BY <1>1, <1>7, <1>8, <1>9 DEF Formed, Onward, IInv, Shape, Tokens, Issued
<1>11. Flags(k)
  BY <1>1, <1>3, <1>7, <1>9 DEF Flags
<1>12. task'[k].job = "start" => Alone(k)
  BY <1>9 DEF Onward, Alone
<1>13. Sent(task[k])' /\ Doomed(task[k])' /\ (Asking(task'[k], "refresh") => task'[k].with = app.refresh)
  BY <1>9 DEF Onward
<1>14. Refreshed(k) /\ Loses(k)
  BY <1>1, <1>7 DEF Refreshed, Loses, Renews
<1>15. Empties(k)
  <2>1. past'.left => Emptied /\ disk.refresh = NoToken /\ ~disk.session /\ Quiet(k)
    BY <1>2 DEF IInv, Left, Quiet
  <2> QED
    BY <1>1, <1>7, <1>8, <1>9, <2>1 DEF Empties, Onward, Emptied
<1> QED
  BY <1>2, <1>3, <1>6, <1>7, <1>10, <1>11, <1>12, <1>13, <1>14, <1>15, Step

-----------------------------------------------------------------------------
(* Steps of the server, for request m and with new token n, if any         *)

Moves(m, n) ==
    /\ used \subseteq used' /\ used' \subseteq Token
    /\ current' \in [Token -> used' \cup {NoToken}]
    /\ \A s \in Token : current'[s] # NoToken => s \in used'
    /\ \A s, t \in Token : current'[s] = current'[t] /\ current'[s] # NoToken => s = t
    /\ \A s \in Token : \/ current'[s] \in {NoToken, current[s]}
                        \/ current'[s] = n /\ n # NoToken
    /\ \A s \in Token : \/ current[s] \in {NoToken, current'[s]}
                        \/ current[s] = m.with /\ m.asks \in {"refresh", "logout"}
    /\ n # NoToken => n \in used' \ used /\ \E s \in Token : current'[s] = n

LEMMA PerformsMoves ==
  ASSUME IInv, NEW m, NEW n, Performs(m, n)
  PROVE  /\ Moves(m, n)
         /\ (m.asks \in {"refresh", "login"} <=> n # NoToken)
         /\ n = NoToken => used' = used
         /\ m.asks = "api" => m.with # NoToken
         /\ m.asks \in {"refresh", "logout"} /\ m.with # NoToken =>
                \A s \in Token : current'[s] # m.with
<1>1. /\ NoToken \notin Token /\ Server!NoToken = NoToken
  BY BoundsAssumption DEF Token, NoToken, Server!NoToken
<1>2. /\ used \subseteq Token /\ current \in [Token -> used \cup {NoToken}]
      /\ \A s \in Token : current[s] # NoToken => s \in used
      /\ \A s, t \in Token : current[s] = current[t] /\ current[s] # NoToken => s = t
  BY DEF IInv, Tokens, Issued
<1>3. ASSUME m.asks = "refresh", n \in Token, NEW s \in SessionsOf(m.with),
             Server!Rotate(s, n, {})
      PROVE  /\ Moves(m, n) /\ n # NoToken
             /\ m.with # NoToken => \A t \in Token : current'[t] # m.with
  <2>1. s \in Token /\ current[s] = m.with /\ m.with # NoToken
    BY <1>3 DEF SessionsOf
  <2>2. /\ n \notin used /\ used' = used \cup {n}
        /\ current' = [t \in Token |-> IF t = s THEN n ELSE current[t]]
    BY <1>1, <1>2, <1>3, <2>1 DEF Server!Rotate, Server!Ended
  <2> QED
    BY <1>1, <1>2, <1>3, <2>1, <2>2 DEF Moves
<1>4. ASSUME m.asks = "login", n \in Token, Server!Open(n, {})
      PROVE  Moves(m, n) /\ n # NoToken
  <2>1. /\ n \notin used /\ used' = used \cup {n}
        /\ current' = [t \in Token |-> IF t = n THEN n ELSE current[t]]
    BY <1>1, <1>2, <1>4 DEF Server!Open, Server!Ended
  <2>2. current[n] = NoToken
    BY <1>2, <1>4, <2>1
  <2> QED
    BY <1>1, <1>2, <1>4, <2>1, <2>2 DEF Moves
<1>5. ASSUME m.asks = "logout", n = NoToken, Server!End(SessionsOf(m.with))
      PROVE  /\ Moves(m, n) /\ used' = used
             /\ m.with # NoToken => \A t \in Token : current'[t] # m.with
  <2>1. /\ used' = used
        /\ current' = [t \in Token |-> IF m.with # NoToken /\ current[t] = m.with THEN NoToken
                                       ELSE current[t]]
    BY <1>1, <1>5 DEF Server!End, Server!Ended, SessionsOf
  <2> QED
    BY <1>1, <1>2, <1>5, <2>1 DEF Moves
<1>6. ASSUME m.asks = "api", n = NoToken, m.with \in used, UNCHANGED <<current, used>>
      PROVE  Moves(m, n) /\ used' = used /\ m.with # NoToken
  BY <1>1, <1>2, <1>6 DEF Moves
<1> QED
  BY <1>1, <1>3, <1>4, <1>5, <1>6 DEF Performs

(* What is good stays so, but for the token that is replaced; and a token  *)
(* that was replaced or ended stays so.                                    *)
LEMMA MovesKeep ==
  ASSUME IInv, NEW m, NEW n, Moves(m, n), Causes \subseteq Causes'
  PROVE  /\ \A t : Good(t) /\ (t # m.with \/ t \in Causes' \/ m.asks \in {"login", "api"})
                     => Good(t)'
         /\ \A t : t \in Issued /\ t # NoToken /\ Open(t)' => Open(t)
         /\ Issued \subseteq Issued'
<1>1. ASSUME NEW t, Good(t), t # m.with \/ t \in Causes' \/ m.asks \in {"login", "api"}
      PROVE  Good(t)'
  <2>1. CASE t = NoToken \/ t \in Causes
    BY <2>1 DEF Good
  <2>2. CASE t \notin Causes' /\ t # NoToken /\ Open(t)
    BY <1>1, <2>2 DEF Good, Open, Moves
  <2> QED
    BY <1>1, <2>1, <2>2 DEF Good
<1>2. ASSUME NEW t, t \in Issued, t # NoToken, Open(t)'
      PROVE  Open(t)
  <2>1. PICK s \in Token : current'[s] = t
    BY <1>2 DEF Open
  <2>2. t \in used
    BY <1>2 DEF Issued
  <2> QED
    BY <1>2, <2>1, <2>2 DEF Open, Moves
<1> QED
  BY <1>1, <1>2 DEF Issued, Moves

(* One call at a time refreshes.                                           *)
LEMMA OneRefresh ==
  ASSUME IInv, NEW k \in Tasks, NEW o \in Tasks,
         Asking(task[k], "refresh"), Asking(task[o], "refresh")
  PROVE  k = o
<1>1. /\ task[k].flagged \/ task[k].job = "start"
      /\ task[o].flagged \/ task[o].job = "start"
  BY DEF IInv, Calls, Meant
<1> QED
  BY <1>1 DEF IInv, Flagged, Starts, Asking

(* Task k has its answer, with token n, and its request may be spoiled.    *)
Answered(k, yes, n) ==
    /\ task' = [task EXCEPT ![k].answer = yes, ![k].new = n]
    /\ UNCHANGED <<expired, app, disk, late>>
    /\ past' = past \/ past' = [past EXCEPT !.spoiled = @ \cup {task[k].with}]

LEMMA AnsweredFields ==
  ASSUME IInv, NEW k \in Tasks, NEW yes, NEW n, Answered(k, yes, n)
  PROVE  /\ task' = [o \in Tasks |-> task'[o]]
         /\ \A o \in Tasks \ {k} : task'[o] = task[o]
         /\ Called(task'[k]) /\ task'[k].answer = yes /\ task'[k].new = n
         /\ task'[k].job = task[k].job /\ task'[k].at = task[k].at /\ task'[k].asks = task[k].asks
         /\ task'[k].with = task[k].with /\ task'[k].flagged = task[k].flagged
         /\ task'[k].stage = task[k].stage /\ task'[k].alone = task[k].alone
         /\ DOMAIN past' = DOMAIN past /\ past'.lost = past.lost
         /\ past'.left = past.left /\ Causes \subseteq Causes'
<1> DEFINE a == [task[k] EXCEPT !.answer = yes]
           b == [a EXCEPT !.new = n]
<1>1. Shape
  BY DEF IInv
<1>2. task' = [o \in Tasks |-> IF o = k THEN b ELSE task[o]]
  BY <1>1 DEF Answered, Shape
<1>3. /\ Called(a) /\ a.answer = yes /\ a.job = task[k].job /\ a.at = task[k].at
      /\ a.asks = task[k].asks /\ a.with = task[k].with /\ a.flagged = task[k].flagged
      /\ a.stage = task[k].stage /\ a.alone = task[k].alone
  BY <1>1 DEF Shape, Called
<1>4. /\ Called(b) /\ b.answer = yes /\ b.new = n /\ b.job = task[k].job /\ b.at = task[k].at
      /\ b.asks = task[k].asks /\ b.with = task[k].with /\ b.flagged = task[k].flagged
      /\ b.stage = task[k].stage /\ b.alone = task[k].alone
  <2> HIDE DEF a
  <2> QED BY <1>3 DEF Called
<1> HIDE DEF b
<1>5. /\ DOMAIN past' = DOMAIN past /\ past'.lost = past.lost
      /\ past'.left = past.left /\ Causes \subseteq Causes'
  BY <1>1 DEF Answered, Shape, Causes
<1> QED
  BY <1>2, <1>4, <1>5

LEMMA AnsweredInv ==
  ASSUME IInv, NEW k \in Tasks, NEW yes \in {"yes", "no"}, NEW n, Answered(k, yes, n),
         task[k].at = "wait", task[k].answer = "none", Moves(task[k], n),
         yes = "yes" /\ task[k].asks \in {"refresh", "login"} <=> n # NoToken,
         yes = "yes" /\ task[k].asks = "api" => task[k].with # NoToken,
         /\ yes = "yes" /\ task[k].asks \in {"refresh", "logout"} /\ task[k].with # NoToken =>
                \A s \in Token : current'[s] # task[k].with
         /\ yes = "no" => current' = current
                          /\ (task[k].asks = "refresh" => task[k].with \in Causes')
  PROVE  IInv'
<1> DEFINE q == task[k]
<1>1. /\ task' = [o \in Tasks |-> task'[o]]
      /\ \A o \in Tasks \ {k} : task'[o] = task[o]
      /\ Called(task'[k]) /\ task'[k].answer = yes /\ task'[k].new = n
      /\ task'[k].job = q.job /\ task'[k].at = q.at /\ task'[k].asks = q.asks
      /\ task'[k].with = q.with /\ task'[k].flagged = q.flagged
      /\ task'[k].stage = q.stage /\ task'[k].alone = q.alone
  BY AnsweredFields
<1>2. /\ DOMAIN past' = DOMAIN past /\ past'.lost = past.lost
      /\ past'.left = past.left /\ Causes \subseteq Causes'
  BY AnsweredFields
<1>3. UNCHANGED <<expired, app, disk, late>>
  BY DEF Answered
<1>4. /\ app.on /\ Meant(q) /\ Sent(q) /\ Shape /\ {q.with, q.new} \subseteq Issued
      /\ ~Renews(q)
  BY UnderWay DEF Renews
<1>5. /\ \A t : Good(t) /\ (t # q.with \/ t \in Causes' \/ q.asks \in {"login", "api"})
                  => Good(t)'
      /\ \A t : t \in Issued /\ t # NoToken /\ Open(t)' => Open(t)
      /\ Issued \subseteq Issued'
  BY <1>2, MovesKeep
<1>6. n # NoToken => n \in used' \ used /\ n \notin Issued /\ \E s \in Token : current'[s] = n
  BY DEF Moves, Issued
<1>7. Shape'
  BY <1>1, <1>2, <1>3, <1>4 DEF Shape
<1>8. Tokens'
  <2>1. used' \subseteq Token /\ expired' \subseteq used'
    BY <1>3 DEF Moves, IInv, Tokens
  <2>2. {app.access, app.refresh, disk.access, disk.refresh}' \subseteq Issued'
    BY <1>3, <1>5 DEF IInv, Tokens
  <2>3. \A o \in Tasks : task'[o].with \in Issued' /\ task'[o].new \in Issued'
    BY <1>1, <1>4, <1>5, <1>6 DEF IInv, Tokens, Issued
  <2>4. \A m \in late' : m.with \in Issued'
    BY <1>3, <1>5 DEF IInv, Tokens
  <2> QED
    BY <2>1, <2>2, <2>3, <2>4 DEF Tokens, Moves, Issued
<1>9. Calls'
  <2>1. ASSUME NEW o \in Tasks \ {k}
        PROVE  Meant(task[o])' /\ Sent(task[o])' /\ Renewed(o)'
    <3>1. /\ Meant(task[o]) /\ Sent(task[o]) /\ Renewed(o) /\ task'[o] = task[o]
          /\ task[o].with \in Issued
      BY <1>1 DEF IInv, Calls, Tokens
    <3>2. Meant(task[o])'
      BY <3>1 DEF Meant, LoggingOut, Asking
    <3>3. Sent(task[o])'
      <4>1. CASE Asking(task[o], "refresh")
        <5>1. q.asks # "refresh"
          BY <4>1, OneRefresh DEF Asking
        <5>2. q.asks = "logout" => q.with \in Causes'
          BY <1>2, <1>4 DEF Sent, Asking
        <5>3. q.asks \in {"api", "login", "logout"}
          BY <1>4, <5>1 DEF Meant
        <5>4. task[o].answer = "none" => Good(task[o].with)'
          BY <1>5, <3>1, <4>1, <5>2, <5>3 DEF Sent, Good
        <5>5. task[o].answer = "yes" => ~Open(task[o].with)'
          BY <1>5, <3>1, <4>1 DEF Sent, Open
        <5> QED
          BY <1>2, <3>1, <4>1, <5>4, <5>5 DEF Sent, Asking, Good, Open
      <4>2. CASE Asking(task[o], "logout")
        <5>1. task[o].answer = "yes" => ~Open(task[o].with)'
          BY <1>5, <3>1, <4>2 DEF Sent, Open
        <5> QED
          BY <1>2, <3>1, <4>2, <5>1 DEF Sent, Asking, Open
      <4> QED
        BY <3>1, <4>1, <4>2 DEF Sent, Asking
    <3>4. Renewed(o)'
      <4> SUFFICES ASSUME Renews(task[o])
                   PROVE  /\ task[o].new \in used' /\ task[o].new # NoToken
                          /\ Good(task[o].new)' /\ task[o].new # app.refresh
                          /\ \A j \in Tasks : /\ Asking(task'[j], "refresh") => task'[j].with # task[o].new
                                              /\ j # o /\ Renews(task'[j]) => task'[j].new # task[o].new
        BY <1>3, <3>1 DEF Renewed, Renews, Asking, Good, Open
      <4>1. /\ task[o].new \in used /\ task[o].new # NoToken /\ Good(task[o].new)
            /\ task[o].new # app.refresh /\ task[o].new \in used'
        BY <3>1 DEF Renewed, Moves
      <4>2. Good(task[o].new)'
        <5>1. q.asks = "refresh" => task[o].new # q.with
          BY <3>1 DEF Renewed, Asking
        <5>2. q.asks = "logout" => q.with \in Causes'
          BY <1>2, <1>4 DEF Sent, Asking
        <5>3. q.asks \in {"api", "refresh", "login", "logout"}
          BY <1>4 DEF Meant
        <5> QED
          BY <1>5, <3>1, <4>1, <5>1, <5>2, <5>3 DEF Good
      <4>3. ASSUME NEW j \in Tasks
            PROVE  /\ Asking(task'[j], "refresh") => task'[j].with # task[o].new
                   /\ j # o /\ Renews(task'[j]) => task'[j].new # task[o].new
        <5>1. CASE j = k
          BY <1>1, <1>6, <3>1, <4>1, <5>1 DEF Renewed, Asking, Renews
        <5>2. CASE j # k
          BY <1>1, <3>1, <5>2 DEF Renewed
        <5> QED
          BY <5>1, <5>2
      <4> QED
        BY <4>1, <4>2, <4>3
    <3> QED
      BY <3>2, <3>3, <3>4
  <2>2. Meant(task[k])'
    BY <1>1, <1>4 DEF Meant, LoggingOut, Asking
  <2>3. Sent(task[k])'
    BY <1>1, <1>2, <1>4 DEF Sent, Asking, Open
  <2>4. Renewed(k)'
    <3> SUFFICES ASSUME Renews(task'[k])
                 PROVE  /\ n \in used' /\ n # NoToken /\ Good(task[k].new)' /\ n # app.refresh
                        /\ \A j \in Tasks : /\ Asking(task'[j], "refresh") => task'[j].with # n
                                            /\ j # k /\ Renews(task'[j]) => task'[j].new # n
      BY <1>1, <1>3 DEF Renewed, Renews, Asking
    <3>1. n # NoToken /\ n \in used' /\ n \notin Issued /\ \E s \in Token : current'[s] = n
      BY <1>1, <1>6 DEF Renews
    <3>2. Good(task[k].new)'
      BY <1>1, <3>1 DEF Good, Open
    <3>3. n # app.refresh /\ \A j \in Tasks : task[j].with # n /\ task[j].new # n
      BY <3>1 DEF IInv, Tokens
    <3> QED
      BY <1>1, <3>1, <3>2, <3>3
  <2> QED
    BY <2>1, <2>2, <2>3, <2>4 DEF Calls
<1>10. Flagged'
  BY <1>1, <1>3 DEF IInv, Flagged
<1>11. Starts'
  BY <1>1, <1>3 DEF IInv, Starts, Asking
<1>12. OffIsOff'
  BY <1>3, <1>4 DEF OffIsOff
<1>13. Held'
  <2>1. CASE \E o \in Tasks : Replaced(task[o], app.refresh)
    <3>1. PICK o \in Tasks : Replaced(task[o], app.refresh)
      BY <2>1
    <3>2. o # k
      BY <3>1 DEF Replaced
    <3> QED
      BY <1>1, <1>3, <3>1, <3>2 DEF Held, Replaced, Asking
  <2>2. CASE Good(app.refresh) /\ app.refresh = q.with /\ q.asks = "refresh" /\ yes = "yes"
    BY <1>1, <1>3, <2>2 DEF Held, Replaced, Asking
  <2>3. CASE Good(app.refresh) /\ ~(app.refresh = q.with /\ q.asks = "refresh" /\ yes = "yes")
    <3>1. q.asks = "logout" => q.with \in Causes'
      BY <1>2, <1>4 DEF Sent, Asking
    <3>2. q.asks \in {"api", "refresh", "login", "logout"}
      BY <1>4 DEF Meant
    <3>3. yes = "no" /\ q.asks = "refresh" => q.with \in Causes'
      OBVIOUS
    <3>4. Good(app.refresh)'
      BY <1>3, <1>5, <2>3, <3>1, <3>2, <3>3 DEF Good
    <3> QED
      BY <3>4 DEF Held
  <2> QED
    BY <2>1, <2>2, <2>3 DEF IInv, Held
<1>14. Lingering'
  BY <1>2, <1>3 DEF IInv, Lingering
<1>15. /\ \A o \in Tasks : /\ Holding(task'[o]) <=> Holding(task[o])
                           /\ LoggingOut(task'[o]) <=> LoggingOut(task[o])
                           /\ task'[o].at = task[o].at /\ task'[o].alone = task[o].alone
       /\ Emptied' <=> Emptied
  BY <1>1, <1>3 DEF Holding, LoggingOut, Asking, Emptied
<1>16. Logouts'
  <2>1. ASSUME NEW o \in Tasks
        PROVE  /\ (LoggingOut(task[o]) /\ task[o].alone)' => Quiet(o)'
               /\ (task[o].at = "wipe" /\ task[o].alone)' => Emptied'
    <3>1. LoggingOut(task[o])' <=> LoggingOut(task'[o])
      BY DEF LoggingOut, Asking
    <3>2. Quiet(o) => Quiet(o)'
      BY <1>15 DEF Quiet, Holding
    <3> QED
      BY <1>15, <3>1, <3>2 DEF IInv, Logouts
  <2> QED
    BY <2>1 DEF Logouts
<1>17. Left'
  <2>1. \A o \in Tasks : Holding(task[o])' <=> Holding(task[o])
    BY <1>15 DEF Holding
  <2> QED
    BY <1>2, <1>3, <1>15, <2>1 DEF IInv, Left
<1>18. Ending'
  BY <1>1, <1>2, <1>3 DEF IInv, Ending, Doomed, MayEnd, Asking
<1>19. Accounted'
  <2> SUFFICES ASSUME NEW s \in Token
               PROVE  \/ current'[s] \in {NoToken, app.refresh} \cup past.lost
                      \/ \E o \in Tasks : Renews(task'[o]) /\ task'[o].new = current'[s]
    BY <1>2, <1>3 DEF Accounted, Renews
  <2>1. CASE current'[s] = n /\ n # NoToken
    <3>1. Renews(task'[k])
      BY <1>1, <2>1 DEF Renews
    <3> QED
      BY <1>1, <2>1, <3>1
  <2>2. CASE current'[s] = NoToken
    BY <2>2
  <2>3. CASE current'[s] = current[s]
    BY <1>1, <1>4, <2>3 DEF IInv, Accounted
  <2> QED
    BY <2>1, <2>2, <2>3 DEF Moves
<1> QED
  BY <1>7, <1>8, <1>9, <1>10, <1>11, <1>12, <1>13, <1>14, <1>16, <1>17, <1>18, <1>19 DEF IInv

LEMMA ServeInv ==
  ASSUME IInv, NEW k \in Tasks, Serve(k)
  PROVE  IInv'
<1>1. task[k].at = "wait" /\ task[k].answer = "none" /\ UNCHANGED <<expired, app, disk, late>>
  BY DEF Serve
<1>2. ASSUME NEW n, Performs(task[k], n), past' = past,
             task' = [task EXCEPT ![k].answer = "yes", ![k].new = n]
      PROVE  IInv'
  <2>1. Answered(k, "yes", n)
    BY <1>1, <1>2 DEF Answered
  <2>2. /\ Moves(task[k], n) /\ (task[k].asks \in {"refresh", "login"} <=> n # NoToken)
        /\ task[k].asks = "api" => task[k].with # NoToken
        /\ task[k].asks \in {"refresh", "logout"} /\ task[k].with # NoToken =>
               \A s \in Token : current'[s] # task[k].with
    BY <1>2, PerformsMoves
  <2> QED
    BY <1>1, <2>1, <2>2, AnsweredInv
<1>3. ASSUME task' = [task EXCEPT ![k].answer = "no", ![k].new = NoToken],
             past' = IF task[k].asks = "refresh" /\ SessionsOf(task[k].with) # {}
                     THEN [past EXCEPT !.spoiled = @ \cup {task[k].with}] ELSE past,
             UNCHANGED <<current, used>>
      PROVE  IInv'
  <2>1. Answered(k, "no", NoToken)
    BY <1>1, <1>3 DEF Answered
  <2>2. Moves(task[k], NoToken)
    BY <1>3 DEF Moves, IInv, Tokens, Issued
  <2>3. task[k].asks = "refresh" => task[k].with \in Causes'
    <3> SUFFICES ASSUME task[k].asks = "refresh"
                 PROVE  task[k].with \in Causes'
      OBVIOUS
    <3>1. task[k].with # NoToken /\ Good(task[k].with)
      BY <1>1, UnderWay DEF Sent, Asking
    <3>2. CASE SessionsOf(task[k].with) # {}
      BY <1>3, <3>2 DEF IInv, Shape, Causes
    <3>3. CASE SessionsOf(task[k].with) = {}
      <4>1. ~Open(task[k].with)
        BY <3>1, <3>3 DEF SessionsOf, Open
      <4> QED
        BY <1>3, <3>1, <3>3, <4>1 DEF Good, Causes
    <3> QED
      BY <3>2, <3>3
  <2> QED
    BY <1>1, <1>3, <2>1, <2>2, <2>3, AnsweredInv
<1> QED
  BY <1>2, <1>3 DEF Serve

(* What happens at the server behind the app's back changes nothing of the *)
(* app, and only for the worse what it may hope.                           *)
LEMMA Elsewhere ==
  ASSUME IInv, NEW m, NEW n, Moves(m, n), expired' \subseteq used', UNCHANGED <<app, disk, task>>,
         late' \subseteq late, DOMAIN past' = DOMAIN past,
         past'.left = past.left, Causes \subseteq Causes',
         past.lost \cup (IF n = NoToken THEN {} ELSE {n}) \subseteq past'.lost,
         m.asks \in {"refresh", "logout"} /\ m.with # NoToken => m.with \in Causes',
         m.asks \in {"refresh", "logout", "login", "api"}
  PROVE  IInv'
<1>1. /\ \A t : Good(t) => Good(t)'
      /\ \A t : t \in Issued /\ t # NoToken /\ Open(t)' => Open(t)
      /\ Issued \subseteq Issued'
  <2>1. /\ \A t : Good(t) /\ (t # m.with \/ t \in Causes' \/ m.asks \in {"login", "api"})
                     => Good(t)'
        /\ \A t : t \in Issued /\ t # NoToken /\ Open(t)' => Open(t)
        /\ Issued \subseteq Issued'
    BY MovesKeep
  <2>2. ASSUME NEW t, Good(t)
        PROVE  Good(t)'
    <3>1. CASE t = NoToken
      BY <3>1 DEF Good
    <3>2. CASE t # NoToken
      BY <2>1, <2>2, <3>2 DEF Good
    <3> QED
      BY <3>1, <3>2
  <2> QED
    BY <2>1, <2>2
<1>2. Shape'
  BY DEF IInv, Shape
<1>3. Tokens'
  <2>1. used' \subseteq Token /\ expired' \subseteq used'
    BY DEF Moves
  <2>2. {app.access, app.refresh, disk.access, disk.refresh}' \subseteq Issued'
    BY <1>1 DEF IInv, Tokens
  <2>3. \A o \in Tasks : task'[o].with \in Issued' /\ task'[o].new \in Issued'
    BY <1>1 DEF IInv, Tokens
  <2>4. \A l \in late' : l.with \in Issued'
    BY <1>1 DEF IInv, Tokens
  <2> QED
    BY <2>1, <2>2, <2>3, <2>4 DEF Tokens, Moves, Issued
<1>4. Calls'
  <2>1. ASSUME NEW o \in Tasks
        PROVE  Meant(task[o])' /\ Sent(task[o])' /\ Renewed(o)'
    <3>1. /\ Meant(task[o]) /\ Sent(task[o]) /\ Renewed(o) /\ task'[o] = task[o]
          /\ app' = app /\ task' = task /\ task[o].with \in Issued
      BY DEF IInv, Calls, Tokens
    <3>2. Meant(task[o])'
      BY <3>1 DEF Meant, LoggingOut, Asking
    <3>3. Sent(task[o])'
      <4>1. task[o].with # NoToken /\ ~Open(task[o].with) => ~Open(task[o].with)'
        BY <1>1, <3>1 DEF Open
      <4>2. Good(task[o].with) => Good(task[o].with)'
        BY <1>1, <3>1 DEF Good
      <4>3. Asking(task[o], "refresh") \/ Asking(task[o], "logout") => task[o].with # NoToken
        BY <3>1 DEF Sent
      <4> QED
        BY <3>1, <4>1, <4>2, <4>3 DEF Sent, Asking, Open, Good
    <3>4. Renewed(o)'
      <4>1. Good(task[o].new) => Good(task[o].new)'
        BY <1>1, <3>1 DEF Good
      <4>2. used \subseteq used'
        BY DEF Moves
      <4> QED
        BY <3>1, <4>1, <4>2 DEF Renewed, Renews, Asking
    <3> QED
      BY <3>2, <3>3, <3>4
  <2> QED
    BY <2>1 DEF Calls
<1>5. Flagged' /\ Starts'
  BY DEF IInv, Flagged, Starts, Asking
<1>6. OffIsOff'
  <2>1. Good(disk.refresh) => Good(disk.refresh)'
    BY <1>1 DEF Good
  <2> QED
    BY <2>1 DEF IInv, OffIsOff
<1>7. Held'
  <2>1. Good(app.refresh) => Good(app.refresh)'
    BY <1>1 DEF Good
  <2> QED
    BY <2>1 DEF IInv, Held, Replaced, Asking
<1>8. Lingering'
  BY DEF IInv, Lingering
<1>9. Logouts' /\ Left'
  BY DEF IInv, Logouts, Left, LoggingOut, Asking, Emptied, Quiet, Holding
<1>10. Ending'
  BY DEF IInv, Ending, Doomed, MayEnd, Asking
<1>11. Accounted'
  BY DEF IInv, Accounted, Moves, Renews
<1> QED
  BY <1>2, <1>3, <1>4, <1>5, <1>6, <1>7, <1>8, <1>9, <1>10, <1>11 DEF IInv

LEMMA ServeLateInv ==
  ASSUME IInv, NEW m \in late, ServeLate(m)
  PROVE  IInv'
<1>1. late' \subseteq late /\ UNCHANGED <<expired, app, disk, task>>
  BY DEF ServeLate
<1>2. m.asks = "login" \/ (m.asks \in {"refresh", "logout"} /\ m.with \in Causes)
  BY DEF IInv, Lingering
<1>3. ASSUME NEW n, Performs(m, n), past' = [past EXCEPT !.lost = @ \cup (used' \ used)]
      PROVE  IInv'
  <2>1. Moves(m, n)
    BY <1>3, PerformsMoves
  <2>2. /\ DOMAIN past' = DOMAIN past /\ past'.left = past.left
        /\ Causes' = Causes /\ past'.lost = past.lost \cup (used' \ used)
    BY <1>3 DEF IInv, Shape, Causes
  <2>3. n # NoToken => n \in used' \ used
    BY <2>1 DEF Moves
  <2>4. expired' \subseteq used'
    BY <1>1, <2>1 DEF Moves, IInv, Tokens
  <2> QED
    BY <1>1, <1>2, <2>1, <2>2, <2>3, <2>4, Elsewhere
<1>4. CASE UNCHANGED <<current, used, past>>
  <2>1. Moves(m, NoToken)
    BY <1>4 DEF Moves, IInv, Tokens, Issued
  <2>2. expired' \subseteq used'
    BY <1>1, <1>4 DEF IInv, Tokens
  <2>3. Causes' = Causes
    BY <1>4 DEF Causes
  <2> QED
    BY <1>1, <1>2, <1>4, <2>1, <2>2, <2>3, Elsewhere
<1> QED
  BY <1>3, <1>4 DEF ServeLate

LEMMA ExpireInv ==
  ASSUME IInv, NEW t \in Token, Expire(t)
  PROVE  IInv'
<1> DEFINE m == [asks |-> "api", with |-> NoToken]
<1>1. Moves(m, NoToken)
  BY DEF Expire, Moves, IInv, Tokens, Issued
<1>2. expired' \subseteq used' /\ UNCHANGED <<app, disk, task, late, past>>
  BY DEF Expire, IInv, Tokens
<1>3. m.asks = "api" /\ Causes' = Causes
  BY <1>2 DEF Causes
<1> HIDE DEF m
<1> QED
  BY <1>1, <1>2, <1>3, Elsewhere

LEMMA EndElsewhereInv ==
  ASSUME IInv, NEW s \in Token, EndElsewhere(s)
  PROVE  IInv'
<1> DEFINE m == [asks |-> "logout", with |-> current[s]]
<1>1. m.asks = "logout" /\ m.with = current[s]
  OBVIOUS
<1> HIDE DEF m
<1>2. /\ used' = used
      /\ current' = [t \in Token |-> IF t = s THEN NoToken ELSE current[t]]
  BY DEF EndElsewhere, Server!End, Server!Ended, Server!NoToken, NoToken
<1>3. Moves(m, NoToken)
  BY <1>1, <1>2 DEF Moves, IInv, Tokens, Issued
<1>4. expired' \subseteq used' /\ UNCHANGED <<app, disk, task, late>>
  BY <1>2 DEF EndElsewhere, IInv, Tokens
<1>5. /\ DOMAIN past' = DOMAIN past /\ past'.left = past.left
      /\ Causes' = Causes \cup {current[s]} /\ past'.lost = past.lost
  BY DEF EndElsewhere, IInv, Shape, Causes
<1> QED
  BY <1>1, <1>3, <1>4, <1>5, Elsewhere

LEMMA KillInv ==
  ASSUME IInv, Kill
  PROVE  IInv'
<1> DEFINE Waiting == {q \in {task[k] : k \in Tasks} : q.at = "wait"}
           Refreshing == {p \in Waiting : p.asks = "refresh"}
<1>1. /\ app.on /\ Shape /\ app' = Off /\ task' = [k \in Tasks |-> Idle]
      /\ UNCHANGED <<current, used, expired, disk>> /\ late' = late \cup Adrift(Waiting)
  BY DEF Kill, IInv, server
<1>2. /\ DOMAIN past' = DOMAIN past /\ past'.left = past.left
      /\ past'.lost = past.lost \cup {app.refresh} \cup {q.new : q \in Waiting}
      /\ Causes' = Causes
                           \cup (IF disk.refresh = app.refresh THEN {} ELSE {disk.refresh})
                           \cup {q.with : q \in Refreshing}
  BY <1>1 DEF Kill, Shape, Causes
<1>3. \A k \in Tasks : task[k].at = "wait" =>
          /\ task[k].new \in past'.lost
          /\ task[k].asks = "refresh" => task[k].with \in Causes'
  BY <1>2
<1>4. /\ Idle.job = "none" /\ Idle.at = "idle" /\ Idle.with = NoToken /\ Idle.new = NoToken
      /\ Idle.flagged = FALSE /\ Idle.stage = 0 /\ Called(Idle) /\ \A k \in Tasks : task'[k] = Idle
  BY <1>1 DEF Idle, Called
<1>5. /\ DOMAIN app' = DOMAIN app /\ app'.on = FALSE /\ app'.access = NoToken
      /\ app'.refresh = NoToken /\ app'.refreshing = FALSE
  BY <1>1 DEF Off, Shape
<1>6. ASSUME NEW m \in late', m \notin late
      PROVE  /\ m.with \in Issued
             /\ m.asks = "login" \/ (m.asks \in {"refresh", "logout"} /\ m.with \in Causes')
  <2>1. PICK k \in Tasks : /\ task[k].at = "wait" /\ task[k].asks # "api"
                           /\ m = [asks |-> task[k].asks, with |-> task[k].with]
    BY <1>1, <1>6 DEF Adrift
  <2>2. m.asks = task[k].asks /\ m.with = task[k].with
    BY <2>1
  <2>3. Meant(task[k]) /\ Sent(task[k]) /\ task[k].with \in Issued
    BY DEF IInv, Calls, Tokens
  <2> QED
    BY <1>2, <1>3, <2>1, <2>2, <2>3 DEF Meant, Sent, Asking
<1> HIDE DEF Waiting, Refreshing
<1>7. Shape'
  BY <1>1, <1>2, <1>4, <1>5 DEF Shape
<1>8. Tokens'
  <2>1. /\ used' \subseteq Token /\ expired' \subseteq used'
        /\ {app.access, app.refresh, disk.access, disk.refresh}' \subseteq Issued'
    BY <1>1, <1>5 DEF IInv, Tokens, Issued
  <2>2. \A o \in Tasks : task'[o].with \in Issued' /\ task'[o].new \in Issued'
    BY <1>4 DEF Issued
  <2>3. \A m \in late' : m.with \in Issued'
    BY <1>1, <1>6 DEF IInv, Tokens, Issued
  <2> QED
    BY <1>1, <2>1, <2>2, <2>3 DEF IInv, Tokens, Issued
<1>9. Calls'
  BY <1>4 DEF Calls, Meant, Sent, Renewed, Renews, Asking, LoggingOut
<1>10. Flagged' /\ Starts'
  BY <1>4, <1>5 DEF Flagged, Starts
<1>11. OffIsOff'
  <2>1. disk'.refresh \in Causes' \cup {NoToken} \/ \E s \in Token : current'[s] = disk'.refresh
    <3>1. CASE disk.refresh # app.refresh
      BY <1>1, <1>2, <3>1
    <3>2. CASE disk.refresh = app.refresh /\ Good(app.refresh)
      BY <1>1, <1>2, <3>2 DEF Good, Open
    <3>3. CASE disk.refresh = app.refresh /\ \E k \in Tasks : Replaced(task[k], app.refresh)
      BY <1>1, <1>3, <3>3 DEF Replaced, Asking
    <3> QED
      BY <3>1, <3>2, <3>3 DEF IInv, Held
  <2>2. Good(disk.refresh)'
    BY <2>1 DEF Good, Open
  <2> QED
    BY <1>4, <1>5, <2>2 DEF OffIsOff
<1>12. Held'
  BY <1>5 DEF Held, Good
<1>13. Lingering'
  BY <1>2, <1>6 DEF IInv, Lingering
<1>14. Logouts'
  BY <1>4 DEF Logouts, LoggingOut, Asking
<1>15. Left'
  BY <1>1, <1>2, <1>4, <1>5 DEF IInv, Left, Emptied, Holding
<1>16. Ending'
  BY <1>4 DEF Ending, Doomed, MayEnd, Asking
<1>17. Accounted'
  <2>1. ASSUME NEW s \in Token
        PROVE  current'[s] \in {NoToken} \cup past'.lost
    <3>1. CASE current[s] \in {NoToken, app.refresh} \cup past.lost
      BY <1>1, <1>2, <3>1
    <3>2. ASSUME NEW k \in Tasks, Renews(task[k]), task[k].new = current[s]
          PROVE  current'[s] \in past'.lost
      BY <1>1, <1>3, <3>2 DEF Renews
    <3> QED
      BY <3>1, <3>2 DEF IInv, Accounted
  <2> QED
    BY <2>1 DEF Accounted
<1> QED
  BY <1>7, <1>8, <1>9, <1>10, <1>11, <1>12, <1>13, <1>14, <1>15, <1>16, <1>17 DEF IInv

LEMMA StutterInv ==
  ASSUME IInv, UNCHANGED vars
  PROVE  IInv'
BY DEF vars, server, IInv, Shape, Tokens, Issued, Calls, Meant, Sent, Renewed, Renews, Asking,
       LoggingOut, Good, Open, Flagged, Starts, OffIsOff, Held, Replaced, Lingering, Logouts, Left,
       Emptied, Quiet, Holding, Accounted, Ending, Doomed, MayEnd, Causes

-----------------------------------------------------------------------------
(* Whom the app signs out.  A step gives up the token in memory, or none,  *)
(* so it is for cause when there is cause to give that token up.           *)

ForCause == out' \subseteq out \cup Causes'

(* No cause is forgotten.                                                  *)
LEMMA CausesStay ==
  ASSUME Shape, Next
  PROVE  Causes \subseteq Causes'
<1>1. CASE UNCHANGED past
  BY <1>1 DEF Causes
<1>2. ASSUME NEW k \in Tasks, Call(k) \/ Login(k) \/ Logout(k) \/ Wipe(k)
      PROVE  Causes \subseteq Causes'
  <2>1. Call(k) \/ Login(k) \/ Wipe(k) => Causes' = Causes
    BY DEF Call, Login, Wipe, Shape, Causes
  <2>2. Logout(k) => Causes \subseteq Causes'
    BY DEF Logout, Shape, Causes
  <2> QED
    BY <1>2, <2>1, <2>2
<1>3. ASSUME NEW k \in Tasks, Abandon(k)
      PROVE  Causes \subseteq Causes'
  BY <1>3 DEF Abandon, Unanswered, Shape, Causes
<1>4. ASSUME NEW k \in Tasks, ReceiveApi(k) \/ ReceiveRefresh(k)
      PROVE  Causes \subseteq Causes'
  BY <1>4 DEF ReceiveApi, ReceiveRefresh, Shape, Causes
<1>5. ASSUME NEW k \in Tasks, ReceiveLogin(k) \/ ReceiveLogout(k)
      PROVE  Causes \subseteq Causes'
  <2>1. ReceiveLogout(k) => Causes' = Causes
    BY DEF ReceiveLogout, Shape, Causes
  <2>2. CASE past' = [past EXCEPT !.lost = @ \cup {app.refresh, disk.refresh},
                 !.overtaken = IF \E o \in Tasks : MayEnd(task[o]) THEN @ \cup {task[k].new} ELSE @]
    BY <2>2 DEF Shape, Causes
  <2> QED
    BY <1>1, <1>5, <2>1, <2>2 DEF ReceiveLogin
<1>6. ASSUME NEW k \in Tasks, Serve(k)
      PROVE  Causes \subseteq Causes'
  BY <1>6 DEF Serve, Shape, Causes
<1>7. ASSUME NEW m \in late, ServeLate(m)
      PROVE  Causes \subseteq Causes'
  BY <1>7 DEF ServeLate, Shape, Causes
<1>8. ASSUME NEW t \in Token, EndElsewhere(t)
      PROVE  Causes \subseteq Causes'
  BY <1>8 DEF EndElsewhere, Shape, Causes
<1>9. CASE Kill
  BY <1>9 DEF Kill, Shape, Causes
<1>10. ASSUME NEW k \in Tasks, Launch(k) \/ Save(k)
       PROVE  UNCHANGED past
  BY <1>10 DEF Launch, Save
<1>11. ASSUME NEW t \in Token, Expire(t)
       PROVE  UNCHANGED past
  BY <1>11 DEF Expire
<1> QED
  BY <1>1, <1>2, <1>3, <1>4, <1>5, <1>6, <1>7, <1>8, <1>9, <1>10, <1>11 DEF Next

LEMMA GoesForCause ==
  ASSUME NEW k \in Tasks, NEW a, NEW d, NEW q, Goes(k, a, d, q),
         \/ app.refresh \in {NoToken} \cup Causes'
         \/ task[k].job = "logout"
         \/ ~Asking(q, "logout") /\ a.refresh # NoToken /\ (disk.session => d.session)
  PROVE  ForCause
BY DEF Goes, GivesUp, Asking, ForCause

(* Whatever the app does then, down to its calls of Goes.                  *)
LEMMA SpentForCause ==
  ASSUME NEW k \in Tasks, NEW a, NEW d, NEW q, NEW ok, app.refresh \in {NoToken} \cup Causes',
         LogsOut(k, a, q) \/ Clears(k, a, q) \/ Ensure(k, a, d, q) \/ Returns(k, a, d, ok)
  PROVE  ForCause
<1>1. \A b, e, r : Goes(k, b, e, r) => ForCause
  BY GoesForCause
<1>2. ASSUME NEW b, NEW e, NEW r, Restore(k, b, e, r) \/ Ensure(k, b, e, r) \/ Insist(k, b, e, r)
      PROVE  ForCause
  BY <1>1, <1>2 DEF Restore, Ensure, Insist
<1>3. \A b, e, r : Valid(k, b, e, r) => ForCause
  BY <1>1, <1>2 DEF Valid
<1>4. ASSUME Returns(k, a, d, ok)
      PROVE  ForCause
  BY <1>1, <1>2, <1>3, <1>4 DEF Returns
<1>5. ASSUME LogsOut(k, a, q) \/ Clears(k, a, q)
      PROVE  ForCause
  BY <1>1, <1>5 DEF LogsOut, Clears
<1> QED
  BY <1>2, <1>4, <1>5

(* The token in memory stays there.                                        *)
LEMMA StaysForCause ==
  ASSUME NEW k \in Tasks, NEW a, NEW d, NEW q, Goes(k, a, d, q), ~Asking(q, "logout"),
         a.refresh = app.refresh, disk.session => d.session
  PROVE  ForCause
BY GoesForCause

(* What was loaded from storage is what was in memory, when a splash screen*)
(* asks /auth/me of it again; it has an access token, so it does ask.      *)
LEMMA RestoreForCause ==
  ASSUME IInv, NEW k \in Tasks, NEW a, NEW d, NEW q, Restore(k, a, d, q), Called(q),
         DOMAIN a = DOMAIN app, d.access # NoToken, d.refresh = app.refresh,
         disk.session => d.session
  PROVE  ForCause
<1> DEFINE b == Loaded(a, d)
           r == [q EXCEPT !.stage = 3]
<1>1. b.access = d.access /\ b.refresh = app.refresh
  BY LoadedFields DEF IInv
<1>2. Goes(k, b, d, AsksMe(q, 3, b))
  BY <1>1 DEF Restore
<1>3. ~Asking(AsksMe(q, 3, b), "logout")
  <2>1. AsksMe(q, 3, b) = Sends(r, "api", b.access) /\ Called(r)
    BY DEF AsksMe, Called
  <2> HIDE DEF r
  <2> QED
    BY <2>1, SendsFields DEF Asking
<1> HIDE DEF b
<1> QED
  BY <1>1, <1>2, <1>3, StaysForCause

(* A request has failed or succeeded.  The splash screen ends the session  *)
(* over a token that may be good in the last stage only.                   *)
LEMMA ReturnsForCause ==
  ASSUME IInv, NEW k \in Tasks, Asking(task[k], "api"), NEW ok, Returns(k, app, disk, ok),
         ok => task[k].answer = "yes",
         task[k].stage = 3 /\ ~ok => app.refresh \in {NoToken} \cup Causes'
  PROVE  ForCause
<1>1. /\ Shape /\ Meant(task[k]) /\ Sent(task[k]) /\ task[k].stage \in 0 .. 3
      /\ task[k].job = "start" => app.refresh = disk.refresh /\ task[k].with = disk.access
  BY DEF IInv, Calls, Meant, Starts, Asking
<1> DEFINE a == Unflagged(app, task[k], ok)
           q == Freed(task[k], ok)
<1>2. /\ DOMAIN a = DOMAIN app /\ a.refresh = app.refresh
      /\ Called(q) /\ q.stage = task[k].stage
  BY <1>1, ReturnsResumes
<1>3. \/ q.stage = 0 /\ Goes(k, a, disk, Idle)
      \/ q.stage = 1 /\ Ensure(k, a, disk, q)
      \/ q.stage = 2 /\ ok /\ Valid(k, a, disk, q)
      \/ q.stage = 2 /\ ~ok /\ Insist(k, a, disk, q)
      \/ q.stage = 3 /\ Goes(k, a, IF ok THEN disk ELSE SignedOut(disk), Idle)
  BY DEF Returns, Freed
<1> HIDE DEF a, q
<1>4. ~Asking(Idle, "logout")
  BY DEF Asking, Idle
<1>5. CASE Goes(k, a, disk, Idle)
  BY <1>2, <1>4, <1>5, StaysForCause
<1>6. CASE q.stage = 1 /\ Ensure(k, a, disk, q)
  <2> DEFINE b == Loaded(a, disk)
             r == [q EXCEPT !.stage = 2]
  <2>1. b.refresh = app.refresh
    BY <1>1, <1>2, <1>6, LoadedFields DEF Meant
  <2>2. AsksMe(q, 2, b) = Sends(r, "api", b.access) /\ Called(r)
    BY <1>2 DEF AsksMe, Called
  <2> HIDE DEF r
  <2>3. ~Asking(AsksMe(q, 2, b), "logout")
    BY <2>2, SendsFields DEF Asking
  <2>4. \/ Goes(k, a, disk, Idle)
        \/ app.refresh = NoToken /\ Goes(k, b, SignedOut(disk), Idle)
        \/ Goes(k, b, disk, AsksMe(q, 2, b))
    BY <1>6, <2>1 DEF Ensure
  <2> HIDE DEF b
  <2> QED
    BY <1>5, <2>1, <2>3, <2>4, GoesForCause, StaysForCause
<1>7. CASE q.stage = 2 /\ ok /\ Valid(k, a, disk, q)
  <2>1. disk.access # NoToken /\ app.refresh = disk.refresh
    BY <1>1, <1>2, <1>7 DEF Meant, Sent
  <2> QED
    BY <1>2, <1>5, <1>7, <2>1, RestoreForCause DEF Valid
<1>8. CASE q.stage = 2 /\ ~ok /\ Insist(k, a, disk, q)
  <2>1. ~Asking(Sends(q, "refresh", a.refresh), "logout")
    BY <1>2, SendsFields DEF Asking
  <2>2. \/ app.refresh = NoToken /\ Goes(k, a, SignedOut(disk), Idle)
        \/ Goes(k, a, disk, Sends(q, "refresh", a.refresh))
    BY <1>2, <1>8 DEF Insist
  <2> QED
    BY <1>2, <2>1, <2>2, GoesForCause, StaysForCause
<1>9. CASE q.stage = 3 /\ ~ok /\ Goes(k, a, SignedOut(disk), Idle)
  BY <1>2, <1>9, GoesForCause
<1> QED
  BY <1>3, <1>5, <1>6, <1>7, <1>8, <1>9

(* The user's own actions, and the start of the app.                       *)
LEMMA UserForCause ==
  ASSUME IInv, NEW k \in Tasks, Call(k) \/ Login(k) \/ Logout(k) \/ Launch(k)
  PROVE  ForCause
<1>1. CASE Call(k)
  <2> DEFINE q == [Idle EXCEPT !.job = "call"]
  <2>1. Goes(k, app, disk, Sends(q, "api", app.access)) /\ Called(q)
    BY <1>1 DEF Call, Called, Idle
  <2> HIDE DEF q
  <2>2. ~Asking(Sends(q, "api", app.access), "logout")
    BY <2>1, SendsFields DEF Asking
  <2> QED
    BY <2>1, <2>2, StaysForCause
<1>2. CASE Login(k)
  <2> DEFINE q == [Idle EXCEPT !.job = "login"]
  <2>1. Goes(k, app, disk, Sends(q, "login", NoToken)) /\ Called(q)
    BY <1>2 DEF Login, Called, Idle
  <2> HIDE DEF q
  <2>2. ~Asking(Sends(q, "login", NoToken), "logout")
    BY <2>1, SendsFields DEF Asking
  <2> QED
    BY <2>1, <2>2, StaysForCause
<1>3. CASE Logout(k)
  <2>1. app.refresh \in Causes'
    BY <1>3 DEF Logout, IInv, Shape, Causes
  <2> QED
    BY <1>3, <2>1, SpentForCause DEF Logout
<1>4. CASE Launch(k)
  <2>1. app.refresh = NoToken
    BY <1>4 DEF Launch, IInv, OffIsOff
  <2> QED
    BY <1>4, <2>1, GoesForCause, SpentForCause DEF Launch
<1> QED
  BY <1>1, <1>2, <1>3, <1>4

(* The end of a session that has expired, once it is under way.            *)
LEMMA EndForCause ==
  ASSUME IInv, NEW k \in Tasks, Asking(task[k], "logout"), Causes \subseteq Causes',
         Clears(k, app, task[k])
  PROVE  ForCause
<1>1. CASE task[k].job = "logout"
  BY <1>1, GoesForCause DEF Clears
<1>2. CASE task[k].job # "logout"
  <2>1. app.refresh \in {NoToken} \cup Causes'
    BY <1>2 DEF IInv, Ending, Doomed, MayEnd, Asking
  <2> QED
    BY <2>1, SpentForCause
<1> QED
  BY <1>1, <1>2

LEMMA AbandonForCause ==
  ASSUME IInv, NEW k \in Tasks, Abandon(k)
  PROVE  ForCause
<1> DEFINE q == task[k]
<1>1. q.at = "wait"
  BY DEF Abandon
<1>2. /\ Causes \subseteq Causes' /\ (q.asks = "refresh" => q.with \in Causes')
      /\ q.asks = "api" /\ q.stage = 3 => app.refresh \in Causes'
  BY DEF Abandon, Unanswered, IInv, Shape, Causes
<1>3. CASE q.asks = "api" /\ Returns(k, app, disk, FALSE)
  BY <1>1, <1>2, <1>3, ReturnsForCause DEF Asking
<1>4. CASE /\ q.asks = "refresh"
           /\ \/ LogsOut(k, app, [q EXCEPT !.alone = Undisturbed(k)])
              \/ Goes(k, app, SignedOut(disk), Idle)
  <2>1. app.refresh \in {NoToken} \cup Causes'
    BY <1>1, <1>2, <1>4, SentIsHeld DEF Asking
  <2> QED
    BY <1>4, <2>1, GoesForCause, SpentForCause
<1>5. CASE Goes(k, app, disk, Idle)
  <2>1. ~Asking(Idle, "logout")
    BY DEF Asking, Idle
  <2> QED
    BY <1>5, <2>1, StaysForCause
<1>6. CASE q.asks = "logout" /\ Clears(k, app, q)
  BY <1>1, <1>2, <1>6, EndForCause DEF Asking
<1> QED
  BY <1>3, <1>4, <1>5, <1>6 DEF Abandon, Unanswered

(* A call that is answered 401 while another one refreshes just fails: the *)
(* splash screen, which would end the session, has no other beside it.     *)
LEMMA ReceiveApiForCause ==
  ASSUME IInv, NEW k \in Tasks, ReceiveApi(k)
  PROVE  ForCause
<1> DEFINE q == task[k]
           refused == [q EXCEPT !.flagged = TRUE, !.alone = Undisturbed(k)]
           busy == [app EXCEPT !.refreshing = TRUE]
<1>1. Asking(q, "api") /\ Called(q) /\ Meant(q) /\ Shape /\ q.answer \in {"yes", "no"}
  BY DEF ReceiveApi, Asking, IInv, Shape, Calls, Meant
<1>2. CASE Returns(k, app, disk, q.answer = "yes") /\ (q.answer = "yes" \/ q.flagged \/ ~MayRefresh)
  <2>1. q.stage = 3 => q.flagged \/ MayRefresh
    <3> SUFFICES ASSUME q.stage = 3, app.refreshing
                 PROVE  q.flagged
      BY DEF MayRefresh
    <3>1. \A o \in Tasks \ {k} : task[o].at = "idle"
      BY <1>1 DEF IInv, Starts, Meant
    <3>2. \A o \in Tasks \ {k} : ~task[o].flagged
      BY <3>1 DEF IInv, Calls, Meant
    <3> QED
      BY <3>2 DEF IInv, Flagged
  <2>2. q.stage = 3 /\ q.answer # "yes" => app.refresh \in Causes'
    BY <1>1, <1>2, <2>1 DEF ReceiveApi, Shape, Causes
  <2> QED
    BY <1>1, <1>2, <2>2, ReturnsForCause
<1>3. CASE app.refresh = NoToken /\ Clears(k, busy, refused)
  BY <1>3, SpentForCause
<1>4. CASE Goes(k, busy, disk, Sends(refused, "refresh", app.refresh))
  <2>1. busy.refresh = app.refresh /\ Called(refused)
    BY <1>1 DEF Shape, Called
  <2> HIDE DEF busy, refused
  <2>2. ~Asking(Sends(refused, "refresh", app.refresh), "logout")
    BY <2>1, SendsFields DEF Asking
  <2> QED
    BY <1>4, <2>1, <2>2, StaysForCause
<1> QED
  BY <1>2, <1>3, <1>4 DEF ReceiveApi

(* New tokens are the successors of those in memory, or a login's.         *)
LEMMA KeepsForCause ==
  ASSUME IInv, NEW k \in Tasks, Renews(task[k]), Keeps(k, task[k].new)
  PROVE  ForCause
<1> DEFINE n == task[k].new
           a == [app EXCEPT !.access = n, !.refresh = n]
           d == [disk EXCEPT !.access = n]
           p == [task[k] EXCEPT !.at = "save"]
           q == [task[k] EXCEPT !.at = "save", !.new = NoToken]
<1>1. Shape /\ Called(task[k]) /\ n # NoToken
  BY DEF IInv, Shape, Calls, Renewed
<1>2. a.refresh = n /\ d.session = disk.session
  BY <1>1 DEF Shape
<1>3. q.at = "save"
  <2>1. Called(p) /\ p.at = "save" /\ q = [p EXCEPT !.new = NoToken]
    BY <1>1 DEF Called
  <2> HIDE DEF p, q
  <2> QED
    BY <2>1 DEF Called
<1>4. Goes(k, a, d, q)
  BY DEF Keeps
<1> HIDE DEF a, d, q
<1> QED
  BY <1>1, <1>2, <1>3, <1>4, GoesForCause DEF Asking

LEMMA AnswerForCause ==
  ASSUME IInv, NEW k \in Tasks, ReceiveRefresh(k) \/ ReceiveLogin(k) \/ ReceiveLogout(k)
  PROVE  ForCause
<1> DEFINE q == task[k]
<1>1. q.at = "wait" /\ Meant(q) /\ Sent(q) /\ q.answer \in {"yes", "no"}
  <2>1. q.at = "wait" /\ q.answer # "none"
    BY DEF ReceiveRefresh, ReceiveLogin, ReceiveLogout
  <2> QED
    BY <2>1 DEF IInv, Calls, Meant
<1>2. Causes \subseteq Causes'
  BY CausesStay DEF IInv, Next
<1>3. CASE q.answer = "yes" /\ Keeps(k, q.new) /\ q.asks \in {"refresh", "login"}
  BY <1>1, <1>3, KeepsForCause DEF Renews
<1>4. CASE /\ q.asks = "refresh" /\ q.answer = "no"
           /\ \/ LogsOut(k, app, [q EXCEPT !.alone = Undisturbed(k)])
              \/ Goes(k, app, SignedOut(disk), Idle)
  <2>1. app.refresh \in {NoToken} \cup Causes'
    BY <1>1, <1>2, <1>4, SentIsHeld DEF Sent, Asking
  <2> QED
    BY <1>4, <2>1, GoesForCause, SpentForCause
<1>5. CASE Goes(k, app, disk, Idle)
  <2>1. ~Asking(Idle, "logout")
    BY DEF Asking, Idle
  <2> QED
    BY <1>5, <2>1, StaysForCause
<1>6. CASE q.asks = "logout" /\ Clears(k, app, q)
  BY <1>1, <1>2, <1>6, EndForCause DEF Asking
<1> QED
  BY <1>1, <1>3, <1>4, <1>5, <1>6 DEF ReceiveRefresh, ReceiveLogin, ReceiveLogout

LEMMA SaveForCause ==
  ASSUME IInv, NEW k \in Tasks, Save(k)
  PROVE  ForCause
<1> DEFINE q == task[k]
           saved == [disk EXCEPT !.refresh = app.refresh]
<1>1. q.at = "save" /\ Called(q) /\ Meant(q) /\ Shape
  BY DEF Save, IInv, Shape, Calls
<1>2. /\ DOMAIN saved = DOMAIN disk /\ saved.access = disk.access /\ saved.refresh = app.refresh
      /\ saved.session = disk.session
  BY <1>1 DEF Shape
<1>3. ~Asking(Idle, "logout")
  BY DEF Asking, Idle
<1>4. ASSUME NEW d \in {disk, saved}, Goes(k, app, [d EXCEPT !.session = TRUE], Idle)
      PROVE  ForCause
  <2>1. [d EXCEPT !.session = TRUE].session = TRUE
    BY <1>1, <1>2, <1>4 DEF Shape
  <2> QED
    BY <1>3, <1>4, <2>1, StaysForCause
<1>5. CASE /\ app.refresh = NoToken
           /\ \/ Clears(k, app, [q EXCEPT !.alone = Undisturbed(k)])
              \/ Goes(k, app, SignedOut(disk), Idle)
  BY <1>5, GoesForCause, SpentForCause
<1>6. CASE Goes(k, app, saved, Sends(q, "api", app.access))
  <2>1. ~Asking(Sends(q, "api", app.access), "logout")
    BY <1>1, SendsFields DEF Asking
  <2> QED
    BY <1>2, <1>6, <2>1, StaysForCause
<1>7. CASE q.job # "login" /\ ~q.flagged /\ Valid(k, app, saved, q)
  <2>1. disk.access # NoToken
    BY <1>1, <1>7 DEF IInv, Starts, Meant
  <2>2. Goes(k, app, saved, Idle) \/ Restore(k, app, saved, q)
    BY <1>7 DEF Valid
  <2> HIDE DEF saved
  <2> QED
    BY <1>1, <1>2, <1>3, <2>1, <2>2, RestoreForCause, StaysForCause
<1> QED
  <2>1. CASE q.job = "login"
    <3>1. PICK d \in {disk, saved} : Goes(k, app, [d EXCEPT !.session = TRUE], Idle)
      BY <2>1 DEF Save, saved
    <3> QED
      BY <1>4, <3>1
  <2>2. CASE q.job # "login"
    BY <1>5, <1>6, <1>7, <2>2 DEF Save, saved
  <2> QED
    BY <2>1, <2>2

(* When the second delete is made, memory has no token, or one there is    *)
(* cause to give up.                                                       *)
LEMMA WipeForCause ==
  ASSUME IInv, NEW k \in Tasks, Wipe(k)
  PROVE  ForCause
<1>1. task[k].at = "wipe" /\ Causes' = Causes
  BY DEF Wipe, IInv, Shape, Causes
<1>2. CASE task[k].job = "logout"
  BY <1>2, GoesForCause DEF Wipe
<1>3. CASE task[k].job # "logout"
  <2>1. app.refresh \in {NoToken} \cup Causes'
    BY <1>1, <1>3 DEF IInv, Ending, Doomed, MayEnd, Asking
  <2> QED
    BY <1>3, <2>1, SpentForCause DEF Wipe
<1> QED
  BY <1>2, <1>3

(* The other steps give nothing up.                                        *)
LEMMA StepForCause ==
  ASSUME IInv, [Next]_vars
  PROVE  ForCause /\ Causes \subseteq Causes'
<1>1. ASSUME NEW k \in Tasks, Call(k) \/ Login(k) \/ Logout(k) \/ Launch(k)
      PROVE  ForCause
  BY <1>1, UserForCause
<1>2. ASSUME NEW k \in Tasks,
             ReceiveApi(k) \/ ReceiveRefresh(k) \/ ReceiveLogin(k) \/ ReceiveLogout(k)
      PROVE  ForCause
  BY <1>2, ReceiveApiForCause, AnswerForCause
<1>3. ASSUME NEW k \in Tasks, Abandon(k) \/ Save(k) \/ Wipe(k)
      PROVE  ForCause
  BY <1>3, AbandonForCause, SaveForCause, WipeForCause
<1>4. UNCHANGED out => ForCause
  BY DEF ForCause
<1>5. ASSUME NEW k \in Tasks, Serve(k)
      PROVE  UNCHANGED out
  BY <1>5 DEF Serve
<1>6. ASSUME NEW m \in late, ServeLate(m)
      PROVE  UNCHANGED out
  BY <1>6 DEF ServeLate
<1>7. ASSUME NEW t \in Token, Expire(t) \/ EndElsewhere(t)
      PROVE  UNCHANGED out
  BY <1>7 DEF Expire, EndElsewhere
<1>8. Kill => UNCHANGED out
  BY DEF Kill
<1>9. CASE Next
  <2>1. ForCause
    BY <1>1, <1>2, <1>3, <1>4, <1>5, <1>6, <1>7, <1>8, <1>9 DEF Next
  <2> QED
    BY <1>9, <2>1, CausesStay DEF IInv
<1>10. CASE UNCHANGED vars
  BY <1>4, <1>10 DEF vars, Causes
<1> QED
  BY <1>9, <1>10

-----------------------------------------------------------------------------
(* The theorems *)

(* The invariant holds in every state the app and the server get into.     *)
THEOREM Invariance == Spec => []IInv
<1>1. IInv /\ [Next]_vars => IInv'
  <2> SUFFICES ASSUME IInv, [Next]_vars PROVE IInv'
    OBVIOUS
  <2>1. ASSUME NEW k \in Tasks, Call(k) \/ Login(k) \/ Logout(k) \/ Launch(k)
        PROVE  IInv'
    BY <2>1, CallInv, LoginInv, LogoutInv, LaunchInv
  <2>2. ASSUME NEW k \in Tasks,
               ReceiveApi(k) \/ ReceiveRefresh(k) \/ ReceiveLogin(k) \/ ReceiveLogout(k)
        PROVE  IInv'
    BY <2>2, ReceiveApiInv, ReceiveRefreshInv, ReceiveLoginInv, ReceiveLogoutInv
  <2>3. ASSUME NEW k \in Tasks, Abandon(k) \/ Save(k) \/ Wipe(k) \/ Serve(k)
        PROVE  IInv'
    BY <2>3, AbandonInv, SaveInv, WipeInv, ServeInv
  <2>4. ASSUME NEW m \in late, ServeLate(m)
        PROVE  IInv'
    BY <2>4, ServeLateInv
  <2>5. ASSUME NEW t \in Token, Expire(t) \/ EndElsewhere(t)
        PROVE  IInv'
    BY <2>5, ExpireInv, EndElsewhereInv
  <2>6. CASE Kill
    BY <2>6, KillInv
  <2>7. CASE UNCHANGED vars
    BY <2>7, StutterInv
  <2> QED
    BY <2>1, <2>2, <2>3, <2>4, <2>5, <2>6, <2>7 DEF Next
<1> QED
  BY <1>1, InitInv, PTL DEF Spec

(* Every token in the app or in storage was issued by the server, every    *)
(* call is in a state the program knows; and _refreshInProgress is never   *)
(* left set without a call to reset it, which would stop all refreshes     *)
(* until the app is restarted.                                             *)
THEOREM TypeCorrect == Spec => []TypeOK
<1>1. IInv => TypeOK
  BY DEF IInv, TypeOK, Shape, Tokens, Issued, Calls, Meant, Flagged
<1> QED
  BY <1>1, Invariance, PTL

(* However many calls run at once, whatever is lost or late and however    *)
(* often the app is killed: by itself (after a refresh, or on the splash   *)
(* screen) the app gives a refresh token up only if the token was no longer*)
(* good or its refresh was refused, unanswered or cut off, if the token    *)
(* came from a login that overtook the end of the session before it, or if *)
(* the splash screen's last /auth/me failed.                               *)
THEOREM SignedOutForCause == Spec => []OutForCause
<1>1. Init => OutForCause
  BY DEF Init, OutForCause
<1>2. IInv /\ OutForCause /\ [Next]_vars => OutForCause'
  BY StepForCause DEF ForCause, OutForCause, Causes
<1> QED
  BY <1>1, <1>2, Invariance, PTL DEF Spec

(* AuthService.logout leaves no token in memory or in storage, when no     *)
(* refresh and no login ran beside it.                                     *)
THEOREM LogoutLeavesNothing == Spec => []NothingLeft
<1>1. IInv => NothingLeft
  BY DEF IInv, Left, Emptied, NothingLeft
<1> QED
  BY <1>1, Invariance, PTL

(* No session is open at the server that the app has neither hold of nor   *)
(* lost in one of the ways known.                                          *)
THEOREM SessionsAccountedFor == Spec => []SessionsAccounted
<1>1. IInv => SessionsAccounted
  BY DEF IInv, Accounted, SessionsAccounted
<1> QED
  BY <1>1, Invariance, PTL

=============================================================================
