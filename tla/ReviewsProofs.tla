---------------------------- MODULE ReviewsProofs ----------------------------
(***************************************************************************)
(* What Reviews promises about reviews and about the numbers a storefront  *)
(* shows, proved for any buyers, requests, scores and milestones.          *)
(***************************************************************************)
EXTENDS Reviews, FiniteSetTheorems, TLAPS

-----------------------------------------------------------------------------
(* The invariant *)

Columns == {"review_count", "average_rating", "golden_crowns", "achievement_stars"}
Fields == {"at", "user", "loaded", "asked", "found", "fresh", "mine", "alone"}
Places == {"idle", "read", "write", "stats", "store", "forget"}
Score == 2 .. 10
Review == [id : Nat \ {0}, buyer : Buyers, a : Score, b : Score, rating : 1 .. 5]

Shape ==
    /\ req = [r \in Requests |-> req[r]]
    /\ \A r \in Requests : DOMAIN req[r] = Fields /\ req[r].at \in Places
    /\ DOMAIN past = {"ids", "submitted", "earned", "settled", "mixed"}
    /\ past.ids \in Nat
    /\ DOMAIN profile = Columns
    /\ rooms \subseteq Chats!Room

(* Rows; ids are handed out in order, and a buyer has one review at most.  *)
Stored == reviews \subseteq Review /\ IsFiniteSet(reviews)
Numbered == \A v \in reviews : v.id <= past.ids
Unique == \A v, w \in reviews : v.id = w.id \/ v.buyer = w.buyer => v = w

(* What a request is about to write is a review of its user, who has the   *)
(* right to one (E: those who have it).                                    *)
Asks(q, E) ==
    q.at \in {"read", "write"} =>
        /\ q.user \in Buyers \cap E
        /\ DOMAIN q.asked = {"id", "buyer", "a", "b", "rating"}
        /\ q.asked.buyer = q.user /\ q.asked.a \in Score /\ q.asked.b \in Score
Knows(q) ==
    q.at = "write" =>
        /\ q.found = NoReview \/ (q.found \in Review /\ q.found.buyer = q.user)
        /\ q.asked.id = q.found.id
        /\ q.asked.rating = rounded_overall(q.asked)

(* Whoever could write a review by what is said has the right to.          *)
Spoken == \A u \in Buyers : HasInteracted(u) => u \in past.earned

(* A request that is alone has the storefront as it is, and has counted    *)
(* the reviews there are.                                                  *)
Alone(r) ==
    req[r].at # "idle" /\ req[r].alone =>
        /\ \A o \in Others(r) : req[o].at = "idle"
        /\ req[r].at # "forget" => req[r].loaded = profile
        /\ req[r].at = "store" => req[r].fresh = RatingsOf(reviews)

(* The storefront is up to date unless someone is about to bring it there. *)
Counting(q) == q.at \in {"stats", "store"}
UpToDate == past.settled /\ (\A r \in Requests : ~Counting(req[r])) => profile = RatingsOf(reviews)

Asked == \A r \in Requests : Asks(req[r], past.earned) /\ Knows(req[r])
IInv == /\ Shape /\ Stored /\ Numbered /\ Unique
        /\ Asked /\ Spoken /\ (\A r \in Requests : Alone(r)) /\ UpToDate
        /\ ReviewsEarned /\ RatingIsMean


-----------------------------------------------------------------------------
(* Scores and rows *)

LEMMA MeanInRange ==
  ASSUME NEW v, v.a \in Score, v.b \in Score
  PROVE  rounded_overall(v) \in 1 .. 5
<1> DEFINE n == v.a + v.b
<1>1. n \in 4 .. 20
  BY DEF Score
<1> HIDE DEF n
<1>2. n \div 4 \in 1 .. 5 /\ n % 4 \in 0 .. 3 /\ (n \div 4 = 5 => n % 4 = 0)
  BY <1>1
<1>3. HalfEven(n, 4) \in 1 .. 5
  BY <1>1, <1>2 DEF HalfEven
<1> QED
  BY <1>3 DEF rounded_overall, Total, n

LEMMA NoRatingsColumns ==
  ASSUME NEW R
  PROVE  /\ DOMAIN RatingsOf(R) = Columns
         /\ RatingsOf(R) = [col \in Columns |-> RatingsOf(R)[col]]
  BY DEF RatingsOf, Columns

(* A row of whose buyer and id an edit leaves as they are.                 *)
LEMMA UpdatedRow ==
  ASSUME NEW v \in Review, NEW found \in Review, NEW asked,
         DOMAIN asked = {"id", "buyer", "a", "b", "rating"},
         asked.id = found.id, asked.buyer = found.buyer,
         asked.a \in Score, asked.b \in Score, asked.rating \in 1 .. 5
  PROVE  LET u == Updated(v, found, asked)
         IN  /\ u \in Review /\ u.id = v.id /\ u.buyer = v.buyer
             /\ v = found => u.a = asked.a /\ u.b = asked.b /\ u.rating = asked.rating
<1> DEFINE u == Updated(v, found, asked)
<1>1. DOMAIN v = {"id", "buyer", "a", "b", "rating"}
  BY DEF Review
<1>2. /\ DOMAIN u = {"id", "buyer", "a", "b", "rating"}
      /\ u = [col \in {"id", "buyer", "a", "b", "rating"} |-> u[col]]
      /\ u.id = v.id /\ u.buyer = v.buyer
      /\ u.a = (IF asked.a # found.a THEN asked.a ELSE v.a)
      /\ u.b = (IF asked.b # found.b THEN asked.b ELSE v.b)
      /\ u.rating = (IF asked.rating # found.rating THEN asked.rating ELSE v.rating)
  BY <1>1 DEF Updated
<1> HIDE DEF u
<1>3. /\ v.id \in Nat \ {0} /\ v.buyer \in Buyers
      /\ v.a \in Score /\ v.b \in Score /\ v.rating \in 1 .. 5
  BY DEF Review
<1>4. u = [id |-> u.id, buyer |-> u.buyer, a |-> u.a, b |-> u.b, rating |-> u.rating]
  BY <1>2
<1>5. u \in Review
  BY <1>2, <1>3, <1>4 DEF Review
<1> QED
  BY <1>2, <1>5 DEF u

-----------------------------------------------------------------------------

LEMMA InitInv == Init => IInv
<1> SUFFICES ASSUME Init PROVE IInv
  OBVIOUS
<1>1. /\ req = [r \in Requests |-> Idle] /\ \A r \in Requests : req[r] = Idle
      /\ reviews = {} /\ rooms = {} /\ profile = NoRatings
      /\ past = [ids |-> 0, submitted |-> 0, earned |-> {}, settled |-> TRUE, mixed |-> {}]
  BY DEF Init, Chats!Init
<1>2. DOMAIN Idle = Fields /\ Idle.at = "idle"
  BY DEF Idle, Fields
<1>3. Shape
  BY <1>1, <1>2, NoRatingsColumns DEF Shape, Places, NoRatings
<1>4. Stored /\ Numbered /\ Unique /\ ReviewsEarned /\ RatingIsMean
  BY <1>1, FS_EmptySet DEF Stored, Numbered, Unique, ReviewsEarned, RatingIsMean
<1>5. Asked
  BY <1>1, <1>2 DEF Asked, Asks, Knows
<1>6. Spoken
  BY <1>1 DEF Spoken, HasInteracted, Chats!HasWritten
<1>7. (\A r \in Requests : Alone(r)) /\ UpToDate
  BY <1>1, <1>2 DEF Alone, UpToDate, NoRatings
<1> QED
  BY <1>3, <1>4, <1>5, <1>6, <1>7 DEF IInv

LEMMA Changed ==
  ASSUME Shape, NEW r \in Requests, NEW q, Becomes(r, q), DOMAIN q = Fields, q.at \in Places
  PROVE  /\ req'[r] = q
         /\ \A o \in Others(r) : req'[o] = req[o]
         /\ req' = [o \in Requests |-> req'[o]]
         /\ \A o \in Requests : DOMAIN req'[o] = Fields /\ req'[o].at \in Places
  BY DEF Shape, Becomes, Others

LEMMA IdleFine == DOMAIN Idle = Fields /\ Idle.at = "idle" /\ "idle" \in Places
  BY DEF Idle, Fields, Places

(* What has happened until now, as far as it matters.                      *)
Same(p, q) == DOMAIN p = DOMAIN q /\ \A x \in {"ids", "earned", "settled", "mixed"} : p[x] = q[x]

(* A request goes on, and nobody but itself can tell.                      *)
LEMMA PrivateStep ==
  ASSUME IInv, NEW r \in Requests, NEW q, Becomes(r, q),
         UNCHANGED <<rooms, gone, reviews, profile>>, Same(past', past),
         DOMAIN q = Fields, q.at \in Places, Asks(q, past.earned), Knows(q),
         Counting(req[r]) <=> Counting(q), req[r].at # "idle",
         q.at = "idle" \/
             /\ q.alone = req[r].alone
             /\ q.at # "forget" => req[r].at # "forget" /\ q.loaded = req[r].loaded
             /\ q.at = "store" => q.fresh = RatingsOf(reviews)
  PROVE  IInv'
<1> USE DEF Same
<1>1. /\ req'[r] = q
      /\ \A o \in Others(r) : req'[o] = req[o]
      /\ req' = [o \in Requests |-> req'[o]]
      /\ \A o \in Requests : DOMAIN req'[o] = Fields /\ req'[o].at \in Places
  BY Changed DEF IInv
<1>2. Shape'
  BY <1>1 DEF IInv, Shape
<1>3. Stored' /\ Numbered' /\ Unique' /\ ReviewsEarned' /\ RatingIsMean'
  BY DEF IInv, Stored, Numbered, Unique, ReviewsEarned, RatingIsMean
<1>4. Asked'
  BY <1>1 DEF IInv, Asked, Others
<1>5. Spoken'
  BY DEF IInv, Spoken, HasInteracted, Chats!HasWritten
<1>6. ASSUME NEW o \in Requests
      PROVE  Alone(o)'
  BY <1>1 DEF IInv, Alone, Others
<1>7. UpToDate'
  BY <1>1 DEF IInv, UpToDate, Others
<1> QED
  BY <1>2, <1>3, <1>4, <1>5, <1>6, <1>7 DEF IInv

(* A request begins: the others are no longer alone.                       *)
LEMMA BeginStep ==
  ASSUME IInv, NEW r \in Requests, NEW q, Begin(r, q), req[r].at = "idle",
         UNCHANGED <<rooms, gone, reviews, profile>>, Same(past', past),
         DOMAIN q = Fields, q.at \in {"read", "forget"}, Asks(q, past.earned),
         q.at = "read" => q.loaded = profile
  PROVE  IInv'
<1> USE DEF Same
<1> DEFINE p == [q EXCEPT !.alone = ~Busy(r)]
           Disturbed(o) == IF req[o].at = "idle" THEN req[o] ELSE [req[o] EXCEPT !.alone = FALSE]
<1>1. req' = [o \in Requests |-> IF o = r THEN p ELSE Disturbed(o)]
  BY DEF Begin
<1>2. /\ DOMAIN p = Fields /\ p.at = q.at /\ p.user = q.user /\ p.asked = q.asked
      /\ p.loaded = q.loaded /\ p.alone = ~Busy(r)
  BY DEF Fields
<1>3. \A o \in Requests :
         LET d == Disturbed(o)
         IN  /\ DOMAIN d = Fields /\ d.at = req[o].at /\ d.user = req[o].user
             /\ d.asked = req[o].asked /\ d.found = req[o].found
             /\ d.at # "idle" => d.alone = FALSE
  BY DEF IInv, Shape, Fields
<1> HIDE DEF p, Disturbed
<1>4. /\ req'[r] = p /\ r \notin Others(r)
      /\ \A o \in Others(r) : req'[o] = Disturbed(o)
      /\ \A o \in Requests : o = r \/ o \in Others(r)
      /\ req' = [o \in Requests |-> req'[o]]
  BY <1>1 DEF Others
<1>5. Shape'
  BY <1>2, <1>3, <1>4 DEF IInv, Shape, Places, Others
<1>6. Stored' /\ Numbered' /\ Unique' /\ ReviewsEarned' /\ RatingIsMean'
  BY DEF IInv, Stored, Numbered, Unique, ReviewsEarned, RatingIsMean
<1>7. Asked'
  <2>1. Asks(p, past'.earned) /\ Knows(p)
    BY <1>2 DEF Asks, Knows
  <2>2. ASSUME NEW o \in Others(r)
        PROVE  Asks(req'[o], past'.earned) /\ Knows(req'[o])
    BY <1>3, <1>4 DEF IInv, Asked, Asks, Knows, Others, rounded_overall, Total
  <2> QED
    BY <1>4, <2>1, <2>2 DEF Asked
<1>8. Spoken'
  BY DEF IInv, Spoken, HasInteracted, Chats!HasWritten
<1>9. Alone(r)'
  <2>1. p.alone => \A o \in Others(r) : req[o].at = "idle"
    BY <1>2 DEF Busy
  <2> QED
    BY <1>2, <1>3, <1>4, <2>1 DEF Alone, Others
<1>10. ASSUME NEW o \in Others(r)
       PROVE  Alone(o)'
  BY <1>3, <1>4 DEF Alone, Others
<1>11. UpToDate'
  BY <1>2, <1>3, <1>4 DEF IInv, UpToDate, Counting, Others
<1> QED
  BY <1>4, <1>5, <1>6, <1>7, <1>8, <1>9, <1>10, <1>11 DEF IInv

LEMMA CreateInv ==
  ASSUME IInv, NEW r \in Requests, NEW u \in Buyers, NEW payload \in Payloads,
         CreateReview(r, u, payload)
  PROVE  IInv'
<1> DEFINE q == [Idle EXCEPT !.at = "read", !.user = u, !.loaded = profile,
                    !.asked.buyer = u, !.asked.a = payload[1], !.asked.b = payload[2]]
<1>1. /\ Begin(r, q) /\ req[r].at = "idle" /\ UNCHANGED <<rooms, gone, reviews, profile>>
      /\ past' = [past EXCEPT !.submitted = @ + 1] /\ HasInteracted(u)
  BY DEF CreateReview
<1>2. /\ DOMAIN q = Fields /\ q.at = "read" /\ q.user = u /\ q.loaded = profile
      /\ q.asked = [NoReview EXCEPT !.buyer = u, !.a = payload[1], !.b = payload[2]]
  BY DEF Idle, Fields
<1> DEFINE asked == [NoReview EXCEPT !.buyer = u, !.a = payload[1], !.b = payload[2]]
<1>3. /\ DOMAIN asked = {"id", "buyer", "a", "b", "rating"}
      /\ asked.buyer = u /\ asked.a = payload[1] /\ asked.b = payload[2]
  BY DEF NoReview
<1>4. payload[1] \in Score /\ payload[2] \in Score
  BY PayloadsAssumption DEF Score
<1> HIDE DEF q, asked
<1>5. u \in past.earned
  BY <1>1 DEF IInv, Spoken
<1>6. Asks(q, past.earned)
  <2>1. q.asked = asked
    BY <1>2 DEF asked
  <2> QED
    BY <1>2, <1>3, <1>4, <1>5, <2>1 DEF Asks
<1>7. Same(past', past)
  BY <1>1 DEF IInv, Shape, Same
<1> QED
  BY <1>1, <1>2, <1>6, <1>7, BeginStep

LEMMA DepartInv ==
  ASSUME IInv, NEW r \in Requests, NEW u \in Buyers, Depart(r, u)
  PROVE  IInv'
<1> DEFINE q == [Idle EXCEPT !.at = "forget", !.user = u, !.mine = {v.id : v \in ReviewOf(u)}]
<1>1. /\ Begin(r, q) /\ req[r].at = "idle" /\ UNCHANGED <<rooms, gone, reviews, profile, past>>
  BY DEF Depart
<1>2. DOMAIN q = Fields /\ q.at = "forget"
  BY DEF Idle, Fields
<1> HIDE DEF q
<1> QED
  BY <1>1, <1>2, BeginStep DEF Asks, Same

LEMMA ReadReviewInv ==
  ASSUME IInv, NEW r \in Requests, ReadReview(r)
  PROVE  IInv'
<1>1. PICK found \in (IF ReviewOf(req[r].user) = {} THEN {NoReview} ELSE ReviewOf(req[r].user)) :
          Becomes(r, [req[r] EXCEPT !.at = "write", !.found = found, !.asked.id = found.id,
                                    !.asked.rating = RatingOf(req[r].asked, found)])
  BY DEF ReadReview
<1> DEFINE q == [req[r] EXCEPT !.at = "write", !.found = found, !.asked.id = found.id,
                               !.asked.rating = RatingOf(req[r].asked, found)]
<1>2. UNCHANGED <<rooms, gone, reviews, profile, past>> /\ req[r].at = "read"
  BY DEF ReadReview
<1>3. DOMAIN req[r] = Fields /\ Asks(req[r], past.earned)
  BY DEF IInv, Shape, Asked
<1>4. /\ DOMAIN q = Fields /\ q.at = "write" /\ q.found = found /\ q.user = req[r].user
      /\ q.loaded = req[r].loaded /\ q.alone = req[r].alone
      /\ q.asked = [req[r].asked EXCEPT !.id = found.id, !.rating = RatingOf(req[r].asked, found)]
  BY <1>3 DEF Fields
<1>5. /\ DOMAIN q.asked = {"id", "buyer", "a", "b", "rating"}
      /\ q.asked.id = found.id /\ q.asked.buyer = req[r].asked.buyer
      /\ q.asked.a = req[r].asked.a /\ q.asked.b = req[r].asked.b
      /\ q.asked.rating = rounded_overall(req[r].asked)
  BY <1>2, <1>3, <1>4 DEF Asks, RatingOf
<1>6. found = NoReview \/ (found \in Review /\ found.buyer = req[r].user)
  BY DEF ReviewOf, IInv, Stored
<1>7. Becomes(r, q)
  BY <1>1
<1> HIDE DEF q
<1>8. Asks(q, past.earned)
  BY <1>2, <1>3, <1>4, <1>5 DEF Asks
<1>9. q.asked.rating = rounded_overall(q.asked)
  BY <1>5 DEF rounded_overall, Total
<1>10. Knows(q)
  BY <1>4, <1>5, <1>6, <1>9 DEF Knows
<1> QED
  BY <1>2, <1>4, <1>7, <1>8, <1>10, PrivateStep DEF Counting, Places, Same

LEMMA ReadStatsInv ==
  ASSUME IInv, NEW r \in Requests, ReadStats(r)
  PROVE  IInv'
<1> DEFINE q == [req[r] EXCEPT !.at = "store", !.fresh = RatingsOf(reviews)]
<1>1. /\ Becomes(r, q) /\ UNCHANGED <<rooms, gone, reviews, profile, past>> /\ req[r].at = "stats"
  BY DEF ReadStats
<1>2. /\ DOMAIN q = Fields /\ q.at = "store" /\ q.fresh = RatingsOf(reviews)
      /\ q.loaded = req[r].loaded /\ q.alone = req[r].alone
  BY DEF IInv, Shape, Fields
<1> HIDE DEF q
<1> QED
  BY <1>1, <1>2, PrivateStep DEF Counting, Places, Asks, Knows, Same

-----------------------------------------------------------------------------
(* Rows are written *)

(* A review is written and the averages are still to be computed.          *)
LEMMA WriteStep ==
  ASSUME IInv, NEW r \in Requests, Becomes(r, AfterWrite(req[r])), req[r].at = "write",
         UNCHANGED <<rooms, gone, profile>>,
         DOMAIN past' = DOMAIN past, past'.ids \in Nat, past'.earned = past.earned,
         past'.settled = past.settled,
         Stored', Numbered', Unique', ReviewsEarned', RatingIsMean'
  PROVE  IInv'
<1> DEFINE q == AfterWrite(req[r])
<1>1. /\ DOMAIN q = Fields /\ q.at = "stats"
      /\ q.loaded = req[r].loaded /\ q.alone = req[r].alone
  BY DEF AfterWrite, Idle, Fields
<1>2. Becomes(r, q)
  OBVIOUS
<1> HIDE DEF q
<1>3. /\ req'[r] = q
      /\ \A o \in Others(r) : req'[o] = req[o]
      /\ req' = [o \in Requests |-> req'[o]]
      /\ \A o \in Requests : DOMAIN req'[o] = Fields /\ req'[o].at \in Places
  BY <1>1, <1>2, Changed DEF IInv, Places
<1>4. Shape'
  BY <1>3 DEF IInv, Shape
<1>5. Asked'
  BY <1>1, <1>3 DEF IInv, Asked, Others, Asks, Knows, rounded_overall, Total
<1>6. Spoken'
  BY DEF IInv, Spoken, HasInteracted, Chats!HasWritten
<1>7. ASSUME NEW o \in Requests
      PROVE  Alone(o)'
  BY <1>1, <1>3 DEF IInv, Alone, Others
<1>8. UpToDate'
  BY <1>1, <1>3 DEF UpToDate, Counting
<1> QED
  BY <1>4, <1>5, <1>6, <1>7, <1>8 DEF IInv

(* A request ends and has written nothing.                                 *)
LEMMA GiveUp ==
  ASSUME IInv, NEW r \in Requests, Becomes(r, Idle), req[r].at = "write",
         UNCHANGED <<rooms, gone, reviews, profile>>, Same(past', past)
  PROVE  IInv'
  BY IdleFine, PrivateStep DEF Counting, Asks, Knows

LEMMA InsertInv ==
  ASSUME IInv, NEW r \in Requests, InsertReview(r)
  PROVE  IInv'
<1> DEFINE q == req[r]
           new == [q.asked EXCEPT !.id = past.ids + 1]
<1>1. CASE Taken(q.user)
  BY <1>1, GiveUp DEF InsertReview, Same
<1>2. CASE ~Taken(q.user)
  <2>1. /\ reviews' = reviews \cup {new} /\ Becomes(r, AfterWrite(q)) /\ q.at = "write"
        /\ past' = [past EXCEPT !.ids = @ + 1] /\ UNCHANGED <<rooms, gone, profile>>
    BY <1>2 DEF InsertReview
  <2>2. Asks(q, past.earned) /\ Knows(q)
    BY DEF IInv, Asked
  <2>3. /\ q.user \in Buyers \cap past.earned
        /\ DOMAIN q.asked = {"id", "buyer", "a", "b", "rating"}
        /\ q.asked.buyer = q.user /\ q.asked.a \in Score /\ q.asked.b \in Score
        /\ q.asked.rating = rounded_overall(q.asked) /\ q.asked.rating \in 1 .. 5
    BY <2>1, <2>2, MeanInRange DEF Asks, Knows
  <2>4. /\ past.ids \in Nat /\ past'.ids = past.ids + 1 /\ past'.earned = past.earned
        /\ past'.settled = past.settled /\ past'.mixed = past.mixed /\ DOMAIN past' = DOMAIN past
    BY <2>1 DEF IInv, Shape
  <2>5. new = [id |-> past.ids + 1, buyer |-> q.user, a |-> q.asked.a, b |-> q.asked.b,
               rating |-> q.asked.rating]
    BY <2>3
  <2>6. /\ new \in Review /\ new.id = past.ids + 1 /\ new.buyer = q.user
        /\ new.rating = rounded_overall(new)
    <3>1. new \in Review
      BY <2>3, <2>4, <2>5 DEF Review
    <3>2. new.id = past.ids + 1 /\ new.buyer = q.user
      BY <2>5
    <3>3. new.rating = rounded_overall(new)
      BY <2>3, <2>5 DEF rounded_overall, Total
    <3> QED
      BY <3>1, <3>2, <3>3
  <2> HIDE DEF new
  <2>7. Stored'
    BY <2>1, <2>6, FS_AddElement DEF IInv, Stored
  <2>8. Numbered' /\ \A v \in reviews : v.id # new.id
    BY <2>1, <2>4, <2>6 DEF IInv, Numbered, Stored, Review
  <2>9. Unique'
    BY <1>2, <2>1, <2>6, <2>8 DEF IInv, Unique, Taken, ReviewOf
  <2>10. ReviewsEarned' /\ RatingIsMean'
    BY <2>1, <2>3, <2>4, <2>6 DEF IInv, ReviewsEarned, RatingIsMean, rounded_overall, Total
  <2>11. past'.ids \in Nat
    BY <2>4
  <2> QED
    BY <2>1, <2>4, <2>7, <2>8, <2>9, <2>10, <2>11, WriteStep
<1> QED
  BY <1>1, <1>2

LEMMA UpdateInv ==
  ASSUME IInv, NEW r \in Requests, UpdateReview(r)
  PROVE  IInv'
<1> DEFINE q == req[r]
           rows == {v \in reviews : v.id = q.found.id}
           u(v) == Updated(v, q.found, q.asked)
<1>1. /\ q.at = "write" /\ q.found # NoReview
      /\ IF rows = {} /\ q.asked # q.found THEN Becomes(r, Idle) ELSE Becomes(r, AfterWrite(q))
      /\ reviews' = (reviews \ rows) \cup {u(v) : v \in rows}
      /\ past' = [past EXCEPT !.mixed = @ \cup {v.id : v \in rows \ {q.found}}]
      /\ UNCHANGED <<rooms, gone, profile>>
  BY DEF UpdateReview
<1>2. /\ past.ids \in Nat /\ past'.ids = past.ids /\ past'.earned = past.earned
      /\ past'.settled = past.settled /\ DOMAIN past' = DOMAIN past
      /\ past'.mixed = past.mixed \cup {v.id : v \in rows \ {q.found}}
  BY <1>1 DEF IInv, Shape
<1>3. CASE Becomes(r, Idle) /\ rows = {}
  BY <1>1, <1>2, <1>3, GiveUp DEF Same
<1>4. CASE Becomes(r, AfterWrite(q))
  <2>1. Asks(q, past.earned) /\ Knows(q)
    BY DEF IInv, Asked
  <2>2. /\ q.found \in Review /\ q.found.buyer = q.asked.buyer /\ q.asked.id = q.found.id
        /\ DOMAIN q.asked = {"id", "buyer", "a", "b", "rating"}
        /\ q.asked.a \in Score /\ q.asked.b \in Score
        /\ q.asked.rating = rounded_overall(q.asked) /\ q.asked.rating \in 1 .. 5
    BY <1>1, <2>1, MeanInRange DEF Asks, Knows
  <2>3. ASSUME NEW v \in rows
        PROVE  /\ u(v) \in Review /\ u(v).id = v.id /\ u(v).buyer = v.buyer
               /\ v.id \in past'.mixed \/ u(v).rating = rounded_overall(u(v))
    <3>1. v \in Review
      BY DEF IInv, Stored
    <3>2. /\ u(v) \in Review /\ u(v).id = v.id /\ u(v).buyer = v.buyer
          /\ v = q.found => u(v).a = q.asked.a /\ u(v).b = q.asked.b
                            /\ u(v).rating = q.asked.rating
      <4> DEFINE f == q.found
                 a == q.asked
                 x == Updated(v, f, a)
      <4>1. /\ f \in Review /\ DOMAIN a = {"id", "buyer", "a", "b", "rating"}
            /\ a.id = f.id /\ a.buyer = f.buyer
            /\ a.a \in Score /\ a.b \in Score /\ a.rating \in 1 .. 5
        BY <2>2
      <4> HIDE DEF f, a
      <4>2. /\ x \in Review /\ x.id = v.id /\ x.buyer = v.buyer
            /\ v = f => x.a = a.a /\ x.b = a.b /\ x.rating = a.rating
        BY <3>1, <4>1, UpdatedRow
      <4> QED
        BY <4>2 DEF f, a
    <3> HIDE DEF u
    <3>3. CASE v = q.found
      BY <2>2, <3>2, <3>3 DEF rounded_overall, Total
    <3>4. CASE v # q.found
      BY <1>2, <3>2, <3>4
    <3> QED
      BY <3>2, <3>3, <3>4
  <2>4. IsFiniteSet({u(v) : v \in rows})
    <3>1. CASE rows = {}
      BY <3>1, FS_EmptySet
    <3>2. CASE rows # {}
      <4>1. PICK v \in rows : rows = {v}
        BY <3>2 DEF IInv, Unique
      <4>2. {u(w) : w \in rows} = {u(v)}
        BY <4>1
      <4> QED
        BY <4>2, FS_Singleton
    <3> QED
      BY <3>1, <3>2
  <2> HIDE DEF u
  <2>5. \A w \in reviews' : \E v \in reviews :
              /\ w.id = v.id /\ w.buyer = v.buyer
              /\ \/ v \notin rows /\ w = v
                 \/ v \in rows /\ w = u(v)
    BY <1>1, <2>3
  <2>6. Stored'
    <3>1. IsFiniteSet(reviews \ rows)
      BY FS_Difference DEF IInv, Stored
    <3> QED
      BY <1>1, <2>3, <2>4, <3>1, FS_Union DEF IInv, Stored
  <2>7. Numbered' /\ ReviewsEarned'
    BY <1>2, <2>5 DEF IInv, Numbered, ReviewsEarned
  <2>8. Unique'
    BY <2>5 DEF IInv, Unique
  <2>9. RatingIsMean'
    <3>1. ASSUME NEW w \in reviews'
          PROVE  w.id \in past'.mixed \/ w.rating = rounded_overall(w)
      <4>1. PICK v \in reviews : /\ w.id = v.id
                                /\ \/ v \notin rows /\ w = v
                                   \/ v \in rows /\ w = u(v)
        BY <2>5
      <4> QED
        BY <1>2, <2>3, <4>1 DEF IInv, RatingIsMean
    <3> QED
      BY <3>1 DEF RatingIsMean, rounded_overall, Total
  <2> QED
    BY <1>1, <1>2, <1>4, <2>6, <2>7, <2>8, <2>9, WriteStep
<1> QED
  BY <1>1, <1>3, <1>4

(* Who counted alone brings the storefront up to date.                     *)
LEMMA WriteStatsInv ==
  ASSUME IInv, NEW r \in Requests, WriteStats(r)
  PROVE  IInv'
<1> DEFINE q == req[r]
           stored == [col \in DOMAIN profile |->
                      IF q.fresh[col] # q.loaded[col] THEN q.fresh[col] ELSE profile[col]]
<1>1. /\ q.at = "store" /\ profile' = stored /\ past' = [past EXCEPT !.settled = q.alone]
      /\ Becomes(r, Idle) /\ UNCHANGED <<rooms, gone, reviews>>
  BY DEF WriteStats
<1>2. /\ past'.ids = past.ids /\ past'.earned = past.earned /\ past'.settled = q.alone
      /\ past'.mixed = past.mixed /\ DOMAIN past' = DOMAIN past
  BY <1>1 DEF IInv, Shape
<1>3. /\ req'[r] = Idle
      /\ \A o \in Others(r) : req'[o] = req[o]
      /\ req' = [o \in Requests |-> req'[o]]
      /\ \A o \in Requests : DOMAIN req'[o] = Fields /\ req'[o].at \in Places
  BY <1>1, IdleFine, Changed DEF IInv
<1>4. q.alone => /\ \A o \in Others(r) : req[o].at = "idle"
                 /\ q.loaded = profile /\ q.fresh = RatingsOf(reviews)
  BY <1>1 DEF IInv, Alone
<1>5. DOMAIN profile = Columns /\ DOMAIN stored = Columns
  BY DEF IInv, Shape
<1>6. q.alone => stored = RatingsOf(reviews)
  <2> SUFFICES ASSUME q.alone PROVE stored = RatingsOf(reviews)
    OBVIOUS
  <2>1. stored = [col \in Columns |-> RatingsOf(reviews)[col]]
    BY <1>4, <1>5
  <2> QED
    BY <2>1, NoRatingsColumns
<1> HIDE DEF stored
<1>7. Shape'
  BY <1>1, <1>2, <1>3, <1>5 DEF IInv, Shape
<1>8. Stored' /\ Numbered' /\ Unique' /\ ReviewsEarned' /\ RatingIsMean'
  BY <1>1, <1>2 DEF IInv, Stored, Numbered, Unique, ReviewsEarned, RatingIsMean
<1>9. Asked'
  BY <1>2, <1>3, IdleFine DEF IInv, Asked, Others, Asks, Knows
<1>10. Spoken'
  BY <1>1, <1>2 DEF IInv, Spoken, HasInteracted, Chats!HasWritten
<1>11. ASSUME NEW o \in Requests
       PROVE  Alone(o)'
  <2>1. CASE o = r
    BY <1>3, <2>1, IdleFine DEF Alone
  <2>2. CASE o # r
    <3>1. o \in Others(r) /\ r \in Others(o) /\ req'[o] = req[o]
      BY <1>3, <2>2 DEF Others
    <3>2. req[o].at # "idle" => ~req[o].alone
      BY <1>1, <3>1 DEF IInv, Alone
    <3> QED
      BY <3>1, <3>2 DEF Alone
  <2> QED
    BY <2>1, <2>2
<1>12. UpToDate'
  BY <1>1, <1>2, <1>6 DEF UpToDate
<1> QED
  BY <1>7, <1>8, <1>9, <1>10, <1>11, <1>12 DEF IInv

(* A request ends, with what it was about to do.                           *)
LEMMA FailInv ==
  ASSUME IInv, NEW r \in Requests, Fail(r)
  PROVE  IInv'
<1>1. /\ req[r].at # "idle" /\ Becomes(r, Idle) /\ UNCHANGED <<rooms, gone, reviews, profile>>
      /\ past' = [past EXCEPT !.settled = @ /\ req[r].at \notin {"stats", "store"}]
  BY DEF Fail
<1>2. /\ past'.ids = past.ids /\ past'.earned = past.earned
      /\ past'.settled = (past.settled /\ ~Counting(req[r]))
      /\ past'.mixed = past.mixed /\ DOMAIN past' = DOMAIN past
  BY <1>1 DEF IInv, Shape, Counting
<1>3. /\ req'[r] = Idle
      /\ \A o \in Others(r) : req'[o] = req[o]
      /\ req' = [o \in Requests |-> req'[o]]
      /\ \A o \in Requests : DOMAIN req'[o] = Fields /\ req'[o].at \in Places
  BY <1>1, IdleFine, Changed DEF IInv
<1>4. Shape'
  BY <1>1, <1>2, <1>3 DEF IInv, Shape
<1>5. Stored' /\ Numbered' /\ Unique' /\ ReviewsEarned' /\ RatingIsMean'
  BY <1>1, <1>2 DEF IInv, Stored, Numbered, Unique, ReviewsEarned, RatingIsMean
<1>6. Asked'
  BY <1>2, <1>3, IdleFine DEF IInv, Asked, Others, Asks, Knows
<1>7. Spoken'
  BY <1>1, <1>2 DEF IInv, Spoken, HasInteracted, Chats!HasWritten
<1>8. ASSUME NEW o \in Requests
      PROVE  Alone(o)'
  BY <1>1, <1>3, IdleFine DEF IInv, Alone, Others
<1>9. UpToDate'
  <2> SUFFICES ASSUME past.settled, ~Counting(req[r]), \A o \in Requests : ~Counting(req'[o])
               PROVE  profile = RatingsOf(reviews)
    BY <1>1, <1>2 DEF UpToDate
  <2>1. \A o \in Requests : ~Counting(req[o])
    BY <1>3 DEF Others
  <2> QED
    BY <2>1 DEF IInv, UpToDate
<1> QED
  BY <1>4, <1>5, <1>6, <1>7, <1>8, <1>9 DEF IInv

-----------------------------------------------------------------------------
(* Conversations *)

(* Leaving takes conversations away and changes none that is kept.         *)
LEMMA LeaveShrinks ==
  ASSUME rooms \subseteq Chats!Room, NEW u, NEW kept \in SUBSET rooms, Chats!Leave(u, kept, {})
  PROVE  rooms' \subseteq rooms
<1>1. \A c \in kept : [c EXCEPT !.store = IF @ \in {} THEN NoStore ELSE @] = c
  BY DEF Chats!Room
<1> QED
  BY <1>1 DEF Chats!Leave

LEMMA CommitDepartInv ==
  ASSUME IInv, NEW r \in Requests, CommitDepart(r)
  PROVE  IInv'
<1> DEFINE q == req[r]
<1>1. /\ q.at = "forget" /\ Becomes(r, Idle) /\ UNCHANGED profile
      /\ reviews' = {v \in reviews : v.id \notin q.mine}
      /\ past' = [past EXCEPT !.settled = @ /\ q.mine = {}]
  BY DEF CommitDepart
<1>2. rooms' \subseteq rooms
  BY LeaveShrinks DEF CommitDepart, IInv, Shape
<1>3. /\ past'.ids = past.ids /\ past'.earned = past.earned
      /\ past'.settled = (past.settled /\ q.mine = {})
      /\ past'.mixed = past.mixed /\ DOMAIN past' = DOMAIN past
  BY <1>1 DEF IInv, Shape
<1>4. /\ req'[r] = Idle
      /\ \A o \in Others(r) : req'[o] = req[o]
      /\ req' = [o \in Requests |-> req'[o]]
      /\ \A o \in Requests : DOMAIN req'[o] = Fields /\ req'[o].at \in Places
  BY <1>1, IdleFine, Changed DEF IInv
<1>5. Shape'
  BY <1>1, <1>2, <1>3, <1>4 DEF IInv, Shape, Chats!Room, Chats!Pairs, Chats!Said
<1>6. reviews' \subseteq reviews /\ IsFiniteSet(reviews')
  BY <1>1, FS_Subset DEF IInv, Stored
<1>7. Stored' /\ Numbered' /\ Unique' /\ ReviewsEarned' /\ RatingIsMean'
  BY <1>3, <1>6 DEF IInv, Stored, Numbered, Unique, ReviewsEarned, RatingIsMean
<1>8. Asked'
  BY <1>3, <1>4, IdleFine DEF IInv, Asked, Others, Asks, Knows
<1>9. Spoken'
  BY <1>2, <1>3 DEF IInv, Spoken, HasInteracted, Chats!HasWritten
<1>10. ASSUME NEW o \in Requests
       PROVE  Alone(o)'
  <2>1. CASE o = r
    BY <1>4, <2>1, IdleFine DEF Alone
  <2>2. CASE o # r
    <3>1. o \in Others(r) /\ r \in Others(o) /\ req'[o] = req[o]
      BY <1>4, <2>2 DEF Others
    <3>2. req[o].at # "idle" => ~req[o].alone
      BY <1>1, <3>1 DEF IInv, Alone
    <3> QED
      BY <3>1, <3>2 DEF Alone
  <2> QED
    BY <2>1, <2>2
<1>11. UpToDate'
  <2> SUFFICES ASSUME past.settled, q.mine = {}, \A o \in Requests : ~Counting(req'[o])
               PROVE  profile' = RatingsOf(reviews')
    BY <1>3 DEF UpToDate
  <2>1. \A o \in Requests : ~Counting(req[o])
    BY <1>1, <1>4 DEF Others, Counting
  <2>2. reviews' = reviews
    BY <1>1
  <2> QED
    BY <1>1, <2>1, <2>2 DEF IInv, UpToDate
<1> QED
  BY <1>5, <1>7, <1>8, <1>9, <1>10, <1>11 DEF IInv

(* Both modules mean the same by the number of elements.                   *)
LEMMA SameCardinality == ASSUME NEW S PROVE Chats!Cardinality(S) = Cardinality(S)
  BY DEF Chats!Cardinality, Cardinality

(* What is said keeps to the types of Conversations.                       *)
LEMMA RoomChanged ==
  ASSUME NEW c \in Chats!Room, NEW said \in SUBSET Chats!Said,
         NEW store \in Buyers \cup {Seller} \cup {NoStore}
  PROVE  [c EXCEPT !.said = said, !.store = store] \in Chats!Room
  BY DEF Chats!Room

LEMMA TalkTyped ==
  ASSUME rooms \subseteq Chats!Room, NEW u, NEW v, {u, v} \subseteq Buyers \cup {Seller}, u # v,
         NEW store \in {Seller, NoStore}, NEW X \in SUBSET Chats!Said, Chats!Talk(u, v, store, X)
  PROVE  rooms' \subseteq Chats!Room
<1>1. {u, v} \in Chats!Pairs
  <2>1. IsFiniteSet({u}) /\ Cardinality({u}) = 1 /\ v \notin {u}
    BY FS_Singleton
  <2>2. Cardinality({u} \cup {v}) = 2
    BY <2>1, FS_AddElement
  <2>3. {u, v} = {u} \cup {v}
    OBVIOUS
  <2> QED
    BY <2>2, <2>3, SameCardinality DEF Chats!Pairs
<1>2. CASE Chats!Open(u, v, store, X)
  BY <1>1, <1>2 DEF Chats!Open, Chats!Room
<1>3. CASE Chats!Continue(u, v, store, X)
  <2>1. PICK c \in rooms : rooms' = (rooms \ {c}) \cup
                              {[c EXCEPT !.said = @ \cup X, !.store = store]}
    BY <1>3 DEF Chats!Continue
  <2>2. c \in Chats!Room
    OBVIOUS
  <2>3. c.said \cup X \in SUBSET Chats!Said
    BY <2>2 DEF Chats!Room
  <2>4. [c EXCEPT !.said = @ \cup X, !.store = store] \in Chats!Room
    BY <2>2, <2>3, RoomChanged
  <2> QED
    BY <2>1, <2>4
<1> QED
  BY <1>2, <1>3 DEF Chats!Talk

LEMMA ConverseInv ==
  ASSUME IInv, NEW b \in Buyers, NEW store \in {Seller, NoStore}, NEW m \in Messages,
         Converse(b, store, m)
  PROVE  IInv'
<1> DEFINE Writers == {u \in Buyers : \E c \in rooms' : /\ c.pair = {u, Seller} /\ c.store = Seller
                                                  /\ \E x \in c.said : x.from = u}
<1>1. /\ \/ Chats!Talk(b, Seller, store, {[id |-> m, from |-> b]})
         \/ Chats!Talk(b, Seller, store, {})
         \/ Chats!Talk(Seller, b, store, {[id |-> m, from |-> Seller]})
      /\ past' = [past EXCEPT !.earned = @ \cup Writers]
      /\ UNCHANGED <<reviews, profile, req>>
  BY DEF Converse
<1>2. rooms' \subseteq Chats!Room
  <2>1. b # Seller /\ {b, Seller} \subseteq Buyers \cup {Seller}
    BY BuyersAssumption
  <2>2. /\ {[id |-> m, from |-> b]} \in SUBSET Chats!Said
        /\ {[id |-> m, from |-> Seller]} \in SUBSET Chats!Said
        /\ {} \in SUBSET Chats!Said
    BY DEF Chats!Said
  <2>3. ASSUME NEW X \in SUBSET Chats!Said,
               Chats!Talk(b, Seller, store, X) \/ Chats!Talk(Seller, b, store, X)
        PROVE  rooms' \subseteq Chats!Room
    <3>1. rooms \subseteq Chats!Room
      BY DEF IInv, Shape
    <3>2. CASE Chats!Talk(b, Seller, store, X)
      BY <2>1, <3>1, <3>2, TalkTyped
    <3>3. CASE Chats!Talk(Seller, b, store, X)
      BY <2>1, <3>1, <3>3, TalkTyped
    <3> QED
      BY <2>3, <3>2, <3>3
  <2> QED
    BY <1>1, <2>2, <2>3
<1>3. /\ past'.ids = past.ids /\ past'.earned = past.earned \cup Writers
      /\ past'.settled = past.settled
      /\ past'.mixed = past.mixed /\ DOMAIN past' = DOMAIN past
  BY <1>1 DEF IInv, Shape
<1>4. Spoken'
  BY <1>3 DEF Spoken, HasInteracted, Chats!HasWritten
<1> HIDE DEF Writers
<1>5. Shape'
  BY <1>1, <1>2, <1>3 DEF IInv, Shape, Chats!Room, Chats!Pairs, Chats!Said
<1>6. Stored' /\ Numbered' /\ Unique' /\ ReviewsEarned' /\ RatingIsMean'
  BY <1>1, <1>3 DEF IInv, Stored, Numbered, Unique, ReviewsEarned, RatingIsMean
<1>7. Asked'
  BY <1>1, <1>3 DEF IInv, Asked, Asks, Knows
<1>8. (\A r \in Requests : Alone(r))' /\ UpToDate'
  BY <1>1, <1>3 DEF IInv, Alone, UpToDate
<1> QED
  BY <1>4, <1>5, <1>6, <1>7, <1>8 DEF IInv

-----------------------------------------------------------------------------
(* The theorems *)

LEMMA NextInv == IInv /\ [Next]_vars => IInv'
<1> SUFFICES ASSUME IInv, [Next]_vars PROVE IInv'
  OBVIOUS
<1>1. CASE UNCHANGED vars
  <2>1. Shape' /\ Spoken'
    BY <1>1 DEF vars, IInv, Shape, Chats!Room, Chats!Pairs, Chats!Said, Spoken, HasInteracted,
                Chats!HasWritten
  <2>2. Stored' /\ Numbered' /\ Unique' /\ ReviewsEarned' /\ RatingIsMean'
    BY <1>1 DEF vars, IInv, Stored, Numbered, Unique, ReviewsEarned, RatingIsMean
  <2>3. Asked' /\ (\A r \in Requests : Alone(r))' /\ UpToDate'
    BY <1>1 DEF vars, IInv, Asked, Asks, Knows, Alone, UpToDate
  <2> QED
    BY <2>1, <2>2, <2>3 DEF IInv
<1>2. ASSUME NEW r \in Requests, NEW u \in Buyers, NEW payload \in Payloads,
             CreateReview(r, u, payload)
      PROVE  IInv'
  BY <1>2, CreateInv
<1>3. ASSUME NEW r \in Requests, ReadReview(r) \/ InsertReview(r) \/ UpdateReview(r)
      PROVE  IInv'
  BY <1>3, ReadReviewInv, InsertInv, UpdateInv
<1>4. ASSUME NEW r \in Requests, ReadStats(r) \/ WriteStats(r) \/ Fail(r) \/ CommitDepart(r)
      PROVE  IInv'
  BY <1>4, ReadStatsInv, WriteStatsInv, FailInv, CommitDepartInv
<1>5. ASSUME NEW r \in Requests, NEW u \in Buyers, Depart(r, u)
      PROVE  IInv'
  BY <1>5, DepartInv
<1>6. ASSUME NEW b \in Buyers, NEW store \in {Seller, NoStore}, NEW m \in Messages,
             Converse(b, store, m)
      PROVE  IInv'
  BY <1>6, ConverseInv
<1> QED
  BY <1>1, <1>2, <1>3, <1>4, <1>5, <1>6 DEF Next

LEMMA Inductive == Spec => []IInv
  BY InitInv, NextInv, PTL DEF Spec

(* Conversations, reviews and requests stay well formed, and a buyer has   *)
(* one review at most, for any buyers, requests and scores.                *)
THEOREM TypeCorrect == Spec => []TypeOK
<1>1. IInv => TypeOK
  BY DEF IInv, Shape, Stored, Unique, Review, Score, Columns, Places, TypeOK
<1> QED
  BY Inductive, <1>1, PTL

(* No review is by someone who has not written to the owner through the    *)
(* storefront (has_completed_interaction, services/reviews.py).            *)
THEOREM OnlyCustomersReview == Spec => []ReviewsEarned
<1>1. IInv => ReviewsEarned
  BY DEF IInv
<1> QED
  BY Inductive, <1>1, PTL

(* A review shows the rounded mean of its scores, or it is an edit over    *)
(* one its request had not read (create_or_update in services/reviews.py). *)
THEOREM MeanIsShown == Spec => []RatingIsMean
<1>1. IInv => RatingIsMean
  BY DEF IInv
<1> QED
  BY Inductive, <1>1, PTL

(* Once requests have ended, the last of them to count having had none     *)
(* beside it, the storefront's columns are those of its reviews            *)
(* (refresh_seller_ratings, services/ratings.py).                          *)
THEOREM OneRefreshRepairs == Spec => []RatingsSettle
<1>1. IInv => RatingsSettle
  BY DEF IInv, UpToDate, Counting, RatingsSettle, Quiet
<1> QED
  BY Inductive, <1>1, PTL

(* Crowns and stars use up the five-star reviews.                          *)
LEMMA Milestones ==
  ASSUME NEW fives \in Nat
  PROVE  LET counted == PerCrown * compute_golden_crowns(fives)
                          + PerStar * compute_achievement_stars(fives)
         IN  counted <= fives /\ fives - counted < PerStar
<1> DEFINE rest == fives % PerCrown
           stars == rest \div PerStar
<1>1. PerCrown \in Nat \ {0} /\ PerStar \in Nat \ {0}
  BY MilestonesAssumption
<1>2. fives = PerCrown * (fives \div PerCrown) + rest /\ rest \in Nat
  BY <1>1
<1> HIDE DEF rest
<1>3. rest = PerStar * stars + (rest % PerStar) /\ rest % PerStar \in 0 .. PerStar - 1
  BY <1>1, <1>2
<1> QED
  BY <1>1, <1>2, <1>3 DEF compute_golden_crowns, compute_achievement_stars, rest

(* Then the reviews shown with five stars are those SQL counts, none counts*)
(* for two milestones, and fewer than a star's worth count for none,       *)
(* whatever the two thresholds are.                                        *)
THEOREM MilestonesCorrect == Spec => []MilestonesAddUp
<1>1. IInv => MilestonesAddUp
  <2> SUFFICES ASSUME IInv, Quiet, past.settled PROVE MilestonesAddUp
    BY DEF MilestonesAddUp
  <2> DEFINE Shown(v) == IF v.id \in past.mixed THEN rounded_overall(v) ELSE v.rating
             Fives == {v \in reviews : Shown(v) = 5}
             fives == Cardinality(Fives)
  <2>1. fives \in Nat
    BY FS_Subset, FS_CardinalityType DEF IInv, Stored
  <2>2. profile = RatingsOf(reviews)
    BY DEF IInv, UpToDate, Counting, Quiet
  <2>3. Fives = {v \in reviews : CountsAsFive(v)}
    <3>1. \A v \in reviews : Shown(v) = rounded_overall(v)
      BY DEF IInv, RatingIsMean
    <3> QED
      BY <3>1 DEF CountsAsFive, rounded_overall
  <2>4. /\ profile.golden_crowns = compute_golden_crowns(fives)
        /\ profile.achievement_stars = compute_achievement_stars(fives)
    BY <2>2, <2>3 DEF RatingsOf
  <2> HIDE DEF fives
  <2>5. LET counted == PerCrown * profile.golden_crowns + PerStar * profile.achievement_stars
        IN  counted <= fives /\ fives - counted < PerStar
    BY <2>1, <2>4, Milestones
  <2> QED
    BY <2>5 DEF MilestonesAddUp, fives
<1> QED
  BY Inductive, <1>1, PTL
=============================================================================
