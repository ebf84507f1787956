------------------------------- MODULE Reviews -------------------------------
(***************************************************************************)
(* Reviews of a storefront: the right to write one comes from a            *)
(* conversation (services/reviews.py), the review is one transaction and   *)
(* the storefront's averages and milestones a second one of the same       *)
(* session (services/ratings.py), and both run beside others.              *)
(*                                                                         *)
(* Messages come and go by the Conversations specification, which          *)
(* Messaging implements.                                                   *)
(***************************************************************************)
EXTENDS Integers, FiniteSets, FiniteSetsExt

CONSTANTS
    Buyers,
    Seller,   \* the owner of the one storefront, and its name
    Requests, \* slots for requests that run at the same time
    NoStore, Nobody, Messages,
    Payloads, \* scores, as <<quality and service, communication and trust>>
    PerStar,  \* _STARS_PER_ACHIEVEMENT
    PerCrown, \* _FIVE_STARS_PER_CROWN
    MaxReviews, MaxGone \* bounds: reviews ever submitted; accounts deleted

ASSUME BuyersAssumption == Buyers \cap {Seller, NoStore, Nobody} = {} /\ Seller # NoStore
ASSUME PayloadsAssumption == Payloads \subseteq (2 .. 10) \X (2 .. 10)
ASSUME MilestonesAssumption == PerStar \in Nat \ {0} /\ PerCrown \in Nat \ {0}
ASSUME BoundsAssumption == MaxReviews \in Nat /\ MaxGone \in Nat

VARIABLES
    rooms, gone, \* the conversations, and who has left
    reviews,     \* rows: id, buyer, the two scores a and b, rating
    profile,     \* the columns of the storefront that are computed from them
    req,         \* the requests
    past         \* what happened (history)

vars == <<rooms, gone, reviews, profile, req, past>>

Chats == INSTANCE Conversations WITH Users <- Buyers \cup {Seller}

-----------------------------------------------------------------------------
(* Arithmetic *)

(* round(n / d), to the nearest, a half to the even one: Python's, and that*)
(* of a double precision in PostgreSQL                                     *)
HalfEven(n, d) ==
    LET q == n \div d
        twice == 2 * (n % d)
    IN IF twice > d \/ (twice = d /\ q % 2 = 1) THEN q + 1 ELSE q

(* Each category has 1 to 5; a and b are the sums of two of them.          *)
Total(v) == v.a + v.b
rounded_overall(v) == HalfEven(Total(v), 4)

(* Seeded fault: the mean is a numeric in SQL, whose halves round up.      *)
CountsAsFiveNumeric(v) == (Total(v) + 2) \div 4 = 5
(* round(overall_expr) = 5, in SQL; 4.0 is bound as a double precision.    *)
CountsAsFive(v) == HalfEven(Total(v), 4) = 5

compute_golden_crowns(fives) == fives \div PerCrown
compute_achievement_stars(fives) == (fives % PerCrown) \div PerStar

(* The columns, as refresh_seller_ratings computes them from the rows.  The*)
(* four averages of a category are like the one of the total.  In          *)
(* hundredths.                                                             *)
RatingsOf(R) ==
    LET n == Cardinality(R)
        fives == Cardinality({v \in R : CountsAsFive(v)})
    IN [review_count |-> n,
        average_rating |-> IF n = 0 THEN 0
                           ELSE HalfEven(100 * MapThenSumSet(Total, R), 4 * n),
        golden_crowns |-> compute_golden_crowns(fives),
        achievement_stars |-> compute_achievement_stars(fives)]

-----------------------------------------------------------------------------
(* Requests *)

(* at     : read, write, stats, store (POST /reviews), forget (DELETE /me) *)
(* loaded : the storefront's columns as the session knows them             *)
(* asked  : the review as the payload has it                               *)
(* found  : the review as the session knows it                             *)
(* fresh  : the columns it computed                                        *)
(* mine   : the rows that a deletion deletes                               *)
(* alone  : no other request has run beside it (history)                   *)
NoRatings == RatingsOf({})
NoReview == [id |-> 0, buyer |-> Nobody, a |-> 0, b |-> 0, rating |-> 0]
Idle == [at |-> "idle", user |-> Nobody, loaded |-> NoRatings, asked |-> NoReview,
         found |-> NoReview, fresh |-> NoRatings, mine |-> {}, alone |-> TRUE]

Others(r) == Requests \ {r}
Busy(r) == \E o \in Others(r) : req[o].at # "idle"

(* a request begins: from now on those that run are not alone              *)
Begin(r, q) ==
    req' = [o \in Requests |->
              IF o = r THEN [q EXCEPT !.alone = ~Busy(r)]
              ELSE IF req[o].at = "idle" THEN req[o] ELSE [req[o] EXCEPT !.alone = FALSE]]
Becomes(r, q) == req' = [req EXCEPT ![r] = q]

(* Seeded fault: whoever is in a conversation of the storefront may review.*)
HasConversation(u) == \E c \in rooms : c.pair = {u, Seller} /\ c.store = Seller
(* has_completed_interaction                                               *)
HasInteracted(u) == Chats!HasWritten(u, Seller)

ReviewOf(u) == {v \in reviews : v.buyer = u}

(* Seeded fault: the overall rating is computed for a new review only.     *)
RatingOfNew(asked, found) == IF found.id = 0 THEN rounded_overall(asked) ELSE found.rating
RatingOf(asked, found) == rounded_overall(asked)

(* POST /sellers/{id}/reviews: the storefront is loaded, the right checked;*)
(* anybody else gets 403 or 404.                                           *)
CreateReview(r, u, payload) ==
    /\ req[r].at = "idle"
    /\ u \notin gone
    /\ HasInteracted(u)
    /\ past.submitted < MaxReviews
    /\ Begin(r, [Idle EXCEPT !.at = "read", !.user = u, !.loaded = profile,
                    !.asked.buyer = u, !.asked.a = payload[1], !.asked.b = payload[2]])
    /\ past' = [past EXCEPT !.submitted = @ + 1]
    /\ UNCHANGED <<rooms, gone, reviews, profile>>

(* SELECT of the review there may be; the payload is assigned to it.       *)
ReadReview(r) ==
    LET q == req[r] IN
    /\ q.at = "read"
    /\ \E found \in (IF ReviewOf(q.user) = {} THEN {NoReview} ELSE ReviewOf(q.user)) :
          Becomes(r, [q EXCEPT !.at = "write", !.found = found, !.asked.id = found.id,
                               !.asked.rating = RatingOf(q.asked, found)])
    /\ UNCHANGED <<rooms, gone, reviews, profile, past>>

(* Seeded fault: the unique constraint is missing.                         *)
TakenNever(u) == FALSE
(* uq_review_seller_buyer                                                  *)
Taken(u) == ReviewOf(u) # {}

(* Seeded fault: only a new review changes the averages.                   *)
AfterNew(q) == IF q.found.id = 0 THEN [Idle EXCEPT !.at = "stats", !.loaded = q.loaded,
                                                  !.alone = q.alone]
               ELSE Idle
AfterWrite(q) == [Idle EXCEPT !.at = "stats", !.loaded = q.loaded, !.alone = q.alone]

(* rows that a deletion in progress has locked                             *)
Locked(r, ids) == \E o \in Others(r) : req[o].at = "forget" /\ ids \cap req[o].mine # {}

(* A first review is inserted and committed; a second one fails with 409.  *)
InsertReview(r) ==
    LET q == req[r] IN
    /\ q.at = "write"
    /\ q.found = NoReview
    /\ ~Locked(r, {v.id : v \in ReviewOf(q.user)})
    /\ IF Taken(q.user) THEN Becomes(r, Idle) /\ UNCHANGED <<reviews, past>>
       ELSE /\ reviews' = reviews \cup {[q.asked EXCEPT !.id = past.ids + 1]}
            /\ past' = [past EXCEPT !.ids = @ + 1]
            /\ Becomes(r, AfterWrite(q))
    /\ UNCHANGED <<rooms, gone, profile>>

(* The columns of v, of those assigned the ones that have changed.         *)
Updated(v, found, asked) ==
    [col \in DOMAIN v |-> IF asked[col] # found[col] THEN asked[col] ELSE v[col]]

(* An edit is written and committed.  Nothing is, when the scores are the  *)
(* same; the row of a review that has gone meanwhile is missed otherwise.  *)
UpdateReview(r) ==
    LET q == req[r]
        rows == {v \in reviews : v.id = q.found.id}
    IN
    /\ q.at = "write"
    /\ q.found # NoReview
    /\ ~Locked(r, {q.found.id})
    /\ IF rows = {} /\ q.asked # q.found THEN Becomes(r, Idle) ELSE Becomes(r, AfterWrite(q))
    /\ reviews' = (reviews \ rows) \cup {Updated(v, q.found, q.asked) : v \in rows}
    /\ past' = [past EXCEPT !.mixed = @ \cup {v.id : v \in rows \ {q.found}}]
    /\ UNCHANGED <<rooms, gone, profile>>

(* refresh_seller_ratings, a transaction of its own: the rows are counted. *)
ReadStats(r) ==
    /\ req[r].at = "stats"
    /\ Becomes(r, [req[r] EXCEPT !.at = "store", !.fresh = RatingsOf(reviews)])
    /\ UNCHANGED <<rooms, gone, reviews, profile, past>>

(* The session still has the storefront that it loaded before (it expires  *)
(* nothing on commit), and writes the columns that differ from that one.   *)
WriteStats(r) ==
    LET q == req[r]
        stored == [col \in DOMAIN profile |->
                      IF q.fresh[col] # q.loaded[col] THEN q.fresh[col] ELSE profile[col]]
    IN
    /\ q.at = "store"
    /\ profile' = stored
    /\ past' = [past EXCEPT !.settled = q.alone]
    /\ Becomes(r, Idle)
    /\ UNCHANGED <<rooms, gone, reviews>>

(* The request fails, or its process stops, between two statements.        *)
Fail(r) ==
    /\ req[r].at # "idle"
    /\ past' = [past EXCEPT !.settled = @ /\ req[r].at \notin {"stats", "store"}]
    /\ Becomes(r, Idle)
    /\ UNCHANGED <<rooms, gone, reviews, profile>>

(* DELETE /me of a buyer without a storefront: his reviews are deleted ... *)
Depart(r, u) ==
    /\ req[r].at = "idle"
    /\ u \notin gone
    /\ Cardinality(gone) < MaxGone
    /\ \A o \in Requests : req[o].at # "forget"
    /\ Begin(r, [Idle EXCEPT !.at = "forget", !.user = u, !.mine = {v.id : v \in ReviewOf(u)}])
    /\ UNCHANGED <<rooms, gone, reviews, profile, past>>

(* ... and he is gone; the storefronts' columns stay as they are.          *)
CommitDepart(r) ==
    LET q == req[r] IN
    /\ q.at = "forget"
    /\ \E kept \in SUBSET rooms : Chats!Leave(q.user, kept, {})
    /\ reviews' = {v \in reviews : v.id \notin q.mine}
    /\ past' = [past EXCEPT !.settled = @ /\ q.mine = {}]
    /\ Becomes(r, Idle)
    /\ UNCHANGED profile

(* A buyer opens a conversation, through the storefront or not, and may    *)
(* write; so does the seller.                                              *)
Converse(b, store, m) ==
    /\ b \notin gone
    /\ \/ Chats!Talk(b, Seller, store, {[id |-> m, from |-> b]})
       \/ Chats!Talk(b, Seller, store, {})
       \/ Chats!Talk(Seller, b, store, {[id |-> m, from |-> Seller]})
    /\ past' = [past EXCEPT !.earned = @ \cup
           {u \in Buyers : \E c \in rooms' : /\ c.pair = {u, Seller} /\ c.store = Seller
                                             /\ \E x \in c.said : x.from = u}]
    /\ UNCHANGED <<reviews, profile, req>>

-----------------------------------------------------------------------------

Init ==
    /\ Chats!Init
    /\ reviews = {}
    /\ profile = NoRatings
    /\ req = [r \in Requests |-> Idle]
    /\ past = [ids |-> 0, submitted |-> 0, earned |-> {}, settled |-> TRUE, mixed |-> {}]

Next ==
    \/ \E r \in Requests :
          \/ \E u \in Buyers, payload \in Payloads : CreateReview(r, u, payload)
          \/ ReadReview(r) \/ InsertReview(r) \/ UpdateReview(r) \/ ReadStats(r) \/ WriteStats(r)
          \/ Fail(r)
          \/ \E u \in Buyers : Depart(r, u)
          \/ CommitDepart(r)
    \/ \E b \in Buyers, store \in {Seller, NoStore}, m \in Messages : Converse(b, store, m)

Spec == Init /\ [][Next]_vars

-----------------------------------------------------------------------------
(* Properties *)

(* Types, and one review of a buyer at most.                               *)
TypeOK ==
    /\ rooms \subseteq Chats!Room
    /\ \A v, w \in reviews : v.id = w.id \/ v.buyer = w.buyer => v = w
    /\ \A v \in reviews : /\ v.buyer \in Buyers /\ v.rating \in 1 .. 5
                          /\ v.a \in 2 .. 10 /\ v.b \in 2 .. 10
    /\ DOMAIN profile = {"review_count", "average_rating", "golden_crowns", "achievement_stars"}
    /\ \A r \in Requests :
          req[r].at \in {"idle", "read", "write", "stats", "store", "forget"}

(* Every review is by someone who has written to the owner through this    *)
(* storefront ("a message from the prospective reviewer"), whatever became *)
(* of the conversation since.                                              *)
ReviewsEarned == \A v \in reviews : v.buyer \in past.earned

(* When nothing runs, the storefront shows the averages and milestones of  *)
(* the reviews it has, provided that the last review to be counted had no  *)
(* other request beside it, and neither an account was deleted nor a       *)
(* request cut off after it: one review like that repairs whatever others  *)
(* left behind.                                                            *)
Quiet == \A r \in Requests : req[r].at = "idle"
RatingsSettle == Quiet /\ past.settled => profile = RatingsOf(reviews)

(* What Python stored as the rating of each review and what SQL counted    *)
(* agree: then, a crown stands for PerCrown reviews that are shown with    *)
(* five stars and a star for PerStar, no review counts for both, and fewer *)
(* than PerStar count for none.  (An edit written over one that it had not *)
(* read has a rating of its own: there the scores tell.)                   *)
MilestonesAddUp ==
    Quiet /\ past.settled =>
        LET shown(v) == IF v.id \in past.mixed THEN rounded_overall(v) ELSE v.rating
            fives == Cardinality({v \in reviews : shown(v) = 5})
            counted == PerCrown * profile.golden_crowns + PerStar * profile.achievement_stars
        IN counted <= fives /\ fives - counted < PerStar

(* A review's rating is the rounded mean of its scores, unless an edit was *)
(* written over one that it had not read: then the row has some scores of  *)
(* each.                                                                   *)
RatingIsMean == \A v \in reviews : v.id \in past.mixed \/ v.rating = rounded_overall(v)

=============================================================================
