-------------------------- MODULE MigrationsProofs --------------------------
(***************************************************************************)
(* What holds of Migrations for any containers and operators, any releases *)
(* and downgrades, any users and storefronts, however many rows they write.*)
(*                                                                         *)
(* The proofs follow one process: where it is in its scripts (Placed) says *)
(* which tables it has locked (Held) and what the rows it sees look like   *)
(* (Scored, JobFits, UpKept); the program writes only to tables that are   *)
(* not locked.  Which statement of which script writes those rows is what  *)
(* the lemmas about the scripts are for.  The last part is about schemas:  *)
(* an object of the schema has an age, the revision whose scripts create   *)
(* and drop it, and from this follows which schema a process makes of      *)
(* another (Built), and which one is committed (Followed).                 *)
(***************************************************************************)
EXTENDS Migrations, SequenceTheorems, FiniteSetTheorems, TLAPS

-----------------------------------------------------------------------------
(* The scripts: which statements touch rows, and where they are            *)

Entries(s) == {s[i] : i \in DOMAIN s}
IsList(s) == s \in Seq(Entries(s))

(* A statement that leaves favourites, conversations, messages, five-star  *)
(* reviews and milestones alone.                                           *)
Calm(s) ==
    /\ s.op \in {"drop_table", "drop_cascade"} =>
          s.table \notin {"favorites", "conversations", "messages", "reviews",
                          "seller_profiles"}
    /\ s.op = "drop_column" => s.table # "conversations" /\ s.name # "golden_crowns"
    /\ s.op = "rows" =>
          s.name \in {"seed_categories", "delete_categories", "seed_plans",
                      "backfill_scores"}
AllCalm(script) ==
    IsList(script) /\ Len(script) > 0 /\ \A k \in 1 .. Len(script) : Calm(script[k])
(* names of columns that can be dropped by a calm statement                *)
Plain(names) ==
    IsList(names) /\ Len(names) > 0 /\ \A i \in 1 .. Len(names) : names[i] # "golden_crowns"

(* A sequence over any set is a list of its entries.                       *)
LEMMA ListOf ==
    ASSUME NEW U, NEW s \in Seq(U)
    PROVE  IsList(s) /\ Len(s) \in Nat
<1>1. s \in [1 .. Len(s) -> U] /\ Len(s) \in Nat /\ DOMAIN s = 1 .. Len(s)
  OBVIOUS
<1>2. s \in [1 .. Len(s) -> Entries(s)]
  BY <1>1 DEF Entries
<1> QED BY <1>1, <1>2 DEF IsList

LEMMA ListMade ==
    ASSUME NEW n \in Nat, NEW f, NEW U, f \in [1 .. n -> U]
    PROVE  IsList(f) /\ Len(f) = n
<1>1. f \in Seq(U) /\ Len(f) = n
  OBVIOUS
<1> QED BY <1>1, ListOf

(* Where the statements of two joined scripts are.                         *)
LEMMA ListJoin ==
    ASSUME NEW s, NEW t, IsList(s), IsList(t)
    PROVE  /\ IsList(s \o t)
           /\ Len(s) \in Nat /\ Len(t) \in Nat
           /\ Len(s \o t) = Len(s) + Len(t)
           /\ \A k \in 1 .. Len(s) : (s \o t)[k] = s[k]
           /\ \A k \in Len(s) + 1 .. Len(s) + Len(t) : (s \o t)[k] = t[k - Len(s)]
<1> DEFINE U == Entries(s) \cup Entries(t)
<1>1. s \in Seq(U) /\ t \in Seq(U)
  <2>1. /\ s \in [1 .. Len(s) -> Entries(s)] /\ Len(s) \in Nat
        /\ t \in [1 .. Len(t) -> Entries(t)] /\ Len(t) \in Nat
    BY DEF IsList
  <2> QED BY <2>1
<1> HIDE DEF U
<1>2. s \o t \in Seq(U) /\ Len(s \o t) = Len(s) + Len(t) /\ Len(s) \in Nat /\ Len(t) \in Nat
  BY <1>1
<1>3. IsList(s \o t)
  BY <1>2, ListOf
<1> QED BY <1>1, <1>2, <1>3

LEMMA CalmJoin ==
    ASSUME NEW s, NEW t, AllCalm(s), AllCalm(t)
    PROVE  AllCalm(s \o t) /\ Len(s \o t) = Len(s) + Len(t) /\ Len(s) \in Nat /\ Len(t) \in Nat
<1>1. IsList(s) /\ IsList(t)
  BY DEF AllCalm
<1>2. ASSUME NEW k \in 1 .. Len(s \o t) PROVE Calm((s \o t)[k])
  <2>1. CASE k <= Len(s)
    BY <1>1, <2>1, ListJoin DEF AllCalm
  <2>2. CASE k > Len(s)
    <3>1. k - Len(s) \in 1 .. Len(t) /\ (s \o t)[k] = t[k - Len(s)]
      BY <1>1, <2>2, ListJoin
    <3> QED BY <3>1 DEF AllCalm
  <2> QED BY <1>1, <2>1, <2>2, ListJoin
<1> QED BY <1>1, <1>2, ListJoin DEF AllCalm

LEMMA EachIs ==
    ASSUME NEW names, IsList(names), NEW t
    PROVE  /\ Columns(t, names) = [i \in 1 .. Len(names) |->
                 Statement("add_column", t, names[i], {names[i]}, FALSE)]
           /\ ColumnsIfMissing(t, names) = [i \in 1 .. Len(names) |->
                 Statement("add_column", t, names[i], {names[i]}, TRUE)]
           /\ DropColumns(t, names) = [i \in 1 .. Len(names) |->
                 Statement("drop_column", t, names[i], {names[i]}, FALSE)]
           /\ DropColumnsIfThere(t, names) = [i \in 1 .. Len(names) |->
                 Statement("drop_column", t, names[i], {names[i]}, TRUE)]
           /\ NotNull(t, names) = [i \in 1 .. Len(names) |->
                 Statement("set_not_null", t, names[i], {names[i]}, FALSE)]
           /\ Each(OldTable, names) = [i \in 1 .. Len(names) |-> OldTable(names[i])]
           /\ Each(CascadeIfThere, names) = [i \in 1 .. Len(names) |-> CascadeIfThere(names[i])]
           /\ Len(names) \in Nat
<1>1. DOMAIN names = 1 .. Len(names) /\ Len(names) \in Nat
  BY DEF IsList
<1> QED BY <1>1 DEF Columns, ColumnsIfMissing, DropColumns, DropColumnsIfThere, NotNull, Each

(* Columns are added and required calmly.                                  *)
LEMMA CalmColumns ==
    ASSUME NEW names, Plain(names), NEW t
    PROVE  /\ AllCalm(Columns(t, names)) /\ Len(Columns(t, names)) = Len(names)
           /\ AllCalm(ColumnsIfMissing(t, names)) /\ Len(ColumnsIfMissing(t, names)) = Len(names)
           /\ AllCalm(NotNull(t, names)) /\ Len(NotNull(t, names)) = Len(names)
<1> USE DEF Plain
<1> DEFINE A == [i \in 1 .. Len(names) |-> Statement("add_column", t, names[i], {names[i]}, FALSE)]
           B == [i \in 1 .. Len(names) |-> Statement("add_column", t, names[i], {names[i]}, TRUE)]
           C == [i \in 1 .. Len(names) |-> Statement("set_not_null", t, names[i], {names[i]}, FALSE)]
<1>1. /\ Columns(t, names) = A /\ ColumnsIfMissing(t, names) = B /\ NotNull(t, names) = C
      /\ Len(names) \in Nat
  BY EachIs, ZenonT(60)
<1>2. /\ A \in [1 .. Len(names) -> {A[i] : i \in 1 .. Len(names)}]
      /\ B \in [1 .. Len(names) -> {B[i] : i \in 1 .. Len(names)}]
      /\ C \in [1 .. Len(names) -> {C[i] : i \in 1 .. Len(names)}]
  OBVIOUS
<1>3. /\ \A i \in 1 .. Len(names) : A[i].op = "add_column" /\ B[i].op = "add_column"
      /\ \A i \in 1 .. Len(names) : C[i].op = "set_not_null"
  BY DEF Statement
<1> HIDE DEF A, B, C
<1>4. /\ IsList(A) /\ Len(A) = Len(names) /\ IsList(B) /\ Len(B) = Len(names)
      /\ IsList(C) /\ Len(C) = Len(names)
  BY <1>1, <1>2, ListMade
<1> QED BY <1>1, <1>3, <1>4 DEF AllCalm, Calm

(* Columns of other tables than conversations are dropped calmly.          *)
LEMMA CalmDrops ==
    ASSUME NEW names, Plain(names), NEW t, t # "conversations"
    PROVE  /\ AllCalm(DropColumns(t, names)) /\ Len(DropColumns(t, names)) = Len(names)
           /\ AllCalm(DropColumnsIfThere(t, names))
           /\ Len(DropColumnsIfThere(t, names)) = Len(names)
<1> USE DEF Plain
<1> DEFINE A == [i \in 1 .. Len(names) |-> Statement("drop_column", t, names[i], {names[i]}, FALSE)]
           B == [i \in 1 .. Len(names) |-> Statement("drop_column", t, names[i], {names[i]}, TRUE)]
<1>1. DropColumns(t, names) = A /\ DropColumnsIfThere(t, names) = B /\ Len(names) \in Nat
  BY EachIs, ZenonT(60)
<1>2. /\ A \in [1 .. Len(names) -> {A[i] : i \in 1 .. Len(names)}]
      /\ B \in [1 .. Len(names) -> {B[i] : i \in 1 .. Len(names)}]
  OBVIOUS
<1>3. \A i \in 1 .. Len(names) :
        /\ A[i].op = "drop_column" /\ A[i].table = t /\ A[i].name = names[i]
        /\ B[i].op = "drop_column" /\ B[i].table = t /\ B[i].name = names[i]
  BY DEF Statement
<1> HIDE DEF A, B
<1>4. IsList(A) /\ Len(A) = Len(names) /\ IsList(B) /\ Len(B) = Len(names)
  BY <1>1, <1>2, ListMade
<1> QED BY <1>1, <1>3, <1>4 DEF AllCalm, Calm

LEMMA CalmKinds ==
    /\ \A t, a, b, c, d : Calm(NewTable(t, a, b, c, d))
    /\ \A n, t, c : Calm(Index(n, t, c)) /\ Calm(UniqueIndex(n, t, c)) /\ Calm(Check(n, t, c))
    /\ \A n, t, c : Calm(IndexIfMissing(n, t, c)) /\ Calm(UniqueIfMissing(n, t, c))
    /\ \A n, t, c, d : Calm(Foreign(n, t, c, d))
    /\ \A n, t : Calm(Drop(n, t)) /\ Calm(DropIfThere(n, t))
    /\ \A t, c : Calm(Retype(t, c, "to_numeric")) /\ Calm(Retype(t, c, "to_double"))
    /\ \A t : t \notin {"favorites", "conversations", "messages", "reviews", "seller_profiles"}
              => Calm(OldTable(t)) /\ Calm(CascadeIfThere(t))
    /\ \A t, c : /\ Calm(Rows(t, "seed_categories", c)) /\ Calm(Rows(t, "delete_categories", c))
                 /\ Calm(Rows(t, "seed_plans", c)) /\ Calm(Rows(t, "backfill_scores", c))
BY DEF Calm, NewTable, Index, UniqueIndex, Check, IndexIfMissing, UniqueIfMissing, Foreign,
       Drop, DropIfThere, Retype, OldTable, CascadeIfThere, Rows, Statement

LEMMA Tuples ==
    /\ \A a : IsList(<<a>>) /\ Len(<<a>>) = 1
    /\ \A a, b : IsList(<<a, b>>) /\ Len(<<a, b>>) = 2
    /\ \A a, b, c : IsList(<<a, b, c>>) /\ Len(<<a, b, c>>) = 3
    /\ \A a, b, c, d : IsList(<<a, b, c, d>>) /\ Len(<<a, b, c, d>>) = 4
    /\ \A a, b, c, d, e : IsList(<<a, b, c, d, e>>) /\ Len(<<a, b, c, d, e>>) = 5
    /\ \A a, b, c, d, e, f : IsList(<<a, b, c, d, e, f>>) /\ Len(<<a, b, c, d, e, f>>) = 6
    /\ \A a, b, c, d, e, f, g : IsList(<<a, b, c, d, e, f, g>>) /\ Len(<<a, b, c, d, e, f, g>>) = 7
    /\ \A a, b, c, d, e, f, g, h : IsList(<<a, b, c, d, e, f, g, h>>) /\ Len(<<a, b, c, d, e, f, g, h>>) = 8
BY DEF IsList, Entries

LEMMA CalmTuples ==
    /\ \A a :
          Calm(a)
          => AllCalm(<<a>>) /\ Len(<<a>>) = 1
    /\ \A a, b :
          Calm(a) /\ Calm(b)
          => AllCalm(<<a, b>>) /\ Len(<<a, b>>) = 2
    /\ \A a, b, c :
          Calm(a) /\ Calm(b) /\ Calm(c)
          => AllCalm(<<a, b, c>>) /\ Len(<<a, b, c>>) = 3
    /\ \A a, b, c, d :
          Calm(a) /\ Calm(b) /\ Calm(c) /\ Calm(d)
          => AllCalm(<<a, b, c, d>>) /\ Len(<<a, b, c, d>>) = 4
    /\ \A a, b, c, d, e :
          Calm(a) /\ Calm(b) /\ Calm(c) /\ Calm(d) /\ Calm(e)
          => AllCalm(<<a, b, c, d, e>>) /\ Len(<<a, b, c, d, e>>) = 5
    /\ \A a, b, c, d, e, f :
          Calm(a) /\ Calm(b) /\ Calm(c) /\ Calm(d) /\ Calm(e) /\ Calm(f)
          => AllCalm(<<a, b, c, d, e, f>>) /\ Len(<<a, b, c, d, e, f>>) = 6
    /\ \A a, b, c, d, e, f, g :
          Calm(a) /\ Calm(b) /\ Calm(c) /\ Calm(d) /\ Calm(e) /\ Calm(f) /\ Calm(g)
          => AllCalm(<<a, b, c, d, e, f, g>>) /\ Len(<<a, b, c, d, e, f, g>>) = 7
    /\ \A a, b, c, d, e, f, g, h :
          Calm(a) /\ Calm(b) /\ Calm(c) /\ Calm(d) /\ Calm(e) /\ Calm(f) /\ Calm(g) /\ Calm(h)
          => AllCalm(<<a, b, c, d, e, f, g, h>>) /\ Len(<<a, b, c, d, e, f, g, h>>) = 8
BY DEF AllCalm, IsList, Entries

LEMMA CalmUp001Sellers == AllCalm(Up001Sellers)
BY CalmKinds, CalmTuples, Zenon DEF Up001Sellers

LEMMA CalmUp001Listings == AllCalm(Up001Listings)
BY CalmKinds, CalmTuples, Zenon DEF Up001Listings

LEMMA CalmUp001 == AllCalm(Up001)
BY CalmUp001Sellers, CalmUp001Listings, CalmJoin DEF Up001

LEMMA CalmUp002 == AllCalm(Up002)
BY CalmKinds, CalmTuples, Zenon DEF Up002

LEMMA CalmUp003 == AllCalm(Up003)
BY CalmKinds, CalmTuples, Zenon DEF Up003

LEMMA CalmUp004 == AllCalm(Up004)
BY CalmKinds, CalmTuples, Zenon DEF Up004

LEMMA CalmUp005 == AllCalm(Up005)
<1>1. Plain(<<"logo_image_url", "opening_hours", "profile_view_count">>)
  BY DEF Plain, IsList, Entries
<1> QED BY <1>1, CalmColumns DEF Up005

LEMMA CalmUp006Columns == AllCalm(Up006Columns)
<1>1. /\ Plain(<<"email_verified_at", "phone", "status", "role", "last_login_at",
                 "is_premium", "premium_until", "mfa_enabled">>)
      /\ Plain(<<"device_name", "ip_address", "user_agent", "last_seen_at">>)
      /\ Plain(<<"stock_quantity", "sku", "is_hidden">>)
      /\ Plain(<<"verification_status", "is_premium", "total_sales_mad", "order_count">>)
  BY DEF Plain, IsList, Entries
<1> QED BY <1>1, CalmColumns, CalmJoin DEF Up006Columns

LEMMA CalmUp006Accounts == AllCalm(Up006Accounts)
BY CalmKinds, CalmTuples, Zenon DEF Up006Accounts

LEMMA CalmUp006Carts == AllCalm(Up006Carts)
BY CalmKinds, CalmTuples, Zenon DEF Up006Carts

LEMMA CalmUp006Orders == AllCalm(Up006Orders)
BY CalmKinds, CalmTuples, Zenon DEF Up006Orders

LEMMA CalmUp006Messaging == AllCalm(Up006Messaging)
BY CalmKinds, CalmTuples, Zenon DEF Up006Messaging

LEMMA CalmUp006Premium == AllCalm(Up006Premium)
BY CalmKinds, CalmTuples, Zenon DEF Up006Premium

LEMMA CalmUp006 == AllCalm(Up006)
BY CalmUp006Columns, CalmUp006Accounts, CalmUp006Carts, CalmUp006Orders, CalmUp006Messaging,
   CalmUp006Premium, CalmJoin DEF Up006

LEMMA CalmUp007Commerce == AllCalm(Up007Commerce)
<1> DEFINE T == <<"order_items", "orders", "cart_items", "buyer_addresses", "coupons">>
           A == [i \in 1 .. 5 |-> CascadeIfThere(T[i])]
<1>1. IsList(T) /\ Len(T) = 5
  BY DEF IsList, Entries
<1>2. \A i \in 1 .. 5 : T[i] \notin {"favorites", "conversations", "messages", "reviews",
                                     "seller_profiles"}
  OBVIOUS
<1> HIDE DEF T
<1>3. \A i \in 1 .. 5 : Calm(CascadeIfThere(T[i]))
  BY <1>2, CalmKinds
<1>4. A \in [1 .. 5 -> {A[i] : i \in 1 .. 5}] /\ \A i \in 1 .. 5 : Calm(A[i])
  BY <1>3
<1>5. Up007Commerce = A
  BY <1>1, EachIs DEF Up007Commerce, T
<1> HIDE DEF A
<1>6. IsList(A) /\ Len(A) = 5
  BY <1>4, ListMade
<1> QED BY <1>4, <1>5, <1>6 DEF AllCalm

LEMMA CalmUp007Sellers == AllCalm(Up007Sellers)
<1>1. /\ Plain(<<"website_url", "instagram_url", "facebook_url", "tiktok_url",
                 "whatsapp_number", "payment_methods", "delivery_methods",
                 "service_areas", "avg_response_minutes", "inquiry_count",
                 "favorite_count", "contact_click_count">>)
      /\ Plain(<<"total_sales_mad", "order_count">>)
  BY DEF Plain, IsList, Entries
<1> QED BY <1>1, CalmColumns, CalmDrops, CalmJoin DEF Up007Sellers

LEMMA CalmUp007Listings == AllCalm(Up007Listings)
<1>1. /\ Plain(<<"price_negotiable", "availability_note", "accepted_payment_methods",
                 "delivery_options", "is_featured", "is_paused", "media_urls",
                 "video_url", "category_slug">>)
      /\ Plain(<<"sku">>)
      /\ Plain(<<"price_negotiable", "coverage_areas", "is_featured">>)
  BY DEF Plain, IsList, Entries
<1>2. AllCalm(<<CascadeIfThere("wishlist_items")>>)
  BY CalmKinds, CalmTuples, Zenon
<1> QED BY <1>1, <1>2, CalmColumns, CalmDrops, CalmJoin DEF Up007Listings

LEMMA CalmUp007Follows == AllCalm(Up007Follows)
BY CalmKinds, CalmTuples, Zenon DEF Up007Follows

LEMMA CalmUp007Discovery == AllCalm(Up007Discovery)
BY CalmKinds, CalmTuples, Zenon DEF Up007Discovery

LEMMA CalmUp007 == AllCalm(Up007)
BY CalmUp007Commerce, CalmUp007Sellers, CalmUp007Listings, CalmUp007Follows, CalmUp007Discovery,
   CalmJoin DEF Up007

LEMMA CalmUp009 == AllCalm(Up009) /\ AllCalm(Down009)
<1> DEFINE A == [i \in 1 .. 3 |-> Retype(Priced[i], "price_mad", "to_numeric")]
           B == [i \in 1 .. 3 |-> Retype(Priced[i], "price_mad", "to_double")]
<1>1. /\ A \in [1 .. 3 -> {A[i] : i \in 1 .. 3}] /\ \A i \in 1 .. 3 : Calm(A[i])
      /\ B \in [1 .. 3 -> {B[i] : i \in 1 .. 3}] /\ \A i \in 1 .. 3 : Calm(B[i])
  BY CalmKinds
<1>2. DOMAIN Priced = 1 .. 3
  BY DEF Priced
<1>3. Up009 = A /\ Down009 = B
  BY <1>2 DEF Up009, Down009, Each
<1> HIDE DEF A, B
<1>4. IsList(A) /\ Len(A) = 3 /\ IsList(B) /\ Len(B) = 3
  BY <1>1, ListMade
<1> QED BY <1>1, <1>3, <1>4 DEF AllCalm

LEMMA CalmUp010 == AllCalm(Up010)
BY CalmKinds, CalmTuples, Zenon DEF Up010

LEMMA CalmDown002 == AllCalm(Down002)
BY CalmKinds, CalmTuples, Zenon DEF Down002

LEMMA CalmDown003 == AllCalm(Down003)
BY CalmKinds, CalmTuples, Zenon DEF Down003

LEMMA CalmDown004 == AllCalm(Down004)
BY CalmKinds, CalmTuples, Zenon DEF Down004

LEMMA CalmDown008 == AllCalm(Down008)
BY CalmKinds, CalmTuples, Zenon DEF Down008

LEMMA CalmDown010 == AllCalm(Down010)
BY CalmKinds, CalmTuples, Zenon DEF Down010

LEMMA CalmDown005 == AllCalm(Down005)
<1>1. Plain(<<"profile_view_count", "opening_hours", "logo_image_url">>)
  BY DEF Plain, IsList, Entries
<1> QED BY <1>1, CalmDrops DEF Down005

LEMMA CalmDown012 == AllCalm(Down012)
<1>1. Plain(Averages) /\ Plain(Scores)
  BY DEF Plain, IsList, Entries, Averages, Scores
<1> QED BY <1>1, CalmDrops, CalmJoin DEF Down012

Size(s) == Len(s)
Join(s, t) == s \o t
Is(s, op, t, name) == s.op = op /\ s.table = t /\ s.name = name

(* Lengths and joins under names of their own: unfolded, the provers lose  *)
(* themselves in what they know of sequences.                              *)
LEMMA Joined ==
    \A s, t : IsList(s) /\ IsList(t) =>
        /\ IsList(Join(s, t))
        /\ Size(s) \in Nat /\ Size(t) \in Nat
        /\ Size(Join(s, t)) = Size(s) + Size(t)
        /\ \A k \in 1 .. Size(s) : Join(s, t)[k] = s[k]
        /\ \A k \in Size(s) + 1 .. Size(s) + Size(t) : Join(s, t)[k] = t[k - Size(s)]
BY ListJoin DEF Join, Size

LEMMA Up008Is ==
    /\ IsList(Up008) /\ Size(Up008) = 8
    /\ Is(Up008[1], "rows", "favorites", "dedupe_products")
    /\ Is(Up008[2], "rows", "favorites", "dedupe_stores")
    /\ \A k \in 3 .. 8 : Calm(Up008[k])
<1>1. IsList(Up008) /\ Size(Up008) = 8
  BY Tuples, Zenon DEF Up008, Size
<1>2. /\ Is(Up008[1], "rows", "favorites", "dedupe_products")
      /\ Is(Up008[2], "rows", "favorites", "dedupe_stores")
  BY DEF Up008, Is, Rows, Statement
<1>3. /\ Calm(Up008[3]) /\ Calm(Up008[4]) /\ Calm(Up008[5]) /\ Calm(Up008[6])
      /\ Calm(Up008[7]) /\ Calm(Up008[8])
  BY CalmKinds, Zenon DEF Up008
<1>4. \A k \in 3 .. 8 : k = 3 \/ k = 4 \/ k = 5 \/ k = 6 \/ k = 7 \/ k = 8
  OBVIOUS
<1> QED BY <1>1, <1>2, <1>3, <1>4, Zenon

LEMMA Up011RowsIs ==
    /\ IsList(Up011Rows) /\ Size(Up011Rows) = 3
    /\ Is(Up011Rows[1], "rows", "conversations", "backfill_participants")
    /\ Is(Up011Rows[2], "rows", "messages", "move_messages")
    /\ Is(Up011Rows[3], "rows", "conversations", "drop_duplicates")
<1> DEFINE C == Range(Legacy \o Peers) \cup {"context_seller_id"}
           D == Range(Peers)
<1>1. IsList(Up011Rows) /\ Size(Up011Rows) = 3
  BY Tuples, Zenon DEF Up011Rows, Size
<1> HIDE DEF C, D
<1>2. /\ Up011Rows[1] = Rows("conversations", "backfill_participants", C)
      /\ Up011Rows[2] = Rows("messages", "move_messages", {"conversation_id"})
      /\ Up011Rows[3] = Rows("conversations", "drop_duplicates", D)
  BY Zenon DEF Up011Rows, Backfill, C, D
<1>3. \A t, name, cols : Is(Rows(t, name, cols), "rows", t, name)
  BY DEF Is, Rows, Statement
<1> QED BY <1>1, <1>2, <1>3, Zenon

LEMMA Names011 ==
    /\ Plain(Peers) /\ Size(Peers) = 2
    /\ Peers[1] = "participant_a_id" /\ Peers[2] = "participant_b_id"
    /\ Plain(Legacy) /\ Size(Legacy) = 2
    /\ Legacy[1] = "buyer_id" /\ Legacy[2] = "seller_id"
    /\ LET three == Join(Peers, <<"context_seller_id">>) IN
       /\ Plain(three) /\ Size(three) = 3
       /\ three[1] = "participant_a_id" /\ three[2] = "participant_b_id"
       /\ three[3] = "context_seller_id"
<1> DEFINE context == <<"context_seller_id">>
           three == Join(Peers, context)
<1>1. /\ Plain(Peers) /\ Size(Peers) = 2
      /\ Peers[1] = "participant_a_id" /\ Peers[2] = "participant_b_id"
      /\ Plain(Legacy) /\ Size(Legacy) = 2
      /\ Legacy[1] = "buyer_id" /\ Legacy[2] = "seller_id"
  BY DEF Plain, IsList, Entries, Peers, Legacy, Size
<1>2. Plain(context) /\ Size(context) = 1 /\ context[1] = "context_seller_id"
  BY DEF Plain, IsList, Entries, Size
<1> HIDE DEF context
<1>3. IsList(Peers) /\ IsList(context)
  BY <1>1, <1>2 DEF Plain
<1>4. /\ IsList(three) /\ Size(three) = 3
      /\ three[1] = Peers[1] /\ three[2] = Peers[2] /\ three[3] = context[1]
  BY <1>1, <1>2, <1>3, Joined
<1> HIDE DEF three
<1>5. Len(three) = 3
  BY <1>4 DEF Size
<1>6. Plain(three)
  BY <1>1, <1>2, <1>4, <1>5 DEF Plain
<1> QED BY <1>1, <1>2, <1>4, <1>6 DEF three, context

LEMMA Adds ==
    ASSUME NEW names, Plain(names), NEW n \in Nat, Size(names) = n, NEW t
    PROVE  LET s == ColumnsIfMissing(t, names) IN
           /\ AllCalm(s) /\ Size(s) = n
           /\ \A k \in 1 .. n : Is(s[k], "add_column", t, names[k])
<1> DEFINE s == ColumnsIfMissing(t, names)
<1>1. n = Len(names) /\ IsList(names)
  BY DEF Size, Plain
<1>2. AllCalm(s) /\ Len(s) = Len(names)
  BY CalmColumns
<1>3. s = [i \in 1 .. Len(names) |->
              Statement("add_column", t, names[i], {names[i]}, TRUE)]
  BY <1>1, EachIs, Zenon
<1>4. s = [i \in 1 .. n |-> Statement("add_column", t, names[i], {names[i]}, TRUE)]
  BY <1>1, <1>3
<1> HIDE DEF s
<1>5. \A k \in 1 .. n : Is(s[k], "add_column", t, names[k])
  BY <1>4 DEF Is, Statement
<1> QED BY <1>1, <1>2, <1>5 DEF Size, s

LEMMA DropsThere ==
    ASSUME NEW names, Plain(names), NEW n \in Nat, Size(names) = n, NEW t
    PROVE  LET s == DropColumnsIfThere(t, names) IN
           /\ IsList(s) /\ Size(s) = n
           /\ \A k \in 1 .. n : Is(s[k], "drop_column", t, names[k])
<1> DEFINE s == DropColumnsIfThere(t, names)
           F == [i \in 1 .. n |-> Statement("drop_column", t, names[i], {names[i]}, TRUE)]
<1>1. n = Len(names) /\ IsList(names)
  BY DEF Size, Plain
<1>2. s = [i \in 1 .. Len(names) |->
              Statement("drop_column", t, names[i], {names[i]}, TRUE)]
  BY <1>1, EachIs, Zenon
<1>3. s = F
  BY <1>1, <1>2
<1>4. F \in [1 .. n -> {F[i] : i \in 1 .. n}]
      /\ \A k \in 1 .. n : Is(F[k], "drop_column", t, names[k])
  BY DEF Is, Statement
<1> HIDE DEF F, s
<1>5. IsList(s) /\ Size(s) = n
  BY <1>3, <1>4, ListMade DEF Size
<1> QED BY <1>3, <1>4, <1>5 DEF s

LEMMA CalmSize ==
    ASSUME NEW s, AllCalm(s)
    PROVE  IsList(s) /\ Size(s) \in Nat /\ Size(s) > 0 /\ \A k \in 1 .. Size(s) : Calm(s[k])
BY CalmJoin DEF AllCalm, Size

LEMMA Up011Is ==
    /\ IsList(Up011) /\ Size(Up011) = 18
    /\ Is(Up011[1], "add_column", "conversations", "participant_a_id")
    /\ Is(Up011[4], "rows", "conversations", "backfill_participants")
    /\ Is(Up011[5], "rows", "messages", "move_messages")
    /\ Is(Up011[6], "rows", "conversations", "drop_duplicates")
    /\ Is(Up011[17], "drop_column", "conversations", "buyer_id")
    /\ Is(Up011[18], "drop_column", "conversations", "seller_id")
    /\ \A k \in (1 .. 3) \cup (7 .. 16) : Calm(Up011[k])
<1> DEFINE three == Join(Peers, <<"context_seller_id">>)
           A == ColumnsIfMissing("conversations", three)
           C == NotNull("conversations", Peers)
           D == << Foreign("fk_conversations_participant_a", "conversations", "participant_a_id", "users"),
          Foreign("fk_conversations_participant_b", "conversations", "participant_b_id", "users"),
          Foreign("fk_conversations_context_seller", "conversations", "context_seller_id",
                  "seller_profiles"),
          IndexIfMissing("ix_conversations_participant_a_id", "conversations",
                         {"participant_a_id"}),
          IndexIfMissing("ix_conversations_participant_b_id", "conversations",
                         {"participant_b_id"}),
          IndexIfMissing("ix_conversations_context_seller_id", "conversations",
                         {"context_seller_id"}),
          UniqueIfMissing("uq_conversation_participants", "conversations",
                          {"participant_a_id", "participant_b_id"}),
          DropIfThere("uq_conversation_buyer_seller", "conversations") >>
           E == DropColumnsIfThere("conversations", Legacy)
           P == Join(A, Up011Rows)
           Q == Join(P, C)
           W == Join(Q, D)
<1>1. /\ AllCalm(A) /\ Size(A) = 3
      /\ Is(A[1], "add_column", "conversations", "participant_a_id")
  <2>1. AllCalm(A) /\ Size(A) = 3 /\ \A k \in 1 .. 3 : Is(A[k], "add_column", "conversations", three[k])
    BY Names011, Adds
  <2> HIDE DEF A, three
  <2>2. Is(A[1], "add_column", "conversations", three[1]) /\ AllCalm(A) /\ Size(A) = 3
    <3>1. 1 \in 1 .. 3
      OBVIOUS
    <3> QED BY <2>1, <3>1, Zenon
  <2> QED BY <2>2, Names011 DEF three
<1>2. AllCalm(C) /\ Size(C) = 2
  BY Names011, CalmColumns DEF Size
<1>3. IsList(D) /\ Size(D) = 8
  BY Tuples, Zenon DEF Size
<1>4. /\ Calm(D[1]) /\ Calm(D[2]) /\ Calm(D[3]) /\ Calm(D[4]) /\ Calm(D[5]) /\ Calm(D[6])
      /\ Calm(D[7]) /\ Calm(D[8])
  BY CalmKinds, Zenon
<1>5. /\ IsList(E) /\ Size(E) = 2
      /\ Is(E[1], "drop_column", "conversations", "buyer_id")
      /\ Is(E[2], "drop_column", "conversations", "seller_id")
  <2>1. IsList(E) /\ Size(E) = 2 /\ \A k \in 1 .. 2 : Is(E[k], "drop_column", "conversations", Legacy[k])
    BY Names011, DropsThere
  <2> HIDE DEF E
  <2>2. /\ Is(E[1], "drop_column", "conversations", Legacy[1])
        /\ Is(E[2], "drop_column", "conversations", Legacy[2])
    <3>1. 1 \in 1 .. 2 /\ 2 \in 1 .. 2
      OBVIOUS
    <3> QED BY <2>1, <3>1, Zenon
  <2> QED BY <2>1, <2>2, Names011
<1>6. Up011 = Join(W, E)
  BY Zenon DEF Join, Up011
<1> HIDE DEF A, C, D, E, three
<1>8. /\ IsList(A) /\ IsList(C) /\ Calm(A[1]) /\ Calm(A[2]) /\ Calm(A[3]) /\ Calm(C[1]) /\ Calm(C[2])
  BY <1>1, <1>2, CalmSize
<1>9. /\ IsList(P) /\ Size(P) = 6
      /\ P[1] = A[1] /\ P[2] = A[2] /\ P[3] = A[3]
      /\ P[4] = Up011Rows[1] /\ P[5] = Up011Rows[2] /\ P[6] = Up011Rows[3]
  BY <1>1, <1>8, Up011RowsIs, Joined
<1> HIDE DEF P
<1>10. /\ IsList(Q) /\ Size(Q) = 8
       /\ \A k \in 1 .. 6 : Q[k] = P[k]
       /\ Q[7] = C[1] /\ Q[8] = C[2]
  BY <1>2, <1>8, <1>9, Joined
<1> HIDE DEF Q
<1>11. /\ IsList(W) /\ Size(W) = 16
       /\ \A k \in 1 .. 8 : W[k] = Q[k]
       /\ W[9] = D[1] /\ W[10] = D[2] /\ W[11] = D[3] /\ W[12] = D[4]
       /\ W[13] = D[5] /\ W[14] = D[6] /\ W[15] = D[7] /\ W[16] = D[8]
  BY <1>3, <1>10, Joined
<1> HIDE DEF W
<1>12. /\ IsList(Up011) /\ Size(Up011) = 18
       /\ \A k \in 1 .. 16 : Up011[k] = W[k]
       /\ Up011[17] = E[1] /\ Up011[18] = E[2]
  BY <1>5, <1>6, <1>11, Joined
<1>13. \A k \in 1 .. 6 : Up011[k] = P[k]
  BY <1>10, <1>11, <1>12
<1>14. Up011[7] = C[1] /\ Up011[8] = C[2]
  BY <1>10, <1>11, <1>12
<1>15. \A k \in (1 .. 3) \cup (7 .. 16) : Calm(Up011[k])
  <2>1. \A k \in (1 .. 3) \cup (7 .. 16) :
          \/ k = 1 \/ k = 2 \/ k = 3 \/ k = 7 \/ k = 8 \/ k = 9 \/ k = 10 \/ k = 11
          \/ k = 12 \/ k = 13 \/ k = 14 \/ k = 15 \/ k = 16
    OBVIOUS
  <2>2. Calm(Up011[1]) /\ Calm(Up011[2]) /\ Calm(Up011[3])
    BY <1>8, <1>9, <1>13
  <2>3. Calm(Up011[7]) /\ Calm(Up011[8])
    BY <1>8, <1>14
  <2>4. /\ Calm(Up011[9]) /\ Calm(Up011[10]) /\ Calm(Up011[11]) /\ Calm(Up011[12])
        /\ Calm(Up011[13]) /\ Calm(Up011[14]) /\ Calm(Up011[15]) /\ Calm(Up011[16])
    BY <1>4, <1>11, <1>12
  <2> QED BY <2>1, <2>2, <2>3, <2>4, Zenon
<1>16. /\ Is(Up011[1], "add_column", "conversations", "participant_a_id")
       /\ Is(Up011[4], "rows", "conversations", "backfill_participants")
       /\ Is(Up011[5], "rows", "messages", "move_messages")
       /\ Is(Up011[6], "rows", "conversations", "drop_duplicates")
  BY <1>1, <1>9, <1>13, Up011RowsIs
<1>17. /\ Is(Up011[17], "drop_column", "conversations", "buyer_id")
       /\ Is(Up011[18], "drop_column", "conversations", "seller_id")
  BY <1>5, <1>12
<1> QED BY <1>12, <1>15, <1>16, <1>17, Zenon

LEMMA Down011Is ==
    /\ IsList(Down011) /\ Size(Down011) = 17
    /\ Is(Down011[1], "add_column", "conversations", "buyer_id")
    /\ Is(Down011[3], "rows", "conversations", "restore_storefronts")
    /\ Is(Down011[4], "rows", "conversations", "delete_peer_chats")
    /\ Is(Down011[14], "drop_column", "conversations", "participant_a_id")
    /\ Is(Down011[15], "drop_column", "conversations", "participant_b_id")
    /\ Is(Down011[16], "drop_column", "conversations", "context_seller_id")
    /\ \A k \in {1, 2} \cup (5 .. 13) \cup {17} : Calm(Down011[k])
<1> DEFINE three == Join(Peers, <<"context_seller_id">>)
           A == ColumnsIfMissing("conversations", Legacy)
           X == Range(Legacy \o Peers)
           B == << Rows("conversations", "restore_storefronts", X),
                   Rows("conversations", "delete_peer_chats", {"seller_id"}) >>
           C == NotNull("conversations", Legacy)
           D == << DropIfThere("uq_conversation_participants", "conversations"),
          DropIfThere("fk_conversations_participant_a", "conversations"),
          DropIfThere("fk_conversations_participant_b", "conversations"),
          DropIfThere("fk_conversations_context_seller", "conversations"),
          DropIfThere("ix_conversations_participant_a_id", "conversations"),
          DropIfThere("ix_conversations_participant_b_id", "conversations"),
          DropIfThere("ix_conversations_context_seller_id", "conversations") >>
           E == DropColumnsIfThere("conversations", three)
           G == << UniqueIfMissing("uq_conversation_buyer_seller", "conversations",
                          {"buyer_id", "seller_id"}) >>
           P == Join(A, B)
           Q == Join(P, C)
           W == Join(Q, D)
           V == Join(W, E)
<1>1. /\ AllCalm(A) /\ Size(A) = 2
      /\ Is(A[1], "add_column", "conversations", "buyer_id")
  <2>1. AllCalm(A) /\ Size(A) = 2 /\ \A k \in 1 .. 2 : Is(A[k], "add_column", "conversations", Legacy[k])
    BY Names011, Adds
  <2> HIDE DEF A
  <2>2. Is(A[1], "add_column", "conversations", Legacy[1]) /\ AllCalm(A) /\ Size(A) = 2
    <3>1. 1 \in 1 .. 2
      OBVIOUS
    <3> QED BY <2>1, <3>1, Zenon
  <2> QED BY <2>2, Names011
<1>2. AllCalm(C) /\ Size(C) = 2
  BY Names011, CalmColumns DEF Size
<1>3. IsList(D) /\ Size(D) = 7 /\ IsList(B) /\ Size(B) = 2 /\ IsList(G) /\ Size(G) = 1
  BY Tuples, Zenon DEF Size
<1>4. /\ Calm(D[1]) /\ Calm(D[2]) /\ Calm(D[3]) /\ Calm(D[4]) /\ Calm(D[5]) /\ Calm(D[6])
      /\ Calm(D[7]) /\ Calm(G[1])
  BY CalmKinds, Zenon
<1>5. /\ IsList(E) /\ Size(E) = 3
      /\ Is(E[1], "drop_column", "conversations", "participant_a_id")
      /\ Is(E[2], "drop_column", "conversations", "participant_b_id")
      /\ Is(E[3], "drop_column", "conversations", "context_seller_id")
  <2>1. IsList(E) /\ Size(E) = 3 /\ \A k \in 1 .. 3 : Is(E[k], "drop_column", "conversations", three[k])
    BY Names011, DropsThere
  <2> HIDE DEF E, three
  <2>2. /\ Is(E[1], "drop_column", "conversations", three[1])
        /\ Is(E[2], "drop_column", "conversations", three[2])
        /\ Is(E[3], "drop_column", "conversations", three[3])
    <3>1. 1 \in 1 .. 3 /\ 2 \in 1 .. 3 /\ 3 \in 1 .. 3
      OBVIOUS
    <3> QED BY <2>1, <3>1, Zenon
  <2> QED BY <2>1, <2>2, Names011 DEF three
<1>6. Down011 = Join(V, G)
  BY Zenon DEF Join, Down011
<1>18. /\ Is(B[1], "rows", "conversations", "restore_storefronts")
       /\ Is(B[2], "rows", "conversations", "delete_peer_chats")
  <2> HIDE DEF X
  <2>1. \A t, name, cols : Is(Rows(t, name, cols), "rows", t, name)
    BY DEF Is, Rows, Statement
  <2>2. B[1] = Rows("conversations", "restore_storefronts", X)
        /\ B[2] = Rows("conversations", "delete_peer_chats", {"seller_id"})
    BY Zenon
  <2> QED BY <2>1, <2>2, Zenon
<1> HIDE DEF A, B, C, D, E, G, three
<1>8. IsList(A) /\ IsList(C) /\ Calm(A[1]) /\ Calm(A[2]) /\ Calm(C[1]) /\ Calm(C[2])
  BY <1>1, <1>2, CalmSize
<1>9. /\ IsList(P) /\ Size(P) = 4
      /\ P[1] = A[1] /\ P[2] = A[2] /\ P[3] = B[1] /\ P[4] = B[2]
  BY <1>1, <1>3, <1>8, Joined, SMTT(60)
<1> HIDE DEF P
<1>10. /\ IsList(Q) /\ Size(Q) = 6
       /\ \A k \in 1 .. 4 : Q[k] = P[k]
       /\ Q[5] = C[1] /\ Q[6] = C[2]
  BY <1>2, <1>8, <1>9, Joined
<1> HIDE DEF Q
<1>11. /\ IsList(W) /\ Size(W) = 13
       /\ \A k \in 1 .. 6 : W[k] = Q[k]
       /\ W[7] = D[1] /\ W[8] = D[2] /\ W[9] = D[3] /\ W[10] = D[4]
       /\ W[11] = D[5] /\ W[12] = D[6] /\ W[13] = D[7]
  BY <1>3, <1>10, Joined
<1> HIDE DEF W
<1>12. /\ IsList(V) /\ Size(V) = 16
       /\ \A k \in 1 .. 13 : V[k] = W[k]
       /\ V[14] = E[1] /\ V[15] = E[2] /\ V[16] = E[3]
  BY <1>5, <1>11, Joined
<1> HIDE DEF V
<1>13. /\ IsList(Down011) /\ Size(Down011) = 17
       /\ \A k \in 1 .. 16 : Down011[k] = V[k]
       /\ Down011[17] = G[1]
  BY <1>3, <1>6, <1>12, Joined
<1>14. \A k \in 1 .. 4 : Down011[k] = P[k]
  BY <1>10, <1>11, <1>12, <1>13
<1>15. Down011[5] = C[1] /\ Down011[6] = C[2]
  BY <1>10, <1>11, <1>12, <1>13
<1>16. \A k \in {1, 2} \cup (5 .. 13) \cup {17} : Calm(Down011[k])
  <2>1. \A k \in {1, 2} \cup (5 .. 13) \cup {17} :
          \/ k = 1 \/ k = 2 \/ k = 5 \/ k = 6 \/ k = 7 \/ k = 8 \/ k = 9 \/ k = 10
          \/ k = 11 \/ k = 12 \/ k = 13 \/ k = 17
    OBVIOUS
  <2>2. Calm(Down011[1]) /\ Calm(Down011[2])
    BY <1>8, <1>9, <1>14
  <2>3. Calm(Down011[5]) /\ Calm(Down011[6]) /\ Calm(Down011[17])
    BY <1>4, <1>8, <1>13, <1>15
  <2>4. /\ Calm(Down011[7]) /\ Calm(Down011[8]) /\ Calm(Down011[9]) /\ Calm(Down011[10])
        /\ Calm(Down011[11]) /\ Calm(Down011[12]) /\ Calm(Down011[13])
    BY <1>4, <1>11, <1>12, <1>13
  <2> QED BY <2>1, <2>2, <2>3, <2>4, Zenon
<1>17. /\ Is(Down011[1], "add_column", "conversations", "buyer_id")
       /\ Is(Down011[3], "rows", "conversations", "restore_storefronts")
       /\ Is(Down011[4], "rows", "conversations", "delete_peer_chats")
  BY <1>1, <1>9, <1>14, <1>18
<1>19. /\ Is(Down011[14], "drop_column", "conversations", "participant_a_id")
       /\ Is(Down011[15], "drop_column", "conversations", "participant_b_id")
       /\ Is(Down011[16], "drop_column", "conversations", "context_seller_id")
  BY <1>5, <1>12, <1>13
<1> QED BY <1>13, <1>16, <1>17, <1>19, Zenon

LEMMA CalmJoined ==
    ASSUME NEW s, NEW t, AllCalm(s), AllCalm(t)
    PROVE  AllCalm(Join(s, t)) /\ Size(Join(s, t)) = Size(s) + Size(t)
BY CalmJoin DEF Join, Size

LEMMA Up012Is ==
    /\ IsList(Up012) /\ Size(Up012) = 14
    /\ Is(Up012[14], "rows", "seller_profiles", "recompute_sellers")
    /\ \A k \in 1 .. 13 : Calm(Up012[k])
<1> DEFINE A == ColumnsIfMissing("reviews", Scores)
           B == << Rows("reviews", "backfill_scores", Range(Scores)) >>
           C == NotNull("reviews", Scores)
           D == ColumnsIfMissing("seller_profiles", Averages)
           E == << Rows("seller_profiles", "recompute_sellers", Range(Averages)) >>
           P == Join(A, B)
           Q == Join(P, C)
           W == Join(Q, D)
<1>1. /\ Plain(Scores) /\ Size(Scores) = 4
      /\ Plain(Averages) /\ Size(Averages) = 4
  BY DEF Plain, IsList, Entries, Scores, Averages, Size
<1>2. /\ AllCalm(A) /\ Size(A) = 4 /\ AllCalm(C) /\ Size(C) = 4 /\ AllCalm(D) /\ Size(D) = 4
  BY <1>1, CalmColumns DEF Size
<1>3. /\ AllCalm(B) /\ Size(B) = 1
  <2>1. \A cols : Calm(Rows("reviews", "backfill_scores", cols))
    BY DEF Calm, Rows, Statement
  <2>2. Calm(B[1])
    BY <2>1, Zenon
  <2>3. IsList(B) /\ Len(B) = 1
    BY Tuples, Zenon
  <2> QED BY <2>2, <2>3 DEF AllCalm, Size
<1>4. IsList(E) /\ Size(E) = 1 /\ Is(E[1], "rows", "seller_profiles", "recompute_sellers")
  <2>1. \A t, name, cols : Is(Rows(t, name, cols), "rows", t, name)
    BY DEF Is, Rows, Statement
  <2> QED BY <2>1, Tuples, Zenon DEF Size
<1>5. Up012 = Join(W, E)
  BY Zenon DEF Join, Up012
<1> HIDE DEF A, B, C, D, E
<1>6. AllCalm(P) /\ Size(P) = 5
  BY <1>2, <1>3, CalmJoined
<1> HIDE DEF P
<1>7. AllCalm(Q) /\ Size(Q) = 9
  BY <1>2, <1>6, CalmJoined
<1> HIDE DEF Q
<1>8. AllCalm(W) /\ Size(W) = 13
  BY <1>2, <1>7, CalmJoined
<1> HIDE DEF W
<1>9. IsList(W) /\ \A k \in 1 .. 13 : Calm(W[k])
  BY <1>8, CalmSize
<1>10. /\ IsList(Up012) /\ Size(Up012) = 14 /\ Up012[14] = E[1]
       /\ \A k \in 1 .. 13 : Up012[k] = W[k]
  BY <1>4, <1>5, <1>8, <1>9, Joined
<1> QED BY <1>4, <1>9, <1>10

LEMMA Is013 ==
    /\ IsList(Up013) /\ Size(Up013) = 2
    /\ Is(Up013[1], "add_column", "seller_profiles", "golden_crowns")
    /\ Is(Up013[2], "rows", "seller_profiles", "split_crowns")
    /\ IsList(Down013) /\ Size(Down013) = 2
    /\ Is(Down013[1], "rows", "seller_profiles", "join_crowns")
    /\ Is(Down013[2], "drop_column", "seller_profiles", "golden_crowns")
<1> DEFINE name == <<"golden_crowns">>
           A == ColumnsIfMissing("seller_profiles", name)
           B == << Rows("seller_profiles", "split_crowns", {"golden_crowns"}) >>
           C == << Rows("seller_profiles", "join_crowns", {"golden_crowns"}) >>
           D == DropColumnsIfThere("seller_profiles", name)
<1>1. IsList(name) /\ Len(name) = 1 /\ name[1] = "golden_crowns"
  BY DEF IsList, Entries
<1> HIDE DEF name
<1>2. /\ A = [i \in 1 .. 1 |-> Statement("add_column", "seller_profiles", name[i], {name[i]}, TRUE)]
      /\ D = [i \in 1 .. 1 |-> Statement("drop_column", "seller_profiles", name[i], {name[i]}, TRUE)]
  <2>1. /\ A = [i \in 1 .. Len(name) |-> Statement("add_column", "seller_profiles", name[i], {name[i]}, TRUE)]
        /\ D = [i \in 1 .. Len(name) |-> Statement("drop_column", "seller_profiles", name[i], {name[i]}, TRUE)]
    BY <1>1, EachIs, Zenon
  <2> QED BY <1>1, <2>1
<1>3. /\ A \in [1 .. 1 -> {A[1]}] /\ Is(A[1], "add_column", "seller_profiles", "golden_crowns")
      /\ D \in [1 .. 1 -> {D[1]}] /\ Is(D[1], "drop_column", "seller_profiles", "golden_crowns")
  BY <1>1, <1>2 DEF Is, Statement
<1>4. \A t, n, cols : Is(Rows(t, n, cols), "rows", t, n)
  BY DEF Is, Rows, Statement
<1>5. /\ IsList(B) /\ Size(B) = 1 /\ Is(B[1], "rows", "seller_profiles", "split_crowns")
      /\ IsList(C) /\ Size(C) = 1 /\ Is(C[1], "rows", "seller_profiles", "join_crowns")
  BY <1>4, Tuples, Zenon DEF Size
<1>6. Up013 = Join(A, B) /\ Down013 = Join(C, D)
  BY Zenon DEF Up013, Down013, Join, name
<1> HIDE DEF A, B, C, D
<1>7. IsList(A) /\ Size(A) = 1 /\ IsList(D) /\ Size(D) = 1
  BY <1>3, ListMade DEF Size
<1>8. /\ IsList(Up013) /\ Size(Up013) = 2 /\ Up013[1] = A[1] /\ Up013[2] = B[1]
  BY <1>5, <1>6, <1>7, Joined
<1>9. IsList(Down013) /\ Size(Down013) = 2 /\ Down013[1] = C[1] /\ Down013[2] = D[1]
  BY <1>5, <1>6, <1>7, Joined
<1> QED BY <1>3, <1>5, <1>8, <1>9

(* Tables that are dropped.                                                *)
LEMMA OldTables ==
    ASSUME NEW names, IsList(names), NEW n \in Nat, Size(names) = n
    PROVE  LET s == Each(OldTable, names) IN
           /\ IsList(s) /\ Size(s) = n
           /\ \A k \in 1 .. n : Is(s[k], "drop_table", names[k], NoName)
<1> DEFINE s == Each(OldTable, names)
           F == [i \in 1 .. n |-> OldTable(names[i])]
<1>1. n = Len(names) /\ s = F
  BY EachIs DEF Size
<1>2. F \in [1 .. n -> {F[i] : i \in 1 .. n}]
      /\ \A k \in 1 .. n : Is(F[k], "drop_table", names[k], NoName)
  BY DEF Is, Statement, OldTable
<1> HIDE DEF F, s
<1>3. IsList(s) /\ Size(s) = n
  BY <1>1, <1>2, ListMade DEF Size
<1> QED BY <1>1, <1>2, <1>3 DEF s

LEMMA CalmTable ==
    \A s, t : Is(s, "drop_table", t, NoName)
              /\ t \notin {"favorites", "conversations", "messages", "reviews",
                           "seller_profiles"} => Calm(s)
BY DEF Is, Calm

LEMMA Down001Is ==
    /\ IsList(Down001) /\ Size(Down001) = 8
    /\ Is(Down001[2], "drop_table", "reviews", NoName)
    /\ Is(Down001[6], "drop_table", "seller_profiles", NoName)
    /\ \A k \in {1} \cup (3 .. 5) \cup {7, 8} : Calm(Down001[k])
<1> DEFINE names == <<"warning_zones", "reviews", "services", "products", "seller_categories",
      "seller_profiles", "categories", "users">>
<1>1. IsList(names) /\ Size(names) = 8
  BY Tuples, Zenon DEF Size
<1>2. /\ names[1] = "warning_zones" /\ names[2] = "reviews" /\ names[3] = "services"
      /\ names[4] = "products" /\ names[5] = "seller_categories"
      /\ names[6] = "seller_profiles" /\ names[7] = "categories" /\ names[8] = "users"
  BY Zenon
<1> HIDE DEF names
<1>3. /\ IsList(Down001) /\ Size(Down001) = 8
      /\ \A k \in 1 .. 8 : Is(Down001[k], "drop_table", names[k], NoName)
  BY <1>1, OldTables DEF Down001, names
<1>4. /\ Is(Down001[1], "drop_table", "warning_zones", NoName)
      /\ Is(Down001[2], "drop_table", "reviews", NoName)
      /\ Is(Down001[3], "drop_table", "services", NoName)
      /\ Is(Down001[4], "drop_table", "products", NoName)
      /\ Is(Down001[5], "drop_table", "seller_categories", NoName)
      /\ Is(Down001[6], "drop_table", "seller_profiles", NoName)
      /\ Is(Down001[7], "drop_table", "categories", NoName)
      /\ Is(Down001[8], "drop_table", "users", NoName)
  BY <1>2, <1>3
<1>5. /\ Calm(Down001[1]) /\ Calm(Down001[3]) /\ Calm(Down001[4]) /\ Calm(Down001[5])
      /\ Calm(Down001[7]) /\ Calm(Down001[8])
  BY <1>4, CalmTable
<1>6. \A k \in {1} \cup (3 .. 5) \cup {7, 8} :
        k = 1 \/ k = 3 \/ k = 4 \/ k = 5 \/ k = 7 \/ k = 8
  OBVIOUS
<1> QED BY <1>3, <1>4, <1>5, <1>6, Zenon

LEMMA Down006Is ==
    /\ IsList(Down006) /\ Size(Down006) = 33
    /\ Is(Down006[6], "drop_table", "messages", NoName)
    /\ Is(Down006[7], "drop_table", "conversations", NoName)
    /\ \A k \in (1 .. 5) \cup (8 .. 33) : Calm(Down006[k])
<1> DEFINE one == <<"admin_audit_logs", "subscriptions", "subscription_plans", "coupons",
                    "notifications", "messages", "conversations">>
           two == <<"order_items", "orders", "wishlist_items", "cart_items",
                    "buyer_addresses", "mfa_factors", "auth_tokens">>
           A == Each(OldTable, one)
           B == Each(OldTable, two)
           C == DropColumns("seller_profiles", <<"order_count", "total_sales_mad", "is_premium",
                                        "verification_status">>)
           D == DropColumns("products", <<"is_hidden", "sku", "stock_quantity">>)
           E == DropColumns("refresh_tokens", <<"last_seen_at", "user_agent", "ip_address",
                                       "device_name">>)
           F == DropColumns("users", <<"mfa_enabled", "premium_until", "is_premium", "last_login_at",
                              "role", "status", "phone", "email_verified_at">>)
           AB == Join(A, B)
           ABC == Join(AB, C)
           ABCD == Join(ABC, D)
           ABCDE == Join(ABCD, E)
<1>1. IsList(one) /\ Size(one) = 7 /\ IsList(two) /\ Size(two) = 7
  BY Tuples, Zenon DEF Size
<1>2. /\ one[1] = "admin_audit_logs" /\ one[2] = "subscriptions"
      /\ one[3] = "subscription_plans" /\ one[4] = "coupons" /\ one[5] = "notifications"
      /\ one[6] = "messages" /\ one[7] = "conversations"
      /\ two[1] = "order_items" /\ two[2] = "orders" /\ two[3] = "wishlist_items"
      /\ two[4] = "cart_items" /\ two[5] = "buyer_addresses" /\ two[6] = "mfa_factors"
      /\ two[7] = "auth_tokens"
  BY Zenon
<1>3. /\ AllCalm(C) /\ Size(C) = 4 /\ AllCalm(D) /\ Size(D) = 3
      /\ AllCalm(E) /\ Size(E) = 4 /\ AllCalm(F) /\ Size(F) = 8
  <2>1. /\ Plain(<<"order_count", "total_sales_mad", "is_premium", "verification_status">>)
        /\ Plain(<<"is_hidden", "sku", "stock_quantity">>)
        /\ Plain(<<"last_seen_at", "user_agent", "ip_address", "device_name">>)
        /\ Plain(<<"mfa_enabled", "premium_until", "is_premium", "last_login_at",
                              "role", "status", "phone", "email_verified_at">>)
    BY DEF Plain, IsList, Entries
  <2> QED BY <2>1, CalmDrops DEF Size
<1>4. Down006 = Join(ABCDE, F)
  BY Zenon DEF Join, Down006
<1> HIDE DEF one, two
<1>5. /\ IsList(A) /\ Size(A) = 7 /\ \A k \in 1 .. 7 : Is(A[k], "drop_table", one[k], NoName)
      /\ IsList(B) /\ Size(B) = 7 /\ \A k \in 1 .. 7 : Is(B[k], "drop_table", two[k], NoName)
  BY <1>1, OldTables
<1> HIDE DEF A, B, C, D, E, F
<1>6. /\ Is(A[6], "drop_table", "messages", NoName)
      /\ Is(A[7], "drop_table", "conversations", NoName)
      /\ \A k \in 1 .. 5 : Calm(A[k])
  <2>1. \A k \in 1 .. 5 : one[k] \notin {"favorites", "conversations", "messages", "reviews",
                           "seller_profiles"}
    BY <1>2
  <2> QED BY <1>2, <1>5, <2>1, CalmTable
<1>7. \A k \in 1 .. 7 : Calm(B[k])
  <2>1. \A k \in 1 .. 7 : two[k] \notin {"favorites", "conversations", "messages", "reviews",
                           "seller_profiles"}
    BY <1>2
  <2> QED BY <1>5, <2>1, CalmTable
<1>8. AllCalm(B)
  BY <1>5, <1>7 DEF AllCalm, Size
<1>9. /\ IsList(AB) /\ Size(AB) = 14 /\ \A k \in 1 .. 7 : AB[k] = A[k]
      /\ \A k \in 8 .. 14 : Calm(AB[k])
  BY <1>5, <1>7, Joined
<1> HIDE DEF AB
<1>10. /\ IsList(ABC) /\ Size(ABC) = 18 /\ \A k \in 1 .. 14 : ABC[k] = AB[k]
       /\ \A k \in 15 .. 18 : Calm(ABC[k])
  BY <1>3, <1>9, Joined, CalmSize
<1> HIDE DEF ABC
<1>11. /\ IsList(ABCD) /\ Size(ABCD) = 21 /\ \A k \in 1 .. 18 : ABCD[k] = ABC[k]
       /\ \A k \in 19 .. 21 : Calm(ABCD[k])
  BY <1>3, <1>10, Joined, CalmSize
<1> HIDE DEF ABCD
<1>12. /\ IsList(ABCDE) /\ Size(ABCDE) = 25 /\ \A k \in 1 .. 21 : ABCDE[k] = ABCD[k]
       /\ \A k \in 22 .. 25 : Calm(ABCDE[k])
  BY <1>3, <1>11, Joined, CalmSize
<1> HIDE DEF ABCDE
<1>13. /\ IsList(Down006) /\ Size(Down006) = 33 /\ \A k \in 1 .. 25 : Down006[k] = ABCDE[k]
       /\ \A k \in 26 .. 33 : Calm(Down006[k])
  BY <1>3, <1>4, <1>12, Joined, CalmSize
<1>14. \A k \in 1 .. 7 : Down006[k] = A[k]
  BY <1>9, <1>10, <1>11, <1>12, <1>13
<1>15. \A k \in 8 .. 25 : Calm(Down006[k])
  BY <1>9, <1>10, <1>11, <1>12, <1>13
<1> QED BY <1>6, <1>13, <1>14, <1>15

LEMMA Down007Is ==
    /\ IsList(Down007) /\ Size(Down007) = 23
    /\ Is(Down007[6], "drop_table", "favorites", NoName)
    /\ \A k \in (1 .. 5) \cup (7 .. 23) : Calm(Down007[k])
<1> DEFINE one == <<"contact_events", "reports", "recently_viewed", "saved_searches",
                    "seller_follows", "favorites">>
           A == Each(OldTable, one)
           B == DropColumns("products", <<"is_featured", "delivery_options",
            "accepted_payment_methods", "availability_note", "price_negotiable">>)
           C == DropColumns("seller_profiles",
        <<"contact_click_count", "favorite_count", "inquiry_count", "avg_response_minutes",
          "service_areas", "delivery_methods", "payment_methods", "whatsapp_number",
          "tiktok_url", "facebook_url", "instagram_url", "website_url">>)
           AB == Join(A, B)
<1>1. IsList(one) /\ Size(one) = 6
  BY Tuples, Zenon DEF Size
<1>2. /\ one[1] = "contact_events" /\ one[2] = "reports" /\ one[3] = "recently_viewed"
      /\ one[4] = "saved_searches" /\ one[5] = "seller_follows" /\ one[6] = "favorites"
  BY Zenon
<1>3. AllCalm(B) /\ Size(B) = 5 /\ AllCalm(C) /\ Size(C) = 12
  <2>1. /\ Plain(<<"is_featured", "delivery_options",
            "accepted_payment_methods", "availability_note", "price_negotiable">>)
        /\ Plain(<<"contact_click_count", "favorite_count", "inquiry_count", "avg_response_minutes",
          "service_areas", "delivery_methods", "payment_methods", "whatsapp_number",
          "tiktok_url", "facebook_url", "instagram_url", "website_url">>)
    BY DEF Plain, IsList, Entries
  <2>2. /\ Len(<<"is_featured", "delivery_options",
            "accepted_payment_methods", "availability_note", "price_negotiable">>) = 5
        /\ Len(<<"contact_click_count", "favorite_count", "inquiry_count", "avg_response_minutes",
          "service_areas", "delivery_methods", "payment_methods", "whatsapp_number",
          "tiktok_url", "facebook_url", "instagram_url", "website_url">>) = 12
    OBVIOUS
  <2> QED BY <2>1, <2>2, CalmDrops DEF Size
<1>4. Down007 = Join(AB, C)
  BY Zenon DEF Join, Down007
<1> HIDE DEF one
<1>5. /\ IsList(A) /\ Size(A) = 6 /\ \A k \in 1 .. 6 : Is(A[k], "drop_table", one[k], NoName)
  BY <1>1, OldTables
<1> HIDE DEF A, B, C
<1>6. /\ Is(A[6], "drop_table", "favorites", NoName)
      /\ \A k \in 1 .. 5 : Calm(A[k])
  <2>1. \A k \in 1 .. 5 : one[k] \notin {"favorites", "conversations", "messages", "reviews",
                           "seller_profiles"}
    BY <1>2
  <2> QED BY <1>2, <1>5, <2>1, CalmTable
<1>7. /\ IsList(AB) /\ Size(AB) = 11 /\ \A k \in 1 .. 6 : AB[k] = A[k]
      /\ \A k \in 7 .. 11 : Calm(AB[k])
  BY <1>3, <1>5, Joined, CalmSize
<1> HIDE DEF AB
<1>8. /\ IsList(Down007) /\ Size(Down007) = 23 /\ \A k \in 1 .. 11 : Down007[k] = AB[k]
      /\ \A k \in 12 .. 23 : Calm(Down007[k])
  BY <1>3, <1>4, <1>7, Joined, CalmSize
<1>9. \A k \in 7 .. 11 : Calm(Down007[k])
  BY <1>7, <1>8
<1> QED BY <1>6, <1>7, <1>8, <1>9

(* The statements that write rows of favourites, conversations, messages,  *)
(* reviews or milestones.                                                  *)
UpWrites == {<<8, 1>>, <<8, 2>>, <<11, 4>>, <<11, 5>>, <<11, 6>>, <<11, 17>>, <<11, 18>>,
             <<12, 14>>, <<13, 2>>}
DownWrites == {<<1, 2>>, <<1, 6>>, <<6, 6>>, <<6, 7>>, <<7, 6>>, <<11, 3>>, <<11, 4>>,
               <<11, 14>>, <<11, 15>>, <<11, 16>>, <<13, 1>>, <<13, 2>>}
Listed(script) == IsList(script) /\ Size(script) \in Nat /\ Size(script) > 0

LEMMA UpCalm ==
    ASSUME NEW n \in 1 .. 13
    PROVE  Listed(Up[n]) /\ \A k \in 1 .. Size(Up[n]) : <<n, k>> \in UpWrites \/ Calm(Up[n][k])
<1>1. /\ Up[1] = Up001 /\ Up[2] = Up002 /\ Up[3] = Up003 /\ Up[4] = Up004 /\ Up[5] = Up005
      /\ Up[6] = Up006 /\ Up[7] = Up007 /\ Up[8] = Up008 /\ Up[9] = Up009 /\ Up[10] = Up010
      /\ Up[11] = Up011 /\ Up[12] = Up012 /\ Up[13] = Up013
  BY Zenon DEF Up
<1>2. /\ AllCalm(Up[1]) /\ AllCalm(Up[2]) /\ AllCalm(Up[3]) /\ AllCalm(Up[4])
      /\ AllCalm(Up[5]) /\ AllCalm(Up[6]) /\ AllCalm(Up[7]) /\ AllCalm(Up[9])
      /\ AllCalm(Up[10])
  BY <1>1, CalmUp001, CalmUp002, CalmUp003, CalmUp004, CalmUp005, CalmUp006, CalmUp007,
     CalmUp009, CalmUp010, Zenon
<1>3. CASE n \in {1, 2, 3, 4, 5, 6, 7, 9, 10}
  <2>1. AllCalm(Up[n])
    BY <1>2, <1>3
  <2> QED BY <2>1, CalmSize DEF Listed
<1>4. CASE n = 8
  BY <1>1, <1>4, Up008Is DEF Listed, UpWrites
<1>5. CASE n = 11
  BY <1>1, <1>5, Up011Is DEF Listed, UpWrites
<1>6. CASE n = 12
  BY <1>1, <1>6, Up012Is DEF Listed, UpWrites
<1>7. CASE n = 13
  BY <1>1, <1>7, Is013 DEF Listed, UpWrites, Is, Calm
<1> QED BY <1>3, <1>4, <1>5, <1>6, <1>7

LEMMA DownCalm ==
    ASSUME NEW n \in 1 .. 13
    PROVE  Listed(Down[n])
           /\ \A k \in 1 .. Size(Down[n]) : <<n, k>> \in DownWrites \/ Calm(Down[n][k])
<1>1. /\ Down[1] = Down001 /\ Down[2] = Down002 /\ Down[3] = Down003 /\ Down[4] = Down004
      /\ Down[5] = Down005 /\ Down[6] = Down006 /\ Down[7] = Down007 /\ Down[8] = Down008
      /\ Down[9] = Down009 /\ Down[10] = Down010 /\ Down[11] = Down011 /\ Down[12] = Down012
      /\ Down[13] = Down013
  BY Zenon DEF Down
<1>2. /\ AllCalm(Down[2]) /\ AllCalm(Down[3]) /\ AllCalm(Down[4])
      /\ AllCalm(Down[5]) /\ AllCalm(Down[8]) /\ AllCalm(Down[9])
      /\ AllCalm(Down[10]) /\ AllCalm(Down[12])
  BY <1>1, CalmDown002, CalmDown003, CalmDown004, CalmDown005, CalmDown008, CalmUp009,
     CalmDown010, CalmDown012, Zenon
<1>3. CASE n \in {2, 3, 4, 5, 8, 9, 10, 12}
  <2>1. AllCalm(Down[n])
    BY <1>2, <1>3
  <2> QED BY <2>1, CalmSize DEF Listed
<1>4. CASE n = 1
  BY <1>1, <1>4, Down001Is DEF Listed, DownWrites
<1>5. CASE n = 6
  BY <1>1, <1>5, Down006Is DEF Listed, DownWrites
<1>6. CASE n = 7
  BY <1>1, <1>6, Down007Is DEF Listed, DownWrites
<1>7. CASE n = 11
  BY <1>1, <1>7, Down011Is DEF Listed, DownWrites
<1>8. CASE n = 13
  BY <1>1, <1>8, Is013 DEF Listed, DownWrites
<1> QED BY <1>3, <1>4, <1>5, <1>6, <1>7, <1>8

-----------------------------------------------------------------------------
(* The processes *)

JobFields == {"at", "up", "from", "goal", "step", "k", "view", "locks", "versioned", "culprit"}
IsJob(q) == DOMAIN q = JobFields

Busy(q) == q.at \in {"run", "commit"}
FirstStep(q) == IF q.up THEN q.from + 1 ELSE q.from
LastStep(q) == IF q.up THEN q.goal ELSE q.goal + 1

(* Where a process is in its scripts.                                      *)
Placed(q) ==
    /\ q.from \in 0 .. Latest /\ q.goal \in 0 .. Latest /\ q.step \in 1 .. Latest
    /\ q.up => q.from < q.step /\ q.step <= q.goal
    /\ ~q.up => q.goal < q.step /\ q.step <= q.from
    /\ q.k \in 1 .. Size(Script(q)) + 1
    /\ q.at = "commit" => q.versioned /\ q.step = LastStep(q) /\ q.k = Size(Script(q)) + 1
    /\ ~q.versioned => q.step = FirstStep(q)
    /\ q.locks = {} => q.k = 1 /\ ~q.versioned

RowFields == {"favorites", "conversations", "messages", "fives", "stars", "crowns",
              "unscored", "filed"}
IsBase(v) == DOMAIN v = {"schema", "rows"} /\ DOMAIN v.rows = RowFields

(* Only one process at a time has updated alembic_version, and it found    *)
(* the committed revision; a downgrade is alone.                           *)
Control ==
    /\ rev \in 0 .. Latest
    /\ IsBase(db) /\ \A j \in Jobs : IsBase(job[j].view)
    /\ job = [j \in Jobs |-> job[j]]
    /\ \A j \in Jobs : IsJob(job[j]) /\ job[j].at \in {"idle", "run", "commit", "failed"}
    /\ \A j \in Jobs : Busy(job[j]) => Placed(job[j]) /\ job[j].from <= rev
    /\ \A j \in Jobs : ~Busy(job[j]) => ~job[j].versioned /\ job[j].locks = {}
    /\ \A j \in Jobs : job[j].locks = {} => job[j].view = Empty
    /\ \A j \in Jobs : job[j].versioned => job[j].from = rev
    /\ \A i, j \in Jobs : job[i].versioned /\ job[j].versioned => i = j
    /\ \A j \in Jobs : Busy(job[j]) /\ ~job[j].up =>
          /\ job[j].from = rev
          /\ \A i \in Jobs : i # j => job[i].at = "idle"
          /\ undone.times < MaxDowngrades
    /\ undone = [times |-> undone.times, scripts |-> undone.scripts]
    /\ undone.times \in Nat /\ undone.times <= MaxDowngrades

(* A live process found the committed revision: it may come to commit.     *)
Live(j) == Busy(job[j]) /\ job[j].from = rev
View(j) == Seen(job[j])

LEMMA LatestIs == Latest = 13
BY DEF Latest

LEMMA ScriptIs ==
    ASSUME NEW q, q.step \in 1 .. Latest
    PROVE  /\ Listed(Script(q))
           /\ Size(Script(q)) \in Nat /\ Size(Script(q)) >= 1
           /\ Len(Script(q)) = Size(Script(q))
<1>1. Listed(Script(q))
  BY UpCalm, DownCalm, LatestIs DEF Script
<1>2. Len(Script(q)) = Size(Script(q))
  BY Zenon DEF Size
<1> QED BY <1>1, <1>2 DEF Listed

LEMMA SomeLock == \A s : LocksOf(s) # {}
BY DEF LocksOf

(* What the actions make of a process.                                     *)
LEMMA IdleIs ==
    /\ IsJob(Idle) /\ Idle.at = "idle" /\ Idle.locks = {} /\ Idle.view = Empty
    /\ ~Idle.versioned
BY DEF IsJob, Idle, JobFields

LEMMA FailedIs ==
    ASSUME NEW q, NEW s
    PROVE  LET p == Failed(q, s) IN
           /\ IsJob(p) /\ p.at = "failed" /\ p.locks = {} /\ p.view = Empty
           /\ ~p.versioned /\ p.up = q.up /\ p.from = q.from
BY DEF IsJob, Idle, Failed, JobFields

LEMMA ExecutedIs ==
    ASSUME NEW q, IsJob(q), NEW now, q.step \in 1 .. Latest, q.k \in Nat
    PROVE  LET p == Executed(q, now)
               s == Script(q)[q.k]
           IN
           \/ p.at = "failed" /\ \E c : p = Failed(q, c)
           \/ /\ ~Refused(now.schema, s) /\ ~Violated(now.rows, s)
              /\ IsJob(p) /\ p.at = q.at /\ p.up = q.up /\ p.from = q.from /\ p.goal = q.goal
              /\ p.step = q.step /\ p.k = q.k + 1 /\ p.versioned = q.versioned
              /\ p.view = [schema |-> Altered(now.schema, s),
                           rows |-> Changed(now.schema, now.rows, s)]
              /\ p.locks = q.locks \cup LocksOf(s) /\ p.locks # {}
<1> DEFINE s == Script(q)[q.k]
           v == [schema |-> Altered(now.schema, s), rows |-> Changed(now.schema, now.rows, s)]
           p == [q EXCEPT !.k = @ + 1, !.locks = @ \cup LocksOf(s), !.view = v]
<1>1. CASE Refused(now.schema, s) \/ Violated(now.rows, s)
  <2>1. Executed(q, now) = Failed(q, IF s.name = NoName THEN s.table ELSE s.name)
    BY <1>1, Zenon DEF Executed
  <2> QED BY <2>1, FailedIs
<1>2. CASE ~(Refused(now.schema, s) \/ Violated(now.rows, s))
  <2>1. Executed(q, now) = p
    BY <1>2, Zenon DEF Executed
  <2> HIDE DEF s, v
  <2>2. /\ IsJob(p) /\ p.at = q.at /\ p.up = q.up /\ p.from = q.from /\ p.goal = q.goal
        /\ p.step = q.step /\ p.k = q.k + 1 /\ p.versioned = q.versioned
        /\ p.view = v /\ p.locks = q.locks \cup LocksOf(s)
    BY DEF IsJob, JobFields
  <2>3. q.locks \cup LocksOf(s) # {}
    BY SomeLock
  <2> QED BY <1>2, <2>1, <2>2, <2>3 DEF s, v
<1> QED BY <1>1, <1>2

LEMMA Became ==
    ASSUME Control, NEW j \in Jobs, NEW q, Becomes(j, q)
    PROVE  job' = [i \in Jobs |-> job'[i]] /\ job'[j] = q
           /\ \A i \in Jobs : i # j => job'[i] = job[i]
BY DEF Control, Becomes

LEMMA EmptyIs == IsBase(Empty) /\ Empty.rows = NoRows /\ Empty.schema = {}
BY DEF Empty, NoRows, IsBase, RowFields

LEMMA ControlInit == Init => Control
<1> SUFFICES ASSUME Init PROVE Control
  OBVIOUS
<1>1. /\ job = [j \in Jobs |-> job[j]] /\ \A j \in Jobs : job[j] = Idle
  BY DEF Init
<1>2. /\ undone = [times |-> undone.times, scripts |-> undone.scripts]
      /\ undone.times = 0
  BY DEF Init
<1> QED BY <1>1, <1>2, IdleIs, EmptyIs, LatestIs, BoundsAssumption DEF Init, Control, Busy

(* What a write of the program leaves of a process.                        *)
SameJob(p, q) ==
    /\ IsJob(p) /\ p.at = q.at /\ p.up = q.up /\ p.from = q.from /\ p.goal = q.goal
    /\ p.step = q.step /\ p.k = q.k /\ p.locks = q.locks /\ p.versioned = q.versioned

LEMMA Wrote ==
    ASSUME Control, NEW g,
           job' = [j \in Jobs |-> IF job[j].locks = {} THEN job[j]
                                  ELSE [job[j] EXCEPT !.view = g[j]]]
    PROVE  /\ job' = [j \in Jobs |-> job'[j]]
           /\ \A j \in Jobs : SameJob(job'[j], job[j])
           /\ \A j \in Jobs : job[j].locks = {} => job'[j] = job[j]
           /\ \A j \in Jobs : job[j].locks # {} => job'[j].view = g[j]
<1>1. \A q, v : IsJob(q) => LET p == [q EXCEPT !.view = v] IN SameJob(p, q) /\ p.view = v
  BY DEF IsJob, JobFields, SameJob
<1>2. \A j \in Jobs : IsJob(job[j]) /\ SameJob(job[j], job[j])
  BY DEF Control, SameJob
<1> QED BY <1>1, <1>2

(* Others see the rows changed, and so does every transaction.             *)
SameButRows == 
    /\ rev' = rev /\ undone' = undone
    /\ job' = [j \in Jobs |-> job'[j]]
    /\ \A j \in Jobs : SameJob(job'[j], job[j]) 
    /\ \A j \in Jobs : IsBase(View(j)) /\ View(j)'.schema = View(j).schema
    /\ IsBase(db) /\ db'.schema = db.schema
    /\ IsBase(db') /\ \A j \in Jobs : IsBase(job'[j].view)
    /\ \A j \in Jobs : job'[j].locks = {} => job'[j].view = Empty

LEMMA Nested ==
    \A q, r : [q EXCEPT !.view.rows = r] = [q EXCEPT !.view = [q.view EXCEPT !.rows = r]]
OBVIOUS

LEMMA WroteFavorite ==
    ASSUME Control, NEW u, NEW thing, NEW t, Favorite(u, thing, t)
    PROVE  LET f == [id |-> Cardinality(past.liked) + 1, user |-> u, thing |-> thing, at |-> t] IN
           /\ SameButRows /\ past' = [past EXCEPT !.liked = @ \cup {f}]
           /\ Unlocked("favorites")
           /\ db'.rows = [db.rows EXCEPT !.favorites = @ \cup {f}]
           /\ \A j \in Jobs :
                 View(j)'.rows = [View(j).rows EXCEPT !.favorites = @ \cup {f}]
<1> DEFINE f == [id |-> Cardinality(past.liked) + 1, user |-> u, thing |-> thing, at |-> t]
           Insert(R) == [R EXCEPT !.favorites = R.favorites \cup {f}]
           g == [j \in Jobs |-> [job[j].view EXCEPT !.rows = Insert(job[j].view.rows)]]
<1>1. /\ rev' = rev /\ undone' = undone /\ past' = [past EXCEPT !.liked = @ \cup {f}]
      /\ Unlocked("favorites")
      /\ db' = [db EXCEPT !.rows = Insert(db.rows)]
      /\ job' = [j \in Jobs |-> IF job[j].locks = {} THEN job[j]
                                ELSE [job[j] EXCEPT !.view.rows = Insert(job[j].view.rows)]]
  BY DEF Favorite, Write
<1>2. \A R : DOMAIN R = RowFields => DOMAIN Insert(R) = RowFields
  OBVIOUS
<1> HIDE DEF f, Insert
<1>3. /\ SameButRows /\ db'.rows = Insert(db.rows)
      /\ \A j \in Jobs : View(j)'.rows = Insert(View(j).rows)
  <2>1. \A v : IsBase(v) => LET w == [v EXCEPT !.rows = Insert(v.rows)] IN
                            IsBase(w) /\ w.schema = v.schema /\ w.rows = Insert(v.rows)
    BY <1>2 DEF IsBase
  <2>2. IsBase(db) /\ \A j \in Jobs : IsBase(job[j].view) /\ (job[j].locks = {} => job[j].view = Empty)
    BY DEF Control
  <2>3. job' = [j \in Jobs |-> IF job[j].locks = {} THEN job[j] ELSE [job[j] EXCEPT !.view = g[j]]]
    BY <1>1, Nested
  <2>4. \A j \in Jobs : /\ IsBase(g[j]) /\ g[j].schema = job[j].view.schema
                        /\ g[j].rows = Insert(job[j].view.rows)
    BY <1>2, <2>2 DEF IsBase
  <2> HIDE DEF g
  <2>5. /\ job' = [j \in Jobs |-> job'[j]]
        /\ \A j \in Jobs : SameJob(job'[j], job[j])
        /\ \A j \in Jobs : job[j].locks = {} => job'[j] = job[j]
        /\ \A j \in Jobs : job[j].locks # {} => job'[j].view = g[j]
    BY <2>3, Wrote
  <2>6. \A j \in Jobs : job'[j].locks = job[j].locks
    BY <2>5 DEF SameJob
  <2>7. \A j \in Jobs : /\ IsBase(View(j)) /\ View(j)'.schema = View(j).schema
                        /\ View(j)'.rows = Insert(View(j).rows)
    <3> SUFFICES ASSUME NEW j \in Jobs
                 PROVE  /\ IsBase(View(j)) /\ View(j)'.schema = View(j).schema
                        /\ View(j)'.rows = Insert(View(j).rows)
      OBVIOUS
    <3>1. CASE job[j].locks = {}
      <4>1. View(j) = db /\ View(j)' = db'
        BY <2>6, <3>1 DEF View, Seen
      <4> QED BY <1>1, <2>1, <2>2, <4>1
    <3>2. CASE job[j].locks # {}
      <4>1. View(j) = job[j].view /\ View(j)' = job'[j].view
        BY <2>6, <3>2 DEF View, Seen
      <4>2. job'[j].view = g[j]
        BY <2>5, <3>2
      <4> QED BY <2>1, <2>2, <2>4, <4>1, <4>2
    <3> QED BY <3>1, <3>2
  <2>8. IsBase(db') /\ db'.schema = db.schema /\ db'.rows = Insert(db.rows)
    BY <1>1, <2>1, <2>2
  <2>9. \A j \in Jobs : IsBase(job'[j].view) /\ (job'[j].locks = {} => job'[j].view = Empty)
    <3> SUFFICES ASSUME NEW j \in Jobs
                 PROVE  IsBase(job'[j].view) /\ (job'[j].locks = {} => job'[j].view = Empty)
      OBVIOUS
    <3>1. CASE job[j].locks = {}
      BY <2>2, <2>5, <3>1
    <3>2. CASE job[j].locks # {}
      BY <2>1, <2>2, <2>4, <2>5, <2>6, <3>2
    <3> QED BY <3>1, <3>2
  <2> QED BY <1>1, <2>2, <2>5, <2>7, <2>8, <2>9 DEF SameButRows
<1> QED BY <1>1, <1>3 DEF f, Insert

LEMMA WroteOpen ==
    ASSUME Control, NEW c, Open(c)
    PROVE  /\ SameButRows /\ past' = [past EXCEPT !.opened = @ \cup {c}]
           /\ Unlocked("conversations")
           /\ db'.rows = [db.rows EXCEPT !.conversations = db.rows.conversations \cup {c}]
           /\ \A j \in Jobs : View(j)'.rows = [View(j).rows EXCEPT !.conversations = View(j).rows.conversations \cup {c}]
<1> DEFINE Insert(R) == [R EXCEPT !.conversations = R.conversations \cup {c}]
           g == [j \in Jobs |-> [job[j].view EXCEPT !.rows = Insert(job[j].view.rows)]]
<1>1. /\ rev' = rev /\ undone' = undone /\ past' = [past EXCEPT !.opened = @ \cup {c}]
      /\ Unlocked("conversations")
      /\ db' = [db EXCEPT !.rows = Insert(db.rows)]
      /\ job' = [j \in Jobs |-> IF job[j].locks = {} THEN job[j]
                                ELSE [job[j] EXCEPT !.view.rows = Insert(job[j].view.rows)]]
  BY DEF Open, Write
<1>2. \A R : DOMAIN R = RowFields => DOMAIN Insert(R) = RowFields
  OBVIOUS
<1> HIDE DEF Insert
<1>3. /\ SameButRows /\ db'.rows = Insert(db.rows)
      /\ \A j \in Jobs : View(j)'.rows = Insert(View(j).rows)
  <2>1. \A v : IsBase(v) => LET w == [v EXCEPT !.rows = Insert(v.rows)] IN
                            IsBase(w) /\ w.schema = v.schema /\ w.rows = Insert(v.rows)
    BY <1>2 DEF IsBase
  <2>2. IsBase(db) /\ \A j \in Jobs : IsBase(job[j].view) /\ (job[j].locks = {} => job[j].view = Empty)
    BY DEF Control
  <2>3. job' = [j \in Jobs |-> IF job[j].locks = {} THEN job[j] ELSE [job[j] EXCEPT !.view = g[j]]]
    BY <1>1, Nested
  <2>4. \A j \in Jobs : /\ IsBase(g[j]) /\ g[j].schema = job[j].view.schema
                        /\ g[j].rows = Insert(job[j].view.rows)
    BY <1>2, <2>2 DEF IsBase
  <2> HIDE DEF g
  <2>5. /\ job' = [j \in Jobs |-> job'[j]]
        /\ \A j \in Jobs : SameJob(job'[j], job[j])
        /\ \A j \in Jobs : job[j].locks = {} => job'[j] = job[j]
        /\ \A j \in Jobs : job[j].locks # {} => job'[j].view = g[j]
    BY <2>3, Wrote
  <2>6. \A j \in Jobs : job'[j].locks = job[j].locks
    BY <2>5 DEF SameJob
  <2>7. \A j \in Jobs : /\ IsBase(View(j)) /\ View(j)'.schema = View(j).schema
                        /\ View(j)'.rows = Insert(View(j).rows)
    <3> SUFFICES ASSUME NEW j \in Jobs
                 PROVE  /\ IsBase(View(j)) /\ View(j)'.schema = View(j).schema
                        /\ View(j)'.rows = Insert(View(j).rows)
      OBVIOUS
    <3>1. CASE job[j].locks = {}
      <4>1. View(j) = db /\ View(j)' = db'
        BY <2>6, <3>1 DEF View, Seen
      <4> QED BY <1>1, <2>1, <2>2, <4>1
    <3>2. CASE job[j].locks # {}
      <4>1. View(j) = job[j].view /\ View(j)' = job'[j].view
        BY <2>6, <3>2 DEF View, Seen
      <4>2. job'[j].view = g[j]
        BY <2>5, <3>2
      <4> QED BY <2>1, <2>2, <2>4, <4>1, <4>2
    <3> QED BY <3>1, <3>2
  <2>8. IsBase(db') /\ db'.schema = db.schema /\ db'.rows = Insert(db.rows)
    BY <1>1, <2>1, <2>2
  <2>9. \A j \in Jobs : IsBase(job'[j].view) /\ (job'[j].locks = {} => job'[j].view = Empty)
    <3> SUFFICES ASSUME NEW j \in Jobs
                 PROVE  IsBase(job'[j].view) /\ (job'[j].locks = {} => job'[j].view = Empty)
      OBVIOUS
    <3>1. CASE job[j].locks = {}
      BY <2>2, <2>5, <3>1
    <3>2. CASE job[j].locks # {}
      BY <2>1, <2>2, <2>4, <2>5, <2>6, <3>2
    <3> QED BY <3>1, <3>2
  <2> QED BY <1>1, <2>2, <2>5, <2>7, <2>8, <2>9 DEF SameButRows
<1> QED BY <1>1, <1>3 DEF Insert

LEMMA WroteSay ==
    ASSUME Control, NEW c, NEW u, Say(c, u)
    PROVE  LET m == [id |-> Cardinality(past.said) + 1, conversation |-> c.id, sender |-> u] IN
           /\ SameButRows /\ past' = [past EXCEPT !.said = @ \cup
            {[id |-> m.id, sender |-> u, to |-> Members(c), conversation |-> c.id,
              store |-> IF c.seller = NoStore THEN c.context ELSE c.seller]}]
           /\ Unlocked("conversations") /\ Unlocked("messages")
           /\ db'.rows = [db.rows EXCEPT !.messages = db.rows.messages \cup {m}]
           /\ \A j \in Jobs : View(j)'.rows = [View(j).rows EXCEPT !.messages = View(j).rows.messages \cup {m}]
<1> DEFINE m == [id |-> Cardinality(past.said) + 1, conversation |-> c.id, sender |-> u]
           Insert(R) == [R EXCEPT !.messages = R.messages \cup {m}]
           g == [j \in Jobs |-> [job[j].view EXCEPT !.rows = Insert(job[j].view.rows)]]
<1>1. /\ rev' = rev /\ undone' = undone /\ past' = [past EXCEPT !.said = @ \cup
            {[id |-> m.id, sender |-> u, to |-> Members(c), conversation |-> c.id,
              store |-> IF c.seller = NoStore THEN c.context ELSE c.seller]}]
      /\ Unlocked("conversations") /\ Unlocked("messages")
      /\ db' = [db EXCEPT !.rows = Insert(db.rows)]
      /\ job' = [j \in Jobs |-> IF job[j].locks = {} THEN job[j]
                                ELSE [job[j] EXCEPT !.view.rows = Insert(job[j].view.rows)]]
  BY DEF Say, Write
<1>2. \A R : DOMAIN R = RowFields => DOMAIN Insert(R) = RowFields
  OBVIOUS
<1> HIDE DEF m, Insert
<1>3. /\ SameButRows /\ db'.rows = Insert(db.rows)
      /\ \A j \in Jobs : View(j)'.rows = Insert(View(j).rows)
  <2>1. \A v : IsBase(v) => LET w == [v EXCEPT !.rows = Insert(v.rows)] IN
                            IsBase(w) /\ w.schema = v.schema /\ w.rows = Insert(v.rows)
    BY <1>2 DEF IsBase
  <2>2. IsBase(db) /\ \A j \in Jobs : IsBase(job[j].view) /\ (job[j].locks = {} => job[j].view = Empty)
    BY DEF Control
  <2>3. job' = [j \in Jobs |-> IF job[j].locks = {} THEN job[j] ELSE [job[j] EXCEPT !.view = g[j]]]
    BY <1>1, Nested
  <2>4. \A j \in Jobs : /\ IsBase(g[j]) /\ g[j].schema = job[j].view.schema
                        /\ g[j].rows = Insert(job[j].view.rows)
    BY <1>2, <2>2 DEF IsBase
  <2> HIDE DEF g
  <2>5. /\ job' = [j \in Jobs |-> job'[j]]
        /\ \A j \in Jobs : SameJob(job'[j], job[j])
        /\ \A j \in Jobs : job[j].locks = {} => job'[j] = job[j]
        /\ \A j \in Jobs : job[j].locks # {} => job'[j].view = g[j]
    BY <2>3, Wrote
  <2>6. \A j \in Jobs : job'[j].locks = job[j].locks
    BY <2>5 DEF SameJob
  <2>7. \A j \in Jobs : /\ IsBase(View(j)) /\ View(j)'.schema = View(j).schema
                        /\ View(j)'.rows = Insert(View(j).rows)
    <3> SUFFICES ASSUME NEW j \in Jobs
                 PROVE  /\ IsBase(View(j)) /\ View(j)'.schema = View(j).schema
                        /\ View(j)'.rows = Insert(View(j).rows)
      OBVIOUS
    <3>1. CASE job[j].locks = {}
      <4>1. View(j) = db /\ View(j)' = db'
        BY <2>6, <3>1 DEF View, Seen
      <4> QED BY <1>1, <2>1, <2>2, <4>1
    <3>2. CASE job[j].locks # {}
      <4>1. View(j) = job[j].view /\ View(j)' = job'[j].view
        BY <2>6, <3>2 DEF View, Seen
      <4>2. job'[j].view = g[j]
        BY <2>5, <3>2
      <4> QED BY <2>1, <2>2, <2>4, <4>1, <4>2
    <3> QED BY <3>1, <3>2
  <2>8. IsBase(db') /\ db'.schema = db.schema /\ db'.rows = Insert(db.rows)
    BY <1>1, <2>1, <2>2
  <2>9. \A j \in Jobs : IsBase(job'[j].view) /\ (job'[j].locks = {} => job'[j].view = Empty)
    <3> SUFFICES ASSUME NEW j \in Jobs
                 PROVE  IsBase(job'[j].view) /\ (job'[j].locks = {} => job'[j].view = Empty)
      OBVIOUS
    <3>1. CASE job[j].locks = {}
      BY <2>2, <2>5, <3>1
    <3>2. CASE job[j].locks # {}
      BY <2>1, <2>2, <2>4, <2>5, <2>6, <3>2
    <3> QED BY <3>1, <3>2
  <2> QED BY <1>1, <2>2, <2>5, <2>7, <2>8, <2>9 DEF SameButRows
<1> QED BY <1>1, <1>3 DEF m, Insert

(* The milestones of n five-star reviews at a revision.                    *)
StarsBy(r, n) == IF r >= 13 THEN (n % 1000) \div 100 ELSE n \div 100
CrownsBy(r, n) == IF r >= 13 THEN n \div 1000 ELSE 0

LEMMA WroteReview ==
    ASSUME Control, NEW n, Review(n)
    PROVE  /\ SameButRows /\ past' = past
           /\ Unlocked("reviews") /\ Unlocked("seller_profiles") /\ Untouched("seller_profiles")
           /\ db'.rows = [db.rows EXCEPT !.fives = n, !.stars = StarsBy(rev, n), !.crowns = CrownsBy(rev, n)]
           /\ \A j \in Jobs : View(j)'.rows = [View(j).rows EXCEPT !.fives = n, !.stars = StarsBy(rev, n), !.crowns = CrownsBy(rev, n)]
<1> DEFINE Insert(R) == [R EXCEPT !.fives = n, !.stars = StarsBy(rev, n), !.crowns = CrownsBy(rev, n)]
           g == [j \in Jobs |-> [job[j].view EXCEPT !.rows = Insert(job[j].view.rows)]]
<1>1. /\ rev' = rev /\ undone' = undone /\ past' = past
      /\ Unlocked("reviews") /\ Unlocked("seller_profiles") /\ Untouched("seller_profiles")
      /\ db' = [db EXCEPT !.rows = Insert(db.rows)]
      /\ job' = [j \in Jobs |-> IF job[j].locks = {} THEN job[j]
                                ELSE [job[j] EXCEPT !.view.rows = Insert(job[j].view.rows)]]
  BY DEF Review, Write, StarsBy, CrownsBy
<1>2. \A R : DOMAIN R = RowFields => DOMAIN Insert(R) = RowFields
  OBVIOUS
<1> HIDE DEF Insert
<1>3. /\ SameButRows /\ db'.rows = Insert(db.rows)
      /\ \A j \in Jobs : View(j)'.rows = Insert(View(j).rows)
  <2>1. \A v : IsBase(v) => LET w == [v EXCEPT !.rows = Insert(v.rows)] IN
                            IsBase(w) /\ w.schema = v.schema /\ w.rows = Insert(v.rows)
    BY <1>2 DEF IsBase
  <2>2. IsBase(db) /\ \A j \in Jobs : IsBase(job[j].view) /\ (job[j].locks = {} => job[j].view = Empty)
    BY DEF Control
  <2>3. job' = [j \in Jobs |-> IF job[j].locks = {} THEN job[j] ELSE [job[j] EXCEPT !.view = g[j]]]
    BY <1>1, Nested
  <2>4. \A j \in Jobs : /\ IsBase(g[j]) /\ g[j].schema = job[j].view.schema
                        /\ g[j].rows = Insert(job[j].view.rows)
    BY <1>2, <2>2 DEF IsBase
  <2> HIDE DEF g
  <2>5. /\ job' = [j \in Jobs |-> job'[j]]
        /\ \A j \in Jobs : SameJob(job'[j], job[j])
        /\ \A j \in Jobs : job[j].locks = {} => job'[j] = job[j]
        /\ \A j \in Jobs : job[j].locks # {} => job'[j].view = g[j]
    BY <2>3, Wrote
  <2>6. \A j \in Jobs : job'[j].locks = job[j].locks
    BY <2>5 DEF SameJob
  <2>7. \A j \in Jobs : /\ IsBase(View(j)) /\ View(j)'.schema = View(j).schema
                        /\ View(j)'.rows = Insert(View(j).rows)
    <3> SUFFICES ASSUME NEW j \in Jobs
                 PROVE  /\ IsBase(View(j)) /\ View(j)'.schema = View(j).schema
                        /\ View(j)'.rows = Insert(View(j).rows)
      OBVIOUS
    <3>1. CASE job[j].locks = {}
      <4>1. View(j) = db /\ View(j)' = db'
        BY <2>6, <3>1 DEF View, Seen
      <4> QED BY <1>1, <2>1, <2>2, <4>1
    <3>2. CASE job[j].locks # {}
      <4>1. View(j) = job[j].view /\ View(j)' = job'[j].view
        BY <2>6, <3>2 DEF View, Seen
      <4>2. job'[j].view = g[j]
        BY <2>5, <3>2
      <4> QED BY <2>1, <2>2, <2>4, <4>1, <4>2
    <3> QED BY <3>1, <3>2
  <2>8. IsBase(db') /\ db'.schema = db.schema /\ db'.rows = Insert(db.rows)
    BY <1>1, <2>1, <2>2
  <2>9. \A j \in Jobs : IsBase(job'[j].view) /\ (job'[j].locks = {} => job'[j].view = Empty)
    <3> SUFFICES ASSUME NEW j \in Jobs
                 PROVE  IsBase(job'[j].view) /\ (job'[j].locks = {} => job'[j].view = Empty)
      OBVIOUS
    <3>1. CASE job[j].locks = {}
      BY <2>2, <2>5, <3>1
    <3>2. CASE job[j].locks # {}
      BY <2>1, <2>2, <2>4, <2>5, <2>6, <3>2
    <3> QED BY <3>1, <3>2
  <2> QED BY <1>1, <2>2, <2>5, <2>7, <2>8, <2>9 DEF SameButRows
<1> QED BY <1>1, <1>3 DEF Insert

LEMMA WroteFile ==
    ASSUME Control, File
    PROVE  /\ SameButRows /\ past' = past
           /\ Unlocked("categories")
           /\ db'.rows = [db.rows EXCEPT !.filed = TRUE]
           /\ \A j \in Jobs : View(j)'.rows = [View(j).rows EXCEPT !.filed = TRUE]
<1> DEFINE Insert(R) == [R EXCEPT !.filed = TRUE]
           g == [j \in Jobs |-> [job[j].view EXCEPT !.rows = Insert(job[j].view.rows)]]
<1>1. /\ rev' = rev /\ undone' = undone /\ past' = past
      /\ Unlocked("categories")
      /\ db' = [db EXCEPT !.rows = Insert(db.rows)]
      /\ job' = [j \in Jobs |-> IF job[j].locks = {} THEN job[j]
                                ELSE [job[j] EXCEPT !.view.rows = Insert(job[j].view.rows)]]
  BY DEF File, Write
<1>2. \A R : DOMAIN R = RowFields => DOMAIN Insert(R) = RowFields
  OBVIOUS
<1> HIDE DEF Insert
<1>3. /\ SameButRows /\ db'.rows = Insert(db.rows)
      /\ \A j \in Jobs : View(j)'.rows = Insert(View(j).rows)
  <2>1. \A v : IsBase(v) => LET w == [v EXCEPT !.rows = Insert(v.rows)] IN
                            IsBase(w) /\ w.schema = v.schema /\ w.rows = Insert(v.rows)
    BY <1>2 DEF IsBase
  <2>2. IsBase(db) /\ \A j \in Jobs : IsBase(job[j].view) /\ (job[j].locks = {} => job[j].view = Empty)
    BY DEF Control
  <2>3. job' = [j \in Jobs |-> IF job[j].locks = {} THEN job[j] ELSE [job[j] EXCEPT !.view = g[j]]]
    BY <1>1, Nested
  <2>4. \A j \in Jobs : /\ IsBase(g[j]) /\ g[j].schema = job[j].view.schema
                        /\ g[j].rows = Insert(job[j].view.rows)
    BY <1>2, <2>2 DEF IsBase
  <2> HIDE DEF g
  <2>5. /\ job' = [j \in Jobs |-> job'[j]]
        /\ \A j \in Jobs : SameJob(job'[j], job[j])
        /\ \A j \in Jobs : job[j].locks = {} => job'[j] = job[j]
        /\ \A j \in Jobs : job[j].locks # {} => job'[j].view = g[j]
    BY <2>3, Wrote
  <2>6. \A j \in Jobs : job'[j].locks = job[j].locks
    BY <2>5 DEF SameJob
  <2>7. \A j \in Jobs : /\ IsBase(View(j)) /\ View(j)'.schema = View(j).schema
                        /\ View(j)'.rows = Insert(View(j).rows)
    <3> SUFFICES ASSUME NEW j \in Jobs
                 PROVE  /\ IsBase(View(j)) /\ View(j)'.schema = View(j).schema
                        /\ View(j)'.rows = Insert(View(j).rows)
      OBVIOUS
    <3>1. CASE job[j].locks = {}
      <4>1. View(j) = db /\ View(j)' = db'
        BY <2>6, <3>1 DEF View, Seen
      <4> QED BY <1>1, <2>1, <2>2, <4>1
    <3>2. CASE job[j].locks # {}
      <4>1. View(j) = job[j].view /\ View(j)' = job'[j].view
        BY <2>6, <3>2 DEF View, Seen
      <4>2. job'[j].view = g[j]
        BY <2>5, <3>2
      <4> QED BY <2>1, <2>2, <2>4, <4>1, <4>2
    <3> QED BY <3>1, <3>2
  <2>8. IsBase(db') /\ db'.schema = db.schema /\ db'.rows = Insert(db.rows)
    BY <1>1, <2>1, <2>2
  <2>9. \A j \in Jobs : IsBase(job'[j].view) /\ (job'[j].locks = {} => job'[j].view = Empty)
    <3> SUFFICES ASSUME NEW j \in Jobs
                 PROVE  IsBase(job'[j].view) /\ (job'[j].locks = {} => job'[j].view = Empty)
      OBVIOUS
    <3>1. CASE job[j].locks = {}
      BY <2>2, <2>5, <3>1
    <3>2. CASE job[j].locks # {}
      BY <2>1, <2>2, <2>4, <2>5, <2>6, <3>2
    <3> QED BY <3>1, <3>2
  <2> QED BY <1>1, <2>2, <2>5, <2>7, <2>8, <2>9 DEF SameButRows
<1> QED BY <1>1, <1>3 DEF Insert

LEMMA ChangedRows ==
    ASSUME NEW S, NEW R, DOMAIN R = RowFields, NEW s
    PROVE  DOMAIN Changed(S, R, s) = RowFields
<1>1. \A X : DOMAIN WithoutConversations(R, X) = RowFields
  BY DEF WithoutConversations
<1>2. DOMAIN Emptied(R, s.table) = RowFields
  BY <1>1 DEF Emptied
<1>3. DOMAIN Forgotten(R, s.table, s.name) = RowFields
  BY DEF Forgotten, Every
<1>4. DOMAIN SplitCrowns(R) = RowFields
  BY DEF SplitCrowns
<1>5. DOMAIN Every(R, Backfilled) = RowFields /\ DOMAIN Every(R, Restored) = RowFields
  BY DEF Every
<1>6. DOMAIN Rewritten(R, s.name) = RowFields
  BY <1>1, <1>4, <1>5 DEF Rewritten
<1> QED BY <1>2, <1>3, <1>6 DEF Changed

LEMMA ExecutedBase ==
    ASSUME NEW S, NEW now, IsBase(now), NEW s
    PROVE  IsBase([schema |-> Altered(now.schema, s), rows |-> Changed(now.schema, now.rows, s)])
<1>1. DOMAIN Changed(now.schema, now.rows, s) = RowFields
  BY ChangedRows DEF IsBase
<1> DEFINE a == Altered(now.schema, s)
           r == Changed(now.schema, now.rows, s)
<1> HIDE DEF a, r
<1>2. DOMAIN [schema |-> a, rows |-> r] = {"schema", "rows"}
      /\ [schema |-> a, rows |-> r].rows = r
  OBVIOUS
<1> QED BY <1>1, <1>2 DEF IsBase, a, r

(* What can become of a process that is live after the step.               *)
Stayed(j) == Live(j) /\ job'[j] = job[j]
Began(j) == 
    LET p == job'[j] IN
    /\ p.at = "run" /\ p.from = rev /\ p.k = 1 /\ p.step = FirstStep(p)
    /\ p.locks = {} /\ p.step \in 1 .. Latest /\ (p.up \/ ~p.up)
    /\ (p.up => p.step = rev + 1) /\ (~p.up => p.step = rev)
Ran(j) ==
    LET q == job[j]
        p == job'[j]
        s == Script(q)[q.k]
    IN
    /\ Live(j) /\ q.at = "run" /\ q.k <= Size(Script(q))
    /\ ~Refused(View(j).schema, s) /\ ~Violated(View(j).rows, s)
    /\ p.at = "run" /\ p.up = q.up /\ p.from = q.from /\ p.goal = q.goal
    /\ p.step = q.step /\ p.k = q.k + 1 /\ p.versioned = q.versioned
    /\ View(j)'.schema = Altered(View(j).schema, s)
    /\ View(j)'.rows = Changed(View(j).schema, View(j).rows, s)
    /\ p.locks = q.locks \cup LocksOf(s)
Moves(j) ==
    LET q == job[j]
        p == job'[j]
    IN
    /\ Live(j) /\ q.at = "run" /\ q.k = Size(Script(q)) + 1
    /\ p.up = q.up /\ p.from = q.from /\ p.goal = q.goal /\ p.view = q.view
    /\ p.locks = q.locks /\ p.versioned /\ p.step \in 1 .. Latest
    /\ \/ p.at = "commit" /\ p.step = q.step /\ p.k = q.k
       \/ p.at = "run" /\ p.k = 1 /\ p.step = (IF q.up THEN q.step + 1 ELSE q.step - 1)

Commits(j) ==
    /\ job[j].at = "commit" /\ Live(j) /\ job[j].locks # {}
    /\ rev' = job[j].goal /\ db' = View(j)
    /\ undone' = IF job[j].up THEN undone
                 ELSE [times |-> undone.times + 1,
                       scripts |-> undone.scripts \cup (Lossy \cap (job[j].goal + 1 .. job[j].from))]
    /\ \A i \in Jobs : ~Live(i)'

Works(j) ==
    \/ /\ rev' = rev /\ db' = db /\ undone' = undone
       /\ \A i \in Jobs : Live(i)' => Stayed(i) \/ Began(i) \/ Ran(i) \/ Moves(i)
    \/ Commits(j)

LEMMA ControlPrograms ==
    ASSUME Control, SameButRows
    PROVE  Control'
<1>1. \A j \in Jobs : SameJob(job'[j], job[j])
  BY DEF SameButRows
<1>2. \A j \in Jobs : Busy(job[j]) <=> Busy(job'[j])
  BY <1>1 DEF SameJob, Busy
<1>3. \A j \in Jobs : Placed(job[j]) => Placed(job'[j])
  BY <1>1 DEF SameJob, Placed, FirstStep, LastStep, Script
<1>4. \A j \in Jobs : Busy(job'[j]) => Placed(job'[j]) /\ job'[j].from <= rev'
  BY <1>1, <1>2, <1>3 DEF SameButRows, Control, SameJob
<1>5. \A j \in Jobs : Busy(job'[j]) /\ ~job'[j].up =>
          /\ job'[j].from = rev'
          /\ \A i \in Jobs : i # j => job'[i].at = "idle"
          /\ undone'.times < MaxDowngrades
  BY <1>1, <1>2 DEF SameButRows, Control, SameJob
<1> QED BY <1>1, <1>2, <1>4, <1>5, SMTT(60) DEF SameButRows, Control, SameJob

LEMMA StepUnbusy ==
    ASSUME Control, NEW j \in Jobs, NEW q, Becomes(j, q), IsJob(q),
           q.at \in {"idle", "failed"}, q.at = "failed" => Busy(job[j]), ~q.versioned, q.locks = {}, q.view = Empty,
           UNCHANGED <<rev, db, undone, past>>
    PROVE  Control' /\ Works(j)
<1>1. /\ job' = [i \in Jobs |-> job'[i]] /\ job'[j] = q
      /\ \A i \in Jobs : i # j => job'[i] = job[i]
  BY Became
<1>2. ~Busy(job'[j])
  BY <1>1 DEF Busy
<1>3. \A i \in Jobs : Busy(job'[i]) => i # j /\ job'[i] = job[i] /\ Busy(job[i])
  BY <1>1, <1>2
<1>4. \A i \in Jobs : Busy(job'[i]) /\ ~job'[i].up =>
          /\ job'[i].from = rev'
          /\ \A k \in Jobs : k # i => job'[k].at = "idle"
          /\ undone'.times < MaxDowngrades
  <2> SUFFICES ASSUME NEW i \in Jobs, Busy(job'[i]), ~job'[i].up
               PROVE  /\ job'[i].from = rev'
                      /\ \A k \in Jobs : k # i => job'[k].at = "idle"
                      /\ undone'.times < MaxDowngrades
    OBVIOUS
  <2>1. /\ i # j /\ Busy(job[i]) /\ ~job[i].up /\ job[i].from = rev
        /\ \A k \in Jobs : k # i => job[k].at = "idle"
        /\ undone.times < MaxDowngrades
    BY <1>3 DEF Control
  <2>2. q.at = "idle"
    BY <2>1 DEF Busy
  <2> QED BY <1>1, <2>1, <2>2
<1>5. Control'
  BY <1>1, <1>2, <1>3, <1>4, EmptyIs DEF Control
<1>6. \A i \in Jobs : Live(i)' => Stayed(i)
  BY <1>3 DEF Live, Stayed
<1> QED BY <1>5, <1>6 DEF Works

(* A step that leaves the rest alone and j busy, at q.                     *)
LEMMA StepBusy ==
    ASSUME Control, NEW j \in Jobs, NEW q, Becomes(j, q), IsJob(q),
           Busy(q), Placed(q), q.from <= rev, IsBase(q.view),
           q.locks = {} => q.view = Empty,
           q.versioned => q.from = rev /\ \A i \in Jobs : i # j => ~job[i].versioned,
           ~q.up => /\ q.from = rev /\ undone.times < MaxDowngrades
                    /\ \A i \in Jobs : i # j => job[i].at = "idle",
           q.up => \A i \in Jobs : i # j => ~Busy(job[i]) \/ job[i].up,
           UNCHANGED <<rev, db, undone, past>>
    PROVE  Control' /\ job'[j] = q /\ \A i \in Jobs : i # j /\ Live(i)' => Stayed(i)
<1>1. /\ job' = [i \in Jobs |-> job'[i]] /\ job'[j] = q
      /\ \A i \in Jobs : i # j => job'[i] = job[i]
  BY Became
<1>2. \A i \in Jobs : Busy(job'[i]) /\ ~job'[i].up =>
          /\ job'[i].from = rev'
          /\ \A k \in Jobs : k # i => job'[k].at = "idle"
          /\ undone'.times < MaxDowngrades
  <2> SUFFICES ASSUME NEW i \in Jobs, Busy(job'[i]), ~job'[i].up
               PROVE  /\ job'[i].from = rev'
                      /\ \A k \in Jobs : k # i => job'[k].at = "idle"
                      /\ undone'.times < MaxDowngrades
    OBVIOUS
  <2>1. CASE i = j
    BY <1>1, <2>1
  <2>2. CASE i # j
    <3>1. job'[i] = job[i]
      BY <1>1, <2>2
    <3>2. ~q.up
      BY <2>2, <3>1
    <3>3. job[i].at = "idle"
      BY <2>2, <3>2
    <3> QED BY <3>1, <3>3 DEF Busy
  <2> QED BY <2>1, <2>2
<1>3. \A i \in Jobs : Busy(job'[i]) => Placed(job'[i]) /\ job'[i].from <= rev'
  BY <1>1 DEF Control
<1>4. \A i \in Jobs : IsJob(job'[i]) /\ job'[i].at \in {"idle", "run", "commit", "failed"}
  BY <1>1 DEF Control, Busy
<1>5. \A i \in Jobs : ~Busy(job'[i]) => ~job'[i].versioned /\ job'[i].locks = {}
  BY <1>1 DEF Control
<1>6. \A i \in Jobs : /\ IsBase(job'[i].view) /\ (job'[i].locks = {} => job'[i].view = Empty)
                      /\ (job'[i].versioned => job'[i].from = rev')
  BY <1>1 DEF Control
<1>7. \A i, k \in Jobs : job'[i].versioned /\ job'[k].versioned => i = k
  BY <1>1 DEF Control
<1>8. Control'
  BY <1>1, <1>2, <1>3, <1>4, <1>5, <1>6, <1>7 DEF Control
<1>9. \A i \in Jobs : i # j /\ Live(i)' => Stayed(i)
  BY <1>1 DEF Live, Stayed
<1> QED BY <1>1, <1>8, <1>9

LEMMA ControlStart ==
    ASSUME Control, NEW j \in Jobs, NEW n \in Releases, Start(j, n)
    PROVE  Control' /\ Works(j) /\ past' = past
<1> DEFINE q == [Idle EXCEPT !.at = "run", !.from = rev, !.goal = n, !.step = rev + 1]
<1>1. /\ Becomes(j, q) /\ UNCHANGED <<rev, db, undone, past>> /\ n > rev /\ ~Undoing
      /\ job[j].at = "idle"
  BY DEF Start
<1>2. /\ IsJob(q) /\ q.at = "run" /\ q.up /\ q.from = rev /\ q.goal = n
      /\ q.step = rev + 1 /\ q.k = 1 /\ q.view = Empty /\ q.locks = {} /\ ~q.versioned
  BY DEF IsJob, JobFields, Idle
<1> HIDE DEF q
<1>3. n \in 1 .. Latest /\ rev \in 0 .. Latest
  BY ReleasesAssumption DEF Control
<1>4. q.step \in 1 .. Latest
  BY <1>1, <1>2, <1>3, LatestIs
<1>5. Placed(q)
  <2>1. Size(Script(q)) \in Nat
    BY <1>4, ScriptIs
  <2> QED BY <1>1, <1>2, <1>3, <1>4, <2>1, LatestIs DEF Placed, FirstStep
<1>6. \A i \in Jobs : ~Busy(job[i]) \/ job[i].up
  BY <1>1 DEF Undoing, Busy
<1>7. Busy(q) /\ q.from <= rev /\ IsBase(q.view)
  BY <1>2, <1>3, EmptyIs, LatestIs DEF Busy
<1>8. Control' /\ job'[j] = q /\ \A i \in Jobs : i # j /\ Live(i)' => Stayed(i)
  BY <1>1, <1>2, <1>5, <1>6, <1>7, StepBusy
<1>9. Began(j)
  BY <1>2, <1>4, <1>8 DEF Began, FirstStep
<1> QED BY <1>1, <1>8, <1>9 DEF Works

LEMMA ControlDowngrade ==
    ASSUME Control, NEW j \in Jobs, NEW n, Downgrade(j, n)
    PROVE  Control' /\ Works(j) /\ past' = past
<1> DEFINE q == [Idle EXCEPT !.at = "run", !.up = FALSE, !.from = rev, !.goal = n, !.step = rev]
<1>1. /\ Becomes(j, q) /\ UNCHANGED <<rev, db, undone, past>> /\ n < rev
      /\ <<rev, n>> \in Rollbacks /\ undone.times < MaxDowngrades
      /\ \A i \in Jobs : job[i].at = "idle"
  BY DEF Downgrade
<1>2. /\ IsJob(q) /\ q.at = "run" /\ ~q.up /\ q.from = rev /\ q.goal = n
      /\ q.step = rev /\ q.k = 1 /\ q.view = Empty /\ q.locks = {} /\ ~q.versioned
  BY DEF IsJob, JobFields, Idle
<1> HIDE DEF q
<1>3. n \in 0 .. Latest /\ rev \in 0 .. Latest
  BY <1>1, ReleasesAssumption DEF Control
<1>4. q.step \in 1 .. Latest
  BY <1>1, <1>2, <1>3, LatestIs
<1>5. Placed(q)
  <2>1. Size(Script(q)) \in Nat
    BY <1>4, ScriptIs
  <2> QED BY <1>1, <1>2, <1>3, <1>4, <2>1, LatestIs DEF Placed, FirstStep
<1>7. Busy(q) /\ q.from <= rev /\ IsBase(q.view)
  BY <1>2, <1>3, EmptyIs, LatestIs DEF Busy
<1>8. Control' /\ job'[j] = q /\ \A i \in Jobs : i # j /\ Live(i)' => Stayed(i)
  BY <1>1, <1>2, <1>5, <1>7, StepBusy
<1>9. Began(j)
  BY <1>2, <1>4, <1>8 DEF Began, FirstStep
<1> QED BY <1>1, <1>8, <1>9 DEF Works

LEMMA ControlExecute ==
    ASSUME Control, NEW j \in Jobs, Execute(j)
    PROVE  Control' /\ Works(j) /\ past' = past
<1> DEFINE q == job[j]
           now == Seen(q)
           p == Executed(q, now)
           s == Script(q)[q.k]
<1>1. /\ q.at = "run" /\ ~AtVersion(q) /\ Becomes(j, p) /\ UNCHANGED <<rev, db, undone, past>>
  BY Zenon DEF Execute
<1>2. IsJob(q) /\ Placed(q) /\ Busy(q) /\ q.from <= rev
  BY <1>1 DEF Control, Busy
<1>3. q.step \in 1 .. Latest /\ q.k \in 1 .. Size(Script(q))
  <2>1. Len(Script(q)) = Size(Script(q)) /\ Size(Script(q)) \in Nat /\ q.step \in 1 .. Latest
    BY <1>2, ScriptIs DEF Placed
  <2>2. q.k \in 1 .. Size(Script(q)) + 1
    BY <1>2 DEF Placed
  <2>3. ~(q.k > Size(Script(q)))
    BY <1>1, <2>1, Zenon DEF AtVersion
  <2> QED BY <2>1, <2>2, <2>3
<1>4. now = View(j) /\ IsBase(now)
  BY DEF Control, View, Seen
<1>5. \/ p.at = "failed" /\ \E c : p = Failed(q, c)
      \/ /\ ~Refused(now.schema, s) /\ ~Violated(now.rows, s)
         /\ IsJob(p) /\ p.at = q.at /\ p.up = q.up /\ p.from = q.from /\ p.goal = q.goal
         /\ p.step = q.step /\ p.k = q.k + 1 /\ p.versioned = q.versioned
         /\ p.view = [schema |-> Altered(now.schema, s),
                      rows |-> Changed(now.schema, now.rows, s)]
         /\ p.locks = q.locks \cup LocksOf(s) /\ p.locks # {}
  <2>1. q.k \in Nat
    BY <1>3, <1>2 DEF Placed
  <2> HIDE DEF q, now
  <2> QED BY <1>2, <1>3, <2>1, ExecutedIs, Zenon
<1> HIDE DEF p, now
<1>6. CASE p.at = "failed" /\ \E c : p = Failed(q, c)
  BY <1>1, <1>2, <1>6, FailedIs, StepUnbusy
<1>7. CASE p.at # "failed"
  <2> HIDE DEF s
  <2>1. Script(p) = Script(q)
    BY <1>5, <1>7, Zenon DEF Script
  <2>2. Size(Script(q)) \in Nat
    BY <1>3, ScriptIs
  <2>3. Placed(p)
    BY <1>1, <1>2, <1>3, <1>5, <1>7, <2>1, <2>2 DEF Placed, FirstStep
  <2>4. IsBase(p.view)
    BY <1>4, <1>5, <1>7, ExecutedBase
  <2>5. /\ p.versioned => p.from = rev /\ \A i \in Jobs : i # j => ~job[i].versioned
        /\ ~p.up => /\ p.from = rev /\ undone.times < MaxDowngrades
                    /\ \A i \in Jobs : i # j => job[i].at = "idle"
        /\ p.up => \A i \in Jobs : i # j => ~Busy(job[i]) \/ job[i].up
    BY <1>2, <1>5, <1>7 DEF Control, Busy
  <2>6. Busy(p) /\ p.from <= rev /\ p.locks # {} /\ IsJob(p)
    BY <1>1, <1>2, <1>5, <1>7 DEF Busy
  <2>7. Control' /\ job'[j] = p /\ \A i \in Jobs : i # j /\ Live(i)' => Stayed(i)
    BY <1>1, <2>3, <2>4, <2>5, <2>6, StepBusy
  <2>8. View(j)' = p.view
    BY <2>6, <2>7 DEF View, Seen
  <2>9. Live(j)' => Live(j)
    BY <1>1, <1>2, <1>5, <1>7, <2>7 DEF Live
  <2>10. Live(j)' => Ran(j)
    BY <1>1, <1>3, <1>4, <1>5, <1>7, <2>7, <2>8, <2>9 DEF Ran, s
  <2> QED BY <1>1, <2>7, <2>10 DEF Works
<1> QED BY <1>1, <1>5, <1>6, <1>7

LEMMA ControlSetVersion ==
    ASSUME Control, NEW j \in Jobs, SetVersion(j)
    PROVE  Control' /\ Works(j) /\ past' = past
<1> DEFINE q == job[j]
           c == [q EXCEPT !.at = "commit", !.versioned = TRUE]
           n == IF q.up THEN q.step + 1 ELSE q.step - 1
           m == [q EXCEPT !.k = 1, !.versioned = TRUE, !.step = n]
           p == IF ~VersionMatched(q) THEN Failed(q, "alembic_version")
                ELSE IF q.step = LastStep(q) THEN c ELSE m
<1>1. /\ q.at = "run" /\ AtVersion(q) /\ Free(j) /\ UNCHANGED <<rev, db, undone, past>>
      /\ Becomes(j, p)
  BY DEF SetVersion, LastStep
<1>2. IsJob(q) /\ Placed(q) /\ Busy(q) /\ q.from <= rev /\ rev \in 0 .. Latest
      /\ IsBase(q.view)
  BY <1>1 DEF Control, Busy
<1>3. /\ q.step \in 1 .. Latest /\ q.k = Size(Script(q)) + 1
      /\ Size(Script(q)) \in Nat /\ Size(Script(q)) >= 1
  <2>1. Len(Script(q)) = Size(Script(q)) /\ Size(Script(q)) \in Nat /\ Size(Script(q)) >= 1
        /\ q.step \in 1 .. Latest
    BY <1>2, ScriptIs DEF Placed
  <2>2. q.k \in 1 .. Size(Script(q)) + 1
    BY <1>2 DEF Placed
  <2>3. q.k > Size(Script(q))
    BY <1>1, <2>1, Zenon DEF AtVersion
  <2> QED BY <2>1, <2>2, <2>3
<1>4. q.locks # {}
  BY <1>2, <1>3 DEF Placed
<1>5. \A i \in Jobs : i # j => ~job[i].versioned
  BY <1>1 DEF Free, WaitsFor
<1>6. CASE ~VersionMatched(q)
  <2>1. p = Failed(q, "alembic_version")
    BY <1>6
  <2> HIDE DEF p
  <2> QED BY <1>1, <1>2, <2>1, FailedIs, StepUnbusy
<1>7. ASSUME VersionMatched(q) PROVE q.from = rev
  BY <1>7 DEF VersionMatched, Control
<1>8. /\ ~q.up => /\ q.from = rev /\ undone.times < MaxDowngrades
                  /\ \A i \in Jobs : i # j => job[i].at = "idle"
      /\ q.up => \A i \in Jobs : i # j => ~Busy(job[i]) \/ job[i].up
  BY <1>2 DEF Control, Busy
<1>9. /\ IsJob(c) /\ c.at = "commit" /\ c.up = q.up /\ c.from = q.from
      /\ c.goal = q.goal /\ c.step = q.step /\ c.k = q.k /\ c.view = q.view
      /\ c.locks = q.locks /\ c.versioned
      /\ IsJob(m) /\ m.at = q.at /\ m.up = q.up /\ m.from = q.from
      /\ m.goal = q.goal /\ m.step = n /\ m.k = 1 /\ m.view = q.view
      /\ m.locks = q.locks /\ m.versioned
  <2> HIDE DEF q, n
  <2> QED BY <1>2 DEF IsJob, JobFields
<1>10. CASE VersionMatched(q) /\ q.step = LastStep(q)
  <2>1. p = c
    BY <1>10
  <2> HIDE DEF c, p, m
  <2>2. Script(c) = Script(q)
    BY <1>9, Zenon DEF Script
  <2>3. Placed(c) /\ Busy(c)
    BY <1>2, <1>3, <1>9, <1>10, <2>2 DEF Placed, LastStep, Busy
  <2>4. Control' /\ job'[j] = c /\ \A i \in Jobs : i # j /\ Live(i)' => Stayed(i)
    BY <1>1, <1>2, <1>4, <1>5, <1>7, <1>8, <1>9, <1>10, <2>1, <2>3, StepBusy
  <2>5. Moves(j)
    BY <1>1, <1>2, <1>3, <1>7, <1>9, <1>10, <2>4 DEF Moves, Live
  <2> QED BY <1>1, <2>4, <2>5 DEF Works
<1>11. CASE VersionMatched(q) /\ q.step # LastStep(q)
  <2>1. p = m
    BY <1>11
  <2>2. n \in 1 .. Latest /\ (q.up => q.from < n /\ n <= q.goal) /\ (~q.up => q.goal < n /\ n <= q.from)
    BY <1>2, <1>11, LatestIs DEF Placed, LastStep
  <2> HIDE DEF c, p, m, n
  <2>3. Size(Script(m)) \in Nat
    BY <1>9, <2>2, ScriptIs
  <2>4. Placed(m) /\ Busy(m)
    BY <1>1, <1>2, <1>4, <1>9, <2>2, <2>3 DEF Placed, Busy
  <2>5. Control' /\ job'[j] = m /\ \A i \in Jobs : i # j /\ Live(i)' => Stayed(i)
    BY <1>1, <1>2, <1>4, <1>5, <1>7, <1>8, <1>9, <1>11, <2>1, <2>4, StepBusy
  <2>6. Moves(j)
    BY <1>1, <1>2, <1>3, <1>7, <1>9, <1>11, <2>2, <2>5 DEF Moves, Live, n
  <2> QED BY <1>1, <2>5, <2>6 DEF Works
<1> QED BY <1>6, <1>10, <1>11

LEMMA ControlCommit ==
    ASSUME Control, NEW j \in Jobs, CommitAll(j)
    PROVE  Control' /\ Works(j) /\ past' = past
<1> DEFINE q == job[j]
<1>1. /\ q.at = "commit" /\ rev' = q.goal /\ db' = q.view /\ past' = past /\ Becomes(j, Idle)
      /\ undone' = IF q.up THEN undone
                   ELSE [times |-> undone.times + 1,
                         scripts |-> undone.scripts \cup (Lossy \cap (q.goal + 1 .. q.from))]
  BY DEF CommitAll
<1>2. /\ IsJob(q) /\ Placed(q) /\ Busy(q) /\ IsBase(q.view) /\ q.versioned /\ q.from = rev
      /\ rev \in 0 .. Latest
  BY <1>1 DEF Control, Busy, Placed
<1>3. q.locks # {} /\ q.goal \in 0 .. Latest
  BY <1>2 DEF Placed
<1>4. /\ job' = [i \in Jobs |-> job'[i]] /\ job'[j] = Idle
      /\ \A i \in Jobs : i # j => job'[i] = job[i]
  BY <1>1, Became
<1>5. \A i \in Jobs : i # j => ~job'[i].versioned /\ (Busy(job'[i]) => job'[i].up)
  BY <1>2, <1>4 DEF Control, Busy
<1>6. CASE q.up
  <2>1. rev < q.goal
    BY <1>2, <1>6 DEF Placed
  <2>2. \A i \in Jobs : Busy(job'[i]) => i # j /\ Placed(job'[i]) /\ job'[i].from <= rev
    BY <1>4, IdleIs DEF Control, Busy
  <2>3. \A i \in Jobs : Busy(job'[i]) => Placed(job'[i]) /\ job'[i].from < rev'
    <3>1. \A i \in Jobs : Busy(job'[i]) => job'[i].from \in 0 .. Latest
      BY <2>2 DEF Placed
    <3> QED BY <1>1, <1>2, <1>3, <2>1, <2>2, <3>1, LatestIs
  <2>4. Control'
    <3>1. \A i \in Jobs : IsJob(job'[i]) /\ job'[i].at \in {"idle", "run", "commit", "failed"}
      BY <1>4, IdleIs DEF Control
    <3>2. \A i \in Jobs : ~Busy(job'[i]) => ~job'[i].versioned /\ job'[i].locks = {}
      BY <1>4, IdleIs DEF Control
    <3>3. \A i \in Jobs : IsBase(job'[i].view) /\ (job'[i].locks = {} => job'[i].view = Empty)
      BY <1>4, IdleIs, EmptyIs DEF Control
    <3>4. \A i \in Jobs : ~job'[i].versioned
      BY <1>4, <1>5, IdleIs
    <3>5. \A i \in Jobs : Busy(job'[i]) => job'[i].up
      BY <1>4, <1>5, IdleIs DEF Busy
    <3>6. \A i \in Jobs : Busy(job'[i]) => job'[i].from <= rev'
      <4>1. \A i \in Jobs : Busy(job'[i]) => job'[i].from \in 0 .. Latest
        BY <2>2 DEF Placed
      <4> QED BY <1>1, <1>3, <2>3, <4>1, LatestIs
    <3>7. undone' = undone
      BY <1>1, <1>6
    <3> QED BY <1>1, <1>2, <1>3, <1>4, <2>3, <3>1, <3>2, <3>3, <3>4, <3>5, <3>6, <3>7 DEF Control
  <2>5. \A i \in Jobs : ~Live(i)'
    <3>1. \A i \in Jobs : Busy(job'[i]) => job'[i].from \in 0 .. Latest
      BY <2>2 DEF Placed
    <3> QED BY <1>1, <1>3, <2>3, <3>1, LatestIs DEF Live
  <2> QED BY <1>1, <1>2, <1>3, <2>4, <2>5 DEF Works, Commits, Live, View, Seen
<1>7. CASE ~q.up
  <2>1. \A i \in Jobs : ~Busy(job'[i])
    BY <1>2, <1>4, <1>7, IdleIs DEF Control, Busy
  <2>2. /\ undone' = [times |-> undone.times + 1, 
                      scripts |-> undone.scripts \cup (Lossy \cap (q.goal + 1 .. q.from))]
        /\ undone.times < MaxDowngrades /\ undone.times \in Nat
    BY <1>1, <1>2, <1>7 DEF Control
  <2>3. /\ undone' = [times |-> undone'.times, scripts |-> undone'.scripts]
        /\ undone'.times \in Nat /\ undone'.times <= MaxDowngrades
    BY <2>2, BoundsAssumption
  <2>4. Control'
    BY <1>1, <1>2, <1>3, <1>4, <1>5, <2>1, <2>3, IdleIs, EmptyIs DEF Control
  <2> QED BY <1>1, <1>2, <1>3, <2>1, <2>4 DEF Works, Commits, Live, View, Seen
<1> QED BY <1>6, <1>7

LEMMA AlembicWorks ==
    ASSUME Control, NEW j \in Jobs, Alembic(j)
    PROVE  Control' /\ Works(j) /\ past' = past
<1>1. CASE \E n \in Releases : Start(j, n)
  BY <1>1, ControlStart
<1>2. CASE \E d \in Rollbacks : Downgrade(j, d[2])
  BY <1>2, ControlDowngrade
<1>3. CASE Execute(j)
  BY <1>3, ControlExecute
<1>4. CASE SetVersion(j)
  BY <1>4, ControlSetVersion
<1>5. CASE CommitAll(j)
  BY <1>5, ControlCommit
<1>6. CASE Stop(j)
  <2>1. Becomes(j, Idle) /\ UNCHANGED <<rev, db, undone, past>>
    BY <1>6 DEF Stop
  <2> QED BY <2>1, IdleIs, StepUnbusy
<1>7. CASE DeadlockVictim(j)
  <2>1. Becomes(j, Failed(job[j], "deadlock")) /\ UNCHANGED <<rev, db, undone, past>>
        /\ Busy(job[j])
    BY <1>7 DEF DeadlockVictim, WaitsFor, Busy
  <2> QED BY <2>1, FailedIs, StepUnbusy
<1> QED BY <1>1, <1>2, <1>3, <1>4, <1>5, <1>6, <1>7 DEF Alembic

LEMMA ProgramsKeep ==
    ASSUME Control, Programs
    PROVE  SameButRows
<1>1. ASSUME NEW u \in Fans, NEW thing \in Things, NEW t \in 1 .. MaxTime, Favorite(u, thing, t)
      PROVE  SameButRows
  BY <1>1, WroteFavorite
<1>2. ASSUME NEW u \in Users, NEW s \in Stores, Contact(u, s) PROVE SameButRows
  BY <1>2, WroteOpen DEF Contact
<1>3. ASSUME NEW u \in Users, NEW v \in Users, NEW s \in Stores \cup {NoStore}, Converse(u, v, s)
      PROVE SameButRows
  BY <1>3, WroteOpen DEF Converse
<1>4. ASSUME NEW c \in db.rows.conversations, NEW u \in Members(c), Say(c, u)
      PROVE  SameButRows
  BY <1>4, WroteSay
<1>5. ASSUME NEW n \in FiveStars, Review(n) PROVE SameButRows
  BY <1>5, WroteReview
<1>6. ASSUME File PROVE SameButRows
  BY <1>6, WroteFile
<1> QED BY <1>1, <1>2, <1>3, <1>4, <1>5, <1>6, Zenon DEF Programs

LEMMA ControlStep == Control /\ [Next]_vars => Control'
<1> SUFFICES ASSUME Control, [Next]_vars PROVE Control'
  OBVIOUS
<1>1. CASE Programs
  BY <1>1, ProgramsKeep, ControlPrograms
<1>2. CASE \E j \in Jobs : Alembic(j)
  BY <1>2, AlembicWorks
<1>3. CASE UNCHANGED vars
  BY <1>3 DEF vars, Control
<1> QED BY <1>1, <1>2, <1>3 DEF Next, Done

(* Of the processes that change the same database only one at a time can   *)
(* have updated alembic_version; it found the committed revision and its   *)
(* statements are those of the scripts from there to its goal (Placed); a  *)
(* process that undoes revisions is alone.                                 *)
THEOREM OneMigrates == Spec => []Control
<1>1. Init => Control
  BY ControlInit
<1>2. Control /\ [Next]_vars => Control'
  BY ControlStep
<1> QED BY <1>1, <1>2, PTL DEF Spec

-----------------------------------------------------------------------------
(* The locks of a process tell where it is in its scripts                  *)

(* It has executed statement i of the script of revision n.                *)
Passed(q, n, i) ==
    IF q.up THEN n > q.from /\ (q.step > n \/ (q.step = n /\ q.k > i))
    ELSE n <= q.from /\ (q.step < n \/ (q.step = n /\ q.k > i))

Alone(t) == <<t, "alone">>
HeldUp(q) ==
    /\ Passed(q, 11, 1) => Alone("conversations") \in q.locks
    /\ Passed(q, 13, 1) => Alone("seller_profiles") \in q.locks
HeldDown(q) ==
    /\ Passed(q, 13, 1) => \E x \in q.locks : x[1] = "seller_profiles"
    /\ Passed(q, 11, 1) => Alone("conversations") \in q.locks
    /\ Passed(q, 7, 6) => Alone("favorites") \in q.locks
    /\ Passed(q, 6, 6) => Alone("messages") \in q.locks
    /\ Passed(q, 6, 7) => Alone("conversations") \in q.locks
    /\ Passed(q, 1, 2) => Alone("reviews") \in q.locks
Held == \A j \in Jobs : Live(j) => IF job[j].up THEN HeldUp(job[j]) ELSE HeldDown(job[j])

LEMMA LivePlaced ==
    ASSUME Control, NEW j \in Jobs, Live(j)
    PROVE  /\ Placed(job[j]) /\ job[j].step \in 1 .. Latest /\ job[j].from = rev
           /\ rev \in 0 .. Latest
           /\ job[j].k \in 1 .. Size(Script(job[j])) + 1 /\ job[j].k \in Nat
           /\ Size(Script(job[j])) \in Nat /\ Size(Script(job[j])) >= 1
           /\ job[j].up => rev < job[j].step /\ job[j].step <= job[j].goal
           /\ ~job[j].up => job[j].goal < job[j].step /\ job[j].step <= rev
           /\ job[j].goal \in 0 .. Latest
<1>1. Placed(job[j]) /\ job[j].from = rev /\ rev \in 0 .. Latest
  BY DEF Control, Live
<1>2. Size(Script(job[j])) \in Nat /\ Size(Script(job[j])) >= 1
  BY <1>1, ScriptIs DEF Placed
<1> QED BY <1>1, <1>2 DEF Placed

LEMMA NotPassedYet ==
    ASSUME NEW j, Began(j), Control, NEW n \in 1 .. 13, NEW i \in Nat, i >= 1
    PROVE  ~Passed(job'[j], n, i)
BY LatestIs DEF Began, Passed, FirstStep, Control

LEMMA PassedNow ==
    ASSUME Control, NEW j \in Jobs, Ran(j), NEW n \in 1 .. 13, NEW i \in Nat, i >= 1,
           Passed(job'[j], n, i)
    PROVE  Passed(job[j], n, i) \/ (job[j].step = n /\ job[j].k = i)
<1>1. /\ job[j].step \in 1 .. Latest /\ job[j].k \in Nat /\ job[j].from = rev /\ rev \in 0 .. Latest
      /\ job[j].up => rev < job[j].step
      /\ ~job[j].up => job[j].step <= rev
  BY LivePlaced DEF Ran
<1> QED BY <1>1, LatestIs DEF Ran, Passed

LEMMA PassedBefore ==
    ASSUME Control, NEW j \in Jobs, Moves(j), NEW n \in 1 .. 13, NEW i \in Nat, i >= 1,
           Passed(job'[j], n, i), job[j].step = n => i <= Size(Script(job[j]))
    PROVE  Passed(job[j], n, i)
<1>1. /\ job[j].step \in 1 .. Latest /\ job[j].k \in Nat /\ job[j].from = rev /\ rev \in 0 .. Latest
      /\ Size(Script(job[j])) \in Nat
      /\ job[j].up => rev < job[j].step
      /\ ~job[j].up => job[j].step <= rev
  BY LivePlaced DEF Moves
<1> QED BY <1>1, LatestIs DEF Moves, Passed

(* The statements that take those locks.                                   *)
LEMMA TheyLock ==
    /\ Alone("conversations") \in LocksOf(Up[11][1]) /\ Size(Up[11]) = 18
    /\ Alone("seller_profiles") \in LocksOf(Up[13][1]) /\ Size(Up[13]) = 2
    /\ \E x \in LocksOf(Down[13][1]) : x[1] = "seller_profiles"
    /\ Size(Down[13]) = 2
    /\ Alone("conversations") \in LocksOf(Down[11][1]) /\ Size(Down[11]) = 17
    /\ Alone("favorites") \in LocksOf(Down[7][6]) /\ Size(Down[7]) = 23
    /\ Alone("messages") \in LocksOf(Down[6][6])
    /\ Alone("conversations") \in LocksOf(Down[6][7]) /\ Size(Down[6]) = 33
    /\ Alone("reviews") \in LocksOf(Down[1][2]) /\ Size(Down[1]) = 8
<1>1. /\ Up[11] = Up011 /\ Up[13] = Up013 /\ Down[13] = Down013 /\ Down[11] = Down011
      /\ Down[7] = Down007 /\ Down[6] = Down006 /\ Down[1] = Down001
  BY Zenon DEF Up, Down
<1>2. \A s, t, n : Is(s, "add_column", t, n) \/ Is(s, "drop_table", t, n)
                   => Alone(t) \in LocksOf(s)
  BY DEF Is, LocksOf, Alone
<1>3. \A s, t, n : Is(s, "rows", t, n) => <<t, "row">> \in LocksOf(s)
  BY DEF Is, LocksOf
<1>4. Alone("conversations") \in LocksOf(Up[11][1]) /\ Size(Up[11]) = 18
  BY <1>1, <1>2, Up011Is
<1>5. /\ Alone("seller_profiles") \in LocksOf(Up[13][1]) /\ Size(Up[13]) = 2
      /\ Size(Down[13]) = 2
  BY <1>1, <1>2, Is013
<1>6. \E x \in LocksOf(Down[13][1]) : x[1] = "seller_profiles"
  <2>1. <<"seller_profiles", "row">> \in LocksOf(Down[13][1])
    BY <1>1, <1>3, Is013
  <2> DEFINE x == <<"seller_profiles", "row">>
  <2>2. x \in LocksOf(Down[13][1]) /\ x[1] = "seller_profiles"
    BY <2>1
  <2> HIDE DEF x
  <2> QED BY <2>2
<1>7. Alone("conversations") \in LocksOf(Down[11][1]) /\ Size(Down[11]) = 17
  BY <1>1, <1>2, Down011Is
<1>8. Alone("favorites") \in LocksOf(Down[7][6]) /\ Size(Down[7]) = 23
  BY <1>1, <1>2, Down007Is
<1>9. /\ Alone("messages") \in LocksOf(Down[6][6])
      /\ Alone("conversations") \in LocksOf(Down[6][7]) /\ Size(Down[6]) = 33
  BY <1>1, <1>2, Down006Is
<1>10. Alone("reviews") \in LocksOf(Down[1][2]) /\ Size(Down[1]) = 8
  BY <1>1, <1>2, Down001Is
<1> QED BY <1>4, <1>5, <1>6, <1>7, <1>8, <1>9, <1>10

LEMMA HeldStep == Control /\ Held /\ [Next]_vars => Held'
<1> SUFFICES ASSUME Control, Held, [Next]_vars PROVE Held'
  OBVIOUS
<1>1. CASE Programs
  <2>1. rev' = rev /\ \A j \in Jobs : SameJob(job'[j], job[j])
    BY <1>1, ProgramsKeep DEF SameButRows
  <2>2. \A j \in Jobs : Live(j)' => Live(j)
    BY <2>1 DEF SameJob, Live, Busy
  <2> QED BY <2>1, <2>2 DEF Held, SameJob, HeldUp, HeldDown, Passed
<1>2. ASSUME NEW j \in Jobs, Alembic(j) PROVE Held'
  <2>1. Works(j)
    BY <1>2, AlembicWorks
  <2> SUFFICES ASSUME NEW i \in Jobs, Live(i)'
               PROVE  IF job'[i].up THEN HeldUp(job'[i]) ELSE HeldDown(job'[i])
    BY DEF Held
  <2>2. Stayed(i) \/ Began(i) \/ Ran(i) \/ Moves(i)
    BY <2>1 DEF Works, Commits
  <2>3. CASE Stayed(i)
    BY <2>3 DEF Stayed, Held
  <2>4. CASE Began(i)
    <3>1. \A n \in 1 .. 13, k \in 1 .. 7 : ~Passed(job'[i], n, k)
      BY <2>4, NotPassedYet
    <3> QED BY <3>1 DEF HeldUp, HeldDown
  <2>5. CASE Ran(i)
    <3>1. \A n \in 1 .. 13, k \in 1 .. 7 : Passed(job'[i], n, k) =>
            Passed(job[i], n, k) \/ (job[i].step = n /\ job[i].k = k)
      BY <2>5, PassedNow
    <3>2. /\ job'[i].locks = job[i].locks \cup LocksOf(Script(job[i])[job[i].k])
          /\ job'[i].up = job[i].up /\ Live(i)
      BY <2>5 DEF Ran
    <3>3. CASE job[i].up
      <4>1. HeldUp(job[i]) /\ Script(job[i]) = Up[job[i].step]
        BY <3>2, <3>3 DEF Held, Script
      <4> QED BY <3>1, <3>2, <3>3, <4>1, TheyLock DEF HeldUp
    <3>4. CASE ~job[i].up
      <4>1. HeldDown(job[i]) /\ Script(job[i]) = Down[job[i].step]
        BY <3>2, <3>4 DEF Held, Script
      <4> QED BY <3>1, <3>2, <3>4, <4>1, TheyLock DEF HeldDown
    <3> QED BY <3>3, <3>4
  <2>6. CASE Moves(i)
    <3>1. \A n \in 1 .. 13, k \in 1 .. 7 :
            Passed(job'[i], n, k) /\ (job[i].step = n => k <= Size(Script(job[i])))
            => Passed(job[i], n, k)
      BY <2>6, PassedBefore
    <3>2. job'[i].locks = job[i].locks /\ job'[i].up = job[i].up /\ Live(i)
      BY <2>6 DEF Moves
    <3>3. CASE job[i].up
      <4>1. HeldUp(job[i]) /\ Script(job[i]) = Up[job[i].step]
        BY <3>2, <3>3 DEF Held, Script
      <4> QED BY <3>1, <3>2, <3>3, <4>1, TheyLock DEF HeldUp
    <3>4. CASE ~job[i].up
      <4>1. HeldDown(job[i]) /\ Script(job[i]) = Down[job[i].step]
        BY <3>2, <3>4 DEF Held, Script
      <4> QED BY <3>1, <3>2, <3>4, <4>1, TheyLock DEF HeldDown
    <3> QED BY <3>3, <3>4
  <2> QED BY <2>2, <2>3, <2>4, <2>5, <2>6
<1>3. CASE UNCHANGED vars
  BY <1>3 DEF vars, Held, Live
<1> QED BY <1>1, <1>2, <1>3 DEF Next, Done

LEMMA HeldInit == Init => Held
BY IdleIs DEF Init, Held, Live, Busy

-----------------------------------------------------------------------------
(* Rows and statements                                                     *)

IsPast == DOMAIN past = {"liked", "opened", "said"}
Orderly == Control /\ Held /\ IsPast

SameLikes(Q, R) == Q.favorites = R.favorites
SameChats(Q, R) == Q.conversations = R.conversations /\ Q.messages = R.messages
SameScores(Q, R) == Q.fives = R.fives /\ Q.stars = R.stars /\ Q.crowns = R.crowns

(* What the program does not write stays, in the committed rows and in     *)
(* those that the processes see.                                           *)
LEMMA Writers ==
    ASSUME Control, IsPast, Programs
    PROVE  /\ SameButRows /\ IsPast'
           /\ \/ \E u \in Fans, thing \in Things, t \in 1 .. MaxTime : Favorite(u, thing, t)
              \/ /\ SameLikes(db'.rows, db.rows) /\ past'.liked = past.liked
                 /\ \A j \in Jobs : SameLikes(View(j)'.rows, View(j).rows)
           /\ \/ \E u \in Users, s \in Stores : Contact(u, s)
              \/ \E u, v \in Users, s \in Stores \cup {NoStore} : Converse(u, v, s)
              \/ \E c \in db.rows.conversations : \E u \in Members(c) : Say(c, u)
              \/ /\ SameChats(db'.rows, db.rows)
                 /\ past'.opened = past.opened /\ past'.said = past.said
                 /\ \A j \in Jobs : SameChats(View(j)'.rows, View(j).rows)
           /\ \/ \E n \in FiveStars : Review(n)
              \/ /\ SameScores(db'.rows, db.rows)
                 /\ \A j \in Jobs : SameScores(View(j)'.rows, View(j).rows)
<1> USE DEF RowFields
<1>1. /\ SameButRows
      /\ DOMAIN db.rows = RowFields /\ \A j \in Jobs : DOMAIN View(j).rows = RowFields
  BY ProgramsKeep DEF SameButRows, IsBase
<1>2. CASE \E u \in Fans, thing \in Things, t \in 1 .. MaxTime : Favorite(u, thing, t)
  <2>1. PICK u \in Fans, thing \in Things, t \in 1 .. MaxTime : Favorite(u, thing, t)
    BY <1>2
  <2> DEFINE f == [id |-> Cardinality(past.liked) + 1, user |-> u, thing |-> thing, at |-> t]
  <2>2. /\ past' = [past EXCEPT !.liked = @ \cup {f}]
        /\ db'.rows = [db.rows EXCEPT !.favorites = @ \cup {f}]
        /\ \A j \in Jobs : View(j)'.rows = [View(j).rows EXCEPT !.favorites = @ \cup {f}]
    BY <2>1, WroteFavorite
  <2> HIDE DEF f
  <2> QED BY <1>1, <1>2, <2>2 DEF SameChats, SameScores, IsPast
<1>3. ASSUME NEW c, Open(c)
      PROVE  /\ SameLikes(db'.rows, db.rows) /\ past'.liked = past.liked /\ IsPast'
             /\ \A j \in Jobs : SameLikes(View(j)'.rows, View(j).rows)
             /\ SameScores(db'.rows, db.rows)
             /\ \A j \in Jobs : SameScores(View(j)'.rows, View(j).rows)
  BY <1>1, <1>3, WroteOpen, ZenonT(60) DEF SameLikes, SameScores, IsPast
<1>4. CASE \/ \E u \in Users, s \in Stores : Contact(u, s)
           \/ \E u, v \in Users, s \in Stores \cup {NoStore} : Converse(u, v, s)
  <2>1. \E c : Open(c)
    BY <1>4 DEF Contact, Converse
  <2> QED BY <1>1, <1>3, <1>4, <2>1
<1>5. CASE \E c \in db.rows.conversations : \E u \in Members(c) : Say(c, u)
  <2>1. PICK c \in db.rows.conversations : \E u \in Members(c) : Say(c, u)
    BY <1>5
  <2>2. PICK u \in Members(c) : Say(c, u)
    BY <2>1
  <2> DEFINE m == [id |-> Cardinality(past.said) + 1, conversation |-> c.id, sender |-> u]
             e == [id |-> m.id, sender |-> u, to |-> Members(c), conversation |-> c.id,
                   store |-> IF c.seller = NoStore THEN c.context ELSE c.seller]
  <2>3. /\ past' = [past EXCEPT !.said = @ \cup {e}]
        /\ db'.rows = [db.rows EXCEPT !.messages = db.rows.messages \cup {m}]
        /\ \A j \in Jobs : View(j)'.rows = [View(j).rows EXCEPT !.messages = View(j).rows.messages \cup {m}]
    BY <2>2, WroteSay
  <2> HIDE DEF m, e
  <2> QED BY <1>1, <1>5, <2>3 DEF SameLikes, SameScores, IsPast
<1>6. CASE \E n \in FiveStars : Review(n)
  <2>1. PICK n \in FiveStars : Review(n)
    BY <1>6
  <2>2. /\ past' = past
        /\ db'.rows = [db.rows EXCEPT !.fives = n, !.stars = StarsBy(rev, n), !.crowns = CrownsBy(rev, n)]
        /\ \A j \in Jobs : View(j)'.rows = [View(j).rows EXCEPT !.fives = n, !.stars = StarsBy(rev, n), !.crowns = CrownsBy(rev, n)]
    BY <2>1, WroteReview
  <2> QED BY <1>1, <1>6, <2>2, ZenonT(60) DEF SameLikes, SameChats, IsPast
<1>7. CASE File
  BY <1>1, <1>7, WroteFile DEF SameLikes, SameChats, SameScores, IsPast
<1> QED BY <1>2, <1>4, <1>5, <1>6, <1>7 DEF Programs

(* A calm statement leaves the rows that the properties are about.         *)
LEMMA CalmChange ==
    ASSUME NEW S, NEW R, DOMAIN R = RowFields, NEW s, Calm(s)
    PROVE  LET Q == Changed(S, R, s) IN
           SameLikes(Q, R) /\ SameChats(Q, R) /\ SameScores(Q, R)
<1> USE DEF RowFields, SameLikes, SameChats, SameScores
<1> DEFINE Same(Q) == SameLikes(Q, R) /\ SameChats(Q, R) /\ SameScores(Q, R)
<1>1. CASE s.op \in {"drop_table", "drop_cascade"}
  <2>1. Changed(S, R, s) = Emptied(R, s.table)
    BY <1>1 DEF Changed
  <2>2. Same(Emptied(R, s.table))
    BY <1>1 DEF Emptied, Calm
  <2> QED BY <2>1, <2>2
<1>2. CASE s.op = "drop_column"
  <2>1. Changed(S, R, s) = Forgotten(R, s.table, s.name)
    BY <1>2 DEF Changed
  <2>2. Same(Forgotten(R, s.table, s.name))
    BY <1>2 DEF Forgotten, Calm
  <2> QED BY <2>1, <2>2
<1>3. CASE s.op = "rows"
  <2>1. Changed(S, R, s) = Rewritten(R, s.name)
    BY <1>3 DEF Changed
  <2>2. Same(Rewritten(R, s.name))
    BY <1>3 DEF Rewritten, Calm
  <2> QED BY <2>1, <2>2
<1>4. CASE s.op \notin {"drop_table", "drop_cascade", "drop_column", "rows"}
  <2>1. Changed(S, R, s) = R \/ Changed(S, R, s) = [R EXCEPT !.unscored = (R.fives > 0)]
    BY <1>4 DEF Changed
  <2> QED BY <2>1
<1> QED BY <1>1, <1>2, <1>3, <1>4

(* The statements that do write them.                                      *)
LEMMA CalmElsewhere ==
    ASSUME Control, NEW j \in Jobs, Ran(j),
           <<job[j].step, job[j].k>> \notin (IF job[j].up THEN UpWrites ELSE DownWrites)
    PROVE  /\ SameLikes(View(j)'.rows, View(j).rows)
           /\ SameChats(View(j)'.rows, View(j).rows)
           /\ SameScores(View(j)'.rows, View(j).rows)
<1>1. /\ job[j].step \in 1 .. 13 /\ job[j].k \in Nat /\ job[j].k >= 1
      /\ job[j].k <= Size(Script(job[j])) /\ Size(Script(job[j])) \in Nat
  BY LivePlaced, LatestIs DEF Ran
<1>2. DOMAIN View(j).rows = RowFields
  BY DEF Control, View, Seen, IsBase
<1>3. Calm(Script(job[j])[job[j].k])
  BY <1>1, UpCalm, DownCalm DEF Script
<1> QED BY <1>2, <1>3, CalmChange DEF Ran

LEMMA OrderlyStep == Orderly /\ [Next]_vars => Orderly'
<1> SUFFICES ASSUME Orderly, [Next]_vars PROVE Orderly'
  OBVIOUS
<1>1. Control' /\ Held'
  BY ControlStep, HeldStep DEF Orderly
<1>2. CASE Programs
  BY <1>1, <1>2, Writers DEF Orderly
<1>3. CASE \E j \in Jobs : Alembic(j)
  BY <1>1, <1>3, AlembicWorks DEF Orderly, IsPast
<1>4. CASE UNCHANGED vars
  BY <1>1, <1>4 DEF vars, Orderly, IsPast
<1> QED BY <1>2, <1>3, <1>4 DEF Next, Done

LEMMA OrderlyInit == Init => Orderly
BY ControlInit, HeldInit DEF Init, Orderly, IsPast

LEMMA RowsDo ==
    ASSUME NEW S, NEW R, NEW s, NEW t, NEW n
    PROVE  /\ Is(s, "rows", t, n) => Changed(S, R, s) = Rewritten(R, n)
           /\ Is(s, "drop_table", t, n) => Changed(S, R, s) = Emptied(R, t)
           /\ Is(s, "drop_column", t, n) => Changed(S, R, s) = Forgotten(R, t, n)
BY DEF Is, Changed

(* What the statements that write those rows do.                           *)
LEMMA TheyDo ==
    /\ Is(Up[8][1], "rows", "favorites", "dedupe_products")
    /\ Is(Up[8][2], "rows", "favorites", "dedupe_stores")
    /\ Is(Up[11][4], "rows", "conversations", "backfill_participants")
    /\ Is(Up[11][5], "rows", "messages", "move_messages")
    /\ Is(Up[11][6], "rows", "conversations", "drop_duplicates")
    /\ Is(Up[11][17], "drop_column", "conversations", "buyer_id")
    /\ Is(Up[11][18], "drop_column", "conversations", "seller_id")
    /\ Is(Up[12][14], "rows", "seller_profiles", "recompute_sellers")
    /\ Is(Up[13][2], "rows", "seller_profiles", "split_crowns")
    /\ Is(Down[1][2], "drop_table", "reviews", NoName)
    /\ Is(Down[1][6], "drop_table", "seller_profiles", NoName)
    /\ Is(Down[6][6], "drop_table", "messages", NoName)
    /\ Is(Down[6][7], "drop_table", "conversations", NoName)
    /\ Is(Down[7][6], "drop_table", "favorites", NoName)
    /\ Is(Down[11][3], "rows", "conversations", "restore_storefronts")
    /\ Is(Down[11][4], "rows", "conversations", "delete_peer_chats")
    /\ Is(Down[11][14], "drop_column", "conversations", "participant_a_id")
    /\ Is(Down[11][15], "drop_column", "conversations", "participant_b_id")
    /\ Is(Down[11][16], "drop_column", "conversations", "context_seller_id")
    /\ Is(Down[13][1], "rows", "seller_profiles", "join_crowns")
    /\ Is(Down[13][2], "drop_column", "seller_profiles", "golden_crowns")
<1>1. /\ Up[8] = Up008 /\ Up[11] = Up011 /\ Up[12] = Up012 /\ Up[13] = Up013
      /\ Down[1] = Down001 /\ Down[6] = Down006 /\ Down[7] = Down007 /\ Down[11] = Down011
      /\ Down[13] = Down013
  BY Zenon DEF Up, Down
<1> QED BY <1>1, Up008Is, Up011Is, Up012Is, Is013, Down001Is, Down006Is, Down007Is,
     Down011Is, Zenon

LEMMA UpDoes ==
    ASSUME NEW j \in Jobs, Ran(j), job[j].up
    PROVE  LET R == View(j).rows
               Q == View(j)'.rows
               n == job[j].step
               k == job[j].k
           IN
           /\ n = 8 /\ k = 1 => Q = Rewritten(R, "dedupe_products")
           /\ n = 8 /\ k = 2 => Q = Rewritten(R, "dedupe_stores")
           /\ n = 11 /\ k = 4 => Q = Rewritten(R, "backfill_participants")
           /\ n = 11 /\ k = 5 => Q = Rewritten(R, "move_messages")
           /\ n = 11 /\ k = 6 => Q = Rewritten(R, "drop_duplicates")
           /\ n = 11 /\ k = 17 => Q = Forgotten(R, "conversations", "buyer_id")
           /\ n = 11 /\ k = 18 => Q = Forgotten(R, "conversations", "seller_id")
           /\ n = 12 /\ k = 14 => Q = Rewritten(R, "recompute_sellers")
           /\ n = 13 /\ k = 2 => Q = Rewritten(R, "split_crowns")
<1>1. Script(job[j]) = Up[job[j].step]
  BY DEF Script
<1> DEFINE R == View(j).rows
           Q == View(j)'.rows
           n == job[j].step
           k == job[j].k
<1>2. Q = Changed(View(j).schema, R, Up[n][k])
  BY <1>1 DEF Ran
<1>3. \A t, x : /\ Is(Up[n][k], "rows", t, x) => Q = Rewritten(R, x)
                /\ Is(Up[n][k], "drop_table", t, x) => Q = Emptied(R, t)
                /\ Is(Up[n][k], "drop_column", t, x) => Q = Forgotten(R, t, x)
  BY <1>2, RowsDo
<1> HIDE DEF Q, R, n, k
<1> QED BY <1>3, TheyDo DEF Q, R, n, k

LEMMA DownDoes ==
    ASSUME NEW j \in Jobs, Ran(j), ~job[j].up
    PROVE  LET R == View(j).rows
               Q == View(j)'.rows
               n == job[j].step
               k == job[j].k
           IN
           /\ n = 1 /\ k = 2 => Q = Emptied(R, "reviews")
           /\ n = 1 /\ k = 6 => Q = Emptied(R, "seller_profiles")
           /\ n = 6 /\ k = 6 => Q = Emptied(R, "messages")
           /\ n = 6 /\ k = 7 => Q = Emptied(R, "conversations")
           /\ n = 7 /\ k = 6 => Q = Emptied(R, "favorites")
           /\ n = 11 /\ k = 3 => Q = Rewritten(R, "restore_storefronts")
           /\ n = 11 /\ k = 4 => Q = Rewritten(R, "delete_peer_chats")
           /\ n = 11 /\ k = 14 => Q = Forgotten(R, "conversations", "participant_a_id")
           /\ n = 11 /\ k = 15 => Q = Forgotten(R, "conversations", "participant_b_id")
           /\ n = 11 /\ k = 16 => Q = Forgotten(R, "conversations", "context_seller_id")
           /\ n = 13 /\ k = 1 => Q = Rewritten(R, "join_crowns")
           /\ n = 13 /\ k = 2 => Q = Forgotten(R, "seller_profiles", "golden_crowns")
<1>1. Script(job[j]) = Down[job[j].step]
  BY DEF Script
<1> DEFINE R == View(j).rows
           Q == View(j)'.rows
           n == job[j].step
           k == job[j].k
<1>2. Q = Changed(View(j).schema, R, Down[n][k])
  BY <1>1 DEF Ran
<1>3. \A t, x : /\ Is(Down[n][k], "rows", t, x) => Q = Rewritten(R, x)
                /\ Is(Down[n][k], "drop_table", t, x) => Q = Emptied(R, t)
                /\ Is(Down[n][k], "drop_column", t, x) => Q = Forgotten(R, t, x)
  BY <1>2, RowsDo
<1> HIDE DEF Q, R, n, k
<1> QED BY <1>3, TheyDo DEF Q, R, n, k

-----------------------------------------------------------------------------
(* Milestones *)

RuleAt(r, R) == R.stars = StarsBy(r, R.fives) /\ R.crowns = CrownsBy(r, R.fives)

(* The milestones that a process sees before its next statement.           *)
Scored(q, R) ==
    /\ R.fives \in Nat /\ R.crowns \in Nat
    /\ q.up => IF q.step = 13 /\ q.k >= 3 THEN RuleAt(13, R) ELSE RuleAt(1, R)
    /\ ~q.up =>
          /\ q.step = 13 /\ q.k = 1 => RuleAt(13, R)
          /\ q.step = 13 /\ q.k = 2 => R.stars = StarsBy(1, R.fives)
          /\ q.step = 13 /\ q.k >= 3 => RuleAt(1, R)
          /\ q.step \in 2 .. 12 => RuleAt(1, R)
          /\ q.step = 1 /\ q.k <= 2 => RuleAt(1, R)
          /\ q.step = 1 /\ q.k > 2 => R.fives = 0 /\ R.crowns = 0
          /\ q.step = 1 /\ q.k > 6 => R.stars = 0

Milestones ==
    /\ db.rows.fives \in Nat /\ db.rows.crowns \in Nat
    /\ RuleAt(rev, db.rows)
    /\ \A j \in Jobs : Live(j) => Scored(job[j], View(j).rows)

LEMMA Arithmetic ==
    /\ \A n \in Nat : n \div 100 \in Nat /\ n \div 1000 \in Nat /\ (n % 1000) \div 100 \in Nat
    /\ \A n \in Nat : (n \div 1000) * 10 + (n % 1000) \div 100 = n \div 100
    /\ \A n \in Nat : (n \div 100) \div 10 = n \div 1000 /\ (n \div 100) % 10 = (n % 1000) \div 100
    /\ \A n \in Nat : n \div 100 < 10 => n \div 1000 = 0 /\ (n % 1000) \div 100 = n \div 100
BY SMTT(60)

LEMMA Rules ==
    /\ \A n \in Nat, r \in 0 .. 13 : StarsBy(r, n) \in Nat /\ CrownsBy(r, n) \in Nat
    /\ \A n \in Nat : CrownsBy(13, n) * 10 + StarsBy(13, n) = StarsBy(1, n)
    /\ \A n \in Nat : StarsBy(1, n) \div 10 = CrownsBy(13, n) /\ StarsBy(1, n) % 10 = StarsBy(13, n)
    /\ \A n \in Nat : StarsBy(1, n) < 10 => CrownsBy(13, n) = 0 /\ StarsBy(13, n) = StarsBy(1, n)
    /\ \A n \in Nat, r \in 0 .. 12 : StarsBy(r, n) = StarsBy(1, n) /\ CrownsBy(r, n) = 0
    /\ \A n \in Nat : StarsBy(1, n) \in Nat /\ CrownsBy(1, n) = 0
    /\ \A n \in Nat : StarsBy(13, n) \in Nat /\ CrownsBy(13, n) \in Nat
    /\ \A n \in Nat : StarsBy(1, n) = n \div 100
    /\ StarsBy(1, 0) = 0
BY Arithmetic DEF StarsBy, CrownsBy

LEMMA SplitIs ==
    ASSUME NEW R, DOMAIN R = RowFields, RuleAt(1, R), R.fives \in Nat
    PROVE  RuleAt(13, SplitCrowns(R)) /\ SplitCrowns(R).fives = R.fives
           /\ SplitCrowns(R).crowns \in Nat
<1>1. R.stars = StarsBy(1, R.fives) /\ R.crowns = 0 /\ R.stars \in Nat
  BY Rules DEF RuleAt
<1>2. CASE R.stars >= 10
  BY <1>1, <1>2, Rules DEF SplitCrowns, RuleAt, RowFields
<1>3. CASE ~(R.stars >= 10)
  <2>1. SplitCrowns(R) = R
    BY <1>3 DEF SplitCrowns
  <2>2. StarsBy(1, R.fives) < 10
    BY <1>1, <1>3
  <2>3. R.stars = StarsBy(13, R.fives) /\ R.crowns = CrownsBy(13, R.fives)
    BY <1>1, <2>2, Rules
  <2> QED BY <1>1, <2>1, <2>3 DEF RuleAt
<1> QED BY <1>2, <1>3

LEMMA ScoredRan ==
    ASSUME Control, NEW j \in Jobs, Ran(j), Scored(job[j], View(j).rows)
    PROVE  Scored(job'[j], View(j)'.rows)
<1> DEFINE q == job[j]
           R == View(j).rows
           Q == View(j)'.rows
           s == Script(job[j])[job[j].k]
<1>1. /\ q.step \in 1 .. 13 /\ q.k \in Nat /\ q.k >= 1 /\ q.k <= Size(Script(q))
      /\ Size(Script(q)) \in Nat /\ (q.up \/ ~q.up)
      /\ job'[j].up = q.up /\ job'[j].step = q.step /\ job'[j].k = q.k + 1
      /\ DOMAIN R = RowFields /\ Q = Changed(View(j).schema, R, s)
  BY LivePlaced, LatestIs DEF Ran, Control, View, Seen, IsBase
<1> HIDE DEF Q, R
<1>2. CASE <<q.step, q.k>> \notin (IF q.up THEN UpWrites ELSE DownWrites)
  <2>1. SameScores(Q, R)
    BY <1>2, CalmElsewhere DEF Q, R
  <2>2. CASE q.up
    <3>1. Q.fives = R.fives /\ Q.stars = R.stars /\ Q.crowns = R.crowns
      BY <2>1 DEF SameScores
    <3>2. ~(q.step = 13 /\ q.k = 2)
      BY <1>2, <2>2 DEF UpWrites
    <3> QED BY <1>1, <2>2, <3>1, <3>2 DEF Scored, RuleAt, R, Q
  <2>3. CASE ~q.up
    <3>1. Q.fives = R.fives /\ Q.stars = R.stars /\ Q.crowns = R.crowns
      BY <2>1 DEF SameScores
    <3>2. ~(q.step = 13 /\ q.k = 1) /\ ~(q.step = 13 /\ q.k = 2)
          /\ ~(q.step = 1 /\ q.k = 2) /\ ~(q.step = 1 /\ q.k = 6)
      BY <1>2, <2>3 DEF DownWrites
    <3> QED BY <1>1, <2>3, <3>1, <3>2 DEF Scored, RuleAt, R, Q
  <2> QED BY <1>1, <2>2, <2>3
<1>3. CASE q.up /\ <<q.step, q.k>> \in UpWrites
  <2>1. CASE q.step = 8
    <3>1. Q = Rewritten(R, "dedupe_products") \/ Q = Rewritten(R, "dedupe_stores")
      BY <1>3, <2>1, UpDoes DEF UpWrites, Q, R
    <3>2. Q.fives = R.fives /\ Q.stars = R.stars /\ Q.crowns = R.crowns
      BY <1>1, <3>1 DEF Rewritten, RowFields
    <3> QED BY <1>1, <1>3, <2>1, <3>2 DEF Scored, RuleAt, R, Q
  <2>2. CASE q.step = 11
    <3>1. \/ Q \in {Rewritten(R, "backfill_participants"), Rewritten(R, "move_messages"),
                    Rewritten(R, "drop_duplicates")}
          \/ Q \in {Forgotten(R, "conversations", "buyer_id"),
                    Forgotten(R, "conversations", "seller_id")}
      BY <1>3, <2>2, UpDoes DEF UpWrites, Q, R
    <3>2. Q.fives = R.fives /\ Q.stars = R.stars /\ Q.crowns = R.crowns
      <4>1. CASE Q \in {Rewritten(R, "backfill_participants"), Rewritten(R, "move_messages"),
                    Rewritten(R, "drop_duplicates")}
        BY <1>1, <4>1 DEF Rewritten, RowFields, Every, WithoutConversations
      <4>2. CASE Q \in {Forgotten(R, "conversations", "buyer_id"),
                    Forgotten(R, "conversations", "seller_id")}
        BY <1>1, <4>2 DEF Forgotten, RowFields, Every
      <4> QED BY <3>1, <4>1, <4>2
    <3> QED BY <1>1, <1>3, <2>2, <3>2 DEF Scored, RuleAt, R, Q
  <2>3. CASE q.step = 12
    <3>1. Q = Rewritten(R, "recompute_sellers")
      BY <1>3, <2>3, UpDoes DEF UpWrites, Q, R
    <3>2. RuleAt(1, R) /\ R.fives \in Nat /\ R.crowns \in Nat
      BY <1>1, <1>3, <2>3 DEF Scored, R
    <3>3. Q.fives = R.fives /\ Q.stars = R.stars /\ Q.crowns = R.crowns
      BY <1>1, <3>1, <3>2, Rules DEF Rewritten, RowFields, RuleAt
    <3> QED BY <1>1, <1>3, <2>3, <3>2, <3>3 DEF Scored, RuleAt, Q
  <2>4. CASE q.step = 13
    <3>1. Q = Rewritten(R, "split_crowns") /\ q.k = 2
      BY <1>3, <2>4, UpDoes DEF UpWrites, Q, R
    <3>2. RuleAt(1, R) /\ R.fives \in Nat
      BY <1>1, <1>3, <2>4, <3>1 DEF Scored, R
    <3>3. Q = SplitCrowns(R)
      BY <3>1 DEF Rewritten
    <3>4. RuleAt(13, Q) /\ Q.fives \in Nat /\ Q.crowns \in Nat
      BY <1>1, <3>2, <3>3, SplitIs
    <3> QED BY <1>1, <1>3, <2>4, <3>1, <3>4 DEF Scored, Q
  <2> QED BY <1>3, <2>1, <2>2, <2>3, <2>4 DEF UpWrites
<1>4. CASE ~q.up /\ <<q.step, q.k>> \in DownWrites
  <2>1. CASE q.step = 1
    <3>1. \/ q.k = 2 /\ Q = Emptied(R, "reviews")
          \/ q.k = 6 /\ Q = Emptied(R, "seller_profiles")
      BY <1>4, <2>1, DownDoes DEF DownWrites, Q, R
    <3>2. CASE q.k = 2
      <4>1. RuleAt(1, R) /\ R.fives \in Nat
        BY <1>4, <2>1, <3>2 DEF Scored, R
      <4>2. R.crowns = 0
        BY <4>1, Rules DEF RuleAt
      <4>3. Q.fives = 0 /\ Q.crowns = 0
        <5>1. Q = [R EXCEPT !.fives = 0, !.unscored = FALSE]
          BY <3>1, <3>2 DEF Emptied
        <5> QED BY <1>1, <4>2, <5>1 DEF RowFields
      <4> QED BY <1>1, <1>4, <2>1, <3>2, <4>3 DEF Scored, Q
    <3>3. CASE q.k = 6
      <4>1. R.fives = 0 /\ R.crowns = 0
        BY <1>4, <2>1, <3>3 DEF Scored, R
      <4>2. Q.fives = 0 /\ Q.crowns = 0 /\ Q.stars = 0
        BY <1>1, <3>1, <3>3, <4>1 DEF Emptied, RowFields
      <4> QED BY <1>1, <1>4, <2>1, <3>3, <4>2 DEF Scored, Q
    <3> QED BY <3>1, <3>2, <3>3
  <2>2. CASE q.step \in {6, 7}
    <3>1. Q \in {Emptied(R, "messages"), Emptied(R, "conversations"), Emptied(R, "favorites")}
      BY <1>4, <2>2, DownDoes DEF DownWrites, Q, R
    <3>2. Q.fives = R.fives /\ Q.stars = R.stars /\ Q.crowns = R.crowns
      BY <1>1, <3>1 DEF Emptied, RowFields, WithoutConversations
    <3> QED BY <1>1, <1>4, <2>2, <3>2 DEF Scored, RuleAt, R, Q
  <2>3. CASE q.step = 11
    <3>1. \/ Q \in {Rewritten(R, "restore_storefronts"), Rewritten(R, "delete_peer_chats")}
          \/ Q \in {Forgotten(R, "conversations", "participant_a_id"),
                    Forgotten(R, "conversations", "participant_b_id"),
                    Forgotten(R, "conversations", "context_seller_id")}
      BY <1>4, <2>3, DownDoes DEF DownWrites, Q, R
    <3>2. Q.fives = R.fives /\ Q.stars = R.stars /\ Q.crowns = R.crowns
      <4>1. CASE Q \in {Rewritten(R, "restore_storefronts"), Rewritten(R, "delete_peer_chats")}
        BY <1>1, <4>1 DEF Rewritten, RowFields, Every, WithoutConversations
      <4>2. CASE Q \in {Forgotten(R, "conversations", "participant_a_id"),
                    Forgotten(R, "conversations", "participant_b_id"),
                    Forgotten(R, "conversations", "context_seller_id")}
        BY <1>1, <4>2 DEF Forgotten, RowFields, Every
      <4> QED BY <3>1, <4>1, <4>2
    <3> QED BY <1>1, <1>4, <2>3, <3>2 DEF Scored, RuleAt, R, Q
  <2>4. CASE q.step = 13
    <3>1. \/ q.k = 1 /\ Q = Rewritten(R, "join_crowns")
          \/ q.k = 2 /\ Q = Forgotten(R, "seller_profiles", "golden_crowns")
      BY <1>4, <2>4, DownDoes DEF DownWrites, Q, R
    <3>2. CASE q.k = 1
      <4>1. RuleAt(13, R) /\ R.fives \in Nat /\ R.crowns \in Nat
        BY <1>4, <2>4, <3>2 DEF Scored, R
      <4>2. Q.fives = R.fives /\ Q.crowns = R.crowns /\ Q.stars = R.crowns * 10 + R.stars
        BY <1>1, <3>1, <3>2 DEF Rewritten, RowFields
      <4>3. Q.stars = StarsBy(1, Q.fives)
        BY <4>1, <4>2, Rules, ZenonT(60) DEF RuleAt
      <4> QED BY <1>1, <1>4, <2>4, <3>2, <4>1, <4>2, <4>3 DEF Scored, Q
    <3>3. CASE q.k = 2
      <4>1. R.stars = StarsBy(1, R.fives) /\ R.fives \in Nat
        BY <1>4, <2>4, <3>3 DEF Scored, R
      <4>2. Q.fives = R.fives /\ Q.crowns = 0 /\ Q.stars = R.stars
        BY <1>1, <3>1, <3>3 DEF Forgotten, RowFields
      <4>3. RuleAt(1, Q)
        BY <4>1, <4>2, Rules DEF RuleAt
      <4> QED BY <1>1, <1>4, <2>4, <3>3, <4>1, <4>2, <4>3 DEF Scored, Q
    <3> QED BY <3>1, <3>2, <3>3
  <2> QED BY <1>4, <2>1, <2>2, <2>3, <2>4 DEF DownWrites
<1> QED BY <1>1, <1>2, <1>3, <1>4

LEMMA OldRules ==
    ASSUME NEW R, R.fives \in Nat
    PROVE  /\ \A r \in 0 .. 12 : RuleAt(r, R) <=> RuleAt(1, R)
           /\ R.fives = 0 /\ R.stars = 0 /\ R.crowns = 0 => RuleAt(1, R)
<1>1. \A r \in 0 .. 12 : StarsBy(r, R.fives) = StarsBy(1, R.fives)
                          /\ CrownsBy(r, R.fives) = CrownsBy(1, R.fives)
  BY DEF StarsBy, CrownsBy
<1>2. StarsBy(1, 0) = 0 /\ CrownsBy(1, 0) = 0
  BY Rules
<1> QED BY <1>1, <1>2 DEF RuleAt

LEMMA ScoredMoves ==
    ASSUME Control, NEW j \in Jobs, Moves(j), Scored(job[j], View(j).rows)
    PROVE  Scored(job'[j], View(j).rows)
<1> DEFINE q == job[j]
           p == job'[j]
           R == View(j).rows
<1>1. /\ q.step \in 1 .. 13 /\ q.k = Size(Script(q)) + 1 /\ (q.up \/ ~q.up)
      /\ q.up => q.step <= q.goal
      /\ ~q.up => q.goal < q.step
      /\ q.goal \in 0 .. 13
      /\ p.up = q.up /\ p.step \in 1 .. 13
      /\ \/ p.step = q.step /\ p.k = q.k
         \/ p.k = 1 /\ p.step = (IF q.up THEN q.step + 1 ELSE q.step - 1)
  BY LivePlaced, LatestIs DEF Moves
<1>2. /\ q.up /\ q.step = 13 => q.k = 3
      /\ ~q.up /\ q.step = 13 => q.k = 3
      /\ ~q.up /\ q.step = 1 => q.k = 9
  BY <1>1, TheyLock DEF Script
<1> HIDE DEF R
<1>3. CASE p.step = q.step /\ p.k = q.k
  BY <1>1, <1>3 DEF Scored, R
<1>4. CASE q.up /\ p.k = 1 /\ p.step = q.step + 1
  BY <1>1, <1>2, <1>4 DEF Scored, R
<1>5. CASE ~q.up /\ p.k = 1 /\ p.step = q.step - 1
  BY <1>1, <1>2, <1>5 DEF Scored, R
<1> QED BY <1>1, <1>3, <1>4, <1>5

LEMMA ScoredBegan ==
    ASSUME Control, Milestones, NEW j \in Jobs, Began(j), rev \in 0 .. 13
    PROVE  Scored(job'[j], db.rows)
<1> DEFINE p == job'[j]
           R == db.rows
<1>1. /\ p.k = 1 /\ p.step \in 1 .. 13 /\ (p.up \/ ~p.up)
      /\ p.up => p.step = rev + 1
      /\ ~p.up => p.step = rev
  BY LatestIs DEF Began
<1>2. R.fives \in Nat /\ R.crowns \in Nat /\ RuleAt(rev, R)
  BY DEF Milestones
<1>3. rev <= 12 => RuleAt(1, R)
  BY <1>2, OldRules
<1>4. rev = 13 => RuleAt(13, R)
  BY <1>2
<1> HIDE DEF R
<1> QED BY <1>1, <1>2, <1>3, <1>4 DEF Scored, R

(* The view of a process that has locks is its own.                        *)
LEMMA ViewKept ==
    ASSUME Control, NEW j \in Jobs, job'[j].view = job[j].view, job'[j].locks = job[j].locks,
           db' = db
    PROVE  View(j)' = View(j)
BY DEF View, Seen

LEMMA MilestonesWorks ==
    ASSUME Control, Milestones, NEW j \in Jobs, Works(j), NEW r
    PROVE  Milestones'
<1>0. rev \in 0 .. 13
  BY LatestIs DEF Control
<1>1. CASE rev' = rev /\ db' = db
           /\ \A i \in Jobs : Live(i)' => Stayed(i) \/ Began(i) \/ Ran(i) \/ Moves(i)
  <2> SUFFICES ASSUME NEW i \in Jobs, Live(i)'
               PROVE  Scored(job'[i], View(i)'.rows)
    BY <1>1 DEF Milestones
  <2>1. CASE Stayed(i)
    BY <1>1, <2>1, ViewKept DEF Stayed, Milestones
  <2>2. CASE Began(i)
    <3>1. View(i)' = db
      BY <1>1, <2>2 DEF Began, View, Seen
    <3> QED BY <1>0, <2>2, <3>1, ScoredBegan
  <2>3. CASE Ran(i)
    BY <2>3, ScoredRan DEF Ran, Milestones
  <2>4. CASE Moves(i)
    <3>1. View(i)' = View(i)
      BY <1>1, <2>4, ViewKept DEF Moves
    <3> QED BY <2>4, <3>1, ScoredMoves DEF Moves, Milestones
  <2> QED BY <1>1, <2>1, <2>2, <2>3, <2>4
<1>2. CASE Commits(j)
  <2> DEFINE q == job[j]
             R == View(j).rows
  <2>1. /\ q.at = "commit" /\ Live(j) /\ rev' = q.goal /\ db' = View(j)
        /\ \A i \in Jobs : ~Live(i)'
    BY <1>2 DEF Commits
  <2>2. /\ q.step = LastStep(q) /\ q.k = Size(Script(q)) + 1 /\ q.step \in 1 .. 13
        /\ q.goal \in 0 .. 13 /\ (q.up => q.goal = q.step) /\ (~q.up => q.goal + 1 = q.step)
    BY <2>1, LivePlaced, LatestIs DEF Placed, LastStep
  <2>3. /\ q.up /\ q.step = 13 => q.k = 3
        /\ ~q.up /\ q.step = 13 => q.k = 3
        /\ ~q.up /\ q.step = 1 => q.k = 9
    BY <2>2, TheyLock DEF Script
  <2>4. Scored(q, R)
    BY <2>1 DEF Milestones
  <2> HIDE DEF R
  <2>5. RuleAt(q.goal, R) /\ R.fives \in Nat /\ R.crowns \in Nat
    <3>1. CASE q.up /\ q.goal = 13
      BY <2>2, <2>3, <2>4, <3>1 DEF Scored
    <3>2. CASE q.goal # 13
      <4>1. RuleAt(1, R) /\ R.fives \in Nat /\ R.crowns \in Nat
        <5>1. CASE q.up
          BY <2>2, <2>4, <3>2, <5>1 DEF Scored
        <5>2. CASE ~q.up /\ q.step # 1
          BY <2>2, <2>3, <2>4, <3>2, <5>2 DEF Scored
        <5>3. CASE ~q.up /\ q.step = 1
          BY <2>2, <2>3, <2>4, <3>2, <5>3, OldRules DEF Scored
        <5> QED BY <5>1, <5>2, <5>3
      <4> QED BY <2>2, <3>2, <4>1, OldRules
    <3> QED BY <2>2, <3>1, <3>2
  <2> QED BY <2>1, <2>5 DEF Milestones, R
<1> QED BY <1>1, <1>2 DEF Works

LEMMA MilestonesWrites ==
    ASSUME Control, Held, IsPast, Milestones, Programs
    PROVE  Milestones'
<1>1. /\ SameButRows
      /\ \/ \E n \in FiveStars : Review(n)
         \/ /\ SameScores(db'.rows, db.rows)
            /\ \A j \in Jobs : SameScores(View(j)'.rows, View(j).rows)
  BY Writers
<1>2. /\ rev' = rev /\ \A j \in Jobs : (Live(j)' <=> Live(j)) /\ SameJob(job'[j], job[j])
  BY <1>1 DEF SameButRows, SameJob, Live, Busy
<1>3. CASE \E n \in FiveStars : Review(n)
  <2>1. PICK n \in FiveStars : Review(n)
    BY <1>3
  <2>2. /\ Unlocked("reviews") /\ Untouched("seller_profiles")
        /\ db'.rows = [db.rows EXCEPT !.fives = n, !.stars = StarsBy(rev, n), !.crowns = CrownsBy(rev, n)]
        /\ \A j \in Jobs : View(j)'.rows = [View(j).rows EXCEPT !.fives = n, !.stars = StarsBy(rev, n), !.crowns = CrownsBy(rev, n)]
    BY <2>1, WroteReview
  <2>3. n \in Nat /\ rev \in 0 .. 13 /\ CrownsBy(rev, n) \in Nat
    BY FiveStarsAssumption, Rules, LatestIs DEF Control
  <2>4. /\ DOMAIN db.rows = RowFields /\ \A j \in Jobs : DOMAIN View(j).rows = RowFields
    BY <1>1 DEF SameButRows, IsBase
  <2>5. db'.rows.fives = n /\ RuleAt(rev, db'.rows) /\ db'.rows.crowns = CrownsBy(rev, n)
    BY <2>2, <2>4 DEF RuleAt, RowFields
  <2>6. ASSUME NEW j \in Jobs, Live(j)
        PROVE  Scored(job'[j], View(j)'.rows)
    <3> DEFINE q == job[j]
               Q == View(j)'.rows
    <3>1. Q.fives = n /\ RuleAt(rev, Q) /\ Q.crowns = CrownsBy(rev, n)
      <4> DEFINE R == View(j).rows
      <4>1. /\ Q = [R EXCEPT !.fives = n, !.stars = StarsBy(rev, n), !.crowns = CrownsBy(rev, n)]
            /\ DOMAIN R = RowFields
        BY <2>2, <2>4
      <4> HIDE DEF Q, R
      <4> QED BY <4>1 DEF RuleAt, RowFields
    <3>2. /\ job'[j].up = q.up /\ job'[j].step = q.step /\ job'[j].k = q.k
          /\ q.k \in Nat /\ q.k >= 1 /\ q.step \in 1 .. 13 /\ q.from = rev
          /\ q.up => rev < q.step
          /\ ~q.up => q.step <= rev
      BY <1>2, <2>6, LivePlaced, LatestIs DEF SameJob
    <3>3. /\ Alone("seller_profiles") \notin q.locks /\ Alone("reviews") \notin q.locks
          /\ ~ \E x \in q.locks : x[1] = "seller_profiles"
      <4>1. <<"reviews", "alone">>[1] = <<"reviews", "row">>[1] /\ <<"reviews", "alone">>[2] = "alone"
            /\ <<"seller_profiles", "alone">>[1] = "seller_profiles"
        OBVIOUS
      <4> QED BY <2>2, <4>1 DEF Unlocked, Untouched, Locked, Conflict, Alone
    <3> HIDE DEF Q
    <3>4. rev <= 12 => RuleAt(1, Q)
      BY <2>3, <3>1, OldRules
    <3>5. CASE q.up
      <4>1. HeldUp(q)
        BY <2>6, <3>5 DEF Held
      <4>2. ~(q.step = 13 /\ q.k >= 3)
        BY <3>2, <3>3, <3>5, <4>1 DEF HeldUp, Passed
      <4> QED BY <2>3, <3>1, <3>2, <3>4, <3>5, <4>2 DEF Scored, Q
    <3>6. CASE ~q.up
      <4>1. HeldDown(q)
        BY <2>6, <3>6 DEF Held
      <4>2. ~Passed(q, 13, 1) /\ ~Passed(q, 1, 2)
        BY <3>3, <4>1 DEF HeldDown
      <4>3. ~(q.step = 1 /\ q.k > 2) /\ (rev = 13 => q.step = 13 /\ q.k = 1)
        BY <3>2, <3>6, <4>2 DEF Passed
      <4>4. CASE rev = 13
        BY <2>3, <3>1, <3>2, <3>6, <4>3, <4>4 DEF Scored, Q
      <4>5. CASE rev # 13
        BY <2>3, <3>1, <3>2, <3>4, <3>6, <4>3, <4>5 DEF Scored, Q
      <4> QED BY <4>4, <4>5
    <3> QED BY <3>5, <3>6
  <2> QED BY <1>2, <2>3, <2>5, <2>6 DEF Milestones
<1>4. CASE /\ SameScores(db'.rows, db.rows)
           /\ \A j \in Jobs : SameScores(View(j)'.rows, View(j).rows)
  <2>1. \A j \in Jobs : Scored(job[j], View(j).rows) => Scored(job'[j], View(j)'.rows)
    BY <1>2, <1>4 DEF SameScores, SameJob, Scored, RuleAt
  <2> QED BY <1>2, <1>4, <2>1 DEF Milestones, SameScores, RuleAt
<1> QED BY <1>1, <1>3, <1>4

(* Through every migration, one that reviews are written during included,  *)
(* the milestones follow the five-star reviews by the revision's rule.     *)
THEOREM MilestonesFollow == Spec => []MilestonesFollowReviews
<1>1. Init => Orderly /\ Milestones
  <2> SUFFICES ASSUME Init PROVE Milestones
    BY OrderlyInit
  <2>1. db.rows = NoRows /\ rev = 0 /\ \A j \in Jobs : ~Live(j)
    BY EmptyIs, IdleIs DEF Init, Live, Busy
  <2> QED BY <2>1, Rules DEF Milestones, RuleAt, NoRows
<1>2. (Orderly /\ Milestones) /\ [Next]_vars => (Orderly /\ Milestones)'
  <2> SUFFICES ASSUME Orderly, Milestones, [Next]_vars PROVE Milestones'
    BY OrderlyStep
  <2>1. CASE Programs
    BY <2>1, MilestonesWrites DEF Orderly
  <2>2. CASE \E j \in Jobs : Alembic(j)
    BY <2>2, AlembicWorks, MilestonesWorks DEF Orderly
  <2>3. CASE UNCHANGED vars
    BY <2>3 DEF vars, Milestones, Live, View, Seen
  <2> QED BY <2>1, <2>2, <2>3 DEF Next, Done
<1>3. Orderly /\ Milestones => MilestonesFollowReviews
  <2> SUFFICES ASSUME Orderly, Milestones PROVE MilestonesFollowReviews
    OBVIOUS
  <2>1. rev \in 0 .. 13 /\ RuleAt(rev, db.rows)
    BY LatestIs DEF Orderly, Control, Milestones
  <2> QED BY <2>1 DEF MilestonesFollowReviews, RuleAt, StarsBy, CrownsBy
<1> QED BY <1>1, <1>2, <1>3, PTL DEF Spec

-----------------------------------------------------------------------------
(* Favourites *)

FirstsIn(F) ==
    \A f \in past.liked : \E g \in F : g.user = f.user /\ g.thing = f.thing /\ g.at <= f.at
(* It has dropped the favourites.                                          *)
Unliked(q) == ~q.up /\ Passed(q, 7, 6)

Tastes ==
    /\ \A f \in past.liked : f.at \in Nat
    /\ db.rows.favorites \subseteq past.liked
    /\ Undone(7) \/ FirstsIn(db.rows.favorites)
    /\ \A j \in Jobs : Live(j) =>
          /\ View(j).rows.favorites \subseteq past.liked
          /\ Undone(7) \/ Unliked(job[j]) \/ FirstsIn(View(j).rows.favorites)

LEMMA LeastNat ==
    ASSUME NEW A \in SUBSET Nat, A # {}
    PROVE  \E n \in A : \A m \in A : n <= m
<1> DEFINE R == {ss \in Nat \X Nat : ss[1] < ss[2]}
<1>1. IsWellFoundedOn(R, Nat)
  BY NatLessThanWellFounded DEF OpToRel
<1>2. \A m, n \in Nat : m < n => <<m, n>> \in R
  OBVIOUS
<1> HIDE DEF R
<1>3. PICK n \in A : \A m \in A : ~(<<m, n>> \in R)
  BY <1>1, WFMin
<1>4. n \in Nat /\ \A m \in A : m \in Nat /\ ~(m < n)
  BY <1>2, <1>3
<1> QED BY <1>4

(* The first of the favourites of an item is no repeat.                    *)
LEMMA FirstsStay ==
    ASSUME NEW F, F \subseteq past.liked, \A f \in past.liked : f.at \in Nat,
           FirstsIn(F), NEW thing
    PROVE  FirstsIn(F \ Repeats(F, thing))
<1> SUFFICES ASSUME NEW f \in past.liked
             PROVE  \E g \in F \ Repeats(F, thing) :
                       g.user = f.user /\ g.thing = f.thing /\ g.at <= f.at
  BY DEF FirstsIn
<1> DEFINE S == {g \in F : g.user = f.user /\ g.thing = f.thing /\ g.at <= f.at}
           A == {g.at : g \in S}
<1>1. S # {}
  BY DEF FirstsIn
<1>2. A \in SUBSET Nat /\ A # {}
  BY <1>1
<1>3. PICK n \in A : \A m \in A : n <= m
  BY <1>2, LeastNat
<1>4. PICK g \in S : g.at = n
  BY <1>3
<1>5. g \notin Repeats(F, thing)
  <2> SUFFICES ASSUME NEW h \in F, h.user = g.user, h.thing = g.thing, h.at < g.at
               PROVE  FALSE
    BY DEF Repeats
  <2>1. h.at \in Nat /\ g.at \in Nat /\ f.at \in Nat
    OBVIOUS
  <2>2. h \in S
    BY <2>1
  <2>3. n <= h.at
    BY <1>3, <2>2
  <2> QED BY <1>4, <2>1, <2>3
<1> QED BY <1>4, <1>5

LEMMA LikesRan ==
    ASSUME Control, NEW j \in Jobs, Ran(j), \A f \in past.liked : f.at \in Nat,
           View(j).rows.favorites \subseteq past.liked, past' = past
    PROVE  /\ View(j)'.rows.favorites \subseteq past.liked
           /\ Unliked(job[j]) => Unliked(job'[j])
           /\ FirstsIn(View(j).rows.favorites) =>
                 Unliked(job'[j]) \/ FirstsIn(View(j)'.rows.favorites)
<1> DEFINE q == job[j]
           R == View(j).rows
           Q == View(j)'.rows
<1>1. /\ q.step \in 1 .. 13 /\ q.k \in Nat /\ (q.up \/ ~q.up)
      /\ job'[j].up = q.up /\ job'[j].step = q.step /\ job'[j].k = q.k + 1
      /\ job'[j].from = q.from /\ DOMAIN R = RowFields
      /\ q.from \in 0 .. 13 /\ (~q.up => q.step <= q.from)
  BY LivePlaced, LatestIs DEF Ran, Control, View, Seen, IsBase
<1>2. Unliked(q) => Unliked(job'[j])
  BY <1>1 DEF Unliked, Passed
<1> HIDE DEF Q, R
<1>3. CASE <<q.step, q.k>> \notin (IF q.up THEN UpWrites ELSE DownWrites)
  <2>1. Q.favorites = R.favorites
    BY <1>3, CalmElsewhere DEF Q, R, SameLikes
  <2> QED BY <1>2, <2>1 DEF Q, R
<1>4. CASE q.up /\ <<q.step, q.k>> \in UpWrites
  <2>1. CASE q.step = 8
    <3>1. Q = Rewritten(R, "dedupe_products") \/ Q = Rewritten(R, "dedupe_stores")
      BY <1>4, <2>1, UpDoes DEF UpWrites, Q, R
    <3>2. PICK thing : Q.favorites = R.favorites \ Repeats(R.favorites, thing)
      BY <1>1, <3>1 DEF Rewritten, RowFields
    <3>3. FirstsIn(R.favorites) => FirstsIn(Q.favorites)
      BY <3>2, FirstsStay DEF R
    <3> QED BY <1>2, <3>2, <3>3 DEF Q, R
  <2>2. CASE q.step = 11
    <3>1. \/ Q \in {Rewritten(R, "backfill_participants"), Rewritten(R, "move_messages"),
                    Rewritten(R, "drop_duplicates")}
          \/ Q \in {Forgotten(R, "conversations", "buyer_id"),
                    Forgotten(R, "conversations", "seller_id")}
      BY <1>4, <2>2, UpDoes DEF UpWrites, Q, R
    <3>2. CASE Q \in {Rewritten(R, "backfill_participants"), Rewritten(R, "move_messages"),
                    Rewritten(R, "drop_duplicates")}
      <4>1. Q.favorites = R.favorites
        BY <1>1, <3>2 DEF Rewritten, RowFields, Every, WithoutConversations
      <4> QED BY <1>2, <4>1 DEF Q, R
    <3>3. CASE Q \in {Forgotten(R, "conversations", "buyer_id"),
                    Forgotten(R, "conversations", "seller_id")}
      <4>1. Q.favorites = R.favorites
        BY <1>1, <3>3 DEF Forgotten, RowFields, Every
      <4> QED BY <1>2, <4>1 DEF Q, R
    <3> QED BY <3>1, <3>2, <3>3
  <2>3. CASE q.step \in {12, 13}
    <3>1. Q \in {Rewritten(R, "recompute_sellers"), Rewritten(R, "split_crowns")}
      BY <1>4, <2>3, UpDoes DEF UpWrites, Q, R
    <3>2. Q.favorites = R.favorites
      BY <1>1, <3>1 DEF Rewritten, RowFields, SplitCrowns
    <3> QED BY <1>2, <3>2 DEF Q, R
  <2> QED BY <1>4, <2>1, <2>2, <2>3 DEF UpWrites
<1>5. CASE ~q.up /\ <<q.step, q.k>> \in DownWrites
  <2>1. CASE q.step \in {1, 6}
    <3>1. Q \in {Emptied(R, "reviews"), Emptied(R, "seller_profiles"), Emptied(R, "messages"),
                 Emptied(R, "conversations")}
      BY <1>5, <2>1, DownDoes DEF DownWrites, Q, R
    <3>2. Q.favorites = R.favorites
      BY <1>1, <3>1 DEF Emptied, RowFields, WithoutConversations
    <3> QED BY <1>2, <3>2 DEF Q, R
  <2>2. CASE q.step = 7
    <3>1. Q = Emptied(R, "favorites") /\ q.k = 6
      BY <1>5, <2>2, DownDoes DEF DownWrites, Q, R
    <3>2. Q.favorites = {}
      BY <1>1, <3>1 DEF Emptied, RowFields
    <3>3. Unliked(job'[j])
      BY <1>1, <1>5, <2>2, <3>1 DEF Unliked, Passed
    <3> QED BY <1>2, <3>2, <3>3 DEF Q, R
  <2>3. CASE q.step = 11
    <3>1. \/ Q \in {Rewritten(R, "restore_storefronts"), Rewritten(R, "delete_peer_chats")}
          \/ Q \in {Forgotten(R, "conversations", "participant_a_id"),
                    Forgotten(R, "conversations", "participant_b_id"),
                    Forgotten(R, "conversations", "context_seller_id")}
      BY <1>5, <2>3, DownDoes DEF DownWrites, Q, R
    <3>2. CASE Q \in {Rewritten(R, "restore_storefronts"), Rewritten(R, "delete_peer_chats")}
      <4>1. Q.favorites = R.favorites
        BY <1>1, <3>2 DEF Rewritten, RowFields, Every, WithoutConversations
      <4> QED BY <1>2, <4>1 DEF Q, R
    <3>3. CASE Q \in {Forgotten(R, "conversations", "participant_a_id"),
                    Forgotten(R, "conversations", "participant_b_id"),
                    Forgotten(R, "conversations", "context_seller_id")}
      <4>1. Q.favorites = R.favorites
        BY <1>1, <3>3 DEF Forgotten, RowFields, Every
      <4> QED BY <1>2, <4>1 DEF Q, R
    <3> QED BY <3>1, <3>2, <3>3
  <2>4. CASE q.step = 13
    <3>1. Q \in {Rewritten(R, "join_crowns"), Forgotten(R, "seller_profiles", "golden_crowns")}
      BY <1>5, <2>4, DownDoes DEF DownWrites, Q, R
    <3>2. Q.favorites = R.favorites
      BY <1>1, <3>1 DEF Rewritten, Forgotten, RowFields
    <3> QED BY <1>2, <3>2 DEF Q, R
  <2> QED BY <1>5, <2>1, <2>2, <2>3, <2>4 DEF DownWrites
<1> QED BY <1>1, <1>3, <1>4, <1>5

LEMMA TastesWorks ==
    ASSUME Control, Tastes, NEW j \in Jobs, Works(j), past' = past
    PROVE  Tastes'
<1>1. CASE rev' = rev /\ db' = db /\ undone' = undone
           /\ \A i \in Jobs : Live(i)' => Stayed(i) \/ Began(i) \/ Ran(i) \/ Moves(i)
  <2> SUFFICES ASSUME NEW i \in Jobs, Live(i)'
               PROVE  /\ View(i)'.rows.favorites \subseteq past.liked
                      /\ Undone(7) \/ Unliked(job'[i]) \/ FirstsIn(View(i)'.rows.favorites)
    BY <1>1 DEF Tastes, FirstsIn, Undone, Unliked, Passed
  <2>1. CASE Stayed(i)
    BY <1>1, <2>1, ViewKept DEF Stayed, Tastes
  <2>2. CASE Began(i)
    <3>1. View(i)' = db
      BY <1>1, <2>2 DEF Began, View, Seen
    <3> QED BY <3>1 DEF Tastes
  <2>3. CASE Ran(i)
    BY <2>3, LikesRan DEF Ran, Tastes
  <2>4. CASE Moves(i)
    <3>1. View(i)' = View(i)
      BY <1>1, <2>4, ViewKept DEF Moves
    <3>2. Unliked(job[i]) => Unliked(job'[i])
      BY <2>4, LivePlaced, LatestIs DEF Moves, Unliked, Passed
    <3> QED BY <2>4, <3>1, <3>2 DEF Moves, Tastes
  <2> QED BY <1>1, <2>1, <2>2, <2>3, <2>4
<1>2. CASE Commits(j)
  <2> DEFINE q == job[j]
  <2>1. /\ q.at = "commit" /\ Live(j) /\ db' = View(j) /\ \A i \in Jobs : ~Live(i)'
        /\ undone' = IF q.up THEN undone
                     ELSE [times |-> undone.times + 1,
                           scripts |-> undone.scripts \cup (Lossy \cap (q.goal + 1 .. q.from))]
    BY <1>2 DEF Commits
  <2>2. /\ q.step = LastStep(q) /\ q.from \in 0 .. 13 /\ q.goal \in 0 .. 13
    BY <2>1, LivePlaced, LatestIs DEF Placed
  <2>3. Undone(7) => Undone(7)'
    BY <2>1 DEF Undone
  <2>4. Unliked(q) => Undone(7)'
    <3> SUFFICES ASSUME Unliked(q) PROVE Undone(7)'
      OBVIOUS
    <3>1. ~q.up /\ 7 \in q.goal + 1 .. q.from
      BY <2>2 DEF Unliked, Passed, LastStep
    <3> QED BY <2>1, <3>1 DEF Undone, Lossy
  <2> QED BY <2>1, <2>3, <2>4 DEF Tastes, FirstsIn
<1> QED BY <1>1, <1>2 DEF Works

LEMMA TastesWrites ==
    ASSUME Control, IsPast, Tastes, Programs
    PROVE  Tastes'
<1>1. /\ SameButRows
      /\ \/ \E u \in Fans, thing \in Things, t \in 1 .. MaxTime : Favorite(u, thing, t)
         \/ /\ SameLikes(db'.rows, db.rows) /\ past'.liked = past.liked
            /\ \A j \in Jobs : SameLikes(View(j)'.rows, View(j).rows)
  BY Writers
<1>2. /\ rev' = rev /\ undone' = undone
      /\ \A j \in Jobs : (Live(j)' <=> Live(j)) /\ (Unliked(job'[j]) <=> Unliked(job[j]))
  BY <1>1 DEF SameButRows, SameJob, Live, Busy, Unliked, Passed
<1>3. CASE \E u \in Fans, thing \in Things, t \in 1 .. MaxTime : Favorite(u, thing, t)
  <2>1. PICK u \in Fans, thing \in Things, t \in 1 .. MaxTime : Favorite(u, thing, t)
    BY <1>3
  <2> DEFINE g == [id |-> Cardinality(past.liked) + 1, user |-> u, thing |-> thing, at |-> t]
             Added(f) == /\ past' = [past EXCEPT !.liked = @ \cup {f}]
                         /\ db'.rows = [db.rows EXCEPT !.favorites = @ \cup {f}]
                         /\ \A j \in Jobs : View(j)'.rows = [View(j).rows EXCEPT !.favorites = @ \cup {f}]
  <2>6. Added(g)
    BY <2>1, WroteFavorite
  <2>7. g.at = t
    OBVIOUS
  <2> HIDE DEF g, Added
  <2>2. PICK f : Added(f) /\ f.at = t
    BY <2>6, <2>7
  <2>3. f.at \in Nat
    BY <2>2, BoundsAssumption
  <2>4. /\ past'.liked = past.liked \cup {f} /\ db'.rows.favorites = db.rows.favorites \cup {f}
        /\ \A j \in Jobs : View(j)'.rows.favorites = View(j).rows.favorites \cup {f}
    <3>1. DOMAIN db.rows = RowFields /\ \A j \in Jobs : DOMAIN View(j).rows = RowFields
      BY <1>1 DEF SameButRows, IsBase
    <3>2. past'.liked = past.liked \cup {f}
      BY <2>2 DEF IsPast, Added
    <3>3. db'.rows.favorites = db.rows.favorites \cup {f}
      BY <2>2, <3>1 DEF RowFields, Added
    <3>4. ASSUME NEW j \in Jobs PROVE View(j)'.rows.favorites = View(j).rows.favorites \cup {f}
      BY <2>2, <3>1 DEF RowFields, Added
    <3> QED BY <3>2, <3>3, <3>4
  <2>5. \A F : FirstsIn(F) => FirstsIn(F \cup {f})'
    BY <2>3, <2>4 DEF FirstsIn
  <2> QED BY <1>2, <2>3, <2>4, <2>5 DEF Tastes, Undone
<1>4. CASE /\ SameLikes(db'.rows, db.rows) /\ past'.liked = past.liked
           /\ \A j \in Jobs : SameLikes(View(j)'.rows, View(j).rows)
  BY <1>2, <1>4 DEF Tastes, SameLikes, FirstsIn, Undone
<1> QED BY <1>1, <1>3, <1>4

(* Nobody loses a favourite to the migrations: the first one of every item *)
(* is in the database, whatever was dropped as a repeat (but see Undone).  *)
THEOREM TastesStay == Spec => []TastesKept
<1>1. Init => Orderly /\ Tastes
  <2> SUFFICES ASSUME Init PROVE Tastes
    BY OrderlyInit
  <2>1. db.rows = NoRows /\ past.liked = {} /\ \A j \in Jobs : ~Live(j)
    BY EmptyIs, IdleIs DEF Init, Live, Busy
  <2> QED BY <2>1 DEF Tastes, FirstsIn, NoRows
<1>2. (Orderly /\ Tastes) /\ [Next]_vars => (Orderly /\ Tastes)'
  <2> SUFFICES ASSUME Orderly, Tastes, [Next]_vars PROVE Tastes'
    BY OrderlyStep
  <2>1. CASE Programs
    BY <2>1, TastesWrites DEF Orderly
  <2>2. CASE \E j \in Jobs : Alembic(j)
    BY <2>2, AlembicWorks, TastesWorks DEF Orderly
  <2>3. CASE UNCHANGED vars
    BY <2>3 DEF vars, Tastes, Live, View, Seen, FirstsIn, Undone
  <2> QED BY <2>1, <2>2, <2>3 DEF Next, Done
<1>3. Orderly /\ Tastes => TastesKept
  BY DEF Tastes, FirstsIn, TastesKept
<1> QED BY <1>1, <1>2, <1>3, PTL DEF Spec

-----------------------------------------------------------------------------
(* Conversations and messages                                              *)

ConvFields == {"id", "a", "b", "context", "buyer", "seller"}
MsgFields == {"id", "conversation", "sender"}
AnyStore == Stores \cup {NoStore}

(* What the columns of a conversation hold: those of 006, those of 011, or *)
(* both while 011 is applied.                                              *)
Fits(c, A, B, X, U, S) ==
    c.a \in A /\ c.b \in B /\ c.context \in X /\ c.buyer \in U /\ c.seller \in S
OfBuyer(c) == Fits(c, {NoUser}, {NoUser}, {NoStore}, Users, Stores)
OfPeers(c) == Fits(c, Users, Users, AnyStore, {NoUser}, {NoStore})
OfBoth(c) ==
    /\ Fits(c, Users, Users, {c.seller}, Users, Stores)
    /\ {c.a, c.b} = {c.buyer, Owner[c.seller]}

UpFits(q, c) ==
    IF q.step < 11 \/ (q.step = 11 /\ q.k <= 4) THEN OfBuyer(c)
    ELSE IF q.step = 11 /\ q.k <= 17 THEN OfBoth(c)
    ELSE IF q.step = 11 /\ q.k = 18 THEN Fits(c, Users, Users, AnyStore, {NoUser}, Stores)
    ELSE OfPeers(c)
DownFits(q, c) ==
    IF q.step > 11 \/ (q.step = 11 /\ q.k <= 3) THEN OfPeers(c)
    ELSE IF q.step < 11 THEN OfBuyer(c)
    ELSE Fits(c, IF q.k <= 14 THEN Users ELSE {NoUser},
                 IF q.k <= 15 THEN Users ELSE {NoUser},
                 IF q.k <= 16 THEN AnyStore ELSE {NoStore},
                 Users, IF q.k = 4 THEN AnyStore ELSE Stores)
JobFits(q, R) == \A c \in R.conversations : IF q.up THEN UpFits(q, c) ELSE DownFits(q, c)
FitsAt(r, R) == \A c \in R.conversations : IF r >= 11 THEN OfPeers(c) ELSE OfBuyer(c)

(* Each conversation has a number; a message is in one of them.            *)
IsConv(P, c) == DOMAIN c = ConvFields /\ c.id \in 1 .. Cardinality(P.opened)
InOne(R, m) == DOMAIN m = MsgFields /\ \E c \in R.conversations : c.id = m.conversation
Filed(P, R) ==
    /\ \A c \in R.conversations : IsConv(P, c)
    /\ \A c, d \in R.conversations : c.id = d.id => c = d
    /\ \A m \in R.messages : InOne(R, m)

(* It has locked the conversations.                                        *)
Grabbed(q) == Passed(q, 11, 1) \/ (~q.up /\ Passed(q, 6, 7))

Chats ==
    /\ IsFiniteSet(past.opened)
    /\ \A d \in past.opened : d.id \in 1 .. Cardinality(past.opened)
    /\ Filed(past, db.rows) /\ FitsAt(rev, db.rows)
    /\ \A j \in Jobs : Live(j) =>
          /\ Filed(past, View(j).rows) /\ JobFits(job[j], View(j).rows)
          /\ Grabbed(job[j]) \/ View(j).rows.conversations = db.rows.conversations

(* As long as a process has not touched the conversations they are those   *)
(* of its revision.                                                        *)
LEMMA FreeFits ==
    ASSUME NEW q, NEW r \in 0 .. 13, q.step \in 1 .. 13, q.k \in Nat, q.k >= 1, q.from = r,
           q.up \/ ~q.up,
           q.up => r < q.step, ~q.up => q.step <= r, ~Grabbed(q), NEW R
    PROVE  JobFits(q, R) <=> FitsAt(r, R)
<1>1. CASE q.up
  <2>1. r >= 11 => q.step > 11
    BY <1>1
  <2>2. r < 11 => q.step < 11 \/ (q.step = 11 /\ q.k <= 4)
    BY <1>1 DEF Grabbed, Passed
  <2> QED BY <1>1, <2>1, <2>2 DEF JobFits, FitsAt, UpFits
<1>2. CASE ~q.up
  <2>1. r >= 11 => q.step > 11 \/ (q.step = 11 /\ q.k <= 3)
    BY <1>2 DEF Grabbed, Passed
  <2>2. r < 11 => q.step < 11
    BY <1>2
  <2> QED BY <1>2, <2>1, <2>2 DEF JobFits, FitsAt, DownFits
<1> QED BY <1>1, <1>2

LEMMA NotGrabbed ==
    ASSUME Control, Held, NEW j \in Jobs, Live(j), Unlocked("conversations")
    PROVE  ~Grabbed(job[j])
<1>1. Alone("conversations") \notin job[j].locks
  <2>1. <<"conversations", "alone">>[1] = <<"conversations", "row">>[1]
        /\ <<"conversations", "alone">>[2] = "alone"
    OBVIOUS
  <2> QED BY <2>1 DEF Unlocked, Locked, Conflict, Alone
<1> QED BY <1>1 DEF Held, HeldUp, HeldDown, Grabbed

(* Which statements write conversations or messages.                       *)
LEMMA ChatsElsewhere ==
    ASSUME Control, NEW j \in Jobs, Ran(j)
    PROVE  \/ SameChats(View(j)'.rows, View(j).rows)
           \/ job[j].up /\ job[j].step = 11 /\ job[j].k \in {4, 5, 6, 17, 18}
           \/ ~job[j].up /\ job[j].step = 11 /\ job[j].k \in {3, 4, 14, 15, 16}
           \/ ~job[j].up /\ job[j].step = 6 /\ job[j].k \in {6, 7}
<1> DEFINE q == job[j]
           R == View(j).rows
           Q == View(j)'.rows
<1>1. DOMAIN R = RowFields
  BY DEF Control, View, Seen, IsBase
<1> HIDE DEF Q, R
<1>2. CASE <<q.step, q.k>> \notin (IF q.up THEN UpWrites ELSE DownWrites)
  BY <1>2, CalmElsewhere
<1>3. CASE q.up /\ <<q.step, q.k>> \in UpWrites
  <2>1. \/ q.step = 11 /\ q.k \in {4, 5, 6, 17, 18}
        \/ Q \in {Rewritten(R, "dedupe_products"), Rewritten(R, "dedupe_stores"),
                  Rewritten(R, "recompute_sellers"), Rewritten(R, "split_crowns")}
    BY <1>3, UpDoes DEF UpWrites, Q, R
  <2>2. CASE Q \in {Rewritten(R, "dedupe_products"), Rewritten(R, "dedupe_stores"),
                    Rewritten(R, "recompute_sellers"), Rewritten(R, "split_crowns")}
    <3>1. Q.conversations = R.conversations /\ Q.messages = R.messages
      BY <1>1, <2>2 DEF Rewritten, RowFields, SplitCrowns
    <3> QED BY <3>1 DEF SameChats, Q, R
  <2> QED BY <1>3, <2>1, <2>2
<1>4. CASE ~q.up /\ <<q.step, q.k>> \in DownWrites
  <2>1. \/ q.step = 11 /\ q.k \in {3, 4, 14, 15, 16}
        \/ q.step = 6 /\ q.k \in {6, 7}
        \/ Q \in {Emptied(R, "reviews"), Emptied(R, "seller_profiles"), Emptied(R, "favorites"),
                  Rewritten(R, "join_crowns"), Forgotten(R, "seller_profiles", "golden_crowns")}
    BY <1>4, DownDoes DEF DownWrites, Q, R
  <2>2. CASE Q \in {Emptied(R, "reviews"), Emptied(R, "seller_profiles"), Emptied(R, "favorites"),
                  Rewritten(R, "join_crowns"), Forgotten(R, "seller_profiles", "golden_crowns")}
    <3>1. Q.conversations = R.conversations /\ Q.messages = R.messages
      BY <1>1, <2>2 DEF Rewritten, Emptied, Forgotten, RowFields
    <3> QED BY <3>1 DEF SameChats, Q, R
  <2> QED BY <1>4, <2>1, <2>2
<1> QED BY <1>2, <1>3, <1>4

(* Q has the conversations of R, each as f makes it.                       *)
Maps(f, R, Q) ==
    /\ DOMAIN f = R.conversations
    /\ Q.conversations = {f[c] : c \in R.conversations} /\ Q.messages = R.messages
    /\ \A c \in R.conversations : DOMAIN f[c] = DOMAIN c /\ f[c].id = c.id

LEMMA MappedFiled ==
    ASSUME NEW P, NEW f, NEW R, NEW Q, Maps(f, R, Q), Filed(P, R)
    PROVE  Filed(P, Q)
<1>1. \A e \in Q.conversations : \E c \in R.conversations : e = f[c]
  BY DEF Maps
<1>2. \A c \in R.conversations : f[c] \in Q.conversations /\ IsConv(P, f[c]) /\ f[c].id = c.id
  BY DEF Maps, Filed, IsConv
<1>3. \A c, d \in Q.conversations : c.id = d.id => c = d
  BY <1>1, <1>2 DEF Filed
<1>4. \A m \in Q.messages : InOne(Q, m)
  BY <1>2 DEF Filed, InOne, Maps
<1> QED BY <1>1, <1>2, <1>3, <1>4 DEF Filed

LEMMA WithoutIs ==
    ASSUME NEW R, DOMAIN R = RowFields, NEW X
    PROVE  /\ WithoutConversations(R, X).conversations = R.conversations \ X
           /\ WithoutConversations(R, X).messages =
                 {m \in R.messages : \A c \in X : m.conversation # c.id}
BY DEF WithoutConversations, RowFields

LEMMA WithoutFiled ==
    ASSUME NEW P, NEW R, DOMAIN R = RowFields, Filed(P, R), NEW X, X \subseteq R.conversations
    PROVE  Filed(P, WithoutConversations(R, X))
<1> DEFINE Q == WithoutConversations(R, X)
<1>1. /\ Q.conversations = R.conversations \ X
      /\ Q.messages = {m \in R.messages : \A c \in X : m.conversation # c.id}
  BY WithoutIs
<1> HIDE DEF Q
<1>2. \A m \in Q.messages : InOne(Q, m)
  <2> SUFFICES ASSUME NEW m \in Q.messages PROVE InOne(Q, m)
    OBVIOUS
  <2>1. m \in R.messages /\ \A c \in X : m.conversation # c.id
    BY <1>1
  <2>2. PICK c \in R.conversations : c.id = m.conversation
    BY <2>1 DEF Filed, InOne
  <2>3. c \in Q.conversations
    BY <1>1, <2>1, <2>2
  <2> QED BY <2>1, <2>2, <2>3 DEF Filed, InOne
<1> QED BY <1>1, <1>2 DEF Filed, Q

(* The scripts' statements on the columns of conversations.                *)
LEMMA EveryIs ==
    ASSUME NEW R, DOMAIN R = RowFields, NEW f, DOMAIN f = R.conversations,
           NEW Q, Q = [R EXCEPT !.conversations = {f[c] : c \in R.conversations}],
           \A c \in R.conversations : DOMAIN f[c] = DOMAIN c /\ f[c].id = c.id
    PROVE  Maps(f, R, Q)
BY DEF Maps, RowFields

(* A column of conversations has the same value everywhere.                *)
Clears(R, Q, x, v) ==
    \E f : /\ Maps(f, R, Q)
           /\ \A c \in R.conversations :
                 f[c][x] = v /\ \A y \in ConvFields \ {x} : f[c][y] = c[y]

LEMMA Cleared ==
    ASSUME NEW P, NEW R, DOMAIN R = RowFields, Filed(P, R),
           NEW x \in ConvFields \ {"id"}, NEW v,
           NEW Q, Q = [R EXCEPT !.conversations = {[c EXCEPT ![x] = v] : c \in R.conversations}]
    PROVE  Clears(R, Q, x, v)
<1> DEFINE C == R.conversations
           f == [c \in C |-> [c EXCEPT ![x] = v]]
<1>1. \A c \in C : DOMAIN c = ConvFields
  BY DEF Filed, IsConv
<1>2. Q = [R EXCEPT !.conversations = {f[c] : c \in C}]
  OBVIOUS
<1>3. \A c \in C : /\ DOMAIN f[c] = DOMAIN c /\ f[c].id = c.id
                   /\ f[c][x] = v /\ \A y \in ConvFields \ {x} : f[c][y] = c[y]
  BY <1>1 DEF ConvFields
<1>4. DOMAIN f = C
  OBVIOUS
<1> HIDE DEF f
<1>5. Maps(f, R, Q)
  BY <1>2, <1>3, <1>4, EveryIs
<1>6. \A c \in R.conversations : f[c][x] = v /\ \A y \in ConvFields \ {x} : f[c][y] = c[y]
  BY <1>3
<1> QED BY <1>5, <1>6, Zenon DEF Clears

LEMMA ForgottenIs ==
    ASSUME NEW P, NEW R, DOMAIN R = RowFields, Filed(P, R)
    PROVE  /\ Clears(R, Forgotten(R, "conversations", "buyer_id"), "buyer", NoUser)
           /\ Clears(R, Forgotten(R, "conversations", "seller_id"), "seller", NoStore)
           /\ Clears(R, Forgotten(R, "conversations", "participant_a_id"), "a", NoUser)
           /\ Clears(R, Forgotten(R, "conversations", "participant_b_id"), "b", NoUser)
           /\ Clears(R, Forgotten(R, "conversations", "context_seller_id"), "context", NoStore)
<1> DEFINE Q(column) == Forgotten(R, "conversations", column)
           With(x, v) == [R EXCEPT !.conversations = {[c EXCEPT ![x] = v] : c \in R.conversations}]
<1>1. /\ Q("buyer_id") = With("buyer", NoUser)
      /\ Q("seller_id") = With("seller", NoStore)
      /\ Q("participant_a_id") = With("a", NoUser)
      /\ Q("participant_b_id") = With("b", NoUser)
      /\ Q("context_seller_id") = With("context", NoStore)
  BY DEF Forgotten, Every
<1>2. {"buyer", "seller", "a", "b", "context"} \subseteq ConvFields \ {"id"}
  BY DEF ConvFields
<1>3. \A x \in ConvFields \ {"id"} : \A v : Clears(R, With(x, v), x, v)
  BY Cleared
<1> HIDE DEF With
<1> QED BY <1>1, <1>2, <1>3

(* 011: the pair is that of the buyer and the storefront's owner.          *)
LEMMA BackfilledIs ==
    ASSUME NEW c, DOMAIN c = ConvFields, OfBuyer(c)
    PROVE  LET d == Backfilled(c) IN
           /\ DOMAIN d = ConvFields /\ d.id = c.id /\ d.buyer = c.buyer /\ d.seller = c.seller
           /\ OfBoth(d)
<1> DEFINE o == Owner[c.seller]
           first == IF c.buyer < o THEN c.buyer ELSE o
           second == c.buyer + o - first
           d == [c EXCEPT !.a = first, !.b = second, !.context = c.seller]
<1>1. /\ c.a = NoUser /\ c.b = NoUser /\ c.buyer \in Users /\ c.seller \in Stores
      /\ o \in Users /\ Users \subseteq Nat
  BY OwnerAssumption, UsersAssumption DEF OfBuyer, Fits
<1>2. Backfilled(c) = d
  BY <1>1 DEF Backfilled
<1>3. first \in Users /\ second \in Users /\ {first, second} = {c.buyer, o}
  <2> HIDE DEF o
  <2>1. c.buyer \in Nat /\ o \in Nat
    BY <1>1
  <2>2. \/ first = c.buyer /\ second = o
        \/ first = o /\ second = c.buyer
    BY <2>1
  <2> HIDE DEF first, second
  <2> QED BY <1>1, <2>2
<1> HIDE DEF first, second
<1>4. /\ DOMAIN d = ConvFields /\ d.id = c.id /\ d.buyer = c.buyer /\ d.seller = c.seller
      /\ d.a = first /\ d.b = second /\ d.context = c.seller
  BY DEF ConvFields
<1> HIDE DEF d
<1> QED BY <1>1, <1>2, <1>3, <1>4 DEF OfBoth, Fits

LEMMA Backfills ==
    ASSUME NEW P, NEW R, DOMAIN R = RowFields, Filed(P, R), \A c \in R.conversations : OfBuyer(c)
    PROVE  \E f : /\ Maps(f, R, Rewritten(R, "backfill_participants"))
                  /\ \A c \in R.conversations :
                        f[c].buyer = c.buyer /\ f[c].seller = c.seller /\ OfBoth(f[c])
<1> DEFINE C == R.conversations
           f == [c \in C |-> Backfilled(c)]
           Q == Rewritten(R, "backfill_participants")
<1>1. \A c \in C : DOMAIN c = ConvFields
  BY DEF Filed, IsConv
<1>2. Q = [R EXCEPT !.conversations = {f[c] : c \in C}]
  BY DEF Rewritten, Every
<1>3. \A c \in C : /\ DOMAIN f[c] = DOMAIN c /\ f[c].id = c.id
                   /\ f[c].buyer = c.buyer /\ f[c].seller = c.seller /\ OfBoth(f[c])
  BY <1>1, BackfilledIs
<1>4. DOMAIN f = C
  OBVIOUS
<1> HIDE DEF f, Q
<1>5. Maps(f, R, Q)
  BY <1>2, <1>3, <1>4, EveryIs
<1> QED BY <1>3, <1>5 DEF Q

LEMMA Restores ==
    ASSUME NEW P, NEW R, DOMAIN R = RowFields, Filed(P, R), \A c \in R.conversations : OfPeers(c)
    PROVE  \E f : /\ Maps(f, R, Rewritten(R, "restore_storefronts"))
                  /\ \A c \in R.conversations :
                        /\ f[c].a = c.a /\ f[c].b = c.b /\ f[c].context = c.context
                        /\ f[c].buyer = c.a /\ f[c].seller = c.context
<1> DEFINE C == R.conversations
           f == [c \in C |-> Restored(c)]
           Q == Rewritten(R, "restore_storefronts")
<1>1. \A c \in C : DOMAIN c = ConvFields /\ c.buyer = NoUser
  BY DEF Filed, IsConv, OfPeers, Fits
<1>2. Q = [R EXCEPT !.conversations = {f[c] : c \in C}]
  BY DEF Rewritten, Every
<1>3. \A c \in C : /\ DOMAIN f[c] = DOMAIN c /\ f[c].id = c.id
                   /\ f[c].a = c.a /\ f[c].b = c.b /\ f[c].context = c.context
                   /\ f[c].buyer = c.a /\ f[c].seller = c.context
  BY <1>1 DEF ConvFields, Restored
<1>4. DOMAIN f = C
  OBVIOUS
<1> HIDE DEF f, Q
<1>5. Maps(f, R, Q)
  BY <1>2, <1>3, <1>4, EveryIs
<1> QED BY <1>3, <1>5 DEF Q

(* The oldest conversation of a pair.                                      *)
LEMMA KeeperIs ==
    ASSUME NEW P, NEW R, Filed(P, R), NEW c \in R.conversations
    PROVE  LET k == Keeper(R.conversations, c) IN
           /\ k \in R.conversations /\ SamePair(c, k)
           /\ \A e \in R.conversations : SamePair(k, e) => e.id >= k.id
<1> DEFINE C == R.conversations
           A == {d.id : d \in {e \in C : SamePair(c, e)}}
<1>1. \A e \in C : e.id \in Nat
  BY DEF Filed, IsConv
<1>2. SamePair(c, c)
  BY DEF SamePair
<1>3. A \in SUBSET Nat /\ A # {}
  BY <1>1, <1>2
<1>4. PICK n \in A : \A m \in A : n <= m
  BY <1>3, LeastNat
<1>5. PICK d \in C : SamePair(c, d) /\ d.id = n
  BY <1>4
<1>6. \A e \in C : SamePair(d, e) => e.id >= d.id
  <2> SUFFICES ASSUME NEW e \in C, SamePair(d, e) PROVE e.id >= d.id
    OBVIOUS
  <2>1. SamePair(c, e)
    BY <1>5 DEF SamePair
  <2>2. n <= e.id
    BY <1>4, <2>1
  <2> QED BY <1>1, <1>5, <2>2
<1> QED BY <1>5, <1>6 DEF Keeper

LEMMA MovedIs ==
    ASSUME NEW P, NEW R, Filed(P, R), NEW m \in R.messages,
           NEW c \in R.conversations, c.id = m.conversation
    PROVE  LET n == Moved(R.conversations, m) IN
           /\ DOMAIN n = MsgFields /\ n.id = m.id /\ n.sender = m.sender
           /\ n.conversation = Keeper(R.conversations, c).id
<1>1. (CHOOSE d \in R.conversations : d.id = m.conversation) = c
  BY DEF Filed
<1>2. DOMAIN m = MsgFields
  BY DEF Filed, InOne
<1>3. Moved(R.conversations, m) = [m EXCEPT !.conversation = Keeper(R.conversations, c).id]
  BY <1>1 DEF Moved
<1> QED BY <1>2, <1>3 DEF MsgFields

LEMMA MoveIs ==
    ASSUME NEW R, DOMAIN R = RowFields
    PROVE  LET Q == Rewritten(R, "move_messages") IN
           /\ Q.conversations = R.conversations
           /\ Q.messages = {Moved(R.conversations, m) : m \in R.messages}
<1> DEFINE M == {Moved(R.conversations, m) : m \in R.messages}
<1>1. Rewritten(R, "move_messages") = [R EXCEPT !.messages = M]
  BY DEF Rewritten
<1> HIDE DEF M
<1> QED BY <1>1 DEF RowFields, M

LEMMA MovesFiled ==
    ASSUME NEW P, NEW R, DOMAIN R = RowFields, Filed(P, R)
    PROVE  Filed(P, Rewritten(R, "move_messages"))
<1> DEFINE Q == Rewritten(R, "move_messages")
<1>1. /\ Q.conversations = R.conversations
      /\ Q.messages = {Moved(R.conversations, m) : m \in R.messages}
  BY MoveIs
<1> HIDE DEF Q
<1>2. \A n \in Q.messages : InOne(Q, n)
  <2> SUFFICES ASSUME NEW m \in R.messages PROVE InOne(Q, Moved(R.conversations, m))
    BY <1>1
  <2>1. PICK c \in R.conversations : c.id = m.conversation
    BY DEF Filed, InOne
  <2>2. Keeper(R.conversations, c) \in R.conversations
    BY KeeperIs
  <2> QED BY <1>1, <2>1, <2>2, MovedIs DEF InOne
<1> QED BY <1>1, <1>2 DEF Filed, Q

LEMMA DropIs ==
    ASSUME NEW R
    PROVE  /\ Rewritten(R, "drop_duplicates") =
                 WithoutConversations(R, Duplicates(R.conversations))
           /\ Rewritten(R, "delete_peer_chats") =
                 WithoutConversations(R, {c \in R.conversations : c.seller = NoStore})
           /\ Emptied(R, "conversations") = WithoutConversations(R, R.conversations)
           /\ Duplicates(R.conversations) \subseteq R.conversations
BY DEF Rewritten, Emptied, Duplicates

(* A statement takes the conversations from what they hold before it to    *)
(* what they hold after it, and every message stays in a conversation.     *)
LEMMA FiledRan ==
    ASSUME Control, NEW j \in Jobs, Ran(j), NEW P, Filed(P, View(j).rows),
           JobFits(job[j], View(j).rows)
    PROVE  Filed(P, View(j)'.rows) /\ JobFits(job'[j], View(j)'.rows)
<1> DEFINE q == job[j]
           p == job'[j]
           R == View(j).rows
           Q == View(j)'.rows
<1>1. /\ q.step \in 1 .. 13 /\ q.k \in Nat /\ q.k >= 1 /\ (q.up \/ ~q.up)
      /\ p.up = q.up /\ p.step = q.step /\ p.k = q.k + 1
      /\ DOMAIN R = RowFields /\ q.k <= Size(Script(q))
  BY LivePlaced, LatestIs DEF Ran, Control, View, Seen, IsBase
<1>2. Filed(P, R) /\ JobFits(q, R)
  OBVIOUS
<1>3. /\ q.up /\ q.step = 11 => q.k <= 18
      /\ ~q.up /\ q.step = 11 => q.k <= 17
  BY <1>1, TheyLock DEF Script
<1>4. /\ q.up /\ q.step = 11 /\ q.k = 4 => Q = Rewritten(R, "backfill_participants")
      /\ q.up /\ q.step = 11 /\ q.k = 5 => Q = Rewritten(R, "move_messages")
      /\ q.up /\ q.step = 11 /\ q.k = 6 => Q = Rewritten(R, "drop_duplicates")
      /\ q.up /\ q.step = 11 /\ q.k = 17 => Q = Forgotten(R, "conversations", "buyer_id")
      /\ q.up /\ q.step = 11 /\ q.k = 18 => Q = Forgotten(R, "conversations", "seller_id")
      /\ ~q.up /\ q.step = 11 /\ q.k = 3 => Q = Rewritten(R, "restore_storefronts")
      /\ ~q.up /\ q.step = 11 /\ q.k = 4 => Q = Rewritten(R, "delete_peer_chats")
      /\ ~q.up /\ q.step = 11 /\ q.k = 14 => Q = Forgotten(R, "conversations", "participant_a_id")
      /\ ~q.up /\ q.step = 11 /\ q.k = 15 => Q = Forgotten(R, "conversations", "participant_b_id")
      /\ ~q.up /\ q.step = 11 /\ q.k = 16 => Q = Forgotten(R, "conversations", "context_seller_id")
      /\ ~q.up /\ q.step = 6 /\ q.k = 6 => Q = Emptied(R, "messages")
      /\ ~q.up /\ q.step = 6 /\ q.k = 7 => Q = Emptied(R, "conversations")
  BY UpDoes, DownDoes
<1>5. \/ SameChats(Q, R)
      \/ q.up /\ q.step = 11 /\ q.k \in {4, 5, 6, 17, 18}
      \/ ~q.up /\ q.step = 11 /\ q.k \in {3, 4, 14, 15, 16}
      \/ ~q.up /\ q.step = 6 /\ q.k \in {6, 7}
  BY ChatsElsewhere
<1> HIDE DEF q, p, Q, R
<1> SUFFICES Filed(P, Q) /\ JobFits(p, Q)
  BY DEF Q, p
<1>6. ASSUME \A c \in Q.conversations : c \in R.conversations,
             ~(q.step = 11 /\ q.up /\ q.k \in {4, 17, 18}),
             ~(q.step = 11 /\ ~q.up /\ q.k \in {3, 4, 14, 15, 16})
      PROVE  JobFits(p, Q)
  <2>1. CASE q.up
    <3>1. \A c : UpFits(q, c) => UpFits(p, c)
      BY <1>1, <1>3, <1>6, <2>1 DEF UpFits
    <3> QED BY <1>1, <1>2, <1>6, <2>1, <3>1 DEF JobFits
  <2>2. CASE ~q.up
    <3>1. \A c : DownFits(q, c) => DownFits(p, c)
      BY <1>1, <1>3, <1>6, <2>2 DEF DownFits
    <3> QED BY <1>1, <1>2, <1>6, <2>2, <3>1 DEF JobFits
  <2> QED BY <2>1, <2>2
<1>7. CASE SameChats(Q, R) /\ ~(q.step = 11 /\ q.up /\ q.k \in {4, 17, 18})
           /\ ~(q.step = 11 /\ ~q.up /\ q.k \in {3, 4, 14, 15, 16})
  BY <1>2, <1>6, <1>7 DEF SameChats, Filed, InOne
<1>8. CASE q.up /\ q.step = 11 /\ q.k = 4
  <2>1. \A c \in R.conversations : OfBuyer(c)
    BY <1>2, <1>8 DEF JobFits, UpFits
  <2>2. PICK f : /\ Maps(f, R, Q)
                 /\ \A c \in R.conversations : OfBoth(f[c])
    BY <1>1, <1>2, <1>4, <1>8, <2>1, Backfills
  <2>3. \A c \in Q.conversations : OfBoth(c)
    BY <2>2 DEF Maps
  <2> QED BY <1>1, <1>2, <1>8, <2>2, <2>3, MappedFiled DEF JobFits, UpFits
<1>9. CASE q.up /\ q.step = 11 /\ q.k = 5
  <2>1. Q.conversations = R.conversations /\ Filed(P, Q)
    BY <1>1, <1>2, <1>4, <1>9, MoveIs, MovesFiled
  <2> QED BY <1>6, <1>9, <2>1
<1>10. CASE q.up /\ q.step = 11 /\ q.k = 6
  <2>1. Q = WithoutConversations(R, Duplicates(R.conversations))
        /\ Duplicates(R.conversations) \subseteq R.conversations
    BY <1>4, <1>10, DropIs
  <2>2. Q.conversations \subseteq R.conversations /\ Filed(P, Q)
    BY <1>1, <1>2, <2>1, WithoutIs, WithoutFiled
  <2> QED BY <1>6, <1>10, <2>2
<1>11. CASE q.up /\ q.step = 11 /\ q.k = 17
  <2>1. PICK f : /\ Maps(f, R, Q)
                 /\ \A c \in R.conversations :
                       f[c]["buyer"] = NoUser /\ \A y \in ConvFields \ {"buyer"} : f[c][y] = c[y]
    BY <1>1, <1>2, <1>4, <1>11, ForgottenIs DEF Clears
  <2>2. \A c \in R.conversations : OfBoth(c)
    BY <1>2, <1>11 DEF JobFits, UpFits
  <2>3. \A c \in R.conversations : Fits(f[c], Users, Users, AnyStore, {NoUser}, Stores)
    BY <2>1, <2>2 DEF OfBoth, Fits, AnyStore, ConvFields
  <2>4. \A c \in Q.conversations : Fits(c, Users, Users, AnyStore, {NoUser}, Stores)
    BY <2>1, <2>3 DEF Maps
  <2> QED BY <1>1, <1>2, <1>11, <2>1, <2>4, MappedFiled DEF JobFits, UpFits
<1>12. CASE q.up /\ q.step = 11 /\ q.k = 18
  <2>1. PICK f : /\ Maps(f, R, Q)
                 /\ \A c \in R.conversations :
                       f[c]["seller"] = NoStore /\ \A y \in ConvFields \ {"seller"} : f[c][y] = c[y]
    BY <1>1, <1>2, <1>4, <1>12, ForgottenIs DEF Clears
  <2>2. \A c \in R.conversations : Fits(c, Users, Users, AnyStore, {NoUser}, Stores)
    BY <1>2, <1>12 DEF JobFits, UpFits
  <2>3. \A c \in R.conversations : OfPeers(f[c])
    BY <2>1, <2>2 DEF OfPeers, Fits, ConvFields
  <2>4. \A c \in Q.conversations : OfPeers(c)
    BY <2>1, <2>3 DEF Maps
  <2> QED BY <1>1, <1>2, <1>12, <2>1, <2>4, MappedFiled DEF JobFits, UpFits
<1>13. CASE ~q.up /\ q.step = 11 /\ q.k = 3
  <2>1. \A c \in R.conversations : OfPeers(c)
    BY <1>2, <1>13 DEF JobFits, DownFits
  <2>2. PICK f : /\ Maps(f, R, Q)
                 /\ \A c \in R.conversations :
                        /\ f[c].a = c.a /\ f[c].b = c.b /\ f[c].context = c.context
                        /\ f[c].buyer = c.a /\ f[c].seller = c.context
    BY <1>1, <1>2, <1>4, <1>13, <2>1, Restores
  <2>3. \A c \in R.conversations : Fits(f[c], Users, Users, AnyStore, Users, AnyStore)
    BY <2>1, <2>2 DEF OfPeers, Fits
  <2>4. \A c \in Q.conversations : Fits(c, Users, Users, AnyStore, Users, AnyStore)
    BY <2>2, <2>3 DEF Maps
  <2> QED BY <1>1, <1>2, <1>13, <2>2, <2>4, MappedFiled DEF JobFits, DownFits
<1>14. CASE ~q.up /\ q.step = 11 /\ q.k = 4
  <2> DEFINE X == {c \in R.conversations : c.seller = NoStore}
  <2>1. Q = WithoutConversations(R, X) /\ X \subseteq R.conversations
    BY <1>4, <1>14, DropIs
  <2>2. Q.conversations = R.conversations \ X /\ Filed(P, Q)
    BY <1>1, <1>2, <2>1, WithoutIs, WithoutFiled
  <2>3. \A c \in R.conversations : Fits(c, Users, Users, AnyStore, Users, AnyStore)
    BY <1>2, <1>14 DEF JobFits, DownFits
  <2>4. \A c \in Q.conversations : Fits(c, Users, Users, AnyStore, Users, Stores)
    BY <2>2, <2>3 DEF Fits, AnyStore
  <2> QED BY <1>1, <1>14, <2>2, <2>4 DEF JobFits, DownFits
<1>15. CASE ~q.up /\ q.step = 11 /\ q.k \in {14, 15, 16}
  <2>1. PICK x \in {"a", "b", "context"} : \E v :
            /\ q.k = 14 => x = "a" /\ v = NoUser
            /\ q.k = 15 => x = "b" /\ v = NoUser
            /\ q.k = 16 => x = "context" /\ v = NoStore
            /\ Clears(R, Q, x, v)
    BY <1>1, <1>2, <1>4, <1>15, ForgottenIs
  <2>8. PICK v :
            /\ q.k = 14 => x = "a" /\ v = NoUser
            /\ q.k = 15 => x = "b" /\ v = NoUser
            /\ q.k = 16 => x = "context" /\ v = NoStore
            /\ Clears(R, Q, x, v)
    BY <2>1
  <2>2. PICK f : /\ Maps(f, R, Q)
                 /\ \A c \in R.conversations :
                       f[c][x] = v /\ \A y \in ConvFields \ {x} : f[c][y] = c[y]
    BY <2>8 DEF Clears
  <2>3. \A c \in R.conversations : DownFits(q, c)
    BY <1>2, <1>15 DEF JobFits
  <2>4. \A c \in R.conversations : DownFits(p, f[c])
    <3> SUFFICES ASSUME NEW c \in R.conversations PROVE DownFits(p, f[c])
      OBVIOUS
    <3>1. DownFits(q, c) /\ p.step = 11 /\ p.k = q.k + 1 /\ q.k \in Nat
      BY <1>1, <1>15, <2>3
    <3>2. f[c][x] = v /\ \A y \in ConvFields \ {x} : f[c][y] = c[y]
      BY <2>2
    <3>3. CASE q.k = 14
      <4>1. f[c].a = NoUser /\ f[c].b = c.b /\ f[c].context = c.context
            /\ f[c].buyer = c.buyer /\ f[c].seller = c.seller
        BY <2>8, <3>2, <3>3 DEF ConvFields
      <4> QED BY <1>15, <3>1, <3>3, <4>1 DEF DownFits, Fits
    <3>4. CASE q.k = 15
      <4>1. f[c].a = c.a /\ f[c].b = NoUser /\ f[c].context = c.context
            /\ f[c].buyer = c.buyer /\ f[c].seller = c.seller
        BY <2>8, <3>2, <3>4 DEF ConvFields
      <4> QED BY <1>15, <3>1, <3>4, <4>1 DEF DownFits, Fits
    <3>5. CASE q.k = 16
      <4>1. f[c].a = c.a /\ f[c].b = c.b /\ f[c].context = NoStore
            /\ f[c].buyer = c.buyer /\ f[c].seller = c.seller
        BY <2>8, <3>2, <3>5 DEF ConvFields
      <4> QED BY <1>15, <3>1, <3>5, <4>1 DEF DownFits, Fits
    <3> QED BY <1>15, <3>3, <3>4, <3>5
  <2>5. \A c \in Q.conversations : DownFits(p, c)
    BY <2>2, <2>4 DEF Maps
  <2> QED BY <1>1, <1>2, <1>15, <2>2, <2>5, MappedFiled DEF JobFits
<1>16. CASE ~q.up /\ q.step = 6 /\ q.k = 6
  <2>1. Q.conversations = R.conversations /\ Q.messages = {}
    BY <1>1, <1>4, <1>16 DEF Emptied, RowFields
  <2>2. Filed(P, Q)
    BY <1>2, <2>1 DEF Filed
  <2> QED BY <1>6, <1>16, <2>1, <2>2
<1>17. CASE ~q.up /\ q.step = 6 /\ q.k = 7
  <2>1. Q = WithoutConversations(R, R.conversations)
    BY <1>4, <1>17, DropIs
  <2>2. Q.conversations \subseteq R.conversations /\ Filed(P, Q)
    BY <1>1, <1>2, <2>1, WithoutIs, WithoutFiled
  <2> QED BY <1>6, <1>17, <2>2
<1> QED BY <1>5, <1>7, <1>8, <1>9, <1>10, <1>11, <1>12, <1>13, <1>14, <1>15, <1>16, <1>17

LEMMA JobFitsMoves ==
    ASSUME Control, NEW j \in Jobs, Moves(j), NEW R, JobFits(job[j], R)
    PROVE  JobFits(job'[j], R)
<1> DEFINE q == job[j]
           p == job'[j]
<1>1. /\ q.step \in 1 .. 13 /\ q.k = Size(Script(q)) + 1 /\ (q.up \/ ~q.up)
      /\ p.up = q.up /\ p.step \in 1 .. 13 /\ Size(Script(q)) \in Nat
      /\ \/ p.step = q.step /\ p.k = q.k
         \/ p.k = 1 /\ p.step = (IF q.up THEN q.step + 1 ELSE q.step - 1)
  BY LivePlaced, LatestIs DEF Moves
<1>2. /\ q.up /\ q.step = 11 => q.k = 19
      /\ ~q.up /\ q.step = 11 => q.k = 18
  BY <1>1, TheyLock DEF Script
<1> HIDE DEF q, p
<1>3. CASE q.up
  <2>1. \A c : UpFits(q, c) => UpFits(p, c)
    BY <1>1, <1>2, <1>3 DEF UpFits
  <2> QED BY <1>1, <1>3, <2>1 DEF JobFits, q, p
<1>4. CASE ~q.up
  <2>1. \A c : DownFits(q, c) => DownFits(p, c)
    BY <1>1, <1>2, <1>4 DEF DownFits, OfBuyer, Fits
  <2> QED BY <1>1, <1>4, <2>1 DEF JobFits, q, p
<1> QED BY <1>1, <1>3, <1>4

(* What is committed is what its revision's program expects.               *)
LEMMA JobFitsCommits ==
    ASSUME Control, NEW j \in Jobs, Commits(j), NEW R, JobFits(job[j], R)
    PROVE  FitsAt(job[j].goal, R)
<1> DEFINE q == job[j]
<1>1. /\ q.step = LastStep(q) /\ q.k = Size(Script(q)) + 1 /\ q.step \in 1 .. 13
      /\ q.goal \in 0 .. 13 /\ (q.up => q.goal = q.step) /\ (~q.up => q.goal + 1 = q.step)
      /\ Size(Script(q)) \in Nat /\ (q.up \/ ~q.up)
  BY LivePlaced, LatestIs DEF Commits, Placed, LastStep
<1>2. /\ q.up /\ q.step = 11 => q.k = 19
      /\ ~q.up /\ q.step = 11 => q.k = 18
  BY <1>1, TheyLock DEF Script
<1>3. JobFits(q, R)
  OBVIOUS
<1> HIDE DEF q
<1>4. CASE q.up
  <2>1. \A c : UpFits(q, c) => IF q.goal >= 11 THEN OfPeers(c) ELSE OfBuyer(c)
    BY <1>1, <1>2, <1>4 DEF UpFits
  <2> QED BY <1>3, <1>4, <2>1 DEF JobFits, FitsAt, q
<1>5. CASE ~q.up
  <2>1. \A c : DownFits(q, c) => IF q.goal >= 11 THEN OfPeers(c) ELSE OfBuyer(c)
    BY <1>1, <1>2, <1>5 DEF DownFits, OfBuyer, Fits
  <2> QED BY <1>3, <1>5, <2>1 DEF JobFits, FitsAt, q
<1> QED BY <1>1, <1>4, <1>5

LEMMA GrabbedStays ==
    ASSUME Control, NEW j \in Jobs, Ran(j) \/ Moves(j), Grabbed(job[j])
    PROVE  Grabbed(job'[j])
<1>1. /\ job[j].step \in 1 .. 13 /\ job[j].k \in Nat /\ (job[j].up \/ ~job[j].up)
      /\ job[j].from \in 0 .. 13
  BY LivePlaced, LatestIs DEF Ran, Moves
<1>2. /\ job'[j].up = job[j].up /\ job'[j].from = job[j].from
      /\ \/ job'[j].step = job[j].step /\ job'[j].k \in {job[j].k, job[j].k + 1}
         \/ job'[j].step = (IF job[j].up THEN job[j].step + 1 ELSE job[j].step - 1)
  BY DEF Ran, Moves
<1> QED BY <1>1, <1>2 DEF Grabbed, Passed

(* As long as it has not locked the conversations it leaves them.          *)
LEMMA Ungrabbed ==
    ASSUME Control, NEW j \in Jobs, Ran(j), ~Grabbed(job'[j])
    PROVE  View(j)'.rows.conversations = View(j).rows.conversations
<1> DEFINE q == job[j]
           R == View(j).rows
           Q == View(j)'.rows
<1>1. /\ q.step \in 1 .. 13 /\ q.k \in Nat /\ (q.up \/ ~q.up) /\ DOMAIN R = RowFields
      /\ q.from \in 0 .. 13 /\ (~q.up => q.step <= q.from) /\ (q.up => q.from < q.step)
      /\ job'[j].up = q.up /\ job'[j].step = q.step /\ job'[j].k = q.k + 1
      /\ job'[j].from = q.from
  BY LivePlaced, LatestIs DEF Ran, Control, View, Seen, IsBase
<1>2. \/ SameChats(Q, R)
      \/ q.step = 11 /\ q.k >= 3
      \/ ~q.up /\ q.step = 6 /\ q.k = 6
      \/ ~q.up /\ q.step = 6 /\ q.k = 7
  BY ChatsElsewhere
<1>3. ~(q.step = 11 /\ q.k >= 3) /\ ~(~q.up /\ q.step = 6 /\ q.k = 7)
  BY <1>1 DEF Grabbed, Passed
<1>4. ~q.up /\ q.step = 6 /\ q.k = 6 => Q = Emptied(R, "messages")
  BY DownDoes
<1> HIDE DEF Q, R
<1>5. Q = Emptied(R, "messages") => Q.conversations = R.conversations
  BY <1>1 DEF Emptied, RowFields
<1> QED BY <1>2, <1>3, <1>4, <1>5 DEF SameChats, Q, R

LEMMA ChatsWorks ==
    ASSUME Control, Chats, NEW j \in Jobs, Works(j), past' = past
    PROVE  Chats'
<1>1. CASE rev' = rev /\ db' = db
           /\ \A i \in Jobs : Live(i)' => Stayed(i) \/ Began(i) \/ Ran(i) \/ Moves(i)
  <2> SUFFICES ASSUME NEW i \in Jobs, Live(i)'
               PROVE  /\ Filed(past, View(i)'.rows) /\ JobFits(job'[i], View(i)'.rows)
                      /\ Grabbed(job'[i]) \/ View(i)'.rows.conversations = db.rows.conversations
    BY <1>1 DEF Chats
  <2>1. CASE Stayed(i)
    BY <1>1, <2>1, ViewKept DEF Stayed, Chats
  <2>2. CASE Began(i)
    <3> DEFINE p == job'[i]
    <3>1. View(i)' = db
      BY <1>1, <2>2 DEF Began, View, Seen
    <3>2. ~Grabbed(p)
      BY <2>2, NotPassedYet DEF Grabbed
    <3>3. /\ rev \in 0 .. 13 /\ p.step \in 1 .. 13 /\ p.k = 1 /\ p.from = rev
          /\ (p.up \/ ~p.up) /\ (p.up => p.step = rev + 1) /\ (~p.up => p.step = rev)
      BY <2>2, LatestIs DEF Began, Control
    <3>4. JobFits(p, db.rows) <=> FitsAt(rev, db.rows)
      <4> HIDE DEF p
      <4> QED BY <3>2, <3>3, FreeFits
    <3> QED BY <3>1, <3>4 DEF Chats
  <2>3. CASE Ran(i)
    <3>1. Filed(past, View(i).rows) /\ JobFits(job[i], View(i).rows)
          /\ (Grabbed(job[i]) \/ View(i).rows.conversations = db.rows.conversations)
      BY <2>3 DEF Ran, Chats
    <3> QED BY <2>3, <3>1, FiledRan, GrabbedStays, Ungrabbed
  <2>4. CASE Moves(i)
    <3>1. View(i)' = View(i)
      BY <1>1, <2>4, ViewKept DEF Moves
    <3>2. Filed(past, View(i).rows) /\ JobFits(job[i], View(i).rows)
          /\ (Grabbed(job[i]) \/ View(i).rows.conversations = db.rows.conversations)
      BY <2>4 DEF Moves, Chats
    <3> QED BY <2>4, <3>1, <3>2, JobFitsMoves, GrabbedStays
  <2> QED BY <1>1, <2>1, <2>2, <2>3, <2>4
<1>2. CASE Commits(j)
  <2>1. /\ Live(j) /\ rev' = job[j].goal /\ db' = View(j) /\ \A i \in Jobs : ~Live(i)'
    BY <1>2 DEF Commits
  <2>2. FitsAt(job[j].goal, View(j).rows) /\ Filed(past, View(j).rows)
    BY <1>2, <2>1, JobFitsCommits DEF Chats
  <2> QED BY <2>1, <2>2 DEF Chats
<1> QED BY <1>1, <1>2 DEF Works

(* A new conversation, a new message.                                      *)
LEMMA OpenedFiled ==
    ASSUME NEW P, NEW N, NEW c, NEW R, NEW Q,
           Filed(P, R), IsFiniteSet(P.opened),
           N.opened = P.opened \cup {c}, DOMAIN c = ConvFields,
           c.id = Cardinality(P.opened) + 1,
           \A d \in P.opened : d.id \in 1 .. Cardinality(P.opened),
           Q.conversations = R.conversations \cup {c}, Q.messages = R.messages
    PROVE  /\ Filed(N, Q) /\ IsFiniteSet(N.opened)
           /\ Cardinality(N.opened) = Cardinality(P.opened) + 1
           /\ \A d \in N.opened : d.id \in 1 .. Cardinality(N.opened)
<1>1. Cardinality(P.opened) \in Nat
  BY FS_CardinalityType
<1>2. c \notin P.opened
  BY <1>1
<1>3. IsFiniteSet(N.opened) /\ Cardinality(N.opened) = Cardinality(P.opened) + 1
  <2>1. /\ IsFiniteSet(P.opened \cup {c})
        /\ Cardinality(P.opened \cup {c}) = Cardinality(P.opened) + 1
    BY <1>2, FS_AddElement
  <2> QED BY <2>1
<1>4. \A d \in N.opened : d.id \in 1 .. Cardinality(N.opened)
  BY <1>1, <1>3
<1>5. \A d \in Q.conversations : IsConv(N, d)
  BY <1>1, <1>3 DEF Filed, IsConv
<1>6. \A d, e \in Q.conversations : d.id = e.id => d = e
  BY <1>1 DEF Filed, IsConv
<1>7. \A m \in Q.messages : InOne(Q, m)
  BY DEF Filed, InOne
<1> QED BY <1>3, <1>4, <1>5, <1>6, <1>7 DEF Filed

LEMMA SaidFiled ==
    ASSUME NEW P, NEW N, NEW m, NEW R, NEW Q, NEW c \in R.conversations,
           Filed(P, R), N.opened = P.opened, DOMAIN m = MsgFields, m.conversation = c.id,
           Q.conversations = R.conversations, Q.messages = R.messages \cup {m}
    PROVE  Filed(N, Q)
<1>1. \A n \in Q.messages : InOne(Q, n)
  BY DEF Filed, InOne
<1> QED BY <1>1 DEF Filed, IsConv

LEMMA ChatsOpen ==
    ASSUME Control, Held, IsPast, Chats, NEW c, Open(c), DOMAIN c = ConvFields,
           c.id = Cardinality(past.opened) + 1,
           IF rev >= 11 THEN OfPeers(c) ELSE OfBuyer(c)
    PROVE  Chats'
<1>1. /\ SameButRows /\ Unlocked("conversations")
      /\ past' = [past EXCEPT !.opened = @ \cup {c}]
      /\ db'.rows = [db.rows EXCEPT !.conversations = db.rows.conversations \cup {c}]
      /\ \A j \in Jobs : View(j)'.rows = [View(j).rows EXCEPT !.conversations = View(j).rows.conversations \cup {c}]
  BY WroteOpen
<1>2. /\ rev' = rev
      /\ \A j \in Jobs : /\ (Live(j)' <=> Live(j)) /\ SameJob(job'[j], job[j])
                         /\ DOMAIN View(j).rows = RowFields
      /\ DOMAIN db.rows = RowFields
  BY <1>1 DEF SameButRows, SameJob, Live, Busy, IsBase
<1>3. past'.opened = past.opened \cup {c}
  BY <1>1 DEF IsPast
<1>4. db'.rows.conversations = db.rows.conversations \cup {c} /\ db'.rows.messages = db.rows.messages
  BY <1>1, <1>2 DEF RowFields
<1>5. ASSUME NEW j \in Jobs
      PROVE  /\ View(j)'.rows.conversations = View(j).rows.conversations \cup {c}
             /\ View(j)'.rows.messages = View(j).rows.messages
  BY <1>1, <1>2 DEF RowFields
<1>6. /\ IsFiniteSet(past'.opened) /\ Filed(past', db'.rows)
      /\ \A d \in past'.opened : d.id \in 1 .. Cardinality(past'.opened)
  BY <1>3, <1>4, OpenedFiled DEF Chats
<1>7. FitsAt(rev, db'.rows)
  BY <1>4 DEF Chats, FitsAt
<1>8. ASSUME NEW j \in Jobs, Live(j)
      PROVE  /\ Filed(past', View(j)'.rows) /\ JobFits(job'[j], View(j)'.rows)
             /\ View(j)'.rows.conversations = db'.rows.conversations
  <2>1. ~Grabbed(job[j])
    BY <1>1, <1>8, NotGrabbed
  <2>2. Filed(past, View(j).rows) /\ View(j).rows.conversations = db.rows.conversations
    BY <1>8, <2>1 DEF Chats
  <2>3. Filed(past', View(j)'.rows)
    BY <1>3, <1>5, <2>2, OpenedFiled DEF Chats
  <2>4. View(j)'.rows.conversations = db'.rows.conversations
    BY <1>4, <1>5, <2>2
  <2>5. FitsAt(rev, View(j)'.rows)
    BY <1>7, <2>4 DEF FitsAt
  <2>6. ~Grabbed(job'[j])
    BY <1>2, <2>1 DEF SameJob, Grabbed, Passed
  <2>7. /\ rev \in 0 .. 13 /\ job'[j].step \in 1 .. 13 /\ job'[j].k \in Nat /\ job'[j].k >= 1
        /\ job'[j].from = rev /\ (job'[j].up \/ ~job'[j].up)
        /\ (job'[j].up => rev < job'[j].step) /\ (~job'[j].up => job'[j].step <= rev)
    BY <1>2, <1>8, LivePlaced, LatestIs DEF SameJob
  <2>8. JobFits(job'[j], View(j)'.rows) <=> FitsAt(rev, View(j)'.rows)
    BY <2>6, <2>7, FreeFits
  <2> QED BY <2>3, <2>4, <2>5, <2>8
<1> QED BY <1>2, <1>6, <1>7, <1>8 DEF Chats

LEMMA ChatsSay ==
    ASSUME Control, Held, IsPast, Chats, NEW c \in db.rows.conversations, NEW u, Say(c, u)
    PROVE  Chats'
<1> DEFINE m == [id |-> Cardinality(past.said) + 1, conversation |-> c.id, sender |-> u]
           e == [id |-> m.id, sender |-> u, to |-> Members(c), conversation |-> c.id,
                 store |-> IF c.seller = NoStore THEN c.context ELSE c.seller]
<1>1. /\ SameButRows /\ Unlocked("conversations")
      /\ past' = [past EXCEPT !.said = @ \cup {e}]
      /\ db'.rows = [db.rows EXCEPT !.messages = db.rows.messages \cup {m}]
      /\ \A j \in Jobs : View(j)'.rows = [View(j).rows EXCEPT !.messages = View(j).rows.messages \cup {m}]
  BY WroteSay
<1>0. DOMAIN m = MsgFields /\ m.conversation = c.id
  BY DEF MsgFields
<1> HIDE DEF m, e
<1>2. /\ rev' = rev
      /\ \A j \in Jobs : /\ (Live(j)' <=> Live(j)) /\ SameJob(job'[j], job[j])
                         /\ DOMAIN View(j).rows = RowFields
      /\ DOMAIN db.rows = RowFields
  BY <1>1 DEF SameButRows, SameJob, Live, Busy, IsBase
<1>3. past'.opened = past.opened
  BY <1>1 DEF IsPast
<1>4. /\ db'.rows.conversations = db.rows.conversations
      /\ db'.rows.messages = db.rows.messages \cup {m}
  BY <1>1, <1>2 DEF RowFields
<1>5. ASSUME NEW j \in Jobs
      PROVE  /\ View(j)'.rows.conversations = View(j).rows.conversations
             /\ View(j)'.rows.messages = View(j).rows.messages \cup {m}
  BY <1>1, <1>2 DEF RowFields
<1>6. Filed(past', db'.rows)
  BY <1>0, <1>3, <1>4, SaidFiled DEF Chats
<1>8. ASSUME NEW j \in Jobs, Live(j)
      PROVE  /\ Filed(past', View(j)'.rows) /\ JobFits(job'[j], View(j)'.rows)
             /\ View(j)'.rows.conversations = db'.rows.conversations
  <2>1. ~Grabbed(job[j])
    BY <1>1, <1>8, NotGrabbed
  <2>2. Filed(past, View(j).rows) /\ View(j).rows.conversations = db.rows.conversations
        /\ JobFits(job[j], View(j).rows)
    BY <1>8, <2>1 DEF Chats
  <2>3. Filed(past', View(j)'.rows)
    BY <1>0, <1>3, <1>5, <2>2, SaidFiled
  <2>4. JobFits(job'[j], View(j)'.rows)
    BY <1>2, <1>5, <2>2 DEF JobFits, UpFits, DownFits, SameJob
  <2> QED BY <1>4, <1>5, <2>2, <2>3, <2>4
<1> QED BY <1>2, <1>3, <1>4, <1>6, <1>8 DEF Chats, FitsAt

LEMMA ChatsWrites ==
    ASSUME Control, Held, IsPast, Chats, Programs
    PROVE  Chats'
<1>1. /\ SameButRows
      /\ \/ \E u \in Users, s \in Stores : Contact(u, s)
         \/ \E u, v \in Users, s \in Stores \cup {NoStore} : Converse(u, v, s)
         \/ \E c \in db.rows.conversations : \E u \in Members(c) : Say(c, u)
         \/ /\ SameChats(db'.rows, db.rows)
            /\ past'.opened = past.opened /\ past'.said = past.said
            /\ \A j \in Jobs : SameChats(View(j)'.rows, View(j).rows)
  BY Writers
<1>2. ASSUME NEW u \in Users, NEW s \in Stores, Contact(u, s) PROVE Chats'
  <2> DEFINE d == [Conversation EXCEPT !.buyer = u, !.seller = s]
  <2>1. Open(d) /\ ~(rev >= 11)
    BY <1>2 DEF Contact
  <2>2. DOMAIN d = ConvFields /\ d.id = Cardinality(past.opened) + 1 /\ OfBuyer(d)
    BY DEF Conversation, ConvFields, OfBuyer, Fits
  <2> HIDE DEF d
  <2> QED BY <2>1, <2>2, ChatsOpen
<1>3. ASSUME NEW u \in Users, NEW v \in Users, NEW s \in Stores \cup {NoStore}, Converse(u, v, s)
      PROVE  Chats'
  <2> DEFINE d == [Conversation EXCEPT !.a = u, !.b = v, !.context = s]
  <2>1. Open(d) /\ rev >= 11
    BY <1>3 DEF Converse
  <2>2. DOMAIN d = ConvFields /\ d.id = Cardinality(past.opened) + 1 /\ OfPeers(d)
    BY DEF Conversation, ConvFields, OfPeers, Fits, AnyStore
  <2> HIDE DEF d
  <2> QED BY <2>1, <2>2, ChatsOpen
<1>4. CASE \E c \in db.rows.conversations : \E u \in Members(c) : Say(c, u)
  BY <1>4, ChatsSay
<1>5. CASE /\ SameChats(db'.rows, db.rows)
           /\ past'.opened = past.opened /\ past'.said = past.said
           /\ \A j \in Jobs : SameChats(View(j)'.rows, View(j).rows)
  <2>1. /\ rev' = rev
        /\ \A j \in Jobs : (Live(j)' <=> Live(j)) /\ SameJob(job'[j], job[j])
    BY <1>1 DEF SameButRows, SameJob, Live, Busy
  <2>2. \A R, Q : SameChats(Q, R) /\ Filed(past, R) => Filed(past', Q)
    BY <1>5 DEF SameChats, Filed, IsConv, InOne
  <2>3. \A R, Q : SameChats(Q, R) /\ FitsAt(rev, R) => FitsAt(rev, Q)
    BY DEF SameChats, FitsAt
  <2>4. ASSUME NEW j \in Jobs, JobFits(job[j], View(j).rows) PROVE JobFits(job'[j], View(j)'.rows)
    BY <1>5, <2>1, <2>4 DEF SameChats, JobFits, UpFits, DownFits, SameJob
  <2>5. \A j \in Jobs : Grabbed(job[j]) => Grabbed(job'[j])
    BY <2>1 DEF SameJob, Grabbed, Passed
  <2> QED BY <1>5, <2>1, <2>2, <2>3, <2>4, <2>5 DEF Chats, SameChats
<1> QED BY <1>1, <1>2, <1>3, <1>4, <1>5

LEMMA ChatsInit == Init => Chats
<1> SUFFICES ASSUME Init PROVE Chats
  OBVIOUS
<1>1. db.rows = NoRows /\ rev = 0 /\ past.opened = {} /\ \A j \in Jobs : ~Live(j)
  BY EmptyIs, IdleIs DEF Init, Live, Busy
<1>2. db.rows.conversations = {} /\ db.rows.messages = {}
  BY <1>1 DEF NoRows
<1> QED BY <1>1, <1>2, FS_EmptySet DEF Chats, Filed, FitsAt

LEMMA ChatsStep == Orderly /\ Chats /\ [Next]_vars => Chats'
<1> SUFFICES ASSUME Orderly, Chats, [Next]_vars PROVE Chats'
  OBVIOUS
<1>1. CASE Programs
  BY <1>1, ChatsWrites DEF Orderly
<1>2. CASE \E j \in Jobs : Alembic(j)
  BY <1>2, AlembicWorks, ChatsWorks DEF Orderly
<1>3. CASE UNCHANGED vars
  BY <1>3 DEF vars, Chats, Live, View, Seen
<1> QED BY <1>1, <1>2, <1>3 DEF Next, Done

-----------------------------------------------------------------------------
(* Types *)

Kinds == {"table", "column", "required", "index", "unique", "constraint", "reference", "numeric"}
OfKinds(S) == \A o \in S : o.kind \in Kinds
Kinded == OfKinds(db.schema) /\ \A j \in Jobs : Live(j) => OfKinds(View(j).schema)

LEMMA AlteredKinds ==
    ASSUME NEW S, NEW s, OfKinds(S)
    PROVE  OfKinds(Altered(S, s))
<1>1. \A kind, t, name, cols : Object(kind, t, name, cols).kind = kind
  BY DEF Object
<1>2. \A t, c : Table(t).kind = "table" /\ Column(t, c).kind = "column" /\ Required(t, c).kind = "required"
  BY DEF Object, Table, Column, Required
<1> USE DEF OfKinds, Kinds
<1> DEFINE References == {Object("reference", s.table, ref[2], {ref[1]}) : ref \in s.refs}
           Uniques == {Object("unique", s.table, u[1], u[2]) : u \in s.uniques}
           Cs == {Column(s.table, c) : c \in s.cols}
           Rs == {Required(s.table, c) : c \in s.required}
<1>9. OfKinds(References) /\ OfKinds(Uniques) /\ OfKinds(Cs) /\ OfKinds(Rs)
  <2>1. OfKinds(References)
    BY DEF Object
  <2>2. OfKinds(Uniques)
    BY DEF Object
  <2>3. OfKinds(Cs)
    BY DEF Column, Object
  <2>4. OfKinds(Rs)
    BY DEF Required, Object
  <2> QED BY <2>1, <2>2, <2>3, <2>4
<1>3. CASE s.op = "create_table"
  <2>1. Altered(S, s) = S \cup {Table(s.table)} \cup Cs \cup References \cup Rs \cup Uniques
    BY <1>3 DEF Altered
  <2>2. OfKinds({Table(s.table)})
    BY <1>2
  <2> HIDE DEF References, Uniques, Cs, Rs
  <2> QED BY <1>9, <2>1, <2>2
<1>4. CASE s.op = "add_foreign_key"
  <2> DEFINE o == Object("constraint", s.table, s.name, s.cols)
  <2>1. Altered(S, s) = S \/ Altered(S, s) = S \cup {o} \cup References
    BY <1>4 DEF Altered
  <2>2. OfKinds({o})
    BY <1>1
  <2> HIDE DEF References, o
  <2> QED BY <1>9, <2>1, <2>2
<1>6. CASE s.op \in {"drop_table", "drop_cascade", "drop_column", "drop_object", "to_double"}
  <2>1. Altered(S, s) \subseteq S
    BY <1>6 DEF Altered
  <2> QED BY <2>1
<1>7. CASE s.op \in {"add_column", "set_not_null", "create_index", "create_unique", "add_check",
                     "to_numeric"}
  BY <1>1, <1>2, <1>7 DEF Altered
<1>8. CASE s.op \notin {"create_table", "add_foreign_key", "drop_table", "drop_cascade",
                        "drop_column", "drop_object", "to_double", "add_column", "set_not_null",
                        "create_index", "create_unique", "add_check", "to_numeric"}
  <2>1. Altered(S, s) = S
    BY <1>8 DEF Altered
  <2> QED BY <2>1
<1> QED BY <1>3, <1>4, <1>6, <1>7, <1>8

LEMMA KindedStep == Orderly /\ Kinded /\ [Next]_vars => Kinded'
<1> SUFFICES ASSUME Orderly, Kinded, [Next]_vars PROVE Kinded'
  OBVIOUS
<1>1. CASE Programs
  <2>1. SameButRows
    BY <1>1, ProgramsKeep DEF Orderly
  <2>2. \A j \in Jobs : Live(j)' <=> Live(j)
    BY <2>1 DEF SameButRows, SameJob, Live, Busy
  <2> QED BY <2>1, <2>2 DEF SameButRows, Kinded
<1>2. ASSUME NEW j \in Jobs, Alembic(j) PROVE Kinded'
  <2>1. Works(j)
    BY <1>2, AlembicWorks DEF Orderly
  <2>2. CASE rev' = rev /\ db' = db
             /\ \A i \in Jobs : Live(i)' => Stayed(i) \/ Began(i) \/ Ran(i) \/ Moves(i)
    <3> SUFFICES ASSUME NEW i \in Jobs, Live(i)' PROVE OfKinds(View(i)'.schema)
      BY <2>2 DEF Kinded
    <3>1. CASE Stayed(i)
      BY <2>2, <3>1, ViewKept DEF Stayed, Kinded, Orderly
    <3>2. CASE Began(i)
      <4>1. View(i)' = db
        BY <2>2, <3>2 DEF Began, View, Seen
      <4> QED BY <4>1 DEF Kinded
    <3>3. CASE Ran(i)
      BY <3>3, AlteredKinds DEF Ran, Kinded
    <3>4. CASE Moves(i)
      <4>1. View(i)' = View(i)
        BY <2>2, <3>4, ViewKept DEF Moves, Orderly
      <4> QED BY <3>4, <4>1 DEF Moves, Kinded
    <3> QED BY <2>2, <3>1, <3>2, <3>3, <3>4
  <2>3. CASE Commits(j)
    BY <2>3 DEF Commits, Kinded
  <2> QED BY <2>1, <2>2, <2>3 DEF Works
<1>3. CASE UNCHANGED vars
  BY <1>3 DEF vars, Kinded, Live, View, Seen
<1> QED BY <1>1, <1>2, <1>3 DEF Next, Done

(* The columns of a conversation hold what their types allow and every     *)
(* message is in a conversation, whatever the scripts did to both.         *)
THEOREM TypesHold == Spec => []TypeOK
<1>1. Init => Orderly /\ Chats /\ Kinded
  <2>1. Init => Kinded
    BY EmptyIs, IdleIs DEF Init, Kinded, OfKinds, Live, Busy
  <2> QED BY <2>1, OrderlyInit, ChatsInit
<1>2. (Orderly /\ Chats /\ Kinded) /\ [Next]_vars => (Orderly /\ Chats /\ Kinded)'
  BY OrderlyStep, ChatsStep, KindedStep
<1>3. Orderly /\ Chats /\ Kinded => TypeOK
  <2> SUFFICES ASSUME Orderly, Chats, Kinded PROVE TypeOK
    OBVIOUS
  <2>1. \A c \in db.rows.conversations :
          /\ c.a \in Users \cup {NoUser} /\ c.b \in Users \cup {NoUser}
          /\ c.buyer \in Users \cup {NoUser}
          /\ c.seller \in Stores \cup {NoStore} /\ c.context \in Stores \cup {NoStore}
    BY DEF Chats, FitsAt, OfPeers, OfBuyer, Fits, AnyStore
  <2>2. \A m \in db.rows.messages : \E c \in db.rows.conversations : m.conversation = c.id
    BY DEF Chats, Filed, InOne
  <2>3. \A o \in db.schema : o.kind \in {"table", "column", "required", "index", "unique",
                                         "constraint", "reference", "numeric"}
    BY DEF Kinded, OfKinds, Kinds
  <2> QED BY <2>1, <2>2, <2>3 DEF TypeOK, Orderly, Control
<1> QED BY <1>1, <1>2, <1>3, PTL DEF Spec

-----------------------------------------------------------------------------
(* What was said                                                           *)

(* n is the row of message m, in conversation c.                           *)
Holds(n, m, c) ==
    n.id = m.id /\ n.sender = m.sender /\ n.conversation = c.id /\ Members(c) = m.to
InPlace(m, c) == c.id = m.conversation /\ c.seller = m.store /\ m.sender \in m.to
(* Its writer may review the storefront, or is spared by an older          *)
(* conversation.                                                           *)
Earlier(P, m) ==
    \E d \in P.opened : d.id < m.conversation /\ d.buyer = Owner[m.store] /\ Owner[d.seller] = m.sender
Eligible(P, c, m) ==
    m.store = NoStore \/ m.sender = Owner[m.store] \/ c.context = m.store \/ Earlier(P, m)

(* Before the merge of 011.                                                *)
Traced(P, R) ==
    \A c \in R.conversations :
        \E d \in P.opened : d.id = c.id /\ d.buyer = c.buyer /\ d.seller = c.seller
Delivered(P, R) ==
    \A m \in P.said : \E n \in R.messages, c \in R.conversations : Holds(n, m, c) /\ InPlace(m, c)
(* After it.                                                               *)
Merged(P, R) ==
    \A m \in P.said : \E n \in R.messages, c \in R.conversations : Holds(n, m, c) /\ Eligible(P, c, m)
(* The messages have left the conversations that will be dropped.          *)
Settled(R) ==
    \A n \in R.messages, c \in R.conversations :
        n.conversation = c.id => c \notin Duplicates(R.conversations)

Kept(r, P, R) == IF r >= 11 THEN Merged(P, R) ELSE Traced(P, R) /\ Delivered(P, R)
UpKept(q, P, R) ==
    IF q.step < 11 \/ (q.step = 11 /\ q.k <= 5) THEN Traced(P, R) /\ Delivered(P, R)
    ELSE Merged(P, R) /\ (q.step = 11 /\ q.k = 6 => Settled(R))
(* A downgrade has taken conversations or messages away.                   *)
Lost(q) == ~q.up /\ (Passed(q, 11, 4) \/ Passed(q, 6, 6))

Told ==
    \/ Undone(11) \/ Undone(6)
    \/ /\ Kept(rev, past, db.rows)
       /\ \A j \in Jobs : Live(j) =>
             IF job[j].up THEN UpKept(job[j], past, View(j).rows)
             ELSE Lost(job[j]) \/ Kept(rev, past, View(j).rows)

LEMMA MembersAre ==
    /\ \A c : OfBuyer(c) => Members(c) = {c.buyer, Owner[c.seller]}
    /\ \A c : c.a \in Users => Members(c) = {c.a, c.b}
BY UsersAssumption DEF Members, OfBuyer, Fits, NoUser

LEMMA MappedMerged ==
    ASSUME NEW P, NEW f, NEW R, NEW Q, Maps(f, R, Q), Merged(P, R),
           \A c \in R.conversations :
              Members(f[c]) = Members(c) /\ f[c].context = c.context
    PROVE  Merged(P, Q)
<1> SUFFICES ASSUME NEW m \in P.said
             PROVE  \E n \in Q.messages, c \in Q.conversations : Holds(n, m, c) /\ Eligible(P, c, m)
  BY DEF Merged
<1>1. PICK n \in R.messages, c \in R.conversations : Holds(n, m, c) /\ Eligible(P, c, m)
  BY DEF Merged
<1>2. n \in Q.messages /\ f[c] \in Q.conversations
      /\ f[c].id = c.id /\ Members(f[c]) = Members(c) /\ f[c].context = c.context
  BY DEF Maps
<1>3. Holds(n, m, f[c]) /\ Eligible(P, f[c], m)
  BY <1>1, <1>2 DEF Holds, Eligible
<1> QED BY <1>2, <1>3

LEMMA MappedDelivered ==
    ASSUME NEW P, NEW f, NEW R, NEW Q, Maps(f, R, Q), Traced(P, R), Delivered(P, R),
           \A c \in R.conversations :
              Members(f[c]) = Members(c) /\ f[c].buyer = c.buyer /\ f[c].seller = c.seller
    PROVE  Traced(P, Q) /\ Delivered(P, Q)
<1>1. ASSUME NEW m \in P.said
      PROVE  \E n \in Q.messages, c \in Q.conversations : Holds(n, m, c) /\ InPlace(m, c)
  <2>1. PICK n \in R.messages, c \in R.conversations : Holds(n, m, c) /\ InPlace(m, c)
    BY DEF Delivered
  <2>2. n \in Q.messages /\ f[c] \in Q.conversations
        /\ f[c].id = c.id /\ Members(f[c]) = Members(c) /\ f[c].seller = c.seller
    BY DEF Maps
  <2>3. Holds(n, m, f[c]) /\ InPlace(m, f[c])
    BY <2>1, <2>2 DEF Holds, InPlace
  <2> QED BY <2>2, <2>3
<1>2. Traced(P, Q)
  BY DEF Traced, Maps
<1> QED BY <1>1, <1>2 DEF Delivered

(* In the older conversation of the two the message is with the same       *)
(* people, and about the same storefront unless its owner had written to   *)
(* one of the sender's.                                                    *)
LEMMA KeeperEligible ==
    ASSUME NEW P, NEW R, Filed(P, R), Traced(P, R), \A c \in R.conversations : OfBoth(c),
           NEW c \in R.conversations, NEW k \in R.conversations, SamePair(c, k), k.id <= c.id,
           NEW m, InPlace(m, c), Members(c) = m.to
    PROVE  Members(k) = m.to /\ Eligible(P, k, m)
<1>1. /\ c.a \in Users /\ c.seller \in Stores /\ {c.a, c.b} = {c.buyer, Owner[c.seller]}
      /\ c.buyer \in Users /\ c.context = c.seller
      /\ k.a \in Users /\ k.seller \in Stores /\ {k.a, k.b} = {k.buyer, Owner[k.seller]}
      /\ k.buyer \in Users /\ k.context = k.seller
      /\ k.a = c.a /\ k.b = c.b
  BY DEF OfBoth, Fits, SamePair
<1>2. Members(k) = m.to /\ m.to = {c.buyer, Owner[c.seller]} /\ m.sender \in m.to
  BY <1>1, MembersAre DEF InPlace
<1>3. c.id = m.conversation /\ m.store = c.seller
  BY DEF InPlace
<1>4. CASE m.sender = Owner[c.seller]
  BY <1>2, <1>3, <1>4 DEF Eligible
<1>5. CASE k.seller = c.seller
  BY <1>1, <1>2, <1>3, <1>5 DEF Eligible
<1>6. CASE m.sender # Owner[c.seller] /\ k.seller # c.seller
  <2>1. m.sender = c.buyer /\ c.buyer # Owner[c.seller]
    BY <1>2, <1>6
  <2>2. Owner[k.seller] # Owner[c.seller]
    BY <1>1, <1>6, OwnerAssumption
  <2>3. k.buyer = Owner[c.seller] /\ Owner[k.seller] = c.buyer
    BY <1>1, <2>1, <2>2
  <2>4. k.id < c.id
    <3>1. k # c
      BY <1>6
    <3>2. k.id # c.id /\ k.id \in Nat /\ c.id \in Nat
      BY <3>1 DEF Filed, IsConv
    <3> QED BY <3>2
  <2>5. PICK d \in P.opened : d.id = k.id /\ d.buyer = k.buyer /\ d.seller = k.seller
    BY DEF Traced
  <2>6. d.id < m.conversation /\ d.buyer = Owner[m.store] /\ Owner[d.seller] = m.sender
    BY <1>3, <2>1, <2>3, <2>4, <2>5
  <2> QED BY <1>2, <2>6 DEF Eligible, Earlier
<1> QED BY <1>4, <1>5, <1>6

(* 011 moves the messages to the oldest conversation of the pair.          *)
LEMMA MovedMerged ==
    ASSUME NEW P, NEW R, DOMAIN R = RowFields, Filed(P, R), Traced(P, R), Delivered(P, R),
           \A c \in R.conversations : OfBoth(c)
    PROVE  LET Q == Rewritten(R, "move_messages") IN Merged(P, Q) /\ Settled(Q)
<1> DEFINE Q == Rewritten(R, "move_messages")
           C == R.conversations
<1>1. Q.conversations = C /\ Q.messages = {Moved(C, m) : m \in R.messages}
  BY MoveIs
<1> HIDE DEF Q
<1>2. ASSUME NEW m \in P.said
      PROVE  \E n \in Q.messages, c \in Q.conversations : Holds(n, m, c) /\ Eligible(P, c, m)
  <2>1. PICK n \in R.messages, c \in C : Holds(n, m, c) /\ InPlace(m, c)
    BY DEF Delivered
  <2>2. PICK k : k = Keeper(C, c)
    OBVIOUS
  <2>3. k \in C /\ SamePair(c, k) /\ k.id <= c.id
    <3>1. k \in C /\ SamePair(c, k) /\ \A e \in C : SamePair(k, e) => e.id >= k.id
      BY <2>2, KeeperIs
    <3>2. SamePair(k, c) /\ k.id \in Nat /\ c.id \in Nat
      BY <3>1 DEF SamePair, Filed, IsConv
    <3> QED BY <3>1, <3>2
  <2>4. c.id = n.conversation
    BY <2>1 DEF Holds
  <2>5. PICK w : w = Moved(C, n)
    OBVIOUS
  <2>6. w \in Q.messages /\ w.id = n.id /\ w.sender = n.sender /\ w.conversation = k.id
    BY <1>1, <2>2, <2>4, <2>5, MovedIs
  <2>7. Members(k) = m.to /\ Eligible(P, k, m)
    BY <2>1, <2>3, KeeperEligible DEF Holds
  <2>8. Holds(w, m, k)
    BY <2>1, <2>6, <2>7 DEF Holds
  <2> QED BY <1>1, <2>3, <2>6, <2>7, <2>8
<1>3. ASSUME NEW n \in Q.messages, NEW c \in Q.conversations, n.conversation = c.id,
             c \in Duplicates(Q.conversations)
      PROVE  FALSE
  <2>1. PICK m \in R.messages : n = Moved(C, m)
    BY <1>1
  <2>2. PICK d \in C : d.id = m.conversation
    BY DEF Filed, InOne
  <2>3. PICK k : k = Keeper(C, d)
    OBVIOUS
  <2>4. n.conversation = k.id
    BY <2>1, <2>2, <2>3, MovedIs
  <2>5. k \in C /\ \A e \in C : SamePair(k, e) => e.id >= k.id
    BY <2>3, KeeperIs
  <2>6. c = k
    BY <1>1, <1>3, <2>4, <2>5 DEF Filed
  <2>7. PICK e \in C : SamePair(c, e) /\ Older(e, c)
    BY <1>1, <1>3 DEF Duplicates
  <2>8. e.id \in Nat /\ c.id \in Nat
    BY <1>1, <2>7 DEF Filed, IsConv
  <2> QED BY <2>5, <2>6, <2>7, <2>8 DEF Older
<1> QED BY <1>2, <1>3 DEF Merged, Settled, Q

LEMMA DroppedMerged ==
    ASSUME NEW P, NEW R, DOMAIN R = RowFields, Merged(P, R), Settled(R)
    PROVE  Merged(P, Rewritten(R, "drop_duplicates"))
<1> DEFINE D == Duplicates(R.conversations)
           Q == WithoutConversations(R, D)
<1>1. Q.conversations = R.conversations \ D
      /\ Q.messages = {n \in R.messages : \A c \in D : n.conversation # c.id}
  BY WithoutIs
<1>2. Rewritten(R, "drop_duplicates") = Q /\ D \subseteq R.conversations
  BY DropIs
<1>3. \A n \in R.messages : \A c \in D : n.conversation # c.id
  BY <1>2 DEF Settled
<1> HIDE DEF Q, D
<1>4. ASSUME NEW m \in P.said
      PROVE  \E n \in Q.messages, c \in Q.conversations : Holds(n, m, c) /\ Eligible(P, c, m)
  <2>1. PICK n \in R.messages, c \in R.conversations : Holds(n, m, c) /\ Eligible(P, c, m)
    BY DEF Merged
  <2>2. n \in Q.messages /\ c \in Q.conversations
    BY <1>1, <1>3, <2>1 DEF Holds
  <2> QED BY <2>1, <2>2
<1> QED BY <1>2, <1>4 DEF Merged

LEMMA SameKept ==
    ASSUME NEW P, NEW R, NEW Q, SameChats(Q, R)
    PROVE  /\ Traced(P, R) /\ Delivered(P, R) => Traced(P, Q) /\ Delivered(P, Q)
           /\ Merged(P, R) => Merged(P, Q)
           /\ Settled(R) => Settled(Q)
<1>1. Q.conversations = R.conversations /\ Q.messages = R.messages
  BY DEF SameChats
<1> QED BY <1>1 DEF Traced, Delivered, Merged, Settled

(* Each statement of an upgrade leaves what was said where the next one    *)
(* looks for it.                                                           *)
LEMMA UpKeptRan ==
    ASSUME Control, NEW j \in Jobs, Ran(j), job[j].up, NEW P, Filed(P, View(j).rows),
           JobFits(job[j], View(j).rows), UpKept(job[j], P, View(j).rows)
    PROVE  UpKept(job'[j], P, View(j)'.rows)
<1> DEFINE q == job[j]
           p == job'[j]
           R == View(j).rows
           Q == View(j)'.rows
<1>1. /\ q.step \in 1 .. 13 /\ q.k \in Nat /\ q.k >= 1 /\ q.up
      /\ p.step = q.step /\ p.k = q.k + 1
      /\ DOMAIN R = RowFields
  BY LivePlaced, LatestIs DEF Ran, Control, View, Seen, IsBase
<1>2. Filed(P, R) /\ JobFits(q, R) /\ UpKept(q, P, R)
  OBVIOUS
<1>3. /\ q.step = 11 /\ q.k = 4 => Q = Rewritten(R, "backfill_participants")
      /\ q.step = 11 /\ q.k = 5 => Q = Rewritten(R, "move_messages")
      /\ q.step = 11 /\ q.k = 6 => Q = Rewritten(R, "drop_duplicates")
      /\ q.step = 11 /\ q.k = 17 => Q = Forgotten(R, "conversations", "buyer_id")
      /\ q.step = 11 /\ q.k = 18 => Q = Forgotten(R, "conversations", "seller_id")
  BY UpDoes
<1>4. SameChats(Q, R) \/ (q.step = 11 /\ q.k \in {4, 5, 6, 17, 18})
  BY ChatsElsewhere
<1> HIDE DEF q, p, Q, R
<1> SUFFICES UpKept(p, P, Q)
  BY DEF Q, p
<1>5. CASE SameChats(Q, R) /\ ~(q.step = 11 /\ q.k \in {4, 5, 6, 17, 18})
  BY <1>1, <1>2, <1>5, SameKept DEF UpKept
<1>6. CASE q.step = 11 /\ q.k = 4
  <2>1. \A c \in R.conversations : OfBuyer(c)
    BY <1>1, <1>2, <1>6 DEF JobFits, UpFits
  <2>2. PICK f : /\ Maps(f, R, Q)
                 /\ \A c \in R.conversations :
                        f[c].buyer = c.buyer /\ f[c].seller = c.seller /\ OfBoth(f[c])
    BY <1>1, <1>2, <1>3, <1>6, <2>1, Backfills
  <2>3. \A c \in R.conversations : Members(f[c]) = Members(c)
    <3> SUFFICES ASSUME NEW c \in R.conversations PROVE Members(f[c]) = Members(c)
      OBVIOUS
    <3>1. OfBuyer(c) /\ OfBoth(f[c]) /\ f[c].buyer = c.buyer /\ f[c].seller = c.seller
      BY <2>1, <2>2
    <3>2. f[c].a \in Users /\ {f[c].a, f[c].b} = {c.buyer, Owner[c.seller]}
      BY <3>1 DEF OfBoth, Fits
    <3> QED BY <3>1, <3>2, MembersAre, SMTT(60)
  <2>4. Traced(P, R) /\ Delivered(P, R)
    BY <1>2, <1>6 DEF UpKept
  <2>5. Traced(P, Q) /\ Delivered(P, Q)
    BY <2>2, <2>3, <2>4, MappedDelivered
  <2> QED BY <1>1, <1>6, <2>5 DEF UpKept
<1>7. CASE q.step = 11 /\ q.k = 5
  <2>1. \A c \in R.conversations : OfBoth(c)
    BY <1>1, <1>2, <1>7 DEF JobFits, UpFits
  <2>2. Traced(P, R) /\ Delivered(P, R)
    BY <1>2, <1>7 DEF UpKept
  <2>3. Merged(P, Q) /\ Settled(Q)
    BY <1>1, <1>2, <1>3, <1>7, <2>1, <2>2, MovedMerged
  <2> QED BY <1>1, <1>7, <2>3 DEF UpKept
<1>8. CASE q.step = 11 /\ q.k = 6
  <2>1. Merged(P, R) /\ Settled(R)
    BY <1>2, <1>8 DEF UpKept
  <2>2. Merged(P, Q)
    BY <1>1, <1>3, <1>8, <2>1, DroppedMerged
  <2> QED BY <1>1, <1>8, <2>2 DEF UpKept
<1>9. CASE q.step = 11 /\ q.k \in {17, 18}
  <2>1. PICK x \in {"buyer", "seller"} : \E v : Clears(R, Q, x, v)
    BY <1>1, <1>2, <1>3, <1>9, ForgottenIs
  <2>2. PICK f : /\ Maps(f, R, Q)
                 /\ \A c \in R.conversations : \A y \in ConvFields \ {x} : f[c][y] = c[y]
    BY <2>1 DEF Clears
  <2>3. \A c \in R.conversations : c.a \in Users
    BY <1>1, <1>2, <1>9 DEF JobFits, UpFits, OfBoth, Fits
  <2>4. \A c \in R.conversations : f[c].a = c.a /\ f[c].b = c.b /\ f[c].context = c.context
    BY <2>2 DEF ConvFields
  <2>5. ASSUME NEW c \in R.conversations PROVE Members(f[c]) = Members(c)
    <3>1. c.a \in Users /\ f[c].a \in Users /\ f[c].a = c.a /\ f[c].b = c.b
      BY <2>3, <2>4
    <3>2. Members(f[c]) = {f[c].a, f[c].b} /\ Members(c) = {c.a, c.b}
      BY <3>1, MembersAre
    <3> QED BY <3>1, <3>2
  <2>6. Merged(P, R)
    BY <1>2, <1>9 DEF UpKept
  <2>7. Merged(P, Q)
    BY <2>2, <2>4, <2>5, <2>6, MappedMerged
  <2> QED BY <1>1, <1>9, <2>7 DEF UpKept
<1> QED BY <1>4, <1>5, <1>6, <1>7, <1>8, <1>9

LEMMA LostStays ==
    ASSUME Control, NEW j \in Jobs, Ran(j) \/ Moves(j), Lost(job[j])
    PROVE  Lost(job'[j])
<1>1. /\ job[j].step \in 1 .. 13 /\ job[j].k \in Nat /\ ~job[j].up
      /\ job[j].from \in 0 .. 13
  BY LivePlaced, LatestIs DEF Ran, Moves, Lost
<1>2. /\ job'[j].up = job[j].up /\ job'[j].from = job[j].from
      /\ \/ job'[j].step = job[j].step /\ job'[j].k \in {job[j].k, job[j].k + 1}
         \/ job'[j].step = job[j].step - 1
  BY <1>1 DEF Ran, Moves
<1> QED BY <1>1, <1>2 DEF Lost, Passed

LEMMA DownKeptRan ==
    ASSUME Control, NEW j \in Jobs, Ran(j), ~job[j].up, NEW P, Filed(P, View(j).rows),
           JobFits(job[j], View(j).rows), Kept(rev, P, View(j).rows), ~Lost(job'[j])
    PROVE  Kept(rev, P, View(j)'.rows)
<1> DEFINE q == job[j]
           p == job'[j]
           R == View(j).rows
           Q == View(j)'.rows
<1>1. /\ q.step \in 1 .. 13 /\ q.k \in Nat /\ q.k >= 1 /\ ~q.up /\ rev \in 0 .. 13
      /\ p.up = q.up /\ p.step = q.step /\ p.k = q.k + 1 /\ p.from = rev /\ q.step <= rev
      /\ DOMAIN R = RowFields
  BY LivePlaced, LatestIs DEF Ran, Control, View, Seen, IsBase
<1>2. Filed(P, R) /\ JobFits(q, R) /\ Kept(rev, P, R) /\ ~Lost(p)
  OBVIOUS
<1>3. q.step = 11 /\ q.k = 3 => Q = Rewritten(R, "restore_storefronts")
  BY DownDoes
<1>4. \/ SameChats(Q, R)
      \/ q.step = 11 /\ q.k \in {3, 4, 14, 15, 16}
      \/ q.step = 6 /\ q.k \in {6, 7}
  BY ChatsElsewhere
<1> HIDE DEF q, p, Q, R
<1> SUFFICES Kept(rev, P, Q)
  BY DEF Q
<1>5. SameChats(Q, R) \/ (q.step = 11 /\ q.k = 3)
  BY <1>1, <1>2, <1>4 DEF Lost, Passed
<1>6. CASE SameChats(Q, R)
  BY <1>2, <1>6, SameKept DEF Kept
<1>7. CASE q.step = 11 /\ q.k = 3
  <2>1. \A c \in R.conversations : OfPeers(c)
    BY <1>1, <1>2, <1>7 DEF JobFits, DownFits
  <2>2. PICK f : /\ Maps(f, R, Q)
                 /\ \A c \in R.conversations :
                       f[c].a = c.a /\ f[c].b = c.b /\ f[c].context = c.context
    BY <1>1, <1>2, <1>3, <1>7, <2>1, Restores
  <2>3. ASSUME NEW c \in R.conversations PROVE Members(f[c]) = Members(c)
    <3>1. c.a \in Users /\ f[c].a \in Users /\ f[c].a = c.a /\ f[c].b = c.b
      BY <2>1, <2>2 DEF OfPeers, Fits
    <3>2. Members(f[c]) = {f[c].a, f[c].b} /\ Members(c) = {c.a, c.b}
      BY <3>1, MembersAre
    <3> QED BY <3>1, <3>2
  <2>4. Merged(P, R)
    BY <1>1, <1>2, <1>7 DEF Kept
  <2>5. Merged(P, Q)
    BY <2>2, <2>3, <2>4, MappedMerged
  <2> QED BY <1>1, <1>7, <2>5 DEF Kept
<1> QED BY <1>5, <1>6, <1>7

LEMMA UpKeptMoves ==
    ASSUME Control, NEW j \in Jobs, Moves(j), job[j].up, NEW P, NEW R, UpKept(job[j], P, R)
    PROVE  UpKept(job'[j], P, R)
<1> DEFINE q == job[j]
           p == job'[j]
<1>1. /\ q.step \in 1 .. 13 /\ q.k = Size(Script(q)) + 1 /\ q.up
      /\ p.step \in 1 .. 13 /\ Size(Script(q)) \in Nat
      /\ \/ p.step = q.step /\ p.k = q.k
         \/ p.k = 1 /\ p.step = q.step + 1
  BY LivePlaced, LatestIs DEF Moves
<1>2. q.step = 11 => q.k = 19
  BY <1>1, TheyLock DEF Script
<1> HIDE DEF q, p
<1> QED BY <1>1, <1>2 DEF UpKept, q, p

LEMMA KeptCommits ==
    ASSUME Control, NEW j \in Jobs, Commits(j), NEW P, NEW R,
           IF job[j].up THEN UpKept(job[j], P, R) ELSE Lost(job[j]) \/ Kept(rev, P, R)
    PROVE  Undone(11)' \/ Undone(6)' \/ Kept(job[j].goal, P, R)
<1> DEFINE q == job[j]
<1>1. /\ q.step = LastStep(q) /\ q.k = Size(Script(q)) + 1 /\ q.step \in 1 .. 13
      /\ q.goal \in 0 .. 13 /\ (q.up => q.goal = q.step) /\ (~q.up => q.goal + 1 = q.step)
      /\ Size(Script(q)) \in Nat /\ (q.up \/ ~q.up) /\ q.from = rev /\ rev \in 0 .. 13
      /\ (~q.up => q.step <= rev)
  BY LivePlaced, LatestIs DEF Commits, Placed, LastStep
<1>2. /\ q.up /\ q.step = 11 => q.k = 19
      /\ ~q.up /\ q.step = 11 => q.k = 18
  BY <1>1, TheyLock DEF Script
<1>3. ~q.up => undone' = [times |-> undone.times + 1,
                          scripts |-> undone.scripts \cup (Lossy \cap (q.goal + 1 .. q.from))]
  BY DEF Commits
<1>4. IF q.up THEN UpKept(q, P, R) ELSE Lost(q) \/ Kept(rev, P, R)
  OBVIOUS
<1> HIDE DEF q
<1> SUFFICES Undone(11)' \/ Undone(6)' \/ Kept(q.goal, P, R)
  BY DEF q
<1>5. CASE q.up
  BY <1>1, <1>2, <1>4, <1>5 DEF UpKept, Kept
<1>6. CASE ~q.up /\ Lost(q)
  <2>1. 11 \in q.goal + 1 .. q.from \/ 6 \in q.goal + 1 .. q.from
    BY <1>1, <1>2, <1>6 DEF Lost, Passed
  <2> QED BY <1>3, <1>6, <2>1 DEF Undone, Lossy
<1>7. CASE ~q.up /\ ~Lost(q)
  <2>1. rev >= 11 <=> q.goal >= 11
    BY <1>1, <1>2, <1>7 DEF Lost, Passed
  <2> QED BY <1>1, <1>4, <1>7, <2>1 DEF Kept
<1> QED BY <1>5, <1>6, <1>7

(* As long as a process has not touched the conversations it keeps what    *)
(* its revision does.                                                      *)
LEMMA FreeKept ==
    ASSUME Control, NEW j \in Jobs, Live(j), job[j].up, ~Grabbed(job[j]), NEW P, NEW R
    PROVE  UpKept(job[j], P, R) <=> Kept(rev, P, R)
<1>1. /\ job[j].step \in 1 .. 13 /\ job[j].k \in Nat /\ rev \in 0 .. 13 /\ job[j].from = rev
      /\ rev < job[j].step
  BY LivePlaced, LatestIs
<1>2. rev >= 11 => job[j].step > 11
  BY <1>1
<1>3. rev < 11 => job[j].step < 11 \/ (job[j].step = 11 /\ job[j].k <= 1)
  BY <1>1 DEF Grabbed, Passed
<1> QED BY <1>1, <1>2, <1>3 DEF UpKept, Kept

LEMMA ToldWorks ==
    ASSUME Control, Chats, Told, NEW j \in Jobs, Works(j), past' = past
    PROVE  Told'
<1>1. CASE /\ rev' = rev /\ db' = db /\ undone' = undone
           /\ \A i \in Jobs : Live(i)' => Stayed(i) \/ Began(i) \/ Ran(i) \/ Moves(i)
  <2> SUFFICES ASSUME ~(Undone(11) \/ Undone(6)), NEW i \in Jobs, Live(i)'
               PROVE  IF job'[i].up THEN UpKept(job'[i], past, View(i)'.rows)
                      ELSE Lost(job'[i]) \/ Kept(rev, past, View(i)'.rows)
    BY <1>1 DEF Told, Undone
  <2>1. /\ Kept(rev, past, db.rows)
        /\ Live(i) => IF job[i].up THEN UpKept(job[i], past, View(i).rows)
                      ELSE Lost(job[i]) \/ Kept(rev, past, View(i).rows)
        /\ Live(i) => Filed(past, View(i).rows) /\ JobFits(job[i], View(i).rows)
    BY DEF Told, Chats
  <2>2. CASE Stayed(i)
    BY <1>1, <2>1, <2>2, ViewKept DEF Stayed
  <2>3. CASE Began(i)
    <3> DEFINE p == job'[i]
    <3>1. View(i)' = db
      BY <1>1, <2>3 DEF Began, View, Seen
    <3>2. /\ rev \in 0 .. 13 /\ p.k = 1 /\ (p.up => p.step = rev + 1)
      BY <2>3, LatestIs DEF Began, Control
    <3>3. p.up => (UpKept(p, past, db.rows) <=> Kept(rev, past, db.rows))
      <4> HIDE DEF p
      <4> QED BY <3>2 DEF UpKept, Kept
    <3> QED BY <2>1, <3>1, <3>3
  <2>4. CASE Ran(i)
    <3>1. Live(i) /\ job'[i].up = job[i].up
      BY <2>4 DEF Ran
    <3>2. CASE job[i].up
      BY <2>1, <2>4, <3>1, <3>2, UpKeptRan
    <3>3. CASE ~job[i].up
      BY <2>1, <2>4, <3>1, <3>3, DownKeptRan, LostStays
    <3> QED BY <3>2, <3>3
  <2>5. CASE Moves(i)
    <3>1. View(i)' = View(i) /\ Live(i) /\ job'[i].up = job[i].up
      BY <1>1, <2>5, ViewKept DEF Moves
    <3>2. CASE job[i].up
      BY <2>1, <2>5, <3>1, <3>2, UpKeptMoves
    <3>3. CASE ~job[i].up
      BY <2>1, <2>5, <3>1, <3>3, LostStays
    <3> QED BY <3>2, <3>3
  <2> QED BY <1>1, <2>2, <2>3, <2>4, <2>5
<1>2. CASE Commits(j)
  <2>1. /\ Live(j) /\ rev' = job[j].goal /\ db' = View(j) /\ \A i \in Jobs : ~Live(i)'
        /\ undone.scripts \subseteq undone'.scripts
    BY <1>2 DEF Commits
  <2>2. (Undone(11) \/ Undone(6)) => (Undone(11) \/ Undone(6))'
    BY <2>1 DEF Undone
  <2>3. CASE ~(Undone(11) \/ Undone(6))
    <3>1. IF job[j].up THEN UpKept(job[j], past, View(j).rows)
          ELSE Lost(job[j]) \/ Kept(rev, past, View(j).rows)
      BY <2>1, <2>3 DEF Told
    <3>2. Undone(11)' \/ Undone(6)' \/ Kept(job[j].goal, past, View(j).rows)
      BY <1>2, <3>1, KeptCommits
    <3> QED BY <2>1, <3>2 DEF Told
  <2> QED BY <2>2, <2>3 DEF Told
<1> QED BY <1>1, <1>2 DEF Works

(* Where what was said is, it stays when a conversation is opened, and a   *)
(* new message is where it belongs.                                        *)
LEMMA OpenedKept ==
    ASSUME NEW P, NEW N, NEW c, NEW R, NEW Q, NEW r,
           N.opened = P.opened \cup {c}, N.said = P.said,
           Q.conversations = R.conversations \cup {c}, Q.messages = R.messages, Kept(r, P, R)
    PROVE  Kept(r, N, Q)
<1>1. CASE r >= 11
  <2>1. \A d, m : Eligible(P, d, m) => Eligible(N, d, m)
    BY DEF Eligible, Earlier
  <2> QED BY <1>1, <2>1 DEF Kept, Merged
<1>2. CASE ~(r >= 11)
  <2>1. Traced(N, Q)
    BY <1>2 DEF Kept, Traced
  <2>2. Delivered(N, Q)
    BY <1>2 DEF Kept, Delivered
  <2> QED BY <1>2, <2>1, <2>2 DEF Kept
<1> QED BY <1>1, <1>2

LEMMA SaidKept ==
    ASSUME NEW P, NEW N, NEW n, NEW e, NEW R, NEW Q, NEW r,
           N.opened = P.opened, N.said = P.said \cup {e},
           Q.conversations = R.conversations, Q.messages = R.messages \cup {n},
           NEW c \in R.conversations, Holds(n, e, c),
           IF r >= 11 THEN Eligible(P, c, e) ELSE InPlace(e, c), Kept(r, P, R)
    PROVE  Kept(r, N, Q)
<1>1. CASE r >= 11
  <2>1. \A d, m : Eligible(P, d, m) => Eligible(N, d, m)
    BY DEF Eligible, Earlier
  <2>2. ASSUME NEW m \in N.said
        PROVE  \E x \in Q.messages, d \in Q.conversations : Holds(x, m, d) /\ Eligible(N, d, m)
    <3>1. CASE m = e
      BY <1>1, <2>1, <3>1
    <3>2. CASE m \in P.said
      <4>1. PICK x \in R.messages, d \in R.conversations : Holds(x, m, d) /\ Eligible(P, d, m)
        BY <1>1, <3>2 DEF Kept, Merged
      <4> QED BY <2>1, <4>1
    <3> QED BY <3>1, <3>2
  <2> QED BY <1>1, <2>2 DEF Kept, Merged
<1>2. CASE ~(r >= 11)
  <2>1. Traced(N, Q)
    BY <1>2 DEF Kept, Traced
  <2>2. ASSUME NEW m \in N.said
        PROVE  \E x \in Q.messages, d \in Q.conversations : Holds(x, m, d) /\ InPlace(m, d)
    <3>1. CASE m = e
      BY <1>2, <3>1
    <3>2. CASE m \in P.said
      <4>1. PICK x \in R.messages, d \in R.conversations : Holds(x, m, d) /\ InPlace(m, d)
        BY <1>2, <3>2 DEF Kept, Delivered
      <4> QED BY <4>1
    <3> QED BY <3>1, <3>2
  <2> QED BY <1>2, <2>1, <2>2 DEF Kept, Delivered
<1> QED BY <1>1, <1>2

(* A write of the program that keeps what the processes see keeps it all.  *)
LEMMA ToldWrites ==
    ASSUME Control, Told, SameButRows,
           Kept(rev, past, db.rows) => Kept(rev, past', db'.rows),
           \A j \in Jobs : Live(j) =>
              /\ ~Grabbed(job[j])
              /\ Kept(rev, past, View(j).rows) => Kept(rev, past', View(j)'.rows)
    PROVE  Told'
<1>1. /\ rev' = rev /\ undone' = undone
      /\ \A j \in Jobs : (Live(j)' <=> Live(j)) /\ SameJob(job'[j], job[j])
  BY DEF SameButRows, SameJob, Live, Busy
<1>2. ASSUME NEW j \in Jobs, Live(j),
             IF job[j].up THEN UpKept(job[j], past, View(j).rows)
             ELSE Lost(job[j]) \/ Kept(rev, past, View(j).rows)
      PROVE  IF job'[j].up THEN UpKept(job'[j], past', View(j)'.rows)
             ELSE Lost(job'[j]) \/ Kept(rev, past', View(j)'.rows)
  <2>1. /\ job'[j].up = job[j].up /\ job'[j].step = job[j].step /\ job'[j].k = job[j].k
        /\ job'[j].from = job[j].from
    BY <1>1 DEF SameJob
  <2>2. CASE job[j].up
    <3>1. Kept(rev, past, View(j).rows)
      BY <1>2, <2>2, FreeKept
    <3>2. Kept(rev, past', View(j)'.rows)
      BY <1>2, <3>1
    <3>3. UpKept(job[j], past', View(j)'.rows) <=> Kept(rev, past', View(j)'.rows)
      BY <1>2, <2>2, FreeKept
    <3> QED BY <2>1, <2>2, <3>2, <3>3 DEF UpKept
  <2>3. CASE ~job[j].up
    BY <1>2, <2>1, <2>3 DEF Lost, Passed
  <2> QED BY <2>2, <2>3
<1>3. CASE Undone(11) \/ Undone(6)
  BY <1>1, <1>3 DEF Told, Undone
<1>4. CASE ~(Undone(11) \/ Undone(6))
  BY <1>1, <1>2, <1>4 DEF Told
<1> QED BY <1>3, <1>4

LEMMA ToldOpen ==
    ASSUME Control, Held, IsPast, Chats, Told, NEW c, Open(c)
    PROVE  Told'
<1>1. /\ SameButRows /\ Unlocked("conversations")
      /\ past' = [past EXCEPT !.opened = @ \cup {c}]
      /\ db'.rows = [db.rows EXCEPT !.conversations = db.rows.conversations \cup {c}]
      /\ \A j \in Jobs : View(j)'.rows = [View(j).rows EXCEPT !.conversations = View(j).rows.conversations \cup {c}]
  BY WroteOpen
<1>2. DOMAIN db.rows = RowFields /\ \A j \in Jobs : DOMAIN View(j).rows = RowFields
  BY <1>1 DEF SameButRows, IsBase
<1>3. past'.opened = past.opened \cup {c} /\ past'.said = past.said
  BY <1>1 DEF IsPast
<1>4. db'.rows.conversations = db.rows.conversations \cup {c} /\ db'.rows.messages = db.rows.messages
  BY <1>1, <1>2 DEF RowFields
<1>5. ASSUME NEW j \in Jobs
      PROVE  /\ View(j)'.rows.conversations = View(j).rows.conversations \cup {c}
             /\ View(j)'.rows.messages = View(j).rows.messages
  BY <1>1, <1>2 DEF RowFields
<1>6. Kept(rev, past, db.rows) => Kept(rev, past', db'.rows)
  BY <1>3, <1>4, OpenedKept
<1>7. ASSUME NEW j \in Jobs, Live(j)
      PROVE  /\ ~Grabbed(job[j])
             /\ Kept(rev, past, View(j).rows) => Kept(rev, past', View(j)'.rows)
  <2>1. ~Grabbed(job[j])
    BY <1>1, <1>7, NotGrabbed
  <2>2. Kept(rev, past, View(j).rows) => Kept(rev, past', View(j)'.rows)
    BY <1>3, <1>5, OpenedKept
  <2> QED BY <2>1, <2>2
<1> QED BY <1>1, <1>6, <1>7, ToldWrites

LEMMA ToldSay ==
    ASSUME Control, Held, IsPast, Chats, Told, NEW c \in db.rows.conversations,
           NEW u \in Members(c), Say(c, u)
    PROVE  Told'
<1> DEFINE n == [id |-> Cardinality(past.said) + 1, conversation |-> c.id, sender |-> u]
           e == [id |-> n.id, sender |-> u, to |-> Members(c), conversation |-> c.id,
                 store |-> IF c.seller = NoStore THEN c.context ELSE c.seller]
<1>1. /\ SameButRows /\ Unlocked("conversations")
      /\ past' = [past EXCEPT !.said = @ \cup {e}]
      /\ db'.rows = [db.rows EXCEPT !.messages = db.rows.messages \cup {n}]
      /\ \A j \in Jobs : View(j)'.rows = [View(j).rows EXCEPT !.messages = View(j).rows.messages \cup {n}]
  BY WroteSay
<1>2. Holds(n, e, c)
  BY DEF Holds
<1>3. IF rev >= 11 THEN Eligible(past, c, e) ELSE InPlace(e, c)
  <2>1. rev >= 11 => c.seller = NoStore
    BY DEF Chats, FitsAt, OfPeers, Fits
  <2>2. ~(rev >= 11) => c.seller # NoStore
    BY OwnerAssumption DEF Chats, FitsAt, OfBuyer, Fits
  <2> QED BY <2>1, <2>2 DEF Eligible, InPlace
<1> HIDE DEF n, e
<1>4. DOMAIN db.rows = RowFields /\ \A j \in Jobs : DOMAIN View(j).rows = RowFields
  BY <1>1 DEF SameButRows, IsBase
<1>5. past'.opened = past.opened /\ past'.said = past.said \cup {e}
  BY <1>1 DEF IsPast
<1>6. /\ db'.rows.conversations = db.rows.conversations
      /\ db'.rows.messages = db.rows.messages \cup {n}
  BY <1>1, <1>4 DEF RowFields
<1>7. ASSUME NEW j \in Jobs
      PROVE  /\ View(j)'.rows.conversations = View(j).rows.conversations
             /\ View(j)'.rows.messages = View(j).rows.messages \cup {n}
  BY <1>1, <1>4 DEF RowFields
<1>8. Kept(rev, past, db.rows) => Kept(rev, past', db'.rows)
  BY <1>2, <1>3, <1>5, <1>6, SaidKept
<1>9. ASSUME NEW j \in Jobs, Live(j)
      PROVE  /\ ~Grabbed(job[j])
             /\ Kept(rev, past, View(j).rows) => Kept(rev, past', View(j)'.rows)
  <2>1. ~Grabbed(job[j])
    BY <1>1, <1>9, NotGrabbed
  <2>2. c \in View(j).rows.conversations
    BY <1>9, <2>1 DEF Chats
  <2> QED BY <1>2, <1>3, <1>5, <1>7, <2>1, <2>2, SaidKept
<1> QED BY <1>1, <1>8, <1>9, ToldWrites

LEMMA ToldStep == Orderly /\ Chats /\ Told /\ [Next]_vars => Told'
<1> SUFFICES ASSUME Orderly, Chats, Told, [Next]_vars PROVE Told'
  OBVIOUS
<1>1. CASE Programs
  <2>1. /\ SameButRows
        /\ \/ \E u \in Users, s \in Stores : Contact(u, s)
           \/ \E u, v \in Users, s \in Stores \cup {NoStore} : Converse(u, v, s)
           \/ \E c \in db.rows.conversations : \E u \in Members(c) : Say(c, u)
           \/ /\ SameChats(db'.rows, db.rows)
              /\ past'.opened = past.opened /\ past'.said = past.said
              /\ \A j \in Jobs : SameChats(View(j)'.rows, View(j).rows)
    BY <1>1, Writers DEF Orderly
  <2>2. CASE \/ \E u \in Users, s \in Stores : Contact(u, s)
             \/ \E u, v \in Users, s \in Stores \cup {NoStore} : Converse(u, v, s)
    <3>1. PICK c : Open(c)
      BY <2>2 DEF Contact, Converse
    <3> QED BY <3>1, ToldOpen DEF Orderly
  <2>3. CASE \E c \in db.rows.conversations : \E u \in Members(c) : Say(c, u)
    BY <2>3, ToldSay DEF Orderly
  <2>4. CASE /\ SameChats(db'.rows, db.rows)
             /\ past'.opened = past.opened /\ past'.said = past.said
             /\ \A j \in Jobs : SameChats(View(j)'.rows, View(j).rows)
    <3>1. /\ rev' = rev /\ undone' = undone
          /\ \A j \in Jobs : (Live(j)' <=> Live(j)) /\ SameJob(job'[j], job[j])
      BY <2>1 DEF SameButRows, SameJob, Live, Busy
    <3>2. \A c, m : Eligible(past, c, m) => Eligible(past', c, m)
      BY <2>4 DEF Eligible, Earlier
    <3>3. \A R, Q : SameChats(Q, R) =>
             /\ Traced(past, R) /\ Delivered(past, R) => Traced(past', Q) /\ Delivered(past', Q)
             /\ Merged(past, R) => Merged(past', Q)
             /\ Settled(R) => Settled(Q)
      <4> SUFFICES ASSUME NEW R, NEW Q, SameChats(Q, R)
                   PROVE  /\ Traced(past, R) /\ Delivered(past, R) =>
                                Traced(past', Q) /\ Delivered(past', Q)
                          /\ Merged(past, R) => Merged(past', Q)
                          /\ Settled(R) => Settled(Q)
        OBVIOUS
      <4>1. Merged(past, Q) => Merged(past', Q)
        BY <2>4, <3>2 DEF Merged
      <4>2. Traced(past, Q) /\ Delivered(past, Q) => Traced(past', Q) /\ Delivered(past', Q)
        BY <2>4 DEF Traced, Delivered
      <4> QED BY <4>1, <4>2, SameKept
    <3>4. \A R, Q : SameChats(Q, R) /\ Kept(rev, past, R) => Kept(rev, past', Q)
      BY <3>3 DEF Kept
    <3>5. ASSUME NEW j \in Jobs
          PROVE  /\ UpKept(job[j], past, View(j).rows) => UpKept(job'[j], past', View(j)'.rows)
                 /\ Lost(job[j]) => Lost(job'[j])
                 /\ job'[j].up = job[j].up
      <4>1. /\ job'[j].up = job[j].up /\ job'[j].step = job[j].step /\ job'[j].k = job[j].k
            /\ job'[j].from = job[j].from /\ SameChats(View(j)'.rows, View(j).rows)
        BY <2>4, <3>1 DEF SameJob
      <4> QED BY <3>3, <4>1 DEF UpKept, Lost, Passed
    <3> QED BY <2>4, <3>1, <3>4, <3>5 DEF Told, Undone
  <2> QED BY <2>1, <2>2, <2>3, <2>4
<1>2. CASE \E j \in Jobs : Alembic(j)
  BY <1>2, AlembicWorks, ToldWorks DEF Orderly
<1>3. CASE UNCHANGED vars
  BY <1>3 DEF vars, Told, Live, View, Seen, Undone
<1> QED BY <1>1, <1>2, <1>3 DEF Next, Done

LEMMA ToldHolds == Spec => [](Orderly /\ Chats /\ Told)
<1>1. Init => Orderly /\ Chats /\ Told
  <2> SUFFICES ASSUME Init PROVE Told
    BY OrderlyInit, ChatsInit
  <2>1. db.rows = NoRows /\ rev = 0 /\ past.said = {} /\ \A j \in Jobs : ~Live(j)
    BY EmptyIs, IdleIs DEF Init, Live, Busy
  <2>2. db.rows.conversations = {}
    BY <2>1 DEF NoRows
  <2> QED BY <2>1, <2>2 DEF Told, Kept, Traced, Delivered
<1>2. (Orderly /\ Chats /\ Told) /\ [Next]_vars => (Orderly /\ Chats /\ Told)'
  BY OrderlyStep, ChatsStep, ToldStep
<1> QED BY <1>1, <1>2, PTL DEF Spec

(* Whatever containers race, stop and fail, every message ever said is in  *)
(* a conversation of the same two people; only an operator who undoes 011  *)
(* or 006 takes it away.                                                   *)
THEOREM WordsStay == Spec => []NothingSaidIsLost
<1>1. Told => NothingSaidIsLost
  BY DEF Told, Kept, Merged, Delivered, Holds, NothingSaidIsLost
<1> QED BY <1>1, ToldHolds, PTL

(* Who wrote to a storefront may still review it after the merge of 011,   *)
(* but for the storefronts whose owner wrote first.                        *)
THEOREM ReviewersStay == Spec => []EligibilityKept
<1>1. Chats /\ Told => EligibilityKept
  BY DEF Told, Kept, Merged, Holds, Eligible, Earlier, EligibilityKept
<1> QED BY <1>1, ToldHolds, PTL

-----------------------------------------------------------------------------
(* The scripts as sets of statements, and what these make of the schema    *)

LEMMA EntriesJoin ==
    ASSUME NEW s, NEW t, IsList(s), IsList(t)
    PROVE  IsList(s \o t) /\ Entries(s \o t) = Entries(s) \cup Entries(t)
<1>1. /\ IsList(Join(s, t)) /\ Size(s) \in Nat /\ Size(t) \in Nat
      /\ Size(Join(s, t)) = Size(s) + Size(t)
      /\ \A k \in 1 .. Size(s) : Join(s, t)[k] = s[k]
      /\ \A k \in Size(s) + 1 .. Size(s) + Size(t) : Join(s, t)[k] = t[k - Size(s)]
  BY Joined
<1>2. \A r : IsList(r) => DOMAIN r = 1 .. Size(r)
  BY DEF IsList, Size
<1> DEFINE r == Join(s, t)
<1> HIDE DEF r
<1>3. DOMAIN r = 1 .. Size(s) + Size(t) /\ DOMAIN s = 1 .. Size(s) /\ DOMAIN t = 1 .. Size(t)
  BY <1>1, <1>2 DEF r
<1>4. Entries(r) \subseteq Entries(s) \cup Entries(t)
  <2> SUFFICES ASSUME NEW k \in 1 .. Size(s) + Size(t)
               PROVE  r[k] \in Entries(s) \cup Entries(t)
    BY <1>3 DEF Entries
  <2>1. CASE k <= Size(s)
    <3>1. k \in 1 .. Size(s) /\ r[k] = s[k]
      BY <1>1, <2>1 DEF r
    <3> QED BY <1>3, <3>1 DEF Entries
  <2>2. CASE k > Size(s)
    <3>1. k - Size(s) \in 1 .. Size(t) /\ r[k] = t[k - Size(s)]
      BY <1>1, <2>2 DEF r
    <3> QED BY <1>3, <3>1 DEF Entries
  <2> QED BY <1>1, <2>1, <2>2
<1>5. Entries(s) \subseteq Entries(r)
  <2> SUFFICES ASSUME NEW k \in 1 .. Size(s) PROVE s[k] \in Entries(r)
    BY <1>3 DEF Entries
  <2>1. k \in DOMAIN r /\ r[k] = s[k]
    BY <1>1, <1>3 DEF r
  <2> QED BY <2>1 DEF Entries
<1>6. Entries(t) \subseteq Entries(r)
  <2> SUFFICES ASSUME NEW k \in 1 .. Size(t) PROVE t[k] \in Entries(r)
    BY <1>3 DEF Entries
  <2>1. k + Size(s) \in Size(s) + 1 .. Size(s) + Size(t) /\ (k + Size(s)) - Size(s) = k
    BY <1>1
  <2>2. k + Size(s) \in DOMAIN r /\ r[k + Size(s)] = t[k]
    BY <1>1, <1>3, <2>1 DEF r
  <2> QED BY <2>2 DEF Entries
<1>7. IsList(r) /\ Entries(r) = Entries(s) \cup Entries(t)
  BY <1>1, <1>4, <1>5, <1>6 DEF r
<1> QED BY <1>7 DEF r, Join

LEMMA EntriesTuples ==
    /\ \A a : Entries(<<a>>) = {a}
    /\ \A a, b : Entries(<<a, b>>) = {a, b}
    /\ \A a, b, c : Entries(<<a, b, c>>) = {a, b, c}
    /\ \A a, b, c, d : Entries(<<a, b, c, d>>) = {a, b, c, d}
    /\ \A a, b, c, d, e : Entries(<<a, b, c, d, e>>) = {a, b, c, d, e}
    /\ \A a, b, c, d, e, f : Entries(<<a, b, c, d, e, f>>) = {a, b, c, d, e, f}
    /\ \A a, b, c, d, e, f, g : Entries(<<a, b, c, d, e, f, g>>) = {a, b, c, d, e, f, g}
    /\ \A a, b, c, d, e, f, g, h :
          Entries(<<a, b, c, d, e, f, g, h>>) = {a, b, c, d, e, f, g, h}
BY DEF Entries

LEMMA EntriesEach ==
    ASSUME NEW names, IsList(names), NEW t
    PROVE  /\ IsList(Columns(t, names)) /\ IsList(ColumnsIfMissing(t, names))
           /\ IsList(DropColumns(t, names)) /\ IsList(DropColumnsIfThere(t, names))
           /\ IsList(NotNull(t, names)) /\ IsList(Each(OldTable, names))
           /\ IsList(Each(CascadeIfThere, names))
           /\ Entries(Columns(t, names)) =
                 {Statement("add_column", t, c, {c}, FALSE) : c \in Entries(names)}
           /\ Entries(ColumnsIfMissing(t, names)) =
                 {Statement("add_column", t, c, {c}, TRUE) : c \in Entries(names)}
           /\ Entries(DropColumns(t, names)) =
                 {Statement("drop_column", t, c, {c}, FALSE) : c \in Entries(names)}
           /\ Entries(DropColumnsIfThere(t, names)) =
                 {Statement("drop_column", t, c, {c}, TRUE) : c \in Entries(names)}
           /\ Entries(NotNull(t, names)) =
                 {Statement("set_not_null", t, c, {c}, FALSE) : c \in Entries(names)}
           /\ Entries(Each(OldTable, names)) = {OldTable(c) : c \in Entries(names)}
           /\ Entries(Each(CascadeIfThere, names)) = {CascadeIfThere(c) : c \in Entries(names)}
<1> DEFINE n == Len(names)
           A == [i \in 1 .. n |-> Statement("add_column", t, names[i], {names[i]}, FALSE)]
           B == [i \in 1 .. n |-> Statement("add_column", t, names[i], {names[i]}, TRUE)]
           C == [i \in 1 .. n |-> Statement("drop_column", t, names[i], {names[i]}, FALSE)]
           D == [i \in 1 .. n |-> Statement("drop_column", t, names[i], {names[i]}, TRUE)]
           E == [i \in 1 .. n |-> Statement("set_not_null", t, names[i], {names[i]}, FALSE)]
           F == [i \in 1 .. n |-> OldTable(names[i])]
           G == [i \in 1 .. n |-> CascadeIfThere(names[i])]
<1>1. /\ Columns(t, names) = A /\ ColumnsIfMissing(t, names) = B /\ DropColumns(t, names) = C
      /\ DropColumnsIfThere(t, names) = D /\ NotNull(t, names) = E /\ Each(OldTable, names) = F
      /\ Each(CascadeIfThere, names) = G /\ n \in Nat
  BY EachIs, ZenonT(60)
<1>2. DOMAIN names = 1 .. n
  BY DEF IsList
<1>3. \A f : DOMAIN f = 1 .. n /\ f = [i \in 1 .. n |-> f[i]] => IsList(f)
  <2> SUFFICES ASSUME NEW f, DOMAIN f = 1 .. n, f = [i \in 1 .. n |-> f[i]] PROVE IsList(f)
    OBVIOUS
  <2>1. f \in [1 .. n -> Entries(f)]
    BY DEF Entries
  <2> QED BY <1>1, <2>1, ListMade
<1>4. IsList(A) /\ IsList(B) /\ IsList(C) /\ IsList(D)
  BY <1>3
<1>5. IsList(E) /\ IsList(F) /\ IsList(G)
  BY <1>3
<1>6. /\ Entries(A) = {Statement("add_column", t, c, {c}, FALSE) : c \in Entries(names)}
      /\ Entries(B) = {Statement("add_column", t, c, {c}, TRUE) : c \in Entries(names)}
  BY <1>2 DEF Entries
<1>7. /\ Entries(C) = {Statement("drop_column", t, c, {c}, FALSE) : c \in Entries(names)}
      /\ Entries(D) = {Statement("drop_column", t, c, {c}, TRUE) : c \in Entries(names)}
  BY <1>2 DEF Entries
<1>8. /\ Entries(E) = {Statement("set_not_null", t, c, {c}, FALSE) : c \in Entries(names)}
      /\ Entries(F) = {OldTable(c) : c \in Entries(names)}
      /\ Entries(G) = {CascadeIfThere(c) : c \in Entries(names)}
  BY <1>2 DEF Entries
<1> QED BY <1>1, <1>4, <1>5, <1>6, <1>7, <1>8

-----------------------------------------------------------------------------
(* The age of an object of the schema: the revision whose downgrade() takes*)
(* it away by its table, by a column or by its own name; 0 if none does.   *)

FirstTables == {"warning_zones", "reviews", "services", "products", "seller_categories",
                "seller_profiles", "categories", "users"}
SixthTables == {"admin_audit_logs", "subscriptions", "subscription_plans", "coupons",
                "notifications", "messages", "conversations", "order_items", "orders",
                "wishlist_items", "cart_items", "buyer_addresses", "mfa_factors",
                "auth_tokens"}
TableAge(t) == CASE t \in FirstTables -> 1
                 [] t = "refresh_tokens" -> 3
                 [] t \in SixthTables -> 6
                 [] OTHER -> 0

FifthOfSellers == {"profile_view_count", "opening_hours", "logo_image_url"}
SixthOfSellers == {"order_count", "total_sales_mad", "is_premium", "verification_status"}
SixthOfProducts == {"is_hidden", "sku", "stock_quantity"}
SixthOfTokens == {"last_seen_at", "user_agent", "ip_address", "device_name"}
SixthOfUsers == {"mfa_enabled", "premium_until", "is_premium", "last_login_at", "role",
                 "status", "phone", "email_verified_at"}
PeerColumns == {"participant_a_id", "participant_b_id", "context_seller_id"}
LegacyColumns == {"buyer_id", "seller_id"}
ScoreColumns == {"product_quality", "customer_service", "communication", "trustworthiness"}
AverageColumns == {"avg_product_quality", "avg_customer_service", "avg_communication",
               "avg_trustworthiness"}
ColumnAge(t, c) ==
    CASE t = "seller_profiles" /\ c \in FifthOfSellers -> 5
      [] t = "seller_profiles" /\ c \in SixthOfSellers -> 6
      [] t = "products" /\ c \in SixthOfProducts -> 6
      [] t = "refresh_tokens" /\ c \in SixthOfTokens -> 6
      [] t = "users" /\ c \in SixthOfUsers -> 6
      [] t = "conversations" /\ c \in PeerColumns -> 11
      [] t = "reviews" /\ c \in ScoreColumns -> 12
      [] t = "seller_profiles" /\ c \in AverageColumns -> 12
      [] t = "seller_profiles" /\ c = "golden_crowns" -> 13
      [] OTHER -> 0
(* tables that no later revision gives a column                            *)
Whole(t) == t \notin {"users", "refresh_tokens", "products", "seller_profiles", "reviews",
                      "conversations"}

ThirdNames == {"ix_refresh_tokens_token_hash", "ix_refresh_tokens_user_id"}
FourthNames == {"ck_reviews_rating_range", "ix_seller_profiles_is_active",
                "ix_reviews_buyer_id", "ix_reviews_seller_id", "ix_services_seller_id",
                "ix_products_seller_id"}
EighthNames == {"ix_conversations_last_message", "ix_contact_events_created_at",
                "ix_recently_viewed_viewed_at", "ix_seller_follows_seller_id",
                "uq_favorites_user_seller", "uq_favorites_user_product"}
TenthNames == {"ix_seller_profiles_active_premium_rating", "ix_messages_conversation_created"}
EleventhNames == {"uq_conversation_participants", "fk_conversations_participant_a",
                  "fk_conversations_participant_b", "fk_conversations_context_seller",
                  "ix_conversations_participant_a_id", "ix_conversations_participant_b_id",
                  "ix_conversations_context_seller_id"}
NameAge(name) == CASE name \in ThirdNames -> 3
                   [] name \in FourthNames -> 4
                   [] name \in EighthNames -> 8
                   [] name \in TenthNames -> 10
                   [] name \in EleventhNames -> 11
                   [] OTHER -> 0

Named(o) == o.kind \in {"index", "unique", "constraint"}
(* on the columns that 011 drops, and its downgrade() brings back          *)
Legacy006(o) == o.table = "conversations" /\ o.cols \cap LegacyColumns # {}

(* It is taken away by undoing n, and                                      *)
Born(o, n) ==
    \/ TableAge(o.table) = n
    \/ \E c \in o.cols : ColumnAge(o.table, c) = n
    \/ Named(o) /\ NameAge(o.name) = n
    \/ o.kind = "reference" /\ TableAge(o.name) = n
    \/ o.kind = "numeric" /\ n = 9
(* by undoing nothing that came after n.                                   *)
Aged(o, n) ==
    /\ TableAge(o.table) <= n
    /\ \A c \in o.cols : ColumnAge(o.table, c) <= n
    /\ Named(o) => NameAge(o.name) <= n
    /\ o.kind = "reference" => TableAge(o.name) <= n
    /\ o.kind = "numeric" => n >= 9 /\ \E i \in 1 .. 3 :
          o = Object("numeric", Priced[i], "price_mad", {"price_mad"})
(* A foreign key goes with its own constraint only.                        *)
Tame(o) ==
    /\ o.kind = "reference" => o.cols # {"rating"}
    /\ o.kind = "constraint" =>
          \/ o.cols = {"rating"} /\ NameAge(o.name) = 4
          \/ (\E c \in o.cols : ColumnAge(o.table, c) = 11) /\ NameAge(o.name) = 11
    /\ Named(o) /\ Legacy006(o) => NameAge(o.name) = 0
    /\ Named(o) /\ o.name = "uq_conversation_buyer_seller" => Legacy006(o)

(* the objects that a statement creates                                    *)
Creates(s) ==
    LET t == s.table
        References == {Object("reference", t, ref[2], {ref[1]}) : ref \in s.refs}
    IN
    CASE s.op = "create_table" ->
            {Table(t)} \cup {Column(t, c) : c \in s.cols} \cup References
              \cup {Required(t, c) : c \in s.required}
              \cup {Object("unique", t, u[1], u[2]) : u \in s.uniques}
      [] s.op = "add_column" -> {Column(t, s.name)}
      [] s.op = "set_not_null" -> {Required(t, s.name)}
      [] s.op = "create_index" -> {Object("index", t, s.name, s.cols)}
      [] s.op = "create_unique" -> {Object("unique", t, s.name, s.cols)}
      [] s.op = "add_check" -> {Object("constraint", t, s.name, s.cols)}
      [] s.op = "add_foreign_key" -> {Object("constraint", t, s.name, s.cols)} \cup References
      [] s.op = "to_numeric" -> {Object("numeric", t, s.name, s.cols)}
      [] OTHER -> {}
(* the objects that it removes, whatever else there is                     *)
Removes(s, o) ==
    \/ s.op \in {"drop_table", "drop_cascade"} /\ (o.table = s.table \/ (o.kind = "reference" /\ o.name = s.table))
    \/ s.op = "drop_column" /\ o.table = s.table /\ s.name \in o.cols
    \/ s.op = "drop_object" /\ Named(o) /\ o.name = s.name
    \/ s.op = "to_double" /\ o = Object("numeric", s.table, s.name, s.cols)
Adding(s) == s.op \notin {"drop_table", "drop_cascade", "drop_column", "drop_object", "to_double"}
Taking(s) == s.op \in {"drop_table", "drop_cascade", "drop_column", "drop_object", "to_double", "rows"}

LEMMA AlteredCreates == \A S, s : Altered(S, s) \subseteq S \cup Creates(s)
<1> SUFFICES ASSUME NEW S, NEW s PROVE Altered(S, s) \subseteq S \cup Creates(s)
  OBVIOUS
<1>1. CASE s.op = "create_table"
  BY <1>1 DEF Altered, Creates
<1>2. CASE s.op = "add_foreign_key"
  BY <1>2 DEF Altered, Creates
<1>3. CASE s.op \in {"create_index", "create_unique", "add_check"}
  BY <1>3 DEF Altered, Creates
<1>4. CASE s.op \notin {"create_table", "add_foreign_key", "create_index", "create_unique", "add_check"}
  BY <1>4 DEF Altered, Creates
<1> QED BY <1>1, <1>2, <1>3, <1>4

LEMMA AlteredAdds == \A S, s : Adding(s) => S \subseteq Altered(S, s)
BY DEF Altered, Adding

LEMMA AlteredTakes == \A S, s : Taking(s) => Creates(s) = {} /\ Altered(S, s) \subseteq S
BY DEF Altered, Taking, Creates

LEMMA AlteredRemoves == \A S, s, o : Removes(s, o) => o \notin Altered(S, s)
BY DEF Altered, Removes, Named

(* What a statement takes away besides: the foreign key of a constraint.   *)
LEMMA AlteredKeeps ==
    ASSUME NEW S, NEW s, NEW o \in S, o \notin Altered(S, s)
    PROVE  \/ Removes(s, o)
           \/ /\ s.op = "drop_object" /\ o.kind = "reference" /\ o.table = s.table
              /\ \E x \in S : x.kind = "constraint" /\ x.name = s.name /\ x.cols = o.cols
<1>1. CASE s.op \in {"drop_table", "drop_cascade", "drop_column", "drop_object", "to_double"}
  BY <1>1 DEF Altered, Removes, Named
<1>2. CASE Adding(s)
  BY <1>2, AlteredAdds
<1> QED BY <1>1, <1>2 DEF Adding

Makes(s, n) == \A o \in Creates(s) : Aged(o, n) /\ Tame(o) /\ (n # 7 => Born(o, n))

LEMMA AgesAre ==
    /\ \A t : TableAge(t) \in {0, 1, 3, 6}
    /\ \A t, c : ColumnAge(t, c) \in {0, 5, 6, 11, 12, 13}
    /\ \A name : NameAge(name) \in {0, 3, 4, 8, 10, 11}
    /\ \A t, c : Whole(t) => ColumnAge(t, c) = 0
BY DEF TableAge, ColumnAge, NameAge, Whole

(* what the columns, foreign keys and unique constraints of a new table of *)
(* revision n have to be                                                   *)
(* what the columns, foreign keys and unique constraints of a new table of *)
(* revision n have to be                                                   *)
Columned(t, cols, n) == \A c \in cols : ColumnAge(t, c) <= n
Refers(t, refs, n) ==
    \A ref \in refs : ColumnAge(t, ref[1]) <= n /\ TableAge(ref[2]) <= n /\ ref[1] # "rating"
Spared(t, cols) == t # "conversations" \/ cols \cap LegacyColumns = {}
Uniquely(t, uniques, n) ==
    \A u \in uniques : /\ NameAge(u[1]) <= n /\ Columned(t, u[2], n)
                       /\ Spared(t, u[2]) \/ NameAge(u[1]) = 0
                       /\ u[1] = "uq_conversation_buyer_seller" => ~Spared(t, u[2])

LEMMA MakesTable ==
    ASSUME NEW t, NEW a, NEW b, NEW refs, NEW uniques, NEW n \in 1 .. 13,
           TableAge(t) <= n, n # 7 => TableAge(t) = n,
           Columned(t, a \cup b, n), Refers(t, refs, n), Uniquely(t, uniques, n)
    PROVE  Makes(NewTable(t, a, b, refs, uniques), n)
<1> DEFINE s == NewTable(t, a, b, refs, uniques)
<1>1. /\ s.op = "create_table" /\ s.table = t /\ s.cols = a \cup b /\ s.required = a
      /\ s.refs = refs /\ s.uniques = uniques
  BY DEF NewTable, Statement
<1> HIDE DEF s
<1>2. SUFFICES ASSUME NEW o \in Creates(s)
               PROVE  Aged(o, n) /\ Tame(o) /\ (n # 7 => Born(o, n))
  BY DEF Makes, s
<1>3. o.table = t /\ (n # 7 => Born(o, n))
  BY <1>1 DEF Creates, Object, Table, Column, Required, Born
<1>4. CASE o = Table(t)
  BY <1>3, <1>4 DEF Table, Object, Aged, Tame, Named
<1>5. CASE \E c \in a \cup b : o = Column(t, c) \/ o = Required(t, c)
  BY <1>3, <1>5 DEF Column, Required, Object, Aged, Tame, Named, Columned
<1>6. CASE \E ref \in refs : o = Object("reference", t, ref[2], {ref[1]})
  BY <1>3, <1>6 DEF Object, Aged, Tame, Named, Refers
<1>7. CASE \E u \in uniques : o = Object("unique", t, u[1], u[2])
  BY <1>3, <1>7 DEF Object, Aged, Tame, Named, Uniquely, Columned, Spared, Legacy006
<1> QED BY <1>1, <1>4, <1>5, <1>6, <1>7 DEF Creates

(* the statements that create one object                                   *)
LEMMA MakesColumn ==
    ASSUME NEW t, NEW c, NEW lenient, NEW n \in 1 .. 13,
           TableAge(t) <= n, ColumnAge(t, c) <= n, n # 7 => ColumnAge(t, c) = n
    PROVE  /\ Makes(Statement("add_column", t, c, {c}, lenient), n)
           /\ Makes(Statement("set_not_null", t, c, {c}, lenient), n)
BY DEF Makes, Creates, Statement, Column, Required, Object, Aged, Tame, Named, Born

LEMMA MakesNamed ==
    ASSUME NEW name, NEW t, NEW cols, NEW n \in 1 .. 13,
           Spared(t, cols) \/ NameAge(name) = 0,
           TableAge(t) <= n, Columned(t, cols, n), NameAge(name) <= n,
           n # 7 => TableAge(t) = n \/ NameAge(name) = n,
           name # "uq_conversation_buyer_seller"
    PROVE  /\ Makes(Index(name, t, cols), n) /\ Makes(UniqueIndex(name, t, cols), n)
           /\ Makes(IndexIfMissing(name, t, cols), n)
           /\ Makes(UniqueIfMissing(name, t, cols), n)
<1>1. \A kind \in {"index", "unique"} :
        LET o == Object(kind, t, name, cols) IN Aged(o, n) /\ Tame(o) /\ (n # 7 => Born(o, n))
  BY DEF Object, Aged, Tame, Named, Born, Columned, Legacy006, Spared
<1>2. \A op \in {"create_index", "create_unique"}, l \in BOOLEAN :
         Makes(Statement(op, t, name, cols, l), n)
  BY <1>1 DEF Makes, Creates, Statement
<1> QED BY <1>2 DEF Index, UniqueIndex, IndexIfMissing, UniqueIfMissing

LEMMA MakesCheck == Makes(Check("ck_reviews_rating_range", "reviews", {"rating"}), 4)
<1>1. NameAge("ck_reviews_rating_range") = 4 /\ TableAge("reviews") = 1
      /\ ColumnAge("reviews", "rating") = 0
  BY DEF NameAge, ThirdNames, FourthNames, EighthNames, TenthNames, EleventhNames, TableAge,
         FirstTables, SixthTables, ColumnAge, ScoreColumns
<1>2. Legacy006(Object("constraint", "reviews", "ck_reviews_rating_range", {"rating"})) = FALSE
  BY DEF Legacy006, Object
<1> QED BY <1>1, <1>2 DEF Makes, Check, Statement, Creates, Object, Aged, Tame, Named, Born

LEMMA MakesForeign ==
    ASSUME NEW name, NEW c, NEW target, NameAge(name) = 11, ColumnAge("conversations", c) = 11,
           TableAge(target) <= 11, c \notin LegacyColumns, name # "uq_conversation_buyer_seller"
    PROVE  Makes(Foreign(name, "conversations", c, target), 11)
<1> DEFINE s == Foreign(name, "conversations", c, target)
<1>1. /\ s.op = "add_foreign_key" /\ s.table = "conversations" /\ s.cols = {c}
      /\ s.refs = {<<c, target>>} /\ s.name = name
  BY DEF Foreign, Statement
<1> HIDE DEF s
<1>2. TableAge("conversations") = 6 /\ c # "rating"
  BY DEF TableAge, FirstTables, SixthTables, ColumnAge, PeerColumns
<1>3. Creates(s) = {Object("constraint", "conversations", name, {c}),
                    Object("reference", "conversations", target, {c})}
  BY <1>1 DEF Creates
<1>4. LET o == Object("constraint", "conversations", name, {c})
      IN Aged(o, 11) /\ Tame(o) /\ Born(o, 11)
  BY <1>2 DEF Object, Aged, Tame, Named, Born, Legacy006
<1>5. LET o == Object("reference", "conversations", target, {c})
      IN Aged(o, 11) /\ Tame(o) /\ Born(o, 11)
  BY <1>2 DEF Object, Aged, Tame, Named, Born, Legacy006
<1> QED BY <1>3, <1>4, <1>5 DEF Makes, s

LEMMA MakesNumeric ==
    ASSUME NEW i \in 1 .. 3
    PROVE  Makes(Retype(Priced[i], "price_mad", "to_numeric"), 9)
<1>1. Priced[i] \in {"products", "services", "subscription_plans"}
  BY DEF Priced
<1>2. TableAge(Priced[i]) <= 9 /\ ColumnAge(Priced[i], "price_mad") <= 9
  BY <1>1 DEF TableAge, FirstTables, SixthTables, ColumnAge, SixthOfProducts
<1> QED BY <1>2 DEF Makes, Retype, Statement, Creates, Object, Aged, Tame, Named, Born

LEMMA MakesNothing == \A s, n : Taking(s) => Makes(s, n)
BY AlteredTakes DEF Makes

-----------------------------------------------------------------------------
(* What each upgrade() makes is of its revision's age.                     *)

AllMake(script, n) == IsList(script) /\ \A s \in Entries(script) : Makes(s, n)

LEMMA AllMakeJoin ==
    \A s, t, n : AllMake(s, n) /\ AllMake(t, n) => AllMake(s \o t, n)
BY EntriesJoin DEF AllMake

LEMMA AllMakeTuples ==
    ASSUME NEW n
    PROVE  /\ \A a : Makes(a, n) => AllMake(<<a>>, n)
           /\ \A a, b : Makes(a, n) /\ Makes(b, n) => AllMake(<<a, b>>, n)
           /\ \A a, b, c : Makes(a, n) /\ Makes(b, n) /\ Makes(c, n) => AllMake(<<a, b, c>>, n)
BY EntriesTuples, Tuples DEF AllMake

LEMMA AllMakeColumns ==
    ASSUME NEW t, NEW names, IsList(names), NEW n \in 1 .. 13, TableAge(t) <= n,
           \A c \in Entries(names) : ColumnAge(t, c) <= n /\ (n # 7 => ColumnAge(t, c) = n)
    PROVE  /\ AllMake(Columns(t, names), n) /\ AllMake(ColumnsIfMissing(t, names), n)
           /\ AllMake(NotNull(t, names), n)
<1>1. \A c \in Entries(names), l \in BOOLEAN :
         /\ Makes(Statement("add_column", t, c, {c}, l), n)
         /\ Makes(Statement("set_not_null", t, c, {c}, l), n)
  BY MakesColumn
<1>2. /\ IsList(Columns(t, names))
      /\ Entries(Columns(t, names)) =
           {Statement("add_column", t, c, {c}, FALSE) : c \in Entries(names)}
  BY EntriesEach
<1>3. /\ IsList(ColumnsIfMissing(t, names))
      /\ Entries(ColumnsIfMissing(t, names)) =
           {Statement("add_column", t, c, {c}, TRUE) : c \in Entries(names)}
  BY EntriesEach
<1>4. /\ IsList(NotNull(t, names))
      /\ Entries(NotNull(t, names)) =
           {Statement("set_not_null", t, c, {c}, FALSE) : c \in Entries(names)}
  BY EntriesEach, ZenonT(60)
<1>5. AllMake(Columns(t, names), n)
  BY <1>1, <1>2 DEF AllMake
<1>6. AllMake(ColumnsIfMissing(t, names), n)
  BY <1>1, <1>3 DEF AllMake
<1>7. AllMake(NotNull(t, names), n)
  BY <1>1, <1>4 DEF AllMake
<1> QED BY <1>5, <1>6, <1>7

LEMMA AllMakeDrops ==
    ASSUME NEW t, NEW names, IsList(names), NEW n
    PROVE  /\ AllMake(DropColumnsIfThere(t, names), n) /\ AllMake(Each(CascadeIfThere, names), n)
<1>1. \A c : Taking(Statement("drop_column", t, c, {c}, TRUE)) /\ Taking(CascadeIfThere(c))
  BY DEF Taking, Statement, CascadeIfThere
<1>2. \A c : /\ Makes(Statement("drop_column", t, c, {c}, TRUE), n)
             /\ Makes(CascadeIfThere(c), n)
  BY <1>1, MakesNothing
<1>3. /\ IsList(DropColumnsIfThere(t, names))
      /\ Entries(DropColumnsIfThere(t, names)) =
           {Statement("drop_column", t, c, {c}, TRUE) : c \in Entries(names)}
  BY EntriesEach
<1>4. /\ IsList(Each(CascadeIfThere, names))
      /\ Entries(Each(CascadeIfThere, names)) = {CascadeIfThere(c) : c \in Entries(names)}
  BY EntriesEach
<1> QED BY <1>2, <1>3, <1>4 DEF AllMake

LEMMA RowsTake == \A t, name, cols : Taking(Rows(t, name, cols))
BY DEF Taking, Rows, Statement

LEMMA AllMakeAt ==
    ASSUME NEW s, IsList(s), NEW n, \A i \in 1 .. Len(s) : Makes(s[i], n)
    PROVE  AllMake(s, n)
BY DEF AllMake, Entries, IsList

LEMMA EarlyTables ==
    /\ \A t \in FirstTables : TableAge(t) = 1
    /\ TableAge("refresh_tokens") = 3
    /\ \A t \in SixthTables : TableAge(t) = 6
    /\ \A t \in {"favorites", "seller_follows", "saved_searches", "recently_viewed", "reports",
                 "contact_events"} : TableAge(t) = 0
BY DEF TableAge, FirstTables, SixthTables

(* names that no downgrade() drops by name, and columns that none drops    *)
PlainNames == {"users_firebase_uid_key", "users_email_key", "ix_users_email",
               "ix_users_firebase_uid", "categories_slug_key",
               "seller_profiles_user_id_key", "ix_seller_profiles_city",
               "seller_categories_pkey", "uq_review_seller_buyer",
               "auth_tokens_token_hash_key", "ix_auth_tokens_user_id",
               "ix_auth_tokens_purpose", "ix_mfa_factors_user_id",
               "ix_buyer_addresses_user_id", "uq_cart_user_product",
               "ix_cart_items_user_id", "uq_wishlist_user_product",
               "ix_wishlist_items_user_id", "ix_orders_buyer_id",
               "ix_orders_seller_id", "ix_orders_status", "ix_order_items_order_id",
               "ix_conversations_buyer_id", "ix_conversations_seller_id",
               "ix_messages_conversation_id", "ix_notifications_user_id",
               "uq_coupon_seller_code", "ix_coupons_seller_id",
               "subscription_plans_code_key", "ix_subscriptions_user_id",
               "ix_admin_audit_logs_actor_id", "ix_favorites_user_id",
               "ix_favorites_product_id", "ix_favorites_seller_id",
               "uq_follow_user_seller", "ix_seller_follows_user_id",
               "ix_saved_searches_user_id", "ix_recently_viewed_user_id",
               "ix_reports_status", "ix_contact_events_seller_id"}
PlainColumns == {"firebase_uid", "email", "account_type", "password_hash", "display_name",
                 "created_at", "business_name", "address", "city", "latitude",
                 "longitude", "user_id", "description", "cover_image_url",
                 "achievement_stars", "average_rating", "review_count", "is_active",
                 "name", "seller_id", "price_mad", "image_url", "is_available",
                 "rating", "buyer_id", "comment", "updated_at", "token_hash",
                 "expires_at", "revoked", "last_message_at", "product_id"}

LEMMA PlainAre ==
    /\ \A name \in PlainNames : NameAge(name) = 0 /\ name # "uq_conversation_buyer_seller"
    /\ \A t, c : Whole(t) \/ c \in PlainColumns => ColumnAge(t, c) = 0
<1>1. \A name \in PlainNames : NameAge(name) = 0 /\ name # "uq_conversation_buyer_seller"
  BY DEF NameAge, ThirdNames, FourthNames, EighthNames, TenthNames, EleventhNames,
     PlainNames
<1>2. \A t, c : c \in PlainColumns => ColumnAge(t, c) = 0
  BY DEF ColumnAge, FifthOfSellers, SixthOfSellers, SixthOfProducts, SixthOfTokens,
     SixthOfUsers, PeerColumns, ScoreColumns, AverageColumns, PlainColumns
<1> QED BY <1>1, <1>2, AgesAre

LEMMA MakesPlain ==
    ASSUME NEW t, NEW a, NEW b, NEW refs, NEW uniques, NEW n \in 1 .. 13,
           TableAge(t) <= n, n # 7 => TableAge(t) = n,
           Whole(t) \/ a \cup b \subseteq PlainColumns,
           \A ref \in refs : ref[1] \in a \cup b /\ TableAge(ref[2]) <= n /\ ref[1] # "rating",
           \A u \in uniques : u[1] \in PlainNames /\ u[2] \subseteq a \cup b
    PROVE  Makes(NewTable(t, a, b, refs, uniques), n)
<1>1. \A c \in a \cup b : ColumnAge(t, c) = 0
  BY PlainAre
<1>2. Columned(t, a \cup b, n) /\ Refers(t, refs, n)
  BY <1>1 DEF Columned, Refers
<1>3. Uniquely(t, uniques, n)
  BY <1>1, PlainAre DEF Uniquely, Columned
<1> QED BY <1>2, <1>3, MakesTable

LEMMA MakesIndex ==
    ASSUME NEW name \in PlainNames, NEW t, NEW cols, NEW n \in 1 .. 13,
           TableAge(t) <= n, n # 7 => TableAge(t) = n, Whole(t) \/ cols \subseteq PlainColumns
    PROVE  Makes(Index(name, t, cols), n)
<1>1. Columned(t, cols, n)
  BY PlainAre DEF Columned
<1> QED BY <1>1, PlainAre, MakesNamed

LEMMA MakesIndexOf ==
    ASSUME NEW name \in PlainNames, NEW t, NEW c \in PlainColumns, NEW n \in 1 .. 13,
           TableAge(t) <= n, n # 7 => TableAge(t) = n
    PROVE  Makes(Index(name, t, {c}), n)
BY MakesIndex

LEMMA Made001Sellers == AllMake(Up001Sellers, 1)
<1>1. IsList(Up001Sellers) /\ Len(Up001Sellers) = 7
  BY Tuples DEF Up001Sellers
<1>2. /\ TableAge("users") = 1 /\ TableAge("categories") = 1 /\ TableAge("seller_profiles") = 1
      /\ TableAge("seller_categories") = 1
  BY EarlyTables DEF FirstTables, SixthTables
<1>3. Makes(Up001Sellers[1], 1) /\ Makes(Up001Sellers[2], 1) /\ Makes(Up001Sellers[3], 1) /\ Makes(Up001Sellers[4], 1)
  <2>1. Makes(Up001Sellers[1], 1)
    BY <1>2, MakesPlain DEF Up001Sellers, Whole, PlainNames, PlainColumns
  <2>2. Makes(Up001Sellers[2], 1)
    <3>1. Up001Sellers[2] = Index("ix_users_email", "users", {"email"})
      BY DEF Up001Sellers
    <3>2. "ix_users_email" \in PlainNames /\ "email" \in PlainColumns
      BY DEF PlainNames, PlainColumns
    <3> QED BY <1>2, <3>1, <3>2, MakesIndexOf
  <2>3. Makes(Up001Sellers[3], 1)
    <3>1. Up001Sellers[3] = Index("ix_users_firebase_uid", "users", {"firebase_uid"})
      BY DEF Up001Sellers
    <3>2. "ix_users_firebase_uid" \in PlainNames /\ "firebase_uid" \in PlainColumns
      BY DEF PlainNames, PlainColumns
    <3> QED BY <1>2, <3>1, <3>2, MakesIndexOf
  <2>4. Makes(Up001Sellers[4], 1)
    BY <1>2, MakesPlain DEF Up001Sellers, Whole, PlainNames
  <2> QED BY <2>1, <2>2, <2>3, <2>4
<1>4. Makes(Up001Sellers[5], 1)
  <2>1. /\ \A c \in {"business_name", "address", "city", "latitude", "longitude"} \cup
                   {"user_id", "description", "phone", "cover_image_url", "achievement_stars",
                    "average_rating", "review_count", "is_active", "created_at"} :
              ColumnAge("seller_profiles", c) = 0
        /\ NameAge("seller_profiles_user_id_key") = 0
    BY PlainAre DEF ColumnAge, FifthOfSellers, SixthOfSellers, SixthOfProducts,
       SixthOfTokens, SixthOfUsers, PeerColumns, ScoreColumns, AverageColumns, PlainNames,
       PlainColumns
  <2> QED BY <1>2, <2>1, MakesTable DEF Up001Sellers, Columned, Refers, Uniquely
<1>5. Makes(Up001Sellers[6], 1) /\ Makes(Up001Sellers[7], 1)
  <2>1. Makes(Up001Sellers[6], 1)
    <3>1. Up001Sellers[6] = Index("ix_seller_profiles_city", "seller_profiles", {"city"})
      BY DEF Up001Sellers
    <3>2. "ix_seller_profiles_city" \in PlainNames /\ "city" \in PlainColumns
      BY DEF PlainNames, PlainColumns
    <3> QED BY <1>2, <3>1, <3>2, MakesIndexOf
  <2>2. Makes(Up001Sellers[7], 1)
    BY <1>2, MakesPlain DEF Up001Sellers, Whole, PlainNames
  <2> QED BY <2>1, <2>2
<1> QED BY <1>1, <1>3, <1>4, <1>5, AllMakeAt

LEMMA Made001Listings == AllMake(Up001Listings, 1)
<1>1. IsList(Up001Listings) /\ Len(Up001Listings) = 4
  BY Tuples DEF Up001Listings
<1>2. /\ TableAge("users") = 1 /\ TableAge("seller_profiles") = 1 /\ TableAge("products") = 1
      /\ TableAge("services") = 1 /\ TableAge("reviews") = 1 /\ TableAge("warning_zones") = 1
  BY EarlyTables DEF FirstTables, SixthTables
<1>3. Makes(Up001Listings[1], 1) /\ Makes(Up001Listings[2], 1) /\ Makes(Up001Listings[3], 1) /\ Makes(Up001Listings[4], 1)
  <2>1. Makes(Up001Listings[1], 1)
    BY <1>2, MakesPlain DEF Up001Listings, Whole, PlainNames, PlainColumns
  <2>2. Makes(Up001Listings[2], 1)
    BY <1>2, MakesPlain DEF Up001Listings, Whole
  <2>3. Makes(Up001Listings[3], 1)
    BY <1>2, MakesPlain DEF Up001Listings, Whole, PlainNames, PlainColumns
  <2>4. Makes(Up001Listings[4], 1)
    BY <1>2, MakesPlain DEF Up001Listings, Whole
  <2> QED BY <2>1, <2>2, <2>3, <2>4
<1> QED BY <1>1, <1>3, AllMakeAt

LEMMA Made003 == AllMake(Up003, 3)
<1>1. IsList(Up003) /\ Len(Up003) = 3
  BY Tuples DEF Up003
<1>2. /\ TableAge("users") = 1 /\ TableAge("refresh_tokens") = 3
  BY EarlyTables DEF FirstTables, SixthTables
<1>3. Makes(Up003[1], 3)
  BY <1>2, MakesPlain DEF Up003, Whole, PlainNames, PlainColumns
<1>4. Makes(Up003[2], 3)
  BY <1>2, MakesNamed DEF Up003, Whole, Spared, Columned, NameAge, ThirdNames,
     FourthNames, EighthNames, TenthNames, EleventhNames, ColumnAge, FifthOfSellers,
     SixthOfSellers, SixthOfProducts, SixthOfTokens, SixthOfUsers, PeerColumns,
     ScoreColumns, AverageColumns
<1>5. Makes(Up003[3], 3)
  BY <1>2, MakesNamed DEF Up003, Whole, Spared, Columned, NameAge, ThirdNames,
     FourthNames, EighthNames, TenthNames, EleventhNames, ColumnAge, FifthOfSellers,
     SixthOfSellers, SixthOfProducts, SixthOfTokens, SixthOfUsers, PeerColumns,
     ScoreColumns, AverageColumns
<1> QED BY <1>1, <1>3, <1>4, <1>5, AllMakeAt

LEMMA Made004 == AllMake(Up004, 4)
<1>1. IsList(Up004) /\ Len(Up004) = 6
  BY Tuples DEF Up004
<1>2. /\ TableAge("products") = 1 /\ TableAge("services") = 1 /\ TableAge("reviews") = 1
      /\ TableAge("seller_profiles") = 1
  BY EarlyTables DEF FirstTables, SixthTables
<1>3. Makes(Up004[1], 4)
  BY <1>2, MakesNamed, PlainAre DEF Up004, Spared, Columned, PlainColumns, NameAge,
     ThirdNames, FourthNames, EighthNames, TenthNames, EleventhNames
<1>4. Makes(Up004[2], 4)
  BY <1>2, MakesNamed, PlainAre DEF Up004, Spared, Columned, PlainColumns, NameAge,
     ThirdNames, FourthNames, EighthNames, TenthNames, EleventhNames
<1>5. Makes(Up004[3], 4)
  BY <1>2, MakesNamed, PlainAre DEF Up004, Spared, Columned, PlainColumns, NameAge,
     ThirdNames, FourthNames, EighthNames, TenthNames, EleventhNames
<1>6. Makes(Up004[4], 4)
  BY <1>2, MakesNamed, PlainAre DEF Up004, Spared, Columned, PlainColumns, NameAge,
     ThirdNames, FourthNames, EighthNames, TenthNames, EleventhNames
<1>7. Makes(Up004[5], 4)
  BY <1>2, MakesNamed, PlainAre DEF Up004, Spared, Columned, PlainColumns, NameAge,
     ThirdNames, FourthNames, EighthNames, TenthNames, EleventhNames
<1>8. Makes(Up004[6], 4)
  BY MakesCheck DEF Up004
<1> QED BY <1>1, <1>3, <1>4, <1>5, <1>6, <1>7, <1>8, AllMakeAt

LEMMA Made006Accounts == AllMake(Up006Accounts, 6)
<1>1. IsList(Up006Accounts) /\ Len(Up006Accounts) = 5
  BY Tuples DEF Up006Accounts
<1>2. /\ TableAge("users") = 1 /\ TableAge("auth_tokens") = 6 /\ TableAge("mfa_factors") = 6
  BY EarlyTables DEF FirstTables, SixthTables
<1>3. Makes(Up006Accounts[1], 6) /\ Makes(Up006Accounts[2], 6) /\ Makes(Up006Accounts[3], 6) /\ Makes(Up006Accounts[4], 6)
  <2>1. Makes(Up006Accounts[1], 6)
    BY <1>2, MakesPlain DEF Up006Accounts, Whole, PlainNames
  <2>2. Makes(Up006Accounts[2], 6)
    BY <1>2, MakesIndex DEF Up006Accounts, Whole, PlainNames
  <2>3. Makes(Up006Accounts[3], 6)
    BY <1>2, MakesIndex DEF Up006Accounts, Whole, PlainNames
  <2>4. Makes(Up006Accounts[4], 6)
    BY <1>2, MakesPlain DEF Up006Accounts, Whole
  <2> QED BY <2>1, <2>2, <2>3, <2>4
<1>4. Makes(Up006Accounts[5], 6)
  BY <1>2, MakesIndex DEF Up006Accounts, Whole, PlainNames
<1> QED BY <1>1, <1>3, <1>4, AllMakeAt

LEMMA Made006Carts == AllMake(Up006Carts, 6)
<1>1. IsList(Up006Carts) /\ Len(Up006Carts) = 6
  BY Tuples DEF Up006Carts
<1>2. /\ TableAge("users") = 1 /\ TableAge("products") = 1 /\ TableAge("seller_profiles") = 1
      /\ TableAge("buyer_addresses") = 6 /\ TableAge("cart_items") = 6 /\ TableAge("wishlist_items") = 6
  BY EarlyTables DEF FirstTables, SixthTables
<1>3. Makes(Up006Carts[1], 6) /\ Makes(Up006Carts[2], 6) /\ Makes(Up006Carts[3], 6) /\ Makes(Up006Carts[4], 6)
  <2>1. Makes(Up006Carts[1], 6)
    BY <1>2, MakesPlain DEF Up006Carts, Whole
  <2>2. Makes(Up006Carts[2], 6)
    BY <1>2, MakesIndex DEF Up006Carts, Whole, PlainNames
  <2>3. Makes(Up006Carts[3], 6)
    BY <1>2, MakesPlain DEF Up006Carts, Whole, PlainNames
  <2>4. Makes(Up006Carts[4], 6)
    BY <1>2, MakesIndex DEF Up006Carts, Whole, PlainNames
  <2> QED BY <2>1, <2>2, <2>3, <2>4
<1>4. Makes(Up006Carts[5], 6) /\ Makes(Up006Carts[6], 6)
  <2>1. Makes(Up006Carts[5], 6)
    BY <1>2, MakesPlain DEF Up006Carts, Whole, PlainNames
  <2>2. Makes(Up006Carts[6], 6)
    BY <1>2, MakesIndex DEF Up006Carts, Whole, PlainNames
  <2> QED BY <2>1, <2>2
<1> QED BY <1>1, <1>3, <1>4, AllMakeAt

LEMMA Made006Orders == AllMake(Up006Orders, 6)
<1>1. IsList(Up006Orders) /\ Len(Up006Orders) = 6
  BY Tuples DEF Up006Orders
<1>2. /\ TableAge("users") = 1 /\ TableAge("products") = 1 /\ TableAge("seller_profiles") = 1
      /\ TableAge("orders") = 6 /\ TableAge("order_items") = 6
  BY EarlyTables DEF FirstTables, SixthTables
<1>3. Makes(Up006Orders[1], 6) /\ Makes(Up006Orders[2], 6) /\ Makes(Up006Orders[3], 6) /\ Makes(Up006Orders[4], 6)
  <2>1. Makes(Up006Orders[1], 6)
    BY <1>2, MakesPlain DEF Up006Orders, Whole
  <2>2. Makes(Up006Orders[2], 6)
    BY <1>2, MakesIndex DEF Up006Orders, Whole, PlainNames
  <2>3. Makes(Up006Orders[3], 6)
    BY <1>2, MakesIndex DEF Up006Orders, Whole, PlainNames
  <2>4. Makes(Up006Orders[4], 6)
    BY <1>2, MakesIndex DEF Up006Orders, Whole, PlainNames
  <2> QED BY <2>1, <2>2, <2>3, <2>4
<1>4. Makes(Up006Orders[5], 6) /\ Makes(Up006Orders[6], 6)
  <2>1. Makes(Up006Orders[5], 6)
    BY <1>2, MakesPlain DEF Up006Orders, Whole
  <2>2. Makes(Up006Orders[6], 6)
    BY <1>2, MakesIndex DEF Up006Orders, Whole, PlainNames
  <2> QED BY <2>1, <2>2
<1> QED BY <1>1, <1>3, <1>4, AllMakeAt

LEMMA Made006Messaging == AllMake(Up006Messaging, 6)
<1>1. IsList(Up006Messaging) /\ Len(Up006Messaging) = 7
  BY Tuples DEF Up006Messaging
<1>2. /\ TableAge("users") = 1 /\ TableAge("seller_profiles") = 1 /\ TableAge("conversations") = 6
      /\ TableAge("messages") = 6 /\ TableAge("notifications") = 6
  BY EarlyTables DEF FirstTables, SixthTables
<1>3. Makes(Up006Messaging[1], 6)
  <2>1. /\ \A c \in {"buyer_id", "seller_id"} \cup {"last_message_at", "created_at"} :
              ColumnAge("conversations", c) = 0
        /\ NameAge("uq_conversation_buyer_seller") = 0
    BY PlainAre DEF NameAge, ThirdNames, FourthNames, EighthNames, TenthNames,
       EleventhNames, PlainColumns
  <2>2. Uniquely("conversations",
                 {<<"uq_conversation_buyer_seller", {"buyer_id", "seller_id"}>>}, 6)
    BY <2>1 DEF Uniquely, Columned, Spared, LegacyColumns
  <2> QED BY <1>2, <2>1, <2>2, MakesTable DEF Up006Messaging, Columned, Refers
<1>4. Makes(Up006Messaging[2], 6) /\ Makes(Up006Messaging[3], 6) /\ Makes(Up006Messaging[4], 6) /\ Makes(Up006Messaging[5], 6)
  <2>1. Makes(Up006Messaging[2], 6)
    <3>1. Up006Messaging[2] = Index("ix_conversations_buyer_id", "conversations", {"buyer_id"})
      BY DEF Up006Messaging
    <3>2. "ix_conversations_buyer_id" \in PlainNames /\ "buyer_id" \in PlainColumns
      BY DEF PlainNames, PlainColumns
    <3> QED BY <1>2, <3>1, <3>2, MakesIndexOf
  <2>2. Makes(Up006Messaging[3], 6)
    <3>1. Up006Messaging[3] = Index("ix_conversations_seller_id", "conversations", {"seller_id"})
      BY DEF Up006Messaging
    <3>2. "ix_conversations_seller_id" \in PlainNames /\ "seller_id" \in PlainColumns
      BY DEF PlainNames, PlainColumns
    <3> QED BY <1>2, <3>1, <3>2, MakesIndexOf
  <2>3. Makes(Up006Messaging[4], 6)
    BY <1>2, MakesPlain DEF Up006Messaging, Whole
  <2>4. Makes(Up006Messaging[5], 6)
    BY <1>2, MakesIndex DEF Up006Messaging, Whole, PlainNames
  <2> QED BY <2>1, <2>2, <2>3, <2>4
<1>5. Makes(Up006Messaging[6], 6) /\ Makes(Up006Messaging[7], 6)
  <2>1. Makes(Up006Messaging[6], 6)
    BY <1>2, MakesPlain DEF Up006Messaging, Whole
  <2>2. Makes(Up006Messaging[7], 6)
    BY <1>2, MakesIndex DEF Up006Messaging, Whole, PlainNames
  <2> QED BY <2>1, <2>2
<1> QED BY <1>1, <1>3, <1>4, <1>5, AllMakeAt

LEMMA Made006Premium == AllMake(Up006Premium, 6)
<1>1. IsList(Up006Premium) /\ Len(Up006Premium) = 8
  BY Tuples DEF Up006Premium
<1>2. /\ TableAge("users") = 1 /\ TableAge("seller_profiles") = 1 /\ TableAge("coupons") = 6
      /\ TableAge("subscription_plans") = 6 /\ TableAge("subscriptions") = 6 /\ TableAge("admin_audit_logs") = 6
  BY EarlyTables DEF FirstTables, SixthTables
<1>3. Makes(Up006Premium[1], 6) /\ Makes(Up006Premium[2], 6) /\ Makes(Up006Premium[3], 6) /\ Makes(Up006Premium[4], 6)
  <2>1. Makes(Up006Premium[1], 6)
    BY <1>2, MakesPlain DEF Up006Premium, Whole, PlainNames
  <2>2. Makes(Up006Premium[2], 6)
    BY <1>2, MakesIndex DEF Up006Premium, Whole, PlainNames
  <2>3. Makes(Up006Premium[3], 6)
    BY <1>2, MakesPlain DEF Up006Premium, Whole, PlainNames
  <2>4. Makes(Up006Premium[4], 6)
    BY <1>2, MakesPlain DEF Up006Premium, Whole
  <2> QED BY <2>1, <2>2, <2>3, <2>4
<1>4. Makes(Up006Premium[5], 6) /\ Makes(Up006Premium[6], 6) /\ Makes(Up006Premium[7], 6)
  <2>1. Makes(Up006Premium[5], 6)
    BY <1>2, MakesIndex DEF Up006Premium, Whole, PlainNames
  <2>2. Makes(Up006Premium[6], 6)
    BY <1>2, MakesPlain DEF Up006Premium, Whole
  <2>3. Makes(Up006Premium[7], 6)
    BY <1>2, MakesIndex DEF Up006Premium, Whole, PlainNames
  <2> QED BY <2>1, <2>2, <2>3
<1>5. Makes(Up006Premium[8], 6)
  BY RowsTake, MakesNothing DEF Up006Premium
<1> QED BY <1>1, <1>3, <1>4, <1>5, AllMakeAt

(* the columns that one statement each adds or takes are of age n          *)
Dated(t, names, n) ==
    IsList(names) /\ \A c \in Entries(names) : ColumnAge(t, c) <= n /\ (n # 7 => ColumnAge(t, c) = n)

LEMMA MadeColumns ==
    ASSUME NEW t, NEW names, NEW n \in 1 .. 13, TableAge(t) <= n, Dated(t, names, n)
    PROVE  /\ AllMake(Columns(t, names), n) /\ AllMake(ColumnsIfMissing(t, names), n)
           /\ AllMake(NotNull(t, names), n)
BY AllMakeColumns DEF Dated

LEMMA MadeRows == \A t, name, cols, n : AllMake(<<Rows(t, name, cols)>>, n)
BY RowsTake, MakesNothing, AllMakeTuples

LEMMA Made001 == AllMake(Up001, 1)
BY Made001Sellers, Made001Listings, AllMakeJoin DEF Up001

LEMMA Made002 == AllMake(Up002, 2)
BY MadeRows DEF Up002

LEMMA Dated005 ==
    /\ Dated("seller_profiles", <<"logo_image_url", "opening_hours", "profile_view_count">>, 5)
    /\ Dated("seller_profiles", <<"profile_view_count", "opening_hours", "logo_image_url">>, 5)
BY DEF Dated, IsList, Entries, ColumnAge, FifthOfSellers, SixthOfSellers,
   SixthOfProducts, SixthOfTokens, SixthOfUsers, PeerColumns, ScoreColumns, AverageColumns

LEMMA Made005 == AllMake(Up005, 5)
<1>1. TableAge("seller_profiles") = 1
  BY EarlyTables DEF FirstTables
<1> QED BY <1>1, Dated005, MadeColumns DEF Up005

LEMMA Dated006 ==
    /\ Dated("users", <<"email_verified_at", "phone", "status", "role", "last_login_at",
                        "is_premium", "premium_until", "mfa_enabled">>, 6)
    /\ Dated("refresh_tokens", <<"device_name", "ip_address", "user_agent", "last_seen_at">>, 6)
    /\ Dated("products", <<"stock_quantity", "sku", "is_hidden">>, 6)
    /\ Dated("seller_profiles", <<"verification_status", "is_premium",
                                  "total_sales_mad", "order_count">>, 6)
<1>1. Dated("users", <<"email_verified_at", "phone", "status", "role", "last_login_at",
                       "is_premium", "premium_until", "mfa_enabled">>, 6)
  BY DEF Dated, IsList, Entries, ColumnAge, FifthOfSellers, SixthOfSellers,
     SixthOfProducts, SixthOfTokens, SixthOfUsers, PeerColumns, ScoreColumns, AverageColumns
<1>2. Dated("refresh_tokens", <<"device_name", "ip_address", "user_agent", "last_seen_at">>, 6)
  BY DEF Dated, IsList, Entries, ColumnAge, FifthOfSellers, SixthOfSellers,
     SixthOfProducts, SixthOfTokens, SixthOfUsers, PeerColumns, ScoreColumns, AverageColumns
<1>3. Dated("products", <<"stock_quantity", "sku", "is_hidden">>, 6)
  BY DEF Dated, IsList, Entries, ColumnAge, FifthOfSellers, SixthOfSellers,
     SixthOfProducts, SixthOfTokens, SixthOfUsers, PeerColumns, ScoreColumns, AverageColumns
<1>4. Dated("seller_profiles", <<"verification_status", "is_premium",
                                 "total_sales_mad", "order_count">>, 6)
  BY DEF Dated, IsList, Entries, ColumnAge, FifthOfSellers, SixthOfSellers,
     SixthOfProducts, SixthOfTokens, SixthOfUsers, PeerColumns, ScoreColumns, AverageColumns
<1> QED BY <1>1, <1>2, <1>3, <1>4

LEMMA Made006 == AllMake(Up006, 6)
<1>1. TableAge("seller_profiles") = 1 /\ TableAge("users") = 1 /\ TableAge("products") = 1
      /\ TableAge("refresh_tokens") = 3
  BY EarlyTables DEF FirstTables
<1>2. /\ AllMake(Columns("users", <<"email_verified_at", "phone", "status", "role",
                 "last_login_at", "is_premium", "premium_until", "mfa_enabled">>), 6)
      /\ AllMake(Columns("refresh_tokens",
                         <<"device_name", "ip_address", "user_agent", "last_seen_at">>), 6)
      /\ AllMake(Columns("products", <<"stock_quantity", "sku", "is_hidden">>), 6)
      /\ AllMake(Columns("seller_profiles", <<"verification_status", "is_premium",
                                              "total_sales_mad", "order_count">>), 6)
  BY <1>1, Dated006, MadeColumns
<1>3. AllMake(Up006Columns, 6)
  BY <1>2, AllMakeJoin DEF Up006Columns
<1> QED BY <1>3, Made006Accounts, Made006Carts, Made006Orders, Made006Messaging, Made006Premium,
           AllMakeJoin DEF Up006

LEMMA Made007Columns ==
    /\ AllMake(Up007Commerce, 7) /\ AllMake(Up007Sellers, 7) /\ AllMake(Up007Listings, 7)
<1>1. TableAge("seller_profiles") = 1 /\ TableAge("products") = 1 /\ TableAge("services") = 1
  BY EarlyTables DEF FirstTables
<1>2. Dated("seller_profiles",
        <<"website_url", "instagram_url", "facebook_url", "tiktok_url", "whatsapp_number",
          "payment_methods", "delivery_methods", "service_areas", "avg_response_minutes",
          "inquiry_count", "favorite_count", "contact_click_count">>, 7)
  BY DEF Dated, IsList, Entries, ColumnAge, FifthOfSellers, SixthOfSellers,
     SixthOfProducts, SixthOfTokens, SixthOfUsers, PeerColumns, ScoreColumns, AverageColumns
<1>3. Dated("products",
        <<"price_negotiable", "availability_note", "accepted_payment_methods",
          "delivery_options", "is_featured", "is_paused", "media_urls", "video_url",
          "category_slug">>, 7)
  BY DEF Dated, IsList, Entries, ColumnAge, FifthOfSellers, SixthOfSellers,
     SixthOfProducts, SixthOfTokens, SixthOfUsers, PeerColumns, ScoreColumns, AverageColumns
<1>4. Dated("services", <<"price_negotiable", "coverage_areas", "is_featured">>, 7)
  BY DEF Dated, IsList, Entries, ColumnAge, FifthOfSellers, SixthOfSellers,
     SixthOfProducts, SixthOfTokens, SixthOfUsers, PeerColumns, ScoreColumns, AverageColumns
<1>5. /\ AllMake(DropColumnsIfThere("seller_profiles", <<"total_sales_mad", "order_count">>), 7)
      /\ AllMake(DropColumnsIfThere("products", <<"sku">>), 7)
      /\ AllMake(Up007Commerce, 7)
  BY Tuples, AllMakeDrops DEF Up007Commerce
<1>6. AllMake(<<CascadeIfThere("wishlist_items")>>, 7)
  <2>1. Taking(CascadeIfThere("wishlist_items"))
    BY DEF Taking, CascadeIfThere, Statement
  <2> QED BY <2>1, MakesNothing, AllMakeTuples
<1>7. AllMake(Up007Sellers, 7)
  BY <1>1, <1>2, <1>5, MadeColumns, AllMakeJoin DEF Up007Sellers
<1>8. AllMake(Up007Listings, 7)
  BY <1>1, <1>3, <1>4, <1>5, <1>6, MadeColumns, AllMakeJoin DEF Up007Listings
<1> QED BY <1>5, <1>7, <1>8

LEMMA Made007Follows == AllMake(Up007Follows, 7)
<1>1. IsList(Up007Follows) /\ Len(Up007Follows) = 6
  BY Tuples DEF Up007Follows
<1>2. /\ TableAge("users") = 1 /\ TableAge("products") = 1 /\ TableAge("seller_profiles") = 1
      /\ TableAge("favorites") = 0 /\ TableAge("seller_follows") = 0
  BY EarlyTables DEF FirstTables, SixthTables
<1>3. Makes(Up007Follows[1], 7) /\ Makes(Up007Follows[2], 7) /\ Makes(Up007Follows[3], 7) /\ Makes(Up007Follows[4], 7)
  <2>1. Makes(Up007Follows[1], 7)
    BY <1>2, MakesPlain DEF Up007Follows, Whole
  <2>2. Makes(Up007Follows[2], 7)
    BY <1>2, MakesIndex DEF Up007Follows, Whole, PlainNames
  <2>3. Makes(Up007Follows[3], 7)
    BY <1>2, MakesIndex DEF Up007Follows, Whole, PlainNames
  <2>4. Makes(Up007Follows[4], 7)
    BY <1>2, MakesIndex DEF Up007Follows, Whole, PlainNames
  <2> QED BY <2>1, <2>2, <2>3, <2>4
<1>4. Makes(Up007Follows[5], 7) /\ Makes(Up007Follows[6], 7)
  <2>1. Makes(Up007Follows[5], 7)
    BY <1>2, MakesPlain DEF Up007Follows, Whole, PlainNames
  <2>2. Makes(Up007Follows[6], 7)
    BY <1>2, MakesIndex DEF Up007Follows, Whole, PlainNames
  <2> QED BY <2>1, <2>2
<1> QED BY <1>1, <1>3, <1>4, AllMakeAt

LEMMA Made007Discovery == AllMake(Up007Discovery, 7)
<1>1. IsList(Up007Discovery) /\ Len(Up007Discovery) = 8
  BY Tuples DEF Up007Discovery
<1>2. /\ TableAge("users") = 1 /\ TableAge("products") = 1 /\ TableAge("seller_profiles") = 1
      /\ TableAge("saved_searches") = 0 /\ TableAge("recently_viewed") = 0 /\ TableAge("reports") = 0
      /\ TableAge("contact_events") = 0
  BY EarlyTables DEF FirstTables
<1>3. Makes(Up007Discovery[1], 7) /\ Makes(Up007Discovery[2], 7) /\ Makes(Up007Discovery[3], 7) /\ Makes(Up007Discovery[4], 7)
  <2>1. Makes(Up007Discovery[1], 7)
    BY <1>2, MakesPlain DEF Up007Discovery, Whole
  <2>2. Makes(Up007Discovery[2], 7)
    BY <1>2, MakesIndex DEF Up007Discovery, Whole, PlainNames
  <2>3. Makes(Up007Discovery[3], 7)
    BY <1>2, MakesPlain DEF Up007Discovery, Whole
  <2>4. Makes(Up007Discovery[4], 7)
    BY <1>2, MakesIndex DEF Up007Discovery, Whole, PlainNames
  <2> QED BY <2>1, <2>2, <2>3, <2>4
<1>4. Makes(Up007Discovery[5], 7) /\ Makes(Up007Discovery[6], 7) /\ Makes(Up007Discovery[7], 7) /\ Makes(Up007Discovery[8], 7)
  <2>1. Makes(Up007Discovery[5], 7)
    BY <1>2, MakesPlain DEF Up007Discovery, Whole
  <2>2. Makes(Up007Discovery[6], 7)
    BY <1>2, MakesIndex DEF Up007Discovery, Whole, PlainNames
  <2>3. Makes(Up007Discovery[7], 7)
    BY <1>2, MakesPlain DEF Up007Discovery, Whole
  <2>4. Makes(Up007Discovery[8], 7)
    BY <1>2, MakesIndex DEF Up007Discovery, Whole, PlainNames
  <2> QED BY <2>1, <2>2, <2>3, <2>4
<1> QED BY <1>1, <1>3, <1>4, AllMakeAt

LEMMA Made007 == AllMake(Up007, 7)
BY Made007Columns, Made007Follows, Made007Discovery, AllMakeJoin DEF Up007

LEMMA Made008 == AllMake(Up008, 8)
<1>1. IsList(Up008) /\ Len(Up008) = 8
  BY Tuples DEF Up008
<1>2. Makes(Up008[1], 8) /\ Makes(Up008[2], 8)
  BY RowsTake, MakesNothing DEF Up008
<1>3. /\ TableAge("favorites") = 0 /\ TableAge("seller_follows") = 0
      /\ TableAge("recently_viewed") = 0 /\ TableAge("contact_events") = 0
      /\ TableAge("conversations") = 6
  BY EarlyTables DEF SixthTables
<1>4. /\ \A name \in EighthNames : NameAge(name) = 8
      /\ ColumnAge("conversations", "last_message_at") = 0
  BY PlainAre DEF NameAge, ThirdNames, FourthNames, EighthNames, TenthNames,
     EleventhNames, PlainColumns
<1>5. Makes(Up008[3], 8) /\ Makes(Up008[4], 8) /\ Makes(Up008[5], 8) /\ Makes(Up008[6], 8)
      /\ Makes(Up008[7], 8)
  BY <1>3, <1>4, AgesAre, MakesNamed DEF Up008, EighthNames, Columned, Whole, Spared
<1>6. Makes(Up008[8], 8)
  BY <1>3, <1>4, MakesNamed DEF Up008, EighthNames, Columned, Spared, LegacyColumns
<1> QED BY <1>1, <1>2, <1>5, <1>6, AllMakeAt

LEMMA Are009 ==
    /\ IsList(Up009) /\ Entries(Up009) = {Retype(Priced[i], "price_mad", "to_numeric") : i \in 1 .. 3}
    /\ IsList(Down009) /\ Entries(Down009) = {Retype(Priced[i], "price_mad", "to_double") : i \in 1 .. 3}
<1> DEFINE A == [i \in 1 .. 3 |-> Retype(Priced[i], "price_mad", "to_numeric")]
           B == [i \in 1 .. 3 |-> Retype(Priced[i], "price_mad", "to_double")]
<1>1. DOMAIN Priced = 1 .. 3
  BY DEF Priced
<1>2. Up009 = A /\ Down009 = B
  BY <1>1 DEF Up009, Down009, Each
<1>3. IsList(Up009) /\ IsList(Down009)
  BY CalmUp009 DEF AllCalm
<1>4. /\ Entries(A) = {Retype(Priced[i], "price_mad", "to_numeric") : i \in 1 .. 3}
      /\ Entries(B) = {Retype(Priced[i], "price_mad", "to_double") : i \in 1 .. 3}
  BY DEF Entries
<1> QED BY <1>2, <1>3, <1>4

LEMMA Made009 == AllMake(Up009, 9)
BY Are009, MakesNumeric DEF AllMake

LEMMA Made010 == AllMake(Up010, 10)
<1>1. /\ TableAge("messages") = 6 /\ TableAge("seller_profiles") = 1
      /\ \A name \in TenthNames : NameAge(name) = 10
  BY EarlyTables DEF FirstTables, SixthTables, NameAge, ThirdNames, FourthNames,
     EighthNames, TenthNames, EleventhNames
<1>2. /\ \A c \in {"conversation_id", "created_at"} : ColumnAge("messages", c) = 0
      /\ ColumnAge("seller_profiles", "is_active") = 0
      /\ ColumnAge("seller_profiles", "is_premium") = 6
      /\ ColumnAge("seller_profiles", "average_rating") = 0
  BY DEF ColumnAge, FifthOfSellers, SixthOfSellers, SixthOfProducts, SixthOfTokens,
     SixthOfUsers, PeerColumns, ScoreColumns, AverageColumns
<1>3. /\ Makes(IndexIfMissing("ix_messages_conversation_created", "messages",
                              {"conversation_id", "created_at"}), 10)
      /\ Makes(IndexIfMissing("ix_seller_profiles_active_premium_rating", "seller_profiles",
                              {"is_active", "is_premium", "average_rating"}), 10)
  BY <1>1, <1>2, MakesNamed DEF TenthNames, Columned, Spared
<1> QED BY <1>3, AllMakeTuples DEF Up010

LEMMA Made011 == AllMake(Up011, 11)
<1> DEFINE three == Peers \o <<"context_seller_id">>
           F == << Foreign("fk_conversations_participant_a", "conversations", "participant_a_id", "users"),
          Foreign("fk_conversations_participant_b", "conversations", "participant_b_id", "users"),
          Foreign("fk_conversations_context_seller", "conversations", "context_seller_id",
                  "seller_profiles"),
          IndexIfMissing("ix_conversations_participant_a_id", "conversations",
                         {"participant_a_id"}),
          IndexIfMissing("ix_conversations_participant_b_id", "conversations",
                         {"participant_b_id"}),
          IndexIfMissing("ix_conversations_context_seller_id", "conversations",
                         {"context_seller_id"}),
          UniqueIfMissing("uq_conversation_participants", "conversations",
                          {"participant_a_id", "participant_b_id"}),
          DropIfThere("uq_conversation_buyer_seller", "conversations") >>
<1>1. /\ IsList(Peers) /\ Entries(Peers) = {"participant_a_id", "participant_b_id"}
      /\ IsList(three) /\ Entries(three) = PeerColumns /\ IsList(Legacy)
  <2>1. IsList(Peers) /\ IsList(<<"context_seller_id">>) /\ IsList(Legacy)
        /\ Entries(Peers) = {"participant_a_id", "participant_b_id"}
        /\ Entries(<<"context_seller_id">>) = {"context_seller_id"}
    BY Tuples, EntriesTuples DEF Peers, Legacy
  <2> QED BY <2>1, EntriesJoin DEF PeerColumns
<1>2. /\ TableAge("conversations") = 6 /\ TableAge("users") = 1
      /\ TableAge("seller_profiles") = 1
      /\ \A c \in PeerColumns : ColumnAge("conversations", c) = 11
      /\ \A name \in EleventhNames : NameAge(name) = 11
  BY EarlyTables DEF FirstTables, SixthTables, ColumnAge, PeerColumns, NameAge, ThirdNames,
     FourthNames, EighthNames, TenthNames, EleventhNames
<1>3. /\ AllMake(ColumnsIfMissing("conversations", three), 11)
      /\ AllMake(NotNull("conversations", Peers), 11)
      /\ AllMake(DropColumnsIfThere("conversations", Legacy), 11)
  <2> HIDE DEF three
  <2>1. Dated("conversations", three, 11) /\ Dated("conversations", Peers, 11)
    BY <1>1, <1>2 DEF Dated, PeerColumns
  <2> QED BY <1>1, <1>2, <2>1, MadeColumns, AllMakeDrops
<1>4. AllMake(Up011Rows, 11)
  BY RowsTake, MakesNothing, AllMakeTuples DEF Up011Rows, Backfill
<1>5. AllMake(F, 11)
  <2>1. IsList(F) /\ Len(F) = 8
    BY Tuples
  <2>2. Makes(F[1], 11) /\ Makes(F[2], 11) /\ Makes(F[3], 11)
    BY <1>2, MakesForeign DEF EleventhNames, PeerColumns, LegacyColumns
  <2>3. Makes(F[4], 11) /\ Makes(F[5], 11) /\ Makes(F[6], 11) /\ Makes(F[7], 11)
    BY <1>2, MakesNamed DEF EleventhNames, PeerColumns, LegacyColumns, Columned, Spared
  <2>4. Makes(F[8], 11)
    <3>1. Taking(DropIfThere("uq_conversation_buyer_seller", "conversations"))
      BY DEF Taking, DropIfThere, Statement
    <3> QED BY <3>1, MakesNothing
  <2> HIDE DEF F
  <2> QED BY <2>1, <2>2, <2>3, <2>4, AllMakeAt
<1>6. Up011 = ColumnsIfMissing("conversations", three) \o Up011Rows
              \o NotNull("conversations", Peers) \o F \o DropColumnsIfThere("conversations", Legacy)
  BY DEF Up011
<1> HIDE DEF F, three
<1> QED BY <1>3, <1>4, <1>5, <1>6, AllMakeJoin

LEMMA Dated012 ==
    /\ Dated("reviews", Scores, 12) /\ Dated("seller_profiles", Averages, 12)
    /\ Dated("seller_profiles", <<"golden_crowns">>, 13)
    /\ Entries(Scores) = ScoreColumns /\ Entries(Averages) = AverageColumns
<1>1. IsList(Scores) /\ Entries(Scores) = ScoreColumns
  BY Tuples, EntriesTuples DEF Scores, ScoreColumns
<1>2. IsList(Averages) /\ Entries(Averages) = AverageColumns
  BY Tuples, EntriesTuples DEF Averages, AverageColumns
<1>3. IsList(<<"golden_crowns">>) /\ Entries(<<"golden_crowns">>) = {"golden_crowns"}
  BY Tuples, EntriesTuples
<1>4. /\ \A c \in ScoreColumns : ColumnAge("reviews", c) = 12
      /\ \A c \in AverageColumns : ColumnAge("seller_profiles", c) = 12
      /\ ColumnAge("seller_profiles", "golden_crowns") = 13
  BY DEF ColumnAge, FifthOfSellers, SixthOfSellers, SixthOfProducts, SixthOfTokens,
     SixthOfUsers, PeerColumns, ScoreColumns, AverageColumns
<1> QED BY <1>1, <1>2, <1>3, <1>4 DEF Dated

LEMMA Made012 == AllMake(Up012, 12) /\ AllMake(Up013, 13)
<1>1. TableAge("reviews") = 1 /\ TableAge("seller_profiles") = 1
  BY EarlyTables DEF FirstTables
<1>2. /\ AllMake(ColumnsIfMissing("reviews", Scores), 12)
      /\ AllMake(NotNull("reviews", Scores), 12)
      /\ AllMake(ColumnsIfMissing("seller_profiles", Averages), 12)
      /\ AllMake(ColumnsIfMissing("seller_profiles", <<"golden_crowns">>), 13)
  BY <1>1, Dated012, MadeColumns
<1> QED BY <1>2, MadeRows, AllMakeJoin DEF Up012, Up013

LEMMA Made == \A n \in 1 .. 13 : AllMake(Up[n], n)
<1>1. AllMake(Up003, 3) /\ AllMake(Up004, 4)
  BY Made003, Made004
<1>2. /\ Up[1] = Up001 /\ Up[2] = Up002 /\ Up[3] = Up003 /\ Up[4] = Up004
      /\ Up[5] = Up005 /\ Up[6] = Up006 /\ Up[7] = Up007 /\ Up[8] = Up008
      /\ Up[9] = Up009 /\ Up[10] = Up010 /\ Up[11] = Up011 /\ Up[12] = Up012
      /\ Up[13] = Up013
  BY Zenon DEF Up
<1>3. \A n \in 1 .. 13 : n = 1 \/ n = 2 \/ n = 3 \/ n = 4 \/ n = 5 \/ n = 6 \/ n = 7 \/ n = 8
                         \/ n = 9 \/ n = 10 \/ n = 11 \/ n = 12 \/ n = 13
  OBVIOUS
<1> QED BY <1>1, <1>2, <1>3, Made001, Made002, Made005, Made006, Made007, Made008, Made009,
           Made010, Made011, Made012

-----------------------------------------------------------------------------
(* What each downgrade() takes away is what its upgrade() made.            *)

Drops(script, o) == \E s \in Entries(script) : Removes(s, o)
AllTake(script, n) ==
    IsList(script) /\ \A s \in Entries(script) : Taking(s) /\ \A o : Removes(s, o) => Born(o, n)
Covers(script, n) == \A o : Born(o, n) /\ Aged(o, n) => Drops(script, o)

LEMMA TakeJoin ==
    /\ \A s, t, n : AllTake(s, n) /\ AllTake(t, n) => AllTake(s \o t, n)
    /\ \A s, t, o : IsList(s) /\ IsList(t) /\ (Drops(s, o) \/ Drops(t, o)) => Drops(s \o t, o)
<1>1. \A s, t, n : AllTake(s, n) /\ AllTake(t, n) => AllTake(s \o t, n)
  BY EntriesJoin DEF AllTake
<1>2. \A s, t, o : IsList(s) /\ IsList(t) /\ (Drops(s, o) \/ Drops(t, o)) => Drops(s \o t, o)
  BY EntriesJoin DEF Drops
<1> QED BY <1>1, <1>2

LEMMA TakesTable ==
    \A t, n : TableAge(t) = n =>
        Taking(OldTable(t)) /\ \A o : Removes(OldTable(t), o) => Born(o, n)
BY DEF OldTable, Statement, Taking, Removes, Born

LEMMA TakesColumn ==
    \A t, c, n : ColumnAge(t, c) = n =>
        \A l \in BOOLEAN : LET s == Statement("drop_column", t, c, {c}, l)
                           IN Taking(s) /\ \A o : Removes(s, o) => Born(o, n)
BY DEF Statement, Taking, Removes, Born

LEMMA TakesName ==
    \A name, t, n : NameAge(name) = n =>
        /\ Taking(Drop(name, t)) /\ Taking(DropIfThere(name, t))
        /\ \A o : Removes(Drop(name, t), o) \/ Removes(DropIfThere(name, t), o) => Born(o, n)
BY DEF Drop, DropIfThere, Statement, Taking, Removes, Born

LEMMA TakesRows ==
    \A t, name, cols, o : Taking(Rows(t, name, cols)) /\ ~Removes(Rows(t, name, cols), o)
BY DEF Rows, Statement, Taking, Removes

LEMMA AllTakeTuples ==
    ASSUME NEW s, IsList(s), NEW n,
           \A i \in 1 .. Len(s) : Taking(s[i]) /\ \A o : Removes(s[i], o) => Born(o, n)
    PROVE  AllTake(s, n)
BY DEF AllTake, Entries, IsList

LEMMA AllTakeTables ==
    ASSUME NEW names, IsList(names), NEW n, \A t \in Entries(names) : TableAge(t) = n
    PROVE  /\ AllTake(Each(OldTable, names), n)
           /\ \A o : o.table \in Entries(names) \/ (o.kind = "reference" /\ o.name \in Entries(names))
                     => Drops(Each(OldTable, names), o)
<1>1. /\ IsList(Each(OldTable, names))
      /\ Entries(Each(OldTable, names)) = {OldTable(c) : c \in Entries(names)}
  BY EntriesEach
<1>2. \A t, o : o.table = t \/ (o.kind = "reference" /\ o.name = t) => Removes(OldTable(t), o)
  BY DEF OldTable, Statement, Removes
<1>3. AllTake(Each(OldTable, names), n)
  BY <1>1, TakesTable DEF AllTake
<1>4. \A o : o.table \in Entries(names) \/ (o.kind = "reference" /\ o.name \in Entries(names))
             => Drops(Each(OldTable, names), o)
  BY <1>1, <1>2 DEF Drops
<1> QED BY <1>3, <1>4

LEMMA AllTakeColumns ==
    ASSUME NEW t, NEW names, NEW n \in 1 .. 13, n # 7, Dated(t, names, n)
    PROVE  /\ AllTake(DropColumns(t, names), n) /\ AllTake(DropColumnsIfThere(t, names), n)
           /\ \A o : o.table = t /\ o.cols \cap Entries(names) # {}
                     => Drops(DropColumns(t, names), o) /\ Drops(DropColumnsIfThere(t, names), o)
<1>1. /\ IsList(DropColumns(t, names)) /\ IsList(DropColumnsIfThere(t, names))
      /\ Entries(DropColumns(t, names)) =
           {Statement("drop_column", t, c, {c}, FALSE) : c \in Entries(names)}
      /\ Entries(DropColumnsIfThere(t, names)) =
           {Statement("drop_column", t, c, {c}, TRUE) : c \in Entries(names)}
  BY EntriesEach, ZenonT(60) DEF Dated
<1>2. \A c, o, l : o.table = t /\ c \in o.cols => Removes(Statement("drop_column", t, c, {c}, l), o)
  BY DEF Statement, Removes
<1>3. \A c \in Entries(names), l \in BOOLEAN :
         LET s == Statement("drop_column", t, c, {c}, l)
         IN Taking(s) /\ \A o : Removes(s, o) => Born(o, n)
  BY TakesColumn DEF Dated
<1>4. AllTake(DropColumns(t, names), n) /\ AllTake(DropColumnsIfThere(t, names), n)
  BY <1>1, <1>3 DEF AllTake
<1>5. \A o : o.table = t /\ o.cols \cap Entries(names) # {}
             => Drops(DropColumns(t, names), o) /\ Drops(DropColumnsIfThere(t, names), o)
  BY <1>1, <1>2 DEF Drops
<1> QED BY <1>4, <1>5

(* who was born when                                                       *)
LEMMA BornWhen ==
    ASSUME NEW o, NEW n \in 1 .. 13, Born(o, n)
    PROVE  /\ n \in {2, 4, 5, 8, 9, 10, 11, 12, 13} =>
                \/ \E c \in o.cols : ColumnAge(o.table, c) = n
                \/ Named(o) /\ NameAge(o.name) = n
                \/ o.kind = "numeric" /\ n = 9
           /\ n \in {1, 2, 3, 4, 8, 9, 10} => \A c \in o.cols : ColumnAge(o.table, c) # n
           /\ n \in {1, 2, 5, 6, 9, 12, 13} => ~(Named(o) /\ NameAge(o.name) = n)
BY AgesAre DEF Born

LEMMA Take001 == AllTake(Down001, 1) /\ Covers(Down001, 1)
<1> DEFINE names == <<"warning_zones", "reviews", "services", "products", "seller_categories",
                      "seller_profiles", "categories", "users">>
<1>1. IsList(names) /\ Entries(names) = FirstTables
  BY Tuples, EntriesTuples DEF FirstTables
<1>2. \A t : t \in FirstTables <=> TableAge(t) = 1
  BY DEF TableAge, FirstTables, SixthTables
<1>3. Down001 = Each(OldTable, names)
  BY DEF Down001
<1> HIDE DEF names
<1>4. \A o : Born(o, 1) =>
          o.table \in FirstTables \/ (o.kind = "reference" /\ o.name \in FirstTables)
  BY <1>2, BornWhen DEF Born
<1> QED BY <1>1, <1>2, <1>3, <1>4, AllTakeTables DEF Covers

LEMMA Take002 == AllTake(Down002, 2) /\ Covers(Down002, 2)
<1>1. AllTake(Down002, 2)
  BY TakesRows, EntriesTuples, Tuples DEF AllTake, Down002
<1>2. \A o : ~Born(o, 2)
  BY AgesAre DEF Born
<1> QED BY <1>1, <1>2 DEF Covers

LEMMA Take003 == AllTake(Down003, 3) /\ Covers(Down003, 3)
<1>1. IsList(Down003) /\ Entries(Down003) =
        {Drop("ix_refresh_tokens_token_hash", "refresh_tokens"),
         Drop("ix_refresh_tokens_user_id", "refresh_tokens"), OldTable("refresh_tokens")}
  BY Tuples, EntriesTuples DEF Down003
<1>2. /\ \A name : name \in ThirdNames <=> NameAge(name) = 3
      /\ \A t : t = "refresh_tokens" <=> TableAge(t) = 3
  BY DEF NameAge, ThirdNames, FourthNames, EighthNames, TenthNames, EleventhNames, TableAge,
     FirstTables, SixthTables
<1>3. AllTake(Down003, 3)
  BY <1>1, <1>2, TakesName, TakesTable DEF AllTake, ThirdNames
<1>4. ASSUME NEW o, Born(o, 3) PROVE Drops(Down003, o)
  <2>1. \/ o.table = "refresh_tokens" \/ (o.kind = "reference" /\ o.name = "refresh_tokens")
        \/ Named(o) /\ o.name \in ThirdNames
    BY <1>2, <1>4, BornWhen DEF Born
  <2> QED BY <1>1, <2>1 DEF Drops, Removes, Drop, OldTable, Statement, ThirdNames
<1> QED BY <1>3, <1>4 DEF Covers

LEMMA Take004 == AllTake(Down004, 4) /\ Covers(Down004, 4)
<1>1. /\ IsList(Down004) /\ Len(Down004) = 6
      /\ Entries(Down004) = {Down004[i] : i \in 1 .. 6}
  <2>1. IsList(Down004) /\ Len(Down004) = 6
    BY Tuples DEF Down004
  <2> QED BY <2>1 DEF Entries, IsList
<1>2. \A name : name \in FourthNames <=> NameAge(name) = 4
  BY DEF NameAge, ThirdNames, FourthNames, EighthNames, TenthNames, EleventhNames
<1>3. \A i \in 1 .. 6 : \E t : \E name \in FourthNames : Down004[i] = Drop(name, t)
  BY DEF Down004, FourthNames
<1>4. \A name \in FourthNames : \E t : \E i \in 1 .. 6 : Down004[i] = Drop(name, t)
  BY DEF Down004, FourthNames
<1>5. AllTake(Down004, 4)
  BY <1>1, <1>2, <1>3, TakesName, AllTakeTuples
<1>6. ASSUME NEW o, Born(o, 4) PROVE Drops(Down004, o)
  <2>1. Named(o) /\ o.name \in FourthNames
    BY <1>2, <1>6, BornWhen DEF Born
  <2> QED BY <1>1, <1>4, <2>1 DEF Drops, Removes, Drop, Statement
<1> QED BY <1>5, <1>6 DEF Covers

LEMMA Take005 == AllTake(Down005, 5) /\ Covers(Down005, 5)
<1> DEFINE names == <<"profile_view_count", "opening_hours", "logo_image_url">>
<1>1. Dated("seller_profiles", names, 5) /\ Entries(names) = FifthOfSellers
  BY Dated005, EntriesTuples DEF FifthOfSellers
<1>2. Down005 = DropColumns("seller_profiles", names)
  BY DEF Down005
<1> HIDE DEF names
<1>3. \A t, c : ColumnAge(t, c) = 5 => t = "seller_profiles" /\ c \in FifthOfSellers
  BY DEF ColumnAge
<1>4. \A o : Born(o, 5) => o.table = "seller_profiles" /\ o.cols \cap FifthOfSellers # {}
  BY <1>3, BornWhen
<1> QED BY <1>1, <1>2, <1>4, AllTakeColumns DEF Covers

LEMMA Take008 == AllTake(Down008, 8) /\ Covers(Down008, 8)
<1>1. /\ IsList(Down008) /\ Len(Down008) = 6
      /\ Entries(Down008) = {Down008[i] : i \in 1 .. 6}
  <2>1. IsList(Down008) /\ Len(Down008) = 6
    BY Tuples DEF Down008
  <2> QED BY <2>1 DEF Entries, IsList
<1>2. \A name : name \in EighthNames <=> NameAge(name) = 8
  BY DEF NameAge, ThirdNames, FourthNames, EighthNames, TenthNames, EleventhNames
<1>3. \A i \in 1 .. 6 : \E t : \E name \in EighthNames : Down008[i] = DropIfThere(name, t)
  BY DEF Down008, EighthNames
<1>4. \A name \in EighthNames : \E t : \E i \in 1 .. 6 : Down008[i] = DropIfThere(name, t)
  BY DEF Down008, EighthNames
<1>5. AllTake(Down008, 8)
  BY <1>1, <1>2, <1>3, TakesName, AllTakeTuples
<1>6. ASSUME NEW o, Born(o, 8) PROVE Drops(Down008, o)
  <2>1. Named(o) /\ o.name \in EighthNames
    BY <1>2, <1>6, BornWhen DEF Born
  <2> QED BY <1>1, <1>4, <2>1 DEF Drops, Removes, DropIfThere, Statement
<1> QED BY <1>5, <1>6 DEF Covers

LEMMA Take009 == AllTake(Down009, 9) /\ Covers(Down009, 9)
<1>1. \A i \in 1 .. 3 : LET s == Retype(Priced[i], "price_mad", "to_double")
                        IN Taking(s) /\ \A o : Removes(s, o) => Born(o, 9)
  BY DEF Retype, Statement, Taking, Removes, Born, Object
<1>2. AllTake(Down009, 9)
  BY <1>1, Are009 DEF AllTake
<1>3. ASSUME NEW o, Born(o, 9), Aged(o, 9) PROVE Drops(Down009, o)
  <2>1. o.kind = "numeric"
    BY <1>3, AgesAre DEF Born
  <2>2. PICK i \in 1 .. 3 : o = Object("numeric", Priced[i], "price_mad", {"price_mad"})
    BY <1>3, <2>1 DEF Aged
  <2>3. Removes(Retype(Priced[i], "price_mad", "to_double"), o)
    BY <2>2 DEF Removes, Retype, Statement
  <2> QED BY <2>3, Are009 DEF Drops
<1> QED BY <1>2, <1>3 DEF Covers

LEMMA Take010 == AllTake(Down010, 10) /\ Covers(Down010, 10)
<1>1. IsList(Down010) /\ Entries(Down010) =
        {DropIfThere("ix_seller_profiles_active_premium_rating", "seller_profiles"),
         DropIfThere("ix_messages_conversation_created", "messages")}
  BY Tuples, EntriesTuples DEF Down010
<1>2. \A name : name \in TenthNames <=> NameAge(name) = 10
  BY DEF NameAge, ThirdNames, FourthNames, EighthNames, TenthNames, EleventhNames
<1>3. AllTake(Down010, 10)
  BY <1>1, <1>2, TakesName DEF AllTake, TenthNames
<1>4. ASSUME NEW o, Born(o, 10) PROVE Drops(Down010, o)
  <2>1. Named(o) /\ o.name \in TenthNames
    BY <1>2, <1>4, BornWhen DEF Born
  <2> QED BY <1>1, <2>1 DEF Drops, Removes, DropIfThere, Statement, TenthNames
<1> QED BY <1>3, <1>4 DEF Covers

LEMMA Take012 == AllTake(Down012, 12) /\ Covers(Down012, 12)
<1>1. /\ AllTake(DropColumnsIfThere("seller_profiles", Averages), 12)
      /\ AllTake(DropColumnsIfThere("reviews", Scores), 12)
  BY Dated012, AllTakeColumns
<1>2. \A t, c : ColumnAge(t, c) = 12 => \/ t = "seller_profiles" /\ c \in AverageColumns
                                        \/ t = "reviews" /\ c \in ScoreColumns
  BY DEF ColumnAge
<1>3. ASSUME NEW o, Born(o, 12) PROVE Drops(Down012, o)
  <2>1. \/ o.table = "seller_profiles" /\ o.cols \cap Entries(Averages) # {}
        \/ o.table = "reviews" /\ o.cols \cap Entries(Scores) # {}
    BY <1>2, <1>3, BornWhen, Dated012
  <2>2. \/ Drops(DropColumnsIfThere("seller_profiles", Averages), o)
        \/ Drops(DropColumnsIfThere("reviews", Scores), o)
    BY <2>1, Dated012, AllTakeColumns
  <2> QED BY <1>1, <2>2, TakeJoin DEF Down012, AllTake
<1> QED BY <1>1, <1>3, TakeJoin DEF Covers, Down012

LEMMA Take013 == AllTake(Down013, 13) /\ Covers(Down013, 13)
<1> DEFINE A == << Rows("seller_profiles", "join_crowns", {"golden_crowns"}) >>
           B == DropColumnsIfThere("seller_profiles", <<"golden_crowns">>)
<1>1. AllTake(A, 13)
  BY TakesRows, EntriesTuples, Tuples DEF AllTake
<1>2. /\ AllTake(B, 13)
      /\ \A o : o.table = "seller_profiles" /\ o.cols \cap {"golden_crowns"} # {} => Drops(B, o)
  BY Dated012, AllTakeColumns, EntriesTuples
<1>3. Down013 = A \o B
  BY DEF Down013
<1> HIDE DEF A, B
<1>4. \A t, c : ColumnAge(t, c) = 13 => t = "seller_profiles" /\ c = "golden_crowns"
  BY DEF ColumnAge
<1>5. ASSUME NEW o, Born(o, 13) PROVE Drops(Down013, o)
  <2>1. o.table = "seller_profiles" /\ o.cols \cap {"golden_crowns"} # {}
    BY <1>4, <1>5, BornWhen
  <2> QED BY <1>1, <1>2, <1>3, <2>1, TakeJoin DEF AllTake
<1> QED BY <1>1, <1>2, <1>3, <1>5, TakeJoin DEF Covers

LEMMA Take006Columns ==
    /\ AllTake(DropColumns("seller_profiles", <<"order_count", "total_sales_mad", "is_premium",
                                                "verification_status">>), 6)
    /\ AllTake(DropColumns("products", <<"is_hidden", "sku", "stock_quantity">>), 6)
    /\ AllTake(DropColumns("refresh_tokens",
                  <<"last_seen_at", "user_agent", "ip_address", "device_name">>), 6)
    /\ AllTake(DropColumns("users", <<"mfa_enabled", "premium_until", "is_premium",
                  "last_login_at", "role", "status", "phone", "email_verified_at">>), 6)
    /\ \A o : o.table = "seller_profiles" /\ o.cols \cap SixthOfSellers # {} =>
          Drops(DropColumns("seller_profiles", <<"order_count", "total_sales_mad", "is_premium",
                                                 "verification_status">>), o)
    /\ \A o : o.table = "products" /\ o.cols \cap SixthOfProducts # {} =>
          Drops(DropColumns("products", <<"is_hidden", "sku", "stock_quantity">>), o)
    /\ \A o : o.table = "refresh_tokens" /\ o.cols \cap SixthOfTokens # {} =>
          Drops(DropColumns("refresh_tokens",
                   <<"last_seen_at", "user_agent", "ip_address", "device_name">>), o)
    /\ \A o : o.table = "users" /\ o.cols \cap SixthOfUsers # {} =>
          Drops(DropColumns("users", <<"mfa_enabled", "premium_until", "is_premium",
                   "last_login_at", "role", "status", "phone", "email_verified_at">>), o)
<1> DEFINE s == <<"order_count", "total_sales_mad", "is_premium", "verification_status">>
           p == <<"is_hidden", "sku", "stock_quantity">>
           t == <<"last_seen_at", "user_agent", "ip_address", "device_name">>
           u == <<"mfa_enabled", "premium_until", "is_premium", "last_login_at", "role",
                  "status", "phone", "email_verified_at">>
<1>1. Entries(s) = SixthOfSellers /\ Entries(p) = SixthOfProducts /\ Entries(t) = SixthOfTokens
      /\ Entries(u) = SixthOfUsers
  BY EntriesTuples DEF SixthOfSellers, SixthOfProducts, SixthOfTokens, SixthOfUsers
<1>2. IsList(s) /\ IsList(p) /\ IsList(t) /\ IsList(u)
  BY Tuples
<1>3. /\ \A c \in SixthOfSellers : ColumnAge("seller_profiles", c) = 6
      /\ \A c \in SixthOfProducts : ColumnAge("products", c) = 6
      /\ \A c \in SixthOfTokens : ColumnAge("refresh_tokens", c) = 6
      /\ \A c \in SixthOfUsers : ColumnAge("users", c) = 6
  BY DEF ColumnAge, FifthOfSellers, SixthOfSellers, SixthOfProducts, SixthOfTokens,
     SixthOfUsers, PeerColumns, ScoreColumns, AverageColumns
<1> HIDE DEF s, p, t, u
<1>4. /\ Dated("seller_profiles", s, 6) /\ Dated("products", p, 6)
      /\ Dated("refresh_tokens", t, 6) /\ Dated("users", u, 6)
  BY <1>1, <1>2, <1>3 DEF Dated
<1>5. /\ AllTake(DropColumns("seller_profiles", s), 6) /\ AllTake(DropColumns("products", p), 6)
      /\ AllTake(DropColumns("refresh_tokens", t), 6) /\ AllTake(DropColumns("users", u), 6)
  BY <1>4, AllTakeColumns
<1>6. /\ \A o : o.table = "seller_profiles" /\ o.cols \cap SixthOfSellers # {} =>
            Drops(DropColumns("seller_profiles", s), o)
      /\ \A o : o.table = "products" /\ o.cols \cap SixthOfProducts # {} =>
            Drops(DropColumns("products", p), o)
      /\ \A o : o.table = "refresh_tokens" /\ o.cols \cap SixthOfTokens # {} =>
            Drops(DropColumns("refresh_tokens", t), o)
      /\ \A o : o.table = "users" /\ o.cols \cap SixthOfUsers # {} =>
            Drops(DropColumns("users", u), o)
  BY <1>1, <1>4, AllTakeColumns
<1> QED BY <1>5, <1>6 DEF s, p, t, u

LEMMA Take006 == AllTake(Down006, 6) /\ Covers(Down006, 6)
<1> DEFINE a == <<"admin_audit_logs", "subscriptions", "subscription_plans", "coupons",
                  "notifications", "messages", "conversations">>
           b == <<"order_items", "orders", "wishlist_items", "cart_items",
                  "buyer_addresses", "mfa_factors", "auth_tokens">>
           A == Each(OldTable, a)
           B == Each(OldTable, b)
           C == DropColumns("seller_profiles", <<"order_count", "total_sales_mad", "is_premium",
                                                 "verification_status">>)
           D == DropColumns("products", <<"is_hidden", "sku", "stock_quantity">>)
           E == DropColumns("refresh_tokens",
                            <<"last_seen_at", "user_agent", "ip_address", "device_name">>)
           F == DropColumns("users", <<"mfa_enabled", "premium_until", "is_premium",
                            "last_login_at", "role", "status", "phone", "email_verified_at">>)
<1>1. Down006 = A \o B \o C \o D \o E \o F
  BY DEF Down006
<1>2. IsList(a) /\ IsList(b) /\ Entries(a) \cup Entries(b) = SixthTables
  BY Tuples, EntriesTuples DEF SixthTables
<1>3. \A t : t \in SixthTables <=> TableAge(t) = 6
  BY DEF TableAge, FirstTables, SixthTables
<1>4. \A t, c : ColumnAge(t, c) = 6 => \/ t = "seller_profiles" /\ c \in SixthOfSellers
                                       \/ t = "products" /\ c \in SixthOfProducts
                                       \/ t = "refresh_tokens" /\ c \in SixthOfTokens
                                       \/ t = "users" /\ c \in SixthOfUsers
  BY DEF ColumnAge, FifthOfSellers, SixthOfSellers, SixthOfProducts, SixthOfTokens,
     SixthOfUsers, PeerColumns, ScoreColumns, AverageColumns
<1> HIDE DEF a, b
<1>5. /\ AllTake(A, 6) /\ AllTake(B, 6)
      /\ \A o : o.table \in SixthTables \/ (o.kind = "reference" /\ o.name \in SixthTables)
                => Drops(A, o) \/ Drops(B, o)
  BY <1>2, <1>3, AllTakeTables
<1>6. AllTake(C, 6) /\ AllTake(D, 6) /\ AllTake(E, 6) /\ AllTake(F, 6)
  BY Take006Columns
<1>7. ASSUME NEW o, Born(o, 6)
      PROVE  Drops(A, o) \/ Drops(B, o) \/ Drops(C, o) \/ Drops(D, o) \/ Drops(E, o) \/ Drops(F, o)
  <2>1. \/ o.table \in SixthTables \/ (o.kind = "reference" /\ o.name \in SixthTables)
        \/ o.table = "seller_profiles" /\ o.cols \cap SixthOfSellers # {}
        \/ o.table = "products" /\ o.cols \cap SixthOfProducts # {}
        \/ o.table = "refresh_tokens" /\ o.cols \cap SixthOfTokens # {}
        \/ o.table = "users" /\ o.cols \cap SixthOfUsers # {}
    BY <1>3, <1>4, <1>7, BornWhen DEF Born
  <2> QED BY <1>5, <2>1, Take006Columns
<1> HIDE DEF A, B, C, D, E, F
<1>8. AllTake(Down006, 6)
  BY <1>1, <1>5, <1>6, TakeJoin
<1>9. ASSUME NEW o, Born(o, 6) PROVE Drops(Down006, o)
  <2> DEFINE P == A \o B
             Q == P \o C
             R == Q \o D
             S == R \o E
  <2>1. IsList(P) /\ IsList(Q) /\ IsList(R) /\ IsList(S) /\ IsList(A) /\ IsList(B) /\ IsList(C)
        /\ IsList(D) /\ IsList(E) /\ IsList(F)
    BY <1>5, <1>6, TakeJoin DEF AllTake
  <2> HIDE DEF P, Q, R, S
  <2>2. /\ Drops(A, o) \/ Drops(B, o) => Drops(P, o)
        /\ Drops(P, o) \/ Drops(C, o) => Drops(Q, o)
        /\ Drops(Q, o) \/ Drops(D, o) => Drops(R, o)
        /\ Drops(R, o) \/ Drops(E, o) => Drops(S, o)
        /\ Drops(S, o) \/ Drops(F, o) => Drops(S \o F, o)
    BY <2>1, TakeJoin DEF P, Q, R, S
  <2>3. Down006 = S \o F
    BY <1>1 DEF P, Q, R, S
  <2> QED BY <1>7, <1>9, <2>2, <2>3
<1> QED BY <1>8, <1>9 DEF Covers

-----------------------------------------------------------------------------
(* The schemas that the statements of a script make, one after the other   *)

LEMMA UpTo ==
    ASSUME NEW n \in Nat, NEW A, 0 \in A, \A i \in 1 .. n : i - 1 \in A => i \in A
    PROVE  \A i \in 0 .. n : i \in A
<1> SUFFICES ASSUME NEW k \in 0 .. n, k \notin A PROVE FALSE
  OBVIOUS
<1> DEFINE B == {i \in 0 .. n : i \notin A}
<1>1. B \in SUBSET Nat /\ B # {}
  OBVIOUS
<1>2. PICK m \in B : \A i \in B : m <= i
  BY <1>1, LeastNat
<1>3. m \in 1 .. n /\ m - 1 \in 0 .. n /\ ~(m <= m - 1)
  BY <1>2
<1>4. m - 1 \in A
  BY <1>2, <1>3
<1> QED BY <1>2, <1>3, <1>4

LEMMA SchemasAre ==
    ASSUME NEW S, NEW f, Len(f) \in Nat
    PROVE  /\ Schemas(S, f)[0] = S
           /\ \A i \in 1 .. Len(f) : Schemas(S, f)[i] = Altered(Schemas(S, f)[i - 1], f[i])
<1> DEFINE After(g, m) ==
               g = [i \in 0 .. m |-> IF i = 0 THEN S ELSE Altered(g[i - 1], f[i])]
           A == {m \in 0 .. Len(f) : \E g : After(g, m)}
<1>1. 0 \in A
  <2> DEFINE g == [i \in 0 .. 0 |-> S]
  <2>1. g = [i \in 0 .. 0 |-> IF i = 0 THEN S ELSE Altered(g[i - 1], f[i])]
    OBVIOUS
  <2>2. After(g, 0)
    BY <2>1
  <2> HIDE DEF g, After
  <2> QED BY <2>2
<1>2. ASSUME NEW m \in 1 .. Len(f), m - 1 \in A PROVE m \in A
  <2>1. PICK g : After(g, m - 1)
    BY <1>2
  <2> DEFINE h == [i \in 0 .. m |-> IF i = m THEN Altered(g[m - 1], f[m]) ELSE g[i]]
  <2>2. \A i \in 0 .. m - 1 : h[i] = g[i]
    OBVIOUS
  <2>3. \A i \in 0 .. m : h[i] = IF i = 0 THEN S ELSE Altered(h[i - 1], f[i])
    <3> SUFFICES ASSUME NEW i \in 0 .. m PROVE h[i] = IF i = 0 THEN S ELSE Altered(h[i - 1], f[i])
      OBVIOUS
    <3>1. CASE i = m
      <4>1. h[m] = Altered(g[m - 1], f[m]) /\ h[m - 1] = g[m - 1] /\ m # 0
        BY <2>2
      <4> QED BY <3>1, <4>1
    <3>2. CASE i # m
      <4>1. i \in 0 .. m - 1 /\ h[i] = g[i] /\ (i # 0 => i - 1 \in 0 .. m - 1)
        BY <3>2
      <4>2. g[i] = IF i = 0 THEN S ELSE Altered(g[i - 1], f[i])
        BY <2>1, <4>1
      <4> QED BY <2>2, <4>1, <4>2
    <3> QED BY <3>1, <3>2
  <2>4. DOMAIN h = 0 .. m /\ h = [i \in 0 .. m |-> h[i]]
    OBVIOUS
  <2>5. After(h, m)
    <3> HIDE DEF h
    <3> QED BY <2>3, <2>4
  <2> HIDE DEF h, After
  <2> QED BY <2>5
<1>3. Len(f) \in A
  <2> HIDE DEF A
  <2>1. \A i \in 0 .. Len(f) : i \in A
    BY <1>1, <1>2, UpTo
  <2> QED BY <2>1
<1>4. PICK g : After(g, Len(f))
  BY <1>3
<1> DEFINE F == Schemas(S, f)
<1>5. F = CHOOSE h : After(h, Len(f))
  BY DEF Schemas
<1>6. After(F, Len(f))
  <2> HIDE DEF After, F
  <2> QED BY <1>4, <1>5
<1> HIDE DEF F
<1>7. F[0] = S /\ \A i \in 1 .. Len(f) : F[i] = Altered(F[i - 1], f[i])
  BY <1>6
<1> QED BY <1>7 DEF F

LEMMA SchemaOfIs ==
    /\ SchemaOf[0] = {}
    /\ \A n \in 1 .. 13 : SchemaOf[n] = Schemas(SchemaOf[n - 1], Up[n])[Len(Up[n])]
<1> DEFINE Step(S, n) == UNION {Schemas(T, Up[n])[Len(Up[n])] : T \in {S}}
           Built(g, m) == g = [n \in 0 .. m |-> IF n = 0 THEN {} ELSE Step(g[n - 1], n)]
           A == {m \in 0 .. Latest : \E g : Built(g, m)}
<1>1. 0 \in A
  <2> DEFINE g == [n \in 0 .. 0 |-> {}]
  <2>1. Built(g, 0)
    OBVIOUS
  <2> HIDE DEF g, Built
  <2> QED BY <2>1, LatestIs
<1>2. ASSUME NEW m \in 1 .. Latest, m - 1 \in A PROVE m \in A
  <2> HIDE DEF Step
  <2>1. PICK g : Built(g, m - 1)
    BY <1>2
  <2>0. m \in Nat
    BY LatestIs
  <2> DEFINE h == [n \in 0 .. m |-> IF n = m THEN Step(g[m - 1], m) ELSE g[n]]
  <2>2. \A n \in 0 .. m - 1 : h[n] = g[n]
    BY <2>0
  <2>3. \A n \in 0 .. m : h[n] = IF n = 0 THEN {} ELSE Step(h[n - 1], n)
    <3> SUFFICES ASSUME NEW n \in 0 .. m PROVE h[n] = IF n = 0 THEN {} ELSE Step(h[n - 1], n)
      OBVIOUS
    <3>1. CASE n = m
      <4>1. h[m] = Step(g[m - 1], m) /\ h[m - 1] = g[m - 1] /\ m # 0
        BY <2>0, <2>2, LatestIs
      <4> QED BY <3>1, <4>1
    <3>2. CASE n # m
      <4>1. n \in 0 .. m - 1 /\ h[n] = g[n] /\ (n # 0 => n - 1 \in 0 .. m - 1)
        BY <2>0, <3>2
      <4>2. g[n] = IF n = 0 THEN {} ELSE Step(g[n - 1], n)
        BY <2>1, <4>1
      <4> QED BY <2>2, <4>1, <4>2
    <3> QED BY <3>1, <3>2
  <2>4. DOMAIN h = 0 .. m /\ h = [n \in 0 .. m |-> h[n]]
    OBVIOUS
  <2>5. Built(h, m)
    <3> HIDE DEF h
    <3> QED BY <2>3, <2>4
  <2> HIDE DEF h, Built
  <2> QED BY <2>5
<1>3. 13 \in A
  <2> HIDE DEF A
  <2>1. \A n \in 0 .. Latest : n \in A
    BY <1>1, <1>2, LatestIs, UpTo
  <2> QED BY <2>1, LatestIs
<1>4. PICK g : Built(g, 13)
  BY <1>3
<1> DEFINE B == CHOOSE h : Built(h, 13)
<1>5. SchemaOf = [n \in 0 .. 13 |-> B[n]]
  BY LatestIs DEF SchemaOf
<1>6. Built(B, 13)
  <2> HIDE DEF Built
  <2> QED BY <1>4
<1> HIDE DEF B
<1>7. \A S, n : Step(S, n) = Schemas(S, Up[n])[Len(Up[n])]
  OBVIOUS
<1> HIDE DEF Step
<1>8. B[0] = {} /\ \A n \in 1 .. 13 : B[n] = Step(B[n - 1], n)
  BY <1>6
<1>9. SchemaOf[0] = {}
  BY <1>5, <1>8
<1>10. ASSUME NEW n \in 1 .. 13
       PROVE  SchemaOf[n] = Schemas(SchemaOf[n - 1], Up[n])[Len(Up[n])]
  <2>1. SchemaOf[n] = B[n] /\ SchemaOf[n - 1] = B[n - 1]
    BY <1>5
  <2> QED BY <1>7, <1>8, <2>1
<1> QED BY <1>9, <1>10

-----------------------------------------------------------------------------
(* What a whole script makes of a schema                                   *)

(* Objects of revision n or earlier                                        *)
Grown(S, n) == \A o \in S : Aged(o, n) /\ Tame(o)
AllTame(S) == \A o \in S : Tame(o)
(* The same objects, but for those on the columns that undoing 011 brings  *)
(* back.                                                                   *)
Alike(S, T) == \A o : Legacy006(o) \/ (o \in S <=> o \in T)

LEMMA AgesGrow == \A o, n : n \in 1 .. 13 /\ Aged(o, n - 1) => Aged(o, n) /\ ~Born(o, n)
<1> SUFFICES ASSUME NEW o, NEW n \in 1 .. 13, Aged(o, n - 1) PROVE Aged(o, n) /\ ~Born(o, n)
  OBVIOUS
<1>1. /\ TableAge(o.table) \in Nat /\ NameAge(o.name) \in Nat /\ TableAge(o.name) \in Nat
      /\ \A c : ColumnAge(o.table, c) \in Nat
  BY AgesAre
<1> QED BY <1>1 DEF Aged, Born

LEMMA ScriptSteps ==
    ASSUME NEW f, IsList(f), NEW S
    PROVE  /\ Len(f) \in Nat /\ \A i \in 1 .. Len(f) : f[i] \in Entries(f)
           /\ \A s \in Entries(f) : \E i \in 1 .. Len(f) : s = f[i]
           /\ Schemas(S, f)[0] = S
           /\ \A i \in 1 .. Len(f) : Schemas(S, f)[i] = Altered(Schemas(S, f)[i - 1], f[i])
BY SchemasAre DEF IsList, Entries

(* A script that makes objects of revision n adds nothing else.            *)
LEMMA GrownUp ==
    ASSUME NEW n \in 1 .. 13, NEW f, AllMake(f, n), NEW S, Grown(S, n - 1)
    PROVE  \A i \in 0 .. Len(f) :
              /\ Grown(Schemas(S, f)[i], n)
              /\ n # 7 => \A o \in Schemas(S, f)[i] : o \in S \/ Born(o, n)
<1> DEFINE F == Schemas(S, f)
           Good(T) == Grown(T, n) /\ (n # 7 => \A o \in T : o \in S \/ Born(o, n))
           A == {i \in 0 .. Len(f) : Good(F[i])}
<1>1. /\ Len(f) \in Nat /\ \A i \in 1 .. Len(f) : f[i] \in Entries(f)
      /\ F[0] = S /\ \A i \in 1 .. Len(f) : F[i] = Altered(F[i - 1], f[i])
  BY ScriptSteps DEF AllMake
<1> HIDE DEF F
<1>2. Good(S)
  BY AgesGrow DEF Grown
<1>3. \A T, s : Good(T) /\ Makes(s, n) => Good(Altered(T, s))
  BY AlteredCreates DEF Makes, Grown
<1> HIDE DEF Good
<1>4. 0 \in A
  BY <1>1, <1>2
<1>5. \A i \in 1 .. Len(f) : i - 1 \in A => i \in A
  BY <1>1, <1>3 DEF AllMake
<1>6. \A i \in 0 .. Len(f) : i \in A
  <2> HIDE DEF A
  <2> QED BY <1>1, <1>4, <1>5, UpTo
<1> QED BY <1>6 DEF Good, F

LEMMA SchemaGrown == \A n \in 0 .. 13 : Grown(SchemaOf[n], n)
<1> DEFINE A == {n \in 0 .. 13 : Grown(SchemaOf[n], n)}
<1>1. 0 \in A
  <2>1. SchemaOf[0] = {}
    BY SchemaOfIs
  <2>2. Grown(SchemaOf[0], 0)
    BY <2>1 DEF Grown
  <2> QED BY <2>2
<1>2. ASSUME NEW n \in 1 .. 13, n - 1 \in A PROVE n \in A
  <2>1. AllMake(Up[n], n) /\ Len(Up[n]) \in 0 .. Len(Up[n])
    BY Made, ScriptSteps, SMTT(60) DEF AllMake
  <2>2. Grown(Schemas(SchemaOf[n - 1], Up[n])[Len(Up[n])], n)
    BY <1>2, <2>1, GrownUp
  <2>3. SchemaOf[n] = Schemas(SchemaOf[n - 1], Up[n])[Len(Up[n])]
    BY SchemaOfIs
  <2>4. Grown(SchemaOf[n], n)
    BY <2>2, <2>3
  <2> QED BY <2>4
<1>3. \A n \in 0 .. 13 : n \in A
  <2> HIDE DEF A
  <2> QED BY <1>1, <1>2, UpTo
<1> QED BY <1>3

(* Foreign keys that go with a constraint dropped by its name.             *)
LEMMA KeptOrRemoved ==
    ASSUME NEW S, AllTame(S), NEW s, NEW o \in S, o \notin Altered(S, s)
    PROVE  \/ Removes(s, o)
           \/ /\ s.op = "drop_object" /\ NameAge(s.name) = 11 /\ o.table = s.table
              /\ \E c \in o.cols : c \in PeerColumns
<1>1. CASE Removes(s, o)
  BY <1>1
<1>2. CASE /\ s.op = "drop_object" /\ o.kind = "reference" /\ o.table = s.table
           /\ \E x \in S : x.kind = "constraint" /\ x.name = s.name /\ x.cols = o.cols
  <2>1. PICK x \in S : x.kind = "constraint" /\ x.name = s.name /\ x.cols = o.cols
    BY <1>2
  <2>2. o.cols # {"rating"} /\ Tame(x)
    BY <1>2 DEF AllTame, Tame
  <2>3. \A t, c : ColumnAge(t, c) = 11 => c \in PeerColumns
    BY DEF ColumnAge
  <2> QED BY <1>2, <2>1, <2>2, <2>3 DEF Tame
<1> QED BY <1>1, <1>2, AlteredKeeps

-----------------------------------------------------------------------------
(* Which scripts only add, and what else 011 does                          *)

AllAdd(script) == IsList(script) /\ \A s \in Entries(script) : Adding(s)

LEMMA AddingAre ==
    /\ \A t, a, b, refs, uniques : Adding(NewTable(t, a, b, refs, uniques))
    /\ \A name, t, cols : /\ Adding(Index(name, t, cols)) /\ Adding(UniqueIndex(name, t, cols))
                          /\ Adding(IndexIfMissing(name, t, cols))
                          /\ Adding(UniqueIfMissing(name, t, cols))
                          /\ Adding(Check(name, t, cols)) /\ Adding(Rows(t, name, cols))
    /\ \A name, t, c, target : Adding(Foreign(name, t, c, target))
    /\ \A t, c : Adding(Retype(t, c, "to_numeric"))
BY DEF Adding, NewTable, Index, UniqueIndex, IndexIfMissing, UniqueIfMissing, Check, Rows,
       Foreign, Retype, Statement

LEMMA AllAddJoin == \A s, t : AllAdd(s) /\ AllAdd(t) => AllAdd(s \o t)
BY EntriesJoin DEF AllAdd

LEMMA AllAddColumns ==
    \A t, names : IsList(names) =>
        AllAdd(Columns(t, names)) /\ AllAdd(ColumnsIfMissing(t, names)) /\ AllAdd(NotNull(t, names))
<1> SUFFICES ASSUME NEW t, NEW names, IsList(names)
             PROVE  /\ AllAdd(Columns(t, names)) /\ AllAdd(ColumnsIfMissing(t, names))
                    /\ AllAdd(NotNull(t, names))
  OBVIOUS
<1>1. \A c, l : Adding(Statement("add_column", t, c, {c}, l)) /\ Adding(Statement("set_not_null", t, c, {c}, l))
  BY DEF Adding, Statement
<1>2. /\ IsList(Columns(t, names))
      /\ Entries(Columns(t, names)) =
           {Statement("add_column", t, c, {c}, FALSE) : c \in Entries(names)}
  BY EntriesEach
<1>3. /\ IsList(ColumnsIfMissing(t, names))
      /\ Entries(ColumnsIfMissing(t, names)) =
           {Statement("add_column", t, c, {c}, TRUE) : c \in Entries(names)}
  BY EntriesEach
<1>4. /\ IsList(NotNull(t, names))
      /\ Entries(NotNull(t, names)) =
           {Statement("set_not_null", t, c, {c}, FALSE) : c \in Entries(names)}
  BY EntriesEach
<1> QED BY <1>1, <1>2, <1>3, <1>4, ZenonT(60) DEF AllAdd

LEMMA AllAddAt ==
    ASSUME NEW s, IsList(s), \A i \in 1 .. Len(s) : Adding(s[i])
    PROVE  AllAdd(s)
BY DEF AllAdd, Entries, IsList

LEMMA Adds001 == AllAdd(Up001)
<1>1. IsList(Up001Sellers) /\ Len(Up001Sellers) = 7 /\ \A i \in 1 .. 7 : Adding(Up001Sellers[i])
  BY Tuples, AddingAre DEF Up001Sellers
<1>2. IsList(Up001Listings) /\ Len(Up001Listings) = 4 /\ \A i \in 1 .. 4 : Adding(Up001Listings[i])
  BY Tuples, AddingAre DEF Up001Listings
<1> QED BY <1>1, <1>2, AllAddAt, AllAddJoin DEF Up001

LEMMA Adds006 == AllAdd(Up006)
<1>1. AllAdd(Up006Columns)
  BY Tuples, AllAddColumns, AllAddJoin DEF Up006Columns
<1>2. IsList(Up006Accounts) /\ Len(Up006Accounts) = 5 /\ \A i \in 1 .. 5 : Adding(Up006Accounts[i])
  BY Tuples, AddingAre DEF Up006Accounts
<1>3. IsList(Up006Carts) /\ Len(Up006Carts) = 6 /\ \A i \in 1 .. 6 : Adding(Up006Carts[i])
  BY Tuples, AddingAre DEF Up006Carts
<1>4. IsList(Up006Orders) /\ Len(Up006Orders) = 6 /\ \A i \in 1 .. 6 : Adding(Up006Orders[i])
  BY Tuples, AddingAre DEF Up006Orders
<1>5. IsList(Up006Messaging) /\ Len(Up006Messaging) = 7 /\ \A i \in 1 .. 7 : Adding(Up006Messaging[i])
  BY Tuples, AddingAre DEF Up006Messaging
<1>6. IsList(Up006Premium) /\ Len(Up006Premium) = 8 /\ \A i \in 1 .. 8 : Adding(Up006Premium[i])
  BY Tuples, AddingAre DEF Up006Premium
<1> QED BY <1>1, <1>2, <1>3, <1>4, <1>5, <1>6, AllAddAt, AllAddJoin DEF Up006

LEMMA ScriptsAdd == \A n \in 1 .. 13 : n \notin {7, 11} => AllAdd(Up[n])
<1>1. AllAdd(Up002)
  BY Tuples, EntriesTuples, AddingAre DEF AllAdd, Up002
<1>2. AllAdd(Up003)
  BY Tuples, EntriesTuples, AddingAre DEF AllAdd, Up003
<1>3. AllAdd(Up004)
  BY Tuples, EntriesTuples, AddingAre DEF AllAdd, Up004
<1>4. AllAdd(Up005)
  BY Tuples, AllAddColumns DEF Up005
<1>5. AllAdd(Up008)
  BY Tuples, EntriesTuples, AddingAre DEF AllAdd, Up008
<1>6. AllAdd(Up009)
  BY Are009, AddingAre DEF AllAdd
<1>7. AllAdd(Up010)
  BY Tuples, EntriesTuples, AddingAre DEF AllAdd, Up010
<1>8. AllAdd(Up012) /\ AllAdd(Up013)
  <2>1. \A t, name, cols : AllAdd(<<Rows(t, name, cols)>>)
    BY Tuples, EntriesTuples, AddingAre DEF AllAdd
  <2>2. IsList(Scores) /\ IsList(Averages) /\ IsList(<<"golden_crowns">>)
    BY Dated012 DEF Dated
  <2> QED BY <2>1, <2>2, AllAddColumns, AllAddJoin DEF Up012, Up013
<1>9. /\ AllAdd(Up[1]) /\ AllAdd(Up[2]) /\ AllAdd(Up[3]) /\ AllAdd(Up[4])
      /\ AllAdd(Up[5]) /\ AllAdd(Up[6])
  BY <1>1, <1>2, <1>3, <1>4, Adds001, Adds006, Zenon DEF Up
<1>10. /\ AllAdd(Up[8]) /\ AllAdd(Up[9]) /\ AllAdd(Up[10])
       /\ AllAdd(Up[12]) /\ AllAdd(Up[13])
  BY <1>5, <1>6, <1>7, <1>8, Zenon DEF Up
<1> SUFFICES ASSUME NEW n \in 1 .. 13, n \notin {7, 11} PROVE AllAdd(Up[n])
  OBVIOUS
<1>11. \/ n = 1 \/ n = 2 \/ n = 3 \/ n = 4 \/ n = 5 \/ n = 6 \/ n = 8
       \/ n = 9 \/ n = 10 \/ n = 12 \/ n = 13
  OBVIOUS
<1> QED BY <1>9, <1>10, <1>11

Creating == {"create_index", "create_unique", "add_check", "add_foreign_key"}
(* A statement to which Legacy006 objects make no difference.              *)
Blind(s) ==
    /\ Adding(s) \/ (s.op = "drop_object" /\ s.name = "uq_conversation_buyer_seller")
         \/ (s.op = "drop_column" /\ s.table = "conversations" /\ s.name \in LegacyColumns)
    /\ s.op \in Creating => NameAge(s.name) # 0

LEMMA BlindTuples ==
    /\ \A t, name, cols : Blind(Rows(t, name, cols))
    /\ \A t, c : Blind(Retype(t, c, "to_numeric"))
    /\ \A t, c, l : Blind(Statement("add_column", t, c, {c}, l)) /\ Blind(Statement("set_not_null", t, c, {c}, l))
    /\ \A name, t, cols : NameAge(name) # 0 =>
          Blind(IndexIfMissing(name, t, cols)) /\ Blind(UniqueIfMissing(name, t, cols))
    /\ \A name, t, c, target : NameAge(name) # 0 => Blind(Foreign(name, t, c, target))
    /\ \A t : Blind(DropIfThere("uq_conversation_buyer_seller", t))
    /\ \A l : \A c \in LegacyColumns : Blind(Statement("drop_column", "conversations", c, {c}, l))
BY DEF Blind, Adding, Creating, Rows, Retype, Statement, IndexIfMissing, UniqueIfMissing, Foreign,
       DropIfThere

LEMMA BlindColumns ==
    ASSUME NEW t, NEW names, IsList(names)
    PROVE  /\ IsList(ColumnsIfMissing(t, names)) /\ \A s \in Entries(ColumnsIfMissing(t, names)) : Blind(s)
           /\ IsList(NotNull(t, names)) /\ \A s \in Entries(NotNull(t, names)) : Blind(s)
           /\ t = "conversations" /\ Entries(names) = LegacyColumns =>
                 /\ IsList(DropColumnsIfThere(t, names))
                 /\ \A s \in Entries(DropColumnsIfThere(t, names)) : Blind(s)
<1> DEFINE A == ColumnsIfMissing(t, names)
           N == NotNull(t, names)
           D == DropColumnsIfThere(t, names)
<1>1. /\ \A c, l : Blind(Statement("add_column", t, c, {c}, l))
      /\ \A c, l : Blind(Statement("set_not_null", t, c, {c}, l))
      /\ \A l : \A c \in LegacyColumns : Blind(Statement("drop_column", "conversations", c, {c}, l))
  BY BlindTuples
<1>2. /\ IsList(A)
      /\ Entries(A) = {Statement("add_column", t, c, {c}, TRUE) : c \in Entries(names)}
  BY EntriesEach
<1>3. /\ IsList(N)
      /\ Entries(N) = {Statement("set_not_null", t, c, {c}, FALSE) : c \in Entries(names)}
  BY EntriesEach
<1>4. /\ IsList(D)
      /\ Entries(D) = {Statement("drop_column", t, c, {c}, TRUE) : c \in Entries(names)}
  BY EntriesEach
<1> HIDE DEF A, N, D
<1>5. \A s \in Entries(A) : Blind(s)
  BY <1>1, <1>2
<1>6. \A s \in Entries(N) : Blind(s)
  BY <1>1, <1>3
<1>7. t = "conversations" /\ Entries(names) = LegacyColumns => \A s \in Entries(D) : Blind(s)
  BY <1>1, <1>4
<1> QED BY <1>2, <1>3, <1>4, <1>5, <1>6, <1>7 DEF A, N, D

LEMMA Blind011 == \A s \in Entries(Up011) : Blind(s)
<1> DEFINE three == Peers \o <<"context_seller_id">>
           F == << Foreign("fk_conversations_participant_a", "conversations", "participant_a_id", "users"),
          Foreign("fk_conversations_participant_b", "conversations", "participant_b_id", "users"),
          Foreign("fk_conversations_context_seller", "conversations", "context_seller_id",
                  "seller_profiles"),
          IndexIfMissing("ix_conversations_participant_a_id", "conversations",
                         {"participant_a_id"}),
          IndexIfMissing("ix_conversations_participant_b_id", "conversations",
                         {"participant_b_id"}),
          IndexIfMissing("ix_conversations_context_seller_id", "conversations",
                         {"context_seller_id"}),
          UniqueIfMissing("uq_conversation_participants", "conversations",
                          {"participant_a_id", "participant_b_id"}),
          DropIfThere("uq_conversation_buyer_seller", "conversations") >>
           A == ColumnsIfMissing("conversations", three)
           N == NotNull("conversations", Peers)
           D == DropColumnsIfThere("conversations", Legacy)
<1>1. /\ IsList(Peers) /\ IsList(three) /\ IsList(Legacy) /\ Entries(Legacy) = LegacyColumns
  BY Tuples, EntriesTuples, EntriesJoin DEF Peers, Legacy, LegacyColumns
<1>2. \A name \in EleventhNames : NameAge(name) # 0
  BY DEF NameAge, ThirdNames, FourthNames, EighthNames, TenthNames, EleventhNames
<1> HIDE DEF three
<1>3. IsList(A) /\ \A s \in Entries(A) : Blind(s)
  BY <1>1, BlindColumns
<1>4. IsList(N) /\ \A s \in Entries(N) : Blind(s)
  BY <1>1, BlindColumns
<1>5. IsList(D) /\ \A s \in Entries(D) : Blind(s)
  BY <1>1, BlindColumns
<1>6. IsList(Up011Rows) /\ \A s \in Entries(Up011Rows) : Blind(s)
  BY Tuples, EntriesTuples, BlindTuples DEF Up011Rows, Backfill
<1>7. IsList(F) /\ \A s \in Entries(F) : Blind(s)
  <2>1. IsList(F) /\ Entries(F) = {F[1], F[2], F[3], F[4], F[5], F[6], F[7], F[8]}
    BY Tuples, EntriesTuples
  <2>2. Blind(F[1]) /\ Blind(F[2]) /\ Blind(F[3]) /\ Blind(F[4])
    BY <1>2, BlindTuples DEF EleventhNames
  <2>3. Blind(F[5]) /\ Blind(F[6]) /\ Blind(F[7]) /\ Blind(F[8])
    BY <1>2, BlindTuples DEF EleventhNames
  <2> HIDE DEF F
  <2> QED BY <2>1, <2>2, <2>3
<1>8. Up011 = A \o Up011Rows \o N \o F \o D
  BY DEF Up011, three
<1> HIDE DEF A, N, F, D
<1>9. /\ IsList(A \o Up011Rows) /\ \A s \in Entries(A \o Up011Rows) : Blind(s)
  BY <1>3, <1>6, EntriesJoin
<1>10. /\ IsList(A \o Up011Rows \o N) /\ \A s \in Entries(A \o Up011Rows \o N) : Blind(s)
  BY <1>4, <1>9, EntriesJoin
<1>11. /\ IsList(A \o Up011Rows \o N \o F) /\ \A s \in Entries(A \o Up011Rows \o N \o F) : Blind(s)
  BY <1>7, <1>10, EntriesJoin
<1> QED BY <1>5, <1>8, <1>11, EntriesJoin

LEMMA Blinds == \A n \in 8 .. 11 : \A s \in Entries(Up[n]) : Blind(s)
<1>1. /\ \A name \in EighthNames : NameAge(name) # 0
      /\ \A name \in TenthNames : NameAge(name) # 0
  BY DEF NameAge, ThirdNames, FourthNames, EighthNames, TenthNames, EleventhNames
<1>2. \A s \in Entries(Up008) : Blind(s)
  BY <1>1, EntriesTuples, BlindTuples DEF Up008, EighthNames
<1>3. \A s \in Entries(Up009) : Blind(s)
  BY Are009, BlindTuples
<1>4. \A s \in Entries(Up010) : Blind(s)
  BY <1>1, EntriesTuples, BlindTuples DEF Up010, TenthNames
<1>5. Up[8] = Up008 /\ Up[9] = Up009 /\ Up[10] = Up010 /\ Up[11] = Up011
  BY Zenon DEF Up
<1>6. \A n \in 8 .. 11 : n = 8 \/ n = 9 \/ n = 10 \/ n = 11
  OBVIOUS
<1> QED BY <1>2, <1>3, <1>4, <1>5, <1>6, Blind011

-----------------------------------------------------------------------------
(* Blind statements, on two schemas that differ in Legacy006 objects       *)

LEMMA BlindKeeps ==
    ASSUME NEW S, AllTame(S), NEW s, Blind(s), NEW o \in S, ~Legacy006(o)
    PROVE  o \in Altered(S, s)
<1> SUFFICES ASSUME o \notin Altered(S, s) PROVE FALSE
  OBVIOUS
<1>1. ~Adding(s)
  BY AlteredAdds
<1>2. NameAge("uq_conversation_buyer_seller") = 0
  BY DEF NameAge, ThirdNames, FourthNames, EighthNames, TenthNames, EleventhNames
<1>3. Removes(s, o) \/ (s.op = "drop_object" /\ NameAge(s.name) = 11)
  BY KeptOrRemoved
<1>4. Tame(o)
  BY DEF AllTame
<1>5. CASE s.op = "drop_object" /\ s.name = "uq_conversation_buyer_seller"
  <2>1. Removes(s, o)
    BY <1>2, <1>3, <1>5
  <2>2. Named(o) /\ o.name = "uq_conversation_buyer_seller"
    BY <1>5, <2>1 DEF Removes
  <2> QED BY <1>4, <2>2 DEF Tame
<1>6. CASE s.op = "drop_column" /\ s.table = "conversations" /\ s.name \in LegacyColumns
  <2>1. o.table = s.table /\ s.name \in o.cols
    BY <1>3, <1>6 DEF Removes
  <2> QED BY <1>6, <2>1 DEF Legacy006
<1> QED BY <1>1, <1>5, <1>6 DEF Blind

LEMMA AlteredMade ==
    ASSUME NEW S, NEW s, NEW o \in Altered(S, s), o \notin S
    PROVE  /\ o \in Creates(s)
           /\ s.op \in Creating => ~ \E x \in S : Named(x) /\ x.name = s.name
<1>1. o \in Creates(s)
  BY AlteredCreates
<1>2. CASE s.op = "create_index"
  BY <1>1, <1>2 DEF Altered, Named
<1>3. CASE s.op = "create_unique"
  BY <1>1, <1>3 DEF Altered, Named
<1>4. CASE s.op = "add_check"
  BY <1>1, <1>4 DEF Altered, Named
<1>5. CASE s.op = "add_foreign_key"
  BY <1>1, <1>5 DEF Altered, Named
<1> QED BY <1>1, <1>2, <1>3, <1>4, <1>5 DEF Creating

LEMMA AlteredMakes ==
    ASSUME NEW T, NEW s, NEW o \in Creates(s),
           s.op \in Creating => ~ \E x \in T : Named(x) /\ x.name = s.name
    PROVE  o \in Altered(T, s)
<1>1. CASE s.op = "create_table"
  BY <1>1 DEF Altered, Creates
<1>2. CASE s.op = "create_index"
  BY <1>2 DEF Altered, Creates, Creating, Named
<1>3. CASE s.op = "create_unique"
  BY <1>3 DEF Altered, Creates, Creating, Named
<1>4. CASE s.op = "add_check"
  BY <1>4 DEF Altered, Creates, Creating, Named
<1>5. CASE s.op = "add_foreign_key"
  BY <1>5 DEF Altered, Creates, Creating, Named
<1>6. CASE s.op \in {"add_column", "set_not_null", "to_numeric"}
  BY <1>6 DEF Altered, Creates
<1> QED BY <1>1, <1>2, <1>3, <1>4, <1>5, <1>6 DEF Creates

LEMMA BlindAlike ==
    ASSUME NEW S, NEW T, AllTame(S), AllTame(T), Alike(S, T), NEW s, Blind(s)
    PROVE  Alike(Altered(S, s), Altered(T, s))
<1>1. ASSUME NEW P, NEW Q, AllTame(P), AllTame(Q), Alike(P, Q),
             NEW o \in Altered(P, s), ~Legacy006(o)
      PROVE  o \in Altered(Q, s)
  <2>1. CASE o \in P
    <3>1. o \in Q
      BY <1>1, <2>1 DEF Alike
    <3> QED BY <1>1, <3>1, BlindKeeps
  <2>2. CASE o \notin P
    <3>1. /\ o \in Creates(s)
          /\ s.op \in Creating => ~ \E x \in P : Named(x) /\ x.name = s.name
      BY <2>2, <1>1, AlteredMade
    <3>2. ASSUME s.op \in Creating, NEW x \in Q, Named(x), x.name = s.name PROVE FALSE
      <4>1. NameAge(x.name) # 0
        BY <3>2 DEF Blind
      <4>2. ~Legacy006(x)
        BY <1>1, <3>2, <4>1 DEF AllTame, Tame
      <4> QED BY <1>1, <3>1, <3>2, <4>2 DEF Alike
    <3> QED BY <3>1, <3>2, AlteredMakes
  <2> QED BY <2>1, <2>2
<1>2. Alike(T, S)
  BY DEF Alike
<1> QED BY <1>1, <1>2 DEF Alike

(* An upgrade keeps what there is, but for what 011 replaces.              *)
LEMMA UpKeeps ==
    ASSUME NEW n \in 1 .. 13, n # 7, NEW S, Grown(S, n - 1), NEW o \in S, n = 11 => ~Legacy006(o)
    PROVE  \A i \in 0 .. Len(Up[n]) : o \in Schemas(S, Up[n])[i]
<1> DEFINE f == Up[n]
           F == Schemas(S, f)
           A == {i \in 0 .. Len(f) : o \in F[i]}
<1>1. AllMake(f, n)
  BY Made
<1>2. /\ Len(f) \in Nat /\ \A i \in 1 .. Len(f) : f[i] \in Entries(f)
      /\ F[0] = S /\ \A i \in 1 .. Len(f) : F[i] = Altered(F[i - 1], f[i])
  BY <1>1, ScriptSteps DEF AllMake
<1>3. \A i \in 0 .. Len(f) : AllTame(F[i])
  BY <1>1, GrownUp DEF Grown, AllTame
<1>4. ASSUME NEW s \in Entries(f), NEW T, AllTame(T), o \in T PROVE o \in Altered(T, s)
  <2>1. CASE n = 11
    <3>1. Blind(s)
      BY <2>1, <1>4, Blinds
    <3> QED BY <2>1, <1>4, <3>1, BlindKeeps
  <2>2. CASE n # 11
    <3>1. Adding(s)
      BY <2>2, <1>4, ScriptsAdd DEF AllAdd
    <3> QED BY <1>4, <3>1, AlteredAdds
  <2> QED BY <2>1, <2>2
<1> HIDE DEF F, f
<1>5. 0 \in A
  BY <1>2
<1>6. \A i \in 1 .. Len(f) : i - 1 \in A => i \in A
  BY <1>2, <1>3, <1>4
<1>7. \A i \in 0 .. Len(f) : i \in A
  <2> HIDE DEF A
  <2> QED BY <1>2, <1>5, <1>6, UpTo
<1> QED BY <1>7 DEF f, F

(* What 011 takes away: the columns of 006, and what is on them.           *)
LEMMA NoneLeft ==
    \A S : \A o \in Schemas(S, Up[11])[Len(Up[11])] : ~Legacy006(o)
<1> SUFFICES ASSUME NEW S PROVE \A o \in Schemas(S, Up[11])[Len(Up[11])] : ~Legacy006(o)
  OBVIOUS
<1> DEFINE f == Up[11]
           F == Schemas(S, f)
<1>1. /\ IsList(f) /\ Len(f) = 18
      /\ Is(f[17], "drop_column", "conversations", "buyer_id")
      /\ Is(f[18], "drop_column", "conversations", "seller_id")
  <2>1. f = Up011
    BY Zenon DEF Up
  <2> QED BY <2>1, Up011Is, Zenon DEF Size
<1> HIDE DEF f
<1>2. F[17] = Altered(F[16], f[17]) /\ F[18] = Altered(F[17], f[18])
  <2>1. IsList(f)
    BY <1>1
  <2>2. \A i \in 1 .. Len(f) : F[i] = Altered(F[i - 1], f[i])
    BY <2>1, ScriptSteps
  <2> HIDE DEF F
  <2> QED BY <1>1, <2>2
<1> HIDE DEF F
<1>3. \A o \in F[18] : o \in F[17] /\ ~(o.table = "conversations" /\ "seller_id" \in o.cols)
  BY <1>1, <1>2 DEF Altered, Is
<1>4. \A o \in F[17] : ~(o.table = "conversations" /\ "buyer_id" \in o.cols)
  BY <1>1, <1>2 DEF Altered, Is
<1>5. \A o \in F[18] : ~Legacy006(o)
  BY <1>3, <1>4 DEF Legacy006, LegacyColumns
<1> QED BY <1>1, <1>5 DEF F, f

(* The upgrades from 008 to 011 of a schema that is a revision's but for   *)
(* Legacy006 objects                                                       *)
LEMMA UpAlike ==
    ASSUME NEW n \in 8 .. 11, NEW S, NEW T, AllTame(S), AllTame(T), Alike(S, T)
    PROVE  LET one == Schemas(S, Up[n])[Len(Up[n])]
               other == Schemas(T, Up[n])[Len(Up[n])]
           IN AllTame(one) /\ Alike(one, other) /\ (n = 11 => one = other)
<1> DEFINE f == Up[n]
           F == Schemas(S, f)
           G == Schemas(T, f)
           A == {i \in 0 .. Len(f) : AllTame(F[i]) /\ AllTame(G[i]) /\ Alike(F[i], G[i])}
<1>1. AllMake(f, n)
  BY Made
<1>2. /\ Len(f) \in Nat /\ \A i \in 1 .. Len(f) : f[i] \in Entries(f)
      /\ F[0] = S /\ \A i \in 1 .. Len(f) : F[i] = Altered(F[i - 1], f[i])
      /\ G[0] = T /\ \A i \in 1 .. Len(f) : G[i] = Altered(G[i - 1], f[i])
  BY <1>1, ScriptSteps DEF AllMake
<1>3. \A s \in Entries(f) : Blind(s) /\ \A o \in Creates(s) : Tame(o)
  BY <1>1, Blinds DEF AllMake, Makes
<1> HIDE DEF F, G, f
<1>4. \A P : \A s \in Entries(f) : AllTame(P) => AllTame(Altered(P, s))
  BY <1>3, AlteredCreates DEF AllTame
<1>5. 0 \in A
  <2>1. 0 \in 0 .. Len(f) /\ AllTame(F[0]) /\ AllTame(G[0]) /\ Alike(F[0], G[0])
    BY <1>2
  <2> QED BY <2>1
<1>6. ASSUME NEW i \in 1 .. Len(f), i - 1 \in A PROVE i \in A
  <2>1. AllTame(F[i - 1]) /\ AllTame(G[i - 1]) /\ Alike(F[i - 1], G[i - 1])
    BY <1>6
  <2>2. f[i] \in Entries(f) /\ F[i] = Altered(F[i - 1], f[i]) /\ G[i] = Altered(G[i - 1], f[i])
    BY <1>2
  <2>3. Alike(F[i], G[i])
    BY <1>3, <2>1, <2>2, BlindAlike
  <2> QED BY <1>4, <2>1, <2>2, <2>3
<1>7. Len(f) \in A
  <2> HIDE DEF A
  <2>1. \A i \in 0 .. Len(f) : i \in A
    BY <1>2, <1>5, <1>6, UpTo
  <2> QED BY <1>2, <2>1
<1> DEFINE U == F[Len(f)]
           V == G[Len(f)]
<1>8. AllTame(U) /\ Alike(U, V)
  BY <1>7
<1>9. n = 11 => (\A o \in U : ~Legacy006(o)) /\ (\A o \in V : ~Legacy006(o))
  BY NoneLeft DEF F, G, f
<1> HIDE DEF U, V
<1>10. n = 11 => U = V
  BY <1>8, <1>9 DEF Alike
<1> QED BY <1>8, <1>10 DEF U, V, F, G, f

-----------------------------------------------------------------------------
(* A downgrade takes away what its upgrade made and creates nothing; only  *)
(* that of 011 brings back columns of 006.                                 *)

Undoes(s, n) ==
    /\ \A o \in Creates(s) : n = 11 /\ Legacy006(o) /\ Tame(o)
    /\ \A o : Removes(s, o) => Born(o, n)
    /\ s.op = "drop_object" /\ NameAge(s.name) = 11 => n = 11 /\ s.table = "conversations"
AllUndo(script, n) == IsList(script) /\ \A s \in Entries(script) : Undoes(s, n)

LEMMA AllUndoJoin == \A s, t, n : AllUndo(s, n) /\ AllUndo(t, n) => AllUndo(s \o t, n)
BY EntriesJoin DEF AllUndo

LEMMA TakesUndo ==
    ASSUME NEW n \in 1 .. 13, n # 11, NEW f, AllTake(f, n)
    PROVE  AllUndo(f, n)
<1> SUFFICES ASSUME NEW s \in Entries(f) PROVE Undoes(s, n)
  BY DEF AllUndo, AllTake
<1>1. Taking(s) /\ \A o : Removes(s, o) => Born(o, n)
  BY DEF AllTake
<1>2. Creates(s) = {}
  BY <1>1, AlteredTakes
<1>3. ASSUME s.op = "drop_object" PROVE NameAge(s.name) # 11
  <2> DEFINE o == Object("index", "favorites", s.name, {})
  <2>1. /\ o.kind = "index" /\ o.table = "favorites" /\ o.name = s.name /\ o.cols = {}
        /\ Named(o)
    BY DEF Object, Named
  <2> HIDE DEF o
  <2>2. Born(o, n)
    BY <1>1, <1>3, <2>1 DEF Removes
  <2>3. TableAge("favorites") = 0
    BY DEF TableAge, FirstTables, SixthTables
  <2>4. NameAge(s.name) = n
    BY <2>1, <2>2, <2>3 DEF Born
  <2> QED BY <2>4
<1> QED BY <1>1, <1>2, <1>3 DEF Undoes

LEMMA UndoesAre ==
    /\ \A t, name, cols, n : Undoes(Rows(t, name, cols), n)
    /\ \A l : \A c \in LegacyColumns :
          /\ Undoes(Statement("add_column", "conversations", c, {c}, l), 11)
          /\ Undoes(Statement("set_not_null", "conversations", c, {c}, l), 11)
    /\ \A l : \A c \in PeerColumns : Undoes(Statement("drop_column", "conversations", c, {c}, l), 11)
    /\ \A name \in EleventhNames : Undoes(DropIfThere(name, "conversations"), 11)
    /\ Undoes(UniqueIfMissing("uq_conversation_buyer_seller", "conversations",
                              {"buyer_id", "seller_id"}), 11)
<1>1. \A t, name, cols, n : Undoes(Rows(t, name, cols), n)
  BY DEF Undoes, Creates, Removes, Rows, Statement
<1>2. ASSUME NEW c \in LegacyColumns, NEW l
      PROVE  /\ Undoes(Statement("add_column", "conversations", c, {c}, l), 11)
             /\ Undoes(Statement("set_not_null", "conversations", c, {c}, l), 11)
  <2>1. /\ Legacy006(Column("conversations", c)) /\ Tame(Column("conversations", c))
        /\ Legacy006(Required("conversations", c)) /\ Tame(Required("conversations", c))
    BY <1>2 DEF Legacy006, Tame, Column, Required, Object, Named
  <2> QED BY <2>1 DEF Undoes, Creates, Removes, Statement
<1>3. ASSUME NEW c \in PeerColumns, NEW l
      PROVE  Undoes(Statement("drop_column", "conversations", c, {c}, l), 11)
  <2>1. ColumnAge("conversations", c) = 11
    BY <1>3 DEF ColumnAge
  <2> QED BY <2>1 DEF Undoes, Creates, Removes, Statement, Born
<1>4. ASSUME NEW name \in EleventhNames PROVE Undoes(DropIfThere(name, "conversations"), 11)
  <2>1. NameAge(name) = 11
    BY <1>4 DEF NameAge, ThirdNames, FourthNames, EighthNames, TenthNames, EleventhNames
  <2> QED BY <2>1 DEF Undoes, Creates, Removes, DropIfThere, Statement, Born
<1>5. Undoes(UniqueIfMissing("uq_conversation_buyer_seller", "conversations",
                             {"buyer_id", "seller_id"}), 11)
  <2> DEFINE o == Object("unique", "conversations", "uq_conversation_buyer_seller",
                         {"buyer_id", "seller_id"})
  <2>1. NameAge("uq_conversation_buyer_seller") = 0
    BY DEF NameAge, ThirdNames, FourthNames, EighthNames, TenthNames, EleventhNames
  <2>2. Legacy006(o) /\ Tame(o)
    BY <2>1 DEF Legacy006, LegacyColumns, Tame, Object, Named
  <2> QED BY <2>2 DEF Undoes, Creates, Removes, UniqueIfMissing, Statement
<1> QED BY <1>1, <1>2, <1>3, <1>4, <1>5

LEMMA Undo011 == AllUndo(Down011, 11) /\ Covers(Down011, 11)
<1> DEFINE three == Peers \o <<"context_seller_id">>
           A == ColumnsIfMissing("conversations", Legacy)
           B == << Rows("conversations", "restore_storefronts", Range(Legacy \o Peers)),
                   Rows("conversations", "delete_peer_chats", {"seller_id"}) >>
           C == NotNull("conversations", Legacy)
           D == << DropIfThere("uq_conversation_participants", "conversations"),
          DropIfThere("fk_conversations_participant_a", "conversations"),
          DropIfThere("fk_conversations_participant_b", "conversations"),
          DropIfThere("fk_conversations_context_seller", "conversations"),
          DropIfThere("ix_conversations_participant_a_id", "conversations"),
          DropIfThere("ix_conversations_participant_b_id", "conversations"),
          DropIfThere("ix_conversations_context_seller_id", "conversations") >>
           E == DropColumnsIfThere("conversations", three)
           G == << UniqueIfMissing("uq_conversation_buyer_seller", "conversations",
                          {"buyer_id", "seller_id"}) >>
<1>1. /\ IsList(Legacy) /\ Entries(Legacy) = LegacyColumns
      /\ IsList(three) /\ Entries(three) = PeerColumns
  BY Tuples, EntriesTuples, EntriesJoin DEF Peers, Legacy, LegacyColumns, PeerColumns
<1>2. Down011 = A \o B \o C \o D \o E \o G
  BY DEF Down011
<1> HIDE DEF three
<1>3. AllUndo(A, 11)
  <2>1. /\ IsList(A)
        /\ Entries(A) = {Statement("add_column", "conversations", c, {c}, TRUE) : c \in Entries(Legacy)}
    BY <1>1, EntriesEach
  <2>2. \A l : \A c \in LegacyColumns : Undoes(Statement("add_column", "conversations", c, {c}, l), 11)
    BY UndoesAre
  <2> HIDE DEF A
  <2> QED BY <1>1, <2>1, <2>2 DEF AllUndo
<1>4. AllUndo(B, 11)
  BY UndoesAre, Tuples, EntriesTuples DEF AllUndo
<1>5. AllUndo(C, 11)
  <2>1. /\ IsList(C)
        /\ Entries(C) = {Statement("set_not_null", "conversations", c, {c}, FALSE) : c \in Entries(Legacy)}
    BY <1>1, EntriesEach, ZenonT(60)
  <2>2. \A l : \A c \in LegacyColumns : Undoes(Statement("set_not_null", "conversations", c, {c}, l), 11)
    BY UndoesAre
  <2> HIDE DEF C
  <2> QED BY <1>1, <2>1, <2>2 DEF AllUndo
<1>6. /\ AllUndo(D, 11)
      /\ \A name \in EleventhNames : DropIfThere(name, "conversations") \in Entries(D)
  <2>1. IsList(D) /\ Entries(D) = {D[1], D[2], D[3], D[4], D[5], D[6], D[7]}
    BY Tuples, EntriesTuples
  <2>2. \A s \in Entries(D) : \E name \in EleventhNames : s = DropIfThere(name, "conversations")
    BY <2>1 DEF EleventhNames
  <2>3. \A name \in EleventhNames : DropIfThere(name, "conversations") \in Entries(D)
    BY <2>1 DEF EleventhNames
  <2> HIDE DEF D
  <2> QED BY <2>1, <2>2, <2>3, UndoesAre DEF AllUndo
<1>7. /\ AllUndo(E, 11)
      /\ \A o : o.table = "conversations" /\ o.cols \cap PeerColumns # {} => Drops(E, o)
  <2>1. /\ IsList(E)
        /\ Entries(E) = {Statement("drop_column", "conversations", c, {c}, TRUE) : c \in Entries(three)}
    BY <1>1, EntriesEach
  <2>2. \A l : \A c \in PeerColumns : Undoes(Statement("drop_column", "conversations", c, {c}, l), 11)
    BY UndoesAre
  <2>3. \A c, o, l : o.table = "conversations" /\ c \in o.cols =>
                     Removes(Statement("drop_column", "conversations", c, {c}, l), o)
    BY DEF Statement, Removes
  <2> HIDE DEF E
  <2>4. AllUndo(E, 11)
    BY <1>1, <2>1, <2>2 DEF AllUndo
  <2> QED BY <1>1, <2>1, <2>3, <2>4 DEF Drops
<1>8. AllUndo(G, 11)
  BY UndoesAre, Tuples, EntriesTuples DEF AllUndo
<1> HIDE DEF A, B, C, D, E, G
<1>9. AllUndo(Down011, 11)
  BY <1>2, <1>3, <1>4, <1>5, <1>6, <1>7, <1>8, AllUndoJoin
<1>10. Entries(D) \subseteq Entries(Down011) /\ Entries(E) \subseteq Entries(Down011)
  <2> DEFINE P == A \o B
             Q == P \o C
             R == Q \o D
             S == R \o E
  <2>1. /\ IsList(A) /\ IsList(B) /\ IsList(C) /\ IsList(D) /\ IsList(E) /\ IsList(G)
    BY <1>3, <1>4, <1>5, <1>6, <1>7, <1>8 DEF AllUndo
  <2>2. IsList(P) /\ IsList(Q) /\ IsList(R) /\ IsList(S)
    BY <2>1, EntriesJoin
  <2>3. Down011 = S \o G
    BY <1>2
  <2>4. Entries(R) = Entries(Q) \cup Entries(D)
    <3> HIDE DEF P, Q
    <3> QED BY <2>1, <2>2, EntriesJoin DEF R
  <2>5. Entries(S) = Entries(R) \cup Entries(E)
    <3> HIDE DEF P, Q, R
    <3> QED BY <2>1, <2>2, EntriesJoin DEF S
  <2> HIDE DEF P, Q, R, S
  <2>6. Entries(Down011) = Entries(S) \cup Entries(G)
    BY <2>1, <2>2, <2>3, EntriesJoin
  <2> QED BY <2>4, <2>5, <2>6
<1>11. ASSUME NEW o, Born(o, 11) PROVE Drops(Down011, o)
  <2>1. /\ \A t, c : ColumnAge(t, c) = 11 => t = "conversations" /\ c \in PeerColumns
        /\ \A name : NameAge(name) = 11 => name \in EleventhNames
    BY DEF ColumnAge, NameAge
  <2>2. \/ o.table = "conversations" /\ o.cols \cap PeerColumns # {}
        \/ Named(o) /\ o.name \in EleventhNames
    BY <1>11, <2>1, BornWhen
  <2>3. \A name, t : Named(o) /\ o.name = name => Removes(DropIfThere(name, t), o)
    BY DEF DropIfThere, Statement, Removes
  <2> QED BY <1>6, <1>7, <1>10, <2>2, <2>3 DEF Drops
<1> QED BY <1>9, <1>11 DEF Covers

LEMMA DownsUndo == \A n \in 1 .. 13 : n # 7 => AllUndo(Down[n], n) /\ Covers(Down[n], n)
<1>1. /\ AllTake(Down[1], 1) /\ Covers(Down[1], 1) /\ AllTake(Down[2], 2) /\ Covers(Down[2], 2)
      /\ AllTake(Down[3], 3) /\ Covers(Down[3], 3) /\ AllTake(Down[4], 4) /\ Covers(Down[4], 4)
  BY Take001, Take002, Take003, Take004, Zenon DEF Down
<1>2. /\ AllTake(Down[5], 5) /\ Covers(Down[5], 5) /\ AllTake(Down[6], 6) /\ Covers(Down[6], 6)
      /\ AllTake(Down[8], 8) /\ Covers(Down[8], 8) /\ AllTake(Down[9], 9) /\ Covers(Down[9], 9)
  BY Take005, Take006, Take008, Take009, Zenon DEF Down
<1>3. /\ AllTake(Down[10], 10) /\ Covers(Down[10], 10)
      /\ AllTake(Down[12], 12) /\ Covers(Down[12], 12)
      /\ AllTake(Down[13], 13) /\ Covers(Down[13], 13)
  BY Take010, Take012, Take013, Zenon DEF Down
<1>4. AllUndo(Down[11], 11) /\ Covers(Down[11], 11)
  BY Undo011, Zenon DEF Down
<1> SUFFICES ASSUME NEW n \in 1 .. 13, n # 7 PROVE AllUndo(Down[n], n) /\ Covers(Down[n], n)
  OBVIOUS
<1>5. \/ n = 1 \/ n = 2 \/ n = 3 \/ n = 4 \/ n = 5 \/ n = 6 \/ n = 8 \/ n = 9 \/ n = 10
      \/ n = 11 \/ n = 12 \/ n = 13
  OBVIOUS
<1>6. n # 11 => AllTake(Down[n], n) /\ Covers(Down[n], n)
  BY <1>1, <1>2, <1>3, <1>5
<1> QED BY <1>4, <1>6, TakesUndo

-----------------------------------------------------------------------------
(* What a whole downgrade makes of a schema                                *)

LEMMA UndoStep ==
    ASSUME NEW n, NEW s, Undoes(s, n), NEW T, AllTame(T)
    PROVE  /\ AllTame(Altered(T, s))
           /\ \A o \in Altered(T, s) : o \in T \/ (n = 11 /\ Legacy006(o))
           /\ \A o \in T : o \in Altered(T, s) \/ Born(o, n)
<1>1. \A o \in Altered(T, s) : o \in T \/ o \in Creates(s)
  BY AlteredCreates
<1>2. \A o \in Creates(s) : n = 11 /\ Legacy006(o) /\ Tame(o)
  BY DEF Undoes
<1>3. ASSUME NEW o \in T, o \notin Altered(T, s) PROVE Born(o, n)
  <2>1. CASE Removes(s, o)
    BY <2>1 DEF Undoes
  <2>2. CASE /\ s.op = "drop_object" /\ NameAge(s.name) = 11 /\ o.table = s.table
             /\ \E c \in o.cols : c \in PeerColumns
    <3>1. \A c \in PeerColumns : ColumnAge("conversations", c) = 11
      BY DEF ColumnAge
    <3>2. n = 11 /\ o.table = "conversations"
      BY <2>2 DEF Undoes
    <3> QED BY <2>2, <3>1, <3>2 DEF Born
  <2> QED BY <1>3, <2>1, <2>2, KeptOrRemoved
<1> QED BY <1>1, <1>2, <1>3 DEF AllTame

LEMMA DownSteps ==
    ASSUME NEW n \in 1 .. 13, n # 7, NEW S, AllTame(S)
    PROVE  LET T == Schemas(S, Down[n])[Len(Down[n])] IN
           /\ AllTame(T)
           /\ \A o : ~(n = 11 /\ Legacy006(o)) =>
                 /\ o \in T => o \in S
                 /\ o \in S => o \in T \/ Born(o, n)
                 /\ Drops(Down[n], o) => o \notin T
<1> DEFINE f == Down[n]
           F == Schemas(S, f)
           Steady(o) == ~(n = 11 /\ Legacy006(o))
           A == {i \in 0 .. Len(f) :
                    /\ AllTame(F[i])
                    /\ \A o : Steady(o) => /\ o \in F[i] => o \in S
                                           /\ o \in S => o \in F[i] \/ Born(o, n)}
<1>1. AllUndo(f, n)
  BY DownsUndo
<1>2. /\ Len(f) \in Nat /\ \A i \in 1 .. Len(f) : f[i] \in Entries(f)
      /\ \A s \in Entries(f) : \E i \in 1 .. Len(f) : s = f[i]
      /\ F[0] = S /\ \A i \in 1 .. Len(f) : F[i] = Altered(F[i - 1], f[i])
  <2>1. IsList(f)
    BY <1>1 DEF AllUndo
  <2> HIDE DEF f
  <2> QED BY <2>1, ScriptSteps
<1>3. \A s \in Entries(f) : Undoes(s, n)
  BY <1>1 DEF AllUndo
<1> HIDE DEF F, f
<1>4. 0 \in A
  BY <1>2
<1>5. ASSUME NEW i \in 1 .. Len(f), i - 1 \in A PROVE i \in A
  <2>1. /\ AllTame(F[i - 1])
        /\ \A o : Steady(o) => /\ o \in F[i - 1] => o \in S
                               /\ o \in S => o \in F[i - 1] \/ Born(o, n)
    BY <1>5
  <2>2. Undoes(f[i], n) /\ F[i] = Altered(F[i - 1], f[i]) /\ i \in 0 .. Len(f)
    BY <1>2, <1>3
  <2>3. /\ AllTame(F[i])
        /\ \A o \in F[i] : o \in F[i - 1] \/ ~Steady(o)
        /\ \A o \in F[i - 1] : o \in F[i] \/ Born(o, n)
    BY <2>1, <2>2, UndoStep
  <2>4. \A o : Steady(o) => /\ o \in F[i] => o \in S
                            /\ o \in S => o \in F[i] \/ Born(o, n)
    <3> HIDE DEF Steady
    <3> QED BY <2>1, <2>3
  <2> QED BY <2>2, <2>3, <2>4
<1>6. \A i \in 0 .. Len(f) : i \in A
  <2> HIDE DEF A
  <2> QED BY <1>2, <1>4, <1>5, UpTo
<1>7. ASSUME NEW o, Steady(o), Drops(f, o) PROVE o \notin F[Len(f)]
  <2>1. PICK i \in 1 .. Len(f) : Removes(f[i], o)
    BY <1>2, <1>7 DEF Drops
  <2> DEFINE B == {m \in 0 .. Len(f) : m >= i => o \notin F[m]}
  <2>2. i \in Nat /\ i >= 1
    BY <1>2
  <2>3. 0 \in B
    BY <1>2, <2>2
  <2>4. ASSUME NEW m \in 1 .. Len(f), m - 1 \in B PROVE m \in B
    <3>1. F[m] = Altered(F[m - 1], f[m]) /\ AllTame(F[m - 1]) /\ Undoes(f[m], n)
      BY <1>2, <1>3, <1>6
    <3>2. CASE m = i
      BY <2>1, <3>1, <3>2, AlteredRemoves
    <3>3. CASE m > i
      <4>1. o \notin F[m - 1]
        BY <1>2, <2>2, <2>4, <3>3
      <4>2. o \in F[m] => o \in F[m - 1] \/ (n = 11 /\ Legacy006(o))
        BY <3>1, UndoStep
      <4> QED BY <1>7, <4>1, <4>2
    <3>4. m >= i => m = i \/ m > i
      BY <1>2, <2>2
    <3> QED BY <3>2, <3>3, <3>4
  <2>5. \A m \in 0 .. Len(f) : m \in B
    <3> HIDE DEF B
    <3> QED BY <1>2, <2>3, <2>4, UpTo
  <2>6. Len(f) \in 0 .. Len(f) /\ Len(f) >= i
    BY <1>2
  <2> QED BY <2>5, <2>6
<1>8. Len(f) \in A
  BY <1>2, <1>6
<1>9. /\ AllTame(F[Len(f)])
      /\ \A o : Steady(o) => /\ o \in F[Len(f)] => o \in S
                             /\ o \in S => o \in F[Len(f)] \/ Born(o, n)
  BY <1>8
<1> QED BY <1>7, <1>9 DEF f, F

(* It is what was before the upgrade, object by object.                    *)
LEMMA DownObject ==
    ASSUME NEW n \in 1 .. 13, n # 7, NEW S, AllTame(S), NEW o, n = 11 => ~Legacy006(o),
           o \in S <=> o \in SchemaOf[n]
    PROVE  o \in Schemas(S, Down[n])[Len(Down[n])] <=> o \in SchemaOf[n - 1]
<1> DEFINE T == Schemas(S, Down[n])[Len(Down[n])]
           P == SchemaOf[n - 1]
<1>1. /\ o \in T => o \in S
      /\ o \in S => o \in T \/ Born(o, n)
      /\ Drops(Down[n], o) => o \notin T
  BY DownSteps
<1> HIDE DEF T
<1>2. Grown(P, n - 1) /\ Grown(SchemaOf[n], n)
  BY SchemaGrown
<1>3. /\ AllMake(Up[n], n) /\ Len(Up[n]) \in 0 .. Len(Up[n])
      /\ SchemaOf[n] = Schemas(P, Up[n])[Len(Up[n])]
  <2>1. AllMake(Up[n], n)
    BY Made
  <2>2. IsList(Up[n])
    BY <2>1 DEF AllMake
  <2>3. Len(Up[n]) \in Nat
    BY <2>2, ScriptSteps
  <2>4. Len(Up[n]) \in 0 .. Len(Up[n])
    BY <2>3
  <2> QED BY <2>1, <2>4, SchemaOfIs
<1> HIDE DEF P
<1>4. ASSUME o \in T PROVE o \in P
  <2>1. o \in SchemaOf[n]
    BY <1>1, <1>4
  <2>2. o \in P \/ Born(o, n)
    BY <1>2, <1>3, <2>1, GrownUp
  <2>3. ASSUME Born(o, n) PROVE FALSE
    <3>1. Aged(o, n)
      BY <1>2, <2>1 DEF Grown
    <3>2. Drops(Down[n], o)
      BY <2>3, <3>1, DownsUndo DEF Covers
    <3> QED BY <1>1, <1>4, <3>2
  <2> QED BY <2>2, <2>3
<1>5. ASSUME o \in P PROVE o \in T
  <2>1. o \in SchemaOf[n]
    BY <1>2, <1>3, <1>5, UpKeeps
  <2>2. ~Born(o, n)
    BY <1>2, <1>5, AgesGrow DEF Grown
  <2> QED BY <1>1, <2>1, <2>2
<1> QED BY <1>4, <1>5 DEF T, P

LEMMA DownBack ==
    ASSUME NEW n \in 1 .. 13, n \notin {7, 11}
    PROVE  Schemas(SchemaOf[n], Down[n])[Len(Down[n])] = SchemaOf[n - 1]
<1> DEFINE T == Schemas(SchemaOf[n], Down[n])[Len(Down[n])]
<1>1. AllTame(SchemaOf[n])
  BY SchemaGrown DEF Grown, AllTame
<1>2. \A o : o \in T <=> o \in SchemaOf[n - 1]
  BY <1>1, DownObject
<1> HIDE DEF T
<1> QED BY <1>2 DEF T

LEMMA DownAlike ==
    ASSUME NEW n \in 1 .. 13, n # 7, NEW S, AllTame(S), Alike(S, SchemaOf[n])
    PROVE  LET T == Schemas(S, Down[n])[Len(Down[n])]
           IN AllTame(T) /\ Alike(T, SchemaOf[n - 1])
<1> DEFINE T == Schemas(S, Down[n])[Len(Down[n])]
<1>1. AllTame(T)
  BY DownSteps
<1>2. \A o : ~Legacy006(o) => (o \in T <=> o \in SchemaOf[n - 1])
  BY DownObject DEF Alike
<1> HIDE DEF T
<1>3. Alike(T, SchemaOf[n - 1])
  BY <1>2 DEF Alike
<1> QED BY <1>1, <1>3 DEF T

-----------------------------------------------------------------------------
(* The committed schema and those that the processes are making            *)

(* The revision whose schema a process found at the beginning of a script  *)
Between(q) == IF q.up THEN q.step - 1 ELSE q.step
(* Below 011 the columns of 006 may be there again, or may not.            *)
Near(S, r) == r \in 7 .. 10 /\ AllTame(S) /\ Alike(S, SchemaOf[r])
(* 011 was undone, U being the undone scripts, or is by this process.      *)
Late(U, q) == 11 \in U \/ (~q.up /\ q.goal < 11 /\ q.from >= 11)
Stands(U, q, S) == S = SchemaOf[Between(q)] \/ (Late(U, q) /\ Near(S, Between(q)))
(* V is what the statements so far made of a schema of the revision.       *)
Built(U, q, V) == \E S : Stands(U, q, S) /\ V = Schemas(S, Script(q))[q.k - 1]
Skips7(q) == ~q.up /\ q.goal < 7 /\ q.from >= 7

Followed ==
    \/ Undone(7)
    \/ /\ db.schema = SchemaOf[rev] \/ (11 \in undone.scripts /\ Near(db.schema, rev))
       /\ \A j \in Jobs : Live(j) =>
             Skips7(job[j]) \/ Built(undone.scripts, job[j], View(j).schema)

(* The same place in the same scripts                                      *)
Abreast(p, q) == p.up = q.up /\ p.goal = q.goal /\ p.from = q.from /\ p.step = q.step

LEMMA AbreastBuilt ==
    ASSUME NEW p, NEW q, Abreast(p, q)
    PROVE  /\ Script(p) = Script(q) /\ (Skips7(p) <=> Skips7(q))
           /\ \A U, S : Stands(U, p, S) <=> Stands(U, q, S)
           /\ p.k = q.k => \A U, V : Built(U, q, V) => Built(U, p, V)
<1>1. Script(p) = Script(q) /\ (Skips7(p) <=> Skips7(q))
  BY DEF Abreast, Script, Skips7
<1>2. \A U, S : Stands(U, p, S) <=> Stands(U, q, S)
  BY DEF Abreast, Stands, Between, Late
<1>3. p.k = q.k => \A U, V : Built(U, q, V) => Built(U, p, V)
  BY <1>1, <1>2 DEF Built
<1> QED BY <1>1, <1>2, <1>3

LEMMA BuiltRan ==
    ASSUME NEW U, NEW q, NEW p, NEW V, Built(U, q, V), Abreast(p, q), p.k = q.k + 1,
           IsList(Script(q)), q.k \in 1 .. Len(Script(q)), q.k \in Nat
    PROVE  Built(U, p, Altered(V, Script(q)[q.k]))
<1>1. PICK S : Stands(U, q, S) /\ V = Schemas(S, Script(q))[q.k - 1]
  BY DEF Built
<1>2. Schemas(S, Script(q))[q.k] = Altered(V, Script(q)[q.k])
  <2> DEFINE f == Script(q)
  <2>1. \A i \in 1 .. Len(f) : Schemas(S, f)[i] = Altered(Schemas(S, f)[i - 1], f[i])
    <3> HIDE DEF f
    <3>1. IsList(f)
      BY DEF f
    <3> QED BY <3>1, ScriptSteps
  <2> QED BY <1>1, <2>1
<1>3. p.k - 1 = q.k
  OBVIOUS
<1>4. Script(p) = Script(q) /\ Stands(U, p, S)
  BY <1>1, AbreastBuilt
<1> QED BY <1>2, <1>3, <1>4 DEF Built

LEMMA UpAgain ==
    ASSUME NEW n \in 8 .. 11, NEW S, NEW T, AllTame(S), Alike(S, T), AllTame(T),
           SchemaOf[n] = Schemas(T, Up[n])[Len(Up[n])]
    PROVE  LET V == Schemas(S, Up[n])[Len(Up[n])] IN
           AllTame(V) /\ Alike(V, SchemaOf[n]) /\ (n = 11 => V = SchemaOf[n])
<1> DEFINE X == Schemas(S, Up[n])[Len(Up[n])]
           Y == Schemas(T, Up[n])[Len(Up[n])]
<1>1. AllTame(X) /\ Alike(X, Y) /\ (n = 11 => X = Y)
  BY UpAlike
<1> HIDE DEF X, Y
<1> QED BY <1>1 DEF X, Y

LEMMA UpFrom ==
    ASSUME NEW n \in 8 .. 11, NEW S, AllTame(S), Alike(S, SchemaOf[n - 1])
    PROVE  LET V == Schemas(S, Up[n])[Len(Up[n])] IN
           AllTame(V) /\ Alike(V, SchemaOf[n]) /\ (n = 11 => V = SchemaOf[n])
<1>1. AllTame(SchemaOf[n - 1])
  BY SchemaGrown DEF Grown, AllTame
<1>2. n \in 1 .. 13
  OBVIOUS
<1>3. SchemaOf[n] = Schemas(SchemaOf[n - 1], Up[n])[Len(Up[n])]
  BY <1>2, SchemaOfIs
<1> QED BY <1>1, <1>3, UpAgain

LEMMA BuiltEnds ==
    ASSUME NEW U, NEW q, NEW V, Built(U, q, V), ~Skips7(q), NEW n \in 1 .. 13, q.step = n,
           q.up \/ ~q.up, q.k = Len(Script(q)) + 1, Len(Script(q)) \in Nat,
           q.goal \in 0 .. 13, q.from \in 0 .. 13, ~q.up => q.goal < n /\ n <= q.from
    PROVE  LET r == IF q.up THEN n ELSE n - 1
           IN V = SchemaOf[r] \/ (Late(U, q) /\ Near(V, r))
<1>1. PICK S : Stands(U, q, S) /\ V = Schemas(S, Script(q))[Len(Script(q))]
  BY DEF Built
<1>2. \A i \in 0 .. 13 : AllTame(SchemaOf[i])
  BY SchemaGrown DEF Grown, AllTame
<1>3. CASE q.up
  <2>1. Script(q) = Up[n] /\ Between(q) = n - 1
    BY <1>3 DEF Script, Between
  <2>2. CASE S = SchemaOf[n - 1]
    BY <1>1, <1>3, <2>1, <2>2, SchemaOfIs
  <2>3. CASE Late(U, q) /\ Near(S, n - 1)
    <3>1. n \in 8 .. 11 /\ AllTame(S) /\ Alike(S, SchemaOf[n - 1]) /\ AllTame(SchemaOf[n - 1])
      BY <1>2, <2>3 DEF Near
    <3>3. AllTame(V) /\ Alike(V, SchemaOf[n]) /\ (n = 11 => V = SchemaOf[n])
      BY <1>1, <2>1, <3>1, UpFrom
    <3>4. n # 11 => n \in 7 .. 10
      BY <3>1
    <3> QED BY <1>3, <2>3, <3>3, <3>4 DEF Near
  <2> QED BY <1>1, <2>1, <2>2, <2>3 DEF Stands
<1>4. CASE ~q.up
  <2>1. Script(q) = Down[n] /\ Between(q) = n
    BY <1>4 DEF Script, Between
  <2>2. n # 7
    BY <1>4 DEF Skips7
  <2>3. CASE S = SchemaOf[n] /\ n # 11
    BY <1>1, <1>4, <2>1, <2>2, <2>3, DownBack
  <2>4. CASE S = SchemaOf[n] /\ n = 11
    <3>1. AllTame(S) /\ Alike(S, SchemaOf[n])
      BY <1>2, <2>4 DEF Alike
    <3>2. AllTame(V) /\ Alike(V, SchemaOf[n - 1])
      BY <1>1, <2>1, <2>2, <3>1, DownAlike
    <3>3. Late(U, q) /\ n - 1 \in 7 .. 10
      BY <1>4, <2>4 DEF Late
    <3> QED BY <1>4, <3>2, <3>3 DEF Near
  <2>5. CASE Late(U, q) /\ Near(S, n)
    <3>1. n \in 8 .. 10 /\ AllTame(S) /\ Alike(S, SchemaOf[n])
      BY <2>2, <2>5 DEF Near
    <3>2. AllTame(V) /\ Alike(V, SchemaOf[n - 1])
      BY <1>1, <2>1, <2>2, <3>1, DownAlike
    <3>3. n - 1 \in 7 .. 10
      BY <3>1
    <3> QED BY <1>4, <2>5, <3>2, <3>3 DEF Near
  <2> QED BY <1>1, <2>1, <2>3, <2>4, <2>5 DEF Stands
<1> QED BY <1>3, <1>4

LEMMA BuiltBegins ==
    ASSUME NEW U, NEW p, NEW V, p.k = 1, p.step \in 1 .. 13, NEW r, Between(p) = r,
           V = SchemaOf[r] \/ (Late(U, p) /\ Near(V, r))
    PROVE  Built(U, p, V)
<1>1. Schemas(V, Script(p))[0] = V
  <2>1. Len(Script(p)) \in Nat
    BY ScriptIs, LatestIs
  <2> QED BY <2>1, SchemasAre
<1>2. Stands(U, p, V) /\ p.k - 1 = 0
  BY DEF Stands
<1> QED BY <1>1, <1>2 DEF Built

LEMMA BuiltMoves ==
    ASSUME Control, Control', NEW j \in Jobs, Moves(j), NEW U, NEW V, rev' = rev,
           Skips7(job[j]) \/ Built(U, job[j], V), Live(j)'
    PROVE  Skips7(job'[j]) \/ Built(U, job'[j], V)
<1> DEFINE q == job[j]
           p == job'[j]
<1>1. /\ Live(j) /\ q.k = Size(Script(q)) + 1
      /\ p.up = q.up /\ p.from = q.from /\ p.goal = q.goal /\ p.step \in 1 .. 13
      /\ \/ p.step = q.step /\ p.k = q.k
         \/ p.k = 1 /\ p.step = (IF q.up THEN q.step + 1 ELSE q.step - 1)
  BY LatestIs DEF Moves
<1>2. /\ q.step \in 1 .. 13 /\ q.goal \in 0 .. 13 /\ q.from \in 0 .. 13
      /\ (q.up \/ ~q.up) /\ (~q.up => q.goal < q.step /\ q.step <= q.from)
      /\ Len(Script(q)) \in Nat /\ q.k = Len(Script(q)) + 1
  <2>1. Placed(q) /\ q.step \in 1 .. Latest
    BY <1>1, LivePlaced
  <2>2. Len(Script(q)) = Size(Script(q)) /\ Size(Script(q)) \in Nat
    BY <2>1, ScriptIs
  <2> QED BY <1>1, <2>1, <2>2, LatestIs DEF Placed
<1> HIDE DEF q, p
<1>3. CASE Skips7(q)
  BY <1>1, <1>3 DEF Skips7, p, q
<1>4. CASE ~Skips7(q) /\ p.step = q.step /\ p.k = q.k
  <2>1. Abreast(p, q)
    BY <1>1, <1>4 DEF Abreast
  <2> QED BY <1>4, <2>1, AbreastBuilt DEF p, q
<1>5. CASE ~Skips7(q) /\ p.k = 1 /\ p.step = (IF q.up THEN q.step + 1 ELSE q.step - 1)
  <2> DEFINE r == IF q.up THEN q.step ELSE q.step - 1
  <2>1. V = SchemaOf[r] \/ (Late(U, q) /\ Near(V, r))
    BY <1>2, <1>5, BuiltEnds DEF q
  <2>2. Between(p) = r
    BY <1>1, <1>2, <1>5 DEF Between
  <2>3. Late(U, p) <=> Late(U, q)
    BY <1>1 DEF Late
  <2> HIDE DEF r
  <2>4. Built(U, p, V)
    BY <1>1, <1>5, <2>1, <2>2, <2>3, BuiltBegins
  <2> QED BY <2>4 DEF p
<1> QED BY <1>1, <1>3, <1>4, <1>5

LEMMA BuiltCommits ==
    ASSUME Control, NEW j \in Jobs, Commits(j), NEW V,
           Skips7(job[j]) \/ Built(undone.scripts, job[j], V)
    PROVE  LET r == job[j].goal IN
           Undone(7)' \/ V = SchemaOf[r] \/ (11 \in undone'.scripts /\ Near(V, r))
<1> DEFINE q == job[j]
           U == undone.scripts
<1>1. /\ q.step = LastStep(q) /\ q.k = Size(Script(q)) + 1 /\ q.step \in 1 .. 13
      /\ q.goal \in 0 .. 13 /\ q.from \in 0 .. 13
      /\ (q.up => q.goal = q.step) /\ (~q.up => q.goal = q.step - 1 /\ q.step <= q.from)
      /\ (q.up \/ ~q.up) /\ Len(Script(q)) = Size(Script(q)) /\ Size(Script(q)) \in Nat
  <2>1. Placed(q) /\ q.step \in 1 .. Latest /\ q.at = "commit"
    BY LivePlaced DEF Commits
  <2>2. Len(Script(q)) = Size(Script(q)) /\ Size(Script(q)) \in Nat
    BY <2>1, ScriptIs
  <2> QED BY <2>1, <2>2, LatestIs, SMTT(60) DEF Placed, LastStep
<1>2. /\ q.up => undone' = undone
      /\ ~q.up => undone'.scripts = U \cup (Lossy \cap (q.goal + 1 .. q.from))
  BY DEF Commits
<1> HIDE DEF q, U
<1>3. CASE Skips7(q)
  <2>1. 7 \in Lossy \cap (q.goal + 1 .. q.from) /\ ~q.up
    BY <1>1, <1>3 DEF Skips7, Lossy
  <2> QED BY <1>2, <2>1 DEF Undone
<1>4. CASE ~Skips7(q)
  <2> DEFINE r == IF q.up THEN q.step ELSE q.step - 1
  <2>0. Built(U, q, V)
    BY <1>4 DEF q, U
  <2>1. V = SchemaOf[r] \/ (Late(U, q) /\ Near(V, r))
    <3>1. /\ q.step \in 1 .. 13 /\ (q.up \/ ~q.up) /\ q.goal \in 0 .. 13 /\ q.from \in 0 .. 13
          /\ q.k = Len(Script(q)) + 1 /\ Len(Script(q)) \in Nat
          /\ ~q.up => q.goal < q.step /\ q.step <= q.from
      BY <1>1
    <3> QED BY <1>4, <2>0, <3>1, BuiltEnds
  <2>2. r = q.goal
    BY <1>1
  <2>3. Late(U, q) => 11 \in undone'.scripts
    BY <1>1, <1>2 DEF Late, Lossy, U
  <2> HIDE DEF r
  <2> QED BY <2>1, <2>2, <2>3 DEF q
<1> QED BY <1>3, <1>4

LEMMA FollowedWorks ==
    ASSUME Control, Control', Followed, NEW j \in Jobs, Works(j)
    PROVE  Followed'
<1>1. CASE /\ rev' = rev /\ db' = db /\ undone' = undone
           /\ \A i \in Jobs : Live(i)' => Stayed(i) \/ Began(i) \/ Ran(i) \/ Moves(i)
  <2> SUFFICES ASSUME ~Undone(7), NEW i \in Jobs, Live(i)'
               PROVE  Skips7(job'[i]) \/ Built(undone.scripts, job'[i], View(i)'.schema)
    BY <1>1 DEF Followed, Undone
  <2>1. /\ db.schema = SchemaOf[rev] \/ (11 \in undone.scripts /\ Near(db.schema, rev))
        /\ Live(i) => Skips7(job[i]) \/ Built(undone.scripts, job[i], View(i).schema)
    BY DEF Followed
  <2>2. CASE Stayed(i)
    BY <1>1, <2>1, <2>2, ViewKept DEF Stayed
  <2>3. CASE Began(i)
    <3> DEFINE p == job'[i]
    <3>1. View(i)' = db
      BY <1>1, <2>3 DEF Began, View, Seen
    <3>2. /\ rev \in 0 .. 13 /\ p.k = 1 /\ p.step \in 1 .. 13 /\ (p.up \/ ~p.up)
          /\ (p.up => p.step = rev + 1) /\ (~p.up => p.step = rev)
      BY <2>3, LatestIs DEF Began, Control
    <3> HIDE DEF p
    <3>3. Between(p) = rev
      BY <3>2 DEF Between
    <3>4. 11 \in undone.scripts => Late(undone.scripts, p)
      BY DEF Late
    <3>5. Built(undone.scripts, p, db.schema)
      BY <2>1, <3>2, <3>3, <3>4, BuiltBegins
    <3> QED BY <3>1, <3>5 DEF p
  <2>4. CASE Ran(i)
    <3> DEFINE q == job[i]
               p == job'[i]
    <3>1. /\ Live(i) /\ Abreast(p, q) /\ p.k = q.k + 1
          /\ View(i)'.schema = Altered(View(i).schema, Script(q)[q.k])
          /\ q.k <= Size(Script(q))
      BY <2>4 DEF Ran, Abreast
    <3>2. IsList(Script(q)) /\ q.k \in 1 .. Len(Script(q)) /\ q.k \in Nat
      <4>1. q.step \in 1 .. Latest /\ q.k \in Nat /\ q.k \in 1 .. Size(Script(q)) + 1
        BY <3>1, LivePlaced
      <4>2. /\ Listed(Script(q)) /\ Len(Script(q)) = Size(Script(q))
            /\ Size(Script(q)) \in Nat
        BY <4>1, ScriptIs
      <4>3. IsList(Script(q))
        BY <4>2 DEF Listed
      <4> HIDE DEF q
      <4> QED BY <3>1, <4>1, <4>2, <4>3
    <3> HIDE DEF p, q
    <3>3. CASE Skips7(q)
      BY <3>1, <3>3, AbreastBuilt DEF p
    <3>4. CASE ~Skips7(q)
      <4>1. Built(undone.scripts, q, View(i).schema)
        BY <2>1, <3>1, <3>4 DEF q
      <4>2. Built(undone.scripts, p, Altered(View(i).schema, Script(q)[q.k]))
        BY <3>1, <3>2, <4>1, BuiltRan
      <4> QED BY <3>1, <4>2 DEF p
    <3> QED BY <3>3, <3>4
  <2>5. CASE Moves(i)
    <3>1. View(i)' = View(i) /\ Live(i)
      BY <1>1, <2>5, ViewKept DEF Moves
    <3> QED BY <1>1, <2>1, <2>5, <3>1, BuiltMoves
  <2> QED BY <1>1, <2>2, <2>3, <2>4, <2>5
<1>2. CASE Commits(j)
  <2>1. /\ Live(j) /\ rev' = job[j].goal /\ db' = View(j) /\ \A i \in Jobs : ~Live(i)'
        /\ undone.scripts \subseteq undone'.scripts
    BY <1>2 DEF Commits
  <2>2. CASE Undone(7)
    BY <2>1, <2>2 DEF Followed, Undone
  <2>3. CASE ~Undone(7)
    <3>1. Skips7(job[j]) \/ Built(undone.scripts, job[j], View(j).schema)
      BY <2>1, <2>3 DEF Followed
    <3>2. \/ Undone(7)' \/ View(j).schema = SchemaOf[job[j].goal]
          \/ (11 \in undone'.scripts /\ Near(View(j).schema, job[j].goal))
      BY <1>2, <3>1, BuiltCommits
    <3> QED BY <2>1, <3>2 DEF Followed
  <2> QED BY <2>2, <2>3
<1> QED BY <1>1, <1>2 DEF Works

LEMMA FollowedStep == Orderly /\ Followed /\ [Next]_vars => Followed'
<1> SUFFICES ASSUME Orderly, Followed, [Next]_vars PROVE Followed'
  OBVIOUS
<1>1. CASE Programs
  <2>1. SameButRows
    BY <1>1, ProgramsKeep DEF Orderly
  <2>2. \A j \in Jobs : /\ Live(j)' <=> Live(j)
                        /\ Abreast(job'[j], job[j]) /\ job'[j].k = job[j].k
                        /\ View(j)'.schema = View(j).schema
    BY <2>1 DEF SameButRows, SameJob, Live, Busy, Abreast
  <2>3. rev' = rev /\ undone' = undone /\ db'.schema = db.schema
    BY <2>1 DEF SameButRows
  <2>4. ASSUME NEW j \in Jobs, Skips7(job[j]) \/ Built(undone.scripts, job[j], View(j).schema)
        PROVE  Skips7(job'[j]) \/ Built(undone.scripts, job'[j], View(j)'.schema)
    BY <2>2, <2>4, AbreastBuilt
  <2> QED BY <2>2, <2>3, <2>4 DEF Followed, Undone
<1>2. CASE \E j \in Jobs : Alembic(j)
  BY <1>2, AlembicWorks, FollowedWorks DEF Orderly
<1>3. CASE UNCHANGED vars
  BY <1>3 DEF vars, Followed, Live, View, Seen, Undone
<1> QED BY <1>1, <1>2, <1>3 DEF Next, Done

(* However containers start at once, stop or fail and operators go back    *)
(* and forth, the committed schema is the one that the scripts up to its   *)
(* revision make of an empty database: each downgrade() undoes its         *)
(* upgrade(), but for 007's, and 011's until 011 is applied again.         *)
THEOREM SchemaFollows == Spec => []SchemaFollowsRevision
<1>1. Init => Orderly /\ Followed
  <2> SUFFICES ASSUME Init PROVE Followed
    BY OrderlyInit
  <2>1. db.schema = {} /\ rev = 0 /\ \A j \in Jobs : ~Live(j)
    BY EmptyIs, IdleIs DEF Init, Live, Busy
  <2> QED BY <2>1, SchemaOfIs DEF Followed
<1>2. (Orderly /\ Followed) /\ [Next]_vars => (Orderly /\ Followed)'
  BY OrderlyStep, FollowedStep
<1>3. Followed => SchemaFollowsRevision
  BY DEF Followed, Near, Undone, SchemaFollowsRevision
<1> QED BY <1>1, <1>2, <1>3, PTL DEF Spec
=============================================================================
