-------------------------- MODULE MigrationScripts --------------------------
(***************************************************************************)
(* The scripts of alembic/versions, 001 to 013: each revision's upgrade    *)
(* and downgrade as the sequence of its SQL statements.                    *)
(*                                                                         *)
(* A column is kept by its name and by whether an INSERT must give it a    *)
(* value (NOT NULL without DEFAULT); its type only where a script changes  *)
(* it.  The key "id", which every row brings along, and the enumerated     *)
(* types, created and dropped only when missing or there, are left out.    *)
(***************************************************************************)
EXTENDS Naturals, Sequences, Functions

NoName == "no_name"

(* op       : what the statement does                                      *)
(* table    : to which table                                               *)
(* name     : the column, index or constraint                              *)
(* cols     : the columns created, indexed, constrained, or (a statement   *)
(*            on rows) used                                                *)
(* required : those of a new table that are NOT NULL without DEFAULT       *)
(* refs     : foreign keys, as <<column, referenced table>>                *)
(* uniques  : unique constraints of a new table, as <<name, columns>>      *)
(* lenient  : IF [NOT] EXISTS                                              *)
Statement(op, t, name, cols, lenient) ==
    [op |-> op, table |-> t, name |-> name, cols |-> cols, lenient |-> lenient,
     required |-> {}, refs |-> {}, uniques |-> {}]

NewTable(t, required, others, refs, uniques) ==
    [Statement("create_table", t, NoName, required \cup others, FALSE)
        EXCEPT !.required = required, !.refs = refs, !.uniques = uniques]
OldTable(t) == Statement("drop_table", t, NoName, {}, FALSE)

Each(F(_), names) == [i \in DOMAIN names |-> F(names[i])]
Columns(t, names) ==
    LET Add(c) == Statement("add_column", t, c, {c}, FALSE) IN Each(Add, names)
ColumnsIfMissing(t, names) ==
    LET Add(c) == Statement("add_column", t, c, {c}, TRUE) IN Each(Add, names)
DropColumns(t, names) ==
    LET Drop(c) == Statement("drop_column", t, c, {c}, FALSE) IN Each(Drop, names)
DropColumnsIfThere(t, names) ==
    LET Drop(c) == Statement("drop_column", t, c, {c}, TRUE) IN Each(Drop, names)
NotNull(t, names) ==
    LET Require(c) == Statement("set_not_null", t, c, {c}, FALSE) IN Each(Require, names)

(* Index ix_<table>_<column>, as index=True of a column would name it      *)
Index(name, t, cols) == Statement("create_index", t, name, cols, FALSE)
UniqueIndex(name, t, cols) == Statement("create_unique", t, name, cols, FALSE)
Check(name, t, cols) == Statement("add_check", t, name, cols, FALSE)
Foreign(name, t, c, target) ==
    [Statement("add_foreign_key", t, name, {c}, TRUE) EXCEPT !.refs = {<<c, target>>}]
IndexIfMissing(name, t, cols) == Statement("create_index", t, name, cols, TRUE)
UniqueIfMissing(name, t, cols) == Statement("create_unique", t, name, cols, TRUE)
Drop(name, t) == Statement("drop_object", t, name, {}, FALSE)
DropIfThere(name, t) == Statement("drop_object", t, name, {}, TRUE)
Retype(t, c, op) == Statement(op, t, c, {c}, FALSE)
Rows(t, name, cols) == Statement("rows", t, name, cols, FALSE)

-----------------------------------------------------------------------------
(* 001 initial schema *)

Up001Sellers == <<
    NewTable("users", {"firebase_uid", "email", "account_type"},
        {"password_hash", "display_name", "created_at"}, {},
        {<<"users_firebase_uid_key", {"firebase_uid"}>>, <<"users_email_key", {"email"}>>}),
    Index("ix_users_email", "users", {"email"}),
    Index("ix_users_firebase_uid", "users", {"firebase_uid"}),
    NewTable("categories", {"slug", "name_en"}, {"name_fr", "name_ar", "icon"}, {},
        {<<"categories_slug_key", {"slug"}>>}),
    NewTable("seller_profiles",
        {"business_name", "address", "city", "latitude", "longitude"},
        {"user_id", "description", "phone", "cover_image_url", "achievement_stars",
         "average_rating", "review_count", "is_active", "created_at"},
        {<<"user_id", "users">>}, {<<"seller_profiles_user_id_key", {"user_id"}>>}),
    Index("ix_seller_profiles_city", "seller_profiles", {"city"}),
    NewTable("seller_categories", {"seller_id", "category_id"}, {},
        {<<"seller_id", "seller_profiles">>, <<"category_id", "categories">>},
        {<<"seller_categories_pkey", {"seller_id", "category_id"}>>}) >>

Up001Listings == <<
    NewTable("products", {"name"},
        {"seller_id", "description", "price_mad", "image_url", "is_available", "created_at"},
        {<<"seller_id", "seller_profiles">>}, {}),
    NewTable("services", {"name"},
        {"seller_id", "description", "price_mad", "image_url", "is_available", "created_at"},
        {<<"seller_id", "seller_profiles">>}, {}),
    NewTable("reviews", {"rating"},
        {"seller_id", "buyer_id", "comment", "created_at", "updated_at"},
        {<<"seller_id", "seller_profiles">>, <<"buyer_id", "users">>},
        {<<"uq_review_seller_buyer", {"seller_id", "buyer_id"}>>}),
    NewTable("warning_zones", {"name", "city", "latitude", "longitude"},
        {"description", "radius_meters", "is_active"}, {}, {}) >>

Up001 == Up001Sellers \o Up001Listings

Down001 == Each(OldTable,
    <<"warning_zones", "reviews", "services", "products", "seller_categories",
      "seller_profiles", "categories", "users">>)

(* 002 category taxonomy *)
Up002 == << Rows("categories", "seed_categories", {"slug", "name_en", "name_fr", "name_ar", "icon"}) >>
Down002 == << Rows("categories", "delete_categories", {"slug"}) >>

(* 003 refresh tokens *)
Up003 == <<
    NewTable("refresh_tokens", {"user_id", "token_hash", "expires_at"},
        {"revoked", "created_at"}, {<<"user_id", "users">>}, {}),
    Index("ix_refresh_tokens_user_id", "refresh_tokens", {"user_id"}),
    UniqueIndex("ix_refresh_tokens_token_hash", "refresh_tokens", {"token_hash"}) >>
Down003 == <<
    Drop("ix_refresh_tokens_token_hash", "refresh_tokens"),
    Drop("ix_refresh_tokens_user_id", "refresh_tokens"),
    OldTable("refresh_tokens") >>

(* 004 indexes and the range of a rating *)
Up004 == <<
    Index("ix_products_seller_id", "products", {"seller_id"}),
    Index("ix_services_seller_id", "services", {"seller_id"}),
    Index("ix_reviews_seller_id", "reviews", {"seller_id"}),
    Index("ix_reviews_buyer_id", "reviews", {"buyer_id"}),
    Index("ix_seller_profiles_is_active", "seller_profiles", {"is_active"}),
    Check("ck_reviews_rating_range", "reviews", {"rating"}) >>
Down004 == <<
    Drop("ck_reviews_rating_range", "reviews"),
    Drop("ix_seller_profiles_is_active", "seller_profiles"),
    Drop("ix_reviews_buyer_id", "reviews"),
    Drop("ix_reviews_seller_id", "reviews"),
    Drop("ix_services_seller_id", "services"),
    Drop("ix_products_seller_id", "products") >>

(* 005 seller account fields *)
Up005 == Columns("seller_profiles",
    <<"logo_image_url", "opening_hours", "profile_view_count">>)
(* Seeded fault: a column is forgotten.                                    *)
Down005Partial == DropColumns("seller_profiles", <<"profile_view_count", "logo_image_url">>)
Down005 == DropColumns("seller_profiles",
    <<"profile_view_count", "opening_hours", "logo_image_url">>)

-----------------------------------------------------------------------------
(* 006 identity, commerce, messaging, premium, admin *)

Up006Columns ==
    Columns("users", <<"email_verified_at", "phone", "status", "role", "last_login_at",
                       "is_premium", "premium_until", "mfa_enabled">>)
    \o Columns("refresh_tokens", <<"device_name", "ip_address", "user_agent", "last_seen_at">>)
    \o Columns("products", <<"stock_quantity", "sku", "is_hidden">>)
    \o Columns("seller_profiles", <<"verification_status", "is_premium",
                                    "total_sales_mad", "order_count">>)

Up006Accounts == <<
    NewTable("auth_tokens", {"user_id", "purpose", "token_hash", "expires_at"},
        {"used_at", "created_at"}, {<<"user_id", "users">>},
        {<<"auth_tokens_token_hash_key", {"token_hash"}>>}),
    Index("ix_auth_tokens_user_id", "auth_tokens", {"user_id"}),
    Index("ix_auth_tokens_purpose", "auth_tokens", {"purpose"}),
    NewTable("mfa_factors", {"user_id", "factor_type", "secret_encrypted"},
        {"verified_at", "disabled_at", "created_at"}, {<<"user_id", "users">>}, {}),
    Index("ix_mfa_factors_user_id", "mfa_factors", {"user_id"}) >>

Up006Carts == <<
    NewTable("buyer_addresses",
        {"user_id", "recipient_name", "phone", "address_line1", "city"},
        {"label", "latitude", "longitude", "is_default", "created_at"},
        {<<"user_id", "users">>}, {}),
    Index("ix_buyer_addresses_user_id", "buyer_addresses", {"user_id"}),
    NewTable("cart_items",
        {"user_id", "product_id", "seller_id", "quantity", "unit_price_mad"},
        {"created_at", "updated_at"},
        {<<"user_id", "users">>, <<"product_id", "products">>,
         <<"seller_id", "seller_profiles">>},
        {<<"uq_cart_user_product", {"user_id", "product_id"}>>}),
    Index("ix_cart_items_user_id", "cart_items", {"user_id"}),
    NewTable("wishlist_items", {"user_id", "product_id"}, {"created_at"},
        {<<"user_id", "users">>, <<"product_id", "products">>},
        {<<"uq_wishlist_user_product", {"user_id", "product_id"}>>}),
    Index("ix_wishlist_items_user_id", "wishlist_items", {"user_id"}) >>

Up006Orders == <<
    NewTable("orders", {"buyer_id", "seller_id", "subtotal_mad", "total_mad"},
        {"status", "delivery_fee_mad", "currency", "payment_method", "payment_status",
         "delivery_name", "delivery_phone", "delivery_address", "delivery_city",
         "buyer_note", "seller_note", "created_at", "updated_at", "accepted_at",
         "completed_at", "cancelled_at"},
        {<<"buyer_id", "users">>, <<"seller_id", "seller_profiles">>}, {}),
    Index("ix_orders_buyer_id", "orders", {"buyer_id"}),
    Index("ix_orders_seller_id", "orders", {"seller_id"}),
    Index("ix_orders_status", "orders", {"status"}),
    NewTable("order_items",
        {"order_id", "product_name", "quantity", "unit_price_mad", "total_mad"},
        {"product_id", "image_url"},
        {<<"order_id", "orders">>, <<"product_id", "products">>}, {}),
    Index("ix_order_items_order_id", "order_items", {"order_id"}) >>

Up006Messaging == <<
    NewTable("conversations", {"buyer_id", "seller_id"}, {"last_message_at", "created_at"},
        {<<"buyer_id", "users">>, <<"seller_id", "seller_profiles">>},
        {<<"uq_conversation_buyer_seller", {"buyer_id", "seller_id"}>>}),
    Index("ix_conversations_buyer_id", "conversations", {"buyer_id"}),
    Index("ix_conversations_seller_id", "conversations", {"seller_id"}),
    NewTable("messages", {"conversation_id", "sender_id", "body"}, {"read_at", "created_at"},
        {<<"conversation_id", "conversations">>, <<"sender_id", "users">>}, {}),
    Index("ix_messages_conversation_id", "messages", {"conversation_id"}),
    NewTable("notifications", {"user_id", "title"},
        {"body", "kind", "data", "read_at", "created_at"}, {<<"user_id", "users">>}, {}),
    Index("ix_notifications_user_id", "notifications", {"user_id"}) >>

Up006Premium == <<
    NewTable("coupons", {"seller_id", "code"},
        {"description", "percent_off", "amount_off_mad", "min_order_mad", "max_uses",
         "used_count", "is_active", "starts_at", "ends_at", "created_at"},
        {<<"seller_id", "seller_profiles">>},
        {<<"uq_coupon_seller_code", {"seller_id", "code"}>>}),
    Index("ix_coupons_seller_id", "coupons", {"seller_id"}),
    NewTable("subscription_plans", {"code", "name", "price_mad"},
        {"description", "billing_period_days", "features", "is_active", "created_at"}, {},
        {<<"subscription_plans_code_key", {"code"}>>}),
    NewTable("subscriptions",
        {"user_id", "plan_id", "current_period_start", "current_period_end"},
        {"status", "provider", "provider_reference", "created_at"},
        {<<"user_id", "users">>, <<"plan_id", "subscription_plans">>}, {}),
    Index("ix_subscriptions_user_id", "subscriptions", {"user_id"}),
    NewTable("admin_audit_logs", {"actor_id", "action"},
        {"target_type", "target_id", "metadata", "created_at"},
        {<<"actor_id", "users">>}, {}),
    Index("ix_admin_audit_logs_actor_id", "admin_audit_logs", {"actor_id"}),
    Rows("subscription_plans", "seed_plans", {"code", "name", "price_mad"}) >>

Up006 == Up006Columns \o Up006Accounts \o Up006Carts \o Up006Orders
         \o Up006Messaging \o Up006Premium

Down006 ==
    Each(OldTable,
        <<"admin_audit_logs", "subscriptions", "subscription_plans", "coupons",
          "notifications", "messages", "conversations">>)
    \o Each(OldTable, <<"order_items", "orders", "wishlist_items", "cart_items",
                        "buyer_addresses", "mfa_factors", "auth_tokens">>)
    \o DropColumns("seller_profiles", <<"order_count", "total_sales_mad", "is_premium",
                                        "verification_status">>)
    \o DropColumns("products", <<"is_hidden", "sku", "stock_quantity">>)
    \o DropColumns("refresh_tokens", <<"last_seen_at", "user_agent", "ip_address",
                                       "device_name">>)
    \o DropColumns("users", <<"mfa_enabled", "premium_until", "is_premium", "last_login_at",
                              "role", "status", "phone", "email_verified_at">>)

-----------------------------------------------------------------------------
(* 007 from commerce to discovery *)

CascadeIfThere(t) == Statement("drop_cascade", t, NoName, {}, TRUE)

(* Seeded fault: orders goes before the rows that refer to it, by a plain  *)
(* DROP TABLE.                                                             *)
Up007CommercePlain == Each(OldTable,
    <<"orders", "order_items", "cart_items", "buyer_addresses", "coupons">>)
Up007Commerce == Each(CascadeIfThere,
    <<"order_items", "orders", "cart_items", "buyer_addresses", "coupons">>)

Up007Sellers ==
    Columns("seller_profiles",
        <<"website_url", "instagram_url", "facebook_url", "tiktok_url", "whatsapp_number",
          "payment_methods", "delivery_methods", "service_areas", "avg_response_minutes",
          "inquiry_count", "favorite_count", "contact_click_count">>)
    \o DropColumnsIfThere("seller_profiles", <<"total_sales_mad", "order_count">>)

Up007Listings ==
    Columns("products",
        <<"price_negotiable", "availability_note", "accepted_payment_methods",
          "delivery_options", "is_featured", "is_paused", "media_urls", "video_url",
          "category_slug">>)
    \o DropColumnsIfThere("products", <<"sku">>)
    \o Columns("services", <<"price_negotiable", "coverage_areas", "is_featured">>)
    \o << CascadeIfThere("wishlist_items") >>

Up007Follows == <<
    NewTable("favorites", {"user_id"}, {"product_id", "seller_id", "created_at"},
        {<<"user_id", "users">>, <<"product_id", "products">>,
         <<"seller_id", "seller_profiles">>}, {}),
    Index("ix_favorites_user_id", "favorites", {"user_id"}),
    Index("ix_favorites_product_id", "favorites", {"product_id"}),
    Index("ix_favorites_seller_id", "favorites", {"seller_id"}),
    NewTable("seller_follows", {"user_id", "seller_id"}, {"created_at"},
        {<<"user_id", "users">>, <<"seller_id", "seller_profiles">>},
        {<<"uq_follow_user_seller", {"user_id", "seller_id"}>>}),
    Index("ix_seller_follows_user_id", "seller_follows", {"user_id"}) >>

Up007Discovery == <<
    NewTable("saved_searches", {"user_id"}, {"query", "city", "category", "created_at"},
        {<<"user_id", "users">>}, {}),
    Index("ix_saved_searches_user_id", "saved_searches", {"user_id"}),
    NewTable("recently_viewed", {"user_id"}, {"seller_id", "product_id", "viewed_at"},
        {<<"user_id", "users">>, <<"seller_id", "seller_profiles">>,
         <<"product_id", "products">>}, {}),
    Index("ix_recently_viewed_user_id", "recently_viewed", {"user_id"}),
    NewTable("reports", {"reason"},
        {"reporter_id", "seller_id", "product_id", "details", "status", "created_at"},
        {<<"reporter_id", "users">>, <<"seller_id", "seller_profiles">>,
         <<"product_id", "products">>}, {}),
    Index("ix_reports_status", "reports", {"status"}),
    NewTable("contact_events", {"seller_id", "channel"}, {"user_id", "created_at"},
        {<<"seller_id", "seller_profiles">>, <<"user_id", "users">>}, {}),
    Index("ix_contact_events_seller_id", "contact_events", {"seller_id"}) >>

Up007 == Up007Commerce \o Up007Sellers \o Up007Listings \o Up007Follows
         \o Up007Discovery

(* It drops neither the columns of services nor four of products, and      *)
(* brings back none of the tables and columns that Up007 dropped.          *)
Down007 ==
    Each(OldTable, <<"contact_events", "reports", "recently_viewed", "saved_searches",
                     "seller_follows", "favorites">>)
    \o DropColumns("products", <<"is_featured", "delivery_options",
            "accepted_payment_methods", "availability_note", "price_negotiable">>)
    \o DropColumns("seller_profiles",
        <<"contact_click_count", "favorite_count", "inquiry_count", "avg_response_minutes",
          "service_areas", "delivery_methods", "payment_methods", "whatsapp_number",
          "tiktok_url", "facebook_url", "instagram_url", "website_url">>)

-----------------------------------------------------------------------------
(* 008 one favourite per user and item; 009 money; 010 indexes *)

Up008 == <<
    Rows("favorites", "dedupe_products", {"user_id", "product_id"}),
    Rows("favorites", "dedupe_stores", {"user_id", "product_id", "seller_id"}),
    UniqueIfMissing("uq_favorites_user_product", "favorites", {"user_id", "product_id"}),
    UniqueIfMissing("uq_favorites_user_seller", "favorites", {"user_id", "seller_id"}),
    IndexIfMissing("ix_seller_follows_seller_id", "seller_follows", {"seller_id"}),
    IndexIfMissing("ix_recently_viewed_viewed_at", "recently_viewed", {"user_id", "viewed_at"}),
    IndexIfMissing("ix_contact_events_created_at", "contact_events",
                   {"seller_id", "created_at"}),
    IndexIfMissing("ix_conversations_last_message", "conversations", {"last_message_at"}) >>
Down008 == <<
    DropIfThere("ix_conversations_last_message", "conversations"),
    DropIfThere("ix_contact_events_created_at", "contact_events"),
    DropIfThere("ix_recently_viewed_viewed_at", "recently_viewed"),
    DropIfThere("ix_seller_follows_seller_id", "seller_follows"),
    DropIfThere("uq_favorites_user_seller", "favorites"),
    DropIfThere("uq_favorites_user_product", "favorites") >>

Priced == <<"products", "services", "subscription_plans">>
Up009 == LET Exact(t) == Retype(t, "price_mad", "to_numeric") IN Each(Exact, Priced)
Down009 == LET Double(t) == Retype(t, "price_mad", "to_double") IN Each(Double, Priced)

Up010 == <<
    IndexIfMissing("ix_messages_conversation_created", "messages",
                   {"conversation_id", "created_at"}),
    IndexIfMissing("ix_seller_profiles_active_premium_rating", "seller_profiles",
                   {"is_active", "is_premium", "average_rating"}) >>
Down010 == <<
    DropIfThere("ix_seller_profiles_active_premium_rating", "seller_profiles"),
    DropIfThere("ix_messages_conversation_created", "messages") >>

-----------------------------------------------------------------------------
(* 011 conversations of two users; 012 review categories; 013 crowns *)

Legacy == <<"buyer_id", "seller_id">>
Peers == <<"participant_a_id", "participant_b_id">>
Backfill == Rows("conversations", "backfill_participants",
                 Range(Legacy \o Peers) \cup {"context_seller_id"})

(* Seeded fault: the duplicates are deleted with their messages.           *)
Up011RowsUnmoved ==
    << Backfill, Rows("conversations", "drop_duplicates", Range(Peers)) >>

Up011Rows ==
    << Backfill, Rows("messages", "move_messages", {"conversation_id"}),
       Rows("conversations", "drop_duplicates", Range(Peers)) >>

Up011 ==
    ColumnsIfMissing("conversations", Peers \o <<"context_seller_id">>)
    \o Up011Rows
    \o NotNull("conversations", Peers)
    \o << Foreign("fk_conversations_participant_a", "conversations", "participant_a_id", "users"),
          Foreign("fk_conversations_participant_b", "conversations", "participant_b_id", "users"),
          Foreign("fk_conversations_context_seller", "conversations", "context_seller_id",
                  "seller_profiles"),
          IndexIfMissing("ix_conversations_participant_a_id", "conversations",
                         {"participant_a_id"}),
          IndexIfMissing("ix_conversations_participant_b_id", "conversations",
                         {"participant_b_id"}),
          IndexIfMissing("ix_conversations_context_seller_id", "conversations",
                         {"context_seller_id"}),
          UniqueIfMissing("uq_conversation_participants", "conversations",
                          {"participant_a_id", "participant_b_id"}),
          DropIfThere("uq_conversation_buyer_seller", "conversations") >>
    \o DropColumnsIfThere("conversations", Legacy)

Down011 ==
    ColumnsIfMissing("conversations", Legacy)
    \o << Rows("conversations", "restore_storefronts", Range(Legacy \o Peers)),
          Rows("conversations", "delete_peer_chats", {"seller_id"}) >>
    \o NotNull("conversations", Legacy)
    \o << DropIfThere("uq_conversation_participants", "conversations"),
          DropIfThere("fk_conversations_participant_a", "conversations"),
          DropIfThere("fk_conversations_participant_b", "conversations"),
          DropIfThere("fk_conversations_context_seller", "conversations"),
          DropIfThere("ix_conversations_participant_a_id", "conversations"),
          DropIfThere("ix_conversations_participant_b_id", "conversations"),
          DropIfThere("ix_conversations_context_seller_id", "conversations") >>
    \o DropColumnsIfThere("conversations", Peers \o <<"context_seller_id">>)
    \o << UniqueIfMissing("uq_conversation_buyer_seller", "conversations",
                          {"buyer_id", "seller_id"}) >>

Scores == <<"product_quality", "customer_service", "communication", "trustworthiness">>
Averages == <<"avg_product_quality", "avg_customer_service", "avg_communication",
              "avg_trustworthiness">>
Up012 ==
    ColumnsIfMissing("reviews", Scores)
    \o << Rows("reviews", "backfill_scores", Range(Scores)) >>
    \o NotNull("reviews", Scores)
    \o ColumnsIfMissing("seller_profiles", Averages)
    \o << Rows("seller_profiles", "recompute_sellers", Range(Averages)) >>
Down012 ==
    DropColumnsIfThere("seller_profiles", Averages) \o DropColumnsIfThere("reviews", Scores)

(* Seeded fault: the new column is left out.                               *)
Up013OnlyRows == << Rows("seller_profiles", "split_crowns", {"achievement_stars"}) >>
Up013 == ColumnsIfMissing("seller_profiles", <<"golden_crowns">>)
         \o << Rows("seller_profiles", "split_crowns", {"golden_crowns"}) >>
Down013 == << Rows("seller_profiles", "join_crowns", {"golden_crowns"}) >>
           \o DropColumnsIfThere("seller_profiles", <<"golden_crowns">>)

Latest == 13
Up == <<Up001, Up002, Up003, Up004, Up005, Up006, Up007, Up008, Up009, Up010, Up011,
        Up012, Up013>>
Down == <<Down001, Down002, Down003, Down004, Down005, Down006, Down007, Down008, Down009,
          Down010, Down011, Down012, Down013>>
=============================================================================
