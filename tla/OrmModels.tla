----------------------------- MODULE OrmModels -----------------------------
(***************************************************************************)
(* The tables as app/models/__init__.py declares them, which is what the   *)
(* program reads and writes whatever the migrations made of the database.  *)
(*                                                                         *)
(* sent   : columns an INSERT gives a value: the caller's or a default of  *)
(*          the Python class                                               *)
(* served : columns left to a DEFAULT of the database (server_default)     *)
(* unique : what the declaration calls unique                              *)
(***************************************************************************)
EXTENDS TLC

Model(sent, served, unique) == [sent |-> sent, served |-> served, unique |-> unique]

IdentityModels ==
    "users" :> Model(
        {"firebase_uid", "email", "password_hash", "account_type", "display_name", "phone",
         "email_verified_at", "status", "role", "last_login_at", "is_premium",
         "premium_until", "mfa_enabled"},
        {"created_at"}, {{"firebase_uid"}, {"email"}})
    @@ "refresh_tokens" :> Model(
        {"user_id", "token_hash", "expires_at", "revoked", "device_name", "ip_address",
         "user_agent", "last_seen_at"},
        {"created_at"}, {{"token_hash"}})
    @@ "auth_tokens" :> Model(
        {"user_id", "purpose", "token_hash", "expires_at", "used_at"},
        {"created_at"}, {{"token_hash"}})
    @@ "mfa_factors" :> Model(
        {"user_id", "factor_type", "secret_encrypted", "verified_at", "disabled_at"},
        {"created_at"}, {})

StorefrontModels ==
    "categories" :> Model({"slug", "name_en", "name_fr", "name_ar", "icon"}, {}, {{"slug"}})
    @@ "seller_categories" :> Model({"seller_id", "category_id"}, {},
                                    {{"seller_id", "category_id"}})
    @@ "seller_profiles" :> Model(
        {"user_id", "business_name", "description", "address", "city", "latitude",
         "longitude", "phone", "cover_image_url", "logo_image_url", "opening_hours",
         "website_url", "instagram_url", "facebook_url", "tiktok_url", "whatsapp_number",
         "payment_methods", "delivery_methods", "service_areas", "avg_response_minutes",
         "inquiry_count", "favorite_count", "contact_click_count", "profile_view_count",
         "achievement_stars", "golden_crowns", "average_rating", "review_count",
         "avg_product_quality", "avg_customer_service", "avg_communication",
         "avg_trustworthiness", "verification_status", "is_premium", "is_active"},
        {"created_at"}, {{"user_id"}})

ListingModels ==
    "products" :> Model(
        {"seller_id", "name", "description", "price_mad", "price_negotiable",
         "availability_note", "accepted_payment_methods", "delivery_options", "image_url",
         "media_urls", "video_url", "category_slug", "stock_quantity", "is_available",
         "is_hidden", "is_featured", "is_paused"},
        {"created_at"}, {})
    @@ "services" :> Model(
        {"seller_id", "name", "description", "price_mad", "price_negotiable",
         "coverage_areas", "image_url", "is_available", "is_featured"},
        {"created_at"}, {})
    @@ "reviews" :> Model(
        {"seller_id", "buyer_id", "rating", "product_quality", "customer_service",
         "communication", "trustworthiness", "comment"},
        {"created_at", "updated_at"}, {{"seller_id", "buyer_id"}})
    @@ "warning_zones" :> Model(
        {"name", "description", "city", "latitude", "longitude", "radius_meters",
         "is_active"}, {}, {})

DiscoveryModels ==
    "favorites" :> Model({"user_id", "product_id", "seller_id"}, {"created_at"}, {})
    @@ "seller_follows" :> Model({"user_id", "seller_id"}, {"created_at"},
                                 {{"user_id", "seller_id"}})
    @@ "saved_searches" :> Model({"user_id", "query", "city", "category"}, {"created_at"}, {})
    @@ "recently_viewed" :> Model({"user_id", "seller_id", "product_id"}, {"viewed_at"}, {})
    @@ "reports" :> Model({"reporter_id", "seller_id", "product_id", "reason", "details",
                           "status"}, {"created_at"}, {})
    @@ "contact_events" :> Model({"seller_id", "user_id", "channel"}, {"created_at"}, {})

MessagingModels ==
    "conversations" :> Model(
        {"participant_a_id", "participant_b_id", "context_seller_id"},
        {"last_message_at", "created_at"}, {{"participant_a_id", "participant_b_id"}})
    @@ "messages" :> Model({"conversation_id", "sender_id", "body", "read_at"},
                           {"created_at"}, {})
    @@ "notifications" :> Model({"user_id", "title", "body", "kind", "data", "read_at"},
                                {"created_at"}, {})

PremiumModels ==
    "subscription_plans" :> Model(
        {"code", "name", "description", "price_mad", "billing_period_days", "features",
         "is_active"}, {"created_at"}, {{"code"}})
    @@ "subscriptions" :> Model(
        {"user_id", "plan_id", "status", "current_period_start", "current_period_end",
         "provider", "provider_reference"}, {"created_at"}, {})
    @@ "admin_audit_logs" :> Model(
        {"actor_id", "action", "target_type", "target_id", "metadata"}, {"created_at"}, {})

Models == IdentityModels @@ StorefrontModels @@ ListingModels @@ DiscoveryModels
          @@ MessagingModels @@ PremiumModels

(* the columns of type Numeric                                             *)
ModelNumerics == {<<"products", "price_mad">>, <<"services", "price_mad">>,
                  <<"subscription_plans", "price_mad">>}
=============================================================================
