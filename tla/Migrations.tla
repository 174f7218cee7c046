----------------------------- MODULE Migrations -----------------------------
(***************************************************************************)
(* The schema history of alembic/versions: the 67 revisions of the single  *)
(* chain, each with its upgrade and its downgrade, applied one at a time   *)
(* by `alembic upgrade` and `alembic downgrade`.                           *)
(*                                                                         *)
(* A database is its tables, the parts of a table that some migration      *)
(* names apart from creating the table (columns, indexes, constraints; the *)
(* others live and die with their table), its enum types, which table      *)
(* refers to which by a foreign key, which column has which enum type, and *)
(* the facts about its rows that a statement depends on.  Types, defaults, *)
(* nullability and comments of columns are left out: a statement that only *)
(* changes those is a Touch.  env.py runs every migration in a             *)
(* transaction, so one that fails changes nothing.                         *)
(***************************************************************************)
EXTENDS Integers, Sequences, FiniteSets

Seqs == INSTANCE SequencesExt

CONSTANT MaxFacts    \* how many facts about rows hold at once

VARIABLES
    revision,    \* how many revisions of the chain are applied
    db,          \* the schema and the facts about its rows
    failed       \* the last run that failed: <<direction, index>> or <<>>

migVars == <<revision, db, failed>>

-----------------------------------------------------------------------------
(* The statements of a migration: what Postgres requires of the database,  *)
(* and what the statement makes of it.                                     *)

Part(t, ps) == {t} \X ps

Create(t, to, of, ps) ==
    [op |-> "create", t |-> t, to |-> to, of |-> of, ps |-> ps, lenient |-> FALSE]
CreateIfMissing(t, to, of, ps) == [Create(t, to, of, ps) EXCEPT !.lenient = TRUE]
Drop(t) == [op |-> "drop", t |-> t, lenient |-> FALSE]
DropIfPresent(t) == [Drop(t) EXCEPT !.lenient = TRUE]
Add(t, ps) == [op |-> "add", t |-> t, ps |-> ps, lenient |-> FALSE]
AddIfMissing(t, ps) == [Add(t, ps) EXCEPT !.lenient = TRUE]
Remove(t, ps) == [op |-> "remove", t |-> t, ps |-> ps, lenient |-> FALSE]
RemoveIfPresent(t, ps) == [Remove(t, ps) EXCEPT !.lenient = TRUE]
Touch(t, ps) == [op |-> "touch", t |-> t, ps |-> ps]
Rename(t, p, q) == [op |-> "rename", t |-> t, p |-> p, q |-> q]
Refer(t, to) == [op |-> "refer", t |-> t, to |-> to]
Unrefer(t, to) == [op |-> "unrefer", t |-> t, to |-> to]
Uses(t, p, y) == [op |-> "retype", t |-> t, p |-> p, y |-> y]
Retype(t, p, y) == Uses(t, p, y)
NewTypes(ys) == [op |-> "types", ys |-> ys, lenient |-> FALSE]
Types(ys) == [NewTypes(ys) EXCEPT !.lenient = TRUE]
Extend(ys) == [op |-> "extend", ys |-> ys]
DropType(y) == [op |-> "untype", ys |-> {y}, lenient |-> FALSE]
DropTypes(ys) == [op |-> "untype", ys |-> ys, lenient |-> TRUE]
RenameType(y, z) == [op |-> "renametype", y |-> y, z |-> z]
Refuse(f) == [op |-> "refuse", f |-> f]
Turn(f, fs) == [op |-> "turn", f |-> f, fs |-> fs]

\* What Postgres demands of the database before it runs the statement.
Legal(s, d) ==
    CASE s.op = "create" -> \/ s.lenient /\ s.t \in d.tables
                            \/ /\ s.t \notin d.tables
                               /\ s.to \subseteq d.tables \cup {s.t}
                               /\ {u[2] : u \in s.of} \subseteq d.types
      [] s.op = "drop" -> /\ s.t \in d.tables \/ s.lenient
                          /\ \A r \in d.refs : r[2] = s.t => r[1] = s.t
      [] s.op = "add" -> /\ s.t \in d.tables
                         /\ s.lenient \/ Part(s.t, s.ps) \cap d.parts = {}
      [] s.op = "remove" -> s.lenient \/ Part(s.t, s.ps) \subseteq d.parts
      [] s.op = "touch" -> Part(s.t, s.ps) \subseteq d.parts
      [] s.op = "rename" -> <<s.t, s.p>> \in d.parts /\ <<s.t, s.q>> \notin d.parts
      [] s.op = "refer" -> {s.t, s.to} \subseteq d.tables
      [] s.op = "retype" -> <<s.t, s.p>> \in d.parts /\ s.y \in d.types
      [] s.op = "types" -> s.lenient \/ s.ys \cap d.types = {}
      [] s.op = "extend" -> s.ys \subseteq d.types
      [] s.op = "untype" -> /\ s.lenient \/ s.ys \subseteq d.types
                            /\ \A u \in d.uses : u[3] \notin s.ys
      [] s.op = "renametype" -> s.y \in d.types /\ s.z \notin d.types
      [] s.op = "refuse" -> s.f \notin d.facts
      [] OTHER -> TRUE

\* What the statement makes of the database.
Effect(s, d) ==
    CASE s.op = "create" /\ s.t \notin d.tables ->
            [d EXCEPT !.tables = @ \cup {s.t}, !.parts = @ \cup Part(s.t, s.ps),
                      !.refs = @ \cup ({s.t} \X s.to),
                      !.uses = @ \cup {<<s.t, u[1], u[2]>> : u \in s.of}]
      [] s.op = "drop" ->
            [d EXCEPT !.tables = @ \ {s.t}, !.parts = {p \in @ : p[1] # s.t},
                      !.refs = {r \in @ : r[1] # s.t}, !.uses = {u \in @ : u[1] # s.t}]
      [] s.op = "add" -> [d EXCEPT !.parts = @ \cup Part(s.t, s.ps)]
      [] s.op = "remove" ->
            [d EXCEPT !.parts = @ \ Part(s.t, s.ps),
                      !.uses = {u \in @ : <<u[1], u[2]>> \notin Part(s.t, s.ps)}]
      [] s.op = "rename" ->
            [d EXCEPT !.parts = (@ \ {<<s.t, s.p>>}) \cup {<<s.t, s.q>>},
                      !.uses = {IF u[1] = s.t /\ u[2] = s.p THEN <<s.t, s.q, u[3]>> ELSE u : u \in @}]
      [] s.op = "refer" -> [d EXCEPT !.refs = @ \cup {<<s.t, s.to>>}]
      [] s.op = "unrefer" -> [d EXCEPT !.refs = @ \ {<<s.t, s.to>>}]
      [] s.op = "retype" ->
            [d EXCEPT !.uses = {u \in @ : u[1] # s.t \/ u[2] # s.p} \cup {<<s.t, s.p, s.y>>}]
      [] s.op = "types" -> [d EXCEPT !.types = @ \cup s.ys]
      [] s.op = "untype" -> [d EXCEPT !.types = @ \ s.ys]
      [] s.op = "renametype" ->
            [d EXCEPT !.types = (@ \ {s.y}) \cup {s.z},
                      !.uses = {IF u[3] = s.y THEN <<u[1], u[2], s.z>> ELSE u : u \in @}]
      [] s.op = "turn" /\ s.f \in d.facts -> [d EXCEPT !.facts = (@ \ {s.f}) \cup s.fs]
      [] OTHER -> d

\* A migration is its statements in order; the first one that is refused
\* ends it.
Migrate(statements, d) ==
    Seqs!FoldLeft(LAMBDA r, s : IF r.ok /\ Legal(s, r.db) THEN [ok |-> TRUE, db |-> Effect(s, r.db)]
                                                     ELSE [ok |-> FALSE, db |-> d],
             [ok |-> TRUE, db |-> d], statements)

-----------------------------------------------------------------------------
(* The revisions, oldest first.                                            *)

\* add user posts and streams tables
upgrade_433280177f3c ==
    << Create("users", {}, {}, {"username", "ix_users_email", "ix_users_username"}),
       NewTypes({"streamprivacyenum"}),
       Create("streams", {"users"}, {<<"privacy", "streamprivacyenum">>}, {"ix_streams_owner_id"}),
       NewTypes({"tokentypeenum"}),
       Create("tokens", {"users"}, {<<"type", "tokentypeenum">>}, {"ix_tokens_token",
           "ix_tokens_user_id"}),
       NewTypes({"posttypeenum"}),
       Create("posts", {"users", "posts", "streams"}, {<<"type", "posttypeenum">>}, {"content",
           "ix_posts_author_id", "ix_posts_created_at", "ix_posts_parent_created",
           "ix_posts_parent_post_id", "ix_posts_stream_created", "ix_posts_stream_id"}) >>
downgrade_433280177f3c ==
    << Remove("posts", {"ix_posts_stream_id", "ix_posts_stream_created", "ix_posts_parent_post_id",
           "ix_posts_parent_created", "ix_posts_created_at", "ix_posts_author_id"}),
       Drop("posts"), Remove("tokens", {"ix_tokens_user_id", "ix_tokens_token"}), Drop("tokens"),
       Remove("streams", {"ix_streams_owner_id"}), Drop("streams"),
       Remove("users", {"ix_users_username", "ix_users_email"}), Drop("users") >>
\* add price images approval to streams
upgrade_e25205c88f87 ==
    << Add("streams", {"price", "avatar_url", "banner_url", "require_join_approval"}) >>
downgrade_e25205c88f87 ==
    << Remove("streams", {"require_join_approval", "banner_url", "avatar_url", "price"}) >>
\* add stream members table
upgrade_5039ce94f657 ==
    << NewTypes({"memberstatusenum"}),
       Create("stream_members", {"streams", "users"}, {<<"status", "memberstatusenum">>}, {}) >>
downgrade_5039ce94f657 == << Drop("stream_members") >>
\* add banned to memberstatusenum
upgrade_8c18baa4fb20 == << Extend({"memberstatusenum"}) >>
downgrade_8c18baa4fb20 == << >>
\* add post media table make content 
upgrade_035acc98f376 ==
    << NewTypes({"postmediatypeenum"}),
       Create("post_media", {"posts"}, {<<"media_type", "postmediatypeenum">>}, {"url",
           "ix_post_media_post_id"}),
       Touch("posts", {"content"}) >>
downgrade_035acc98f376 ==
    << Touch("posts", {"content"}), Remove("post_media", {"ix_post_media_post_id"}),
       Drop("post_media") >>
\* rename post media url to storage path
upgrade_a9f7643677be == << Rename("post_media", "url", "storage_path") >>
downgrade_a9f7643677be == << Rename("post_media", "storage_path", "url") >>
\* add post upvotes table
upgrade_c0d4007a384e ==
    << Create("post_upvotes", {"posts", "users"}, {}, {"ix_post_upvotes_post_id"}) >>
downgrade_c0d4007a384e ==
    << Remove("post_upvotes", {"ix_post_upvotes_post_id"}), Drop("post_upvotes") >>
\* add display name to users
upgrade_d4e9f1a2b3c0 == << Add("users", {"display_name"}) >>
downgrade_d4e9f1a2b3c0 == << Remove("users", {"display_name"}) >>
\* add is default to streams
upgrade_ef593f8b763f == << Refuse("stream"), Add("streams", {"is_default"}) >>
downgrade_ef593f8b763f == << Remove("streams", {"is_default"}) >>
\* add trading journal foundation tables
upgrade_4db0be4616dc ==
    << Types({"journaltemplatetypeenum", "tradingaccounttypeenum", "tradingplatformenum",
           "tradingaccountstatusenum", "tradedirectionenum", "tradesessionenum",
           "journalmessagetypeenum"}),
       Create("journal_templates", {"users"}, {<<"template_type", "journaltemplatetypeenum">>},
           {"ix_journal_templates_owner_id"}),
       Create("trading_accounts", {"users"}, {<<"account_type", "tradingaccounttypeenum">>,
           <<"platform", "tradingplatformenum">>, <<"status", "tradingaccountstatusenum">>},
           {"status", "is_deleted", "ix_trading_accounts_user_id"}),
       Create("account_snapshots", {"trading_accounts"}, {}, {"ix_account_snapshots_account_id",
           "ix_account_snapshots_snapshot_date"}),
       Create("daily_journals", {"trading_accounts"}, {}, {"ix_daily_journals_account_id",
           "ix_daily_journals_trading_date"}),
       Create("trades", {"trading_accounts"}, {<<"direction", "tradedirectionenum">>, <<"session",
           "tradesessionenum">>}, {"symbol", "ix_trades_account_id", "ix_trades_closed_at",
           "ix_trades_opened_at"}),
       Create("daily_stats", {"trading_accounts", "trades"}, {}, {"ix_daily_stats_account_id",
           "ix_daily_stats_trading_date"}),
       Create("trade_journals", {"daily_journals", "trades"}, {},
           {"ix_trade_journals_daily_journal_id", "ix_trade_journals_trade_id"}),
       Create("journal_messages", {"users", "daily_journals", "trade_journals"}, {<<"message_type",
           "journalmessagetypeenum">>}, {"ix_jm_daily_journal_id", "ix_jm_trade_journal_id",
           "ix_journal_messages_author_id", "ix_journal_messages_created_at"}),
       Create("journal_attachments", {"journal_messages"}, {},
           {"ix_journal_attachments_message_id"}) >>
downgrade_4db0be4616dc ==
    << Remove("journal_attachments", {"ix_journal_attachments_message_id"}),
       Drop("journal_attachments"),
       Remove("journal_messages", {"ix_journal_messages_created_at",
           "ix_journal_messages_author_id", "ix_jm_trade_journal_id", "ix_jm_daily_journal_id"}),
       Drop("journal_messages"),
       Remove("trade_journals", {"ix_trade_journals_trade_id",
           "ix_trade_journals_daily_journal_id"}),
       Drop("trade_journals"),
       Remove("daily_stats", {"ix_daily_stats_trading_date", "ix_daily_stats_account_id"}),
       Drop("daily_stats"),
       Remove("trades", {"ix_trades_opened_at", "ix_trades_closed_at", "ix_trades_account_id"}),
       Drop("trades"),
       Remove("daily_journals", {"ix_daily_journals_trading_date", "ix_daily_journals_account_id"}),
       Drop("daily_journals"),
       Remove("account_snapshots", {"ix_account_snapshots_snapshot_date",
           "ix_account_snapshots_account_id"}),
       Drop("account_snapshots"), Remove("trading_accounts", {"ix_trading_accounts_user_id"}),
       Drop("trading_accounts"), Remove("journal_templates", {"ix_journal_templates_owner_id"}),
       Drop("journal_templates"),
       DropTypes({"journalmessagetypeenum", "tradesessionenum", "tradedirectionenum",
           "tradingaccountstatusenum", "tradingplatformenum", "tradingaccounttypeenum",
           "journaltemplatetypeenum"}) >>
\* add timezone fields to trading accounts
upgrade_5cd9108794b9 == << Add("trading_accounts", {"timezone", "broker_utc_offset"}) >>
downgrade_5cd9108794b9 == << Remove("trading_accounts", {"broker_utc_offset", "timezone"}) >>
\* compat legacy provisioning revision
upgrade_d9b1e7f4c2a8 == << >>
downgrade_d9b1e7f4c2a8 == << >>
\* add provisioning fields to trading accounts
upgrade_9f2c1d7e4a11 ==
    << Types({"tradingaccountprovisioningstatusenum"}),
       AddIfMissing("trading_accounts", {"broker_login", "broker_server",
           "encrypted_investor_password", "encrypted_trader_password", "provisioning_status"}),
       Uses("trading_accounts", "provisioning_status", "tradingaccountprovisioningstatusenum"),
       AddIfMissing("trading_accounts", {"provisioning_error_message"}),
       Touch("trading_accounts", {"broker_login", "broker_server", "encrypted_investor_password",
           "provisioning_status"}) >>
downgrade_9f2c1d7e4a11 ==
    << Remove("trading_accounts", {"provisioning_error_message", "provisioning_status",
           "encrypted_trader_password", "encrypted_investor_password", "broker_server",
           "broker_login"}),
       DropTypes({"tradingaccountprovisioningstatusenum"}) >>
\* add mt5 trade fields
upgrade_a1b2c3d4e5f6 ==
    << Types({"tradesourceenum", "syncproviderenum"}),
       AddIfMissing("trades", {"sl", "tp", "magic_number", "position_id", "trade_source"}),
       Uses("trades", "trade_source", "tradesourceenum"),
       AddIfMissing("trades", {"mfe", "mae", "ix_trades_position_id"}),
       AddIfMissing("trading_accounts", {"sync_provider"}),
       Uses("trading_accounts", "sync_provider", "syncproviderenum"),
       AddIfMissing("trading_accounts", {"copy_magic_numbers"}) >>
downgrade_a1b2c3d4e5f6 ==
    << Remove("trading_accounts", {"copy_magic_numbers", "sync_provider"}),
       Remove("trades", {"ix_trades_position_id", "mae", "mfe", "trade_source", "position_id",
           "magic_number", "tp", "sl"}),
       DropTypes({"syncproviderenum", "tradesourceenum"}) >>
\* add trades account closed at composite index
upgrade_b7c8d9e0f1a2 == << Add("trades", {"ix_trades_account_closed_at_id"}) >>
downgrade_b7c8d9e0f1a2 == << Remove("trades", {"ix_trades_account_closed_at_id"}) >>
\* add connection state readiness fields
upgrade_c2f4a8d6e9b1 ==
    << Types({"tradingaccountconnectionstateenum"}),
       AddIfMissing("trading_accounts", {"connection_state"}),
       Uses("trading_accounts", "connection_state", "tradingaccountconnectionstateenum"),
       AddIfMissing("trading_accounts", {"is_data_ready_for_stats", "last_bootstrap_synced_at",
           "bootstrap_error_message"}),
       Touch("trading_accounts", {"connection_state", "is_data_ready_for_stats"}) >>
downgrade_c2f4a8d6e9b1 ==
    << Remove("trading_accounts", {"bootstrap_error_message", "last_bootstrap_synced_at",
           "is_data_ready_for_stats", "connection_state"}),
       DropTypes({"tradingaccountconnectionstateenum"}) >>
\* add journal reviewed at columns
upgrade_d1e2f3a4b5c6 ==
    << AddIfMissing("daily_journals", {"reviewed_at"}),
       AddIfMissing("trade_journals", {"reviewed_at"}) >>
downgrade_d1e2f3a4b5c6 ==
    << Remove("trade_journals", {"reviewed_at"}), Remove("daily_journals", {"reviewed_at"}) >>
\* add custom tags
upgrade_2d629be79bc7 ==
    << CreateIfMissing("tag_categories", {"users"}, {}, {"ix_tag_categories_user_id"}),
       CreateIfMissing("tag_options", {"tag_categories", "users"}, {},
           {"ix_tag_options_category_id", "ix_tag_options_user_id"}),
       CreateIfMissing("trade_tag_selections", {"tag_options", "trades"}, {}, {}),
       Touch("trades", {"sl", "tp", "magic_number", "position_id", "trade_source", "mfe", "mae"}),
       RemoveIfPresent("trades", {"ix_trades_account_closed_at_id"}),
       Touch("trading_accounts", {"sync_provider", "copy_magic_numbers"}) >>
downgrade_2d629be79bc7 ==
    << Touch("trading_accounts", {"copy_magic_numbers", "sync_provider"}),
       Add("trades", {"ix_trades_account_closed_at_id"}),
       Touch("trades", {"mae", "mfe", "trade_source", "position_id", "magic_number", "tp", "sl"}),
       Drop("trade_tag_selections"),
       Remove("tag_options", {"ix_tag_options_user_id", "ix_tag_options_category_id"}),
       Drop("tag_options"), Remove("tag_categories", {"ix_tag_categories_user_id"}),
       Drop("tag_categories") >>
\* add trade journal rating
upgrade_4da4bd35145f == << AddIfMissing("trade_journals", {"rating"}) >>
downgrade_4da4bd35145f == << RemoveIfPresent("trade_journals", {"rating"}) >>
\* add trade assessment scores
upgrade_fefa9f3b436c ==
    << AddIfMissing("trade_journals", {"execution_quality", "setup_quality", "discipline_score"}) >>
downgrade_fefa9f3b436c ==
    << RemoveIfPresent("trade_journals", {"discipline_score", "setup_quality", "execution_quality"})
           >>
\* add is manual is missed to trades
upgrade_256e11dfea33 == << Add("trades", {"is_manual", "is_missed"}) >>
downgrade_256e11dfea33 == << Remove("trades", {"is_missed", "is_manual"}) >>
\* add csv import provider and platforms
upgrade_129bbf6654f9 == << Extend({"syncproviderenum", "tradingplatformenum"}) >>
downgrade_129bbf6654f9 == << >>
\* add active user sync fields
upgrade_7f1c2a9d4b6e ==
    << Add("users", {"last_active_at"}),
       Add("trading_accounts", {"last_sync_attempted_at", "next_sync_not_before",
           "last_sync_outcome", "consecutive_sync_failures"}) >>
downgrade_7f1c2a9d4b6e ==
    << Remove("trading_accounts", {"consecutive_sync_failures", "last_sync_outcome",
           "next_sync_not_before", "last_sync_attempted_at"}),
       Remove("users", {"last_active_at"}) >>
\* migrate metaapi accounts to headless mt5
upgrade_c6d7e8f9a0b1 ==
    << Turn("metaapi_account", {}), Touch("trading_accounts", {"sync_provider"}) >>
downgrade_c6d7e8f9a0b1 == << Touch("trading_accounts", {"sync_provider"}) >>
\* add revoked at to tokens
upgrade_ee637789eda3 == << Add("tokens", {"revoked_at"}) >>
downgrade_ee637789eda3 == << Remove("tokens", {"revoked_at"}) >>
\* add tokens active expires partial index
upgrade_f3a1b2c4d5e6 == << AddIfMissing("tokens", {"ix_tokens_active_expires_at"}) >>
downgrade_f3a1b2c4d5e6 == << RemoveIfPresent("tokens", {"ix_tokens_active_expires_at"}) >>
\* add updated at to users tokens accounts
upgrade_a2b3c4d5e6f7 ==
    << Add("users", {"updated_at"}), Add("tokens", {"updated_at"}),
       Add("trading_accounts", {"updated_at"}) >>
downgrade_a2b3c4d5e6f7 ==
    << Remove("users", {"updated_at"}), Remove("tokens", {"updated_at"}),
       Remove("trading_accounts", {"updated_at"}) >>
\* add ai copilot tables
upgrade_b1c2d3e4f5a6 ==
    << Types({"aimessagerolee"}), CreateIfMissing("ai_chat_sessions", {}, {}, {}),
       CreateIfMissing("ai_chat_messages", {"ai_chat_sessions"}, {<<"role", "aimessagerolee">>},
           {}),
       CreateIfMissing("ai_usage", {}, {}, {}), CreateIfMissing("ai_user_memory", {}, {}, {}),
       CreateIfMissing("ai_agents", {}, {}, {}), CreateIfMissing("ai_insights", {}, {}, {}) >>
downgrade_b1c2d3e4f5a6 ==
    << Drop("ai_insights"), Drop("ai_agents"), Drop("ai_user_memory"), Drop("ai_usage"),
       Drop("ai_chat_messages"), Drop("ai_chat_sessions"), DropTypes({"aimessagerolee"}) >>
\* widen trade magic number to bigint
upgrade_6a7b8c9d0e1f == << Touch("trades", {"magic_number"}) >>
downgrade_6a7b8c9d0e1f == << Refuse("wide_magic"), Touch("trades", {"magic_number"}) >>
\* add daily journal note columns
upgrade_7b8c9d0e1f2a == << AddIfMissing("daily_journals", {"note_html", "note_updated_at"}) >>
downgrade_7b8c9d0e1f2a == << Remove("daily_journals", {"note_updated_at", "note_html"}) >>
\* drop daily stats table
upgrade_a1c2e3d4f5b6 ==
    << RemoveIfPresent("daily_stats", {"ix_daily_stats_trading_date", "ix_daily_stats_account_id"}),
       DropIfPresent("daily_stats") >>
downgrade_a1c2e3d4f5b6 ==
    << Create("daily_stats", {"trading_accounts", "trades"}, {}, {"ix_daily_stats_account_id",
           "ix_daily_stats_trading_date"}) >>
\* drop username from users
upgrade_b2d3f4a5c6e7 == << RemoveIfPresent("users", {"ix_users_username", "username"}) >>
downgrade_b2d3f4a5c6e7 ==
    << Add("users", {"username"}), Refuse("same_prefix"), Touch("users", {"username"}),
       Add("users", {"ix_users_username"}) >>
\* add setup plan to trades
upgrade_c3e4f5a6b7d8 == << AddIfMissing("trades", {"setup", "plan_followed"}) >>
downgrade_c3e4f5a6b7d8 == << RemoveIfPresent("trades", {"plan_followed", "setup"}) >>
\* add user auth provider fields
upgrade_d4e5f6a7b8c9 ==
    << Types({"authproviderenum"}), AddIfMissing("users", {"auth_provider"}),
       Uses("users", "auth_provider", "authproviderenum"),
       AddIfMissing("users", {"has_usable_password"}) >>
downgrade_d4e5f6a7b8c9 ==
    << RemoveIfPresent("users", {"has_usable_password", "auth_provider"}),
       DropTypes({"authproviderenum"}) >>
\* add user display preferences
upgrade_e5f6a7b8c9d0 == << AddIfMissing("users", {"display_timezone"}) >>
downgrade_e5f6a7b8c9d0 == << RemoveIfPresent("users", {"display_timezone"}) >>
\* rebuild tags groups tags
upgrade_f7a8b9c0d1e2 ==
    << DropIfPresent("trade_tag_selections"), DropIfPresent("tag_options"),
       DropIfPresent("tag_categories"),
       CreateIfMissing("tag_groups", {"users"}, {}, {"ix_tag_groups_user_id"}),
       CreateIfMissing("tags", {"tag_groups", "users"}, {}, {"color", "ix_tags_group_id",
           "ix_tags_user_id"}),
       CreateIfMissing("trade_tags", {"tags", "trades"}, {}, {}) >>
downgrade_f7a8b9c0d1e2 ==
    << Drop("trade_tags"), Remove("tags", {"ix_tags_user_id", "ix_tags_group_id"}), Drop("tags"),
       Remove("tag_groups", {"ix_tag_groups_user_id"}), Drop("tag_groups"),
       Create("tag_categories", {"users"}, {}, {"ix_tag_categories_user_id"}),
       Create("tag_options", {"tag_categories", "users"}, {}, {"ix_tag_options_category_id",
           "ix_tag_options_user_id"}),
       Create("trade_tag_selections", {"tag_options", "trades"}, {}, {}) >>
\* move tag color to group
upgrade_a1b2c3d4e5f7 ==
    << AddIfMissing("tag_groups", {"color"}), RemoveIfPresent("tags", {"color"}) >>
downgrade_a1b2c3d4e5f7 == << Add("tags", {"color"}), Remove("tag_groups", {"color"}) >>
\* drop streams and posts
upgrade_b2c3d4e5f6a8 ==
    << DropIfPresent("post_upvotes"), DropIfPresent("post_media"), DropIfPresent("posts"),
       DropIfPresent("stream_members"), DropIfPresent("streams"),
       DropTypes({"postmediatypeenum", "posttypeenum", "streamprivacyenum", "memberstatusenum"}) >>
downgrade_b2c3d4e5f6a8 ==
    << NewTypes({"streamprivacyenum"}),
       Create("streams", {"users"}, {<<"privacy", "streamprivacyenum">>}, {"price", "avatar_url",
           "banner_url", "require_join_approval", "is_default"}),
       NewTypes({"memberstatusenum"}),
       Create("stream_members", {"streams", "users"}, {<<"status", "memberstatusenum">>}, {}),
       NewTypes({"posttypeenum"}),
       Create("posts", {"streams", "users"}, {<<"post_type", "posttypeenum">>}, {"content"}),
       NewTypes({"postmediatypeenum"}),
       Create("post_media", {"posts"}, {<<"media_type", "postmediatypeenum">>}, {"storage_path"}),
       Create("post_upvotes", {"posts", "users"}, {}, {}) >>
\* drop plan followed from trades
upgrade_c4d5e6f7a8b9 == << RemoveIfPresent("trades", {"plan_followed"}) >>
downgrade_c4d5e6f7a8b9 == << Add("trades", {"plan_followed"}) >>
\* add trade note and setups
upgrade_d5e6f7a8b9c0 ==
    << AddIfMissing("trade_journals", {"note_html", "note_updated_at"}),
       CreateIfMissing("setups", {"users"}, {}, {"ix_setups_user_id"}) >>
downgrade_d5e6f7a8b9c0 ==
    << Remove("setups", {"ix_setups_user_id"}), Drop("setups"),
       Remove("trade_journals", {"note_updated_at", "note_html"}) >>
\* add notifications
upgrade_e6f7a8b9c0d1 ==
    << Types({"notificationtypeenum"}),
       CreateIfMissing("notifications", {"users"}, {<<"type", "notificationtypeenum">>},
           {"ix_notifications_user_id", "ix_notifications_user_created"}) >>
downgrade_e6f7a8b9c0d1 ==
    << Remove("notifications", {"ix_notifications_user_created", "ix_notifications_user_id"}),
       Drop("notifications"), DropTypes({"notificationtypeenum"}) >>
\* add mt5 server catalog
upgrade_f6a7b8c9d0e1 ==
    << Create("mt5_server_catalog", {}, {}, {"ix_mt5_server_catalog_normalized_server_key",
           "ix_mt5_server_catalog_active"}) >>
downgrade_f6a7b8c9d0e1 ==
    << Remove("mt5_server_catalog", {"ix_mt5_server_catalog_active",
           "ix_mt5_server_catalog_normalized_server_key"}),
       Drop("mt5_server_catalog") >>
\* rename headless mt5 drop metaapi
upgrade_f3a9c1d2e4b7 ==
    << NewTypes({"syncproviderenum_new"}),
       Retype("trading_accounts", "sync_provider", "syncproviderenum_new"),
       DropType("syncproviderenum"), RenameType("syncproviderenum_new", "syncproviderenum") >>
downgrade_f3a9c1d2e4b7 ==
    << NewTypes({"syncproviderenum_old"}),
       Retype("trading_accounts", "sync_provider", "syncproviderenum_old"),
       DropType("syncproviderenum"), RenameType("syncproviderenum_old", "syncproviderenum") >>
\* rename sync provider to import method
upgrade_a7b8c9d0e1f2 ==
    << Rename("trading_accounts", "sync_provider", "import_method"), NewTypes({"importmethodenum"}),
       Retype("trading_accounts", "import_method", "importmethodenum"),
       DropType("syncproviderenum") >>
downgrade_a7b8c9d0e1f2 ==
    << NewTypes({"syncproviderenum"}),
       Retype("trading_accounts", "import_method", "syncproviderenum"),
       DropType("importmethodenum"), Rename("trading_accounts", "import_method", "sync_provider") >>
\* drop is manual is missed from trades
upgrade_b8c9d0e1f2a3 == << Remove("trades", {"is_missed", "is_manual"}) >>
downgrade_b8c9d0e1f2a3 == << Add("trades", {"is_manual", "is_missed"}) >>
\* add trgm index mt5 server catalog
upgrade_c1d2e3f4a5b6 ==
    << AddIfMissing("mt5_server_catalog", {"ix_mt5_server_catalog_name_trgm",
           "ix_mt5_server_catalog_normkey_trgm"}) >>
downgrade_c1d2e3f4a5b6 ==
    << RemoveIfPresent("mt5_server_catalog", {"ix_mt5_server_catalog_normkey_trgm",
           "ix_mt5_server_catalog_name_trgm"}) >>
\* account is archived drop is deleted
upgrade_d2e3f4a5b6c7 ==
    << Add("trading_accounts", {"is_archived"}), Turn("disconnected", {"archived"}),
       Remove("trading_accounts", {"is_deleted"}),
       RenameType("tradingaccountstatusenum", "tradingaccountstatusenum_old"),
       NewTypes({"tradingaccountstatusenum"}),
       Retype("trading_accounts", "status", "tradingaccountstatusenum"),
       DropType("tradingaccountstatusenum_old") >>
downgrade_d2e3f4a5b6c7 ==
    << RenameType("tradingaccountstatusenum", "tradingaccountstatusenum_old"),
       NewTypes({"tradingaccountstatusenum"}),
       Retype("trading_accounts", "status", "tradingaccountstatusenum"),
       DropType("tradingaccountstatusenum_old"), Add("trading_accounts", {"is_deleted"}),
       Turn("archived", {"disconnected"}), Remove("trading_accounts", {"is_archived"}) >>
\* add user onboarding fields
upgrade_onboard9f8e7d6c5b4a ==
    << AddIfMissing("users", {"onboarding_completed", "onboarding_completed_at",
           "trading_experience", "primary_goal", "referral_source"}) >>
downgrade_onboard9f8e7d6c5b4a ==
    << RemoveIfPresent("users", {"referral_source", "primary_goal", "trading_experience",
           "onboarding_completed_at", "onboarding_completed"}) >>
\* add copy trading control plane
upgrade_e7f8a9b0c1d2 ==
    << Types({"telegramconnectionstateenum", "telegramsourcetypeenum", "telegramsourcestateenum",
           "copyroutestateenum", "takeprofitmodeenum", "lotdistributionenum", "minimumfieldsenum",
           "copyactivitylevelenum"}),
       Create("copy_trading_user_settings", {"users"}, {}, {}),
       Create("telegram_connections", {"users"}, {<<"state", "telegramconnectionstateenum">>},
           {"telegram_connections_user_id_telegram_user_id_key"}),
       Create("telegram_sources", {"telegram_connections", "users"}, {<<"source_type",
           "telegramsourcetypeenum">>, <<"state", "telegramsourcestateenum">>}, {}),
       Create("copy_account_policies", {"trading_accounts", "users"}, {}, {"account_id",
           "copy_account_policies_user_id_account_id_key", "ix_copy_account_policies_account_id"}),
       Create("copy_routes", {"telegram_sources", "trading_accounts", "users"}, {<<"state",
           "copyroutestateenum">>, <<"paused_from_state", "copyroutestateenum">>,
           <<"take_profit_mode", "takeprofitmodeenum">>, <<"lot_distribution",
           "lotdistributionenum">>, <<"minimum_fields", "minimumfieldsenum">>},
           {"target_account_id", "copy_routes_user_id_source_id_target_account_id_key",
           "ix_copy_routes_target_account_id"}),
       Create("copy_activity_events", {"trading_accounts", "copy_routes", "telegram_sources",
           "users"}, {<<"level", "copyactivitylevelenum">>}, {"account_id"}) >>
downgrade_e7f8a9b0c1d2 ==
    << Drop("copy_activity_events"), Drop("copy_routes"), Drop("copy_account_policies"),
       Drop("telegram_sources"), Drop("telegram_connections"), Drop("copy_trading_user_settings"),
       DropTypes({"copyactivitylevelenum", "minimumfieldsenum", "lotdistributionenum",
           "takeprofitmodeenum", "copyroutestateenum", "telegramsourcestateenum",
           "telegramsourcetypeenum", "telegramconnectionstateenum"}) >>
\* complete copy trading runtime
upgrade_f8a9b0c1d2e3 ==
    << Types({"automationconfidenceenum", "signalthreadstateenum", "tradeintentstateenum"}),
       Create("channel_profiles", {}, {<<"confidence", "automationconfidenceenum">>}, {}),
       Add("telegram_connections", {"display_name", "username", "is_paused",
           "reauthentication_reason"}),
       Add("telegram_sources", {"profile_id", "is_paused", "fk_telegram_sources_profile"}),
       Refer("telegram_sources", "channel_profiles"),
       Create("channel_message_samples", {"channel_profiles"}, {}, {}),
       Create("signal_threads", {"telegram_sources"}, {<<"state", "signalthreadstateenum">>}, {}),
       Create("parsed_actions", {"signal_threads", "copy_routes"}, {}, {}),
       Create("trade_intents", {"users", "copy_routes", "trading_accounts", "parsed_actions"},
           {<<"state", "tradeintentstateenum">>}, {"account_id", "ix_trade_intent_account_state"}),
       Create("copied_trades", {"copy_routes", "signal_threads", "trade_intents"}, {}, {}),
       Create("symbol_mappings", {"copy_routes", "trading_accounts"}, {}, {"account_id",
           "symbol_mappings_route_id_account_id_normalized_signal_symbol_key",
           "ix_symbol_mappings_account_id"}) >>
downgrade_f8a9b0c1d2e3 ==
    << Drop("symbol_mappings"), Drop("copied_trades"), Drop("trade_intents"),
       Drop("parsed_actions"), Drop("signal_threads"), Drop("channel_message_samples"),
       Remove("telegram_sources", {"fk_telegram_sources_profile", "is_paused", "profile_id"}),
       Unrefer("telegram_sources", "channel_profiles"),
       Remove("telegram_connections", {"reauthentication_reason", "is_paused", "username",
           "display_name"}),
       Drop("channel_profiles"),
       DropTypes({"tradeintentstateenum", "signalthreadstateenum", "automationconfidenceenum"}) >>
\* widen trade symbol to 64
upgrade_f9a0b1c2d3e4 == << Touch("trades", {"symbol"}) >>
downgrade_f9a0b1c2d3e4 == << Refuse("long_symbol"), Touch("trades", {"symbol"}) >>
\* add partna guard tables
upgrade_9a4d7c2e5f81 ==
    << Create("guard_accounts", {"trading_accounts", "users"}, {}, {}),
       Create("guard_states", {"guard_accounts"}, {}, {}),
       Create("guard_daily_results", {"guard_accounts"}, {}, {}),
       Create("guard_ticks", {"guard_accounts"}, {}, {}),
       Create("guard_alerts", {"guard_accounts"}, {}, {}) >>
downgrade_9a4d7c2e5f81 ==
    << Drop("guard_alerts"), Drop("guard_ticks"), Drop("guard_daily_results"), Drop("guard_states"),
       Drop("guard_accounts") >>
\* harden copy trading runtime
upgrade_a0b1c2d3e4f5 ==
    << Extend({"telegramsourcestateenum", "copyroutestateenum"}), Extend({"copyroutestateenum"}),
       Types({"signalconversationstateenum", "routeassemblystateenum", "telegramauthstateenum",
           "deadletterstateenum", "workerhealthstateenum"}),
       Create("signal_conversations", {"telegram_sources", "signal_threads"}, {<<"state",
           "signalconversationstateenum">>}, {}),
       Create("route_signal_assemblies", {"signal_conversations", "copy_routes"}, {<<"state",
           "routeassemblystateenum">>}, {}),
       Create("telegram_auth_attempts", {"users", "telegram_connections"}, {<<"state",
           "telegramauthstateenum">>}, {}),
       Create("copy_dead_letters", {"users"}, {<<"state", "deadletterstateenum">>}, {}),
       Create("copy_worker_health", {}, {<<"state", "workerhealthstateenum">>}, {}),
       Add("trade_intents", {"client_order_id", "uq_trade_intent_client_order_id"}),
       Add("copied_trades", {"original_volume", "current_volume", "stop_loss", "take_profit",
           "broker_synced_at"}) >>
downgrade_a0b1c2d3e4f5 ==
    << Remove("copied_trades", {"broker_synced_at", "take_profit", "stop_loss", "current_volume",
           "original_volume"}),
       Remove("trade_intents", {"uq_trade_intent_client_order_id", "client_order_id"}),
       Drop("copy_worker_health"), Drop("copy_dead_letters"), Drop("telegram_auth_attempts"),
       Drop("route_signal_assemblies"), Drop("signal_conversations"),
       DropTypes({"workerhealthstateenum", "deadletterstateenum", "telegramauthstateenum",
           "routeassemblystateenum", "signalconversationstateenum"}) >>
\* remove channel analysis gating
upgrade_c9d8e7f6a5b4 == << Turn("gated_source", {}) >>
downgrade_c9d8e7f6a5b4 == << >>
\* add copy execution generations
upgrade_d0e1f2a3b4c5 ==
    << Add("route_signal_assemblies", {"generation", "opening_action", "opening_intent_id",
           "terminal_reason", "completed_at", "ck_route_signal_assembly_generation_positive",
           "fk_route_signal_assemblies_opening_intent_id"}),
       Refer("route_signal_assemblies", "trade_intents"),
       Touch("route_signal_assemblies", {"generation"}) >>
downgrade_d0e1f2a3b4c5 ==
    << Remove("route_signal_assemblies", {"fk_route_signal_assemblies_opening_intent_id",
           "ck_route_signal_assembly_generation_positive", "completed_at", "terminal_reason",
           "opening_intent_id", "opening_action", "generation"}),
       Unrefer("route_signal_assemblies", "trade_intents") >>
\* add metaapi copy connections
upgrade_e1f2a3b4c5d6 ==
    << Types({"copytradingconnectionstateenum"}),
       Create("copy_trading_connections", {"users"}, {<<"state",
           "copytradingconnectionstateenum">>}, {"is_paused",
           "ix_copy_trading_connections_user_id"}),
       Turn("active_route", {"paused_route"}),
       RemoveIfPresent("copy_routes", {"copy_routes_user_id_source_id_target_account_id_key",
           "ix_copy_routes_target_account_id"}),
       Rename("copy_routes", "target_account_id", "legacy_target_account_id"),
       Add("copy_routes", {"target_connection_id", "fk_copy_routes_target_connection"}),
       Refer("copy_routes", "copy_trading_connections"),
       Add("copy_routes", {"ix_copy_routes_target_connection_id", "uq_copy_route_connection"}),
       RemoveIfPresent("copy_account_policies", {"copy_account_policies_user_id_account_id_key",
           "ix_copy_account_policies_account_id"}),
       Rename("copy_account_policies", "account_id", "legacy_account_id"),
       Add("copy_account_policies", {"connection_id", "fk_copy_account_policy_connection"}),
       Refer("copy_account_policies", "copy_trading_connections"),
       Add("copy_account_policies", {"ix_copy_account_policies_connection_id",
           "uq_copy_account_policy_connection"}),
       Rename("copy_activity_events", "account_id", "legacy_account_id"),
       Add("copy_activity_events", {"connection_id", "fk_copy_activity_connection"}),
       Refer("copy_activity_events", "copy_trading_connections"),
       RemoveIfPresent("trade_intents", {"ix_trade_intent_account_state",
           "ix_trade_intents_account_id"}),
       Rename("trade_intents", "account_id", "legacy_account_id"),
       Add("trade_intents", {"connection_id", "fk_trade_intent_connection"}),
       Refer("trade_intents", "copy_trading_connections"),
       Add("trade_intents", {"ix_trade_intents_connection_id", "ix_trade_intents_legacy_account_id",
           "ix_trade_intent_connection_state"}),
       Add("copied_trades", {"connection_id", "fk_copied_trade_connection"}),
       Refer("copied_trades", "copy_trading_connections"),
       Add("copied_trades", {"ix_copied_trades_connection_id"}),
       RemoveIfPresent("symbol_mappings",
           {"symbol_mappings_route_id_account_id_normalized_signal_symbol_key"}),
       Unrefer("symbol_mappings", "trading_accounts"),
       RemoveIfPresent("symbol_mappings", {"ix_symbol_mappings_account_id"}),
       Remove("symbol_mappings", {"account_id"}),
       Add("symbol_mappings", {"connection_id", "fk_symbol_mapping_connection"}),
       Refer("symbol_mappings", "copy_trading_connections"),
       Add("symbol_mappings", {"ix_symbol_mappings_connection_id", "uq_symbol_mapping_connection"})
           >>
downgrade_e1f2a3b4c5d6 ==
    << Remove("symbol_mappings", {"uq_symbol_mapping_connection",
           "ix_symbol_mappings_connection_id", "fk_symbol_mapping_connection", "connection_id"}),
       Unrefer("symbol_mappings", "copy_trading_connections"),
       Add("symbol_mappings", {"account_id"}), Refer("symbol_mappings", "trading_accounts"),
       Add("symbol_mappings", {"ix_symbol_mappings_account_id",
           "symbol_mappings_route_id_account_id_normalized_signal_symbol_key"}),
       Remove("copied_trades", {"ix_copied_trades_connection_id", "fk_copied_trade_connection",
           "connection_id"}),
       Unrefer("copied_trades", "copy_trading_connections"),
       Remove("trade_intents", {"ix_trade_intent_connection_state",
           "ix_trade_intents_connection_id", "ix_trade_intents_legacy_account_id",
           "fk_trade_intent_connection", "connection_id"}),
       Unrefer("trade_intents", "copy_trading_connections"),
       Rename("trade_intents", "legacy_account_id", "account_id"),
       Add("trade_intents", {"ix_trade_intents_account_id", "ix_trade_intent_account_state"}),
       Remove("copy_activity_events", {"fk_copy_activity_connection", "connection_id"}),
       Unrefer("copy_activity_events", "copy_trading_connections"),
       Rename("copy_activity_events", "legacy_account_id", "account_id"),
       Remove("copy_account_policies", {"uq_copy_account_policy_connection",
           "ix_copy_account_policies_connection_id", "fk_copy_account_policy_connection",
           "connection_id"}),
       Unrefer("copy_account_policies", "copy_trading_connections"),
       Rename("copy_account_policies", "legacy_account_id", "account_id"),
       Add("copy_account_policies", {"ix_copy_account_policies_account_id",
           "copy_account_policies_user_id_account_id_key"}),
       Remove("copy_routes", {"uq_copy_route_connection", "ix_copy_routes_target_connection_id",
           "fk_copy_routes_target_connection", "target_connection_id"}),
       Unrefer("copy_routes", "copy_trading_connections"),
       Rename("copy_routes", "legacy_target_account_id", "target_account_id"),
       Add("copy_routes", {"ix_copy_routes_target_account_id",
           "copy_routes_user_id_source_id_target_account_id_key"}),
       Remove("copy_trading_connections", {"ix_copy_trading_connections_user_id"}),
       Drop("copy_trading_connections"), DropTypes({"copytradingconnectionstateenum"}) >>
\* add copy connection pause flag
\* A faulty variant: the flag is left to the table's creation.
upgrade_without_flag == << >>
upgrade_f2a3b4c5d6e7 == << AddIfMissing("copy_trading_connections", {"is_paused"}) >>
downgrade_f2a3b4c5d6e7 == << RemoveIfPresent("copy_trading_connections", {"is_paused"}) >>
\* relax copy trading legacy account columns
upgrade_f2b4c6d8e0a1 ==
    << Touch("copy_account_policies", {"legacy_account_id"}),
       Touch("trade_intents", {"legacy_account_id"}) >>
downgrade_f2b4c6d8e0a1 ==
    << Refuse("by_connection"), Touch("trade_intents", {"legacy_account_id"}),
       Touch("copy_account_policies", {"legacy_account_id"}) >>
\* relax copy route legacy target account
upgrade_f2c5d7e9a1b3 == << Touch("copy_routes", {"legacy_target_account_id"}) >>
downgrade_f2c5d7e9a1b3 ==
    << Refuse("by_connection"), Touch("copy_routes", {"legacy_target_account_id"}) >>
\* add copy account risk controls
upgrade_b7d9e1f3a5c7 ==
    << Add("copy_account_policies", {"max_lot_per_trade", "max_open_positions", "daily_loss_limit",
           "max_drawdown_percent", "allowed_symbols", "blocked_symbols",
           "market_signal_max_age_seconds", "daily_equity_anchor", "daily_equity_anchor_date",
           "peak_equity", "ck_copy_account_policy_max_lot_per_trade_positive",
           "ck_copy_account_policy_max_open_positions_positive",
           "ck_copy_account_policy_daily_loss_positive", "ck_copy_account_policy_drawdown_range",
           "ck_copy_account_policy_signal_age_range"}),
       Turn("low_max_lot", {"cap_over_max", "low_max_lot"}) >>
downgrade_b7d9e1f3a5c7 ==
    << Remove("copy_account_policies", {"ck_copy_account_policy_signal_age_range",
           "ck_copy_account_policy_drawdown_range", "ck_copy_account_policy_daily_loss_positive",
           "ck_copy_account_policy_max_open_positions_positive",
           "ck_copy_account_policy_max_lot_per_trade_positive", "peak_equity",
           "daily_equity_anchor_date", "daily_equity_anchor", "market_signal_max_age_seconds",
           "blocked_symbols", "allowed_symbols", "max_drawdown_percent", "daily_loss_limit",
           "max_open_positions", "max_lot_per_trade"}) >>
\* clamp existing copy trade limits
upgrade_c8e0f2a4b6d8 == << Turn("cap_over_max", {}) >>
downgrade_c8e0f2a4b6d8 == << >>
\* add copy production controls
upgrade_d9f1a3c5e7b9 ==
    << Add("copy_account_policies", {"max_spread_points", "max_slippage_points",
           "max_quote_age_seconds", "high_spread_behavior", "trading_start_hour_utc",
           "trading_end_hour_utc"}),
       Add("copy_routes", {"semantic_duplicate_window_seconds"}),
       Add("copy_account_policies", {"ck_copy_policy_quote_age",
           "ck_copy_policy_spread_nonnegative", "ck_copy_policy_slippage_nonnegative",
           "ck_copy_policy_start_hour", "ck_copy_policy_end_hour", "ck_copy_policy_spread_behavior",
           "ck_copy_policy_trading_hours_pair"}),
       Add("copy_routes", {"ck_copy_route_duplicate_window"}), Types({"signalreviewstateenum"}),
       Create("copy_execution_metrics", {"users", "copy_routes", "trade_intents"}, {}, {}),
       Create("copy_signal_reviews", {"users", "copy_routes", "telegram_sources",
           "signal_conversations"}, {<<"state", "signalreviewstateenum">>}, {}) >>
downgrade_d9f1a3c5e7b9 ==
    << Drop("copy_signal_reviews"), Drop("copy_execution_metrics"),
       DropTypes({"signalreviewstateenum"}),
       Remove("copy_routes", {"ck_copy_route_duplicate_window",
           "semantic_duplicate_window_seconds"}),
       Remove("copy_account_policies", {"ck_copy_policy_trading_hours_pair",
           "ck_copy_policy_spread_behavior", "ck_copy_policy_end_hour", "ck_copy_policy_start_hour",
           "ck_copy_policy_slippage_nonnegative", "ck_copy_policy_spread_nonnegative",
           "ck_copy_policy_quote_age", "trading_end_hour_utc", "trading_start_hour_utc",
           "high_spread_behavior", "max_quote_age_seconds", "max_slippage_points",
           "max_spread_points"}) >>
\* add administration and product analytics
upgrade_e0a2b4c6d8f0 ==
    << Types({"platformroleenum"}), Add("users", {"platform_role"}),
       Uses("users", "platform_role", "platformroleenum"),
       Add("users", {"is_suspended", "suspended_at", "suspension_reason", "ix_users_platform_role",
           "ix_users_is_suspended"}),
       Create("admin_audit_events", {"users"}, {}, {}),
       Create("product_events", {"users"}, {}, {}) >>
downgrade_e0a2b4c6d8f0 ==
    << Drop("product_events"), Drop("admin_audit_events"),
       Remove("users", {"ix_users_is_suspended", "ix_users_platform_role", "suspension_reason",
           "suspended_at", "is_suspended", "platform_role"}),
       DropTypes({"platformroleenum"}) >>
\* add bachs subscriptions
upgrade_f1b2c3d4e5f6 ==
    << Types({"billingplanenum", "billingstatusenum"}),
       Create("billing_subscriptions", {"users"}, {<<"plan", "billingplanenum">>, <<"status",
           "billingstatusenum">>, <<"pending_plan", "billingplanenum">>},
           {"ix_billing_subscriptions_provider_customer_id", "ix_billing_subscriptions_user_id"}),
       Create("billing_webhook_events", {}, {}, {"ix_billing_webhook_events_provider_event_id"}) >>
downgrade_f1b2c3d4e5f6 ==
    << Remove("billing_webhook_events", {"ix_billing_webhook_events_provider_event_id"}),
       Drop("billing_webhook_events"),
       Remove("billing_subscriptions", {"ix_billing_subscriptions_user_id",
           "ix_billing_subscriptions_provider_customer_id"}),
       Drop("billing_subscriptions"), DropTypes({"billingstatusenum", "billingplanenum"}) >>
\* add journal bootstrap outbox
upgrade_a2c4e6f8b0d2 ==
    << Create("journal_bootstrap_dispatches", {"trading_accounts"}, {},
           {"ix_journal_bootstrap_dispatches_account_id", "ix_journal_bootstrap_dispatch_pending"})
           >>
downgrade_a2c4e6f8b0d2 ==
    << Remove("journal_bootstrap_dispatches", {"ix_journal_bootstrap_dispatch_pending",
           "ix_journal_bootstrap_dispatches_account_id"}),
       Drop("journal_bootstrap_dispatches") >>
\* add affiliate program
upgrade_b3d5f7a9c1e3 ==
    << Create("affiliate_settings", {"users"}, {}, {}),
       Create("affiliate_profiles", {"users"}, {}, {}),
       Create("referral_attributions", {"users"}, {}, {}),
       Create("affiliate_commissions", {"users"}, {}, {}), Turn("no_profile", {}) >>
downgrade_b3d5f7a9c1e3 ==
    << Drop("affiliate_commissions"), Drop("referral_attributions"), Drop("affiliate_profiles"),
       Drop("affiliate_settings") >>
\* enforce global telegram ownership
upgrade_c5e6f7a8b9c1 ==
    << Refuse("shared_identity"),
       Remove("telegram_connections", {"telegram_connections_user_id_telegram_user_id_key"}),
       Add("telegram_connections", {"uq_telegram_connections_telegram_user_id"}) >>
downgrade_c5e6f7a8b9c1 ==
    << Remove("telegram_connections", {"uq_telegram_connections_telegram_user_id"}),
       Add("telegram_connections", {"uq_telegram_connections_user_id_telegram_user_id"}) >>

-----------------------------------------------------------------------------
Upgrades ==
    << upgrade_433280177f3c, upgrade_e25205c88f87, upgrade_5039ce94f657, upgrade_8c18baa4fb20,
       upgrade_035acc98f376, upgrade_a9f7643677be, upgrade_c0d4007a384e, upgrade_d4e9f1a2b3c0,
       upgrade_ef593f8b763f, upgrade_4db0be4616dc, upgrade_5cd9108794b9, upgrade_d9b1e7f4c2a8,
       upgrade_9f2c1d7e4a11, upgrade_a1b2c3d4e5f6, upgrade_b7c8d9e0f1a2, upgrade_c2f4a8d6e9b1,
       upgrade_d1e2f3a4b5c6, upgrade_2d629be79bc7, upgrade_4da4bd35145f, upgrade_fefa9f3b436c,
       upgrade_256e11dfea33, upgrade_129bbf6654f9, upgrade_7f1c2a9d4b6e, upgrade_c6d7e8f9a0b1,
       upgrade_ee637789eda3, upgrade_f3a1b2c4d5e6, upgrade_a2b3c4d5e6f7, upgrade_b1c2d3e4f5a6,
       upgrade_6a7b8c9d0e1f, upgrade_7b8c9d0e1f2a, upgrade_a1c2e3d4f5b6, upgrade_b2d3f4a5c6e7,
       upgrade_c3e4f5a6b7d8, upgrade_d4e5f6a7b8c9, upgrade_e5f6a7b8c9d0, upgrade_f7a8b9c0d1e2,
       upgrade_a1b2c3d4e5f7, upgrade_b2c3d4e5f6a8, upgrade_c4d5e6f7a8b9, upgrade_d5e6f7a8b9c0,
       upgrade_e6f7a8b9c0d1, upgrade_f6a7b8c9d0e1, upgrade_f3a9c1d2e4b7, upgrade_a7b8c9d0e1f2,
       upgrade_b8c9d0e1f2a3, upgrade_c1d2e3f4a5b6, upgrade_d2e3f4a5b6c7,
       upgrade_onboard9f8e7d6c5b4a, upgrade_e7f8a9b0c1d2, upgrade_f8a9b0c1d2e3,
       upgrade_f9a0b1c2d3e4, upgrade_9a4d7c2e5f81, upgrade_a0b1c2d3e4f5, upgrade_c9d8e7f6a5b4,
       upgrade_d0e1f2a3b4c5, upgrade_e1f2a3b4c5d6, upgrade_f2a3b4c5d6e7, upgrade_f2b4c6d8e0a1,
       upgrade_f2c5d7e9a1b3, upgrade_b7d9e1f3a5c7, upgrade_c8e0f2a4b6d8, upgrade_d9f1a3c5e7b9,
       upgrade_e0a2b4c6d8f0, upgrade_f1b2c3d4e5f6, upgrade_a2c4e6f8b0d2, upgrade_b3d5f7a9c1e3,
       upgrade_c5e6f7a8b9c1 >>

Downgrades ==
    << downgrade_433280177f3c, downgrade_e25205c88f87, downgrade_5039ce94f657,
       downgrade_8c18baa4fb20, downgrade_035acc98f376, downgrade_a9f7643677be,
       downgrade_c0d4007a384e, downgrade_d4e9f1a2b3c0, downgrade_ef593f8b763f,
       downgrade_4db0be4616dc, downgrade_5cd9108794b9, downgrade_d9b1e7f4c2a8,
       downgrade_9f2c1d7e4a11, downgrade_a1b2c3d4e5f6, downgrade_b7c8d9e0f1a2,
       downgrade_c2f4a8d6e9b1, downgrade_d1e2f3a4b5c6, downgrade_2d629be79bc7,
       downgrade_4da4bd35145f, downgrade_fefa9f3b436c, downgrade_256e11dfea33,
       downgrade_129bbf6654f9, downgrade_7f1c2a9d4b6e, downgrade_c6d7e8f9a0b1,
       downgrade_ee637789eda3, downgrade_f3a1b2c4d5e6, downgrade_a2b3c4d5e6f7,
       downgrade_b1c2d3e4f5a6, downgrade_6a7b8c9d0e1f, downgrade_7b8c9d0e1f2a,
       downgrade_a1c2e3d4f5b6, downgrade_b2d3f4a5c6e7, downgrade_c3e4f5a6b7d8,
       downgrade_d4e5f6a7b8c9, downgrade_e5f6a7b8c9d0, downgrade_f7a8b9c0d1e2,
       downgrade_a1b2c3d4e5f7, downgrade_b2c3d4e5f6a8, downgrade_c4d5e6f7a8b9,
       downgrade_d5e6f7a8b9c0, downgrade_e6f7a8b9c0d1, downgrade_f6a7b8c9d0e1,
       downgrade_f3a9c1d2e4b7, downgrade_a7b8c9d0e1f2, downgrade_b8c9d0e1f2a3,
       downgrade_c1d2e3f4a5b6, downgrade_d2e3f4a5b6c7, downgrade_onboard9f8e7d6c5b4a,
       downgrade_e7f8a9b0c1d2, downgrade_f8a9b0c1d2e3, downgrade_f9a0b1c2d3e4,
       downgrade_9a4d7c2e5f81, downgrade_a0b1c2d3e4f5, downgrade_c9d8e7f6a5b4,
       downgrade_d0e1f2a3b4c5, downgrade_e1f2a3b4c5d6, downgrade_f2a3b4c5d6e7,
       downgrade_f2b4c6d8e0a1, downgrade_f2c5d7e9a1b3, downgrade_b7d9e1f3a5c7,
       downgrade_c8e0f2a4b6d8, downgrade_d9f1a3c5e7b9, downgrade_e0a2b4c6d8f0,
       downgrade_f1b2c3d4e5f6, downgrade_a2c4e6f8b0d2, downgrade_b3d5f7a9c1e3,
       downgrade_c5e6f7a8b9c1 >>

Newest == Len(Upgrades)

Empty == [tables |-> {}, parts |-> {}, types |-> {}, refs |-> {}, uses |-> {}, facts |-> {}]

\* The schema of a database that only ever went up.
Schema(d) == <<d.tables, d.parts, d.refs, d.uses>>
Fresh == Seqs!FoldLeft(LAMBDA d, statements : Migrate(statements, d).db, Empty, Upgrades)

\* The facts that the application's rows can come to satisfy, and the
\* revisions at which they can.
Facts ==
    [ stream |-> 1 .. 37,            \* a stream exists
      metaapi_account |-> 14 .. 42,  \* an account synchronized by MetaApi
      disconnected |-> 10 .. 46,     \* an account was disconnected
      wide_magic |-> 29 .. 67,       \* a magic number beyond 32 bits
      same_prefix |-> 32 .. 67,      \* two e-mail addresses agree in 50 characters
      long_symbol |-> 51 .. 67,      \* a symbol of more than 20 characters
      gated_source |-> 49 .. 53,     \* a source waits for its analysis
      active_route |-> 49 .. 55,     \* a route copies to a journal account
      low_max_lot |-> 49 .. 67,      \* an account policy below 100 lots
      shared_identity |-> 49 .. 66,  \* two users linked one Telegram account
      by_connection |-> 58 .. 67,    \* a route or policy has no journal account
      no_profile |-> 1 .. 65 ]       \* a user has no affiliate profile

-----------------------------------------------------------------------------
MigInit == revision = 0 /\ db = Empty /\ failed = <<>>

\* alembic upgrade +1 (run_migrations_online).
UpgradeOne ==
    /\ revision < Newest
    /\ LET run == Migrate(Upgrades[revision + 1], db) IN
       /\ db' = run.db
       /\ revision' = IF run.ok THEN revision + 1 ELSE revision
       /\ failed' = IF run.ok THEN <<>> ELSE <<"upgrade", revision + 1>>

\* alembic downgrade -1.
DowngradeOne ==
    /\ revision > 0
    /\ LET run == Migrate(Downgrades[revision], db) IN
       /\ db' = run.db
       /\ revision' = IF run.ok THEN revision - 1 ELSE revision
       /\ failed' = IF run.ok THEN <<>> ELSE <<"downgrade", revision>>

\* The application writes rows that satisfy a fact.
Write ==
    \E f \in DOMAIN Facts :
        /\ revision \in Facts[f] /\ f \notin db.facts
        /\ Cardinality(db.facts) < MaxFacts
        /\ db' = [db EXCEPT !.facts = @ \cup {f}]
        /\ failed' = <<>>
        /\ UNCHANGED revision

MigNext == UpgradeOne \/ DowngradeOne \/ Write
MigSpec == MigInit /\ [][MigNext]_migVars

-----------------------------------------------------------------------------
(* Properties                                                              *)

\* However a database came to the newest revision (downgrades and repeated
\* upgrades included), it has the schema the application was written for:
\* that of a fresh installation.
HeadIsOneSchema == revision = Newest => Schema(db) = Schema(Fresh)
=============================================================================
