------------------------------ MODULE Revisions ------------------------------
(***************************************************************************)
(* The migration scripts of alembic/versions, in the order of their        *)
(* down_revision.  Up_<revision> is the script's upgrade(), Down_<revision> *)
(* its downgrade(); a long one is the concatenation of its parts.          *)
(***************************************************************************)
EXTENDS Schema

\* Initial database revision.
Up_992352f4c1f9_1 == <<
  Indexed("organization", {}), Indexed("user", {Owned("organization_id", "organization")}),
  Indexed("project", {Owned("created_by", "user"), Owned("organization_id", "organization")}),
  Indexed("user_activity", {Owned("created_by", "user")}),
  Indexed("attribute", {Owned("project_id", "project")}),
  Indexed("data_slice", {Owned("created_by", "user"), Owned("project_id", "project")}),
  Indexed("embedding", {Owned("project_id", "project")}),
  Indexed("knowledge_base", {Owned("project_id", "project")}),
  Indexed("notification", {Owned("project_id", "project"), Owned("user_id", "user")}) >>
Up_992352f4c1f9_2 == <<
  Table("record", {Owned("project_id", "project")}, {"created_at", "project_id"}),
  Indexed("record_tokenization_task", {Owned("project_id", "project"), Owned("user_id", "user")}),
  Indexed("upload_task", {Owned("project_id", "project"), Owned("user_id", "user")}),
  Indexed("user_sessions", {Owned("created_by", "user"), Owned("project_id", "project")}),
  Indexed("weak_supervision_task", {Owned("created_by", "user"), Owned("project_id", "project")}),
  Table("data_slice_record_association", {Owned("data_slice_id", "data_slice"), Owned("project_id",
    "project"), Owned("record_id", "record")}, {"project_id"}) >>
Up_992352f4c1f9_3 == <<
  Indexed("embedding_tensor", {Owned("embedding_id", "embedding"), Owned("project_id", "project"),
    Owned("record_id", "record")}),
  Indexed("knowledge_term", {Owned("knowledge_base_id", "knowledge_base"), Owned("project_id",
    "project")}),
  Indexed("labeling_task", {Owned("attribute_id", "attribute"), Owned("project_id", "project")}),
  Indexed("record_attribute_token_statistics", {Owned("attribute_id", "attribute"),
    Owned("project_id", "project"), Owned("record_id", "record")}),
  Indexed("record_tokenized", {Owned("project_id", "project"), Owned("record_id", "record")}) >>
Up_992352f4c1f9_4 == <<
  Indexed("information_source", {Owned("created_by", "user"), Owned("labeling_task_id",
    "labeling_task"), Owned("project_id", "project")}),
  Indexed("labeling_task_label", {Owned("created_by", "user"), Owned("labeling_task_id",
    "labeling_task"), Owned("project_id", "project")}),
  Indexed("information_source_payload", {Owned("created_by", "user"), Owned("project_id",
    "project"), Owned("source_id", "information_source")}) >>
Up_992352f4c1f9_5 == <<
  Indexed("information_source_statistics", {Owned("labeling_task_label_id", "labeling_task_label"),
    Owned("project_id", "project"), Owned("source_id", "information_source")}),
  Indexed("information_source_statistics_exclusion", {Owned("project_id", "project"),
    Owned("record_id", "record"), Owned("source_id", "information_source")}),
  Table("record_label_association", {Owned("created_by", "user"), Owned("labeling_task_label_id",
    "labeling_task_label"), Owned("project_id", "project"), Owned("record_id", "record"),
    Owned("source_id", "information_source"), Owned("weak_supervision_id", "weak_supervision_task")},
    {"created_by", "is_valid_manual_label", "labeling_task_label_id", "project_id", "record_id",
    "source_id", "weak_supervision_id"}) >>
Up_992352f4c1f9_6 == <<
  Indexed("record_label_association_token", {Owned("project_id", "project"),
    Owned("record_label_association_id", "record_label_association")}) >>
Up_992352f4c1f9 ==
  Up_992352f4c1f9_1 \o Up_992352f4c1f9_2 \o Up_992352f4c1f9_3 \o Up_992352f4c1f9_4 \o
  Up_992352f4c1f9_5 \o Up_992352f4c1f9_6
Down_992352f4c1f9_1 == <<
  DropTable("record_label_association_token", {"record_label_association_id", "project_id"}),
  DropTable("record_label_association", {"weak_supervision_id", "source_id", "record_id",
    "project_id", "labeling_task_label_id", "is_valid_manual_label", "created_by"}),
  DropTable("information_source_statistics_exclusion", {"source_id", "record_id", "project_id"}),
  DropTable("information_source_statistics", {"source_id", "project_id", "labeling_task_label_id"}),
  DropTable("information_source_payload", {"source_id", "project_id", "created_by"}),
  DropTable("labeling_task_label", {"project_id", "labeling_task_id", "created_by"}),
  DropTable("information_source", {"project_id", "labeling_task_id", "created_by"}),
  DropTable("record_tokenized", {"record_id", "project_id"}),
  DropTable("record_attribute_token_statistics", {"record_id", "project_id", "attribute_id"}),
  DropTable("labeling_task", {"project_id"}),
  DropTable("knowledge_term", {"project_id", "knowledge_base_id"}),
  DropTable("embedding_tensor", {"record_id", "project_id", "embedding_id"}),
  DropTable("data_slice_record_association", {"project_id"}),
  DropTable("weak_supervision_task", {"project_id", "created_by"}),
  DropTable("user_sessions", {"project_id", "created_by"}),
  DropTable("upload_task", {"user_id", "project_id"}) >>
Down_992352f4c1f9_2 == <<
  DropTable("record_tokenization_task", {"user_id", "project_id"}),
  DropTable("record", {"project_id", "created_at"}),
  DropTable("notification", {"user_id", "project_id"}), DropTable("knowledge_base", {"project_id"}),
  DropTable("embedding", {"project_id"}), DropTable("data_slice", {"project_id", "created_by"}),
  DropTable("attribute", {"project_id"}), DropTable("user_activity", {"created_by"}),
  DropTable("project", {"organization_id", "created_by"}), DropTable("user", {"organization_id"}),
  DropTable("organization", {}) >>
Down_992352f4c1f9 == Down_992352f4c1f9_1 \o Down_992352f4c1f9_2
\* Adds service version table.
Up_5b3a4deea1c4 == << Indexed("app_version", {}) >>
Down_5b3a4deea1c4 == << DropTable("app_version", {}) >>
\* Adds comment & link tables & some org management.
Up_9618924f9679 == <<
  Table("comment_data", {Firm("created_by", "user"), Owned("project_id", "project")}, {"created_by",
    "project_id", "xfkey", "xftype"}),
  Indexed("labeling_access_link", {Owned("project_id", "project"), Owned("created_by", "user"),
    Owned("data_slice_id", "data_slice"), Owned("heuristic_id", "information_source")}),
  AddColumns("organization", {"started_at", "is_paying", "created_at"}),
  AddColumns("user", {"role"}) >>
Down_9618924f9679 == <<
  DropColumns("user", {"role"}),
  DropColumns("organization", {"created_at", "is_paying", "started_at"}),
  DropTable("labeling_access_link", {"project_id", "heuristic_id", "data_slice_id", "created_by"}),
  DropTable("comment_data", {"xftype", "xfkey", "project_id", "created_by"}) >>
\* Adds created attributes columns.
Up_87f463aa5112 == <<
  AddColumns("attribute", {"user_created", "source_code", "state", "logs"}),
  AddColumns("embedding", {"attribute_id"}),
  AddKey("embedding", Owned("attribute_id", "attribute")) >>
Down_87f463aa5112 == <<
  DropColumns("attribute", {"user_created", "source_code", "state", "logs"}),
  DropColumns("embedding", {"attribute_id"}), DropKey("embedding", "attribute_id") >>
\* Adds upload task fields for label studio.
Up_09311360f8b9 == <<
  AddColumns("upload_task", {"upload_type", "file_additional_info", "mappings"}) >>
Down_09311360f8b9 == <<
  DropColumns("upload_task", {"user_mapping", "file_additional_info", "upload_type"}) >>
\* Adds personal-access-token-table.
Up_f803a0c4343c == <<
  Indexed("personal_access_token", {Owned("project_id", "project"), Owned("user_id", "user")}) >>
Down_f803a0c4343c == << DropTable("personal_access_token", {"user_id", "project_id"}) >>
\* Add column for attribute visibility.
Up_da902ad27b4a == << AddColumns("attribute", {"visibility"}) >>
Down_da902ad27b4a == << DropColumns("attribute", {"visibility"}) >>
\* Adds attribute name and scope to tokenization table.
Up_0e0e4aeac7eb == << AddColumns("record_tokenization_task", {"scope", "attribute_name"}) >>
Down_0e0e4aeac7eb == << DropColumns("record_tokenization_task", {"attribute_name", "scope"}) >>
\* Adds admin features.
Up_a5c341d1a7ef == <<
  Indexed("admin_message", {Firm("archived_by", "user"), Firm("created_by", "user")}),
  AddColumns("user", {"last_interaction"}) >>
Down_a5c341d1a7ef == <<
  DropColumns("user", {"last_interaction"}),
  DropTable("admin_message", {"created_by", "archived_by"}) >>
\* Adds limits to orga.
Up_3b118e1e02cb == << AddColumns("organization", {"max_rows", "max_cols", "max_char_count"}) >>
Down_3b118e1e02cb == << DropColumns("organization", {"max_char_count", "max_cols", "max_rows"}) >>
\* Added started_at and finished_at on attribute and embedding table.
Up_546e5cd7feaa == <<
  AddColumns("attribute", {"started_at", "finished_at"}),
  AddColumns("embedding", {"started_at", "finished_at"}) >>
Down_546e5cd7feaa == <<
  DropColumns("embedding", {"finished_at", "started_at"}),
  DropColumns("attribute", {"finished_at", "started_at"}) >>
\* Adds task queue table.
Up_bb87177d46b5 == <<
  Table("task_queue", {Firm("created_by", "user"), Owned("project_id", "project")}, {}) >>
Down_bb87177d46b5 == << DropTable("task_queue", {}) >>
\* Progress Field attributes.
Up_03d19eada266 == << AddColumns("attribute", {"progress"}) >>
Down_03d19eada266 == << DropColumns("attribute", {"progress"}) >>
\* Adds agreements, gdpr flags and platform support for embeddings.
Up_1a25c862801f == <<
  Table("agreement", {Owned("project_id", "project"), Owned("user_id", "user")}, {"project_id",
    "user_id", "xfkey", "xftype"}),
  AddColumns("embedding", {"created_by", "api_token", "model", "platform"}),
  AddIndex("embedding", {"created_by"}), AddKey("embedding", Owned("created_by", "user")),
  AddColumns("organization", {"gdpr_compliant"}) >>
Down_1a25c862801f == <<
  DropColumns("organization", {"gdpr_compliant"}), DropKey("embedding", Unnamed),
  DropIndex("embedding", {"created_by"}),
  DropColumns("embedding", {"platform", "model", "api_token", "created_by"}),
  DropTable("agreement", {"xftype", "xfkey", "user_id", "project_id"}) >>
\* Adds key for upload.
Up_217dbe11c5d1 == << AddColumns("upload_task", {"key"}) >>
Down_217dbe11c5d1 == << DropColumns("upload_task", {"key"}) >>
\* Adds filter attributes column to embeddings.
Up_73798599a917 == << AddColumns("embedding", {"filter_attributes"}) >>
Down_73798599a917 == << DropColumns("embedding", {"filter_attributes"}) >>
\* Additional data on the embeddings table.
Up_0714589d508e == << AddColumns("embedding", {"additional_data"}) >>
Down_0714589d508e == << DropColumns("embedding", {"additional_data"}) >>
\* adds embedding tensor subkey.
Up_53c561be097d == << AddColumns("embedding_tensor", {"sub_key"}) >>
Down_53c561be097d == << DropColumns("embedding_tensor", {"sub_key"}) >>
\* cognition tables.
Up_491ea68a7baf_1 == <<
  AddSpace("cognition"),
  Indexed("cognition.markdown_file", {Loose("created_by", "user"), Owned("organization_id",
    "organization")}),
  Wide("cognition.project", {Loose("created_by", "user"), Owned("organization_id", "organization"),
    Loose("refinery_question_project_id", "project"), Loose("refinery_references_project_id",
    "project"), Loose("refinery_relevance_project_id", "project")}, {"created_by", "organization_id",
    "refinery_question_project_id", "refinery_references_project_id",
    "refinery_relevance_project_id"}, {"operator_routing_source_code", "wizard_running",
    "refinery_synchronization_interval_option"}),
  Indexed("cognition.environment_variable", {Loose("created_by", "user"), Owned("project_id",
    "cognition.project")}) >>
Up_491ea68a7baf_2 == <<
  Indexed("cognition.conversation", {Loose("created_by", "user"), Owned("project_id",
    "cognition.project")}),
  Indexed("cognition.personal_access_token", {Loose("created_by", "user"), Owned("project_id",
    "cognition.project")}),
  Indexed("cognition.refinery_synchronization_task", {Owned("cognition_project_id",
    "cognition.project"), Owned("created_by", "user"), Owned("refinery_project_id", "project")}),
  Indexed("cognition.strategy", {Loose("created_by", "user"), Owned("project_id",
    "cognition.project")}) >>
Up_491ea68a7baf_3 == <<
  Wide("cognition.message", {Owned("conversation_id", "cognition.conversation"), Loose("created_by",
    "user"), Owned("project_id", "cognition.project"), Owned("strategy_id", "cognition.strategy")},
    {"conversation_id", "created_by", "project_id", "strategy_id"}, {"positive_feedback"}),
  Wide("cognition.strategy_step", {Loose("created_by", "user"), Owned("project_id",
    "cognition.project"), Owned("strategy_id", "cognition.strategy")}, {"created_by", "project_id",
    "strategy_id"}, {"strategy_step_type", "strategy_step_position"}),
  Indexed("cognition.llm_step", {Loose("created_by", "user"), Owned("project_id",
    "cognition.project"), Owned("strategy_step_id", "cognition.strategy_step")}) >>
Up_491ea68a7baf_4 == <<
  Indexed("cognition.pipeline_logs", {Loose("created_by", "user"), Owned("message_id",
    "cognition.message"), Owned("project_id", "cognition.project"), Owned("strategy_step_id",
    "cognition.strategy_step")}),
  Indexed("cognition.python_step", {Loose("created_by", "user"), Owned("project_id",
    "cognition.project"), Owned("strategy_step_id", "cognition.strategy_step")}),
  Indexed("cognition.retriever", {Loose("created_by", "user"), Owned("project_id",
    "cognition.project"), Owned("strategy_step_id", "cognition.strategy_step")}) >>
Up_491ea68a7baf_5 == <<
  Indexed("cognition.retriever_part", {Loose("created_by", "user"), Owned("project_id",
    "cognition.project"), Owned("retriever_id", "cognition.retriever")}) >>
Up_491ea68a7baf ==
  Up_491ea68a7baf_1 \o Up_491ea68a7baf_2 \o Up_491ea68a7baf_3 \o Up_491ea68a7baf_4 \o
  Up_491ea68a7baf_5
Down_491ea68a7baf_1 == <<
  DropTable("cognition.retriever_part", {"retriever_id", "project_id", "created_by"}),
  DropTable("cognition.retriever", {"strategy_step_id", "project_id", "created_by"}),
  DropTable("cognition.python_step", {"strategy_step_id", "project_id", "created_by"}),
  DropTable("cognition.pipeline_logs", {"strategy_step_id", "project_id", "message_id",
    "created_by"}),
  DropTable("cognition.llm_step", {"strategy_step_id", "project_id", "created_by"}),
  DropTable("cognition.strategy_step", {"strategy_id", "project_id", "created_by"}),
  DropTable("cognition.message", {"strategy_id", "project_id", "created_by", "conversation_id"}),
  DropTable("cognition.strategy", {"project_id", "created_by"}) >>
Down_491ea68a7baf_2 == <<
  DropTable("cognition.refinery_synchronization_task", {"refinery_project_id", "created_by",
    "cognition_project_id"}),
  DropTable("cognition.personal_access_token", {"project_id", "created_by"}),
  DropTable("cognition.conversation", {"project_id", "created_by"}),
  DropTable("cognition.project", {"refinery_relevance_project_id", "refinery_references_project_id",
    "refinery_question_project_id", "organization_id", "created_by"}),
  DropTable("cognition.environment_variable", {"project_id", "created_by"}),
  DropTable("cognition.markdown_file", {"organization_id", "created_by"}), DropSpace("cognition") >>
Down_491ea68a7baf == Down_491ea68a7baf_1 \o Down_491ea68a7baf_2
\* refactor cognition strategy step.
Up_3d0e01981f06 == <<
  DropTable("cognition.python_step", {"created_by", "project_id", "strategy_step_id"}),
  DropTable("cognition.retriever_part", {"created_by", "project_id", "retriever_id"}),
  DropTable("cognition.retriever", {"created_by", "project_id", "strategy_step_id"}),
  DropTable("cognition.llm_step", {"created_by", "project_id", "strategy_step_id"}),
  AddColumns("cognition.strategy_step", {"step_type", "position", "config"}),
  DropColumns("cognition.strategy_step", {"strategy_step_position", "strategy_step_type"}) >>
Down_3d0e01981f06_1 == <<
  AddColumns("cognition.strategy_step", {"strategy_step_type", "strategy_step_position"}),
  DropColumns("cognition.strategy_step", {"config", "position", "step_type"}),
  Indexed("cognition.llm_step", {Loose("created_by", "user"), Owned("project_id",
    "cognition.project"), Owned("strategy_step_id", "cognition.strategy_step")}),
  Indexed("cognition.retriever", {Loose("created_by", "user"), Owned("project_id",
    "cognition.project"), Owned("strategy_step_id", "cognition.strategy_step")}) >>
Down_3d0e01981f06_2 == <<
  Indexed("cognition.retriever_part", {Loose("created_by", "user"), Owned("project_id",
    "cognition.project"), Owned("retriever_id", "cognition.retriever")}),
  Indexed("cognition.python_step", {Loose("created_by", "user"), Owned("project_id",
    "cognition.project"), Owned("strategy_step_id", "cognition.strategy_step")}) >>
Down_3d0e01981f06 == Down_3d0e01981f06_1 \o Down_3d0e01981f06_2
\* extends cognition markdown tables.
Up_f6bca8990840 == <<
  Indexed("cognition.markdown_dataset", {Loose("created_by", "user"),
    Loose("environment_variable_id", "cognition.environment_variable"), Owned("organization_id",
    "organization"), Loose("refinery_project_id", "project")}),
  Indexed("cognition.markdown_llm_logs", {Owned("markdown_file_id", "cognition.markdown_file")}),
  AddColumns("cognition.environment_variable", {"organization_id"}),
  AddIndex("cognition.environment_variable", {"organization_id"}),
  AddKey("cognition.environment_variable", Owned("organization_id", "organization")),
  AddColumns("cognition.markdown_file", {"dataset_id", "started_at", "finished_at", "state"}),
  AddIndex("cognition.markdown_file", {"dataset_id"}),
  AddKey("cognition.markdown_file", Owned("dataset_id", "cognition.markdown_dataset")) >>
Down_f6bca8990840 == <<
  DropKey("cognition.markdown_file", Unnamed), DropIndex("cognition.markdown_file", {"dataset_id"}),
  DropColumns("cognition.markdown_file", {"state", "finished_at", "started_at", "dataset_id"}),
  DropKey("cognition.environment_variable", Unnamed),
  DropIndex("cognition.environment_variable", {"organization_id"}),
  DropColumns("cognition.environment_variable", {"organization_id"}),
  DropTable("cognition.markdown_llm_logs", {"markdown_file_id"}),
  DropTable("cognition.markdown_dataset", {"refinery_project_id", "organization_id",
    "environment_variable_id", "created_by"}) >>
\* cognition chat integration.
Up_6b7c123b3e52 == <<
  AddColumns("user", {"language_display"}),
  AddColumns("cognition.conversation", {"header", "error"}),
  AddColumns("cognition.message", {"selection_widget", "feedback_value", "feedback_category"}),
  DropColumns("cognition.message", {"positive_feedback"}),
  AddColumns("cognition.pipeline_logs", {"skipped_step"}),
  AddColumns("cognition.project", {"interface_type", "execute_query_enrichment_if_source_code",
    "customer_color_primary", "customer_color_primary_only_accent", "customer_color_secondary"}),
  AddColumns("cognition.strategy_step", {"progress_text", "execute_if_source_code"}) >>
Down_6b7c123b3e52 == <<
  DropColumns("cognition.strategy_step", {"execute_if_source_code", "progress_text"}),
  DropColumns("cognition.project", {"customer_color_secondary",
    "customer_color_primary_only_accent", "customer_color_primary",
    "execute_query_enrichment_if_source_code", "interface_type"}),
  DropColumns("cognition.pipeline_logs", {"skipped_step"}),
  AddColumns("cognition.message", {"positive_feedback"}),
  DropColumns("cognition.message", {"feedback_category", "feedback_value", "selection_widget"}),
  DropColumns("cognition.conversation", {"error", "header"}),
  DropColumns("user", {"language_display"}) >>
\* adds team tables.
Up_7de3c19cddcf == <<
  Indexed("team", {Loose("created_by", "user"), Owned("organization_id", "organization")}),
  Indexed("team_member", {Loose("created_by", "user"), Owned("team_id", "team"), Owned("user_id",
    "user")}),
  Table("team_resource", {Loose("created_by", "user"), Owned("team_id", "team")}, {"created_by",
    "resource_id", "team_id"}) >>
Down_7de3c19cddcf == <<
  DropTable("team_resource", {"team_id", "resource_id", "created_by"}),
  DropTable("team_member", {"user_id", "team_id", "created_by"}),
  DropTable("team", {"organization_id", "created_by"}) >>
\* Adds global websocket table.
Up_754dd15f2c9c == <<
  AddSpace("global"), Indexed("global.websocket_access", {Owned("created_by", "user")}) >>
Down_754dd15f2c9c == << DropTable("global.websocket_access", {"created_by"}), DropSpace("global") >>
\* adds cognition consumption.
Up_4861b97fcd5d == <<
  Table("cognition.consumption_summary", {Owned("organization_id", "organization"),
    Loose("project_id", "cognition.project")}, {"creation_date", "organization_id", "project_id"}),
  Indexed("cognition.consumption_log", {Loose("conversation_id", "cognition.conversation"),
    Loose("created_by", "user"), Loose("message_id", "cognition.message"), Owned("organization_id",
    "organization"), Loose("project_id", "cognition.project"), Loose("strategy_id",
    "cognition.strategy")}),
  AddColumns("cognition.project", {"state"}), DropColumns("cognition.project", {"wizard_running"}),
  AddColumns("cognition.strategy", {"complexity"}) >>
Down_4861b97fcd5d == <<
  DropColumns("cognition.strategy", {"complexity"}),
  AddColumns("cognition.project", {"wizard_running"}), DropColumns("cognition.project", {"state"}),
  DropTable("cognition.consumption_log", {"strategy_id", "project_id", "organization_id",
    "message_id", "created_by", "conversation_id"}),
  DropTable("cognition.consumption_summary", {"project_id", "organization_id", "creation_date"}) >>
\* Adds tmp file indicators.
Up_889ef4df126f == <<
  AddColumns("cognition.conversation", {"has_tmp_files", "archived"}),
  AddColumns("cognition.project", {"allow_file_upload", "max_file_size_mb", "open_ai_env_var_id"}),
  AddIndex("cognition.project", {"open_ai_env_var_id"}),
  AddKey("cognition.project", Loose("open_ai_env_var_id", "cognition.environment_variable")),
  DropKey("cognition.message", "strategy_id"),
  AddKey("cognition.message", Loose("strategy_id", "cognition.strategy")) >>
Down_889ef4df126f == <<
  DropKey("cognition.project", Unnamed), DropIndex("cognition.project", {"open_ai_env_var_id"}),
  DropColumns("cognition.project", {"open_ai_env_var_id", "max_file_size_mb", "allow_file_upload"}),
  DropColumns("cognition.conversation", {"archived", "has_tmp_files"}),
  DropKey("cognition.message", "strategy_id"),
  AddKey("cognition.message", Owned("strategy_id", "cognition.strategy")) >>
\* adds_cognition_facts_grouping_attribute.
Up_7edb03b88c03 == << AddColumns("cognition.project", {"facts_grouping_attribute"}) >>
Down_7edb03b88c03 == << DropColumns("cognition.project", {"facts_grouping_attribute"}) >>
\* Admin logs on org checkbox.
Up_63364f1fe61d == << AddColumns("organization", {"log_admin_requests"}) >>
Down_63364f1fe61d == << DropColumns("organization", {"log_admin_requests"}) >>
\* Added scheduled date for admin messages.
Up_a14f1a9b12b0 == << AddColumns("admin_message", {"scheduled_date"}) >>
Down_a14f1a9b12b0 == << DropColumns("admin_message", {"scheduled_date"}) >>
\* Macro tables.
Up_194838aa0431 == <<
  Table("cognition.macro", {Loose("created_by", "user"), Owned("organization_id", "organization"),
    Owned("project_id", "cognition.project")}, {"created_by", "organization_id", "project_id",
    "scope"}),
  Table("cognition.macro_execution", {Loose("created_by", "user"), Owned("organization_id",
    "organization"), Owned("macro_id", "cognition.macro")}, {"created_by", "execution_group_id",
    "macro_id"}),
  Indexed("cognition.macro_node", {Loose("created_by", "user"), Owned("macro_id",
    "cognition.macro")}),
  Indexed("cognition.macro_edge", {Loose("created_by", "user"), Owned("from_node_id",
    "cognition.macro_node"), Owned("macro_id", "cognition.macro"), Owned("to_node_id",
    "cognition.macro_node")}),
  Table("cognition.macro_execution_link", {Owned("execution_id", "cognition.macro_execution"),
    Owned("organization_id", "organization"), Owned("execution_node_id", "cognition.macro_node")},
    {"execution_id", "execution_node_id", "other_id"}),
  AddColumns("cognition.project", {"macro_config"}) >>
Down_194838aa0431 == <<
  DropColumns("cognition.project", {"macro_config"}),
  DropTable("cognition.macro_execution_link", {"other_id", "execution_node_id", "execution_id"}),
  DropTable("cognition.macro_edge", {"to_node_id", "macro_id", "from_node_id", "created_by"}),
  DropTable("cognition.macro_node", {"macro_id", "created_by"}),
  DropTable("cognition.macro_execution", {"macro_id", "execution_group_id", "created_by"}),
  DropTable("cognition.macro", {"scope", "project_id", "organization_id", "created_by"}) >>
\* ensured user cascade behaviour.
Up_706d5611a73e == <<
  DropKey("admin_message", "archived_by"), DropKey("admin_message", "created_by"),
  AddKey("admin_message", Loose("archived_by", "user")),
  AddKey("admin_message", Loose("created_by", "user")), DropKey("agreement", "user_id"),
  AddKey("agreement", Loose("user_id", "user")), DropKey("comment_data", "created_by"),
  AddKey("comment_data", Loose("created_by", "user")), DropKey("data_slice", "created_by"),
  AddKey("data_slice", Loose("created_by", "user")), DropKey("embedding", "created_by"),
  AddKey("embedding", Loose("created_by", "user")), DropKey("information_source", "created_by"),
  AddKey("information_source", Loose("created_by", "user")),
  DropKey("labeling_access_link", "created_by"),
  AddKey("labeling_access_link", Loose("created_by", "user")),
  DropKey("labeling_task_label", "created_by"),
  AddKey("labeling_task_label", Loose("created_by", "user")), DropKey("project", "created_by"),
  AddKey("project", Loose("created_by", "user")), DropKey("record_label_association", "created_by"),
  AddKey("record_label_association", Loose("created_by", "user")),
  AddIndex("task_queue", {"created_by"}), DropKey("task_queue", "created_by"),
  AddKey("task_queue", Loose("created_by", "user")), DropKey("upload_task", "user_id"),
  AddKey("upload_task", Loose("user_id", "user")),
  AddIndex("cognition.macro_execution", {"organization_id"}),
  AddIndex("cognition.macro_execution_link", {"organization_id"}) >>
Down_706d5611a73e == <<
  DropIndex("cognition.macro_execution_link", {"organization_id"}),
  DropIndex("cognition.macro_execution", {"organization_id"}), DropKey("upload_task", Unnamed),
  AddKey("upload_task", Owned("user_id", "user")), DropKey("task_queue", Unnamed),
  AddKey("task_queue", Firm("created_by", "user")), DropIndex("task_queue", {"created_by"}),
  DropKey("record_label_association", Unnamed),
  AddKey("record_label_association", Owned("created_by", "user")), DropKey("project", Unnamed),
  AddKey("project", Owned("created_by", "user")), DropKey("labeling_task_label", Unnamed),
  AddKey("labeling_task_label", Owned("created_by", "user")),
  DropKey("labeling_access_link", Unnamed),
  AddKey("labeling_access_link", Owned("created_by", "user")),
  DropKey("information_source", Unnamed), AddKey("information_source", Owned("created_by", "user")),
  DropKey("embedding", Unnamed), AddKey("embedding", Owned("created_by", "user")),
  DropKey("data_slice", Unnamed), AddKey("data_slice", Owned("created_by", "user")),
  DropKey("comment_data", Unnamed), AddKey("comment_data", Firm("created_by", "user")),
  DropKey("agreement", Unnamed), AddKey("agreement", Owned("user_id", "user")),
  DropKey("admin_message", Unnamed), DropKey("admin_message", Unnamed),
  AddKey("admin_message", Firm("created_by", "user")),
  AddKey("admin_message", Firm("archived_by", "user")) >>
\* adds max folder size.
Up_6f13fbbdf3fa == << AddColumns("cognition.project", {"max_folder_size_mb"}) >>
Down_6f13fbbdf3fa == << DropColumns("cognition.project", {"max_folder_size_mb"}) >>
\* Rename and moving env var.
Up_0d587af700ce == <<
  AddColumns("cognition.markdown_dataset", {"llm_config"}),
  Copy("cognition.markdown_dataset", "environment_variable_id", "llm_config"),
  DropIndex("cognition.markdown_dataset", {"environment_variable_id"}),
  DropKey("cognition.markdown_dataset", "environment_variable_id"),
  DropColumns("cognition.markdown_dataset", {"environment_variable_id"}),
  AddColumns("cognition.project", {"llm_config"}),
  Copy("cognition.project", "open_ai_env_var_id", "llm_config"),
  DropIndex("cognition.project", {"open_ai_env_var_id"}),
  DropKey("cognition.project", "open_ai_env_var_id"),
  DropColumns("cognition.project", {"open_ai_env_var_id"}),
  AddColumns("cognition.project", {"tokenizer"}),
  AddColumns("cognition.markdown_file", {"meta_data"}) >>
Down_0d587af700ce == <<
  AddColumns("cognition.project", {"open_ai_env_var_id"}),
  Copy("cognition.project", "llm_config", "open_ai_env_var_id"),
  AddKey("cognition.project", Loose("open_ai_env_var_id", "cognition.environment_variable")),
  AddIndex("cognition.project", {"open_ai_env_var_id"}),
  DropColumns("cognition.project", {"llm_config"}),
  AddColumns("cognition.markdown_dataset", {"environment_variable_id"}),
  Copy("cognition.markdown_dataset", "llm_config", "environment_variable_id"),
  AddKey("cognition.markdown_dataset", Loose("environment_variable_id",
    "cognition.environment_variable")),
  AddIndex("cognition.markdown_dataset", {"environment_variable_id"}),
  DropColumns("cognition.markdown_dataset", {"llm_config"}),
  DropColumns("cognition.project", {"tokenizer"}),
  DropColumns("cognition.markdown_file", {"meta_data"}) >>
\* New Customer Button Table.
Up_37d138040614 == <<
  Indexed("global.customer_button", {Loose("created_by", "user"), Owned("organization_id",
    "organization")}) >>
Down_37d138040614 == << DropTable("global.customer_button", {"organization_id", "created_by"}) >>
\* rework task queue.
Up_881102ae15f8 == <<
  Indexed("global.task_queue", {Loose("created_by", "user"), Owned("organization_id",
    "organization")}),
  DropTable("task_queue", {"created_by"}) >>
Down_881102ae15f8 == <<
  Table("task_queue", {Loose("created_by", "user"), Owned("project_id", "project")},
    {"created_by"}),
  DropTable("global.task_queue", {"organization_id", "created_by"}) >>
\* add macro execution summary.
Up_b7b9f7de1013 == <<
  Table("cognition.macro_execution_summary", {Owned("organization_id", "organization")},
    {"creation_month", "organization_id"}) >>
Down_b7b9f7de1013 == <<
  DropTable("cognition.macro_execution_summary", {"organization_id", "creation_month"}) >>
\* Adds smart routing.
Up_3e59ce51739c == <<
  Indexed("cognition.strategy_requirement", {Loose("created_by", "user"), Owned("project_id",
    "cognition.project"), Owned("strategy_id", "cognition.strategy")}),
  Indexed("cognition.strategy_requirement_mapping_option", {Loose("created_by", "user"),
    Owned("project_id", "cognition.project"), Owned("strategy_requirement_id",
    "cognition.strategy_requirement")}),
  AddColumns("cognition.pipeline_logs", {"iteration_number"}),
  AddColumns("cognition.project", {"operator_routing_config"}),
  Copy("cognition.project", "operator_routing_source_code", "operator_routing_config"),
  DropColumns("cognition.project", {"operator_routing_source_code"}) >>
Down_3e59ce51739c == <<
  AddColumns("cognition.project", {"operator_routing_source_code"}),
  Copy("cognition.project", "operator_routing_config", "operator_routing_source_code"),
  DropColumns("cognition.project", {"operator_routing_config"}),
  DropColumns("cognition.pipeline_logs", {"iteration_number"}),
  DropTable("cognition.strategy_requirement_mapping_option", {"strategy_requirement_id",
    "project_id", "created_by"}),
  DropTable("cognition.strategy_requirement", {"strategy_id", "project_id", "created_by"}) >>
\* Remove refinery token table.
Up_414c990688f3 == <<
  DropTable("personal_access_token", {"project_id", "user_id"}),
  DropIndex("cognition.project", {"refinery_question_project_id", "refinery_references_project_id",
    "refinery_relevance_project_id"}),
  DropKey("cognition.project", "refinery_references_project_id"),
  DropKey("cognition.project", "refinery_question_project_id"),
  DropKey("cognition.project", "refinery_relevance_project_id"),
  DropColumns("cognition.project", {"refinery_references_project_id",
    "refinery_synchronization_interval_option", "refinery_question_project_id",
    "refinery_relevance_project_id", "execute_query_enrichment_if_source_code"}),
  DropTable("cognition.refinery_synchronization_task", {"cognition_project_id", "created_by",
    "refinery_project_id"}) >>
Down_414c990688f3 == <<
  Indexed("personal_access_token", {Owned("project_id", "project"), Owned("user_id", "user")}),
  AddColumns("cognition.project", {"execute_query_enrichment_if_source_code",
    "refinery_relevance_project_id", "refinery_question_project_id",
    "refinery_synchronization_interval_option", "refinery_references_project_id"}),
  AddKey("cognition.project", Loose("refinery_relevance_project_id", "project")),
  AddKey("cognition.project", Loose("refinery_question_project_id", "project")),
  AddKey("cognition.project", Loose("refinery_references_project_id", "project")),
  AddIndex("cognition.project", {"refinery_relevance_project_id", "refinery_references_project_id",
    "refinery_question_project_id"}),
  Indexed("cognition.refinery_synchronization_task", {Owned("cognition_project_id",
    "cognition.project"), Owned("created_by", "user"), Owned("refinery_project_id", "project")}) >>
\* Added order number for strategies.
Up_1118c7327b96 == << AddColumns("cognition.strategy", {"order"}) >>
Down_1118c7327b96 == << DropColumns("cognition.strategy", {"order"}) >>
\* add file caching.
Up_11675e102ac4 == <<
  Table("cognition.file_reference", {Loose("created_by", "user"), Owned("organization_id",
    "organization")}, {"created_by", "hash", "organization_id"}),
  Indexed("cognition.file_extraction", {Loose("created_by", "user"), Owned("file_reference_id",
    "cognition.file_reference"), Owned("organization_id", "organization")}),
  Indexed("cognition.file_transformation", {Loose("created_by", "user"), Owned("file_extraction_id",
    "cognition.file_extraction"), Owned("organization_id", "organization")}) >>
Down_11675e102ac4 == <<
  DropTable("cognition.file_transformation", {"organization_id", "file_extraction_id",
    "created_by"}),
  DropTable("cognition.file_extraction", {"organization_id", "file_reference_id", "created_by"}),
  DropTable("cognition.file_reference", {"organization_id", "hash", "created_by"}) >>
\* add.
Up_c626887031f6 == << AddColumns("cognition.file_reference", {"last_used"}) >>
Down_c626887031f6 == << DropColumns("cognition.file_reference", {"last_used"}) >>
\* rename llm logs.
Up_f8c313f63a36 == <<
  Indexed("cognition.file_transformation_llm_logs", {Owned("file_transformation_id",
    "cognition.file_transformation")}),
  DropTable("cognition.markdown_llm_logs", {"markdown_file_id"}) >>
Down_f8c313f63a36 == <<
  Indexed("cognition.markdown_llm_logs", {Owned("markdown_file_id", "cognition.markdown_file")}),
  DropTable("cognition.file_transformation_llm_logs", {"file_transformation_id"}) >>

\* Revision n of the chain; version 0 is the empty database.
Revisions == <<
  [up |-> Up_992352f4c1f9, down |-> Down_992352f4c1f9],
  [up |-> Up_5b3a4deea1c4, down |-> Down_5b3a4deea1c4],
  [up |-> Up_9618924f9679, down |-> Down_9618924f9679],
  [up |-> Up_87f463aa5112, down |-> Down_87f463aa5112],
  [up |-> Up_09311360f8b9, down |-> Down_09311360f8b9],
  [up |-> Up_f803a0c4343c, down |-> Down_f803a0c4343c],
  [up |-> Up_da902ad27b4a, down |-> Down_da902ad27b4a],
  [up |-> Up_0e0e4aeac7eb, down |-> Down_0e0e4aeac7eb],
  [up |-> Up_a5c341d1a7ef, down |-> Down_a5c341d1a7ef],
  [up |-> Up_3b118e1e02cb, down |-> Down_3b118e1e02cb],
  [up |-> Up_546e5cd7feaa, down |-> Down_546e5cd7feaa],
  [up |-> Up_bb87177d46b5, down |-> Down_bb87177d46b5],
  [up |-> Up_03d19eada266, down |-> Down_03d19eada266],
  [up |-> Up_1a25c862801f, down |-> Down_1a25c862801f],
  [up |-> Up_217dbe11c5d1, down |-> Down_217dbe11c5d1],
  [up |-> Up_73798599a917, down |-> Down_73798599a917],
  [up |-> Up_0714589d508e, down |-> Down_0714589d508e],
  [up |-> Up_53c561be097d, down |-> Down_53c561be097d],
  [up |-> Up_491ea68a7baf, down |-> Down_491ea68a7baf],
  [up |-> Up_3d0e01981f06, down |-> Down_3d0e01981f06],
  [up |-> Up_f6bca8990840, down |-> Down_f6bca8990840],
  [up |-> Up_6b7c123b3e52, down |-> Down_6b7c123b3e52],
  [up |-> Up_7de3c19cddcf, down |-> Down_7de3c19cddcf],
  [up |-> Up_754dd15f2c9c, down |-> Down_754dd15f2c9c],
  [up |-> Up_4861b97fcd5d, down |-> Down_4861b97fcd5d],
  [up |-> Up_889ef4df126f, down |-> Down_889ef4df126f],
  [up |-> Up_7edb03b88c03, down |-> Down_7edb03b88c03],
  [up |-> Up_63364f1fe61d, down |-> Down_63364f1fe61d],
  [up |-> Up_a14f1a9b12b0, down |-> Down_a14f1a9b12b0],
  [up |-> Up_194838aa0431, down |-> Down_194838aa0431],
  [up |-> Up_706d5611a73e, down |-> Down_706d5611a73e],
  [up |-> Up_6f13fbbdf3fa, down |-> Down_6f13fbbdf3fa],
  [up |-> Up_0d587af700ce, down |-> Down_0d587af700ce],
  [up |-> Up_37d138040614, down |-> Down_37d138040614],
  [up |-> Up_881102ae15f8, down |-> Down_881102ae15f8],
  [up |-> Up_b7b9f7de1013, down |-> Down_b7b9f7de1013],
  [up |-> Up_3e59ce51739c, down |-> Down_3e59ce51739c],
  [up |-> Up_414c990688f3, down |-> Down_414c990688f3],
  [up |-> Up_1118c7327b96, down |-> Down_1118c7327b96],
  [up |-> Up_11675e102ac4, down |-> Down_11675e102ac4],
  [up |-> Up_c626887031f6, down |-> Down_c626887031f6],
  [up |-> Up_f8c313f63a36, down |-> Down_f8c313f63a36] >>
==============================================================================
