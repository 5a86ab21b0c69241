--------------------------- MODULE FixtureLoaders ---------------------------
(***************************************************************************)
(* The fixture loaders of eval/ and of services/eval/loader.py.  A corpus  *)
(* is a manifest, with an index that gives every fixture its hash and its  *)
(* split, and one directory of JSON files per split.  A loader either      *)
(* returns the fixtures of a split or raises; which message it raises with *)
(* is left out, so the checks of one function form one condition.          *)
(*                                                                         *)
(* A fixture's body is [id, kind, rev, flaws]: rev tells two texts apart,  *)
(* flaws are the things a check may object to.  The hash of a body is the  *)
(* body (SHA-256 taken as injective).                                      *)
(***************************************************************************)
EXTENDS Integers, FiniteSets

Kinds == {"public_regression", "private_holdout", "adversarial_new"}

\* What can be wrong with the JSON of a fixture.  "secret_key" and "secret_value"
\* sit in its metadata or input, the "_elsewhere" ones outside of both.
Flaws == {"json", "field", "gate", "metric", "version", "missing_key", "unknown_key",
          "expectation", "expectation_nested", "secret_key", "secret_key_elsewhere", "secret_value",
          "secret_value_elsewhere", "schema", "contract", "aggregate", "threshold",
          "visible_expectation", "not_append_only", "mixed_commits"}

\* What can be wrong with the rest of a manifest.
ManifestFlaws == {"json", "gate", "metric", "splits", "rules", "version", "index_entry",
                  "expectation", "secret_key", "secret_value", "threshold", "rule_off",
                  "schema_file", "path"}

Free(b, flaws) == b.flaws \cap flaws = {}

-----------------------------------------------------------------------------
(* Steps that all loaders share, in the copy of policy_block/loader.py     *)

\* _read_json_object and the coercions: strict JSON, fields of their types, the
\* loader's own gate and metric, the manifest's dataset version.
PolicyBlock_Reads(b) == Free(b, {"json", "field", "gate", "metric", "version"})

\* Keys of secrets are searched in metadata and input, at every depth.
PolicyBlock_Leaks(b) == Free(b, {"secret_key"})

Registered(m, kind) == {i \in DOMAIN m.index : m.index[i].split = kind}

\* The index: every file registered, in this split, with this hash; no entry
\* without its file; as many entries as the manifest announces.
PolicyBlock_Index_AnyHash(m, fs, kind) ==
    /\ \A f \in fs : f.body.id \in DOMAIN m.index /\ m.index[f.body.id].split = kind
    /\ Registered(m, kind) \subseteq {f.body.id : f \in fs}
    /\ Cardinality(Registered(m, kind)) = m.count[kind]

PolicyBlock_Index(m, fs, kind) ==
    /\ \A f \in fs : /\ f.body.id \in DOMAIN m.index
                     /\ m.index[f.body.id] = [split |-> kind, sha |-> f.body]
    /\ Registered(m, kind) \subseteq {f.body.id : f \in fs}
    /\ Cardinality(Registered(m, kind)) = m.count[kind]

\* The announced number of files, in the split's own directory under the corpus,
\* public ones valid by the corpus's schema.
PolicyBlock_Files(m, fs, kind) ==
    /\ "path" \notin m.flaws
    /\ Cardinality(fs) = m.count[kind]
    /\ kind = "public_regression" => \A f \in fs : Free(f.body, {"schema"})

PolicyBlock_Public(b) ==
    /\ b.kind = "public_regression" /\ Free(b, {"missing_key"})
    /\ PolicyBlock_Reads(b) /\ PolicyBlock_Leaks(b)

\* A redacted fixture says nothing of what is expected, at any depth, and has no
\* key beyond the allowed ones.
PolicyBlock_Redacted(b, kind) ==
    /\ b.kind = kind /\ Free(b, {"expectation", "expectation_nested", "unknown_key", "missing_key"})
    /\ PolicyBlock_Reads(b) /\ PolicyBlock_Leaks(b)

\* _load_public_split and _load_redacted_split.
PolicyBlock_Load(m, fs, kind) ==
    /\ PolicyBlock_Files(m, fs, kind)
    /\ \A f \in fs : IF kind = "public_regression" THEN PolicyBlock_Public(f.body)
                                                   ELSE PolicyBlock_Redacted(f.body, kind)
    /\ PolicyBlock_Index(m, fs, kind)

\* load_manifest and load_expected_schema: the schema is read for public splits.
PolicyBlock_Manifest(m, kind) ==
    /\ Free(m, {"json", "gate", "metric", "splits", "rules", "version", "index_entry",
                "expectation", "secret_key"})
    /\ kind = "public_regression" => Free(m, {"schema_file"})

\* assert_anti_gaming_invariants, over what was just loaded.
PolicyBlock_AntiGaming(m, fs) ==
    /\ Free(m, {"rule_off"})
    /\ \A f \in fs : /\ Free(f.body, {"version", "gate", "metric", "secret_key",
                                      "visible_expectation", "not_append_only", "mixed_commits"})
                     /\ f.body.kind # "public_regression" => Free(f.body, {"expectation_nested"})

\* load_public_regression_fixtures and load_redacted_fixtures: each reads the manifest anew.
PolicyBlock_Split(m, fs, kind) ==
    /\ PolicyBlock_Manifest(m, kind)
    /\ PolicyBlock_Load(m, fs, kind)
    /\ PolicyBlock_AntiGaming(m, fs)

-----------------------------------------------------------------------------
(* tenant_isolation/loader.py: the same checks on other expectations       *)

TenantIsolation_Reads(b) == PolicyBlock_Reads(b)
TenantIsolation_Leaks(b) == PolicyBlock_Leaks(b)
TenantIsolation_Index(m, fs, kind) == PolicyBlock_Index(m, fs, kind)
TenantIsolation_Files(m, fs, kind) == PolicyBlock_Files(m, fs, kind)

TenantIsolation_Public(b) ==
    /\ b.kind = "public_regression" /\ Free(b, {"missing_key"})
    /\ TenantIsolation_Reads(b) /\ TenantIsolation_Leaks(b)

TenantIsolation_Redacted(b, kind) ==
    /\ b.kind = kind /\ Free(b, {"expectation", "expectation_nested", "unknown_key", "missing_key"})
    /\ TenantIsolation_Reads(b) /\ TenantIsolation_Leaks(b)

TenantIsolation_Load(m, fs, kind) ==
    /\ TenantIsolation_Files(m, fs, kind)
    /\ \A f \in fs : IF kind = "public_regression" THEN TenantIsolation_Public(f.body)
                                                   ELSE TenantIsolation_Redacted(f.body, kind)
    /\ TenantIsolation_Index(m, fs, kind)

TenantIsolation_Manifest(m, kind) == PolicyBlock_Manifest(m, kind)
TenantIsolation_AntiGaming(m, fs) == PolicyBlock_AntiGaming(m, fs)

TenantIsolation_Split(m, fs, kind) ==
    /\ TenantIsolation_Manifest(m, kind)
    /\ TenantIsolation_Load(m, fs, kind)
    /\ TenantIsolation_AntiGaming(m, fs)

-----------------------------------------------------------------------------
(* secret_canary/loader.py: no secret key or value anywhere                *)

SecretCanary_Reads(b) == PolicyBlock_Reads(b)

\* Keys and values, in the whole fixture.
SecretCanary_Leaks(b) ==
    Free(b, {"secret_key", "secret_key_elsewhere", "secret_value", "secret_value_elsewhere"})

SecretCanary_Index(m, fs, kind) == PolicyBlock_Index(m, fs, kind)
SecretCanary_Files(m, fs, kind) == PolicyBlock_Files(m, fs, kind)

\* Expected audit events and, for every surface, the redaction, agree with the
\* expected pattern hit ("contract").
SecretCanary_Contract(b) == Free(b, {"contract"})

SecretCanary_Public(b) ==
    /\ b.kind = "public_regression" /\ Free(b, {"unknown_key", "missing_key"})
    /\ SecretCanary_Leaks(b) /\ SecretCanary_Reads(b) /\ SecretCanary_Contract(b)

SecretCanary_Redacted(b, kind) ==
    /\ b.kind = kind /\ Free(b, {"expectation", "expectation_nested", "unknown_key", "missing_key"})
    /\ SecretCanary_Leaks(b) /\ SecretCanary_Reads(b)

SecretCanary_Load(m, fs, kind) ==
    /\ SecretCanary_Files(m, fs, kind)
    /\ \A f \in fs : IF kind = "public_regression" THEN SecretCanary_Public(f.body)
                                                   ELSE SecretCanary_Redacted(f.body, kind)
    /\ SecretCanary_Index(m, fs, kind)

SecretCanary_Manifest(m, kind) == PolicyBlock_Manifest(m, kind) /\ Free(m, {"secret_value"})

\* Re-checks the attributes it kept: the secrets of an assertion are not among them.
SecretCanary_AntiGaming(m, fs) ==
    /\ PolicyBlock_AntiGaming(m, fs)
    /\ \A f \in fs : Free(f.body, {"secret_value"})

SecretCanary_Split(m, fs, kind) ==
    /\ SecretCanary_Manifest(m, kind)
    /\ SecretCanary_Load(m, fs, kind)
    /\ SecretCanary_AntiGaming(m, fs)

-----------------------------------------------------------------------------
(* approval_wait_ms/loader.py                                              *)

ApprovalWait_Reads(b) == PolicyBlock_Reads(b)
ApprovalWait_Leaks(b) == PolicyBlock_Leaks(b)

\* The expected aggregate is recomputed from the fixture's sample approvals.
ApprovalWait_Aggregate(b) == Free(b, {"aggregate"})

ApprovalWait_Index(m, fs, kind) == PolicyBlock_Index(m, fs, kind)
ApprovalWait_Files(m, fs, kind) == PolicyBlock_Files(m, fs, kind)

ApprovalWait_Public(b) ==
    /\ b.kind = "public_regression" /\ Free(b, {"missing_key"})
    /\ ApprovalWait_Reads(b) /\ ApprovalWait_Leaks(b) /\ ApprovalWait_Aggregate(b)

ApprovalWait_Redacted(b, kind) ==
    /\ b.kind = kind /\ Free(b, {"expectation", "expectation_nested", "unknown_key", "missing_key"})
    /\ ApprovalWait_Reads(b) /\ ApprovalWait_Leaks(b)

ApprovalWait_Load(m, fs, kind) ==
    /\ ApprovalWait_Files(m, fs, kind)
    /\ \A f \in fs : IF kind = "public_regression" THEN ApprovalWait_Public(f.body)
                                                   ELSE ApprovalWait_Redacted(f.body, kind)
    /\ ApprovalWait_Index(m, fs, kind)

ApprovalWait_Manifest(m, kind) == PolicyBlock_Manifest(m, kind)
ApprovalWait_AntiGaming(m, fs) == PolicyBlock_AntiGaming(m, fs)

ApprovalWait_Split(m, fs, kind) ==
    /\ ApprovalWait_Manifest(m, kind)
    /\ ApprovalWait_Load(m, fs, kind)
    /\ ApprovalWait_AntiGaming(m, fs)

-----------------------------------------------------------------------------
(* cost_per_completed_task/loader.py                                       *)

Cost_Reads(b) == PolicyBlock_Reads(b)

\* Values in the whole fixture, keys in metadata and input.
Cost_Leaks(b) == Free(b, {"secret_key", "secret_value", "secret_value_elsewhere"})

\* Recomputed from the sample runs, in decimals rounded half up.
Cost_Aggregate(b) == Free(b, {"aggregate"})

Cost_Index(m, fs, kind) == PolicyBlock_Index(m, fs, kind)
Cost_Files(m, fs, kind) == PolicyBlock_Files(m, fs, kind)

Cost_Public(b) ==
    /\ b.kind = "public_regression" /\ Free(b, {"missing_key"})
    /\ Cost_Leaks(b) /\ Cost_Reads(b) /\ Cost_Aggregate(b)

Cost_Redacted(b, kind) ==
    /\ b.kind = kind /\ Free(b, {"expectation", "expectation_nested", "unknown_key", "missing_key"})
    /\ Cost_Leaks(b) /\ Cost_Reads(b)

Cost_Load(m, fs, kind) ==
    /\ Cost_Files(m, fs, kind)
    /\ \A f \in fs : IF kind = "public_regression" THEN Cost_Public(f.body)
                                                   ELSE Cost_Redacted(f.body, kind)
    /\ Cost_Index(m, fs, kind)

Cost_Manifest(m, kind) == PolicyBlock_Manifest(m, kind) /\ Free(m, {"secret_value", "threshold"})

Cost_AntiGaming(m, fs) ==
    PolicyBlock_AntiGaming(m, fs) /\ \A f \in fs : Free(f.body, {"secret_value"})

Cost_Split(m, fs, kind) ==
    /\ Cost_Manifest(m, kind)
    /\ Cost_Load(m, fs, kind)
    /\ Cost_AntiGaming(m, fs)

-----------------------------------------------------------------------------
(* citation_coverage/loader.py                                             *)

Citation_Reads(b) == PolicyBlock_Reads(b)
Citation_Leaks(b) == SecretCanary_Leaks(b)

\* Well-formed claims ("contract"), the threshold of the criterion, the recomputed ratio.
Citation_Aggregate(b) == Free(b, {"contract", "threshold", "aggregate"})

Citation_Index(m, fs, kind) == PolicyBlock_Index(m, fs, kind)
Citation_Files(m, fs, kind) == PolicyBlock_Files(m, fs, kind)

Citation_Public(b) ==
    /\ b.kind = "public_regression" /\ Free(b, {"unknown_key", "missing_key"})
    /\ Citation_Leaks(b) /\ Citation_Reads(b) /\ Citation_Aggregate(b)

Citation_Redacted(b, kind) ==
    /\ b.kind = kind /\ Free(b, {"expectation", "expectation_nested", "unknown_key", "missing_key"})
    /\ Citation_Leaks(b) /\ Citation_Reads(b)

Citation_Load(m, fs, kind) ==
    /\ Citation_Files(m, fs, kind)
    /\ \A f \in fs : IF kind = "public_regression" THEN Citation_Public(f.body)
                                                   ELSE Citation_Redacted(f.body, kind)
    /\ Citation_Index(m, fs, kind)

Citation_Manifest(m, kind) ==
    PolicyBlock_Manifest(m, kind) /\ Free(m, {"secret_value", "threshold"})

Citation_AntiGaming(m, fs) ==
    PolicyBlock_AntiGaming(m, fs) /\ \A f \in fs : Free(f.body, {"secret_value"})

Citation_Split(m, fs, kind) ==
    /\ Citation_Manifest(m, kind)
    /\ Citation_Load(m, fs, kind)
    /\ Citation_AntiGaming(m, fs)

-----------------------------------------------------------------------------
(* dangerous_command and forbidden_path: counted, valid by the schema, of   *)
(* the directory's kind; no index, no hash, and nothing to check without a  *)
(* directory                                                               *)

DangerousCommand_Load(m, fs, kind, exists) ==
    exists =>
    /\ Cardinality(fs) = m.count[kind]
    /\ \A f \in fs : f.body.kind = kind /\ Free(f.body, {"json", "schema", "missing_key"})

ForbiddenPath_Load(m, fs, kind, exists) ==
    exists =>
    /\ Cardinality(fs) = m.count[kind]
    /\ \A f \in fs : f.body.kind = kind /\ Free(f.body, {"json", "schema", "missing_key"})

-----------------------------------------------------------------------------
(* backend/app/services/eval/loader.py                                     *)

Services_Reads(b) == Free(b, {"json", "field"})

\* _scan_for_raw_secret: keys and values, in the whole fixture.
Services_Leaks(b) == SecretCanary_Leaks(b)

\* Manifest: no secrets, the three rules on, a version, a valid schema, well-formed
\* expectation keys, directories inside the corpus.
Services_Manifest(m) ==
    Free(m, {"json", "secret_key", "secret_value", "rule_off", "rules", "version",
             "schema_file", "expectation", "splits", "path", "index_entry"})

\* Validity by the schema: of the whole fixture, or of the input of a redacted one.
Services_Schema(b) == Free(b, {"schema"})

\* _fixture_from_raw: expectations of a redacted fixture are searched at the top.
Services_Fixture(b, kind) ==
    /\ b.kind = kind
    /\ Free(b, {"missing_key", "field", "version", "visible_expectation", "not_append_only",
                "mixed_commits"})
    /\ Services_Schema(b)
    /\ kind # "public_regression" => Free(b, {"expectation"})

\* _assert_immutable_index_entry and _assert_index_split_consistency.  Without an
\* index nothing is compared; its size is not compared with the announced number.
Services_Index(m, fs, kind) ==
    DOMAIN m.index # {} =>
        /\ \A f \in fs : /\ f.body.id \in DOMAIN m.index
                         /\ m.index[f.body.id] = [split |-> kind, sha |-> f.body]
        /\ Registered(m, kind) \subseteq {f.body.id : f \in fs}

\* The part of load_fixture_corpus about one split.
Services_Split(m, fs, kind) ==
    /\ Services_Manifest(m)
    /\ Cardinality(fs) = m.count[kind]
    /\ \A f \in fs : Services_Reads(f.body) /\ Services_Leaks(f.body) /\ Services_Fixture(f.body, kind)
    /\ Services_Index(m, fs, kind)
=============================================================================
