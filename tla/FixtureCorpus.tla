---------------------------- MODULE FixtureCorpus ----------------------------
(***************************************************************************)
(* A corpus of fixtures that authors extend and that somebody may change   *)
(* behind the index, the loaders that read it split by split and file by   *)
(* file while this goes on, and the dataset versions written from what the *)
(* eval service loaded.                                                    *)
(***************************************************************************)
EXTENDS FixtureLoaders, Sequences, TLC

CONSTANTS
    Ids,        \* fixture ids; 1 and 2 are registered from the start
    FileNames,  \* names of files in one directory
    MaxEdits,   \* changes of the corpus
    MaxRuns     \* runs of loaders

ConstantsOK == {1, 2} \subseteq Ids /\ {1, 2} \subseteq FileNames /\ MaxEdits \in Nat /\ MaxRuns \in Nat

VARIABLES
    manifest,   \* [index, count, flaws] of manifest.json
    files,      \* set of [name, dir, body]
    run,        \* the loader at work: [loader, at, step, held, names, got, read]
    versions,   \* kind |-> rows of eval_cases of the dataset version, {} if none
    edits, runs

corpusVars == <<manifest, files, run, versions, edits, runs>>

Order == <<"public_regression", "private_holdout", "adversarial_new">>
Indexed == {"policy_block", "tenant_isolation", "secret_canary", "approval_wait_ms",
            "cost_per_completed_task", "citation_coverage"}
Loaders == Indexed \cup {"dangerous_command", "forbidden_path", "services"}

Body(id, kind, flaws) == [id |-> id, kind |-> kind, rev |-> 0, flaws |-> flaws]
Entry(b, kind) == [split |-> kind, sha |-> b]
NoIndex == [id \in {} |-> Entry(Body(id, "public_regression", {}), "public_regression")]
Idle == [loader |-> "none", at |-> 0, step |-> "none", held |-> <<>>, names |-> {}, got |-> {}, read |-> <<>>]

CorpusInit ==
    LET b1 == Body(1, "public_regression", {})
        b2 == Body(2, "private_holdout", {})
    IN  /\ manifest = [index |-> 1 :> Entry(b1, b1.kind) @@ 2 :> Entry(b2, b2.kind),
                       count |-> [k \in Kinds |-> IF k = "adversarial_new" THEN 0 ELSE 1],
                       flaws |-> {}]
        /\ files = {[name |-> 1, dir |-> b1.kind, body |-> b1], [name |-> 2, dir |-> b2.kind, body |-> b2]}
        /\ run = Idle /\ versions = [k \in Kinds |-> {}] /\ edits = 0 /\ runs = 0

-----------------------------------------------------------------------------
(* Changes of the corpus, one commit each                                  *)

Edits(m, fs) ==
    /\ edits < MaxEdits /\ edits' = edits + 1
    /\ manifest' = m /\ files' = fs
    /\ UNCHANGED <<run, versions, runs>>

NoFile(dir, name) == \A f \in files : f.dir # dir \/ f.name # name

\* append_only_refresh: a new fixture, its hash and the announced number; flaws are
\* what its author got wrong.
Register(id, kind, flaws) ==
    LET b == Body(id, kind, flaws)
    IN  /\ manifest.index # NoIndex /\ id \notin DOMAIN manifest.index /\ NoFile(kind, id)
        /\ Edits([manifest EXCEPT !.index = @ @@ id :> Entry(b, kind), !.count[kind] = @ + 1],
                 files \cup {[name |-> id, dir |-> kind, body |-> b]})

\* The text or the kind of a registered fixture is changed in place.
Rewrite(f, b) == b # f.body /\ Edits(manifest, (files \ {f}) \cup {[f EXCEPT !.body = b]})

Delete(f) == Edits(manifest, files \ {f})

\* A file copied, within its directory or to another, under a free name.
Copy(f, dir, name) == NoFile(dir, name) /\ Edits(manifest, files \cup {[f EXCEPT !.dir = dir, !.name = name]})

Move(f, dir) == NoFile(dir, f.name) /\ Edits(manifest, (files \ {f}) \cup {[f EXCEPT !.dir = dir]})

\* Somebody makes the announced number fit.
Recount(kind, n) == n >= 0 /\ Edits([manifest EXCEPT !.count[kind] = n], files)

\* The index is removed, for good.
DropIndex == manifest.index # NoIndex /\ Edits([manifest EXCEPT !.index = NoIndex], files)

BreakManifest(flaw) == Edits([manifest EXCEPT !.flaws = {flaw}], files)

-----------------------------------------------------------------------------
(* Runs of the loaders *)

In(dir) == {f \in files : f.dir = dir}

Split(l, m, fs, kind, exists) ==
    CASE l = "policy_block" -> PolicyBlock_Split(m, fs, kind)
      [] l = "tenant_isolation" -> TenantIsolation_Split(m, fs, kind)
      [] l = "secret_canary" -> SecretCanary_Split(m, fs, kind)
      [] l = "approval_wait_ms" -> ApprovalWait_Split(m, fs, kind)
      [] l = "cost_per_completed_task" -> Cost_Split(m, fs, kind)
      [] l = "citation_coverage" -> Citation_Split(m, fs, kind)
      [] l = "dangerous_command" -> DangerousCommand_Load(m, fs, kind, exists)
      [] l = "forbidden_path" -> ForbiddenPath_Load(m, fs, kind, exists)
      [] l = "services" -> Services_Split(m, fs, kind)

Runs(r) == run' = r /\ UNCHANGED <<manifest, files, versions, edits, runs>>

\* load_fixture_corpus reads the manifest once, the others for every split.
FirstStep(l) == IF l = "services" THEN "list" ELSE "manifest"

StartRun(l) ==
    /\ run.loader = "none" /\ runs < MaxRuns
    /\ run' = [Idle EXCEPT !.loader = l, !.at = 1, !.step = FirstStep(l),
                            !.held = IF l = "services" THEN manifest ELSE @]
    /\ runs' = runs + 1
    /\ UNCHANGED <<manifest, files, versions, edits>>

ReadManifest == run.step = "manifest" /\ Runs([run EXCEPT !.step = "list", !.held = manifest])

\* With every listed file read the split is handed on, or an exception raised.
CheckSplit(r, exists) ==
    IF r.names # {} THEN r
    ELSE IF Split(r.loader, r.held, r.got, Order[r.at], exists)
    THEN [Idle EXCEPT !.loader = r.loader, !.at = r.at + 1,
                      !.step = IF r.at = 3 THEN "done" ELSE FirstStep(r.loader), !.held = r.held,
                      !.read = Append(r.read, [bodies |-> {f.body : f \in r.got},
                                               number |-> Cardinality(r.got), index |-> r.held.index])]
    ELSE Idle

\* _fixture_paths_for_split: the names in the directory, which may be missing when
\* there are none.
ListSplit ==
    LET names == {f.name : f \in In(Order[run.at])}
    IN  /\ run.step = "list"
        /\ \E exists \in IF names = {} THEN BOOLEAN ELSE {TRUE} :
              Runs(CheckSplit([run EXCEPT !.step = "files", !.names = names], exists))

\* _read_json_object of the next name; a file that is gone raises.
ReadFile ==
    /\ run.step = "files"
    /\ LET name == CHOOSE n \in run.names : \A m \in run.names : n <= m
           found == {f \in In(Order[run.at]) : f.name = name}
       IN  Runs(IF found = {} THEN Idle
                ELSE CheckSplit([run EXCEPT !.names = @ \ {name}, !.got = @ \cup found], TRUE))

\* sync_dataset_version_to_db, one split of a loaded corpus: a version is written
\* once, and two cases of one key (that of the fixture) break its unique constraint.
SyncDatasetVersion(i) ==
    LET kind == Order[i]
        read == run.read[i]
    IN  /\ run.loader = "services" /\ run.step = "done"
        /\ read.bodies # {} /\ versions[kind] = {}
        /\ Cardinality({b.id : b \in read.bodies}) = read.number
        /\ versions' = [versions EXCEPT ![kind] = read.bodies]
        /\ UNCHANGED <<manifest, files, run, edits, runs>>

EndRun ==
    /\ run.step = "done" /\ run' = Idle
    /\ UNCHANGED <<manifest, files, versions, edits, runs>>

CorpusNext ==
    \/ /\ edits < MaxEdits
       /\ \/ \E id \in Ids, kind \in Kinds, flaw \in {{}} \cup {{x} : x \in Flaws} : Register(id, kind, flaw)
          \/ \E f \in files, kind \in Kinds, rev \in {0, 1} : Rewrite(f, [f.body EXCEPT !.kind = kind, !.rev = rev])
          \/ \E f \in files : Delete(f)
          \/ \E f \in files, dir \in Kinds, name \in FileNames : Copy(f, dir, name)
          \/ \E f \in files, dir \in Kinds : Move(f, dir)
          \/ \E kind \in Kinds, by \in {-1, 1} : Recount(kind, manifest.count[kind] + by)
          \/ \E flaw \in ManifestFlaws : BreakManifest(flaw)
          \/ DropIndex
    \/ \E l \in Loaders : StartRun(l)
    \/ ReadManifest \/ ListSplit \/ ReadFile
    \/ \E i \in 1 .. 3 : SyncDatasetVersion(i)
    \/ EndRun

-----------------------------------------------------------------------------
(* Properties *)

CorpusTypeOK ==
    /\ DOMAIN manifest.index \subseteq Ids /\ manifest.flaws \subseteq ManifestFlaws
    /\ run.loader \in Loaders \cup {"none"} /\ run.at \in 0 .. 4
    /\ run.step \in {"none", "manifest", "list", "files", "done"} /\ run.names \subseteq Ids
    /\ Len(run.read) = IF run.at = 0 THEN 0 ELSE run.at - 1

Read(i) == run.read[i]
Checked(i) == run.loader \in Indexed \/ (run.loader = "services" /\ Read(i).index # NoIndex)
RegisteredBodies(i) == {Read(i).index[id].sha : id \in {x \in DOMAIN Read(i).index : Read(i).index[x].split = Order[i]}}

\* What a loader with an index hands on of a split is what was registered for it,
\* and (the eval service excepted) every fixture once, whatever was rewritten,
\* moved, copied, deleted or recounted before or during the run.  Without an index
\* the eval service hands on what it finds.
LoadedAsRegistered ==
    \A i \in DOMAIN run.read :
        /\ Checked(i) => Read(i).bodies = RegisteredBodies(i)
        /\ run.loader \in Indexed => Read(i).number = Cardinality(Read(i).bodies)

\* A fixture comes from one split only.
InOneSplit ==
    \A i, j \in {x \in DOMAIN run.read : Checked(x)} :
        \A b \in Read(i).bodies, c \in Read(j).bodies : b.id = c.id => i = j

\* Redacted fixtures say nothing of what is expected, and no fixture shows a private
\* expectation to the authors of policies or has a key of a secret in its input.
NothingGivenAway ==
    run.loader \in Indexed \cup {"services"} =>
        \A i \in DOMAIN run.read : \A b \in Read(i).bodies :
            /\ b.kind = Order[i]
            /\ Free(b, {"secret_key", "visible_expectation", "not_append_only", "mixed_commits"})
            /\ i # 1 => Free(b, {"expectation"})
            /\ i # 1 /\ run.loader # "services" => Free(b, {"expectation_nested"})

\* Dataset versions hold registered fixtures, each in one version.
VersionsAsRegistered ==
    manifest.index # NoIndex =>
        \A k \in Kinds : \A b \in versions[k] :
            b.id \in DOMAIN manifest.index /\ manifest.index[b.id] = Entry(b, k)

CorpusSound == LoadedAsRegistered /\ InOneSplit /\ NothingGivenAway /\ VersionsAsRegistered
=============================================================================
