---------------------------- MODULE SignedApproval ----------------------------
(***************************************************************************)
(* Signed approvals of destructive host commands:                          *)
(* scripts/taskhub_approval_cli.py issues a record file signed with the    *)
(* decider's key, scripts/taskhub_signed_approval.py verifies it before    *)
(* every destructive subcommand of scripts/taskhub_admin.py.  An issuer    *)
(* may die with its file half written, a file may be edited or put under   *)
(* another id, and the verify key and its allowlist may change while a     *)
(* command is being checked.                                               *)
(*                                                                         *)
(* A claim stands for the arguments it binds (what), for whether its       *)
(* fields have the form the parser asks for, and for the fingerprint of    *)
(* the backup's runtime, which no issuer writes.  A signature is the key   *)
(* and the payload it was made for.                                        *)
(***************************************************************************)
EXTENDS Naturals, FiniteSets, TLC

CONSTANTS
    ApprovalIds, \* approval ids
    Keys,        \* signing keys
    Kinds,       \* drill kinds that deciders use
    Subcommands, \* subcommands that are approved and run
    None,        \* no id, no claim, no host, no file, no issuer, no command
    Torn,        \* a file that does not parse
    MaxTtl,      \* DEFAULT_MAX_TTL
    Skew,        \* DEFAULT_CLOCK_SKEW
    MaxTime,     \* bound on the clock
    MaxIssues,   \* bound on approvals signed
    MaxEdits     \* bound on failed writes and on changes of files and keys by others

DESTRUCTIVE_SUBCOMMANDS ==
    {"backup", "restore", "restore-rollback", "migrate", "freeze", "thaw", "age-rotate",
     "secret-revoke"}

HostMigrations == {"host_migration_mac_vps", "host_migration_linux_vps", "host_migration_vps_vps"}

DRILL_KIND_ALLOWED_SUBCOMMANDS ==
    [k \in HostMigrations |-> {"backup", "migrate", "restore", "restore-rollback"}]
    @@ "backup_only" :> {"backup"}
    @@ "restore_only" :> {"restore", "restore-rollback"}
    @@ "age_rotate" :> {"age-rotate"}
    @@ "freeze_only" :> {"freeze"}
    @@ "thaw_only" :> {"thaw"}
    @@ "secret_revoke" :> {"secret-revoke"}

ApprovalConstantsOK ==
    /\ {None, Torn} \cap (ApprovalIds \cup Keys) = {} /\ None # Torn
    /\ Kinds \subseteq DOMAIN DRILL_KIND_ALLOWED_SUBCOMMANDS
    /\ MaxTtl \in Nat \ {0} /\ Skew \in Nat /\ {MaxTime, MaxIssues, MaxEdits} \subseteq Nat

\* The subcommands whose arguments an approval binds.
Claimed == {"backup", "restore", "restore-rollback"}

\* --target-host: a name, or blanks.
Hosts == {"vps", "blank"}

Claims == [what : {"as asked", "other"}, wellFormed : BOOLEAN]

VARIABLES
    now,        \* the host's clock, in hours
    file,       \* id -> None, Torn, or an ApprovalRecord with its signature
    issuer,     \* None, or the record that an issuer is writing
    verifyKey,  \* the key in approval-verify-key.pub
    keySafe,    \* it has an owner and a mode the verifier accepts
    allowlist,  \* fingerprints in the repository's allowlist; empty or no file
    command,    \* None, or a command that waits for its verdict
    reads,      \* what the verifier reads next: "permissions", "key" or "allowlist"
    loaded,     \* the key it has read, or None
    listed,     \* history: keys on the allowlist at some moment since the command began
    signed,     \* history: every signature made, with its payload
    granted,    \* history: the command let through last, or None
    edits

verifier == <<command, reads, loaded, listed>>
approvalVars == <<now, file, issuer, verifyKey, keySafe, allowlist, verifier, signed, granted, edits>>

Payloads ==
    [id : ApprovalIds, decider : BOOLEAN, kind : DOMAIN DRILL_KIND_ALLOWED_SUBCOMMANDS,
     allowed : SUBSET (DESTRUCTIVE_SUBCOMMANDS \cup Subcommands), host : Hosts \cup {None},
     signedAt : 0..MaxTime, expiresAt : 0..MaxTime + MaxTtl + 1,
     claim : [Claimed -> Claims \cup {None}]]

Requests ==
    [sub : Subcommands, id : ApprovalIds \cup {None}, fromAutomation : BOOLEAN, allowUnsigned : BOOLEAN,
     automationEnv : BOOLEAN, host : Hosts \cup {None}]

Signatures == [key : Keys, payload : Payloads]

\* An ApprovalRecord with its signature, as it is on file.
Records == [payload : Payloads, signature : Signatures]

\* Types.
ApprovalTypeOK ==
    /\ now \in 0..MaxTime /\ edits \in 0..MaxEdits
    /\ file \in [ApprovalIds -> Records \cup {None, Torn}] /\ issuer \in Records \cup {None}
    /\ verifyKey \in Keys /\ keySafe \in BOOLEAN /\ allowlist \subseteq Keys
    /\ command \in [request : Requests, record : Records, at : 0..MaxTime] \cup {None}
    /\ reads \in {"permissions", "key", "allowlist"} /\ loaded \in Keys \cup {None} /\ listed \subseteq Keys
    /\ signed \subseteq Signatures
    /\ granted \in [sub : Subcommands, host : Hosts \cup {None}, automation : BOOLEAN,
                    record : Records \cup {None}, at : 0..MaxTime, listed : SUBSET Keys] \cup {None}

ApprovalInit ==
    /\ now = 0 /\ file = [i \in ApprovalIds |-> None] /\ issuer = None
    /\ verifyKey \in Keys /\ keySafe = TRUE /\ allowlist = {verifyKey}
    /\ command = None /\ reads = "permissions" /\ loaded = None /\ listed = {}
    /\ signed = {} /\ granted = None /\ edits = 0

Tick == now < MaxTime /\ now' = now + 1
        /\ UNCHANGED <<file, issuer, verifyKey, keySafe, allowlist, verifier, signed, granted, edits>>

-----------------------------------------------------------------------------
(* The decider: taskhub approval issue *)

\* argparse demands a drill kind and one subcommand of the tables; the times come
\* from the clock and --ttl-hours.  Claims are built from the flags that were given,
\* a claim with a flag missing is no claim.
_build_claims ==
    {c \in [Claimed -> Claims \cup {None}] :
        \A s \in Claimed : c[s] # None =>
            s \in Subcommands /\ (s # "restore-rollback" => c[s].wellFormed)}

cmd_approval_issue(i, kind, sub, host, decider, ttl, claims) ==
    [id |-> i, decider |-> decider, kind |-> kind, allowed |-> {sub}, host |-> host,
     signedAt |-> now, expiresAt |-> now + ttl, claim |-> claims]

\* Every check before the key is read.
Issuable(p) ==
    /\ Cardinality(p.allowed) = 1
    /\ p.allowed \subseteq DRILL_KIND_ALLOWED_SUBCOMMANDS[p.kind] \cap DESTRUCTIVE_SUBCOMMANDS
    /\ "migrate" \in p.allowed => p.host # None
    /\ p.signedAt < p.expiresAt /\ p.expiresAt - p.signedAt <= MaxTtl
    /\ \A s \in p.allowed \cap Claimed : p.claim[s] # None
    /\ "restore-rollback" \in p.allowed => p.claim["restore-rollback"].wellFormed

\* What is signed: every field of the record.
_rfc8785_canonical_payload_bytes(p) == p

\* issue_approval_record up to the exclusive creation of the file.
IssueOpen(i, k, p) ==
    /\ issuer = None /\ file[i] = None /\ Issuable(p)
    /\ signed' = signed \cup {[key |-> k, payload |-> p]}
    /\ issuer' = [payload |-> p,
                  signature |-> [key |-> k, payload |-> _rfc8785_canonical_payload_bytes(p)]]
    /\ file' = [file EXCEPT ![i] = Torn]
    /\ UNCHANGED <<now, verifyKey, keySafe, allowlist, verifier, granted, edits>>

IssueWrite ==
    /\ issuer # None
    /\ file' = [file EXCEPT ![issuer.payload.id] = issuer]
    /\ issuer' = None
    /\ UNCHANGED <<now, verifyKey, keySafe, allowlist, verifier, signed, granted, edits>>

\* The write or the fsync fails: the file is unlinked, by its path.
IssueFails ==
    /\ issuer # None /\ edits < MaxEdits /\ edits' = edits + 1
    /\ file' = [file EXCEPT ![issuer.payload.id] = None]
    /\ issuer' = None
    /\ UNCHANGED <<now, verifyKey, keySafe, allowlist, verifier, signed, granted>>

IssuerDies ==
    /\ issuer # None /\ issuer' = None
    /\ UNCHANGED <<now, file, verifyKey, keySafe, allowlist, verifier, signed, granted, edits>>

Issue ==
    \/ /\ issuer = None /\ Cardinality(signed) < MaxIssues
       /\ \E i \in ApprovalIds, k \in Keys, kind \in Kinds, sub \in Subcommands,
             host \in Hosts \cup {None}, decider \in BOOLEAN, ttl \in {0, MaxTtl, MaxTtl + 1},
             claims \in _build_claims :
             IssueOpen(i, k, cmd_approval_issue(i, kind, sub, host, decider, ttl, claims))
    \/ IssueWrite \/ IssueFails \/ IssuerDies

-----------------------------------------------------------------------------
(* Others: a file is edited, or put under another id; keys are exchanged *)

EditFile(i) ==
    /\ file[i] \notin {None, Torn}
    /\ \E p \in {[file[i].payload EXCEPT !.allowed = {sub}] : sub \in Subcommands}
              \cup {[file[i].payload EXCEPT !.expiresAt = now + 1],
                    [file[i].payload EXCEPT !.host = "vps"],
                    [file[i].payload EXCEPT !.claim =
                        [s \in Claimed |-> IF s \in Subcommands THEN [what |-> "as asked", wellFormed |-> TRUE]
                                           ELSE None]]} :
          file' = [file EXCEPT ![i].payload = p]
    /\ UNCHANGED <<verifyKey, keySafe, allowlist>>

CopyFile(i, j) ==
    /\ file[i] \notin {None, Torn} /\ file' = [file EXCEPT ![j] = file[i]]
    /\ UNCHANGED <<verifyKey, keySafe, allowlist>>

DeleteFile(i) ==
    /\ file[i] # None /\ file' = [file EXCEPT ![i] = None]
    /\ UNCHANGED <<verifyKey, keySafe, allowlist>>

ChangeKey ==
    /\ \/ verifyKey' \in Keys /\ UNCHANGED <<keySafe, allowlist>>
       \/ keySafe' = ~keySafe /\ UNCHANGED <<verifyKey, allowlist>>
       \/ allowlist' \in SUBSET Keys /\ UNCHANGED <<verifyKey, keySafe>>
    /\ UNCHANGED file

Others ==
    /\ edits < MaxEdits /\ edits' = edits + 1
    /\ (\E i \in ApprovalIds : EditFile(i) \/ DeleteFile(i) \/ \E j \in ApprovalIds : CopyFile(i, j)) \/ ChangeKey
    /\ listed' = IF command = None THEN {} ELSE listed \cup allowlist'
    /\ UNCHANGED <<now, issuer, command, reads, loaded, signed, granted>>

-----------------------------------------------------------------------------
(* The gate *)

\* A claim that is there must have every field, no other, and each in its form.
_parse_claims(p) == \A s \in Claimed : p.claim[s] # None => p.claim[s].wellFormed

\* A whole file under its own id.  An empty decider is refused here, not at issue.
_load_approval_record(i) ==
    /\ file[i] \notin {None, Torn}
    /\ file[i].payload.id = i /\ file[i].payload.decider
    /\ _parse_claims(file[i].payload)

_claims_match(sub, asked, p) == p.claim[sub] # None /\ p.claim[sub].what = asked

RecordAllows_AnyTime(r, p, t) ==
    /\ p.signedAt <= t + Skew /\ p.expiresAt - p.signedAt <= MaxTtl
    /\ r.sub \in p.allowed
    /\ p.allowed \subseteq DRILL_KIND_ALLOWED_SUBCOMMANDS[p.kind]
    /\ r.host # None => r.host # "blank" /\ p.host = r.host
    /\ r.sub \in Claimed => _claims_match(r.sub, "as asked", p)

\* Everything that verify_signed_approval asks of the record before the key.
RecordAllows(r, p, t) ==
    /\ p.signedAt <= t + Skew /\ t < p.expiresAt /\ p.expiresAt - p.signedAt <= MaxTtl
    /\ r.sub \in p.allowed
    /\ p.allowed \subseteq DRILL_KIND_ALLOWED_SUBCOMMANDS[p.kind]
    /\ r.host # None => r.host # "blank" /\ p.host = r.host
    /\ r.sub \in Claimed => _claims_match(r.sub, "as asked", p)

SignatureVerifies(key, rec) ==
    rec.signature = [key |-> key, payload |-> _rfc8785_canonical_payload_bytes(rec.payload)]

\* The subcommands that refuse --allow-unsigned-manual-skeleton.
NeverUnsigned == Claimed \cup {"secret-revoke"}

\* require_approval_for_destructive: the answers that need no record.
LetThrough(r) ==
    \/ r.sub \notin DESTRUCTIVE_SUBCOMMANDS
    \/ /\ r.sub \notin NeverUnsigned /\ r.allowUnsigned
       /\ ~r.automationEnv /\ r.id = None

\* ... and whether it goes on to the record.
NeedsRecord(r) ==
    /\ r.sub \in DESTRUCTIVE_SUBCOMMANDS /\ r.id # None
    /\ r.sub \in NeverUnsigned => ~r.allowUnsigned
    /\ r.automationEnv => r.fromAutomation

Grant(r, rec, t, keys) ==
    granted' = [sub |-> r.sub, host |-> r.host, automation |-> r.automationEnv, record |-> rec, at |-> t,
                listed |-> keys]

\* A command starts: the answer at once, or the record as it is read now.
require_approval_for_destructive(r) ==
    /\ command = None
    /\ \/ LetThrough(r) /\ Grant(r, None, now, {}) /\ UNCHANGED verifier
       \/ /\ NeedsRecord(r) /\ _load_approval_record(r.id)
          /\ RecordAllows(r, file[r.id].payload, now)
          /\ command' = [request |-> r, record |-> file[r.id], at |-> now]
          /\ listed' = allowlist
          /\ UNCHANGED <<reads, loaded, granted>>
    /\ UNCHANGED <<now, file, issuer, verifyKey, keySafe, allowlist, signed, edits>>

\* The command has its verdict.
Answered == command' = None /\ reads' = "permissions" /\ loaded' = None /\ listed' = {}

\* stat of the key file: its owner and mode.
_verify_key_permissions ==
    /\ command # None /\ reads = "permissions"
    /\ IF keySafe THEN reads' = "key" /\ UNCHANGED <<command, loaded, listed>> ELSE Answered
    /\ UNCHANGED <<now, file, issuer, verifyKey, keySafe, allowlist, signed, granted, edits>>

\* read_bytes of the key file, which may fail.
_load_verify_key_and_fingerprint ==
    /\ command # None /\ reads = "key"
    /\ \/ loaded' = verifyKey /\ reads' = "allowlist" /\ UNCHANGED <<command, listed>>
       \/ Answered
    /\ UNCHANGED <<now, file, issuer, verifyKey, keySafe, allowlist, signed, granted, edits>>

\* ... the fingerprint in the allowlist, and the signature.
verify_signed_approval ==
    /\ command # None /\ reads = "allowlist" /\ Answered
    /\ IF loaded \in allowlist /\ SignatureVerifies(loaded, command.record)
       THEN Grant(command.request, command.record, command.at, listed)
       ELSE UNCHANGED granted
    /\ UNCHANGED <<now, file, issuer, verifyKey, keySafe, allowlist, signed, edits>>

\* Only migrate passes a target host.  A flag that decides nothing stays off.
Gate ==
    \/ /\ command = None
       /\ \E r \in Requests :
             /\ r.host # None <=> r.sub = "migrate"
             /\ r.fromAutomation => r.automationEnv
             /\ r.allowUnsigned => r.id = None
             /\ require_approval_for_destructive(r)
    \/ _verify_key_permissions \/ _load_verify_key_and_fingerprint \/ verify_signed_approval

ApprovalNext == Tick \/ Issue \/ Others \/ Gate

ApprovalSpec == ApprovalInit /\ [][ApprovalNext]_approvalVars

-----------------------------------------------------------------------------
(* Properties *)

\* A command that passed the gate with an approval was approved: a key that was on
\* the allowlist while the command was being checked signed this subcommand, for this
\* host and these arguments, in a record that was not expired and never valid for
\* longer than the limit, whatever happened to the file and to the keys between the
\* signature and the check.
GrantedAsSigned ==
    granted # None /\ granted.record # None =>
        \E s \in signed :
            /\ s.payload.allowed = {granted.sub}
            /\ s.key = granted.record.signature.key /\ s.key \in granted.listed
            /\ granted.at < s.payload.expiresAt
            /\ s.payload.expiresAt <= s.payload.signedAt + MaxTtl
            /\ granted.sub = "migrate" => s.payload.host = granted.host
            /\ granted.sub \in Claimed => s.payload.claim[granted.sub].what = "as asked"

\* Without an approval only the commands that do nothing yet pass, run by hand.
UnsignedIsHarmless ==
    granted # None /\ granted.record = None /\ granted.sub \in DESTRUCTIVE_SUBCOMMANDS =>
        granted.sub \notin NeverUnsigned /\ ~granted.automation

\* An approval that was issued can be used until it expires, by the command it
\* names, while its file is as written and its key the allowed one.  Two kinds of
\* record are issued and can never be used: with an empty decider, and with a
\* malformed claim of a subcommand other than the approved one.
IssuedIsUsable ==
    \A i \in ApprovalIds :
        /\ file[i] \notin {None, Torn} /\ file[i].signature \in signed
        /\ file[i].payload = file[i].signature.payload /\ file[i].payload.id = i
        /\ file[i].payload.decider /\ _parse_claims(file[i].payload)
        /\ now < file[i].payload.expiresAt /\ file[i].signature.key = verifyKey
        /\ keySafe /\ verifyKey \in allowlist
        => \A sub \in file[i].payload.allowed, host \in Hosts \cup {None} :
              /\ sub = "migrate" => host = file[i].payload.host /\ host # "blank"
              /\ sub # "migrate" => host = None
              /\ sub \in Claimed => file[i].payload.claim[sub].what = "as asked"
              => /\ _load_approval_record(i)
                 /\ RecordAllows([sub |-> sub, host |-> host], file[i].payload, now)
                 /\ SignatureVerifies(verifyKey, file[i])

\* A command that passes was approved, with its arguments, under a key of the
\* allowlist (any of them: a record names its decider, and no key is tied to one), and
\* an approval that is issued can be used (taskhub_signed_approval.py).
ApprovalsSound == GrantedAsSigned /\ UnsignedIsHarmless /\ IssuedIsUsable
=============================================================================
