-------------------------- MODULE LocalSecretStore --------------------------
(***************************************************************************)
(* The store of secret material on one host                                *)
(* (services/secrets/local_secret_store.py).  Processes use the keychain   *)
(* or encrypted files, as each of them finds out for itself when it        *)
(* starts; a marker file pins the one in use, and one master key encrypts  *)
(* all files.  Marker and key are published by whoever comes first with a  *)
(* link(2) to a complete file, files are replaced and unlinked, and the    *)
(* directory of the file is fsynced after a change.  Directories that are  *)
(* missing are made on the way, and their parents are not fsynced.  Calls  *)
(* may raise and processes may die between any two system calls, and a     *)
(* power failure takes back what was not fsynced, a new directory with all *)
(* it holds.                                                               *)
(***************************************************************************)
EXTENDS Naturals

CONSTANTS
    Procs,      \* processes
    Refs,       \* secret_refs, each stored once, all of one tenant
    Calls,      \* calls made: "init", "store", "resolve", "delete"
    MaxKeys,    \* bound on generated master keys
    MaxFaults,  \* bound on failing calls, deaths, redirected files and power failures
    None

\* The base directory with the marker, and in it the directory of the master key and,
\* as one, secrets.d and the tenant's directory in it.
Directories == {"base", "keyring.d", "secrets.d"}

\* None and the names of marker, key and directories stand for nothing else.
StoreConstantsOK ==
    /\ Calls \subseteq {"init", "store", "resolve", "delete"} /\ MaxKeys \in Nat \ {0} /\ MaxFaults \in Nat
    /\ None \notin Refs \cup {"init", "store", "resolve", "delete", "keyring", "file"} /\ Refs \cap ({"marker", "key"} \cup Directories) = {}

VARIABLES
    marker,    \* backend.marker: None, "keyring" or "file"
    key,       \* master.key: 0 or the number of a key
    file,      \* ref -> the key its file is encrypted with, or 0
    ring,      \* refs in the keychain
    links,     \* refs whose path was made a symlink to the moved file
    disk,      \* what of [marker, key, file] is on disk for certain
    prepared,  \* directories that were there, and on disk, before the store was used
    dirs,      \* directories that are there
    durable,   \* directories whose entry in their parent is on disk for certain
    proc,      \* process -> [pc, backend, call, ref, key]
    keys,      \* number of keys generated
    faults,
    asked,     \* history: <<call, ref>> of stores and deletes begun
    done,      \* history: <<call, ref>> that returned, and still count
    orphans,   \* history: changes whose author ended before its fsync
    excused,   \* history: such changes, and new directories, that a power failure took back
    lost       \* history: refs whose file went with its directory

entries == <<marker, key, file, ring, links>>
tree == <<prepared, dirs, durable>>
history == <<asked, done, orphans, excused>>
storeVars == <<entries, disk, tree, proc, keys, faults, history, lost>>

\* mkdir(parents=True, exist_ok=True): the entry in the parent is not fsynced.
mkdir(ds) == dirs' = dirs \cup ds /\ UNCHANGED <<prepared, durable, lost>>

\* No call is being made.
Without(pc, b) == [pc |-> pc, backend |-> b, call |-> None, ref |-> None, key |-> 0]
Down == Without("down", None)

Goto(p, pc) == proc' = [proc EXCEPT ![p].pc = pc]

\* The call is over; the process keeps its backend.
Over(p) == proc' = [proc EXCEPT ![p] = Without("idle", proc[p].backend)]

Return(p) ==
    /\ Over(p)
    /\ done' = done \cup {<<proc[p].call, proc[p].ref>>}

Written(r) == done' = done \ {<<"delete", r>>}

-----------------------------------------------------------------------------
(* The backend and its marker *)

\* The environment or an error of the probe decides, for each process anew.
_detect_keyring(p) ==
    /\ proc[p].pc = "down"
    /\ \E b \in {"keyring", "file"} : proc' = [proc EXCEPT ![p] = Without("idle", b)]
    /\ UNCHANGED <<tree, lost, entries, disk, keys, faults, history>>

\* ensure_initialized, store, resolve, delete.
begin(p, call, r) ==
    /\ proc[p].pc = "idle"
    /\ call = "store" => <<call, r>> \notin asked
    /\ proc' = [proc EXCEPT ![p].pc = "marker", ![p].call = call, ![p].ref = r]
    /\ asked' = IF call \in {"store", "delete"} THEN asked \cup {<<call, r>>} ELSE asked
    /\ UNCHANGED <<tree, lost, entries, disk, keys, faults, done, orphans, excused>>

\* Where the work of a call starts once the marker agrees.
Work(call, backend) ==
    IF call = "init" THEN "return"
    ELSE IF backend = "keyring" THEN "ring"
    ELSE CASE call = "store" -> "key" [] call = "resolve" -> "open" [] call = "delete" -> "unlink"

_assert_backend_consistent(p) ==
    /\ proc[p].call \in {"resolve", "delete"}
    /\ IF marker = proc[p].backend THEN Goto(p, Work(proc[p].call, marker)) ELSE Over(p)

_ensure_marker_pinned(p) ==
    /\ proc[p].call \in {"init", "store"}
    /\ IF marker = None THEN Goto(p, "pin")
       ELSE IF marker = proc[p].backend THEN Goto(p, Work(proc[p].call, marker))
       ELSE Over(p)

check_marker(p) ==
    /\ proc[p].pc = "marker" /\ (_assert_backend_consistent(p) \/ _ensure_marker_pinned(p))
    /\ UNCHANGED <<tree, lost, entries, disk, keys, faults, history>>

_atomic_publish_Replaces(old, absent, new) == new

\* link(2): the first one stays.
_atomic_publish(old, absent, new) == IF old = absent THEN new ELSE old

pin(p) ==
    /\ proc[p].pc = "pin" /\ marker' = _atomic_publish(marker, None, proc[p].backend) /\ Goto(p, "sync_marker")
    /\ mkdir({"base"})
    /\ UNCHANGED <<key, file, ring, links, disk, keys, faults, history>>

sync_marker(p) ==
    /\ proc[p].pc = "sync_marker"
    /\ disk' = [disk EXCEPT !.marker = marker] /\ orphans' = orphans \ {"marker"}
    /\ IF marker = proc[p].backend THEN Goto(p, Work(proc[p].call, marker)) ELSE Over(p)
    /\ durable' = durable \cup (dirs \cap {"keyring.d"}) /\ UNCHANGED <<prepared, dirs, lost>>
    /\ UNCHANGED <<entries, keys, faults, asked, done, excused>>

return(p) ==
    /\ proc[p].pc = "return" /\ Over(p)
    /\ UNCHANGED <<tree, lost, entries, disk, keys, faults, history>>

-----------------------------------------------------------------------------
(* The keychain: what is not there is not deleted *)

_keyring_set(p) ==
    /\ proc[p].call = "store" /\ ring' = ring \cup {proc[p].ref} /\ Over(p)
    /\ done' = (done \ {<<"delete", proc[p].ref>>}) \cup {<<"store", proc[p].ref>>}

_keyring_get(p) == proc[p].call = "resolve" /\ Over(p) /\ UNCHANGED <<ring, done>>

\* A delete that fails because another came first is a success all the same.
_keyring_delete(p) == proc[p].call = "delete" /\ ring' = ring \ {proc[p].ref} /\ Return(p)

use_keyring(p) ==
    /\ proc[p].pc = "ring" /\ (_keyring_set(p) \/ _keyring_get(p) \/ _keyring_delete(p))
    /\ UNCHANGED <<tree, lost, marker, key, file, links, disk, keys, faults, asked, orphans, excused>>

-----------------------------------------------------------------------------
(* Encrypted files *)

AfterKey(call) == IF call = "store" THEN "replace" ELSE "decrypt"

\* At the bound on keys the call raises.
_load_or_create_master_key(p) ==
    /\ proc[p].pc = "key"
    /\ IF key # 0
       THEN proc' = [proc EXCEPT ![p].key = key, ![p].pc = AfterKey(proc[p].call)] /\ UNCHANGED keys
       ELSE IF keys < MaxKeys
       THEN keys' = keys + 1 /\ proc' = [proc EXCEPT ![p].key = keys + 1, ![p].pc = "publish_key"]
       ELSE Over(p) /\ UNCHANGED keys
    /\ UNCHANGED <<tree, lost, entries, disk, faults, history>>

publish_key(p) ==
    /\ proc[p].pc = "publish_key" /\ key' = _atomic_publish(key, 0, proc[p].key) /\ Goto(p, "sync_key")
    /\ mkdir({"base", "keyring.d"})
    /\ UNCHANGED <<marker, file, ring, links, disk, keys, faults, history>>

\* Whoever lost the race uses the winner's key.
sync_key(p) ==
    /\ proc[p].pc = "sync_key"
    /\ disk' = [disk EXCEPT !.key = key] /\ orphans' = orphans \ {"key"}
    /\ proc' = [proc EXCEPT ![p].key = key, ![p].pc = AfterKey(proc[p].call)]
    /\ UNCHANGED <<tree, lost, entries, keys, faults, asked, done, excused>>

\* _write_secure_file: rename(2) of a complete file.
_file_store(p) ==
    /\ proc[p].pc = "replace"
    /\ file' = [file EXCEPT ![proc[p].ref] = proc[p].key]
    /\ Written(proc[p].ref) /\ Goto(p, "sync_file")
    /\ mkdir({"base", "secrets.d"})
    /\ UNCHANGED <<marker, key, ring, links, disk, keys, faults, asked, orphans, excused>>

\* The directory of the tenant: files, and files that are gone.
_fsync_dir(p) ==
    /\ proc[p].pc \in {"sync_file", "sync_unlink"}
    /\ disk' = [disk EXCEPT !.file = file] /\ orphans' = orphans \ Refs
    /\ Return(p)
    /\ UNCHANGED <<tree, lost, entries, keys, faults, asked, excused>>

\* A symlink is refused.  The master key is loaded, or created, to decrypt.
_file_resolve(p) ==
    /\ \/ /\ proc[p].pc = "open"
          /\ IF proc[p].ref \in links \/ file[proc[p].ref] = 0 THEN Over(p) ELSE Goto(p, "key")
       \/ proc[p].pc = "decrypt" /\ Over(p)
    /\ UNCHANGED <<tree, lost, entries, disk, keys, faults, history>>

\* A symlink is refused; without a file there is nothing to fsync.
_file_delete(p) ==
    LET r == proc[p].ref
    IN  /\ proc[p].pc = "unlink"
        /\ IF r \in links THEN Over(p) /\ UNCHANGED <<file, done>>
           ELSE IF file[r] = 0 THEN Return(p) /\ UNCHANGED file
           ELSE file' = [file EXCEPT ![r] = 0] /\ Goto(p, "sync_unlink") /\ UNCHANGED done
        /\ UNCHANGED <<tree, lost, marker, key, ring, links, disk, keys, faults, asked, orphans, excused>>

-----------------------------------------------------------------------------
(* Failures *)

Fault == faults < MaxFaults /\ faults' = faults + 1

\* The change of a process that is not fsynced yet.
Open(p) ==
    CASE proc[p].pc = "sync_marker" -> {"marker"}
      [] proc[p].pc = "sync_key" -> {"key"}
      [] proc[p].pc = "sync_unlink" -> {proc[p].ref}
      [] OTHER -> {}

\* A call raises: permissions, a wrong mode, an input or output error.
raise(p) ==
    /\ proc[p].pc \notin {"down", "idle"} /\ Fault /\ Over(p) /\ orphans' = orphans \cup Open(p)
    /\ UNCHANGED <<tree, lost, entries, disk, keys, asked, done, excused>>

die(p) ==
    /\ proc[p].pc # "down" /\ Fault
    /\ proc' = [proc EXCEPT ![p] = Down] /\ orphans' = orphans \cup Open(p)
    /\ UNCHANGED <<tree, lost, entries, disk, keys, asked, done, excused>>

\* The file of a ref is moved aside, in its directory, and a symlink put in its place.
redirect(r) ==
    /\ file[r] # 0 /\ r \notin links /\ Fault /\ links' = links \cup {r}
    /\ UNCHANGED <<tree, lost, marker, key, file, ring, disk, proc, keys, history>>

\* Every entry is as it was, or as it is on disk for certain; a directory that is not
\* certain to be on disk may be gone, and then is with what it holds.
power_failure ==
    LET unsynced == orphans \cup UNION {Open(p) : p \in Procs}
    IN  \E gone \in SUBSET (dirs \ durable) :
        LET noFiles == gone \cap {"base", "secrets.d"} # {}
        IN  /\ Fault
            /\ marker' \in IF "base" \in gone THEN {None} ELSE {marker, disk.marker}
            /\ key' \in IF gone \cap {"base", "keyring.d"} # {} THEN {0} ELSE {key, disk.key}
            /\ file' \in {f \in [Refs -> 0 .. MaxKeys] : \A r \in Refs :
                             f[r] \in IF noFiles THEN {0} ELSE {file[r], disk.file[r]}}
            /\ links' = IF noFiles THEN {} ELSE links
            /\ excused' = excused \cup gone \cup
                   {x \in unsynced : \/ x = "marker" /\ marker' # marker
                                     \/ x = "key" /\ key' # key
                                     \/ x \in Refs /\ file'[x] # file[x]}
            /\ lost' = lost \cup (IF noFiles THEN {r \in Refs : file[r] # 0} ELSE {})
            /\ disk' = [marker |-> marker', key |-> key', file |-> file']
            /\ dirs' = IF "base" \in gone THEN {} ELSE dirs \ gone
            /\ durable' = dirs'
            /\ proc' = [p \in Procs |-> Down] /\ orphans' = {}
            /\ UNCHANGED <<prepared, ring, keys, asked, done>>

-----------------------------------------------------------------------------

StoreInit ==
    /\ marker = None /\ key = 0 /\ file = [r \in Refs |-> 0] /\ ring = {} /\ links = {}
    /\ disk = [marker |-> None, key |-> 0, file |-> [r \in Refs |-> 0]]
    /\ prepared \in {{}, {"base"}, Directories} /\ dirs = prepared /\ durable = prepared
    /\ proc = [p \in Procs |-> Down] /\ keys = 0 /\ faults = 0
    /\ asked = {} /\ done = {} /\ orphans = {} /\ excused = {} /\ lost = {}

StoreStep(p) ==
    \/ _detect_keyring(p)
    \/ \E call \in Calls, r \in Refs : begin(p, call, r)
    \/ check_marker(p) \/ pin(p) \/ sync_marker(p) \/ return(p) \/ use_keyring(p)
    \/ _load_or_create_master_key(p) \/ publish_key(p) \/ sync_key(p)
    \/ _file_store(p) \/ _fsync_dir(p) \/ _file_resolve(p) \/ _file_delete(p)
    \/ raise(p) \/ die(p)

StoreNext == (\E p \in Procs : StoreStep(p)) \/ (\E r \in Refs : redirect(r)) \/ power_failure

StoreSpec == StoreInit /\ [][StoreNext]_storeVars

-----------------------------------------------------------------------------
(* Properties *)

Points == {"down", "idle", "marker", "pin", "sync_marker", "return", "ring", "key", "publish_key",
           "sync_key", "replace", "sync_file", "open", "decrypt", "unlink", "sync_unlink"}
Backends == {None, "keyring", "file"}
Changes == {"marker", "key"} \cup Refs

StoreTypeOK ==
    /\ marker \in Backends /\ key \in 0 .. keys /\ file \in [Refs -> 0 .. keys]
    /\ ring \subseteq Refs /\ links \subseteq Refs
    /\ disk \in [marker : Backends, key : 0 .. keys, file : [Refs -> 0 .. keys]]
    /\ proc \in [Procs -> [pc : Points, backend : Backends, call : Calls \cup {None},
                           ref : Refs \cup {None}, key : 0 .. keys]]
    /\ keys \in 0 .. MaxKeys /\ faults \in 0 .. MaxFaults
    /\ asked \subseteq {"store", "delete"} \X Refs /\ done \subseteq {"store", "delete"} \X Refs
    /\ orphans \subseteq Changes /\ excused \subseteq Changes \cup Directories
    /\ prepared \subseteq Directories /\ dirs \subseteq Directories /\ durable \subseteq dirs /\ lost \subseteq Refs

\* All material is in the pinned backend, and every file can be decrypted with the one
\* master key, whoever stored first and whatever failed, unless power failed between
\* the publication of marker or key by one process and its fsync, or took the directory
\* that the store had made for it.
OneBackendOneKey ==
    /\ excused \cap {"marker", "base"} = {} =>
          (ring # {} => marker = "keyring") /\ ((\E r \in Refs : file[r] # 0) => marker = "file")
    /\ excused \cap {"key", "keyring.d"} = {} => \A r \in Refs : file[r] \in {0, key}

\* What a store returned from is there until it is deleted, across power failures but
\* for one that takes the file with its directory.
StoredStays ==
    \A r \in Refs : <<"store", r>> \in done /\ <<"delete", r>> \notin asked =>
        r \in ring \/ file[r] # 0 \/ r \in lost

\* What a delete returned from is gone, from both backends and behind symlinks, unless
\* it comes back because the first delete of it ended between unlink and fsync and the
\* second found nothing to do, or the marker was taken back.
DeletedIsGone ==
    \A r \in Refs : <<"delete", r>> \in done /\ excused \cap {"marker", "base", r} = {} =>
        r \notin ring /\ file[r] = 0 /\ r \notin links

\* A power failure takes no directory that was there before the store made one, and no
\* file where its directories were.
PreparedIsKept ==
    /\ excused \cap prepared = {}
    /\ {"base", "secrets.d"} \subseteq prepared => lost = {}

\* Material is in one backend under one key whoever stores first, what was stored
\* stays and what was deleted is gone, through failing calls, deaths and power
\* failures that do not fall between a publication and its fsync, and that do not take
\* a directory the store has made, whose parent it never fsyncs; with directories made
\* beforehand no stored file is lost (local_secret_store.py).
MaterialKept == StoreTypeOK /\ OneBackendOneKey /\ StoredStays /\ DeletedIsGone /\ PreparedIsKept
=============================================================================
