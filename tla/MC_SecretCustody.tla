-------------------------- MODULE MC_SecretCustody --------------------------
(***************************************************************************)
(* The rows of SecretCustody and the store of their material on small      *)
(* instances, side by side: part names the instance that is at work, the   *)
(* variables of the other keep their initial values.                       *)
(*   rows   versions of one name                                           *)
(*   store  two processes store and delete two secrets, one fault, all     *)
(*          directories are there                                          *)
(*   power  one secret, all calls, two faults: two processes in the base   *)
(*          directory, or one where there is none                          *)
(***************************************************************************)
EXTENDS SecretCustody, LocalSecretStore, TLC

CONSTANTS v1, v2, v3,
    x1, x2, s1, s2,   \* processes, refs in the store
    Parts             \* the instances of a run

ASSUME CustodyConstants == StoreConstantsOK

VARIABLE part

-----------------------------------------------------------------------------

MCInit ==
    /\ part \in Parts /\ Init /\ StoreInit
    /\ prepared \in CASE part = "rows" -> {{}} [] part = "store" -> {Directories} [] part = "power" -> {{}, {"base"}}

RowsStep == part = "rows" /\ Next /\ UNCHANGED <<part, storeVars>>

\* The calls, refs and faults of a part.
Within(calls, refs, n) ==
    faults' <= n /\ \A p \in Procs : proc'[p].call \in calls \cup {None} /\ proc'[p].ref \in refs \cup {None}

TwoSecrets == part = "store" /\ StoreNext /\ Within({"store", "delete"}, Refs, 1) /\ UNCHANGED <<part, vars>>
OneSecret ==
    /\ part = "power" /\ StoreNext /\ Within(Calls, {s1}, MaxFaults) /\ (prepared = {} => proc'[x2] = Down)
    /\ UNCHANGED <<part, vars>>

MCNext == RowsStep \/ TwoSecrets \/ OneSecret

MCSpec == MCInit /\ [][MCNext]_<<part, vars, storeVars>>

\* Versions are interchangeable.
VersionSymmetry == Permutations(Rows)
=============================================================================
