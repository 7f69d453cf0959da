---------------------------- MODULE VerifierAssets ----------------------------
(* The store of verifier asset bundles (infra/verifier_assets.py) and the    *)
(* checks of the asset mount around a verification (services/verifier.py).   *)
(*                                                                           *)
(* It keeps the same kind of state as the workspace bundle store and has its *)
(* own creation, validation and copy; this module has its actions over the   *)
(* state of WorkspaceBundles.  `archives' are the bundle directories, each a *)
(* manifest and a tree of files, `source' is the operator's directory and    *)
(* `target' the materialized tree a container mounts, with the trees it had  *)
(* during a verification.                                                    *)
EXTENDS WorkspaceBundles

\* A mount is a directory; NULL is none.
ASSUME AssetsAssumption ==
  NULL \notin [ref : Refs, tree : Trees, had : SUBSET Trees]

\* A name that comes or goes changes the directory's own stat result.
EditAssets(p, v) ==
  /\ EditSource(p, v)
  /\ calm' = IF source[p] = NULL \/ v = NULL THEN [c \in Clients |-> FALSE] ELSE calm

-----------------------------------------------------------------------------
(* create *)

CreateAssets(c) ==
  /\ pc[c] = "idle" /\ calls < MaxCalls
  /\ calls' = calls + 1
  /\ Go(c, "copy")
  /\ calm' = [calm EXCEPT ![c] = TRUE]
  /\ UNCHANGED <<world, disk, damaged, faults, returned, target, at, first, copy, ref, view, steady>>

\* _copy_source_directory: the entry is looked at, then opened and copied.
StatAsset(c) ==
  /\ pc[c] = "copy"
  /\ \/ /\ source[at[c]] = NULL
        /\ Advance(c, "copy", "copied")
        /\ UNCHANGED steady
     \/ /\ source[at[c]] # NULL
        /\ steady' = [steady EXCEPT ![c] = TRUE]
        /\ Go(c, "read")
        /\ UNCHANGED at
  /\ UNCHANGED <<world, disk, counts, returned, target, first, copy, ref, view, calm>>

\* _copy_open_regular_file
CopyAsset(c) ==
  /\ pc[c] = "read"
  /\ \/ /\ ~ steady[c]
        /\ Go(c, "failed")
        /\ UNCHANGED <<copy, at>>
     \/ /\ steady[c]
        /\ copy' = [copy EXCEPT ![c][at[c]] = source[at[c]]]
        /\ Advance(c, "copy", "copied")
  /\ steady' = [steady EXCEPT ![c] = FALSE]
  /\ UNCHANGED <<world, disk, counts, returned, target, first, ref, view, calm>>

\* A link or a special file, or a limit.
RefuseAssets(c) ==
  /\ pc[c] \in {"copy", "read", "rescanned"}
  /\ Go(c, "failed")
  /\ UNCHANGED <<world, disk, counts, returned, target, at, first, copy, ref, view, flags>>

\* The directory held a file and is the one that was listed.
Copied(c) ==
  /\ pc[c] = "copied"
  /\ Go(c, IF calm[c] /\ copy[c] # Nowhere THEN "rescan" ELSE "failed")
  /\ calm' = [calm EXCEPT ![c] = TRUE]
  /\ UNCHANGED <<world, disk, counts, returned, target, at, first, copy, ref, view, steady>>

\* verifier_asset_tree_hash of the source: every file is what was copied.
Rescan(c) ==
  /\ pc[c] = "rescan"
  /\ \/ /\ source[at[c]] = copy[c][at[c]]
        /\ Advance(c, "rescan", "rescanned")
     \/ /\ source[at[c]] # copy[c][at[c]]
        /\ Go(c, "failed")
        /\ UNCHANGED at
  /\ UNCHANGED <<world, disk, counts, returned, target, first, copy, ref, view, flags>>

\* The manifest is written, everything synced and the destination looked up.
PackAssets(c) ==
  /\ pc[c] = "rescanned"
  /\ \/ /\ ~ calm[c]
        /\ Go(c, "failed")
        /\ UNCHANGED ref
     \/ /\ calm[c]
        /\ ref' = [ref EXCEPT ![c] = [source |-> copy[c], tree |-> copy[c]]]
        /\ Go(c, IF ref'[c] \notin DOMAIN archives THEN "replace"
                 ELSE IF ref'[c] \in DOMAIN references THEN "compare"
                 ELSE "validate")
  /\ UNCHANGED <<world, disk, counts, returned, target, at, first, copy, view, flags>>

\* The stored reference is read: another creator may be replacing it, which the
\* stable read refuses.
CompareAssets(c) ==
  /\ pc[c] = "compare"
  /\ \/ Go(c, IF references[ref[c]] = ref[c] THEN "reference" ELSE "collision")
     \/ /\ \E d \in Clients \ {c} : pc[d] = "reference" /\ ref[d] = ref[c]
        /\ Go(c, "failed")
  /\ UNCHANGED <<world, disk, counts, returned, target, at, first, copy, ref, view, flags>>

\* _validate_published_bundle: a bundle without its reference.
ValidateBundle(c) ==
  /\ pc[c] = "validate"
  /\ Go(c, IF archives[ref[c]] = Packed(ref[c]) THEN "reference" ELSE "collision")
  /\ UNCHANGED <<world, disk, counts, returned, target, at, first, copy, ref, view, flags>>

\* os.replace of a directory: it fails when another creator was quicker.
InstallBundle(c) ==
  /\ pc[c] = "replace"
  /\ \/ /\ ref[c] \in DOMAIN archives
        /\ Go(c, "failed")
        /\ UNCHANGED archives
     \/ /\ ref[c] \notin DOMAIN archives
        /\ archives' = Put(archives, ref[c], Packed(ref[c]))
        /\ Go(c, "sync")
  /\ UNCHANGED <<world, references, safe_archives, safe_references, counts, returned, target,
                 at, first, copy, ref, view, flags>>

WriteAssetReference(c) == PutReference(c) /\ UNCHANGED calm

RecoverAssets(c) ==
  /\ pc[c] \in {"failed", "collision", "refused"}
  /\ Home(c)
  /\ UNCHANGED <<world, disk, counts, returned, target, flags>>

-----------------------------------------------------------------------------
(* materialize *)

Materialize(c, r) ==
  /\ pc[c] = "idle" /\ calls < MaxCalls
  /\ calls' = calls + 1
  /\ ref' = [ref EXCEPT ![c] = r]
  /\ Go(c, "load")
  /\ UNCHANGED <<world, disk, damaged, faults, returned, target, at, first, copy, view, flags>>

\* The stored reference is the requested one.
LoadAssets(c) ==
  /\ pc[c] = "load"
  /\ Go(c, IF ref[c] \in DOMAIN references /\ references[ref[c]] = ref[c] THEN "open" ELSE "refused")
  /\ UNCHANGED <<world, disk, counts, returned, target, at, first, copy, ref, view, flags>>

\* _manifest_entries: the manifest of the bundle says what the reference says.
ManifestMatches(bundle, r) == bundle.manifest = r

\* The bundle is opened, the destination is new, and the manifest is the one the
\* reference has the digest of.
OpenBundle(c) ==
  /\ pc[c] = "open"
  /\ Go(c, IF /\ target = NULL
              /\ ref[c] \in DOMAIN archives
              /\ ManifestMatches(archives[ref[c]], ref[c])
           THEN "fetch" ELSE "refused")
  /\ UNCHANGED <<world, disk, counts, returned, target, at, first, copy, ref, view, flags>>

\* _copy_relative_regular_file: the file is there, of the size and the digest the
\* manifest gives it.
FileMatches(bundle, p, expected) == bundle.entries[p] = expected

\* The next entry of the manifest is copied.
Fetch(c) ==
  /\ pc[c] = "fetch"
  /\ LET bundle == archives[ref[c]]
         expected == ref[c].tree[at[c]]
     IN
     \/ /\ expected = NULL
        /\ Advance(c, "fetch", "seal")
        /\ UNCHANGED copy
     \/ /\ expected # NULL /\ FileMatches(bundle, at[c], expected)
        /\ copy' = [copy EXCEPT ![c][at[c]] = expected]
        /\ Advance(c, "fetch", "seal")
     \/ /\ expected # NULL /\ ~ FileMatches(bundle, at[c], expected)
        /\ Go(c, "refused")
        /\ UNCHANGED <<copy, at>>
  /\ UNCHANGED <<world, disk, counts, returned, target, first, ref, view, flags>>

\* The tree hash of the copy, and the rename to the destination.
Seal(c) ==
  /\ pc[c] = "seal"
  /\ \/ /\ copy[c] = ref[c].tree /\ ~ Occupied
        /\ target' = [ref |-> ref[c], tree |-> copy[c], had |-> {}]
        /\ Go(c, "mounted")
     \/ /\ copy[c] # ref[c].tree \/ Occupied
        /\ Go(c, "refused")
        /\ UNCHANGED target
  /\ UNCHANGED <<world, disk, counts, returned, at, first, copy, ref, view, flags>>

-----------------------------------------------------------------------------
(* The verifier service around the verification. *)

BeforeVerification(c) ==
  /\ pc[c] = "mounted"
  /\ \/ /\ target.tree = ref[c].tree
        /\ target' = [target EXCEPT !.had = {target.tree}]
        /\ Go(c, "verifying")
     \/ /\ target.tree # ref[c].tree
        /\ Go(c, "rejected")
        /\ UNCHANGED target
  /\ UNCHANGED <<world, disk, counts, returned, at, first, copy, ref, view, flags>>

\* Mutant: the mount is not hashed again.
AfterVerificationUnchecked(c) ==
  /\ pc[c] = "verifying"
  /\ Go(c, "accepted")
  /\ UNCHANGED <<world, disk, counts, returned, target, at, first, copy, ref, view, flags>>

AfterVerification(c) ==
  /\ pc[c] = "verifying"
  /\ Go(c, IF target.tree = ref[c].tree THEN "accepted" ELSE "rejected")
  /\ UNCHANGED <<world, disk, counts, returned, target, at, first, copy, ref, view, flags>>

\* A file of the mounted tree is changed before the service is done with it; its
\* directories are read-only.
Tamper(p, v) ==
  /\ target # NULL
  /\ \A c \in Clients : pc[c] # "accepted"
  /\ edits < MaxEdits
  /\ target.tree[p] \notin {v, NULL}
  /\ edits' = edits + 1
  /\ LET t == [target.tree EXCEPT ![p] = v] IN
       /\ target' = [target EXCEPT !.tree = t, !.had = IF @ = {} THEN {} ELSE @ \cup {t}]
       /\ reverted' = (reverted \/ t \in target.had)
  /\ UNCHANGED <<source, past, disk, damaged, faults, calls, returned, local>>

\* The attempt and its mount are removed.
Release(c) ==
  /\ pc[c] \in {"accepted", "rejected"}
  /\ target' = NULL
  /\ Home(c)
  /\ UNCHANGED <<world, disk, counts, returned, flags>>

-----------------------------------------------------------------------------
\* Damage of a bundle: a file, or the manifest with it.
AssetDamages(r) ==
  LET other == {[r.tree EXCEPT ![1] = v] : v \in (Contents \cup {NULL}) \ {r.tree[1]}}
  IN  {[manifest |-> m, entries |-> t] : m \in {r, [source |-> r.tree, tree |-> Nowhere]}, t \in other}

VStep(c) ==
  \/ CreateAssets(c) \/ StatAsset(c) \/ CopyAsset(c) \/ RefuseAssets(c) \/ Copied(c) \/ Rescan(c)
  \/ PackAssets(c) \/ CompareAssets(c) \/ ValidateBundle(c) \/ InstallBundle(c)
  \/ SyncArchive(c) \/ WriteAssetReference(c) \/ SyncReference(c) \/ RecoverAssets(c)
  \/ \E r \in returned : Materialize(c, r)
  \/ LoadAssets(c) \/ OpenBundle(c) \/ Fetch(c) \/ Seal(c)
  \/ BeforeVerification(c) \/ AfterVerification(c) \/ Release(c)

VFaults ==
  \/ \E r \in DOMAIN archives : \E b \in AssetDamages(r) : DamageArchive(r, b)
  \/ \E r \in DOMAIN references : DamageReference(r, Garbage)
  \/ \E c \in Clients : Kill(c)
  \/ \E a \in SUBSET DOMAIN archives, b \in SUBSET DOMAIN references : PowerLoss(a, b)

VNext ==
  \/ \E p \in Paths, v \in Contents \cup {NULL} : EditAssets(p, v)
  \/ \E p \in Paths, v \in Contents : Tamper(p, v)
  \/ \E c \in Clients : VStep(c)
  \/ VFaults

VSpec == WInit /\ [][VNext]_wvars

-----------------------------------------------------------------------------
\* A verification the service accepts ran on the files of the requested bundle
\* from its start to its end, whatever happened to the store and to the mount;
\* a file changed and put back in between is what the two hashes cannot see.
AcceptedOnBundle ==
  \A c \in Clients : pc[c] = "accepted" =>
    /\ ref[c] \in returned
    /\ ~ reverted => target # NULL /\ target.had = {ref[c].tree}
=============================================================================
