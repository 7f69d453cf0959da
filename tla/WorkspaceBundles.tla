--------------------------- MODULE WorkspaceBundles ---------------------------
(* The workspace bundle store (infra/workspace_bundle.py), the private view  *)
(* of one bundle a container gets (adapters/docker_bundle_view.py) and the   *)
(* part of the verifier service that reconstructs it (services/verifier.py). *)
(*                                                                           *)
(* Processes create bundles of a Git workspace somebody may be editing, into *)
(* a directory they share, and others reconstruct them; files of the store   *)
(* may be damaged, processes killed and the power lost.  A digest identifies *)
(* what it is the digest of, so a bundle's id, its reference and the two     *)
(* trees it names are one record.                                            *)
EXTENDS Naturals, FiniteSets, Functions

CONSTANTS
  NULL,        \* no file
  Garbage,     \* bytes that are no archive and no reference
  Clients,     \* processes that use the store
  NPaths,      \* paths Git lists
  Contents,    \* contents of a file, or the target of a link
  MaxEdits,    \* bound: edits of the workspace
  MaxCalls,    \* bound: operations on the store
  MaxFaults    \* bound: damages, kills and power losses

ASSUME BundlesAssumption ==
  /\ NPaths \in Nat \ {0}
  /\ Contents # {} /\ NULL \notin Contents
  /\ MaxEdits \in Nat /\ MaxCalls \in Nat /\ MaxFaults \in Nat

Paths == 1..NPaths
Trees == [Paths -> Contents \cup {NULL}]
Nowhere == [p \in Paths |-> NULL]

\* A reference: the source snapshot and the tree of the archive
\* (WorkspaceBundleRef; of a VerifierAssetBundleRef the two are one).
Refs == [source : Trees, tree : Trees]

\* What create writes under a reference: the manifest, which repeats the
\* reference, and the entries.
Packed(r) == [manifest |-> r, entries |-> r.tree]

VARIABLES
  source, past, reverted, edits,        \* the workspace; the states it has had
  archives, references,                 \* the store: reference -> file content
  safe_archives, safe_references,       \* names a power loss cannot take
  damaged, faults, calls,
  returned,                             \* references create has returned
  target,                               \* the directory of a materialization
  pc, at, first, copy, ref, view,       \* of each process
  steady, calm                          \* the file, the directory it read is unchanged

disk == <<archives, references, safe_archives, safe_references>>
world == <<source, past, reverted, edits>>
counts == <<damaged, faults, calls>>
flags == <<steady, calm>>
local == <<pc, at, first, copy, ref, view, flags>>
wvars == <<world, disk, counts, returned, target, local>>

Go(c, label) == pc' = [pc EXCEPT ![c] = label]

\* The call is over.
Home(c) ==
  /\ Go(c, "idle")
  /\ at' = [at EXCEPT ![c] = 1]
  /\ first' = [first EXCEPT ![c] = Nowhere] /\ copy' = [copy EXCEPT ![c] = Nowhere]
  /\ ref' = [ref EXCEPT ![c] = NULL] /\ view' = [view EXCEPT ![c] = NULL]

\* A change of the store's directory is seen by whoever copies out of it.
Disturb == calm' = [c \in Clients |-> FALSE]

-----------------------------------------------------------------------------
(* The workspace. *)

\* A path is written, removed or created; a process that is reading this file
\* sees another stat result.
EditSource(p, v) ==
  /\ edits < MaxEdits
  /\ source[p] # v
  /\ edits' = edits + 1
  /\ source' = [source EXCEPT ![p] = v]
  /\ reverted' = (reverted \/ v \in {t[p] : t \in past})
  /\ past' = past \cup {source'}
  /\ steady' = [c \in Clients |-> steady[c] /\ ~ (pc[c] = "read" /\ at[c] = p)]
  /\ UNCHANGED <<disk, counts, returned, target, pc, at, first, copy, ref, view>>

Edit(p, v) == EditSource(p, v) /\ UNCHANGED calm

-----------------------------------------------------------------------------
(* create *)

Create(c) ==
  /\ pc[c] = "idle" /\ calls < MaxCalls
  /\ calls' = calls + 1
  /\ Go(c, "baseline")
  /\ at' = [at EXCEPT ![c] = 1]
  /\ UNCHANGED <<world, disk, damaged, faults, returned, target, first, copy, ref, view, flags>>

\* The next path of a pass over the workspace, or the label after the pass.
Advance(c, label, after) ==
  /\ at' = [at EXCEPT ![c] = IF @ = NPaths THEN 1 ELSE @ + 1]
  /\ Go(c, IF at[c] = NPaths THEN after ELSE label)

\* snapshot_workspace, path by path: what the state hash is taken of.
Baseline(c) ==
  /\ pc[c] = "baseline"
  /\ first' = [first EXCEPT ![c][at[c]] = source[at[c]]]
  /\ Advance(c, "baseline", "copy")
  /\ IF at[c] = NPaths THEN Disturb ELSE UNCHANGED calm
  /\ UNCHANGED <<world, disk, counts, returned, target, copy, ref, view, steady>>

\* lstat: a path Git lists and nobody finds is skipped.
Lstat(c) ==
  /\ pc[c] = "copy"
  /\ \/ /\ source[at[c]] = NULL
        /\ copy' = [copy EXCEPT ![c][at[c]] = NULL]
        /\ Advance(c, "copy", "final")
        /\ UNCHANGED steady
     \/ /\ source[at[c]] # NULL
        /\ steady' = [steady EXCEPT ![c] = TRUE]
        /\ Go(c, "read")
        /\ UNCHANGED <<copy, at>>
  /\ UNCHANGED <<world, disk, counts, returned, target, first, ref, view, calm>>

\* _add_file, _add_symlink: an entry that is not the one of the lstat, or that
\* changed while it was read, ends the call.
ReadEntry(c) ==
  /\ pc[c] = "read"
  /\ \/ /\ ~ steady[c]
        /\ Go(c, "failed")
        /\ UNCHANGED <<copy, at>>
     \/ /\ steady[c]
        /\ copy' = [copy EXCEPT ![c][at[c]] = source[at[c]]]
        /\ Advance(c, "copy", "final")
  /\ steady' = [steady EXCEPT ![c] = FALSE]
  /\ UNCHANGED <<world, disk, counts, returned, target, first, ref, view, calm>>

\* An entry, a file, the bundle or its manifest is over its limit, of another
\* type, or a link that leads out of the workspace.
Refuse(c) ==
  /\ pc[c] \in {"copy", "read", "pack"}
  /\ Go(c, "failed")
  /\ UNCHANGED <<world, disk, counts, returned, target, at, first, copy, ref, view, flags>>

\* Mutant: the workspace is not looked at again.
FinalSkipped(c) ==
  /\ pc[c] = "final"
  /\ Advance(c, "final", "pack")
  /\ UNCHANGED <<world, disk, counts, returned, target, first, copy, ref, view, flags>>

\* The second snapshot: it must be the first.
Final(c) ==
  /\ pc[c] = "final"
  /\ \/ /\ source[at[c]] = first[c][at[c]]
        /\ Advance(c, "final", "pack")
     \/ /\ source[at[c]] # first[c][at[c]]
        /\ Go(c, "failed")
        /\ UNCHANGED at
  /\ UNCHANGED <<world, disk, counts, returned, target, first, copy, ref, view, flags>>

\* The manifest is added, the archive synced and hashed, and its path looked up.
Pack(c) ==
  /\ pc[c] = "pack"
  /\ ref' = [ref EXCEPT ![c] = [source |-> first[c], tree |-> copy[c]]]
  /\ Go(c, IF ref'[c] \in DOMAIN archives THEN "compare" ELSE "replace")
  /\ UNCHANGED <<world, disk, counts, returned, target, at, first, copy, view, flags>>

\* The archive is there already: the same bytes, or a collision.
Compare(c) ==
  /\ pc[c] = "compare"
  /\ Go(c, IF archives[ref[c]] = Packed(ref[c]) THEN "reference" ELSE "collision")
  /\ Disturb
  /\ UNCHANGED <<world, disk, counts, returned, target, at, first, copy, ref, view, steady>>

Put(f, r, v) == [x \in DOMAIN f \cup {r} |-> IF x = r THEN v ELSE f[x]]

\* Mutant: the archive is written under its own name.
ReplaceInPlace(c) ==
  /\ pc[c] = "replace"
  /\ \/ /\ ref[c] \notin DOMAIN archives
        /\ archives' = Put(archives, ref[c], Garbage)
        /\ UNCHANGED pc
     \/ /\ ref[c] \in DOMAIN archives
        /\ archives' = Put(archives, ref[c], Packed(ref[c]))
        /\ Go(c, "sync")
  /\ Disturb
  /\ UNCHANGED <<world, references, safe_archives, safe_references, counts, returned, target,
                 at, first, copy, ref, view, steady>>

Replace(c) ==
  /\ pc[c] = "replace"
  /\ archives' = Put(archives, ref[c], Packed(ref[c]))
  /\ Disturb
  /\ Go(c, "sync")
  /\ UNCHANGED <<world, references, safe_archives, safe_references, counts, returned, target,
                 at, first, copy, ref, view, steady>>

\* fsync of the directory, after the archive and again after the reference.
SyncStore ==
  /\ safe_archives' = DOMAIN archives
  /\ safe_references' = DOMAIN references

SyncArchive(c) ==
  /\ pc[c] = "sync"
  /\ SyncStore
  /\ Go(c, "reference")
  /\ UNCHANGED <<world, archives, references, counts, returned, target,
                 at, first, copy, ref, view, flags>>

\* write_json_atomic
PutReference(c) ==
  /\ pc[c] = "reference"
  /\ references' = Put(references, ref[c], ref[c])
  /\ Go(c, "sync_reference")
  /\ UNCHANGED <<world, archives, safe_archives, safe_references, counts, returned, target,
                 at, first, copy, ref, view, steady>>

WriteReference(c) == PutReference(c) /\ Disturb

\* Mutant: the reference is returned before it is on the disk.
SyncReferenceLate(c) ==
  /\ pc[c] = "sync_reference"
  /\ returned' = returned \cup {ref[c]}
  /\ Home(c)
  /\ UNCHANGED <<world, disk, counts, target, flags>>

SyncReference(c) ==
  /\ pc[c] = "sync_reference"
  /\ SyncStore
  /\ returned' = returned \cup {ref[c]}
  /\ Home(c)
  /\ UNCHANGED <<world, archives, references, counts, target, flags>>

-----------------------------------------------------------------------------
(* A private view of one bundle, and materialize from the view or the store. *)

\* A caller that holds a reference asks for the bundle.
Reconstruct(c, r, label) ==
  /\ pc[c] = "idle" /\ calls < MaxCalls
  /\ r \in returned
  /\ calls' = calls + 1
  /\ ref' = [ref EXCEPT ![c] = r]
  /\ calm' = [calm EXCEPT ![c] = TRUE]
  /\ Go(c, label)
  /\ UNCHANGED <<world, disk, damaged, faults, returned, target, at, first, copy, view, steady>>

\* _copy_stable_regular_file of the archive: size, digest, and no change of the
\* file while it is read.
ViewArchive(c) ==
  /\ pc[c] = "view_archive"
  /\ \/ /\ ref[c] \in DOMAIN archives
        /\ archives[ref[c]] = Packed(ref[c])
        /\ view' = [view EXCEPT ![c] = [archive |-> archives[ref[c]], reference |-> NULL]]
        /\ Go(c, "view_reference")
     \/ /\ \/ ref[c] \notin DOMAIN archives
           \/ archives[ref[c]] # Packed(ref[c])
           \/ ~ calm[c]
        /\ Go(c, "refused")
        /\ UNCHANGED view
  /\ UNCHANGED <<world, disk, counts, returned, target, at, first, copy, ref, flags>>

ViewReference(c) ==
  /\ pc[c] = "view_reference"
  /\ \/ /\ ref[c] \in DOMAIN references
        /\ view' = [view EXCEPT ![c].reference = references[ref[c]]]
        /\ Go(c, "view_check")
     \/ /\ ref[c] \notin DOMAIN references \/ ~ calm[c]
        /\ Go(c, "refused")
        /\ UNCHANGED view
  /\ UNCHANGED <<world, disk, counts, returned, target, at, first, copy, ref, flags>>

\* The store did not change meanwhile, and the reference is the requested one.
ViewCheck(c) ==
  /\ pc[c] = "view_check"
  /\ Go(c, IF calm[c] /\ view[c].reference = ref[c] THEN "load" ELSE "refused")
  /\ UNCHANGED <<world, disk, counts, returned, target, at, first, copy, ref, view, flags>>

\* The files the reconstruction reads: those of its view, or of the store.
Archive(c) ==
  IF view[c] # NULL THEN view[c].archive
  ELSE IF ref[c] \in DOMAIN archives THEN archives[ref[c]] ELSE Garbage

Reference(c) ==
  IF view[c] # NULL THEN view[c].reference
  ELSE IF ref[c] \in DOMAIN references THEN references[ref[c]] ELSE Garbage

\* load, and the service's comparison with the request.
Load(c) ==
  /\ pc[c] = "load"
  /\ Go(c, IF Reference(c) = ref[c] THEN "check" ELSE "refused")
  /\ UNCHANGED <<world, disk, counts, returned, target, at, first, copy, ref, view, flags>>

\* Size and digest of the archive; the destination does not exist.
Check(c) ==
  /\ pc[c] = "check"
  /\ Go(c, IF Archive(c) = Packed(ref[c]) /\ target = NULL THEN "extract" ELSE "refused")
  /\ UNCHANGED <<world, disk, counts, returned, target, at, first, copy, ref, view, flags>>

\* _validate_manifest: fields, source snapshot, tree hash and entries.
ManifestValid(archive, r) ==
  /\ archive.manifest = r
  /\ archive.manifest.tree = archive.entries

\* The tree hash of what the extraction wrote.
TreeMatches(archive, r) == archive.entries = r.tree

\* Mutant: the digest was checked, so the archive is extracted as it is.
ExtractedWellUnchecked(c) == Archive(c) # Garbage

ExtractedWell(c) ==
  /\ Archive(c) # Garbage
  /\ ManifestValid(Archive(c), ref[c])
  /\ TreeMatches(Archive(c), ref[c])

\* The archive is opened again, extracted into a temporary directory, and what
\* it held compared with the reference.
Extract(c) ==
  /\ pc[c] = "extract"
  /\ \/ /\ ExtractedWell(c)
        /\ copy' = [copy EXCEPT ![c] = Archive(c).entries]
        /\ Go(c, "install")
     \/ /\ ~ ExtractedWell(c)
        /\ Go(c, "refused")
        /\ UNCHANGED copy
  /\ UNCHANGED <<world, disk, counts, returned, target, at, first, ref, view, flags>>

\* os.replace fails on a directory that is not empty.
Occupied == target # NULL /\ target.tree # Nowhere

Install(c) ==
  /\ pc[c] = "install"
  /\ \/ /\ ~ Occupied
        /\ target' = [ref |-> ref[c], tree |-> copy[c]]
        /\ Home(c)
     \/ /\ Occupied
        /\ Go(c, "refused")
        /\ UNCHANGED <<target, at, first, copy, ref, view>>
  /\ UNCHANGED <<world, disk, counts, returned, flags>>

\* The service removes its attempt directory.
Discard ==
  /\ target # NULL
  /\ target' = NULL
  /\ UNCHANGED <<world, disk, counts, returned, local>>

\* A call that raised removes what it made; the process may call again.
Recover(c) ==
  /\ pc[c] \in {"failed", "collision", "refused"}
  /\ IF pc[c] = "refused" THEN UNCHANGED calm ELSE Disturb
  /\ Home(c)
  /\ UNCHANGED <<world, disk, counts, returned, target, steady>>

-----------------------------------------------------------------------------
(* Faults. *)

Fault == faults < MaxFaults /\ faults' = faults + 1

\* What damage can make of the archive of r: no archive, another one, or other
\* entries under the same manifest.
Damages(r) ==
  {Garbage} \cup {Packed(s) : s \in DOMAIN archives \ {r}}
    \cup {[manifest |-> r, entries |-> [r.tree EXCEPT ![1] = v]] :
            v \in (Contents \cup {NULL}) \ {r.tree[1]}}

DamageArchive(r, a) ==
  /\ Fault /\ damaged' = TRUE
  /\ archives' = [archives EXCEPT ![r] = a]
  /\ UNCHANGED <<world, references, safe_archives, safe_references, calls, returned, target,
                 local>>

DamageReference(r, b) ==
  /\ Fault /\ damaged' = TRUE
  /\ references' = [references EXCEPT ![r] = b]
  /\ UNCHANGED <<world, archives, safe_archives, safe_references, calls, returned, target,
                 local>>

Kill(c) ==
  /\ pc[c] # "idle"
  /\ Fault
  /\ Home(c)
  /\ UNCHANGED <<world, disk, damaged, calls, returned, target, flags>>

\* Names that were not synced may be gone.
PowerLoss(keep_archives, keep_references) ==
  /\ Fault
  /\ archives' = Restrict(archives, safe_archives \cup keep_archives)
  /\ references' = Restrict(references, safe_references \cup keep_references)
  /\ safe_archives' = DOMAIN archives' /\ safe_references' = DOMAIN references'
  /\ pc' = [c \in Clients |-> "idle"] /\ at' = [c \in Clients |-> 1]
  /\ first' = [c \in Clients |-> Nowhere] /\ copy' = [c \in Clients |-> Nowhere]
  /\ ref' = [c \in Clients |-> NULL] /\ view' = [c \in Clients |-> NULL]
  /\ UNCHANGED <<world, damaged, calls, returned, target, flags>>

-----------------------------------------------------------------------------
WInit ==
  /\ source = [p \in Paths |-> CHOOSE v \in Contents : TRUE]
  /\ past = {source} /\ reverted = FALSE /\ edits = 0
  /\ archives = <<>> /\ references = <<>>
  /\ safe_archives = {} /\ safe_references = {}
  /\ damaged = FALSE /\ faults = 0 /\ calls = 0
  /\ returned = {} /\ target = NULL
  /\ pc = [c \in Clients |-> "idle"] /\ at = [c \in Clients |-> 1]
  /\ first = [c \in Clients |-> Nowhere] /\ copy = [c \in Clients |-> Nowhere]
  /\ ref = [c \in Clients |-> NULL] /\ view = [c \in Clients |-> NULL]
  /\ steady = [c \in Clients |-> FALSE] /\ calm = [c \in Clients |-> FALSE]

CreateStep(c) ==
  \/ Create(c) \/ Baseline(c) \/ Lstat(c) \/ ReadEntry(c) \/ Refuse(c) \/ Final(c)
  \/ Pack(c) \/ Compare(c) \/ Replace(c) \/ SyncArchive(c) \/ WriteReference(c) \/ SyncReference(c)

ReconstructStep(c) ==
  \/ \E r \in returned, label \in {"view_archive", "load"} : Reconstruct(c, r, label)
  \/ ViewArchive(c) \/ ViewReference(c) \/ ViewCheck(c)
  \/ Load(c) \/ Check(c) \/ Extract(c) \/ Install(c)

Faults ==
  \/ \E r \in DOMAIN archives : \E a \in Damages(r) : DamageArchive(r, a)
  \/ \E r \in DOMAIN references : \E b \in {Garbage} \cup (returned \ {r}) : DamageReference(r, b)
  \/ \E c \in Clients : Kill(c)
  \/ \E a \in SUBSET DOMAIN archives, b \in SUBSET DOMAIN references : PowerLoss(a, b)

WNext ==
  \/ \E p \in Paths, v \in Contents \cup {NULL} : Edit(p, v)
  \/ \E c \in Clients : CreateStep(c) \/ ReconstructStep(c) \/ Recover(c)
  \/ Discard
  \/ Faults

WSpec == WInit /\ [][WNext]_wvars

-----------------------------------------------------------------------------
(* Properties. *)

Labels ==
  {"idle", "baseline", "copy", "read", "final", "pack", "compare", "replace", "sync", "reference",
   "sync_reference", "copied", "rescan", "rescanned", "validate", "open", "fetch", "seal", "mounted",
   "verifying", "accepted", "rejected", "view_archive", "view_reference", "view_check", "load", "check", "extract",
   "install", "failed", "collision", "refused"}

\* Types of the workspace, the store and the processes.
WTypeOK ==
  /\ source \in Trees /\ past \subseteq Trees
  /\ DOMAIN archives \subseteq Refs /\ DOMAIN references \subseteq Refs
  /\ safe_archives \subseteq DOMAIN archives /\ safe_references \subseteq DOMAIN references
  /\ returned \subseteq Refs
  /\ pc \in [Clients -> Labels] /\ at \in [Clients -> Paths]
  /\ first \in [Clients -> Trees] /\ copy \in [Clients -> Trees]
  /\ ref \in [Clients -> Refs \cup {NULL}]

\* A bundle holds one state of the source, the one its reference names: the files
\* are read one after the other while somebody edits them, yet no mixture of two
\* states is returned.  An edit that is undone before the second reading is what
\* the code cannot see (create; test_source_mutation_after_copy_is_rejected).
BundleIsSource ==
  ~ reverted => \A r \in returned : r.tree = r.source /\ r.source \in past

\* What create returned is in the store after any kill and any power loss, under
\* whatever order of two creators of the same bundle, and what a creator or a
\* crash leaves behind is never taken for a digest collision
\* (test_archive_and_store_directory_are_synced_before_reference,
\* test_create_recovers_a_fsynced_bundle_missing_only_its_reference).
ReturnedIsDurable ==
  ~ damaged =>
    /\ \A r \in returned :
         /\ r \in safe_archives /\ archives[r] = Packed(r)
         /\ r \in safe_references /\ references[r] = r
    /\ \A c \in Clients : pc[c] # "collision"

\* What is installed as a reconstructed workspace or an asset mount is the tree
\* of the requested bundle, however the files of the store are damaged between
\* the digest, the extraction and the copies
\* (test_archive_tampering_is_detected_before_extraction,
\* test_stored_file_mutation_is_detected_before_public_mount).
MaterializedIsBundle ==
  [][ pc' # pc /\ target' # target /\ target' # NULL =>
        target'.ref \in returned /\ target'.tree = target'.ref.tree ]_wvars

=============================================================================
