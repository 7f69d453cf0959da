----------------------------- MODULE StoresProofs -----------------------------
(***************************************************************************)
(* The safety of the workspace bundle store and of the verifier asset      *)
(* store, for every number of processes, paths and contents, and whatever  *)
(* is edited, damaged, killed or lost with the power.                      *)
(***************************************************************************)
EXTENDS VerifierAssets, TLAPS

-----------------------------------------------------------------------------
(* What the two stores have in common. *)

\* After its pass over the source a creator has a reference.
Making == {"compare", "validate", "replace", "sync", "reference", "sync_reference"}

\* A reconstruction has the reference it was asked for.
Asking == {"view_archive", "view_reference", "view_check", "load", "check", "extract", "install",
           "open", "fetch", "seal", "mounted", "verifying", "accepted", "rejected"}

LocalTypes ==
  /\ pc \in [Clients -> Labels] /\ at \in [Clients -> Paths]
  /\ first \in [Clients -> Trees] /\ copy \in [Clients -> Trees]
  /\ ref \in [Clients -> Refs \cup {NULL}]

StoreTypes == WTypeOK /\ source \in past /\ reverted \in BOOLEAN /\ damaged \in BOOLEAN

\* Where a process is says what is in the store, and what it may ask for.
Located(c) ==
  /\ pc[c] \in Making => ref[c] \in Refs
  /\ pc[c] \in {"compare", "validate", "sync", "reference", "sync_reference"} =>
       ref[c] \in DOMAIN archives
  /\ pc[c] = "sync_reference" => ref[c] \in DOMAIN references
  /\ pc[c] \in Asking => ref[c] \in returned
  /\ ~ damaged => pc[c] # "collision"

\* Files are whole unless somebody damaged one, and what was returned is synced.
Stored ==
  /\ ~ damaged =>
       /\ \A r \in DOMAIN archives : archives[r] = Packed(r)
       /\ \A r \in DOMAIN references : references[r] = r
  /\ returned \subseteq safe_archives /\ returned \subseteq safe_references

StoreInv == StoreTypes /\ Stored /\ \A c \in Clients : Located(c)

\* Every entry of f on D was read from the source.
Seen(f, D) == \A p \in D : f[p] \in {t[p] : t \in past}

\* An entry of f is the one of t, or is not in the source any more.
Follows(f, t, p) == f[p] = t[p] \/ f[p] # source[p]

-----------------------------------------------------------------------------
(* What a step of one process leaves alone. *)

Frame(c) ==
  /\ LocalTypes'
  /\ \A d \in Clients \ {c} :
       /\ pc'[d] = pc[d] /\ at'[d] = at[d]
       /\ first'[d] = first[d] /\ copy'[d] = copy[d] /\ ref'[d] = ref[d]

Grows ==
  /\ DOMAIN archives \subseteq DOMAIN archives'
  /\ DOMAIN references \subseteq DOMAIN references'
  /\ returned \subseteq returned' /\ UNCHANGED damaged

Quiet == UNCHANGED <<source, past, reverted, disk, damaged, returned>>

LEMMA OthersLocated ==
  ASSUME \A d \in Clients : Located(d), NEW c \in Clients, Frame(c), Grows, (Located(c))'
  PROVE  \A d \in Clients : (Located(d))'
<1> SUFFICES ASSUME NEW d \in Clients, d # c PROVE (Located(d))'
  OBVIOUS
<1>1. pc'[d] = pc[d] /\ ref'[d] = ref[d]
  BY DEF Frame
<1>2. Located(d)
  OBVIOUS
<1> QED
  BY <1>1, <1>2 DEF Located, Grows

LEMMA QuietStore ==
  ASSUME StoreInv, NEW c \in Clients, Frame(c), Quiet, (Located(c))'
  PROVE  StoreInv'
<1>1. Grows
  BY DEF Quiet, disk, Grows
<1>2. \A d \in Clients : (Located(d))'
  BY <1>1, OthersLocated DEF StoreInv
<1>3. StoreTypes'
  BY DEF StoreInv, StoreTypes, WTypeOK, Frame, LocalTypes, Quiet, disk
<1>4. Stored'
  BY DEF StoreInv, Stored, Quiet, disk
<1> QED
  BY <1>2, <1>3, <1>4 DEF StoreInv

\* The next path, or the end of the pass.
LEMMA AdvanceIs ==
  ASSUME StoreInv, NEW c \in Clients, NEW label \in Labels, NEW after \in Labels,
         Advance(c, label, after)
  PROVE  /\ pc' \in [Clients -> Labels] /\ at' \in [Clients -> Paths]
         /\ \A d \in Clients \ {c} : pc'[d] = pc[d] /\ at'[d] = at[d]
         /\ at[c] \in 1..NPaths /\ NPaths \in Nat
         /\ \/ at[c] = NPaths /\ pc'[c] = after /\ at'[c] = 1
            \/ at[c] # NPaths /\ pc'[c] = label /\ at'[c] = at[c] + 1
<1>1. pc \in [Clients -> Labels] /\ at \in [Clients -> Paths]
  BY DEF StoreInv, StoreTypes, WTypeOK
<1>2. NPaths \in Nat /\ NPaths > 0
  BY BundlesAssumption
<1>3. (IF at[c] = NPaths THEN 1 ELSE at[c] + 1) \in Paths
  BY <1>1, <1>2 DEF Paths
<1>4. at' = [at EXCEPT ![c] = IF at[c] = NPaths THEN 1 ELSE at[c] + 1]
  BY DEF Advance
<1>5. pc' = [pc EXCEPT ![c] = IF at[c] = NPaths THEN after ELSE label]
  BY DEF Advance, Go
<1>6. pc' \in [Clients -> Labels] /\ at' \in [Clients -> Paths]
  BY <1>1, <1>3, <1>4, <1>5
<1>7. \A d \in Clients \ {c} : pc'[d] = pc[d] /\ at'[d] = at[d]
  BY <1>1, <1>4, <1>5
<1>8. at[c] \in 1..NPaths
  BY <1>1 DEF Paths
<1>9. \/ at[c] = NPaths /\ pc'[c] = after /\ at'[c] = 1
      \/ at[c] # NPaths /\ pc'[c] = label /\ at'[c] = at[c] + 1
  BY <1>1, <1>4, <1>5
<1> QED
  BY <1>2, <1>6, <1>7, <1>8, <1>9

-----------------------------------------------------------------------------
(* The steps the two stores share. *)

LEMMA PutArchiveStore ==
  ASSUME StoreInv, NEW c \in Clients, pc[c] = "replace",
         archives' = Put(archives, ref[c], Packed(ref[c])),
         Go(c, "sync"),
         UNCHANGED <<world, references, safe_archives, safe_references, counts, returned,
                     at, first, copy, ref>>
  PROVE  StoreInv' /\ Frame(c)
<1>1. DOMAIN archives' = DOMAIN archives \cup {ref[c]}
  BY DEF Put
<1>2. ref[c] \in Refs
  BY DEF StoreInv, Located, Making
<1>3. Frame(c)
  BY DEF StoreInv, StoreTypes, WTypeOK, Frame, LocalTypes, Go, Labels
<1>4. StoreTypes'
  BY <1>1, <1>2, <1>3 DEF StoreInv, StoreTypes, WTypeOK, Frame, LocalTypes, world, counts
<1>5. Stored'
  <2>1. \A r \in DOMAIN archives' :
          archives'[r] = IF r = ref[c] THEN Packed(ref[c]) ELSE archives[r]
    BY <1>1 DEF Put
  <2> QED
    BY <1>1, <2>1 DEF StoreInv, Stored, counts
<1>6. Grows
  BY <1>1 DEF Grows, counts
<1>7. (Located(c))'
  BY <1>1, <1>2 DEF Located, Go, StoreInv, StoreTypes, WTypeOK, Making, Asking
<1> QED
  BY <1>3, <1>4, <1>5, <1>6, <1>7, OthersLocated DEF StoreInv

LEMMA SyncArchiveStore ==
  ASSUME StoreInv, NEW c \in Clients, SyncArchive(c)
  PROVE  StoreInv' /\ Frame(c)
<1>1. Frame(c)
  BY DEF StoreInv, StoreTypes, WTypeOK, Frame, LocalTypes, Go, Labels, SyncArchive
<1>2. StoreTypes'
  BY <1>1 DEF StoreInv, StoreTypes, WTypeOK, Frame, LocalTypes, world, counts, SyncArchive, SyncStore
<1>3. Stored'
  BY DEF StoreInv, Stored, StoreTypes, WTypeOK, counts, SyncArchive, SyncStore
<1>4. Grows
  BY DEF Grows, counts, SyncArchive
<1>5. (Located(c))'
  BY DEF Located, Go, StoreInv, StoreTypes, WTypeOK, Making, Asking, SyncArchive
<1> QED
  BY <1>1, <1>2, <1>3, <1>4, <1>5, OthersLocated DEF StoreInv

LEMMA PutReferenceStore ==
  ASSUME StoreInv, NEW c \in Clients, PutReference(c)
  PROVE  StoreInv' /\ Frame(c)
<1>1. DOMAIN references' = DOMAIN references \cup {ref[c]}
  BY DEF PutReference, Put
<1>2. pc[c] = "reference" /\ ref[c] \in Refs
  BY DEF StoreInv, Located, Making, PutReference
<1>3. Frame(c)
  BY DEF StoreInv, StoreTypes, WTypeOK, Frame, LocalTypes, Go, Labels, PutReference
<1>4. StoreTypes'
  BY <1>1, <1>2, <1>3
  DEF StoreInv, StoreTypes, WTypeOK, Frame, LocalTypes, world, counts, PutReference
<1>5. Stored'
  <2>1. \A r \in DOMAIN references' :
          references'[r] = IF r = ref[c] THEN ref[c] ELSE references[r]
    BY <1>1 DEF PutReference, Put
  <2> QED
    BY <1>1, <2>1 DEF StoreInv, Stored, counts, PutReference
<1>6. Grows
  BY <1>1 DEF Grows, counts, PutReference
<1>7. (Located(c))'
  BY <1>1, <1>2 DEF Located, Go, StoreInv, StoreTypes, WTypeOK, Making, Asking, PutReference
<1> QED
  BY <1>3, <1>4, <1>5, <1>6, <1>7, OthersLocated DEF StoreInv

\* A process that is done has nothing left.
LEMMA HomeFrame ==
  ASSUME StoreInv, NEW c \in Clients, Home(c)
  PROVE  /\ Frame(c) /\ pc'[c] = "idle" /\ at'[c] = 1 /\ copy'[c] = Nowhere
         /\ (Located(c))'
<1>0. Nowhere \in Trees /\ 1 \in Paths
  BY BundlesAssumption DEF Nowhere, Trees, Paths
<1>1. Frame(c)
  BY <1>0 DEF StoreInv, StoreTypes, WTypeOK, Frame, LocalTypes, Go, Labels, Home
<1>2. pc'[c] = "idle" /\ at'[c] = 1 /\ copy'[c] = Nowhere
  BY DEF Home, Go, StoreInv, StoreTypes, WTypeOK
<1>3. (Located(c))'
  BY <1>2 DEF Located, Making, Asking
<1> QED
  BY <1>1, <1>2, <1>3

LEMMA SyncReferenceStore ==
  ASSUME StoreInv, NEW c \in Clients, SyncReference(c)
  PROVE  StoreInv' /\ Frame(c)
<1>1. pc[c] = "sync_reference" /\ ref[c] \in Refs
  BY DEF StoreInv, Located, Making, SyncReference
<1>2. ref[c] \in DOMAIN archives /\ ref[c] \in DOMAIN references
  BY <1>1 DEF StoreInv, Located
<1>3. Frame(c) /\ (Located(c))'
  BY HomeFrame DEF SyncReference
<1>4. StoreTypes'
  BY <1>1, <1>2, <1>3
  DEF StoreInv, StoreTypes, WTypeOK, Frame, LocalTypes, world, counts, SyncReference, SyncStore
<1>5. Stored'
  BY <1>2 DEF StoreInv, Stored, StoreTypes, WTypeOK, counts, SyncReference, SyncStore
<1>6. Grows
  BY DEF Grows, counts, SyncReference
<1> QED
  BY <1>3, <1>4, <1>5, <1>6, OthersLocated DEF StoreInv

LEMMA KillStore ==
  ASSUME StoreInv, NEW c \in Clients, Kill(c)
  PROVE  StoreInv' /\ Frame(c)
<1>1. Frame(c) /\ (Located(c))'
  BY HomeFrame DEF Kill
<1>2. Quiet
  BY DEF Kill, Quiet, world
<1> QED
  BY <1>1, <1>2, QuietStore

LEMMA DamageStore ==
  ASSUME StoreInv,
         \/ \E r, a : DamageArchive(r, a)
         \/ \E r, b : DamageReference(r, b)
  PROVE  StoreInv'
<1>1. /\ damaged' = TRUE /\ UNCHANGED <<world, safe_archives, safe_references, returned, local>>
      /\ DOMAIN archives' = DOMAIN archives /\ DOMAIN references' = DOMAIN references
  BY DEF DamageArchive, DamageReference
<1>2. StoreTypes'
  BY <1>1 DEF StoreInv, StoreTypes, WTypeOK, world, local
<1>3. Stored'
  BY <1>1 DEF StoreInv, Stored
<1>4. \A c \in Clients : (Located(c))'
  BY <1>1 DEF StoreInv, Located, local
<1> QED
  BY <1>2, <1>3, <1>4 DEF StoreInv

LEMMA PowerLossStore ==
  ASSUME StoreInv, NEW a \in SUBSET DOMAIN archives, NEW b \in SUBSET DOMAIN references,
         PowerLoss(a, b)
  PROVE  StoreInv'
<1>1. /\ DOMAIN archives' = safe_archives \cup a
      /\ \A r \in DOMAIN archives' : archives'[r] = archives[r]
      /\ DOMAIN references' = safe_references \cup b
      /\ \A r \in DOMAIN references' : references'[r] = references[r]
  BY DEF PowerLoss, Restrict
<1>2. Nowhere \in Trees /\ 1 \in Paths
  BY BundlesAssumption DEF Nowhere, Trees, Paths
<1>3. StoreTypes'
  BY <1>1, <1>2 DEF StoreInv, StoreTypes, WTypeOK, world, PowerLoss, Labels
<1>4. Stored'
  BY <1>1 DEF StoreInv, Stored, StoreTypes, WTypeOK, PowerLoss
<1>5. \A c \in Clients : (Located(c))'
  BY DEF Located, Making, Asking, PowerLoss
<1> QED
  BY <1>3, <1>4, <1>5 DEF StoreInv

\* A change of the source leaves the store and the processes alone.
LEMMA EditStore ==
  ASSUME StoreInv, NEW p \in Paths, NEW v \in Contents \cup {NULL}, EditSource(p, v)
  PROVE  StoreInv'
<1>1. source' \in Trees /\ past' = past \cup {source'}
  BY DEF StoreInv, StoreTypes, WTypeOK, EditSource, Trees
<1>2. StoreTypes'
  BY <1>1 DEF StoreInv, StoreTypes, WTypeOK, EditSource, disk, counts
<1>3. Stored'
  BY DEF StoreInv, Stored, EditSource, disk, counts
<1>4. \A c \in Clients : (Located(c))'
  BY DEF StoreInv, Located, EditSource, disk, counts
<1> QED
  BY <1>2, <1>3, <1>4 DEF StoreInv

\* What was read stays read; what the source no longer has, it has not again
\* unless the edit takes a path back to what it was.
LEMMA EditKeeps ==
  ASSUME StoreInv, NEW p \in Paths, NEW v \in Contents \cup {NULL}, EditSource(p, v)
  PROVE  /\ past \subseteq past'
         /\ ~ reverted' => ~ reverted
         /\ \A f, D : Seen(f, D) => (Seen(f, D))'
         /\ ~ reverted' => \A f, t : \A q \in Paths :
              Seen(f, Paths) /\ Follows(f, t, q) => (f[q] = t[q] \/ f[q] # source'[q])
<1>1. past \subseteq past'
  BY DEF EditSource
<1>2. ~ reverted' => ~ reverted /\ v \notin {t[p] : t \in past}
  BY DEF EditSource
<1>3. \A q \in Paths : source'[q] = IF q = p THEN v ELSE source[q]
  BY DEF EditSource, StoreInv, StoreTypes, WTypeOK, Trees
<1>4. \A f, D : Seen(f, D) => (Seen(f, D))'
  BY <1>1 DEF Seen
<1>5. ASSUME ~ reverted', NEW f, NEW t, NEW q \in Paths, Seen(f, Paths), Follows(f, t, q)
      PROVE  f[q] = t[q] \/ f[q] # source'[q]
  BY <1>2, <1>3, <1>5 DEF Seen, Follows
<1> QED
  BY <1>1, <1>2, <1>4, <1>5

-----------------------------------------------------------------------------
(* The workspace bundle store. *)

\* The pass that copies, and the second snapshot, have had path p.
WasCopied(c, p) == pc[c] \in {"final", "pack"} \/ p < at[c]
WasChecked(c, p) == pc[c] = "pack" \/ (pc[c] = "final" /\ p < at[c])

\* t is the source as it was when the first snapshot ended.
Agrees(c, t) ==
  \A p \in Paths :
    /\ Follows(first[c], t, p) /\ (WasChecked(c, p) => first[c][p] = t[p])
    /\ WasCopied(c, p) => Follows(first[c], copy[c], p)
    /\ WasChecked(c, p) => first[c][p] = copy[c][p]

BundleRead(c) ==
  /\ pc[c] = "baseline" => Seen(first[c], 1..(at[c] - 1))
  /\ pc[c] \in {"copy", "read", "final", "pack"} =>
       Seen(first[c], Paths) /\ \E t \in past : Agrees(c, t)
  /\ pc[c] \in Making => ref[c].tree = ref[c].source /\ ref[c].source \in past

BundleInv ==
  /\ StoreInv
  /\ BundleIsSource
  /\ ~ reverted => \A c \in Clients : BundleRead(c)
  /\ \A c \in Clients : pc[c] = "install" => copy[c] = ref[c].tree

\* A step of one process that leaves the source alone keeps what the others read.
LEMMA BundleStep ==
  ASSUME BundleInv, NEW c \in Clients, Frame(c), UNCHANGED <<source, past, reverted>>,
         StoreInv', BundleIsSource', ~ reverted => (BundleRead(c))',
         pc'[c] = "install" => copy'[c] = ref'[c].tree
  PROVE  BundleInv'
<1>1. ASSUME NEW d \in Clients, ~ reverted PROVE (BundleRead(d))'
  <2>1. CASE d = c
    BY <1>1, <2>1
  <2>2. CASE d # c
    <3>1. /\ pc'[d] = pc[d] /\ at'[d] = at[d]
          /\ first'[d] = first[d] /\ copy'[d] = copy[d] /\ ref'[d] = ref[d]
      BY <2>2 DEF Frame
    <3>2. BundleRead(d)
      BY <1>1 DEF BundleInv
    <3> QED
      BY <3>1, <3>2 DEF BundleRead, Seen, Agrees, Follows, WasChecked, WasCopied
  <2> QED
    BY <2>1, <2>2
<1>2. ASSUME NEW d \in Clients, pc'[d] = "install" PROVE copy'[d] = ref'[d].tree
  BY <1>2 DEF BundleInv, Frame
<1> QED
  BY <1>1, <1>2 DEF BundleInv

\* ... and so for one that leaves the store alone, too.
LEMMA BundleQuiet ==
  ASSUME BundleInv, NEW c \in Clients, Frame(c), Quiet,
         (Located(c))', ~ reverted => (BundleRead(c))',
         pc'[c] = "install" => copy'[c] = ref'[c].tree
  PROVE  BundleInv'
<1>1. StoreInv'
  BY QuietStore DEF BundleInv
<1>2. BundleIsSource'
  BY DEF BundleInv, BundleIsSource, Quiet
<1> QED
  BY <1>1, <1>2, BundleStep DEF Quiet

\* The steps that change no more than where a process is.
MovedTo(c, labels) ==
  /\ \E l \in labels : Go(c, l)
  /\ UNCHANGED <<at, first, copy, ref>> /\ Quiet

LEMMA Moves ==
  ASSUME StoreInv, NEW c \in Clients, NEW labels \in SUBSET Labels, MovedTo(c, labels)
  PROVE  /\ Frame(c) /\ Quiet
         /\ pc'[c] \in labels /\ UNCHANGED <<at, first, copy, ref>>
BY DEF StoreInv, StoreTypes, WTypeOK, Frame, LocalTypes, MovedTo, Go

\* Nothing is said of a process that failed, and of one that reconstructs only
\* what it was asked for.
LEMMA BundleMoves ==
  ASSUME BundleInv, NEW c \in Clients,
         \/ MovedTo(c, {"failed", "refused"})
         \/ /\ pc[c] \in Asking
            /\ MovedTo(c, {"view_reference", "view_check", "load", "check", "extract", "refused"})
         \/ /\ pc[c] \in {"compare", "sync", "reference"} /\ MovedTo(c, {"reference"})
  PROVE  BundleInv'
<1>0. StoreInv
  BY DEF BundleInv
<1>1. CASE MovedTo(c, {"failed", "refused"})
  <2>1. /\ Frame(c) /\ Quiet /\ pc'[c] \in {"failed", "refused"}
        /\ UNCHANGED <<at, first, copy, ref>>
    BY <1>0, <1>1, Moves DEF Labels
  <2>2. (Located(c))' /\ (BundleRead(c))'
    BY <2>1 DEF Located, BundleRead, Making, Asking
  <2> QED
    BY <2>1, <2>2, BundleQuiet
<1>2. CASE /\ pc[c] \in Asking
           /\ MovedTo(c, {"view_reference", "view_check", "load", "check", "extract", "refused"})
  <2>1. /\ Frame(c) /\ Quiet
        /\ pc'[c] \in {"view_reference", "view_check", "load", "check", "extract", "refused"}
        /\ UNCHANGED <<at, first, copy, ref>>
    BY <1>0, <1>2, Moves DEF Labels
  <2>2. ref[c] \in returned
    BY <1>0, <1>2 DEF StoreInv, Located
  <2>3. (Located(c))' /\ (BundleRead(c))'
    BY <2>1, <2>2 DEF Located, BundleRead, Making, Asking, Quiet
  <2> QED
    BY <2>1, <2>3, BundleQuiet
<1>3. CASE pc[c] \in {"compare", "sync", "reference"} /\ MovedTo(c, {"reference"})
  <2>1. /\ Frame(c) /\ Quiet /\ pc'[c] = "reference"
        /\ UNCHANGED <<at, first, copy, ref>>
    <3>1. /\ Frame(c) /\ Quiet /\ pc'[c] \in {"reference"}
          /\ UNCHANGED <<at, first, copy, ref>>
      BY <1>0, <1>3, Moves DEF Labels
    <3> QED
      BY <3>1
  <2>2. Located(c)
    BY <1>0 DEF StoreInv
  <2>3. (Located(c))'
    BY <1>3, <2>1, <2>2 DEF Located, Making, Asking, Quiet, disk
  <2>4. ~ reverted => (BundleRead(c))'
    BY <1>3, <2>1 DEF BundleInv, BundleRead, Making, Asking, Quiet
  <2> QED
    BY <2>1, <2>3, <2>4, BundleQuiet
<1> QED
  BY <1>1, <1>2, <1>3

LEMMA BundleCreate ==
  ASSUME BundleInv, NEW c \in Clients, Create(c)
  PROVE  BundleInv'
<1>0. NPaths \in Nat /\ 1 \in Paths
  BY BundlesAssumption DEF Paths
<1>1. Frame(c) /\ Quiet /\ pc'[c] = "baseline" /\ at'[c] = 1
  BY <1>0 DEF BundleInv, StoreInv, StoreTypes, WTypeOK, Frame, LocalTypes, Create, Go, Labels,
              Quiet, world
<1>2. (Located(c))' /\ (BundleRead(c))'
  BY <1>1 DEF Located, BundleRead, Making, Asking, Seen
<1> QED
  BY <1>1, <1>2, BundleQuiet

LEMMA BundleBaseline ==
  ASSUME BundleInv, NEW c \in Clients, Baseline(c)
  PROVE  BundleInv'
<1>0. StoreInv
  BY DEF BundleInv
<1>1. /\ pc' \in [Clients -> Labels] /\ at' \in [Clients -> Paths]
      /\ \A d \in Clients \ {c} : pc'[d] = pc[d] /\ at'[d] = at[d]
      /\ at[c] \in 1..NPaths /\ NPaths \in Nat
      /\ \/ at[c] = NPaths /\ pc'[c] = "copy" /\ at'[c] = 1
         \/ at[c] # NPaths /\ pc'[c] = "baseline" /\ at'[c] = at[c] + 1
  BY <1>0, AdvanceIs DEF Baseline, Labels
<1>2. source \in Trees /\ first \in [Clients -> Trees] /\ source \in past
  BY <1>0 DEF StoreInv, StoreTypes, WTypeOK
<1>3. at[c] \in Paths
  BY <1>1 DEF Paths
<1>4. /\ first'[c] \in Trees
      /\ \A p \in Paths : first'[c][p] = IF p = at[c] THEN source[p] ELSE first[c][p]
      /\ first' \in [Clients -> Trees]
      /\ \A d \in Clients \ {c} : first'[d] = first[d]
  BY <1>2, <1>3 DEF Baseline, Trees
<1>5. Frame(c) /\ Quiet
  BY <1>0, <1>1, <1>4 DEF StoreInv, StoreTypes, WTypeOK, Frame, LocalTypes, Baseline, Quiet, world, counts
<1>6. (Located(c))'
  BY <1>1 DEF Located, Making, Asking
<1>7. ASSUME ~ reverted PROVE (BundleRead(c))'
  <2>1. Seen(first[c], 1..(at[c] - 1))
    BY <1>7 DEF BundleInv, BundleRead, Baseline
  <2>2. \A p \in 1..at[c] : first'[c][p] \in {t[p] : t \in past}
    BY <1>1, <1>2, <1>4, <2>1 DEF Seen, Paths
  <2>3. past' = past /\ source' = source
    BY <1>5 DEF Quiet
  <2>4. CASE at[c] = NPaths /\ pc'[c] = "copy" /\ at'[c] = 1
    <3>1. (Seen(first[c], Paths))'
      BY <2>2, <2>3, <2>4 DEF Seen, Paths
    <3>2. \A p \in Paths : (~ WasChecked(c, p) /\ ~ WasCopied(c, p))'
      BY <2>4 DEF WasChecked, WasCopied, Paths
    <3>3. (Agrees(c, source))'
      BY <3>2 DEF Agrees, Follows
    <3>4. source' \in past'
      BY <2>3, <1>2
    <3> QED
      BY <2>4, <3>1, <3>3, <3>4 DEF BundleRead, Making
  <2>5. CASE at[c] # NPaths /\ pc'[c] = "baseline" /\ at'[c] = at[c] + 1
    <3>1. (Seen(first[c], 1..(at[c] - 1)))'
      BY <1>1, <2>2, <2>3, <2>5 DEF Seen
    <3> QED
      BY <2>5, <3>1 DEF BundleRead, Making
  <2> QED
    BY <1>1, <2>4, <2>5
<1> QED
  BY <1>1, <1>5, <1>6, <1>7, BundleQuiet

\* An entry is copied: what the copy holds of it is what the source holds now.
LEMMA BundleCopy ==
  ASSUME BundleInv, NEW c \in Clients, pc[c] \in {"copy", "read"}, Quiet,
         copy' = [copy EXCEPT ![c][at[c]] = source[at[c]]],
         Advance(c, "copy", "final"),
         UNCHANGED <<first, ref>>
  PROVE  BundleInv'
<1>0. StoreInv
  BY DEF BundleInv
<1>1. /\ pc' \in [Clients -> Labels] /\ at' \in [Clients -> Paths]
      /\ \A d \in Clients \ {c} : pc'[d] = pc[d] /\ at'[d] = at[d]
      /\ at[c] \in 1..NPaths /\ NPaths \in Nat
      /\ \/ at[c] = NPaths /\ pc'[c] = "final" /\ at'[c] = 1
         \/ at[c] # NPaths /\ pc'[c] = "copy" /\ at'[c] = at[c] + 1
  BY <1>0, AdvanceIs DEF Labels
<1>2. source \in Trees /\ copy \in [Clients -> Trees]
  BY <1>0 DEF StoreInv, StoreTypes, WTypeOK
<1>3. at[c] \in Paths
  BY <1>1 DEF Paths
<1>4. /\ \A p \in Paths : copy'[c][p] = IF p = at[c] THEN source[p] ELSE copy[c][p]
      /\ copy' \in [Clients -> Trees]
      /\ \A d \in Clients \ {c} : copy'[d] = copy[d]
  BY <1>2, <1>3 DEF Trees
<1>5. Frame(c)
  BY <1>0, <1>1, <1>4 DEF StoreInv, StoreTypes, WTypeOK, Frame, LocalTypes
<1>6. (Located(c))' /\ pc'[c] \in {"copy", "final"}
  BY <1>1 DEF Located, Making, Asking
<1>7. ASSUME ~ reverted PROVE (BundleRead(c))'
  <2>1. Seen(first[c], Paths) /\ \E t \in past : Agrees(c, t)
    BY <1>7 DEF BundleInv, BundleRead
  <2>2. PICK t \in past : Agrees(c, t)
    BY <2>1
  <2>3. past' = past /\ source' = source
    BY DEF Quiet
  <2>4. \A p \in Paths : (WasCopied(c, p))' => p = at[c] \/ WasCopied(c, p)
    BY <1>1 DEF WasCopied, Paths
  <2>5. \A p \in Paths : ~ (WasChecked(c, p))'
    BY <1>1 DEF WasChecked, Paths
  <2>6. (Agrees(c, t))'
    BY <1>4, <2>2, <2>3, <2>4, <2>5 DEF Agrees, Follows
  <2>7. (Seen(first[c], Paths))'
    BY <2>1, <2>3 DEF Seen
  <2> QED
    BY <1>6, <2>3, <2>6, <2>7 DEF BundleRead, Making
<1> QED
  BY <1>5, <1>6, <1>7, BundleQuiet

LEMMA BundleLook ==
  ASSUME BundleInv, NEW c \in Clients, Lstat(c) \/ ReadEntry(c)
  PROVE  BundleInv'
<1>0. Quiet /\ UNCHANGED <<first, ref>> /\ pc[c] \in {"copy", "read"}
  BY DEF Lstat, ReadEntry, Quiet, world, counts
<1>1. CASE /\ copy' = [copy EXCEPT ![c][at[c]] = source[at[c]]]
           /\ Advance(c, "copy", "final")
  BY <1>0, <1>1, BundleCopy
<1>2. CASE Go(c, "read") /\ UNCHANGED <<copy, at>> /\ pc[c] = "copy"
  <2>1. Frame(c) /\ pc'[c] = "read"
    BY <1>0, <1>2 DEF BundleInv, StoreInv, StoreTypes, WTypeOK, Frame, LocalTypes, Go, Labels
  <2>2. (Located(c))'
    BY <2>1 DEF Located, Making, Asking
  <2>3. ASSUME ~ reverted PROVE (BundleRead(c))'
    <3>1. Seen(first[c], Paths) /\ \E t \in past : Agrees(c, t)
      BY <1>2, <2>3 DEF BundleInv, BundleRead
    <3>2. PICK t \in past : Agrees(c, t)
      BY <3>1
    <3>3. past' = past /\ source' = source
      BY <1>0 DEF Quiet
    <3>4. \A p \in Paths : /\ (WasCopied(c, p))' => WasCopied(c, p)
                           /\ ~ (WasChecked(c, p))'
      BY <1>2, <2>1 DEF WasCopied, WasChecked
    <3>5. (Agrees(c, t))'
      BY <1>0, <1>2, <3>2, <3>3, <3>4 DEF Agrees, Follows
    <3>6. (Seen(first[c], Paths))'
      BY <1>0, <3>1, <3>3 DEF Seen
    <3> QED
      BY <2>1, <3>3, <3>5, <3>6 DEF BundleRead, Making
  <2> QED
    BY <1>0, <2>1, <2>2, <2>3, BundleQuiet
<1>3. CASE Go(c, "failed") /\ UNCHANGED <<copy, at>>
  BY <1>0, <1>3, BundleMoves DEF MovedTo
<1> QED
  BY <1>1, <1>2, <1>3 DEF Lstat, ReadEntry

LEMMA BundleFinal ==
  ASSUME BundleInv, NEW c \in Clients, Final(c)
  PROVE  BundleInv'
<1>0. /\ Quiet /\ UNCHANGED <<first, copy, ref>> /\ pc[c] = "final"
      /\ StoreInv
  BY DEF Final, Quiet, world, counts, BundleInv
<1>1. CASE source[at[c]] = first[c][at[c]] /\ Advance(c, "final", "pack")
  <2>1. /\ pc' \in [Clients -> Labels] /\ at' \in [Clients -> Paths]
        /\ \A d \in Clients \ {c} : pc'[d] = pc[d] /\ at'[d] = at[d]
        /\ at[c] \in 1..NPaths /\ NPaths \in Nat
        /\ \/ at[c] = NPaths /\ pc'[c] = "pack" /\ at'[c] = 1
           \/ at[c] # NPaths /\ pc'[c] = "final" /\ at'[c] = at[c] + 1
    BY <1>0, <1>1, AdvanceIs DEF Labels
  <2>2. Frame(c)
    BY <1>0, <2>1 DEF StoreInv, StoreTypes, WTypeOK, Frame, LocalTypes
  <2>3. (Located(c))' /\ pc'[c] \in {"final", "pack"}
    BY <2>1 DEF Located, Making, Asking
  <2>4. ASSUME ~ reverted PROVE (BundleRead(c))'
    <3>1. Seen(first[c], Paths) /\ \E t \in past : Agrees(c, t)
      BY <1>0, <2>4 DEF BundleInv, BundleRead
    <3>2. PICK t \in past : Agrees(c, t)
      BY <3>1
    <3>3. past' = past /\ source' = source
      BY <1>0 DEF Quiet
    <3>4. \A p \in Paths : (WasChecked(c, p))' => p = at[c] \/ WasChecked(c, p)
      BY <1>0, <2>1 DEF WasChecked, Paths
    <3>5. \A p \in Paths : WasCopied(c, p)
      BY <1>0 DEF WasCopied
    <3>6. (Agrees(c, t))'
      BY <1>0, <1>1, <3>2, <3>3, <3>4, <3>5 DEF Agrees, Follows
    <3>7. (Seen(first[c], Paths))'
      BY <1>0, <3>1, <3>3 DEF Seen
    <3> QED
      BY <2>3, <3>3, <3>6, <3>7 DEF BundleRead, Making
  <2> QED
    BY <1>0, <2>2, <2>3, <2>4, BundleQuiet
<1>2. CASE Go(c, "failed") /\ UNCHANGED at
  BY <1>0, <1>2, BundleMoves DEF MovedTo
<1> QED
  BY <1>1, <1>2 DEF Final

\* Everything was read twice and copied in between, and was the same: what was
\* copied is the source as it was when the first snapshot ended.
LEMMA BundlePack ==
  ASSUME BundleInv, NEW c \in Clients, Pack(c)
  PROVE  BundleInv'
<1>0. /\ Quiet /\ UNCHANGED <<at, first, copy>> /\ pc[c] = "pack"
      /\ StoreInv
  BY DEF Pack, Quiet, world, counts, BundleInv
<1>1. /\ first \in [Clients -> Trees] /\ copy \in [Clients -> Trees]
      /\ ref \in [Clients -> Refs \cup {NULL}] /\ pc \in [Clients -> Labels]
      /\ past \subseteq Trees
  BY <1>0 DEF StoreInv, StoreTypes, WTypeOK
<1>2. ref'[c] = [source |-> first[c], tree |-> copy[c]]
  BY <1>1 DEF Pack
<1>3. ref'[c] \in Refs
  BY <1>1, <1>2 DEF Refs
<1>4. /\ ref' \in [Clients -> Refs \cup {NULL}]
      /\ \A d \in Clients \ {c} : ref'[d] = ref[d]
  BY <1>1, <1>2, <1>3 DEF Pack
<1>5. /\ pc' \in [Clients -> Labels] /\ \A d \in Clients \ {c} : pc'[d] = pc[d]
      /\ \/ pc'[c] = "replace"
         \/ pc'[c] = "compare" /\ ref'[c] \in DOMAIN archives
  BY <1>1 DEF Pack, Go, Labels
<1>6. Frame(c)
  BY <1>0, <1>4, <1>5 DEF StoreInv, StoreTypes, WTypeOK, Frame, LocalTypes
<1>7. (Located(c))'
  BY <1>0, <1>3, <1>5 DEF Located, Making, Asking, Quiet, disk
<1>8. ASSUME ~ reverted PROVE (BundleRead(c))'
  <2>1. PICK t \in past : Agrees(c, t)
    BY <1>0, <1>8 DEF BundleInv, BundleRead
  <2>2. \A p \in Paths : first[c][p] = t[p] /\ first[c][p] = copy[c][p]
    BY <1>0, <2>1 DEF Agrees, WasChecked
  <2>3. first[c] = t /\ copy[c] = t
    <3>1. first[c] \in Trees /\ copy[c] \in Trees /\ t \in Trees
      BY <1>1
    <3> QED
      BY <2>2, <3>1 DEF Trees
  <2> QED
    BY <1>0, <1>2, <1>5, <2>3 DEF BundleRead, Making, Quiet
<1> QED
  BY <1>0, <1>5, <1>6, <1>7, <1>8, BundleQuiet

\* An archive that is there already is whole, unless it was damaged.
LEMMA BundleCompare ==
  ASSUME BundleInv, NEW c \in Clients, Compare(c)
  PROVE  BundleInv'
<1>0. /\ Quiet /\ UNCHANGED <<at, first, copy, ref>> /\ pc[c] = "compare"
      /\ StoreInv
  BY DEF Compare, Quiet, world, counts, BundleInv
<1>1. CASE Go(c, "reference")
  BY <1>0, <1>1, BundleMoves DEF MovedTo
<1>2. CASE Go(c, "collision") /\ archives[ref[c]] # Packed(ref[c])
  <2>1. Frame(c) /\ pc'[c] = "collision"
    BY <1>0, <1>2 DEF StoreInv, StoreTypes, WTypeOK, Frame, LocalTypes, Go, Labels
  <2>2. damaged
    BY <1>0, <1>2 DEF StoreInv, Located, Stored
  <2>3. (Located(c))' /\ (BundleRead(c))'
    BY <1>0, <2>1, <2>2 DEF Located, BundleRead, Making, Asking, Quiet
  <2> QED
    BY <1>0, <2>1, <2>3, BundleQuiet
<1> QED
  BY <1>1, <1>2 DEF Compare

\* The steps that write the store.
LEMMA BundleWrites ==
  ASSUME BundleInv, NEW c \in Clients,
         Replace(c) \/ SyncArchive(c) \/ WriteReference(c) \/ SyncReference(c)
  PROVE  BundleInv'
<1>0. StoreInv
  BY DEF BundleInv
<1>1. StoreInv' /\ Frame(c)
  <2>1. CASE Replace(c)
    BY <1>0, <2>1, PutArchiveStore DEF Replace
  <2>2. CASE SyncArchive(c)
    BY <1>0, <2>2, SyncArchiveStore
  <2>3. CASE WriteReference(c)
    BY <1>0, <2>3, PutReferenceStore DEF WriteReference
  <2>4. CASE SyncReference(c)
    BY <1>0, <2>4, SyncReferenceStore
  <2> QED
    BY <2>1, <2>2, <2>3, <2>4
<1>2. UNCHANGED <<source, past, reverted>>
  BY DEF Replace, SyncArchive, WriteReference, PutReference, SyncReference, world
<1>3. pc[c] \in Making
  BY DEF Replace, SyncArchive, WriteReference, PutReference, SyncReference, Making
<1>4. CASE SyncReference(c)
  <2>1. pc'[c] = "idle" /\ returned' = returned \cup {ref[c]}
    BY <1>0, <1>4, HomeFrame DEF SyncReference
  <2>2. BundleIsSource'
    BY <1>2, <1>3, <2>1 DEF BundleInv, BundleIsSource, BundleRead
  <2>3. (BundleRead(c))'
    BY <2>1 DEF BundleRead, Making
  <2> QED
    BY <1>1, <1>2, <2>1, <2>2, <2>3, BundleStep
<1>5. CASE Replace(c) \/ SyncArchive(c) \/ WriteReference(c)
  <2>1. /\ pc'[c] \in {"sync", "reference", "sync_reference"} /\ UNCHANGED <<ref, returned>>
    BY <1>0, <1>5 DEF Replace, SyncArchive, WriteReference, PutReference, Go,
                      StoreInv, StoreTypes, WTypeOK
  <2>2. BundleIsSource'
    BY <1>2, <2>1 DEF BundleInv, BundleIsSource
  <2>3. ~ reverted => (BundleRead(c))'
    BY <1>2, <1>3, <2>1 DEF BundleInv, BundleRead, Making
  <2> QED
    BY <1>1, <1>2, <2>1, <2>2, <2>3, BundleStep
<1> QED
  BY <1>4, <1>5

LEMMA BundleReconstruct ==
  ASSUME BundleInv, NEW c \in Clients, NEW r \in returned,
         NEW label \in {"view_archive", "load"}, Reconstruct(c, r, label)
  PROVE  BundleInv'
<1>1. returned \subseteq Refs /\ ref \in [Clients -> Refs \cup {NULL}]
  BY DEF BundleInv, StoreInv, StoreTypes, WTypeOK
<1>2. /\ ref' \in [Clients -> Refs \cup {NULL}] /\ ref'[c] = r
      /\ \A d \in Clients \ {c} : ref'[d] = ref[d]
  BY <1>1 DEF Reconstruct
<1>3. /\ pc' \in [Clients -> Labels] /\ pc'[c] = label
      /\ \A d \in Clients \ {c} : pc'[d] = pc[d]
  BY DEF Reconstruct, Go, Labels, BundleInv, StoreInv, StoreTypes, WTypeOK
<1>4. Frame(c) /\ Quiet
  BY <1>2, <1>3 DEF BundleInv, StoreInv, StoreTypes, WTypeOK, Frame, LocalTypes, Reconstruct,
                    Quiet, world
<1>5. (Located(c))' /\ (BundleRead(c))'
  BY <1>2, <1>3, <1>4 DEF Located, BundleRead, Making, Asking, Quiet
<1> QED
  BY <1>3, <1>4, <1>5, BundleQuiet

LEMMA BundleView ==
  ASSUME BundleInv, NEW c \in Clients,
         ViewArchive(c) \/ ViewReference(c) \/ ViewCheck(c) \/ Load(c) \/ Check(c)
  PROVE  BundleInv'
<1>1. /\ pc[c] \in Asking
      /\ MovedTo(c, {"view_reference", "view_check", "load", "check", "extract", "refused"})
  BY DEF ViewArchive, ViewReference, ViewCheck, Load, Check, Asking, MovedTo, Quiet, world, counts
<1> QED
  BY <1>1, BundleMoves

LEMMA BundleExtract ==
  ASSUME BundleInv, NEW c \in Clients, Extract(c)
  PROVE  BundleInv'
<1>0. /\ Quiet /\ UNCHANGED <<at, first, ref>> /\ pc[c] = "extract" /\ StoreInv
  BY DEF Extract, Quiet, world, counts, BundleInv
<1>1. CASE /\ ExtractedWell(c) /\ Go(c, "install")
           /\ copy' = [copy EXCEPT ![c] = Archive(c).entries]
  <2>1. ref[c] \in returned /\ ref[c] \in Refs
    BY <1>0 DEF StoreInv, StoreTypes, WTypeOK, Located, Asking
  <2>2. Archive(c).entries = ref[c].tree /\ ref[c].tree \in Trees
    BY <1>1, <2>1 DEF ExtractedWell, TreeMatches, Refs
  <2>3. copy' = [copy EXCEPT ![c] = ref[c].tree]
    BY <1>1, <2>2
  <2>4. /\ Frame(c) /\ pc'[c] = "install" /\ copy'[c] = ref[c].tree
    BY <1>0, <1>1, <2>2, <2>3
    DEF StoreInv, StoreTypes, WTypeOK, Frame, LocalTypes, Go, Labels
  <2>5. (Located(c))' /\ (BundleRead(c))'
    BY <1>0, <2>1, <2>4 DEF Located, BundleRead, Making, Asking, Quiet
  <2> QED
    BY <1>0, <2>4, <2>5, BundleQuiet
<1>2. CASE Go(c, "refused") /\ UNCHANGED copy
  BY <1>0, <1>2, BundleMoves DEF MovedTo
<1> QED
  BY <1>1, <1>2 DEF Extract

\* A process that is done.
LEMMA BundleHome ==
  ASSUME BundleInv, NEW c \in Clients, Home(c), Quiet
  PROVE  BundleInv'
<1>1. Frame(c) /\ (Located(c))' /\ pc'[c] = "idle"
  BY HomeFrame DEF BundleInv
<1>2. (BundleRead(c))'
  BY <1>1 DEF BundleRead, Making
<1> QED
  BY <1>1, <1>2, BundleQuiet

LEMMA BundleInstall ==
  ASSUME BundleInv, NEW c \in Clients, Install(c)
  PROVE  BundleInv'
<1>1. Quiet
  BY DEF Install, Quiet, world, counts
<1>2. CASE Home(c)
  BY <1>1, <1>2, BundleHome
<1>3. CASE Go(c, "refused") /\ UNCHANGED <<at, first, copy, ref>>
  BY <1>1, <1>3, BundleMoves DEF MovedTo
<1> QED
  BY <1>2, <1>3 DEF Install

\* An edit the code can see keeps every reading what it was.
LEMMA BundleEdit ==
  ASSUME BundleInv, NEW p \in Paths, NEW v \in Contents \cup {NULL}, EditSource(p, v)
  PROVE  BundleInv'
<1>0. /\ UNCHANGED <<returned, pc, at, first, copy, ref>>
  BY DEF EditSource
<1>1. StoreInv' /\ StoreInv
  BY EditStore DEF BundleInv
<1>2. /\ past \subseteq past'
      /\ ~ reverted' => ~ reverted
      /\ \A f, D : Seen(f, D) => (Seen(f, D))'
      /\ ~ reverted' => \A f, t : \A q \in Paths :
           Seen(f, Paths) /\ Follows(f, t, q) => (f[q] = t[q] \/ f[q] # source'[q])
  BY <1>1, EditKeeps
<1>3. BundleIsSource'
  BY <1>0, <1>2 DEF BundleInv, BundleIsSource
<1>4. ASSUME ~ reverted', NEW c \in Clients PROVE (BundleRead(c))'
  <2>1. BundleRead(c)
    BY <1>2, <1>4 DEF BundleInv
  <2>2. pc[c] = "baseline" => (Seen(first[c], 1..(at[c] - 1)))'
    <3>1. pc[c] = "baseline" => Seen(first[c], 1..(at[c] - 1))
      BY <2>1 DEF BundleRead
    <3> QED
      BY <1>0, <1>2, <3>1 DEF Seen
  <2>3. ASSUME pc[c] \in {"copy", "read", "final", "pack"}
        PROVE  (Seen(first[c], Paths))' /\ \E t \in past' : (Agrees(c, t))'
    <3>1. Seen(first[c], Paths) /\ \E t \in past : Agrees(c, t)
      BY <2>1, <2>3 DEF BundleRead
    <3>2. PICK t \in past : Agrees(c, t)
      BY <3>1
    <3>3. \A q \in Paths : /\ (WasChecked(c, q))' <=> WasChecked(c, q)
                           /\ (WasCopied(c, q))' <=> WasCopied(c, q)
      BY <1>0 DEF WasChecked, WasCopied
    <3>4. \A q \in Paths : /\ Follows(first[c], t, q) => (Follows(first[c], t, q))'
                           /\ Follows(first[c], copy[c], q) => (Follows(first[c], copy[c], q))'
      <4>1. ASSUME NEW q \in Paths, NEW u, Follows(first[c], u, q)
            PROVE  first[c][q] = u[q] \/ first[c][q] # source'[q]
        BY <1>2, <1>4, <3>1, <4>1
      <4>2. ASSUME NEW q \in Paths, Follows(first[c], t, q) PROVE (Follows(first[c], t, q))'
        BY <1>0, <4>1, <4>2 DEF Follows
      <4>3. ASSUME NEW q \in Paths, Follows(first[c], copy[c], q)
            PROVE  (Follows(first[c], copy[c], q))'
        BY <1>0, <1>2, <1>4, <3>1, <4>3 DEF Follows
      <4> QED
        BY <4>2, <4>3
    <3>5. (Agrees(c, t))'
      BY <1>0, <3>2, <3>3, <3>4 DEF Agrees
    <3>6. (Seen(first[c], Paths))'
      BY <1>0, <1>2, <3>1 DEF Seen
    <3> QED
      BY <1>2, <3>2, <3>5, <3>6
  <2>4. pc[c] \in Making => ref[c].tree = ref[c].source /\ ref[c].source \in past'
    BY <1>2, <2>1 DEF BundleRead
  <2> QED
    BY <1>0, <2>2, <2>3, <2>4 DEF BundleRead
<1> QED
  BY <1>0, <1>1, <1>3, <1>4 DEF BundleInv

\* Damage and power losses.
LEMMA BundleFaults ==
  ASSUME BundleInv, Faults
  PROVE  BundleInv'
<1>0. StoreInv
  BY DEF BundleInv
<1>1. CASE \/ \E r \in DOMAIN archives : \E a \in Damages(r) : DamageArchive(r, a)
           \/ \E r \in DOMAIN references :
                \E b \in {Garbage} \cup (returned \ {r}) : DamageReference(r, b)
  <2>1. (\E r, a : DamageArchive(r, a)) \/ (\E r, b : DamageReference(r, b))
    BY <1>1
  <2>2. StoreInv'
    BY <1>0, <2>1, DamageStore
  <2>3. UNCHANGED <<source, past, reverted, returned, pc, at, first, copy, ref>>
    BY <2>1 DEF DamageArchive, DamageReference, world, local
  <2>4. BundleIsSource'
    BY <2>3 DEF BundleInv, BundleIsSource
  <2>5. ~ reverted => \A c \in Clients : (BundleRead(c))'
    BY <2>3 DEF BundleInv, BundleRead, Seen, Agrees, Follows, WasChecked, WasCopied
  <2> QED
    BY <2>2, <2>3, <2>4, <2>5 DEF BundleInv
<1>2. ASSUME NEW c \in Clients, Kill(c) PROVE BundleInv'
  BY <1>2, BundleHome DEF Kill, Quiet, world
<1>3. ASSUME NEW a \in SUBSET DOMAIN archives, NEW b \in SUBSET DOMAIN references,
             PowerLoss(a, b)
      PROVE  BundleInv'
  <2>1. StoreInv'
    BY <1>0, <1>3, PowerLossStore
  <2>2. BundleIsSource'
    BY <1>3 DEF BundleInv, BundleIsSource, PowerLoss, world
  <2>3. \A c \in Clients : pc'[c] = "idle"
    BY <1>3 DEF PowerLoss
  <2>4. \A c \in Clients : (BundleRead(c))'
    BY <2>3 DEF BundleRead, Making
  <2> QED
    BY <2>1, <2>2, <2>3, <2>4 DEF BundleInv
<1> QED
  BY <1>1, <1>2, <1>3 DEF Faults

LEMMA BundleNext ==
  ASSUME BundleInv, [WNext]_wvars
  PROVE  BundleInv'
<1>1. ASSUME NEW p \in Paths, NEW v \in Contents \cup {NULL}, Edit(p, v) PROVE BundleInv'
  BY <1>1, BundleEdit DEF Edit
<1>2. ASSUME NEW c \in Clients, CreateStep(c) PROVE BundleInv'
  <2>1. CASE Create(c)
    BY <2>1, BundleCreate
  <2>2. CASE Baseline(c)
    BY <2>2, BundleBaseline
  <2>3. CASE Lstat(c) \/ ReadEntry(c)
    BY <2>3, BundleLook
  <2>4. CASE Refuse(c)
    BY <2>4, BundleMoves DEF Refuse, MovedTo, Quiet, world, counts
  <2>5. CASE Final(c)
    BY <2>5, BundleFinal
  <2>6. CASE Pack(c)
    BY <2>6, BundlePack
  <2>7. CASE Compare(c)
    BY <2>7, BundleCompare
  <2>8. CASE Replace(c) \/ SyncArchive(c) \/ WriteReference(c) \/ SyncReference(c)
    BY <2>8, BundleWrites
  <2> QED
    BY <1>2, <2>1, <2>2, <2>3, <2>4, <2>5, <2>6, <2>7, <2>8 DEF CreateStep
<1>3. ASSUME NEW c \in Clients, ReconstructStep(c) PROVE BundleInv'
  BY <1>3, BundleReconstruct, BundleView, BundleExtract, BundleInstall DEF ReconstructStep
<1>4. ASSUME NEW c \in Clients, Recover(c) PROVE BundleInv'
  BY <1>4, BundleHome DEF Recover, Quiet, world, counts
<1>5. CASE Discard \/ UNCHANGED wvars
  <2>1. UNCHANGED <<source, past, reverted, disk, damaged, returned, pc, at, first, copy, ref>>
    BY <1>5 DEF Discard, wvars, world, counts, local
  <2>2. StoreInv'
    BY <2>1 DEF BundleInv, StoreInv, StoreTypes, WTypeOK, Stored, Located, disk
  <2>3. ~ reverted => \A c \in Clients : (BundleRead(c))'
    BY <2>1 DEF BundleInv, BundleRead, Seen, Agrees, Follows, WasChecked, WasCopied
  <2> QED
    BY <2>1, <2>2, <2>3 DEF BundleInv, BundleIsSource
<1>6. CASE Faults
  BY <1>6, BundleFaults
<1> QED
  BY <1>1, <1>2, <1>3, <1>4, <1>5, <1>6 DEF WNext

LEMMA InitStore ==
  ASSUME WInit
  PROVE  StoreInv /\ BundleIsSource /\ \A c \in Clients : pc[c] = "idle"
<1>1. Nowhere \in Trees /\ 1 \in Paths
  BY BundlesAssumption DEF Nowhere, Trees, Paths
<1>2. source \in Trees
  <2>1. (CHOOSE v \in Contents : TRUE) \in Contents
    BY BundlesAssumption
  <2> QED
    BY <2>1 DEF WInit, Trees
<1>3. DOMAIN archives = {} /\ DOMAIN references = {}
  BY DEF WInit
<1>4. StoreTypes
  BY <1>1, <1>2, <1>3 DEF WInit, StoreTypes, WTypeOK, Labels
<1>5. Stored
  BY <1>3 DEF WInit, Stored
<1>6. \A c \in Clients : Located(c) /\ pc[c] = "idle"
  BY DEF WInit, Located, Making, Asking
<1> QED
  BY <1>4, <1>5, <1>6 DEF StoreInv, BundleIsSource, WInit

\* The bundle store's inductive invariant: files are whole unless damaged and
\* what was returned is synced, and a creator's snapshot and copy agree with one
\* state the workspace had wherever the workspace still has what was read.
THEOREM BundleInvariant == WSpec => []BundleInv
<1>1. WInit => BundleInv
  BY InitStore DEF BundleInv, BundleRead, Making
<1>2. BundleInv /\ [WNext]_wvars => BundleInv'
  BY BundleNext
<1> QED
  BY <1>1, <1>2, PTL DEF WSpec

\* No bundle create returns is a mixture of two states of the workspace, whoever
\* edits it while it is read, unless an edit is undone in time (create).
THEOREM BundlesAreSources == WSpec => []BundleIsSource
<1>1. BundleInv => BundleIsSource
  BY DEF BundleInv
<1> QED
  BY <1>1, BundleInvariant, PTL

\* What create returned survives any kill and any power loss, and no crash or
\* second creator makes a bundle a collision (create, fsync of the store).
THEOREM ReturnedBundlesAreDurable == WSpec => []ReturnedIsDurable
<1>1. BundleInv => ReturnedIsDurable
  BY DEF BundleInv, StoreInv, StoreTypes, WTypeOK, Stored, Located, ReturnedIsDurable
<1> QED
  BY <1>1, BundleInvariant, PTL

\* What materialize installs is the tree of the bundle it was asked for, however
\* the files of the store are damaged under it.
THEOREM MaterializedAreBundles == WSpec => MaterializedIsBundle
<1>1. ASSUME BundleInv, [WNext]_wvars, pc' # pc, target' # target, target' # NULL
      PROVE  target'.ref \in returned /\ target'.tree = target'.ref.tree
  <2>1. PICK c \in Clients : Install(c) /\ ~ Occupied
    <3>1. \A c \in Clients : ~ CreateStep(c) /\ ~ Recover(c) /\ ~ Kill(c)
      BY <1>1 DEF CreateStep, Create, Baseline, Lstat, ReadEntry, Refuse, Final, Pack, Compare,
                  Replace, SyncArchive, WriteReference, PutReference, SyncReference, Recover, Kill
    <3>2. \A c \in Clients : ReconstructStep(c) => Install(c)
      BY <1>1 DEF ReconstructStep, Reconstruct, ViewArchive, ViewReference, ViewCheck, Load, Check,
                  Extract
    <3>3. ~ Faults
      BY <1>1, <3>1 DEF Faults, DamageArchive, DamageReference, PowerLoss
    <3>4. ~ Discard /\ ~ UNCHANGED wvars
      BY <1>1 DEF Discard, wvars
    <3>5. \A p, v : ~ Edit(p, v)
      BY <1>1 DEF Edit, EditSource
    <3>6. \E c \in Clients : Install(c)
      BY <1>1, <3>1, <3>2, <3>3, <3>4, <3>5 DEF WNext
    <3> QED
      BY <1>1, <3>6 DEF Install
  <2>2. target' = [ref |-> ref[c], tree |-> copy[c]]
    BY <2>1 DEF Install
  <2>3. pc[c] = "install"
    BY <2>1 DEF Install
  <2>4. ref[c] \in returned /\ copy[c] = ref[c].tree
    BY <1>1, <2>3 DEF BundleInv, StoreInv, Located, Asking
  <2> QED
    BY <2>2, <2>4
<1>2. BundleInv /\ [WNext]_wvars =>
        [ pc' # pc /\ target' # target /\ target' # NULL =>
            target'.ref \in returned /\ target'.tree = target'.ref.tree ]_wvars
  BY <1>1
<1> QED
  BY <1>2, BundleInvariant, PTL DEF WSpec, MaterializedIsBundle

-----------------------------------------------------------------------------
(* The verifier asset store. *)

Rescanned(c, p) == pc[c] = "rescanned" \/ p < at[c]

AssetsRead(c) ==
  /\ pc[c] \in {"copy", "read"} => Seen(copy[c], 1..(at[c] - 1))
  /\ pc[c] = "copied" => Seen(copy[c], Paths)
  /\ pc[c] \in {"rescan", "rescanned"} =>
       /\ Seen(copy[c], Paths)
       /\ \E t \in past : \A p \in Paths :
            Follows(copy[c], t, p) /\ (Rescanned(c, p) => copy[c][p] = t[p])
  /\ pc[c] \in Making => ref[c].source \in past

\* A creator starts from nothing, and keeps something.
AssetsFresh(c) ==
  /\ pc[c] = "idle" => at[c] = 1 /\ copy[c] = Nowhere
  /\ pc[c] = "copied" => at[c] = 1
  /\ pc[c] \in {"copy", "read"} => \A p \in Paths : p >= at[c] => copy[c][p] = NULL
  /\ pc[c] \in {"rescan", "rescanned"} => copy[c] # Nowhere
  /\ pc[c] \in Making => ref[c].tree = ref[c].source /\ ref[c].tree # Nowhere
  /\ pc[c] = "compare" => ref[c] \in DOMAIN references

Mounts == {"mounted", "verifying", "accepted", "rejected"}

\* The mount of a verification: whose it is, and which trees it has had.
Mounted(c) ==
  /\ pc[c] \in Mounts => target # NULL /\ target.ref = ref[c]
  /\ pc[c] = "verifying" =>
       /\ target.tree \in target.had /\ ref[c].tree \in target.had
       /\ ~ reverted /\ target.tree = ref[c].tree => target.had = {ref[c].tree}
  /\ pc[c] = "accepted" /\ ~ reverted => target.had = {ref[c].tree}

OneMount == \A c, d \in Clients : pc[c] \in Mounts /\ pc[d] \in Mounts => c = d

MountType == target \in [ref : Refs, tree : Trees \ {Nowhere}, had : SUBSET Trees] \cup {NULL}

AssetsInv ==
  /\ StoreInv
  /\ BundleIsSource
  /\ ~ reverted => \A c \in Clients : AssetsRead(c)
  /\ \A c \in Clients : AssetsFresh(c) /\ Mounted(c)
  /\ OneMount /\ MountType
  /\ \A r \in returned : r.tree # Nowhere

\* What AssetsInv says of one process.
AssetsOwn(c) ==
  /\ ~ reverted => AssetsRead(c)
  /\ AssetsFresh(c)

\* A step of one process that leaves the source and the mount alone keeps what
\* the others read and mounted.
LEMMA AssetsStep ==
  ASSUME AssetsInv, NEW c \in Clients, Frame(c), Grows,
         UNCHANGED <<source, past, reverted, target>>,
         StoreInv', BundleIsSource', \A r \in returned' : r.tree # Nowhere,
         (AssetsOwn(c))', (Mounted(c))', pc'[c] \in Mounts => pc[c] \in Mounts
  PROVE  AssetsInv'
<1>1. ASSUME NEW d \in Clients PROVE (AssetsOwn(d) /\ Mounted(d))'
  <2>1. CASE d = c
    BY <2>1
  <2>2. CASE d # c
    <3>1. /\ pc'[d] = pc[d] /\ at'[d] = at[d] /\ copy'[d] = copy[d] /\ ref'[d] = ref[d]
      BY <2>2 DEF Frame
    <3>2. (~ reverted => AssetsRead(d)) /\ AssetsFresh(d) /\ Mounted(d)
      BY DEF AssetsInv
    <3>3. (Mounted(d))'
      BY <3>1, <3>2 DEF Mounted
    <3>4. (AssetsFresh(d))'
      BY <3>1, <3>2 DEF AssetsFresh, Grows
    <3>5. ~ reverted => (AssetsRead(d))'
      BY <3>1, <3>2 DEF AssetsRead, Seen, Follows, Rescanned
    <3> QED
      BY <3>3, <3>4, <3>5 DEF AssetsOwn
  <2> QED
    BY <2>1, <2>2
<1>2. OneMount'
  BY DEF AssetsInv, OneMount, Frame
<1>3. MountType'
  BY DEF AssetsInv, MountType
<1> QED
  BY <1>1, <1>2, <1>3 DEF AssetsInv, AssetsOwn, OneMount, MountType

LEMMA AssetsQuiet ==
  ASSUME AssetsInv, NEW c \in Clients, Frame(c), Quiet, UNCHANGED target, (Located(c))',
         (AssetsOwn(c))', (Mounted(c))', pc'[c] \in Mounts => pc[c] \in Mounts
  PROVE  AssetsInv'
<1>1. StoreInv'
  BY QuietStore DEF AssetsInv
<1>2. BundleIsSource' /\ \A r \in returned' : r.tree # Nowhere
  BY DEF AssetsInv, BundleIsSource, Quiet
<1>3. Grows /\ UNCHANGED <<source, past, reverted>>
  BY DEF Grows, Quiet, disk
<1> QED
  BY <1>1, <1>2, <1>3, AssetsStep

LEMMA AssetsMoves ==
  ASSUME AssetsInv, NEW c \in Clients, UNCHANGED target,
         \/ MovedTo(c, {"failed", "refused"})
         \/ pc[c] \in {"load", "open"} /\ MovedTo(c, {"open", "fetch"})
         \/ pc[c] \in {"compare", "validate"} /\ MovedTo(c, {"reference"})
  PROVE  AssetsInv'
<1>0. StoreInv
  BY DEF AssetsInv
<1>1. CASE MovedTo(c, {"failed", "refused"})
  <2>1. Frame(c) /\ Quiet /\ pc'[c] \in {"failed", "refused"}
    BY <1>0, <1>1, Moves DEF Labels
  <2>2. (Located(c))' /\ (AssetsOwn(c))' /\ (Mounted(c))'
    BY <2>1 DEF Located, AssetsOwn, AssetsRead, AssetsFresh, Mounted, Making, Asking, Mounts
  <2> QED
    BY <2>1, <2>2, AssetsQuiet DEF Mounts
<1>2. CASE pc[c] \in {"load", "open"} /\ MovedTo(c, {"open", "fetch"})
  <2>1. Frame(c) /\ Quiet /\ pc'[c] \in {"open", "fetch"} /\ UNCHANGED ref
    BY <1>0, <1>2, Moves DEF Labels
  <2>2. ref[c] \in returned
    BY <1>0, <1>2 DEF StoreInv, Located, Asking
  <2>3. (Located(c))' /\ (AssetsOwn(c))' /\ (Mounted(c))'
    BY <2>1, <2>2
    DEF Located, AssetsOwn, AssetsRead, AssetsFresh, Mounted, Making, Asking, Mounts, Quiet
  <2> QED
    BY <2>1, <2>3, AssetsQuiet DEF Mounts
<1>3. CASE pc[c] \in {"compare", "validate"} /\ MovedTo(c, {"reference"})
  <2>1. Frame(c) /\ Quiet /\ pc'[c] \in {"reference"} /\ UNCHANGED ref
    BY <1>0, <1>3, Moves DEF Labels
  <2>2. Located(c)
    BY <1>0 DEF StoreInv
  <2>3. (Located(c))'
    BY <1>3, <2>1, <2>2 DEF Located, Making, Asking, Quiet, disk
  <2>4. (~ reverted => AssetsRead(c)) /\ AssetsFresh(c)
    BY DEF AssetsInv
  <2>5. (AssetsOwn(c))' /\ (Mounted(c))'
    BY <1>3, <2>1, <2>4 DEF AssetsOwn, AssetsRead, AssetsFresh, Mounted, Making, Mounts, Quiet
  <2> QED
    BY <2>1, <2>3, <2>5, AssetsQuiet DEF Mounts
<1> QED
  BY <1>1, <1>2, <1>3

LEMMA AssetsCreate ==
  ASSUME AssetsInv, NEW c \in Clients, CreateAssets(c)
  PROVE  AssetsInv'
<1>1. /\ Frame(c) /\ Quiet /\ pc'[c] = "copy" /\ pc[c] = "idle"
      /\ UNCHANGED <<at, copy, target>>
  BY DEF AssetsInv, StoreInv, StoreTypes, WTypeOK, Frame, LocalTypes, CreateAssets, Go, Labels,
         Quiet, world
<1>2. at[c] = 1 /\ copy[c] = Nowhere
  BY <1>1 DEF AssetsInv, AssetsFresh
<1>3. (Located(c))' /\ (Mounted(c))'
  BY <1>1 DEF Located, Mounted, Making, Asking, Mounts
<1>4. (AssetsRead(c))'
  BY <1>1, <1>2 DEF AssetsRead, Seen, Making
<1>5. (AssetsFresh(c))'
  BY <1>1, <1>2 DEF AssetsFresh, Nowhere, Making
<1> QED
  BY <1>1, <1>3, <1>4, <1>5, AssetsQuiet DEF AssetsOwn, Mounts

\* An entry is copied, or there is none.
LEMMA AssetsCopy ==
  ASSUME AssetsInv, NEW c \in Clients, pc[c] \in {"copy", "read"}, Quiet,
         Advance(c, "copy", "copied"), UNCHANGED <<first, ref, target>>,
         copy' \in [Clients -> Trees],
         \A d \in Clients \ {c} : copy'[d] = copy[d],
         \A p \in Paths : copy'[c][p] = IF p = at[c] THEN source[p] ELSE copy[c][p]
  PROVE  AssetsInv'
<1>0. StoreInv /\ source \in past
  BY DEF AssetsInv, StoreInv, StoreTypes
<1>1. /\ pc' \in [Clients -> Labels] /\ at' \in [Clients -> Paths]
      /\ \A d \in Clients \ {c} : pc'[d] = pc[d] /\ at'[d] = at[d]
      /\ at[c] \in 1..NPaths /\ NPaths \in Nat
      /\ \/ at[c] = NPaths /\ pc'[c] = "copied" /\ at'[c] = 1
         \/ at[c] # NPaths /\ pc'[c] = "copy" /\ at'[c] = at[c] + 1
  BY <1>0, AdvanceIs DEF Labels
<1>2. Frame(c)
  BY <1>0, <1>1 DEF StoreInv, StoreTypes, WTypeOK, Frame, LocalTypes
<1>3. (Located(c))' /\ (Mounted(c))' /\ pc'[c] \in {"copy", "copied"}
  BY <1>1 DEF Located, Mounted, Making, Asking, Mounts
<1>4. ASSUME ~ reverted PROVE (AssetsRead(c))'
  <2>1. Seen(copy[c], 1..(at[c] - 1))
    BY <1>4 DEF AssetsInv, AssetsRead
  <2>2. \A p \in 1..at[c] : copy'[c][p] \in {t[p] : t \in past}
    BY <1>0, <1>1, <2>1 DEF Seen, Paths
  <2>3. past' = past
    BY DEF Quiet
  <2>4. CASE at[c] = NPaths /\ pc'[c] = "copied"
    BY <2>2, <2>3, <2>4 DEF AssetsRead, Seen, Paths, Making
  <2>5. CASE pc'[c] = "copy" /\ at'[c] = at[c] + 1
    BY <1>1, <2>2, <2>3, <2>5 DEF AssetsRead, Seen, Paths, Making
  <2> QED
    BY <1>1, <2>4, <2>5
<1>5. (AssetsFresh(c))'
  <2>1. AssetsFresh(c)
    BY DEF AssetsInv
  <2>2. ASSUME NEW p \in Paths, p > at[c] PROVE copy'[c][p] = NULL
    BY <1>1, <2>1, <2>2 DEF AssetsFresh, Paths
  <2> QED
    BY <1>1, <2>2 DEF AssetsFresh, Paths, Making
<1>6. (AssetsOwn(c))'
  BY <1>4, <1>5 DEF AssetsOwn, Quiet
<1> QED
  BY <1>2, <1>3, <1>6, AssetsQuiet DEF Mounts

LEMMA AssetsLook ==
  ASSUME AssetsInv, NEW c \in Clients, StatAsset(c) \/ CopyAsset(c)
  PROVE  AssetsInv'
<1>0. /\ Quiet /\ UNCHANGED <<first, ref, target>> /\ pc[c] \in {"copy", "read"} /\ StoreInv
  BY DEF StatAsset, CopyAsset, Quiet, world, counts, AssetsInv
<1>a. at[c] \in Paths /\ copy \in [Clients -> Trees] /\ source \in Trees
  BY <1>0 DEF StoreInv, StoreTypes, WTypeOK
<1>1. CASE source[at[c]] = NULL /\ Advance(c, "copy", "copied") /\ UNCHANGED copy
  <2>1. copy[c][at[c]] = NULL
    BY <1>0, <1>a DEF AssetsInv, AssetsFresh, Paths
  <2>2. \A p \in Paths : copy'[c][p] = IF p = at[c] THEN source[p] ELSE copy[c][p]
    BY <1>1, <2>1
  <2>3. copy' \in [Clients -> Trees] /\ \A d \in Clients \ {c} : copy'[d] = copy[d]
    BY <1>a, <1>1
  <2> QED
    BY <1>0, <1>1, <2>2, <2>3, AssetsCopy
<1>2. CASE /\ copy' = [copy EXCEPT ![c][at[c]] = source[at[c]]]
           /\ Advance(c, "copy", "copied")
  <2>1. /\ \A p \in Paths : copy'[c][p] = IF p = at[c] THEN source[p] ELSE copy[c][p]
        /\ copy' \in [Clients -> Trees] /\ \A d \in Clients \ {c} : copy'[d] = copy[d]
    BY <1>a, <1>2 DEF Trees
  <2> QED
    BY <1>0, <1>2, <2>1, AssetsCopy
<1>3. CASE Go(c, "read") /\ UNCHANGED <<copy, at>> /\ pc[c] = "copy"
  <2>1. Frame(c) /\ pc'[c] = "read"
    BY <1>0, <1>3 DEF StoreInv, StoreTypes, WTypeOK, Frame, LocalTypes, Go, Labels
  <2>2. (Located(c))' /\ (Mounted(c))'
    BY <2>1 DEF Located, Mounted, Making, Asking, Mounts
  <2>3. (AssetsOwn(c))'
    BY <1>0, <1>3, <2>1 DEF AssetsInv, AssetsOwn, AssetsRead, AssetsFresh, Seen, Making, Quiet
  <2> QED
    BY <1>0, <2>1, <2>2, <2>3, AssetsQuiet DEF Mounts
<1>4. CASE Go(c, "failed") /\ UNCHANGED <<copy, at>>
  BY <1>0, <1>4, AssetsMoves DEF MovedTo
<1> QED
  BY <1>1, <1>2, <1>3, <1>4 DEF StatAsset, CopyAsset

\* The copy is compared with the source again, from its first path on.
LEMMA AssetsCopied ==
  ASSUME AssetsInv, NEW c \in Clients, Copied(c)
  PROVE  AssetsInv'
<1>0. /\ Quiet /\ UNCHANGED <<at, first, copy, ref, target>> /\ pc[c] = "copied" /\ StoreInv
  BY DEF Copied, Quiet, world, counts, AssetsInv
<1>1. CASE Go(c, "rescan") /\ copy[c] # Nowhere
  <2>1. Frame(c) /\ pc'[c] = "rescan"
    BY <1>0, <1>1 DEF StoreInv, StoreTypes, WTypeOK, Frame, LocalTypes, Go, Labels
  <2>2. (Located(c))' /\ (Mounted(c))'
    BY <2>1 DEF Located, Mounted, Making, Asking, Mounts
  <2>3. at[c] = 1 /\ source \in past
    BY <1>0 DEF AssetsInv, AssetsFresh, StoreInv, StoreTypes
  <2>4. ASSUME ~ reverted PROVE (AssetsRead(c))'
    <3>1. Seen(copy[c], Paths)
      BY <1>0, <2>4 DEF AssetsInv, AssetsRead
    <3>2. \A p \in Paths : ~ (Rescanned(c, p))'
      BY <1>0, <2>1, <2>3 DEF Rescanned, Paths
    <3>3. \A p \in Paths : (Follows(copy[c], source, p))'
      BY DEF Follows
    <3>4. source' \in past'
      BY <1>0, <2>3 DEF Quiet
    <3>5. (Seen(copy[c], Paths))'
      BY <1>0, <3>1 DEF Seen, Quiet
    <3> QED
      BY <2>1, <3>2, <3>3, <3>4, <3>5 DEF AssetsRead, Making
  <2>5. (AssetsFresh(c))'
    BY <1>0, <1>1, <2>1 DEF AssetsFresh, Making
  <2> QED
    BY <1>0, <2>1, <2>2, <2>4, <2>5, AssetsQuiet DEF Mounts, AssetsOwn, Quiet
<1>2. CASE Go(c, "failed")
  BY <1>0, <1>2, AssetsMoves DEF MovedTo
<1> QED
  BY <1>1, <1>2 DEF Copied

LEMMA AssetsRescan ==
  ASSUME AssetsInv, NEW c \in Clients, Rescan(c)
  PROVE  AssetsInv'
<1>0. /\ Quiet /\ UNCHANGED <<first, copy, ref, target>> /\ pc[c] = "rescan" /\ StoreInv
  BY DEF Rescan, Quiet, world, counts, AssetsInv
<1>1. CASE source[at[c]] = copy[c][at[c]] /\ Advance(c, "rescan", "rescanned")
  <2>1. /\ pc' \in [Clients -> Labels] /\ at' \in [Clients -> Paths]
        /\ \A d \in Clients \ {c} : pc'[d] = pc[d] /\ at'[d] = at[d]
        /\ at[c] \in 1..NPaths /\ NPaths \in Nat
        /\ \/ at[c] = NPaths /\ pc'[c] = "rescanned" /\ at'[c] = 1
           \/ at[c] # NPaths /\ pc'[c] = "rescan" /\ at'[c] = at[c] + 1
    BY <1>0, <1>1, AdvanceIs DEF Labels
  <2>2. Frame(c)
    BY <1>0, <2>1 DEF StoreInv, StoreTypes, WTypeOK, Frame, LocalTypes
  <2>3. (Located(c))' /\ (Mounted(c))' /\ pc'[c] \in {"rescan", "rescanned"}
    BY <2>1 DEF Located, Mounted, Making, Asking, Mounts
  <2>4. ASSUME ~ reverted PROVE (AssetsRead(c))'
    <3>1. /\ Seen(copy[c], Paths)
          /\ \E t \in past : \A p \in Paths :
               Follows(copy[c], t, p) /\ (Rescanned(c, p) => copy[c][p] = t[p])
      BY <1>0, <2>4 DEF AssetsInv, AssetsRead
    <3>2. PICK t \in past : \A p \in Paths :
               Follows(copy[c], t, p) /\ (Rescanned(c, p) => copy[c][p] = t[p])
      BY <3>1
    <3>3. \A p \in Paths : (Rescanned(c, p))' => p = at[c] \/ Rescanned(c, p)
      BY <1>0, <2>1 DEF Rescanned, Paths
    <3>4. \A p \in Paths : (Follows(copy[c], t, p) /\ (Rescanned(c, p) => copy[c][p] = t[p]))'
      BY <1>0, <1>1, <3>2, <3>3 DEF Follows, Quiet
    <3>5. (Seen(copy[c], Paths))' /\ past' = past
      BY <1>0, <3>1 DEF Seen, Quiet
    <3> QED
      BY <2>3, <3>4, <3>5 DEF AssetsRead, Making
  <2>5. (AssetsFresh(c))'
    BY <1>0, <2>3 DEF AssetsInv, AssetsFresh, Making
  <2> QED
    BY <1>0, <2>2, <2>3, <2>4, <2>5, AssetsQuiet DEF Mounts, AssetsOwn, Quiet
<1>2. CASE Go(c, "failed") /\ UNCHANGED at
  BY <1>0, <1>2, AssetsMoves DEF MovedTo
<1> QED
  BY <1>1, <1>2 DEF Rescan

LEMMA AssetsPack ==
  ASSUME AssetsInv, NEW c \in Clients, PackAssets(c)
  PROVE  AssetsInv'
<1>0. /\ Quiet /\ UNCHANGED <<at, first, copy, target>> /\ pc[c] = "rescanned" /\ StoreInv
  BY DEF PackAssets, Quiet, world, counts, AssetsInv
<1>1. CASE Go(c, "failed") /\ UNCHANGED ref
  BY <1>0, <1>1, AssetsMoves DEF MovedTo
<1>2. CASE /\ ref' = [ref EXCEPT ![c] = [source |-> copy[c], tree |-> copy[c]]]
           /\ Go(c, IF ref'[c] \notin DOMAIN archives THEN "replace"
                    ELSE IF ref'[c] \in DOMAIN references THEN "compare"
                    ELSE "validate")
  <2>1. /\ copy \in [Clients -> Trees] /\ past \subseteq Trees
        /\ ref \in [Clients -> Refs \cup {NULL}] /\ pc \in [Clients -> Labels]
    BY <1>0 DEF StoreInv, StoreTypes, WTypeOK
  <2>2. ref'[c] = [source |-> copy[c], tree |-> copy[c]]
    BY <1>2, <2>1
  <2>3. ref'[c] \in Refs
    BY <2>1, <2>2 DEF Refs
  <2>4. /\ ref' \in [Clients -> Refs \cup {NULL}]
        /\ \A d \in Clients \ {c} : ref'[d] = ref[d]
    BY <1>2, <2>1, <2>2, <2>3
  <2>5. /\ pc' \in [Clients -> Labels] /\ \A d \in Clients \ {c} : pc'[d] = pc[d]
        /\ \/ pc'[c] = "replace"
           \/ pc'[c] = "compare" /\ ref'[c] \in DOMAIN archives /\ ref'[c] \in DOMAIN references
           \/ pc'[c] = "validate" /\ ref'[c] \in DOMAIN archives
    BY <1>2, <2>1 DEF Go, Labels
  <2>6. Frame(c)
    BY <1>0, <2>4, <2>5 DEF StoreInv, StoreTypes, WTypeOK, Frame, LocalTypes
  <2>7. (Located(c))' /\ (Mounted(c))'
    BY <1>0, <2>3, <2>5 DEF Located, Mounted, Making, Asking, Mounts, Quiet, disk
  <2>8. ASSUME ~ reverted PROVE (AssetsRead(c))'
    <3>1. PICK t \in past : \A p \in Paths : copy[c][p] = t[p]
      BY <1>0, <2>8 DEF AssetsInv, AssetsRead, Rescanned
    <3>2. copy[c] \in Trees /\ t \in Trees
      BY <2>1
    <3>3. copy[c] = t
      BY <3>1, <3>2 DEF Trees
    <3> QED
      BY <1>0, <2>2, <2>5, <3>3 DEF AssetsRead, Making, Quiet
  <2>9. (AssetsFresh(c))'
    <3>1. copy[c] # Nowhere
      BY <1>0 DEF AssetsInv, AssetsFresh
    <3> QED
      BY <1>0, <2>2, <2>5, <3>1 DEF AssetsFresh, Making, Quiet, disk
  <2> QED
    BY <1>0, <2>5, <2>6, <2>7, <2>8, <2>9, AssetsQuiet DEF Mounts, AssetsOwn, Quiet
<1> QED
  BY <1>1, <1>2 DEF PackAssets

\* A stored reference or bundle that is not what it should be was damaged.
LEMMA AssetsCompare ==
  ASSUME AssetsInv, NEW c \in Clients, CompareAssets(c) \/ ValidateBundle(c)
  PROVE  AssetsInv'
<1>0. /\ Quiet /\ UNCHANGED <<at, first, copy, ref, target>> /\ StoreInv
      /\ pc[c] \in {"compare", "validate"}
  BY DEF CompareAssets, ValidateBundle, Quiet, world, counts, AssetsInv
<1>1. CASE Go(c, "reference")
  BY <1>0, <1>1, AssetsMoves DEF MovedTo
<1>2. CASE Go(c, "failed")
  BY <1>0, <1>2, AssetsMoves DEF MovedTo
<1>3. CASE /\ Go(c, "collision")
           /\ \/ pc[c] = "compare" /\ references[ref[c]] # ref[c]
              \/ pc[c] = "validate" /\ archives[ref[c]] # Packed(ref[c])
  <2>1. Frame(c) /\ pc'[c] = "collision"
    BY <1>0, <1>3 DEF StoreInv, StoreTypes, WTypeOK, Frame, LocalTypes, Go, Labels
  <2>2. damaged
    BY <1>0, <1>3 DEF AssetsInv, StoreInv, Located, Stored, AssetsFresh
  <2>3. (Located(c))' /\ (AssetsOwn(c))' /\ (Mounted(c))'
    BY <1>0, <2>1, <2>2
    DEF Located, AssetsOwn, AssetsRead, AssetsFresh, Mounted, Making, Asking, Mounts, Quiet
  <2> QED
    BY <1>0, <2>1, <2>3, AssetsQuiet DEF Mounts
<1> QED
  BY <1>0, <1>1, <1>2, <1>3 DEF CompareAssets, ValidateBundle

\* The steps that write the store.
LEMMA AssetsWrites ==
  ASSUME AssetsInv, NEW c \in Clients,
         InstallBundle(c) \/ SyncArchive(c) \/ WriteAssetReference(c) \/ SyncReference(c)
  PROVE  AssetsInv'
<1>0. StoreInv
  BY DEF AssetsInv
<1>1. CASE Go(c, "failed") /\ InstallBundle(c) /\ UNCHANGED archives
  BY <1>1, AssetsMoves DEF MovedTo, InstallBundle, Quiet, world, counts, disk
<1>2. CASE \/ InstallBundle(c) /\ archives' = Put(archives, ref[c], Packed(ref[c])) /\ Go(c, "sync")
           \/ SyncArchive(c) \/ WriteAssetReference(c) \/ SyncReference(c)
  <2>1. StoreInv' /\ Frame(c)
    <3>1. CASE InstallBundle(c) /\ archives' = Put(archives, ref[c], Packed(ref[c])) /\ Go(c, "sync")
      BY <1>0, <3>1, PutArchiveStore DEF InstallBundle
    <3>2. CASE SyncArchive(c)
      BY <1>0, <3>2, SyncArchiveStore
    <3>3. CASE WriteAssetReference(c)
      BY <1>0, <3>3, PutReferenceStore DEF WriteAssetReference
    <3>4. CASE SyncReference(c)
      BY <1>0, <3>4, SyncReferenceStore
    <3> QED
      BY <1>2, <3>1, <3>2, <3>3, <3>4
  <2>2. UNCHANGED <<source, past, reverted, target>> /\ Grows
    BY <1>2 DEF InstallBundle, SyncArchive, WriteAssetReference, PutReference, SyncReference,
                world, counts, Grows, Put
  <2>3. /\ pc[c] \in Making
        /\ (~ reverted => AssetsRead(c)) /\ AssetsFresh(c)
    BY <1>2 DEF InstallBundle, SyncArchive, WriteAssetReference, PutReference, SyncReference,
                Making, AssetsInv
  <2>4. CASE SyncReference(c)
    <3>1. pc'[c] = "idle" /\ at'[c] = 1 /\ copy'[c] = Nowhere
      BY <1>0, <2>4, HomeFrame DEF SyncReference
    <3>2. returned' = returned \cup {ref[c]}
      BY <2>4 DEF SyncReference
    <3>3. BundleIsSource' /\ \A r \in returned' : r.tree # Nowhere
      BY <2>2, <2>3, <3>2 DEF AssetsInv, BundleIsSource, AssetsRead, AssetsFresh
    <3>4. (AssetsOwn(c))' /\ (Mounted(c))'
      BY <3>1 DEF AssetsOwn, AssetsRead, AssetsFresh, Mounted, Making, Mounts
    <3> QED
      BY <2>1, <2>2, <3>1, <3>3, <3>4, AssetsStep DEF Mounts
  <2>5. CASE ~ SyncReference(c)
    <3>1. /\ pc'[c] \in {"sync", "reference", "sync_reference"} /\ UNCHANGED <<ref, returned>>
      BY <1>0, <1>2, <2>5 DEF InstallBundle, SyncArchive, WriteAssetReference, PutReference, Go,
                         StoreInv, StoreTypes, WTypeOK
    <3>2. BundleIsSource' /\ \A r \in returned' : r.tree # Nowhere
      BY <2>2, <3>1 DEF AssetsInv, BundleIsSource
    <3>3. (AssetsOwn(c))' /\ (Mounted(c))'
      BY <2>2, <2>3, <3>1 DEF AssetsOwn, AssetsRead, AssetsFresh, Mounted, Making, Mounts
    <3> QED
      BY <2>1, <2>2, <3>1, <3>2, <3>3, AssetsStep DEF Mounts
  <2> QED
    BY <2>4, <2>5
<1> QED
  BY <1>1, <1>2 DEF InstallBundle

LEMMA AssetsHome ==
  ASSUME AssetsInv, NEW c \in Clients, Home(c), Quiet, UNCHANGED target
  PROVE  AssetsInv'
<1>1. /\ Frame(c) /\ (Located(c))'
      /\ pc'[c] = "idle" /\ at'[c] = 1 /\ copy'[c] = Nowhere
  BY HomeFrame DEF AssetsInv
<1>2. (AssetsOwn(c))' /\ (Mounted(c))'
  BY <1>1 DEF AssetsOwn, AssetsRead, AssetsFresh, Mounted, Making, Mounts
<1> QED
  BY <1>1, <1>2, AssetsQuiet DEF Mounts

LEMMA AssetsMaterialize ==
  ASSUME AssetsInv, NEW c \in Clients, NEW r \in returned, Materialize(c, r)
  PROVE  AssetsInv'
<1>1. returned \subseteq Refs /\ ref \in [Clients -> Refs \cup {NULL}]
  BY DEF AssetsInv, StoreInv, StoreTypes, WTypeOK
<1>2. /\ ref' \in [Clients -> Refs \cup {NULL}] /\ ref'[c] = r
      /\ \A d \in Clients \ {c} : ref'[d] = ref[d]
  BY <1>1 DEF Materialize
<1>3. /\ pc' \in [Clients -> Labels] /\ pc'[c] = "load"
      /\ \A d \in Clients \ {c} : pc'[d] = pc[d]
  BY DEF Materialize, Go, Labels, AssetsInv, StoreInv, StoreTypes, WTypeOK
<1>4. Frame(c) /\ Quiet /\ UNCHANGED target
  BY <1>2, <1>3 DEF AssetsInv, StoreInv, StoreTypes, WTypeOK, Frame, LocalTypes, Materialize,
                    Quiet, world
<1>5. (Located(c))' /\ (AssetsOwn(c))' /\ (Mounted(c))'
  BY <1>2, <1>3, <1>4
  DEF Located, AssetsOwn, AssetsRead, AssetsFresh, Mounted, Making, Asking, Mounts, Quiet
<1> QED
  BY <1>3, <1>4, <1>5, AssetsQuiet DEF Mounts

LEMMA AssetsFetch ==
  ASSUME AssetsInv, NEW c \in Clients, Fetch(c)
  PROVE  AssetsInv'
<1>0. /\ Quiet /\ UNCHANGED <<first, ref, target>> /\ pc[c] = "fetch" /\ StoreInv
  BY DEF Fetch, Quiet, world, counts, AssetsInv
<1>1. /\ ref[c] \in returned /\ ref[c] \in Refs
      /\ at[c] \in Paths /\ copy \in [Clients -> Trees]
  BY <1>0 DEF StoreInv, StoreTypes, WTypeOK, Located, Asking
<1>2. ref[c].tree[at[c]] \in Contents \cup {NULL}
  BY <1>1 DEF Refs, Trees
<1>3. CASE /\ Advance(c, "fetch", "seal")
           /\ \/ UNCHANGED copy
              \/ copy' = [copy EXCEPT ![c][at[c]] = ref[c].tree[at[c]]]
  <2>1. /\ pc' \in [Clients -> Labels] /\ at' \in [Clients -> Paths]
        /\ \A d \in Clients \ {c} : pc'[d] = pc[d] /\ at'[d] = at[d]
        /\ pc'[c] \in {"fetch", "seal"}
    <3>1. "fetch" \in Labels /\ "seal" \in Labels
      BY DEF Labels
    <3> QED
      BY <1>0, <1>3, <3>1, AdvanceIs
  <2>2. copy' \in [Clients -> Trees] /\ \A d \in Clients \ {c} : copy'[d] = copy[d]
    BY <1>1, <1>2, <1>3 DEF Trees
  <2>3. Frame(c)
    BY <1>0, <2>1, <2>2 DEF StoreInv, StoreTypes, WTypeOK, Frame, LocalTypes
  <2>4. (Located(c))' /\ (AssetsOwn(c))' /\ (Mounted(c))'
    BY <1>0, <1>1, <2>1
    DEF Located, AssetsOwn, AssetsRead, AssetsFresh, Mounted, Making, Asking, Mounts, Quiet
  <2> QED
    BY <1>0, <2>1, <2>3, <2>4, AssetsQuiet DEF Mounts
<1>4. CASE Go(c, "refused") /\ UNCHANGED <<copy, at>>
  BY <1>0, <1>4, AssetsMoves DEF MovedTo
<1> QED
  BY <1>3, <1>4 DEF Fetch

\* The steps that change the mount: nobody else has one.
LEMMA AssetsMountStep ==
  ASSUME AssetsInv, NEW c \in Clients, Frame(c), Quiet, MountType', (Located(c))',
         (AssetsOwn(c))', (Mounted(c))', \A d \in Clients \ {c} : pc[d] \notin Mounts
  PROVE  AssetsInv'
<1>1. StoreInv'
  BY QuietStore DEF AssetsInv
<1>2. BundleIsSource' /\ \A r \in returned' : r.tree # Nowhere
  BY DEF AssetsInv, BundleIsSource, Quiet
<1>3. ASSUME NEW d \in Clients PROVE (AssetsOwn(d) /\ Mounted(d))'
  <2>1. CASE d = c
    BY <2>1
  <2>2. CASE d # c
    <3>1. /\ pc'[d] = pc[d] /\ at'[d] = at[d] /\ copy'[d] = copy[d] /\ ref'[d] = ref[d]
      BY <2>2 DEF Frame
    <3>2. (~ reverted => AssetsRead(d)) /\ AssetsFresh(d) /\ pc[d] \notin Mounts
      BY <2>2 DEF AssetsInv
    <3>3. (Mounted(d))'
      BY <3>1, <3>2 DEF Mounted, Mounts
    <3>4. (AssetsFresh(d))'
      BY <3>1, <3>2 DEF AssetsFresh, Quiet, disk
    <3>5. ~ reverted => (AssetsRead(d))'
      BY <3>1, <3>2 DEF AssetsRead, Seen, Follows, Rescanned, Quiet
    <3> QED
      BY <3>3, <3>4, <3>5 DEF AssetsOwn, Quiet
  <2> QED
    BY <2>1, <2>2
<1>4. OneMount'
  BY DEF OneMount, Frame
<1> QED
  BY <1>1, <1>2, <1>3, <1>4 DEF AssetsInv, AssetsOwn

\* A mount is made where there is none.
LEMMA AssetsSeal ==
  ASSUME AssetsInv, NEW c \in Clients, Seal(c)
  PROVE  AssetsInv'
<1>0. /\ Quiet /\ UNCHANGED <<at, first, copy, ref>> /\ pc[c] = "seal" /\ StoreInv
  BY DEF Seal, Quiet, world, counts, AssetsInv
<1>1. CASE /\ copy[c] = ref[c].tree /\ ~ Occupied /\ Go(c, "mounted")
           /\ target' = [ref |-> ref[c], tree |-> copy[c], had |-> {}]
  <2>1. target = NULL
    BY <1>1 DEF AssetsInv, MountType, Occupied
  <2>2. \A d \in Clients : pc[d] \notin Mounts
    BY <2>1 DEF AssetsInv, Mounted
  <2>3. ref[c] \in returned /\ ref[c] \in Refs /\ ref[c].tree # Nowhere
    BY <1>0 DEF AssetsInv, StoreInv, StoreTypes, WTypeOK, Located, Asking
  <2>4. target' # NULL /\ target'.ref = ref[c] /\ MountType'
    <3>1. target' \in [ref : Refs, tree : Trees \ {Nowhere}, had : SUBSET Trees]
      BY <1>1, <2>3 DEF Refs
    <3>2. target' # NULL
      BY <3>1, AssetsAssumption
    <3> QED
      BY <1>1, <3>1, <3>2 DEF MountType
  <2>5. Frame(c) /\ pc'[c] = "mounted"
    BY <1>0, <1>1 DEF StoreInv, StoreTypes, WTypeOK, Frame, LocalTypes, Go, Labels
  <2>6. (Located(c))' /\ (AssetsOwn(c))' /\ (Mounted(c))'
    BY <1>0, <2>3, <2>4, <2>5
    DEF Located, AssetsOwn, AssetsRead, AssetsFresh, Mounted, Making, Asking, Mounts, Quiet
  <2> QED
    BY <1>0, <2>2, <2>4, <2>5, <2>6, AssetsMountStep
<1>2. CASE Go(c, "refused") /\ UNCHANGED target
  BY <1>0, <1>2, AssetsMoves DEF MovedTo
<1> QED
  BY <1>1, <1>2 DEF Seal

LEMMA AssetsVerify ==
  ASSUME AssetsInv, NEW c \in Clients, BeforeVerification(c) \/ AfterVerification(c)
  PROVE  AssetsInv'
<1>0. /\ Quiet /\ UNCHANGED <<at, first, copy, ref>> /\ pc[c] \in {"mounted", "verifying"}
      /\ StoreInv /\ Mounted(c)
  BY DEF BeforeVerification, AfterVerification, Quiet, world, counts, AssetsInv
<1>1. \A d \in Clients \ {c} : pc[d] \notin Mounts
  BY <1>0 DEF AssetsInv, OneMount, Mounts
<1>2. /\ target # NULL /\ target.ref = ref[c]
      /\ target \in [ref : Refs, tree : Trees \ {Nowhere}, had : SUBSET Trees]
  BY <1>0 DEF Mounted, Mounts, AssetsInv, MountType
<1>3. ref[c] \in returned
  BY <1>0 DEF StoreInv, Located, Asking
<1>4. ASSUME NEW label \in {"verifying", "accepted", "rejected"}, Go(c, label),
             MountType', (Mounted(c))'
      PROVE  AssetsInv'
  <2>1. Frame(c) /\ pc'[c] = label
    BY <1>0, <1>4 DEF StoreInv, StoreTypes, WTypeOK, Frame, LocalTypes, Go, Labels
  <2>2. (Located(c))' /\ (AssetsOwn(c))'
    BY <1>0, <1>3, <2>1 DEF Located, AssetsOwn, AssetsRead, AssetsFresh, Making, Asking, Quiet
  <2> QED
    BY <1>0, <1>1, <1>4, <2>1, <2>2, AssetsMountStep
<1>5. \A label : Go(c, label) => pc'[c] = label
  BY <1>0 DEF Go, StoreInv, StoreTypes, WTypeOK
<1>6. CASE Go(c, "rejected") /\ UNCHANGED target
  <2>1. MountType' /\ (Mounted(c))'
    BY <1>0, <1>2, <1>5, <1>6 DEF MountType, Mounted, Mounts
  <2> QED
    BY <1>4, <1>6, <2>1
<1>7. CASE /\ Go(c, "verifying") /\ target.tree = ref[c].tree
           /\ target' = [target EXCEPT !.had = {target.tree}]
  <2>1. /\ target' \in [ref : Refs, tree : Trees \ {Nowhere}, had : SUBSET Trees]
        /\ target'.ref = ref[c] /\ target'.tree = ref[c].tree /\ target'.had = {ref[c].tree}
    BY <1>2, <1>7
  <2>2. target' # NULL
    BY <2>1, AssetsAssumption
  <2>3. MountType' /\ (Mounted(c))'
    BY <1>0, <1>5, <1>7, <2>1, <2>2 DEF MountType, Mounted, Mounts
  <2> QED
    BY <1>4, <1>7, <2>3
<1>8. CASE /\ Go(c, "accepted") /\ pc[c] = "verifying" /\ target.tree = ref[c].tree
           /\ UNCHANGED target
  <2>1. MountType' /\ (Mounted(c))'
    BY <1>0, <1>2, <1>5, <1>8 DEF MountType, Mounted, Mounts, Quiet
  <2> QED
    BY <1>4, <1>8, <2>1
<1> QED
  BY <1>6, <1>7, <1>8 DEF BeforeVerification, AfterVerification

LEMMA AssetsRelease ==
  ASSUME AssetsInv, NEW c \in Clients, Release(c)
  PROVE  AssetsInv'
<1>0. /\ Quiet /\ target' = NULL /\ Home(c) /\ pc[c] \in Mounts /\ StoreInv
  BY DEF Release, Quiet, world, counts, AssetsInv, Mounts
<1>1. \A d \in Clients \ {c} : pc[d] \notin Mounts
  BY <1>0 DEF AssetsInv, OneMount
<1>2. /\ Frame(c) /\ (Located(c))'
      /\ pc'[c] = "idle" /\ at'[c] = 1 /\ copy'[c] = Nowhere
  BY <1>0, HomeFrame
<1>3. (AssetsOwn(c))' /\ (Mounted(c))' /\ MountType'
  BY <1>0, <1>2 DEF AssetsOwn, AssetsRead, AssetsFresh, Mounted, Making, Mounts, MountType
<1> QED
  BY <1>0, <1>1, <1>2, <1>3, AssetsMountStep

\* A mount that is changed is never again what it was, unless it is put back.
LEMMA AssetsTamper ==
  ASSUME AssetsInv, NEW p \in Paths, NEW v \in Contents, Tamper(p, v)
  PROVE  AssetsInv'
<1> DEFINE t == [target.tree EXCEPT ![p] = v]
<1>0. /\ UNCHANGED <<source, past, disk, damaged, returned, pc, at, first, copy, ref>>
      /\ target # NULL /\ (\A c \in Clients : pc[c] # "accepted")
      /\ target' = [target EXCEPT !.tree = t, !.had = IF @ = {} THEN {} ELSE @ \cup {t}]
      /\ reverted' = (reverted \/ t \in target.had)
  BY DEF Tamper, local
<1>1. target \in [ref : Refs, tree : Trees \ {Nowhere}, had : SUBSET Trees]
  BY <1>0 DEF AssetsInv, MountType
<1>2. t \in Trees /\ t # Nowhere
  <2>1. target.tree \in Trees
    BY <1>1
  <2>2. t \in Trees /\ t[p] = v
    BY <2>1 DEF Trees
  <2>3. Nowhere[p] = NULL /\ v # NULL
    BY BundlesAssumption DEF Nowhere
  <2> QED
    BY <2>2, <2>3
<1> HIDE DEF t
<1>3. /\ target'.ref = target.ref /\ target'.tree = t
      /\ target'.had = (IF target.had = {} THEN {} ELSE target.had \cup {t})
      /\ target' \in [ref : Refs, tree : Trees \ {Nowhere}, had : SUBSET Trees]
  BY <1>0, <1>1, <1>2
<1>4. target' # NULL
  BY <1>3, AssetsAssumption
<1>5. ~ reverted' => ~ reverted
  BY <1>0
<1>6. StoreInv'
  <2>1. reverted' \in BOOLEAN
    BY <1>0 DEF AssetsInv, StoreInv, StoreTypes
  <2> QED
    BY <1>0, <2>1 DEF AssetsInv, StoreInv, StoreTypes, WTypeOK, Stored, Located, disk
<1>7. BundleIsSource' /\ \A r \in returned' : r.tree # Nowhere
  BY <1>0, <1>5 DEF AssetsInv, BundleIsSource
<1>8. ~ reverted' => \A c \in Clients : (AssetsRead(c))'
  BY <1>0, <1>5 DEF AssetsInv, AssetsRead, Seen, Follows, Rescanned
<1>9. ASSUME NEW c \in Clients PROVE (AssetsFresh(c))' /\ (Mounted(c))'
  <2>1. AssetsFresh(c) /\ Mounted(c) /\ pc[c] # "accepted"
    BY <1>0 DEF AssetsInv
  <2>2. (AssetsFresh(c))'
    BY <1>0, <2>1 DEF AssetsFresh, disk
  <2>3. ASSUME pc[c] = "verifying"
        PROVE  /\ target'.tree \in target'.had /\ ref[c].tree \in target'.had
               /\ ~ reverted' => target'.tree # ref[c].tree
    BY <1>0, <1>3, <2>1, <2>3 DEF Mounted
  <2>4. (Mounted(c))'
    BY <1>0, <1>3, <1>4, <2>1, <2>3 DEF Mounted
  <2> QED
    BY <2>2, <2>4
<1>10. OneMount' /\ MountType'
  BY <1>0, <1>3 DEF AssetsInv, OneMount, MountType
<1> QED
  BY <1>6, <1>7, <1>8, <1>9, <1>10 DEF AssetsInv

LEMMA AssetsEdit ==
  ASSUME AssetsInv, NEW p \in Paths, NEW v \in Contents \cup {NULL}, EditSource(p, v)
  PROVE  AssetsInv'
<1>0. UNCHANGED <<disk, returned, target, pc, at, first, copy, ref>>
  BY DEF EditSource
<1>1. StoreInv' /\ StoreInv
  BY EditStore DEF AssetsInv
<1>2. /\ past \subseteq past'
      /\ ~ reverted' => ~ reverted
      /\ \A f, D : Seen(f, D) => (Seen(f, D))'
      /\ ~ reverted' => \A f, t : \A q \in Paths :
           Seen(f, Paths) /\ Follows(f, t, q) => (f[q] = t[q] \/ f[q] # source'[q])
  BY <1>1, EditKeeps
<1>3. BundleIsSource'
  BY <1>0, <1>2 DEF AssetsInv, BundleIsSource
<1>4. ASSUME ~ reverted', NEW c \in Clients PROVE (AssetsRead(c))'
  <2>1. AssetsRead(c)
    BY <1>2, <1>4 DEF AssetsInv
  <2>2. \A D : Seen(copy[c], D) => (Seen(copy[c], D))'
    BY <1>0, <1>2 DEF Seen
  <2>3. /\ pc[c] \in {"copy", "read"} => (Seen(copy[c], 1..(at[c] - 1)))'
        /\ pc[c] \in {"copied", "rescan", "rescanned"} => (Seen(copy[c], Paths))'
    BY <1>0, <2>1, <1>2 DEF AssetsRead, Seen
  <2>4. ASSUME pc[c] \in {"rescan", "rescanned"}
        PROVE  \E t \in past' : \A q \in Paths :
                 (Follows(copy[c], t, q) /\ (Rescanned(c, q) => copy[c][q] = t[q]))'
    <3>1. Seen(copy[c], Paths)
      BY <2>1, <2>4 DEF AssetsRead
    <3>2. PICK t \in past : \A q \in Paths :
            Follows(copy[c], t, q) /\ (Rescanned(c, q) => copy[c][q] = t[q])
      BY <2>1, <2>4 DEF AssetsRead
    <3>3. \A q \in Paths : copy[c][q] = t[q] \/ copy[c][q] # source'[q]
      BY <1>2, <1>4, <3>1, <3>2
    <3>4. \A q \in Paths :
            (Follows(copy[c], t, q) /\ (Rescanned(c, q) => copy[c][q] = t[q]))'
      BY <1>0, <3>2, <3>3 DEF Follows, Rescanned
    <3> QED
      BY <1>2, <3>4
  <2>5. pc[c] \in Making => ref[c].source \in past'
    BY <1>2, <2>1 DEF AssetsRead
  <2> QED
    BY <1>0, <2>3, <2>4, <2>5 DEF AssetsRead
<1>5. \A c \in Clients : (AssetsFresh(c))'
  BY <1>0 DEF AssetsInv, AssetsFresh, disk
<1>6. \A c \in Clients : (Mounted(c))'
  BY <1>0, <1>2 DEF AssetsInv, Mounted
<1>7. OneMount' /\ MountType' /\ \A r \in returned' : r.tree # Nowhere
  BY <1>0 DEF AssetsInv, OneMount, MountType
<1> QED
  BY <1>1, <1>3, <1>4, <1>5, <1>6, <1>7 DEF AssetsInv

LEMMA AssetsFaults ==
  ASSUME AssetsInv, VFaults
  PROVE  AssetsInv'
<1>0. StoreInv
  BY DEF AssetsInv
<1>1. CASE \/ \E r \in DOMAIN archives : \E b \in AssetDamages(r) : DamageArchive(r, b)
           \/ \E r \in DOMAIN references : DamageReference(r, Garbage)
  <2>1. (\E r, a : DamageArchive(r, a)) \/ (\E r, b : DamageReference(r, b))
    BY <1>1
  <2>2. StoreInv'
    BY <1>0, <2>1, DamageStore
  <2>3. /\ UNCHANGED <<source, past, reverted, returned, target, pc, at, first, copy, ref>>
        /\ DOMAIN references' = DOMAIN references
    BY <2>1 DEF DamageArchive, DamageReference, world, local
  <2>4. BundleIsSource' /\ \A r \in returned' : r.tree # Nowhere
    BY <2>3 DEF AssetsInv, BundleIsSource
  <2>5. ~ reverted => \A c \in Clients : (AssetsRead(c))'
    BY <2>3 DEF AssetsInv, AssetsRead, Seen, Follows, Rescanned
  <2>6. \A c \in Clients : (AssetsFresh(c))' /\ (Mounted(c))'
    BY <2>3 DEF AssetsInv, AssetsFresh, Mounted
  <2>7. OneMount' /\ MountType'
    BY <2>3 DEF AssetsInv, OneMount, MountType
  <2> QED
    BY <2>2, <2>3, <2>4, <2>5, <2>6, <2>7 DEF AssetsInv
<1>2. ASSUME NEW c \in Clients, Kill(c) PROVE AssetsInv'
  BY <1>2, AssetsHome DEF Kill, Quiet, world
<1>3. ASSUME NEW a \in SUBSET DOMAIN archives, NEW b \in SUBSET DOMAIN references,
             PowerLoss(a, b)
      PROVE  AssetsInv'
  <2>1. StoreInv'
    BY <1>0, <1>3, PowerLossStore
  <2>2. UNCHANGED <<source, past, reverted, returned, target>>
    BY <1>3 DEF PowerLoss, world
  <2>3. BundleIsSource' /\ \A r \in returned' : r.tree # Nowhere
    BY <2>2 DEF AssetsInv, BundleIsSource
  <2>4. \A c \in Clients : pc'[c] = "idle" /\ at'[c] = 1 /\ copy'[c] = Nowhere
    BY <1>3 DEF PowerLoss
  <2>5. \A c \in Clients : (AssetsRead(c))' /\ (AssetsFresh(c))' /\ (Mounted(c))'
    BY <2>4 DEF AssetsRead, AssetsFresh, Mounted, Making, Mounts
  <2>6. OneMount' /\ MountType'
    BY <2>2, <2>4 DEF AssetsInv, OneMount, MountType, Mounts
  <2> QED
    BY <2>1, <2>2, <2>3, <2>5, <2>6 DEF AssetsInv
<1> QED
  BY <1>1, <1>2, <1>3 DEF VFaults

LEMMA AssetsNext ==
  ASSUME AssetsInv, [VNext]_wvars
  PROVE  AssetsInv'
<1>1. ASSUME NEW p \in Paths, NEW v \in Contents \cup {NULL}, EditAssets(p, v) PROVE AssetsInv'
  BY <1>1, AssetsEdit DEF EditAssets
<1>2. ASSUME NEW p \in Paths, NEW v \in Contents, Tamper(p, v) PROVE AssetsInv'
  BY <1>2, AssetsTamper
<1>3. ASSUME NEW c \in Clients, VStep(c) PROVE AssetsInv'
  <2>1. CASE CreateAssets(c)
    BY <2>1, AssetsCreate
  <2>2. CASE StatAsset(c) \/ CopyAsset(c)
    BY <2>2, AssetsLook
  <2>3. CASE RefuseAssets(c)
    BY <2>3, AssetsMoves DEF RefuseAssets, MovedTo, Quiet, world, counts
  <2>4. CASE Copied(c)
    BY <2>4, AssetsCopied
  <2>5. CASE Rescan(c)
    BY <2>5, AssetsRescan
  <2>6. CASE PackAssets(c)
    BY <2>6, AssetsPack
  <2>7. CASE CompareAssets(c) \/ ValidateBundle(c)
    BY <2>7, AssetsCompare
  <2>8. CASE InstallBundle(c) \/ SyncArchive(c) \/ WriteAssetReference(c) \/ SyncReference(c)
    BY <2>8, AssetsWrites
  <2>9. CASE RecoverAssets(c)
    BY <2>9, AssetsHome DEF RecoverAssets, Quiet, world, counts
  <2>10. CASE \E r \in returned : Materialize(c, r)
    BY <2>10, AssetsMaterialize
  <2>11. CASE LoadAssets(c) \/ OpenBundle(c)
    <3>1. /\ UNCHANGED target
          /\ \/ MovedTo(c, {"failed", "refused"})
             \/ pc[c] \in {"load", "open"} /\ MovedTo(c, {"open", "fetch"})
      BY <2>11 DEF LoadAssets, OpenBundle, MovedTo, Quiet, world, counts
    <3> QED
      BY <3>1, AssetsMoves
  <2>12. CASE Fetch(c)
    BY <2>12, AssetsFetch
  <2>13. CASE Seal(c)
    BY <2>13, AssetsSeal
  <2>14. CASE BeforeVerification(c) \/ AfterVerification(c)
    BY <2>14, AssetsVerify
  <2>15. CASE Release(c)
    BY <2>15, AssetsRelease
  <2> QED
    BY <1>3, <2>1, <2>2, <2>3, <2>4, <2>5, <2>6, <2>7, <2>8, <2>9, <2>10, <2>11, <2>12, <2>13,
       <2>14, <2>15 DEF VStep
<1>4. CASE UNCHANGED wvars
  <2>1. UNCHANGED <<source, past, reverted, disk, damaged, returned, target, pc, at, first, copy, ref>>
    BY <1>4 DEF wvars, world, counts, local
  <2>2. StoreInv'
    BY <2>1 DEF AssetsInv, StoreInv, StoreTypes, WTypeOK, Stored, Located, disk
  <2>3. ~ reverted => \A c \in Clients : (AssetsRead(c))'
    BY <2>1 DEF AssetsInv, AssetsRead, Seen, Follows, Rescanned
  <2>4. \A c \in Clients : (AssetsFresh(c))' /\ (Mounted(c))'
    BY <2>1 DEF AssetsInv, AssetsFresh, Mounted, disk
  <2>5. OneMount' /\ MountType' /\ BundleIsSource' /\ \A r \in returned' : r.tree # Nowhere
    BY <2>1 DEF AssetsInv, OneMount, MountType, BundleIsSource
  <2> QED
    BY <2>1, <2>2, <2>3, <2>4, <2>5 DEF AssetsInv
<1>5. CASE VFaults
  BY <1>5, AssetsFaults
<1> QED
  BY <1>1, <1>2, <1>3, <1>4, <1>5 DEF VNext

\* The asset store's inductive invariant: as for bundles, with one mount, whose
\* trees since the first hash are remembered.
THEOREM AssetsInvariant == VSpec => []AssetsInv
<1>1. WInit => AssetsInv
  <2>1. SUFFICES ASSUME WInit PROVE AssetsInv
    OBVIOUS
  <2>2. StoreInv /\ BundleIsSource /\ \A c \in Clients : pc[c] = "idle"
    BY <2>1, InitStore
  <2>3. \A c \in Clients : AssetsRead(c) /\ AssetsFresh(c) /\ Mounted(c)
    BY <2>1, <2>2 DEF WInit, AssetsRead, AssetsFresh, Mounted, Making, Mounts
  <2>4. OneMount /\ MountType /\ \A r \in returned : r.tree # Nowhere
    BY <2>1, <2>2 DEF WInit, OneMount, MountType, Mounts
  <2> QED
    BY <2>2, <2>3, <2>4 DEF AssetsInv
<1>2. AssetsInv /\ [VNext]_wvars => AssetsInv'
  BY AssetsNext
<1> QED
  BY <1>1, <1>2, PTL DEF VSpec

\* No asset bundle is a mixture of two states of the operator's directory.
THEOREM AssetsAreSources == VSpec => []BundleIsSource
<1>1. AssetsInv => BundleIsSource
  BY DEF AssetsInv
<1> QED
  BY <1>1, AssetsInvariant, PTL

\* What create returned survives any kill and any power loss, and no crash or
\* second creator makes an asset bundle a collision.
THEOREM ReturnedAssetsAreDurable == VSpec => []ReturnedIsDurable
<1>1. AssetsInv => ReturnedIsDurable
  BY DEF AssetsInv, StoreInv, StoreTypes, WTypeOK, Stored, Located, ReturnedIsDurable
<1> QED
  BY <1>1, AssetsInvariant, PTL

\* A verification the service accepts ran on the requested bundle's files from
\* its start to its end (services/verifier.py: the two hashes of the mount).
THEOREM AcceptedRanOnBundle == VSpec => []AcceptedOnBundle
<1>1. AssetsInv => AcceptedOnBundle
  BY DEF AssetsInv, StoreInv, Located, Asking, Mounted, Mounts, AcceptedOnBundle
<1> QED
  BY <1>1, AssetsInvariant, PTL

\* What is mounted for a verification is the tree of the requested bundle.
THEOREM MountsAreBundles == VSpec => MaterializedIsBundle
<1>1. ASSUME AssetsInv, [VNext]_wvars, pc' # pc, target' # target, target' # NULL
      PROVE  target'.ref \in returned /\ target'.tree = target'.ref.tree
  <2>1. PICK c \in Clients : Seal(c) \/ BeforeVerification(c)
    <3>1. \A c \in Clients : VStep(c) => Seal(c) \/ BeforeVerification(c)
      BY <1>1 DEF VStep, CreateAssets, StatAsset, CopyAsset, RefuseAssets, Copied, Rescan,
                  PackAssets, CompareAssets, ValidateBundle, InstallBundle, SyncArchive,
                  WriteAssetReference, PutReference, SyncReference, RecoverAssets, Materialize,
                  LoadAssets, OpenBundle, Fetch, AfterVerification, Release
    <3>2. ~ VFaults
      BY <1>1 DEF VFaults, DamageArchive, DamageReference, PowerLoss, Kill
    <3>3. (\A p, v : ~ EditAssets(p, v)) /\ (\A p, v : ~ Tamper(p, v)) /\ ~ UNCHANGED wvars
      BY <1>1 DEF EditAssets, EditSource, Tamper, local, wvars
    <3> QED
      BY <1>1, <3>1, <3>2, <3>3 DEF VNext
  <2>2. CASE Seal(c)
    <3>1. /\ target' = [ref |-> ref[c], tree |-> copy[c], had |-> {}]
          /\ copy[c] = ref[c].tree /\ pc[c] = "seal"
      BY <1>1, <2>2 DEF Seal
    <3>2. ref[c] \in returned
      BY <1>1, <3>1 DEF AssetsInv, StoreInv, Located, Asking
    <3> QED
      BY <3>1, <3>2
  <2>3. CASE BeforeVerification(c)
    <3>1. /\ target' = [target EXCEPT !.had = {target.tree}]
          /\ target.tree = ref[c].tree /\ pc[c] = "mounted"
      BY <1>1, <2>3 DEF BeforeVerification
    <3>2. target.ref = ref[c] /\ ref[c] \in returned
      BY <1>1, <3>1 DEF AssetsInv, StoreInv, Located, Asking, Mounted, Mounts
    <3>3. target \in [ref : Refs, tree : Trees \ {Nowhere}, had : SUBSET Trees]
      BY <1>1, <3>1 DEF AssetsInv, MountType, Mounted, Mounts
    <3> QED
      BY <3>1, <3>2, <3>3
  <2> QED
    BY <2>1, <2>2, <2>3
<1>2. AssetsInv /\ [VNext]_wvars =>
        [ pc' # pc /\ target' # target /\ target' # NULL =>
            target'.ref \in returned /\ target'.tree = target'.ref.tree ]_wvars
  BY <1>1
<1> QED
  BY <1>2, AssetsInvariant, PTL DEF VSpec, MaterializedIsBundle

=============================================================================
