---------------------- MODULE ManufacturingReleaseProofs ----------------------
(***************************************************************************)
(* Proofs about `ManufacturingRelease`, for any number of processes and    *)
(* whatever releases, signing services, policies, archive limits and       *)
(* edits there are that `ReleaseAssumption` admits.                        *)
(*                                                                         *)
(* What a call returned has passed the verification, and only signing      *)
(* changes a bundle in hand: every bundle in hand would pass it again, its *)
(* signatures under the policy of its last read.  What a writer that       *)
(* nobody has interfered with has yet to write is what its places do not   *)
(* hold yet, so that after its last file they hold the whole bundle.       *)
(***************************************************************************)
EXTENDS ManufacturingRelease, FoldFacts

\* Every signature of a bundle is one of its own core.
SignedForCore(b) ==
  \A e \in b.manifest.signatures :
    e.names = b.manifest.digest /\ e.covers = b.manifest.digest

Trusted(b) == IntegrityHolds(b) /\ EvidenceHolds(b) /\ SignedForCore(b)

IsBundle(b) ==
  /\ b = [manifest |-> b.manifest, files |-> b.files]
  /\ b.files = [q \in DOMAIN b.files |-> b.files[q]]
  /\ IsManifest(b.manifest)

Whole(b) == IsBundle(b) /\ Trusted(b)

PlaceInv ==
  /\ DOMAIN place = Places
  /\ place[ManifestPath] \in Lost \/ IsManifest(place[ManifestPath])
  /\ place[ArchivePath] \in Lost \/ IsArchive(place[ArchivePath])

BundleInv ==
  /\ DOMAIN bundle = Processes
  /\ \A p \in Processes : bundle[p] # Nothing => Whole(bundle[p])

ReadInv ==
  /\ DOMAIN pc = Processes /\ DOMAIN todo = Processes /\ DOMAIN found = Processes
  /\ \A p \in Processes : pc[p] = "read" => IsBundle(found[p])

\* The files a writer of a directory has yet to write, and those written.
WritesDirectory(b, files, untouched, at) ==
  /\ DOMAIN files \subseteq DOMAIN b.files
  /\ \A q \in DOMAIN files : files[q] = b.files[q]
  /\ untouched => \A q \in DOMAIN b.files \ DOMAIN files : at[q] = b.files[q]

WritesArchive(b, files) ==
  DOMAIN files = {ArchivePath} /\ files[ArchivePath] = Archive(b.files)

Writing(b, files, untouched, at) ==
  /\ b # Nothing
  /\ DOMAIN files # {}
  /\ WritesDirectory(b, files, untouched, at) \/ WritesArchive(b, files)

WriteInv ==
  \A p \in Writers : Writing(bundle[p], todo[p], p \notin disturbed, place)

KeptInv ==
  kept # Nothing =>
    /\ Whole(kept.bundle)
    /\ IF kept.zipped THEN place[ArchivePath] = Archive(kept.bundle.files)
       ELSE \A q \in DOMAIN kept.bundle.files : place[q] = kept.bundle.files[q]

ReleaseInv == PlaceInv /\ BundleInv /\ ReadInv /\ WriteInv /\ KeptInv

-----------------------------------------------------------------------------
(* Paths, bundles and archives                                             *)

\* The paths of a release, in their order, and that of its archive.
LEMMA PathFacts ==
  /\ DOMAIN PathOrder = 1 .. 6
  /\ Len(PathOrder) = 6
  /\ \A i, j \in 1 .. 6 : PathOrder[i] = PathOrder[j] => i = j
  /\ \A q : q \in Paths <=> \E i \in 1 .. 6 : PathOrder[i] = q
  /\ ArchivePath \notin Paths
  /\ ManifestPath \in Paths
  /\ {DesignPath, FabricationPath, AssemblyPath, DrcPath} \subseteq Paths
  /\ ManifestPath \notin {DesignPath, FabricationPath, AssemblyPath, DrcPath}
<1>1. DOMAIN PathOrder = 1 .. 6 /\ Len(PathOrder) = 6
  BY DEF PathOrder
<1>2. \A i, j \in 1 .. 6 : PathOrder[i] = PathOrder[j] => i = j
  BY DEF PathOrder, AssemblyPath, DrcPath, FabricationPath, ManifestPath, DesignPath
<1>3. \A q : q \in Paths <=> \E i \in 1 .. 6 : PathOrder[i] = q
  BY <1>1 DEF Paths
<1>4. ArchivePath \notin Paths
  <2>1. \A i \in 1 .. 6 : PathOrder[i] # ArchivePath
    BY DEF PathOrder, AssemblyPath, DrcPath, FabricationPath, ManifestPath, DesignPath,
           ArchivePath
  <2> QED BY <1>3, <2>1
<1>5. /\ ManifestPath \in Paths
      /\ {DesignPath, FabricationPath, AssemblyPath, DrcPath} \subseteq Paths
  <2>1. /\ PathOrder[1] = AssemblyPath /\ PathOrder[2] = DrcPath
        /\ PathOrder[3] = FabricationPath /\ PathOrder[4] = ManifestPath
        /\ PathOrder[5] = DesignPath
    BY DEF PathOrder
  <2> QED BY <1>3, <2>1
<1>6. ManifestPath \notin {DesignPath, FabricationPath, AssemblyPath, DrcPath}
  BY DEF AssemblyPath, DrcPath, FabricationPath, ManifestPath, DesignPath
<1> QED BY <1>1, <1>2, <1>3, <1>4, <1>5, <1>6

\* How many numbers there are up to one.
LEMMA CountTo ==
  \A n \in Nat : IsFiniteSet(1 .. n) /\ Cardinality(1 .. n) = n
<1> SUFFICES ASSUME NEW n \in Nat
             PROVE  IsFiniteSet(1 .. n) /\ Cardinality(1 .. n) = n
  OBVIOUS
<1>1. /\ IsFiniteSet(1 .. n)
      /\ Cardinality(1 .. n) = IF 1 > n THEN 0 ELSE n - 1 + 1
  BY FS_Interval
<1> QED BY <1>1

\* There is a first one of some paths, and of a single place.
LEMMA FirstIsOne ==
  /\ \A D : D \subseteq Paths /\ D # {} => First(D) \in D
  /\ \A q : First({q}) = q
<1>1. ASSUME NEW D, D \subseteq Paths, D # {}
      PROVE  First(D) \in D
  <2>1. PICK i \in 1 .. 6 : PathOrder[i] \in D /\ \A j \in 1 .. 6 : PathOrder[j] \in D => i <= j
    <3> DEFINE In(j) == PathOrder[j] \in D
    <3>1. \E j \in 1 .. 6 : In(j)
      BY <1>1, PathFacts
    <3> HIDE DEF In
    <3>2. \E i \in 1 .. 6 : In(i) /\ \A j \in 1 .. 6 : In(j) => i <= j
      <4>1. CASE In(1)
        BY <4>1
      <4>2. CASE ~In(1) /\ In(2)
        BY <4>2
      <4>3. CASE ~In(1) /\ ~In(2) /\ In(3)
        BY <4>3
      <4>4. CASE ~In(1) /\ ~In(2) /\ ~In(3) /\ In(4)
        BY <4>4
      <4>5. CASE ~In(1) /\ ~In(2) /\ ~In(3) /\ ~In(4) /\ In(5)
        BY <4>5
      <4>6. CASE ~In(1) /\ ~In(2) /\ ~In(3) /\ ~In(4) /\ ~In(5)
        BY <3>1, <4>6
      <4> QED BY <4>1, <4>2, <4>3, <4>4, <4>5, <4>6
    <3> QED BY <3>2 DEF In
  <2>2. \A r \in D \ {PathOrder[i]} :
          \E m, n \in DOMAIN PathOrder : m < n /\ PathOrder[m] = PathOrder[i] /\ PathOrder[n] = r
    <3> SUFFICES ASSUME NEW r \in D \ {PathOrder[i]}
                 PROVE  \E m, n \in DOMAIN PathOrder :
                          m < n /\ PathOrder[m] = PathOrder[i] /\ PathOrder[n] = r
      OBVIOUS
    <3>1. PICK n \in 1 .. 6 : PathOrder[n] = r
      BY <1>1, PathFacts
    <3>2. i < n
      BY <2>1, <3>1
    <3> QED BY <3>1, <3>2, PathFacts
  <2> QED BY <2>1, <2>2 DEF First
<1>2. ASSUME NEW q
      PROVE  First({q}) = q
  BY DEF First
<1> QED BY <1>1, <1>2

\* A bundle that would verify has a manifest that is one of its files, and
\* files at the paths of a release only.
LEMMA WholeHasManifest ==
  ASSUME NEW b, Whole(b)
  PROVE  /\ b # Nothing
         /\ DOMAIN b.files \subseteq Paths
         /\ ManifestPath \in DOMAIN b.files
         /\ b.files[ManifestPath] = b.manifest
<1>1. b # Nothing
  <2>1. DOMAIN b = {"manifest", "files"}
    BY DEF Whole, IsBundle
  <2>2. DOMAIN Nothing = {"held"}
    BY DEF Nothing
  <2> QED BY <2>1, <2>2
<1>2. /\ ManifestPath \in DOMAIN b.files
      /\ b.files[ManifestPath] = b.manifest
      /\ DOMAIN b.files \subseteq DOMAIN b.manifest.core.artifacts \cup {ManifestPath}
  BY DEF Whole, Trusted, IntegrityHolds
<1>3. DOMAIN b.manifest.core.artifacts \subseteq Paths
  BY DEF Whole, IsBundle, IsManifest, IsFiles
<1> QED BY <1>1, <1>2, <1>3, PathFacts

\* What `from_report` builds has the shape of a bundle.
LEMMA BuiltIsBundle ==
  ASSUME NEW r \in Reports
  PROVE  IsBundle(Bundle(r))
<1>1. IsFiles(Artifacts(r))
  <2>1. Artifacts(r) = [q \in DOMAIN Artifacts(r) |-> Artifacts(r)[q]]
    BY DEF Artifacts
  <2>2. DOMAIN Artifacts(r) = {DesignPath, FabricationPath, AssemblyPath, DrcPath}
                                \cup DOMAIN r.optional
    BY DEF Artifacts
  <2>3. DOMAIN r.optional \subseteq Paths
    BY ReleaseAssumption DEF IsFiles
  <2> QED BY <2>1, <2>2, <2>3, PathFacts DEF IsFiles
<1>2. Core(r).artifacts = Artifacts(r)
  BY DEF Core
<1>3. ManifestPath \notin DOMAIN Artifacts(r)
  BY ReleaseAssumption, PathFacts DEF Artifacts
<1>4. IsManifest(Manifest(Core(r)))
  BY <1>1, <1>2, <1>3 DEF IsManifest, Manifest
<1>5. Bundle(r).manifest = Manifest(Core(r))
  BY DEF Bundle, WithManifest, WithFile
<1>6. Bundle(r) = [manifest |-> Bundle(r).manifest, files |-> Bundle(r).files]
  BY DEF Bundle, WithManifest, WithFile
<1>7. Bundle(r).files = [q \in DOMAIN Bundle(r).files |-> Bundle(r).files[q]]
  BY DEF Bundle, WithManifest, WithFile
<1> QED BY <1>5, <1>6, <1>7, <1>4 DEF IsBundle

\* Reading one more file leaves a bundle.
LEMMA WithFileIsBundle ==
  ASSUME NEW b, IsManifest(b.manifest), NEW q, NEW content
  PROVE  IsBundle(WithFile(b, q, content))
BY DEF IsBundle, WithFile

\* An archive that this library has made is read as far as its manifest,
\* within the limits, and unpacks to the bundle it was made of.
LEMMA ArchiveReadsBack ==
  ASSUME NEW b, Whole(b)
  PROVE  /\ Archive(b.files) \notin Lost
         /\ IsArchive(Archive(b.files))
         /\ ArchiveRefusal(Archive(b.files)) = "Ok"
         /\ Unpacked(Archive(b.files)) = b
<1> DEFINE files == b.files
           listed == Listed(DOMAIN files)
           a == Archive(files)
           entries == a.entries
<1>1. /\ listed \subseteq 1 .. 6
      /\ \A i \in listed : PathOrder[i] \in DOMAIN files
      /\ \A q \in DOMAIN files : \E i \in listed : PathOrder[i] = q
  BY PathFacts, WholeHasManifest DEF Listed
<1>2. /\ a = [bytes |-> Cardinality(listed), declared |-> Cardinality(listed),
              entries |-> [i \in listed |-> FileEntry(PathOrder[i], files[PathOrder[i]])]]
      /\ a.bytes = Cardinality(listed) /\ a.declared = Cardinality(listed)
      /\ DOMAIN entries = listed
      /\ \A i \in listed : entries[i] = FileEntry(PathOrder[i], files[PathOrder[i]])
  BY DEF Archive
<1>3. \A i \in listed :
        /\ entries[i].path = PathOrder[i] /\ entries[i].content = files[PathOrder[i]]
        /\ entries[i].kind = "file"
        /\ entries[i].size = 1 /\ entries[i].packed = 1 /\ entries[i].yields = 1
  BY <1>2 DEF FileEntry
<1>4. a \notin Lost
  <2>1. DOMAIN a = {"bytes", "declared", "entries"}
    BY <1>2
  <2>2. DOMAIN Absent = {"lost"} /\ DOMAIN Partial = {"lost"}
    BY DEF Absent, Partial
  <2>3. a # Absent /\ a # Partial
    BY <2>1, <2>2
  <2> QED BY <2>3 DEF Lost
<1>5. Names(entries) = DOMAIN files
  <2>1. \A q : q \in Names(entries) <=> \E i \in listed : entries[i].path = q
    BY <1>2 DEF Names
  <2> HIDE DEF entries, a, listed, files
  <2>2. \A q : q \in Names(entries) <=> \E i \in listed : PathOrder[i] = q
    BY <1>3, <2>1
  <2> QED BY <1>1, <2>2
<1> HIDE DEF entries, a, listed, files
<1>6. IsFiniteSet(listed) /\ Cardinality(listed) \in Nat /\ Cardinality(listed) <= 6
  <2>1. IsFiniteSet(1 .. 6) /\ Cardinality(1 .. 6) = 6
    BY CountTo
  <2>2. IsFiniteSet(listed) /\ Cardinality(listed) <= Cardinality(1 .. 6)
    BY <1>1, <2>1, FS_Subset
  <2> QED BY <2>1, <2>2, FS_CardinalityType
<1>7. Cardinality(DOMAIN files) = Cardinality(listed)
  <2> DEFINE f == [i \in listed |-> PathOrder[i]]
  <2>1. f \in Bijection(listed, DOMAIN files)
    <3>1. f \in [listed -> DOMAIN files]
      BY <1>1
    <3>2. \A i, j \in listed : f[i] = f[j] => i = j
      BY <1>1, PathFacts
    <3>3. \A q \in DOMAIN files : \E i \in listed : f[i] = q
      BY <1>1
    <3> QED BY <3>1, <3>2, <3>3 DEF Bijection, Injection, Surjection, IsInjective
  <2>2. ExistsBijection(listed, DOMAIN files)
    BY <2>1 DEF ExistsBijection
  <2> QED BY <1>6, <2>2, FS_Bijection
<1>8. \A i \in listed : UnpackedBefore(entries, i) \in Nat /\ UnpackedBefore(entries, i) <= 5
  <2> SUFFICES ASSUME NEW i \in listed
               PROVE  UnpackedBefore(entries, i) \in Nat /\ UnpackedBefore(entries, i) <= 5
    OBVIOUS
  <2> DEFINE bytes == UNION {{j} \X (1 .. entries[j].size) : j \in {k \in DOMAIN entries : k < i}}
             all == {<<j, 1>> : j \in 1 .. 5}
             f == [j \in 1 .. 5 |-> <<j, 1>>]
  <2>1. bytes \subseteq all
    <3> SUFFICES ASSUME NEW x \in bytes
                 PROVE  x \in all
      OBVIOUS
    <3>1. PICK j \in {k \in DOMAIN entries : k < i} : x \in {j} \X (1 .. entries[j].size)
      OBVIOUS
    <3>2. j \in listed /\ j \in 1 .. 5
      BY <1>1, <1>2, <3>1
    <3>3. entries[j].size = 1
      BY <1>3, <3>2
    <3>4. x = <<j, 1>>
      BY <3>1, <3>3
    <3> QED BY <3>2, <3>4
  <2>2. IsFiniteSet(all) /\ Cardinality(all) = 5
    <3>1. IsFiniteSet(1 .. 5) /\ Cardinality(1 .. 5) = 5
      BY CountTo
    <3>2. f \in Bijection(1 .. 5, all)
      <4>1. f \in [1 .. 5 -> all]
        OBVIOUS
      <4>2. \A j, k \in 1 .. 5 : f[j] = f[k] => j = k
        OBVIOUS
      <4>3. \A x \in all : \E j \in 1 .. 5 : f[j] = x
        OBVIOUS
      <4> QED BY <4>1, <4>2, <4>3 DEF Bijection, Injection, Surjection, IsInjective
    <3>3. ExistsBijection(1 .. 5, all)
      BY <3>2 DEF ExistsBijection
    <3> HIDE DEF all
    <3> QED BY <3>1, <3>3, FS_Bijection
  <2>3. UnpackedBefore(entries, i) = Cardinality(bytes)
    BY DEF UnpackedBefore
  <2> HIDE DEF bytes, all
  <2>4. IsFiniteSet(bytes) /\ Cardinality(bytes) <= 5
    BY <2>1, <2>2, FS_Subset
  <2> QED BY <2>3, <2>4, FS_CardinalityType
<1>9. \A i \in listed : EntryRefusal(entries[i], UnpackedBefore(entries, i)) = "Ok"
  <2> SUFFICES ASSUME NEW i \in listed, NEW total, total = UnpackedBefore(entries, i)
               PROVE  EntryRefusal(entries[i], total) = "Ok"
    OBVIOUS
  <2>1. entries[i].path # Unportable
    <3>1. \A n \in 1 .. 6 : PathOrder[n] # Unportable
      BY DEF PathOrder, AssemblyPath, DrcPath, FabricationPath, ManifestPath, DesignPath,
             Unportable
    <3> QED BY <1>1, <1>3, <3>1
  <2>2. /\ entries[i].kind = "file"
        /\ entries[i].size = 1 /\ entries[i].packed = 1 /\ entries[i].yields = 1
    BY <1>3
  <2>3. total \in Nat /\ total <= 5
    BY <1>8
  <2>4. /\ Limits.file \in Nat /\ Limits.file >= 1
        /\ Limits.ratio \in Nat /\ Limits.ratio >= 1
        /\ Limits.total \in Nat /\ Limits.total >= 6
    BY ReleaseAssumption, PathFacts
  <2>5. /\ ~(entries[i].size > Limits.file)
        /\ ~(entries[i].size > entries[i].packed * Limits.ratio)
        /\ ~(total + entries[i].size > Limits.total)
    BY <2>2, <2>3, <2>4
  <2> QED BY <2>1, <2>2, <2>5 DEF EntryRefusal
<1>10. ArchiveRefusal(a) = "Ok"
  <2>1. ~(a.bytes > Limits.bytes \/ a.declared > Limits.entries)
    BY <1>2, <1>6, ReleaseAssumption, PathFacts
  <2>2. Cardinality(Names(entries)) = a.declared
    BY <1>2, <1>5, <1>7
  <2> DEFINE refusals == [i \in DOMAIN entries |->
                            EntryRefusal(entries[i], UnpackedBefore(entries, i))]
             refused == {i \in DOMAIN refusals : refusals[i] # "Ok"}
  <2>3. refused = {}
    BY <1>2, <1>9
  <2>4. ManifestPath \in Names(entries)
    BY <1>5, WholeHasManifest DEF files
  <2>5. a # Absent /\ a # Partial
    BY <1>4 DEF Lost
  <2> QED BY <2>1, <2>2, <2>3, <2>4, <2>5 DEF ArchiveRefusal, entries
<1>11. Unpacked(a) = b
  <2> DEFINE at(q) == CHOOSE i \in DOMAIN entries : entries[i].path = q
             unpacked == [q \in Names(entries) |-> entries[at(q)].content]
  <2>1. \A q \in DOMAIN files : entries[at(q)].content = files[q]
    <3> SUFFICES ASSUME NEW q \in DOMAIN files
                 PROVE  entries[at(q)].content = files[q]
      OBVIOUS
    <3>1. \E i \in listed : entries[i].path = q
      BY <1>1, <1>3
    <3>2. at(q) \in listed /\ entries[at(q)].path = q
      BY <1>2, <3>1
    <3> QED BY <1>3, <3>2
  <2>2. unpacked = [q \in DOMAIN files |-> files[q]]
    BY <1>5, <2>1
  <2>3. files = [q \in DOMAIN files |-> files[q]]
    BY DEF Whole, IsBundle, files
  <2>4. unpacked = files
    BY <2>2, <2>3
  <2>5. files[ManifestPath] = b.manifest
    BY WholeHasManifest DEF files
  <2>6. Unpacked(a) = [manifest |-> unpacked[ManifestPath], files |-> unpacked]
    BY DEF Unpacked, entries
  <2>7. Unpacked(a) = [manifest |-> b.manifest, files |-> b.files]
    BY <2>4, <2>5, <2>6 DEF files
  <2> QED BY <2>7 DEF Whole, IsBundle
<1>12. IsArchive(a)
  <2>1. \A i \in listed : entries[i].path = ManifestPath => entries[i].content = b.manifest
    BY <1>3, WholeHasManifest DEF files
  <2>2. DOMAIN entries \subseteq Nat
    BY <1>1, <1>2
  <2>3. IsManifest(b.manifest)
    BY DEF Whole, IsBundle
  <2> QED BY <1>2, <2>1, <2>2, <2>3 DEF IsArchive, entries
<1> QED BY <1>4, <1>10, <1>11, <1>12 DEF a, files

-----------------------------------------------------------------------------
(* Verification and signing                                                *)

LEMMA VerifiedIsTrusted ==
  ASSUME NEW b, NEW algorithms, Verification(b, algorithms) = "Ok"
  PROVE  Trusted(b)
BY DEF Verification, Trusted, SignaturesHold, SignedForCore

\* A signed bundle has the files of the one it was made of, but for the
\* manifest, and the signatures of that one that were kept.
LEMMA SigningKeepsTrust ==
  ASSUME NEW b, NEW s, Whole(b)
  PROVE  Trusted(WithManifest(Signed(b.manifest, s), b.files))
<1> DEFINE manifest == Signed(b.manifest, s)
           signed == WithManifest(manifest, b.files)
           others == {e \in b.manifest.signatures :
                        e.algorithm # s.algorithm \/ e.key # s.key}
<1>1. /\ manifest.core = b.manifest.core /\ manifest.digest = b.manifest.digest
      /\ manifest.signatures = others \cup {Envelope(s, b.manifest.digest)}
  BY DEF Signed
<1>2. signed.manifest = manifest
  BY DEF WithManifest, WithFile
<1>3. /\ DOMAIN signed.files = DOMAIN b.files \cup {ManifestPath}
      /\ signed.files[ManifestPath] = manifest
      /\ \A q \in DOMAIN b.files \ {ManifestPath} : signed.files[q] = b.files[q]
  BY DEF WithManifest, WithFile
<1>4. /\ DrcPath # ManifestPath /\ DesignPath # ManifestPath
      /\ FabricationPath # ManifestPath /\ AssemblyPath # ManifestPath
  BY DEF DrcPath, DesignPath, FabricationPath, AssemblyPath, ManifestPath
<1> HIDE DEF manifest, signed
<1>5. Trusted(b) /\ ManifestPath \notin DOMAIN b.manifest.core.artifacts
  BY DEF Whole, IsBundle, IsManifest
<1>6. IntegrityHolds(signed)
  BY <1>1, <1>2, <1>3, <1>5 DEF Trusted, IntegrityHolds
<1>7. EvidenceHolds(signed)
  <2>1. /\ DrcPath \in DOMAIN b.files => signed.files[DrcPath] = b.files[DrcPath]
        /\ DesignPath \in DOMAIN b.files => signed.files[DesignPath] = b.files[DesignPath]
        /\ FabricationPath \in DOMAIN b.files =>
             signed.files[FabricationPath] = b.files[FabricationPath]
        /\ AssemblyPath \in DOMAIN b.files =>
             signed.files[AssemblyPath] = b.files[AssemblyPath]
        /\ DOMAIN b.files \subseteq DOMAIN signed.files
    BY <1>3, <1>4
  <2>2. DrcEvidenceHolds(signed)
    BY <1>1, <1>2, <1>5, <2>1 DEF Trusted, EvidenceHolds, DrcEvidenceHolds
  <2>3. FabricationEvidenceHolds(signed)
    BY <1>1, <1>2, <1>5, <2>1 DEF Trusted, EvidenceHolds, FabricationEvidenceHolds
  <2>4. AssemblyEvidenceHolds(signed)
    BY <1>1, <1>2, <1>5, <2>1 DEF Trusted, EvidenceHolds, AssemblyEvidenceHolds
  <2> QED BY <1>1, <1>2, <1>5, <2>1, <2>2, <2>3, <2>4 DEF Trusted, EvidenceHolds
<1>8. SignedForCore(signed)
  <2>1. \A e \in others : e.names = b.manifest.digest /\ e.covers = b.manifest.digest
    BY <1>5 DEF Trusted, SignedForCore
  <2>2. /\ Envelope(s, b.manifest.digest).names = b.manifest.digest
        /\ Envelope(s, b.manifest.digest).covers = b.manifest.digest
    BY DEF Envelope
  <2> QED BY <1>1, <1>2, <1>5, <2>1, <2>2 DEF SignedForCore
<1> QED BY <1>6, <1>7, <1>8 DEF Trusted, signed, manifest

\* Signing leaves a bundle of the same shape.
LEMMA SignedIsWhole ==
  ASSUME NEW b, NEW s, Whole(b)
  PROVE  Whole(WithManifest(Signed(b.manifest, s), b.files))
<1> DEFINE manifest == Signed(b.manifest, s)
           signed == WithManifest(manifest, b.files)
<1>1. IsManifest(manifest)
  BY DEF Signed, Whole, IsBundle, IsManifest
<1> HIDE DEF manifest
<1>2. IsBundle(signed)
  BY <1>1, WithFileIsBundle DEF WithManifest
<1> QED BY <1>2, SigningKeepsTrust DEF Whole, manifest

\* A read leaves the bundle in hand or puts one that verifies in its place.
LEMMA JudgedIsWhole ==
  ASSUME BundleInv, NEW p \in Processes, NEW b, IsBundle(b), NEW algorithms,
         Judge(p, b, algorithms)
  PROVE  BundleInv' /\ \A x \in Processes \ {p} : bundle'[x] = bundle[x]
<1>1. CASE Verification(b, algorithms) = "Ok"
  <2>1. Whole(b)
    BY <1>1, VerifiedIsTrusted DEF Whole
  <2> QED BY <1>1, <2>1 DEF Judge, BundleInv
<1>2. CASE Verification(b, algorithms) # "Ok"
  BY <1>2 DEF Judge, BundleInv
<1> QED BY <1>1, <1>2

\* An archive that is not refused has a manifest.
LEMMA UnrefusedHasManifest ==
  ASSUME NEW a, IsArchive(a), ArchiveRefusal(a) = "Ok"
  PROVE  ManifestPath \in Names(a.entries)
<1> DEFINE refusals == [i \in DOMAIN a.entries |->
                          EntryRefusal(a.entries[i], UnpackedBefore(a.entries, i))]
           refused == {i \in DOMAIN refusals : refusals[i] # "Ok"}
<1>1. refused # {} => Min(refused) \in refused
  <2> SUFFICES ASSUME refused # {}
               PROVE  Min(refused) \in refused
    OBVIOUS
  <2>1. refused \subseteq Nat
    BY DEF IsArchive
  <2> HIDE DEF refused
  <2>2. \E x \in refused : \A y \in refused : x <= y
    BY <2>1, LeastNatural
  <2> QED BY <2>2 DEF Min
<1>2. refused # {} => refusals[Min(refused)] # "Ok"
  BY <1>1
<1> HIDE DEF refusals, refused
<1>3. \/ ArchiveRefusal(a) \in {"Io", "Archive", "ArchiveLimit", "MissingArtifact"}
      \/ refused # {} /\ ArchiveRefusal(a) = refusals[Min(refused)]
      \/ ManifestPath \in Names(a.entries)
  BY DEF ArchiveRefusal, refusals, refused
<1> QED BY <1>2, <1>3

\* What an archive with a manifest unpacks to has the shape of a bundle.
LEMMA UnpackedIsBundle ==
  ASSUME NEW a, IsArchive(a), ManifestPath \in Names(a.entries)
  PROVE  IsBundle(Unpacked(a))
<1> DEFINE at(q) == CHOOSE i \in DOMAIN a.entries : a.entries[i].path = q
           files == [q \in Names(a.entries) |-> a.entries[at(q)].content]
<1>1. Unpacked(a) = [manifest |-> files[ManifestPath], files |-> files]
  BY DEF Unpacked
<1>2. at(ManifestPath) \in DOMAIN a.entries /\ a.entries[at(ManifestPath)].path = ManifestPath
  BY DEF Names
<1>3. IsManifest(files[ManifestPath])
  BY <1>2 DEF IsArchive
<1>4. files = [q \in DOMAIN files |-> files[q]]
  OBVIOUS
<1> HIDE DEF files
<1>5. Unpacked(a).manifest = files[ManifestPath] /\ Unpacked(a).files = files
  BY <1>1
<1> QED BY <1>1, <1>3, <1>4, <1>5 DEF IsBundle

\* What a writer writes next is a file of its bundle or the archive made of it.
LEMMA NextIsOfBundle ==
  ASSUME BundleInv, WriteInv, NEW p \in Writers
  PROVE  /\ Whole(bundle[p])
         /\ NextFile(p) \in DOMAIN todo[p]
         /\ \/ /\ NextFile(p) \in DOMAIN bundle[p].files
               /\ NextFile(p) \in Paths
               /\ todo[p][NextFile(p)] = bundle[p].files[NextFile(p)]
            \/ /\ NextFile(p) = ArchivePath
               /\ todo[p][NextFile(p)] = Archive(bundle[p].files)
<1>1. Writing(bundle[p], todo[p], p \notin disturbed, place)
  BY DEF WriteInv
<1>2. Whole(bundle[p])
  BY <1>1 DEF Writing, BundleInv, Writers
<1>3. CASE WritesDirectory(bundle[p], todo[p], p \notin disturbed, place)
  <2>1. DOMAIN bundle[p].files \subseteq Paths
    BY <1>2, WholeHasManifest
  <2>2. DOMAIN todo[p] \subseteq Paths /\ DOMAIN todo[p] # {}
    BY <1>1, <1>3, <2>1 DEF WritesDirectory, Writing
  <2>3. NextFile(p) \in DOMAIN todo[p]
    BY <2>2, FirstIsOne DEF NextFile
  <2> QED BY <1>2, <1>3, <2>1, <2>3 DEF WritesDirectory
<1>4. CASE WritesArchive(bundle[p], todo[p])
  <2>1. NextFile(p) = ArchivePath
    BY <1>4, FirstIsOne DEF WritesArchive, NextFile
  <2> QED BY <1>2, <1>4, <2>1 DEF WritesArchive
<1> QED BY <1>1, <1>3, <1>4 DEF Writing

\* A writer that has been interfered with keeps to its bundle.
LEMMA DisturbedKeepsWriting ==
  ASSUME NEW b, NEW files, NEW u, NEW at, Writing(b, files, u, at), NEW now
  PROVE  Writing(b, files, FALSE, now)
BY DEF Writing, WritesDirectory

\* A write that others have seen, or one cut short, leaves every place
\* with what it may hold.
LEMMA PlaceAfterWrite ==
  ASSUME PlaceInv, BundleInv, WriteInv, NEW p \in Writers, NEW content,
         content \in {todo[p][NextFile(p)], Partial},
         place' = [place EXCEPT ![NextFile(p)] = content]
  PROVE  PlaceInv'
<1>1. /\ NextFile(p) = ManifestPath => content \in Lost \/ IsManifest(content)
      /\ NextFile(p) = ArchivePath => content \in Lost \/ IsArchive(content)
  <2>1. CASE content = Partial
    BY <2>1 DEF Lost
  <2>2. CASE content = todo[p][NextFile(p)]
    <3>1. /\ bundle[p].files[ManifestPath] = bundle[p].manifest
          /\ IsManifest(bundle[p].manifest)
          /\ IsArchive(Archive(bundle[p].files))
      BY NextIsOfBundle, WholeHasManifest, ArchiveReadsBack DEF Whole, IsBundle
    <3> QED BY <2>2, <3>1, NextIsOfBundle, PathFacts
  <2> QED BY <2>1, <2>2
<1>2. ManifestPath \in Places /\ ArchivePath \in Places
  BY PathFacts DEF Places
<1> QED BY <1>1, <1>2 DEF PlaceInv


\* While a write changes a place, the other writers are interfered with.
LEMMA OthersAreDisturbed ==
  ASSUME WriteInv, NEW p \in Writers, NEW w \in Writers \ {p},
         disturbed' = disturbed \cup (Writers \ {p}),
         bundle'[w] = bundle[w], todo'[w] = todo[w]
  PROVE  Writing(bundle[w], todo[w], w \notin disturbed, place)'
<1>1. Writing(bundle[w], todo[w], FALSE, place')
  <2>1. Writing(bundle[w], todo[w], w \notin disturbed, place)
    BY DEF WriteInv
  <2> QED BY <2>1, DisturbedKeepsWriting
<1>2. (w \notin disturbed') = FALSE
  OBVIOUS
<1> QED BY <1>1, <1>2

\* A write of one file.
LEMMA WriteFileInv ==
  ASSUME ReleaseInv, NEW p \in Processes, WriteFile(p)
  PROVE  ReleaseInv'
<1> DEFINE q == NextFile(p)
           b == bundle[p]
<1>1. /\ p \in Writers
      /\ PlaceInv /\ BundleInv /\ ReadInv /\ WriteInv /\ KeptInv
      /\ place' = [place EXCEPT ![q] = todo[p][q]]
      /\ disturbed' = disturbed \cup (Writers \ {p})
      /\ bundle' = bundle
  BY DEF WriteFile, Writers, ReleaseInv
<1>2. /\ Whole(b)
      /\ q \in DOMAIN todo[p]
      /\ \/ q \in DOMAIN b.files /\ q \in Paths /\ todo[p][q] = b.files[q]
         \/ q = ArchivePath /\ todo[p][q] = Archive(b.files)
  BY <1>1, NextIsOfBundle
<1>3. Writing(b, todo[p], p \notin disturbed, place)
  BY <1>1 DEF WriteInv
<1> HIDE DEF q, b
<1>4. PlaceInv'
  BY <1>1, PlaceAfterWrite DEF q
<1>5. BundleInv'
  BY <1>1 DEF BundleInv
<1>6. q \in Places /\ place'[q] = todo[p][q] /\ \A x \in Places \ {q} : place'[x] = place[x]
  BY <1>1, <1>2, PathFacts DEF Places, PlaceInv
<1>7. CASE DOMAIN todo[p] # {q}
  <2>1. /\ todo' = [todo EXCEPT ![p] = Without(todo[p], q)]
        /\ kept' = Nothing /\ pc' = pc /\ found' = found
    BY <1>7 DEF WriteFile, q
  <2>2. ReadInv' /\ KeptInv'
    BY <1>1, <2>1 DEF ReadInv, KeptInv
  <2>3. Writers' = Writers
    BY <2>1 DEF Writers
  <2>4. Writing(b, Without(todo[p], q), p \notin disturbed, place')
    <3>1. /\ DOMAIN Without(todo[p], q) = DOMAIN todo[p] \ {q}
          /\ \A x \in DOMAIN todo[p] \ {q} : Without(todo[p], q)[x] = todo[p][x]
      BY DEF Without
    <3>2. DOMAIN Without(todo[p], q) # {}
      BY <1>2, <1>7, <3>1
    <3>3. WritesDirectory(b, todo[p], p \notin disturbed, place)
      BY <1>2, <1>3, <1>7 DEF Writing, WritesArchive
    <3>4. /\ DOMAIN Without(todo[p], q) \subseteq DOMAIN b.files
          /\ \A x \in DOMAIN Without(todo[p], q) : Without(todo[p], q)[x] = b.files[x]
      BY <3>1, <3>3 DEF WritesDirectory
    <3>5. ASSUME p \notin disturbed, NEW x \in DOMAIN b.files \ DOMAIN Without(todo[p], q)
          PROVE  place'[x] = b.files[x]
      <4>1. x \in Places
        BY <1>2, WholeHasManifest DEF Places
      <4>2. CASE x = q
        BY <1>2, <1>6, <3>3, <4>2 DEF WritesDirectory
      <4>3. CASE x # q
        BY <1>6, <3>1, <3>3, <3>5, <4>1, <4>3 DEF WritesDirectory
      <4> QED BY <4>2, <4>3
    <3>6. WritesDirectory(b, Without(todo[p], q), p \notin disturbed, place')
      BY <3>4, <3>5 DEF WritesDirectory
    <3> QED BY <1>3, <3>2, <3>6 DEF Writing
  <2>5. ASSUME NEW w \in Writers
        PROVE  Writing(bundle[w], todo[w], w \notin disturbed, place)'
    <3>1. CASE w = p
      <4>1. bundle'[p] = b /\ todo'[p] = Without(todo[p], q)
        BY <1>1, <2>1 DEF b, ReadInv
      <4>2. (p \notin disturbed') = (p \notin disturbed)
        BY <1>1
      <4> QED BY <2>4, <3>1, <4>1, <4>2
    <3>2. CASE w # p
      <4>1. bundle'[w] = bundle[w] /\ todo'[w] = todo[w]
        BY <1>1, <2>1, <3>2
      <4> QED BY <1>1, <3>2, <4>1, OthersAreDisturbed
    <3> QED BY <3>1, <3>2
  <2>6. WriteInv'
    BY <2>3, <2>5 DEF WriteInv
  <2> QED BY <1>4, <1>5, <2>2, <2>6 DEF ReleaseInv
<1>8. CASE DOMAIN todo[p] = {q}
  <2>1. /\ End(p)
        /\ kept' = IF p \in disturbed THEN Nothing
                   ELSE [zipped |-> q = ArchivePath, bundle |-> b]
    BY <1>8 DEF WriteFile, q, b
  <2>2. /\ pc' = [pc EXCEPT ![p] = "idle"]
        /\ todo' = [todo EXCEPT ![p] = NoFiles]
        /\ found' = [found EXCEPT ![p] = Nothing]
    BY <2>1 DEF End
  <2>3. ReadInv'
    BY <1>1, <2>2 DEF ReadInv
  <2>4. Writers' = Writers \ {p}
    BY <1>1, <2>2 DEF Writers, ReadInv
  <2>5. ASSUME NEW w \in Writers \ {p}
        PROVE  Writing(bundle[w], todo[w], w \notin disturbed, place)'
    <3>1. bundle'[w] = bundle[w] /\ todo'[w] = todo[w]
      BY <1>1, <2>2
    <3> QED BY <1>1, <3>1, OthersAreDisturbed
  <2>6. WriteInv'
    BY <2>4, <2>5 DEF WriteInv
  <2>7. KeptInv'
    <3>1. CASE p \in disturbed
      BY <2>1, <3>1 DEF KeptInv
    <3>2. CASE p \notin disturbed /\ q = ArchivePath
      <4>1. kept'.bundle = b /\ kept'.zipped = TRUE
        BY <2>1, <3>2
      <4>2. place'[ArchivePath] = Archive(b.files)
        <5>1. todo[p][ArchivePath] = Archive(b.files)
          BY <1>2, <3>2, PathFacts
        <5> QED BY <1>6, <3>2, <5>1
      <4> QED BY <1>2, <4>1, <4>2 DEF KeptInv
    <3>3. CASE p \notin disturbed /\ q # ArchivePath
      <4>1. kept'.bundle = b /\ kept'.zipped = FALSE
        BY <2>1, <3>3
      <4>2. WritesDirectory(b, todo[p], TRUE, place)
        BY <1>3, <1>8, <3>3 DEF Writing, WritesArchive, WritesDirectory
      <4>3. ASSUME NEW x \in DOMAIN b.files
            PROVE  place'[x] = b.files[x]
        <5>1. x \in Places
          BY <1>2, WholeHasManifest DEF Places
        <5>2. CASE x = q
          BY <1>2, <1>6, <4>2, <5>2 DEF WritesDirectory
        <5>3. CASE x # q
          BY <1>6, <1>8, <4>2, <4>3, <5>1, <5>3 DEF WritesDirectory
        <5> QED BY <5>2, <5>3
      <4> QED BY <1>2, <4>1, <4>3 DEF KeptInv
    <3> QED BY <3>1, <3>2, <3>3
  <2> QED BY <1>4, <1>5, <2>3, <2>6, <2>7 DEF ReleaseInv
<1> QED BY <1>7, <1>8

\* A call that ends early, its process with or without its bundle.
LEMMA InterruptedInv ==
  ASSUME ReleaseInv, NEW p \in Processes, Interrupted(p),
         BundleInv', \A x \in Processes \ {p} : bundle'[x] = bundle[x]
  PROVE  ReleaseInv'
<1>1. /\ PlaceInv /\ BundleInv /\ ReadInv /\ WriteInv /\ KeptInv
      /\ pc' = [pc EXCEPT ![p] = "idle"]
      /\ todo' = [todo EXCEPT ![p] = NoFiles]
      /\ found' = [found EXCEPT ![p] = Nothing]
  BY DEF ReleaseInv, Interrupted, End
<1>2. ReadInv'
  BY <1>1 DEF ReadInv
<1>3. Writers' = Writers \ {p}
  BY <1>1 DEF Writers, ReadInv
<1>4. \A w \in Writers \ {p} : w \in Processes /\ bundle'[w] = bundle[w] /\ todo'[w] = todo[w]
  BY <1>1 DEF Writers
<1>5. CASE UNCHANGED <<place, kept, disturbed>>
  <2>1. PlaceInv' /\ KeptInv'
    BY <1>1, <1>5 DEF PlaceInv, KeptInv
  <2>2. WriteInv'
    BY <1>1, <1>3, <1>4, <1>5 DEF WriteInv
  <2> QED BY <1>2, <2>1, <2>2 DEF ReleaseInv
<1>6. CASE /\ pc[p] = "write"
           /\ place' = [place EXCEPT ![NextFile(p)] = Partial]
           /\ kept' = Nothing
           /\ disturbed' = disturbed \cup (Writers \ {p})
  <2>1. p \in Writers
    BY <1>6 DEF Writers
  <2>2. PlaceInv'
    BY <1>1, <1>6, <2>1, PlaceAfterWrite
  <2>3. KeptInv'
    BY <1>6 DEF KeptInv
  <2>4. ASSUME NEW w \in Writers \ {p}
        PROVE  Writing(bundle[w], todo[w], w \notin disturbed, place)'
    BY <1>1, <1>4, <1>6, <2>1, OthersAreDisturbed
  <2>5. WriteInv'
    BY <1>3, <2>4 DEF WriteInv
  <2> QED BY <1>2, <2>2, <2>3, <2>5 DEF ReleaseInv
<1> QED BY <1>5, <1>6 DEF Interrupted

\* A call that begins to write the files of its bundle, or the archive.
LEMMA BeginWriteInv ==
  ASSUME ReleaseInv, NEW p \in Processes, NEW files, BeginWrite(p, files),
         DOMAIN files # {},
         WritesDirectory(bundle[p], files, TRUE, place) \/ WritesArchive(bundle[p], files)
  PROVE  ReleaseInv'
<1>1. /\ PlaceInv /\ BundleInv /\ ReadInv /\ WriteInv /\ KeptInv
      /\ pc[p] = "idle" /\ bundle[p] # Nothing
      /\ pc' = [pc EXCEPT ![p] = "write"]
      /\ todo' = [todo EXCEPT ![p] = files]
      /\ disturbed' = disturbed \ {p}
      /\ UNCHANGED <<place, bundle, found, kept>>
  BY DEF ReleaseInv, BeginWrite, Idle, Holds
<1>2. PlaceInv' /\ BundleInv' /\ KeptInv'
  BY <1>1 DEF PlaceInv, BundleInv, KeptInv
<1>3. ReadInv'
  BY <1>1 DEF ReadInv
<1>4. Writers' = Writers \cup {p}
  BY <1>1 DEF Writers, ReadInv
<1>5. ASSUME NEW w \in Writers \cup {p}
      PROVE  Writing(bundle[w], todo[w], w \notin disturbed, place)'
  <2>1. CASE w = p
    <3>1. bundle'[p] = bundle[p] /\ todo'[p] = files /\ place' = place
      BY <1>1 DEF ReadInv
    <3>2. (p \notin disturbed') = TRUE
      BY <1>1
    <3>3. Writing(bundle[p], files, TRUE, place)
      BY <1>1 DEF Writing
    <3> QED BY <2>1, <3>1, <3>2, <3>3
  <2>2. CASE w # p
    <3>1. bundle'[w] = bundle[w] /\ todo'[w] = todo[w] /\ place' = place
      BY <1>1, <2>2
    <3>2. (w \notin disturbed') = (w \notin disturbed)
      BY <1>1, <2>2
    <3>3. Writing(bundle[w], todo[w], w \notin disturbed, place)
      BY <1>1, <2>2 DEF WriteInv
    <3> QED BY <3>1, <3>2, <3>3
  <2> QED BY <2>1, <2>2
<1>6. WriteInv'
  BY <1>4, <1>5 DEF WriteInv
<1> QED BY <1>2, <1>3, <1>6 DEF ReleaseInv

\* A call of a process that is not writing, and writes nothing.
LEMMA NoWriteInv ==
  ASSUME ReleaseInv, NEW p \in Processes, p \notin Writers,
         UNCHANGED <<place, kept, disturbed>>, BundleInv', ReadInv', Writers' = Writers,
         \A x \in Writers : bundle'[x] = bundle[x] /\ todo'[x] = todo[x]
  PROVE  ReleaseInv'
<1>1. PlaceInv' /\ KeptInv'
  BY DEF ReleaseInv, PlaceInv, KeptInv
<1>2. WriteInv'
  BY DEF ReleaseInv, WriteInv
<1> QED BY <1>1, <1>2 DEF ReleaseInv

-----------------------------------------------------------------------------
(* The invariant                                                           *)

LEMMA ReleaseStepInv ==
  ASSUME ReleaseInv, [Next]_releaseVars
  PROVE  ReleaseInv'
<1>1. ASSUME NEW p \in Processes, NEW r \in Reports, Build(p, r)
      PROVE  ReleaseInv'
  <2>1. Whole(Bundle(r))
    BY <1>1, VerifiedIsTrusted, BuiltIsBundle DEF Build, Whole
  <2>2. /\ bundle' = [bundle EXCEPT ![p] = Bundle(r)]
        /\ UNCHANGED <<place, pc, todo, found, kept, disturbed>> /\ pc[p] = "idle"
    BY <1>1 DEF Build, callVars, historyVars, Idle
  <2>3. BundleInv'
    BY <2>1, <2>2 DEF BundleInv, ReleaseInv
  <2>4. ReadInv' /\ Writers' = Writers /\ p \notin Writers
    BY <2>2 DEF ReadInv, ReleaseInv, Writers
  <2>5. \A x \in Writers : bundle'[x] = bundle[x] /\ todo'[x] = todo[x]
    BY <2>2, <2>4 DEF Writers, BundleInv, ReleaseInv
  <2> QED BY <2>2, <2>3, <2>4, <2>5, NoWriteInv
<1>2. ASSUME NEW p \in Processes, NEW s \in Signers, Sign(p, s)
      PROVE  ReleaseInv'
  <2>1. Whole(bundle[p])
    BY <1>2 DEF Sign, Holds, ReleaseInv, BundleInv
  <2>2. /\ bundle' = [bundle EXCEPT ![p] =
                       WithManifest(Signed(bundle[p].manifest, s), bundle[p].files)]
        /\ UNCHANGED <<place, pc, todo, found, kept, disturbed>> /\ pc[p] = "idle"
    BY <1>2 DEF Sign, callVars, Idle
  <2>3. BundleInv'
    BY <2>1, <2>2, SignedIsWhole DEF BundleInv, ReleaseInv
  <2>4. ReadInv' /\ Writers' = Writers /\ p \notin Writers
    BY <2>2 DEF ReadInv, ReleaseInv, Writers
  <2>5. \A x \in Writers : bundle'[x] = bundle[x] /\ todo'[x] = todo[x]
    BY <2>2, <2>4 DEF Writers, BundleInv, ReleaseInv
  <2> QED BY <2>2, <2>3, <2>4, <2>5, NoWriteInv
<1>3. ASSUME NEW p \in Processes, WriteDirectory(p)
      PROVE  ReleaseInv'
  <2>1. Whole(bundle[p])
    BY <1>3 DEF WriteDirectory, BeginWrite, Holds, ReleaseInv, BundleInv
  <2>2. DOMAIN bundle[p].files # {}
    BY <2>1, WholeHasManifest
  <2>3. WritesDirectory(bundle[p], bundle[p].files, TRUE, place)
    BY DEF WritesDirectory
  <2> QED BY <1>3, <2>2, <2>3, BeginWriteInv DEF WriteDirectory
<1>4. ASSUME NEW p \in Processes, WriteZip(p)
      PROVE  ReleaseInv'
  <2> DEFINE files == [q \in {ArchivePath} |-> Archive(bundle[p].files)]
  <2>1. WritesArchive(bundle[p], files) /\ DOMAIN files # {}
    BY DEF WritesArchive
  <2>2. BeginWrite(p, files)
    BY <1>4 DEF WriteZip
  <2> HIDE DEF files
  <2> QED BY <2>1, <2>2, BeginWriteInv
<1>5. ASSUME NEW p \in Processes, WriteFile(p)
      PROVE  ReleaseInv'
  BY <1>5, WriteFileInv
<1>6. ASSUME NEW p \in Processes, WriteFails(p)
      PROVE  ReleaseInv'
  <2>1. Interrupted(p) /\ bundle' = bundle
    BY <1>6 DEF WriteFails
  <2>2. BundleInv'
    BY <2>1 DEF ReleaseInv, BundleInv
  <2> QED BY <2>1, <2>2, InterruptedInv
<1>7. ASSUME NEW p \in Processes, Kill(p)
      PROVE  ReleaseInv'
  <2>1. Interrupted(p) /\ bundle' = [bundle EXCEPT ![p] = Nothing]
    BY <1>7 DEF Kill
  <2>2. BundleInv' /\ \A x \in Processes \ {p} : bundle'[x] = bundle[x]
    BY <2>1 DEF ReleaseInv, BundleInv
  <2> QED BY <2>1, <2>2, InterruptedInv
<1>8. ASSUME NEW p \in Processes, ReadDirectory(p)
      PROVE  ReleaseInv'
  <2> DEFINE m == place[ManifestPath]
  <2>1. /\ pc[p] = "idle" /\ pc' = [pc EXCEPT ![p] = "read"]
        /\ todo' = [todo EXCEPT ![p] = m.core.artifacts]
        /\ found' = [found EXCEPT ![p] = WithManifest(m, NoFiles)]
        /\ UNCHANGED <<place, bundle, kept, disturbed>>
        /\ m \notin Lost
    BY <1>8 DEF ReadDirectory, Idle
  <2>2. IsManifest(m)
    BY <2>1 DEF ReleaseInv, PlaceInv
  <2> HIDE DEF m
  <2>3. IsBundle(WithManifest(m, NoFiles))
    BY <2>2, WithFileIsBundle DEF WithManifest
  <2>4. ReadInv'
    BY <2>1, <2>3 DEF ReleaseInv, ReadInv
  <2>5. BundleInv' /\ Writers' = Writers /\ p \notin Writers
    BY <2>1 DEF ReleaseInv, ReadInv, BundleInv, Writers
  <2>6. \A x \in Writers : bundle'[x] = bundle[x] /\ todo'[x] = todo[x]
    BY <2>1, <2>5 DEF Writers, ReadInv, ReleaseInv
  <2> QED BY <2>1, <2>4, <2>5, <2>6, NoWriteInv
<1>9. ASSUME NEW p \in Processes, ReadArtifact(p)
      PROVE  ReleaseInv'
  <2>1. /\ pc[p] = "read" /\ UNCHANGED <<place, bundle, kept, disturbed>>
        /\ p \notin Writers
    BY <1>9 DEF ReadArtifact, historyVars, Writers
  <2>2. BundleInv'
    BY <2>1 DEF ReleaseInv, BundleInv
  <2>3. IsBundle(found[p])
    BY <2>1 DEF ReleaseInv, ReadInv
  <2>4. PICK content \in Seen(NextFile(p)) :
          IF content = Absent THEN End(p)
          ELSE /\ found' = [found EXCEPT ![p] = WithFile(found[p], NextFile(p), content)]
               /\ todo' = [todo EXCEPT ![p] = Without(todo[p], NextFile(p))]
               /\ UNCHANGED pc
    BY <1>9 DEF ReadArtifact
  <2>5. CASE End(p)
    <3>1. ReadInv' /\ Writers' = Writers
      BY <2>1, <2>5 DEF End, ReadInv, ReleaseInv, Writers
    <3>2. \A x \in Writers : bundle'[x] = bundle[x] /\ todo'[x] = todo[x]
      BY <2>1, <2>5 DEF End, Writers, ReadInv, ReleaseInv
    <3> QED BY <2>1, <2>2, <3>1, <3>2, NoWriteInv
  <2>6. CASE /\ found' = [found EXCEPT ![p] = WithFile(found[p], NextFile(p), content)]
             /\ todo' = [todo EXCEPT ![p] = Without(todo[p], NextFile(p))]
             /\ UNCHANGED pc
    <3>1. IsBundle(WithFile(found[p], NextFile(p), content))
      BY <2>3, WithFileIsBundle DEF IsBundle
    <3>2. ReadInv'
      BY <2>6, <3>1 DEF ReadInv, ReleaseInv
    <3>3. Writers' = Writers
      BY <2>6 DEF Writers
    <3>4. \A x \in Writers : bundle'[x] = bundle[x] /\ todo'[x] = todo[x]
      BY <2>1, <2>6 DEF Writers, ReadInv, ReleaseInv
    <3> QED BY <2>1, <2>2, <3>2, <3>3, <3>4, NoWriteInv
  <2> QED BY <2>4, <2>5, <2>6
<1>10. ASSUME NEW p \in Processes, NEW a \in Policies, FinishRead(p, a)
       PROVE  ReleaseInv'
  <2>1. /\ pc[p] = "read" /\ UNCHANGED <<place, kept, disturbed>>
        /\ p \notin Writers /\ Judge(p, found[p], a) /\ End(p)
    BY <1>10 DEF FinishRead, historyVars, Writers
  <2>2. IsBundle(found[p])
    BY <2>1 DEF ReleaseInv, ReadInv
  <2>3. BundleInv' /\ \A x \in Processes \ {p} : bundle'[x] = bundle[x]
    BY <2>1, <2>2, JudgedIsWhole DEF ReleaseInv
  <2>4. ReadInv' /\ Writers' = Writers
    BY <2>1 DEF End, ReadInv, ReleaseInv, Writers
  <2>5. \A x \in Writers : bundle'[x] = bundle[x] /\ todo'[x] = todo[x]
    BY <2>1, <2>3 DEF End, Writers, ReadInv, ReleaseInv
  <2> QED BY <2>1, <2>3, <2>4, <2>5, NoWriteInv
<1>11. ASSUME NEW p \in Processes, NEW a \in Policies, ReadZip(p, a)
       PROVE  ReleaseInv'
  <2> DEFINE archive == place[ArchivePath]
  <2>1. /\ pc[p] = "idle" /\ UNCHANGED <<place, pc, todo, found, kept, disturbed>>
        /\ p \notin Writers /\ Judge(p, Unpacked(archive), a)
        /\ ArchiveRefusal(archive) = "Ok"
    BY <1>11 DEF ReadZip, callVars, historyVars, Idle, Writers
  <2>2. IsArchive(archive)
    BY <2>1 DEF ReleaseInv, PlaceInv, ArchiveRefusal, Lost
  <2>3. ManifestPath \in Names(archive.entries)
    BY <2>1, <2>2, UnrefusedHasManifest
  <2> HIDE DEF archive
  <2>4. IsBundle(Unpacked(archive))
    BY <2>2, <2>3, UnpackedIsBundle
  <2>5. BundleInv' /\ \A x \in Processes \ {p} : bundle'[x] = bundle[x]
    BY <2>1, <2>4, JudgedIsWhole DEF ReleaseInv
  <2>6. ReadInv' /\ Writers' = Writers
    BY <2>1 DEF ReadInv, ReleaseInv, Writers
  <2>7. \A x \in Writers : bundle'[x] = bundle[x] /\ todo'[x] = todo[x]
    BY <2>1, <2>5 DEF Writers
  <2> QED BY <2>1, <2>5, <2>6, <2>7, NoWriteInv
<1>12. ASSUME NEW change \in Edits, Edit(change)
       PROVE  ReleaseInv'
  <2>1. /\ place' = [place EXCEPT ![change[1]] = change[2]]
        /\ kept' = Nothing /\ disturbed' = disturbed \cup Writers
        /\ UNCHANGED <<bundle, pc, todo, found>>
    BY <1>12 DEF Edit, callVars
  <2>2. ManifestPath \in Places /\ ArchivePath \in Places
    BY PathFacts DEF Places
  <2>3. PlaceInv'
    BY <2>1, <2>2, ReleaseAssumption DEF ReleaseInv, PlaceInv
  <2>4. BundleInv' /\ ReadInv' /\ KeptInv' /\ Writers' = Writers
    BY <2>1 DEF ReleaseInv, BundleInv, ReadInv, KeptInv, Writers
  <2>5. ASSUME NEW w \in Writers
        PROVE  Writing(bundle[w], todo[w], w \notin disturbed, place)'
    <3>1. Writing(bundle[w], todo[w], w \notin disturbed, place)
      BY DEF ReleaseInv, WriteInv
    <3>2. Writing(bundle[w], todo[w], FALSE, place')
      BY <3>1, DisturbedKeepsWriting
    <3>3. (w \notin disturbed') = FALSE
      BY <2>1
    <3> QED BY <2>1, <3>2, <3>3
  <2>6. WriteInv'
    BY <2>4, <2>5 DEF WriteInv
  <2> QED BY <2>3, <2>4, <2>6 DEF ReleaseInv
<1>13. CASE UNCHANGED releaseVars
  <2>1. PlaceInv' /\ BundleInv' /\ ReadInv' /\ KeptInv'
    BY <1>13 DEF releaseVars, callVars, historyVars, ReleaseInv, PlaceInv, BundleInv,
                 ReadInv, KeptInv
  <2>2. WriteInv'
    BY <1>13 DEF releaseVars, callVars, historyVars, ReleaseInv, WriteInv, Writers
  <2> QED BY <2>1, <2>2 DEF ReleaseInv
<1> QED BY <1>1, <1>2, <1>3, <1>4, <1>5, <1>6, <1>7, <1>8, <1>9, <1>10, <1>11, <1>12, <1>13
        DEF Next

LEMMA ReleaseInvariant == Spec => []ReleaseInv
<1>1. Init => ReleaseInv
  <2> SUFFICES ASSUME Init
               PROVE  ReleaseInv
    OBVIOUS
  <2>1. PlaceInv
    BY PathFacts DEF Init, PlaceInv, Places, Lost
  <2>2. BundleInv /\ ReadInv /\ KeptInv
    BY DEF Init, BundleInv, ReadInv, KeptInv
  <2>3. WriteInv
    BY DEF Init, WriteInv, Writers
  <2> QED BY <2>1, <2>2, <2>3 DEF ReleaseInv
<1> QED BY <1>1, ReleaseStepInv, PTL DEF Spec

\* A bundle that would verify is what it says.
LEMMA TrustedIsTrue == ReleaseInv => AcceptedIsTrue
<1> SUFFICES ASSUME ReleaseInv, NEW b \in Held
             PROVE  LET core == b.manifest.core IN
                    /\ DOMAIN b.files \ {ManifestPath} = DOMAIN core.artifacts
                    /\ \A p \in DOMAIN core.artifacts : b.files[p] = core.artifacts[p]
                    /\ core.evidence \subseteq DOMAIN b.files
                    /\ b.files[DesignPath].intent = core.intent
                    /\ {x \in core.blockers :
                          x[1] \in {"DrcErrors", "DrcCoverage", "CamRoundTrip"}}
                         = GatesShown(b)
                    /\ core.clean => GatesShown(b) = {}
                    /\ \A e \in b.manifest.signatures : e.covers = core
  BY DEF AcceptedIsTrue
<1> DEFINE core == b.manifest.core
           gates == {x \in core.blockers :
                       x[1] \in {"DrcErrors", "DrcCoverage", "CamRoundTrip"}}
<1>1. /\ IntegrityHolds(b) /\ EvidenceHolds(b) /\ SignedForCore(b)
      /\ ManifestPath \notin DOMAIN core.artifacts
  BY DEF Held, Holds, ReleaseInv, BundleInv, Whole, Trusted, IsBundle, IsManifest
<1>2. /\ DOMAIN b.files \ {ManifestPath} = DOMAIN core.artifacts
      /\ \A p \in DOMAIN core.artifacts : b.files[p] = core.artifacts[p]
      /\ \A e \in b.manifest.signatures : e.covers = core
  BY <1>1 DEF IntegrityHolds, SignedForCore
<1>3. /\ core.evidence \subseteq DOMAIN b.files
      /\ b.files[DesignPath].intent = core.intent
      /\ core.clean <=> core.blockers = {}
  BY <1>1 DEF EvidenceHolds
<1>4. gates = GatesShown(b)
  <2>1. {x \in core.blockers : x[1] = "DrcErrors"} = Counted("DrcErrors", b.files[DrcPath].errors)
    <3>1. b.files[DrcPath] = core.drc
      BY <1>1 DEF EvidenceHolds, DrcEvidenceHolds
    <3> QED BY <1>1, <3>1 DEF EvidenceHolds, DrcEvidenceHolds, BlockerCounted
  <2>2. {x \in core.blockers : x[1] = "DrcCoverage"}
          = Counted("DrcCoverage", Cardinality(CoverageGaps(b.files[DrcPath])))
    BY <1>1 DEF EvidenceHolds, DrcEvidenceHolds, BlockerCounted
  <2>3. {x \in core.blockers : x[1] = "CamRoundTrip"}
          = Counted("CamRoundTrip", b.files[FabricationPath].issues)
    BY <1>1 DEF EvidenceHolds, FabricationEvidenceHolds, BlockerCounted
  <2>4. gates = {x \in core.blockers : x[1] = "DrcErrors"}
                  \cup {x \in core.blockers : x[1] = "DrcCoverage"}
                  \cup {x \in core.blockers : x[1] = "CamRoundTrip"}
    OBVIOUS
  <2> QED BY <2>1, <2>2, <2>3, <2>4 DEF GatesShown
<1> QED BY <1>2, <1>3, <1>4

\* Two bundles in hand compare as their files do.
LEMMA WholeCompare ==
  ASSUME NEW a, NEW b, Whole(a), Whole(b)
  PROVE  LET sameCore == a.manifest.core = b.manifest.core
             sameFiles == FilesOf(a) = FilesOf(b)
             sameIntent == a.files[DesignPath].intent = b.files[DesignPath].intent
         IN CASE Compare(a, b) = "Identical" -> a = b
              [] Compare(a, b) = "SignatureOnly" ->
                   sameCore /\ sameFiles /\ a.manifest.signatures # b.manifest.signatures
              [] Compare(a, b) = "Semantic" -> ~sameIntent
              [] Compare(a, b) = "ArtifactOnly" -> sameIntent /\ ~sameFiles
              [] Compare(a, b) = "MetadataOnly" -> sameIntent /\ sameFiles /\ ~sameCore
<1> DEFINE sameCore == a.manifest.core = b.manifest.core
           sameFiles == FilesOf(a) = FilesOf(b)
           sameArtifacts == a.manifest.core.artifacts = b.manifest.core.artifacts
           sameIntent == a.files[DesignPath].intent = b.files[DesignPath].intent
           sameSigned == a.manifest.signatures = b.manifest.signatures
<1>1. sameCore <=> a.manifest.digest = b.manifest.digest
  BY DEF Whole, Trusted, IntegrityHolds
<1>2. sameIntent <=> a.manifest.core.intent = b.manifest.core.intent
  BY DEF Whole, Trusted, EvidenceHolds
<1>3. ASSUME NEW c, Whole(c)
      PROVE  FilesOf(c) = c.manifest.core.artifacts
  <2> DEFINE artifacts == c.manifest.core.artifacts
  <2>1. /\ ManifestPath \notin DOMAIN artifacts
        /\ \A q \in DOMAIN artifacts : q \in DOMAIN c.files /\ c.files[q] = artifacts[q]
        /\ DOMAIN c.files \subseteq DOMAIN artifacts \cup {ManifestPath}
    BY <1>3 DEF Whole, IsBundle, IsManifest, Trusted, IntegrityHolds
  <2>2. artifacts = [q \in DOMAIN artifacts |-> artifacts[q]]
    BY <1>3 DEF Whole, IsBundle, IsManifest, IsFiles
  <2>3. DOMAIN c.files \ {ManifestPath} = DOMAIN artifacts
    BY <2>1
  <2> HIDE DEF artifacts
  <2>4. FilesOf(c) = [q \in DOMAIN artifacts |-> artifacts[q]]
    BY <2>1, <2>3 DEF FilesOf
  <2> QED BY <2>2, <2>4 DEF artifacts
<1>4. sameFiles <=> sameArtifacts
  BY <1>3
<1>5. sameCore /\ sameSigned => a = b
  <2> SUFFICES ASSUME sameCore, sameSigned
               PROVE  a = b
    OBVIOUS
  <2>1. a.manifest = b.manifest
    BY <1>1 DEF Whole, IsBundle, IsManifest
  <2>2. a.files = b.files
    <3>1. FilesOf(a) = FilesOf(b)
      BY <1>4
    <3>2. /\ DOMAIN FilesOf(a) = DOMAIN a.files \ {ManifestPath}
          /\ DOMAIN FilesOf(b) = DOMAIN b.files \ {ManifestPath}
          /\ \A q \in DOMAIN a.files \ {ManifestPath} : FilesOf(a)[q] = a.files[q]
          /\ \A q \in DOMAIN b.files \ {ManifestPath} : FilesOf(b)[q] = b.files[q]
      BY DEF FilesOf
    <3>3. /\ ManifestPath \in DOMAIN a.files /\ a.files[ManifestPath] = a.manifest
          /\ ManifestPath \in DOMAIN b.files /\ b.files[ManifestPath] = b.manifest
      BY WholeHasManifest
    <3>4. DOMAIN a.files = DOMAIN b.files
      BY <3>1, <3>2, <3>3
    <3>5. \A q \in DOMAIN a.files : a.files[q] = b.files[q]
      BY <2>1, <3>1, <3>2, <3>3, <3>4
    <3>6. /\ a.files = [q \in DOMAIN a.files |-> a.files[q]]
          /\ b.files = [q \in DOMAIN b.files |-> b.files[q]]
      BY DEF Whole, IsBundle
    <3>7. [q \in DOMAIN a.files |-> a.files[q]] = [q \in DOMAIN b.files |-> b.files[q]]
      BY <3>4, <3>5
    <3> QED BY <3>6, <3>7
  <2>3. /\ a = [manifest |-> a.manifest, files |-> a.files]
        /\ b = [manifest |-> b.manifest, files |-> b.files]
    BY DEF Whole, IsBundle
  <2>4. [manifest |-> a.manifest, files |-> a.files] = [manifest |-> b.manifest, files |-> b.files]
    BY <2>1, <2>2
  <2> QED BY <2>3, <2>4
<1>6. sameCore => sameArtifacts
  OBVIOUS
<1>7. CASE a = b
  <2>1. Compare(a, b) = "Identical"
    BY <1>7 DEF Compare
  <2> QED BY <1>7, <2>1
<1>8. CASE a # b /\ sameCore
  <2>1. Compare(a, b) = "SignatureOnly"
    BY <1>1, <1>8 DEF Compare
  <2>2. sameFiles /\ ~sameSigned
    BY <1>4, <1>5, <1>6, <1>8
  <2> QED BY <1>8, <2>1, <2>2
<1>9. CASE ~sameCore /\ ~sameIntent
  <2>1. Compare(a, b) = "Semantic"
    BY <1>1, <1>2, <1>9 DEF Compare
  <2> QED BY <1>9, <2>1
<1>10. CASE ~sameCore /\ sameIntent /\ sameFiles
  <2>1. Compare(a, b) = "MetadataOnly"
    BY <1>1, <1>2, <1>4, <1>10 DEF Compare
  <2> QED BY <1>10, <2>1
<1>11. CASE ~sameCore /\ sameIntent /\ ~sameFiles
  <2>1. Compare(a, b) = "ArtifactOnly"
    BY <1>1, <1>2, <1>4, <1>11 DEF Compare
  <2> QED BY <1>11, <2>1
<1> QED BY <1>7, <1>8, <1>9, <1>10, <1>11

\* What an undisturbed write leaves reads back.
LEMMA KeptReadsBack == ReleaseInv => IntactReadsBack
<1> SUFFICES ASSUME ReleaseInv, kept # Nothing
             PROVE  LET b == kept.bundle
                        files == [q \in DOMAIN b.files |-> place[q]]
                        read == IF kept.zipped THEN Unpacked(place[ArchivePath])
                                  ELSE [manifest |-> place[ManifestPath], files |-> files]
                    IN /\ kept.zipped => ArchiveRefusal(place[ArchivePath]) = "Ok"
                       /\ read = b
                       /\ Verification(b, {e.algorithm : e \in b.manifest.signatures}) = "Ok"
  BY DEF IntactReadsBack
<1> DEFINE b == kept.bundle
           files == [q \in DOMAIN b.files |-> place[q]]
<1>1. /\ Whole(b)
      /\ IF kept.zipped THEN place[ArchivePath] = Archive(b.files)
         ELSE \A q \in DOMAIN b.files : place[q] = b.files[q]
  BY DEF ReleaseInv, KeptInv
<1> HIDE DEF b
<1>2. Verification(b, {e.algorithm : e \in b.manifest.signatures}) = "Ok"
  <2> DEFINE algorithms == {e.algorithm : e \in b.manifest.signatures}
  <2>1. SignaturesHold(b, algorithms)
    BY <1>1 DEF Whole, Trusted, SignedForCore, SignaturesHold
  <2> HIDE DEF algorithms
  <2>2. Verification(b, algorithms) = "Ok"
    BY <1>1, <2>1 DEF Whole, Trusted, Verification
  <2> QED BY <2>2 DEF algorithms
<1>3. CASE kept.zipped
  <2>1. ArchiveRefusal(place[ArchivePath]) = "Ok" /\ Unpacked(place[ArchivePath]) = b
    BY <1>1, <1>3, ArchiveReadsBack
  <2> QED BY <1>2, <1>3, <2>1 DEF b
<1>4. CASE ~kept.zipped
  <2>1. place[ManifestPath] = b.manifest
    BY <1>1, <1>4, WholeHasManifest
  <2>2. files = [q \in DOMAIN b.files |-> b.files[q]]
    BY <1>1, <1>4
  <2>3. files = b.files
    BY <1>1, <2>2 DEF Whole, IsBundle
  <2> HIDE DEF files
  <2>4. [manifest |-> place[ManifestPath], files |-> files] = b
    BY <1>1, <2>1, <2>3 DEF Whole, IsBundle
  <2> QED BY <1>2, <1>4, <2>4 DEF b, files
<1> QED BY <1>3, <1>4

\* Whatever is written over it, cut short, removed, edited or archived by
\* others, a bundle that a call of this library has returned is one whole
\* release whose stated gates and cleanness are those its evidence shows and
\* whose signatures were made for it; signing it again keeps that
\* (`verify_integrity`, `verify_evidence`, `sign_with`).
THEOREM AcceptedReleasesAreTrue == Spec => []AcceptedIsTrue
BY ReleaseInvariant, TrustedIsTrue, PTL

\* A directory or an archive that was written to the end and not touched since
\* the write began, over whatever was there before, is read as the very bundle
\* written, within the archive limits (`write_directory`, `write_zip`,
\* `read_directory`, `read_zip`).
THEOREM UndisturbedWritesReadBack == Spec => []IntactReadsBack
BY ReleaseInvariant, KeptReadsBack, PTL

\* `compare` on bundles that calls have returned: what it answers is what
\* differs between their files, their designs and their signatures.
THEOREM ComparisonsAreTrue == Spec => []ComparisonIsTrue
<1>1. ReleaseInv => ComparisonIsTrue
  <2> SUFFICES ASSUME ReleaseInv
               PROVE  ComparisonIsTrue
    OBVIOUS
  <2>1. \A b \in Held : Whole(b)
    BY DEF Held, Holds, ReleaseInv, BundleInv
  <2> QED BY <2>1, WholeCompare DEF ComparisonIsTrue
<1> QED BY <1>1, ReleaseInvariant, PTL

\* Undisturbed bundles read back, and a comparison says how two differ.
THEOREM RestingBundlesAreTrue == Spec => []BundlesAreTrue
BY UndisturbedWritesReadBack, ComparisonsAreTrue, PTL DEF BundlesAreTrue
=============================================================================
