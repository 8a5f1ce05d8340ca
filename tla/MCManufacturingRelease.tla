----------------------- MODULE MCManufacturingRelease -----------------------
(* Releases and changes for model-checking ManufacturingRelease.           *)
EXTENDS ManufacturingRelease, TLC

Checked(status, reason) == [status |-> status, reason |-> reason]
Drc(errors, coverage) ==
  [profile |-> "p", errors |-> errors, checks |-> [clearance |-> coverage]]
Report(product, intent, errors, coverage, optional) ==
  [product |-> product, design |-> [intent |-> intent, layout |-> "l"],
   drc |-> Drc(errors, coverage), fabrication |-> [image |-> "g", issues |-> 0],
   assembly |-> [rows |-> "a"], optional |-> optional, mixedSignal |-> {}, otherBlockers |-> {}]

Passed == Checked("passed", FALSE)

(* A clean release, one whose board fails, two that cannot be built (no    *)
(* name, and evidence that is not there) and one built elsewhere.          *)
Clean == Report("one", "i", 0, Passed, << >>)
Renamed == [Clean EXCEPT !.product = "two"]
Failing == Report("one", "i", 1, Checked("uncertain", FALSE), "test/test-intent.json" :> [points |-> "t"])
Unfounded == [Clean EXCEPT !.mixedSignal = {"evidence/simulation.json"}]
Unnamed == [Clean EXCEPT !.product = ""]

ProcessSymmetry == Permutations(Processes)

MCReports == {Clean, Failing, Unfounded, Unnamed}

MCSigners == {[algorithm |-> "hsm", key |-> "k"]}
MCPolicies == {BuiltIn, {"hsm"}}
MCLimits == [bytes |-> 8, entries |-> 7, file |-> 2, total |-> 8, ratio |-> 2]

(* The failing release presented as clean, with and without its digest.    *)
Polished == [Core(Failing) EXCEPT !.blockers = {}, !.clean = TRUE]

Zipped == Archive(Bundle(Clean).files)
With(i, entry) == [Zipped EXCEPT !.entries[i] = entry @@ @]

MCEdits ==
  {<<DrcPath, Absent>>, <<DrcPath, Drc(0, Passed)>>,
   <<ManifestPath, Manifest(Polished)>>,
   <<ManifestPath, [Manifest(Core(Failing)) EXCEPT !.core = Polished]>>,
   <<ArchivePath, Archive(Bundle([Clean EXCEPT !.design.intent = "j"]).files)>>,
   <<ArchivePath, Archive(Bundle(Renamed).files)>>,
   <<ArchivePath, Archive(WithManifest(Manifest(Polished), Artifacts(Failing)).files)>>,
   <<ArchivePath, With(1, [kind |-> "link"])>>,
   <<ArchivePath, With(1, [path |-> Unportable])>>,
   <<ArchivePath, With(1, [path |-> DrcPath])>>,
   <<ArchivePath, With(2, [size |-> 3, yields |-> 3])>>,
   <<ArchivePath, [Zipped EXCEPT !.entries = Without(@, 1), !.declared = @ - 1]>>}
=============================================================================
