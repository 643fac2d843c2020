--------------------------- MODULE ReleaseManifest ---------------------------
(***************************************************************************)
(* A release certificate from the build to the tracked record: the         *)
(* release script (Tools/release.sh), the evidence records the device      *)
(* harnesses write (Tests/embedded/evidence-record.mjs), the manifest      *)
(* writer, and the validator (Tools/validate-release-manifest.py) that     *)
(* every candidate and every tracked certificate passes.                   *)
(*                                                                         *)
(* A hash is the value it stands for.  An image is named by the firmware   *)
(* commit, the Core revision and the variant it was built for.  Fields     *)
(* that are only checked for their form are one Boolean of the manifest.   *)
(***************************************************************************)
EXTENDS Naturals, Sequences, FiniteSetsExt

CONSTANTS
  Checks,        \* check -> [artifact, records, units]; the profile requires those with records
  Units,         \* the boards
  Pins,          \* source -> the backend component, version and revision it pins
  Declared,      \* the profile's axes, transport, build budgets
  Metrics,       \* metric -> bytes measured in the built image
  MaxCommits, MaxRuns, MaxEdits   \* bounds on firmware commits, device runs, manual edits

ASSUME ReleaseAssumption ==
  IsFiniteSet(Units) /\ \A check \in DOMAIN Checks : Checks[check].units \in Nat

VARIABLES
  repo,       \* the checkout: commit, lock, tag, VERSION, evidence, published, revoked
  candidate,  \* the manifest in the proof workspace
  release,    \* the running release script
  verdict,    \* what the last validation said, until anything else happens
  device      \* what really happened on the boards: passes, and the last run of each

releaseVars == <<repo, candidate, release, verdict, device>>

None == [mode |-> "none"]
NoVerdict == [manifest |-> None, said |-> "none", tracked |-> <<>>]
Idle == [pc |-> "idle", commit |-> 0, core |-> 0, destination |-> <<>>, runs |-> 0, edits |-> 0]

Image(commit, core, variant) == <<commit, core, variant>>

Record(check, tier, status, core, commit, unit) ==
  [check |-> check, tier |-> tier, status |-> status, core |-> core, revision |-> commit, device |-> unit,
   image |-> Image(commit, core, IF Checks[check].artifact = "release" THEN "release" ELSE check)]

(* The build record of the first commit names its image, from no board. *)
ReleaseInit ==
  /\ repo = [commit |-> 1, lock |-> 1, tag |-> 1, version |-> <<1, 1>>,
             evidence |-> [p \in {<<"build", "none", "result">>} |->
                             Record("build", "build", "passed", 1, 1, "none")],
             published |-> <<>>, revoked |-> <<>>]
  /\ candidate = None
  /\ release = Idle
  /\ verdict = NoVerdict
  /\ device = [passes |-> {}, last |-> <<>>]

Required == [c \in {d \in DOMAIN Checks : Checks[d].records > 0} |-> Checks[c]]

-----------------------------------------------------------------------------
(* The evidence a device run leaves (writeEvidenceRecord): a pass replaces the
   record and removes the failure beside it, a failure is kept beside a pass,
   and a run that never happened leaves an earlier result alone. *)

With(f, path, record) == [p \in DOMAIN f \cup {path} |-> IF p = path THEN record ELSE f[p]]
Without(f, path) == [p \in DOMAIN f \ {path} |-> f[p]]

WriteEvidence(evidence, record) ==
  LET path == <<record.check, record.device, "result">>
      sidecar == <<record.check, record.device, "failed">>
      existing == IF path \in DOMAIN evidence THEN evidence[path].status ELSE "none"
  IN CASE record.status = "passed" -> Without(With(evidence, path, record), sidecar)
       [] record.status = "failed" /\ existing = "passed" -> With(evidence, sidecar, record)
       [] record.status = "unexecuted" /\ (existing \in {"passed", "failed"} \/ sidecar \in DOMAIN evidence) -> evidence
       [] OTHER -> With(evidence, path, record)

(* A harness runs a variant built at this commit on a board, or reports that
   it could not. *)
DeviceRun ==
  /\ release.runs < MaxRuns
  /\ \E check \in {c \in DOMAIN Required : Checks[c].artifact = "variant"}, unit \in Units,
        status \in {"passed", "failed", "unexecuted"} :
       LET record == Record(check, "device", status, repo.lock, repo.commit, unit)
       IN /\ repo' = [repo EXCEPT !.evidence = WriteEvidence(@, record)]
          /\ device' = IF status = "unexecuted" THEN device
                       ELSE [device EXCEPT !.last = With(@, <<check, unit>>, record)]
  /\ release' = [release EXCEPT !.runs = @ + 1]
  /\ verdict' = NoVerdict
  /\ UNCHANGED candidate

(* A commit to the firmware.  It may move the lock, to a tagged Core or to one
   between tags, and VERSION, whose base is meant to be the locked version. *)
Commit ==
  /\ repo.commit < MaxCommits
  /\ \E lock \in {repo.lock, repo.lock + 1} :
       \E tag \in IF lock = repo.lock THEN {repo.tag} ELSE {0, lock},
         version \in {repo.version, <<repo.version[1], repo.version[2] + 1>>, <<lock, 1>>} :
         repo' = [repo EXCEPT !.commit = @ + 1, !.lock = lock, !.tag = tag, !.version = version]
  /\ verdict' = NoVerdict
  /\ UNCHANGED <<candidate, release, device>>

(* A revocation record, well formed or not, for a published certificate. *)
Revoke ==
  /\ \E version \in DOMAIN repo.published \ DOMAIN repo.revoked, form \in {"good", "wrong", "unreadable"} :
       repo' = [repo EXCEPT !.revoked = With(@, version, form)]
  /\ verdict' = NoVerdict
  /\ UNCHANGED <<candidate, release, device>>

-----------------------------------------------------------------------------
(* The manifest writer, run after the build and again after the qualification. *)

\* Mutant: enough accepted records outweigh a failed one beside them.
CheckSatisfied_Enough(check, required, records, core, image, revision) ==
  LET accepted == {p \in DOMAIN records :
                     /\ records[p].check = check
                     /\ records[p].tier = "device" /\ records[p].status = "passed"
                     /\ records[p].core = core
                     /\ IF required.artifact = "release" THEN records[p].image = image
                        ELSE records[p].revision = revision}
  IN /\ Cardinality(accepted) >= required.records
     /\ Cardinality({records[p].device : p \in accepted}) >= required.units

(* Why a required check is not satisfied by the records (required_check_problems,
   and the same rule in the writer). *)
CheckSatisfied(check, required, records, core, image, revision) ==
  LET of == {p \in DOMAIN records : records[p].check = check}
      accepted == {p \in of : /\ records[p].tier = "device" /\ records[p].status = "passed"
                              /\ records[p].core = core
                              /\ IF required.artifact = "release" THEN records[p].image = image
                                 ELSE records[p].revision = revision}
  IN /\ of # {} /\ accepted = of
     /\ Cardinality(of) >= required.records
     /\ Cardinality({records[p].device : p \in of}) >= required.units

RequiredChecksPass(checks, records, core, image, revision) ==
  /\ DOMAIN checks # {}
  /\ \A check \in DOMAIN checks : CheckSatisfied(check, checks[check], records, core, image, revision)

(* The size report of the build: every metric against the declared budget. *)
SizeReport ==
  [metrics |-> Metrics, budgets |-> Declared.budgets, bound |-> TRUE, network |-> FALSE,
   results |-> [m \in DOMAIN Declared.budgets |-> Metrics[m] <= Declared.budgets[m]],
   status |-> IF DOMAIN Declared.budgets = {} THEN "not-configured"
              ELSE IF \A m \in DOMAIN Declared.budgets : Metrics[m] <= Declared.budgets[m] THEN "passed"
              ELSE "failed",
   reason |-> "none"]

(* It states the built commit and Core beside the VERSION, lock and evidence
   it reads now.  A preview is a build off the lock. *)
Manifest(r) ==
  LET core == r.core
      image == Image(r.commit, core, "release")
      mode == IF r.pc = "previewing" THEN "preview" ELSE "release"
      status == IF RequiredChecksPass(Required, repo.evidence, core, image, r.commit)
                THEN "qualified" ELSE "unqualified"
  IN [mode |-> mode, schema |-> 2, wellFormed |-> TRUE, axes |-> Declared.axes,
      transport |-> Declared.transport,
      core |-> [sha |-> core, tag |-> IF mode = "release" THEN repo.tag ELSE 0, dirty |-> FALSE],
      embedded |-> [version |-> repo.version, sha |-> r.commit, dirty |-> FALSE],
      image |-> image, resources |-> SizeReport, status |-> status, checks |-> Required,
      cited |-> repo.evidence,
      compatibility |-> IF mode = "preview" THEN "preview" ELSE status]

(* Off the lock it writes nothing; on it a VERSION that does not follow the
   lock stops the script, and without a tag it writes nothing either. *)
WriterFails(r) == r.core = repo.lock /\ repo.version[1] # repo.lock
WriterSkips(r) == r.core # repo.lock \/ (~WriterFails(r) /\ repo.tag = 0)

-----------------------------------------------------------------------------
(* The validator. *)

(* validate_transport_source: a JSON lock decides backend, version and
   revision; an ESP-IDF manifest decides the version of a named component. *)
TransportSource(t) ==
  LET pin == Pins[t.source]
  IN IF pin.format = "json"
     THEN t.backend = pin.component /\ t.version = pin.version /\ t.revision = pin.revision
     ELSE /\ t.name = "mqtt-espidf" /\ t.backend = "esp-idf/mqtt"
          /\ t.component = pin.component /\ t.version = pin.version /\ t.revision = 0

TransportHolds(t) ==
  /\ t.name = Declared.transport.name
  /\ t.source \in DOMAIN Pins /\ TransportSource(t)

(* The profile's axes and the schema of the document. *)
IdentityHolds(m) == m.schema \in {1, 2} /\ m.mode \in {"release", "preview"} /\ m.wellFormed /\ m.axes = Declared.axes

(* The lock decides a release's Core; a preview is off the lock and names no
   version or tag. *)
CoreHolds(m) ==
  /\ ~m.core.dirty
  /\ m.mode = "release" => m.core.sha = repo.lock /\ m.core.tag = repo.tag /\ m.core.tag # 0
  /\ m.mode = "preview" => m.core.sha # repo.lock /\ m.core.tag = 0

(* VERSION decides the embedded version, and follows the lock in a release. *)
EmbeddedHolds(m) ==
  /\ m.embedded.version = repo.version /\ ~m.embedded.dirty
  /\ m.mode # "preview" => repo.version[1] = repo.lock

(* validate_size_report: the report is bound to the manifest, its static RAM
   is the sum of its parts (data stands for IRAM text and initialized data),
   its verdicts are those of the profile's budgets, and an exemption needs an
   unqualified manifest. *)
SizeReportHolds(m) ==
  LET report == m.resources
      expected == [b \in DOMAIN report.budgets |-> report.metrics[b] <= report.budgets[b]]
      none == DOMAIN report.budgets = {}
  IN /\ report.bound
     /\ report.metrics["static"] = report.metrics["data"] + report.metrics["bss"]
     /\ \/ /\ report.status = "passed" /\ ~none
           /\ report.budgets = Declared.budgets
           /\ report.results = expected /\ \A b \in DOMAIN expected : expected[b]
        \/ /\ report.status = "not-applicable" /\ none /\ m.status = "unqualified"
           /\ \/ /\ report.reason = "c-only" /\ Declared.transport.name = "zenoh-pico"
                 /\ \E c \in DOMAIN Required : c = "c-only" /\ Required[c].artifact = "variant"
              \/ /\ report.reason = "network" /\ ~Declared.networkStack
                 /\ DOMAIN Declared.budgets # {} /\ report.network
        \/ report.status = "not-configured" /\ none /\ DOMAIN Declared.budgets = {}

(* A profile with budgets needs a size report.  The closed list of old
   certificates without one is not modelled: no version here is on it. *)
ResourcesHold(m) == IF m.resources = None THEN DOMAIN Declared.budgets = {} ELSE SizeReportHolds(m)

(* A cited record exists, is whole, and says what the citation says; no failed
   record and no record of a required check is left out
   (validate_evidence, cited_evidence_problems). *)
CitedHolds(m, discovered) ==
  /\ DOMAIN m.cited \subseteq DOMAIN discovered
  /\ \A p \in DOMAIN m.cited : m.cited[p] = discovered[p]
  /\ \A p \in DOMAIN discovered \ DOMAIN m.cited :
       discovered[p].status # "failed" /\ discovered[p].check \notin DOMAIN m.checks

Matching(m) ==
  {p \in DOMAIN m.cited : /\ m.cited[p].status = "passed" /\ m.cited[p].tier = "device"
                          /\ m.cited[p].core = m.core.sha /\ m.cited[p].image = m.image}

QualificationHolds(m) ==
  /\ m.status \in {"qualified", "unqualified"}
  /\ \A p \in DOMAIN m.cited : p \in DOMAIN repo.evidence
  /\ m.status = "qualified" =>
       /\ Matching(m) # {}
       /\ m.schema = 2 /\ m.checks = Required
       /\ CitedHolds(m, repo.evidence)
       /\ RequiredChecksPass(m.checks, repo.evidence, m.core.sha, m.image, m.embedded.sha)

CompatibilityHolds(m) == m.compatibility = IF m.mode = "preview" THEN "preview" ELSE m.status

(* load_revocation: only a tracked certificate has one. *)
RevocationOf(version) == IF version \in DOMAIN repo.revoked THEN repo.revoked[version] ELSE "none"

(* What validate and main say of a manifest: an allowed revocation is checked
   alone, any other one refuses the certificate. *)
Said(m, revocation, requireQualified, allowRevoked) ==
  IF allowRevoked /\ revocation \in {"good", "wrong"}
  THEN IF revocation = "good" THEN "revoked" ELSE "invalid"
  ELSE IF /\ revocation = "none" /\ m.mode # "partial"
          /\ IdentityHolds(m) /\ TransportHolds(m.transport) /\ CoreHolds(m) /\ EmbeddedHolds(m)
          /\ ResourcesHold(m) /\ QualificationHolds(m) /\ CompatibilityHolds(m)
          /\ requireQualified => m.status = "qualified"
       THEN "valid" ELSE "invalid"

-----------------------------------------------------------------------------
(* The release script. *)

Validated(m, said, tracked) == verdict' = [manifest |-> m, said |-> said, tracked |-> tracked]

(* A published record is never released again.  The version is read here. *)
ReleaseStart ==
  /\ release.pc = "idle" /\ repo.version \notin DOMAIN repo.published
  /\ release' = [release EXCEPT !.pc = "build", !.destination = repo.version]
  /\ verdict' = NoVerdict
  /\ UNCHANGED <<repo, candidate, device>>

PreviewStart ==
  /\ release.pc = "idle"
  /\ \E core \in 1 .. repo.lock + 1 :
       release' = [release EXCEPT !.pc = "previewing", !.commit = repo.commit, !.core = core]
  /\ verdict' = NoVerdict
  /\ UNCHANGED <<repo, candidate, device>>

(* The candidate of a release that ended is removed by the next build before
   anything reads it again. *)
Ended == [Idle EXCEPT !.runs = release.runs, !.edits = release.edits]
ReleaseStops == release' = Ended /\ candidate' = None /\ verdict' = NoVerdict

PreviewBuilt ==
  /\ release.pc = "previewing"
  /\ Validated(Manifest(release), Said(Manifest(release), "none", FALSE, FALSE), <<>>)
  /\ release' = Ended /\ candidate' = None
  /\ UNCHANGED <<repo, device>>

Build ==
  /\ release.pc = "build"
  /\ LET r == [release EXCEPT !.pc = "qualify", !.commit = repo.commit, !.core = repo.lock]
     IN /\ ~WriterFails(r)
        /\ release' = r
        /\ candidate' = IF WriterSkips(r) THEN None ELSE Manifest(r)
  /\ verdict' = NoVerdict
  /\ UNCHANGED <<repo, device>>

BuildFails ==
  /\ release.pc = "build" /\ WriterFails([release EXCEPT !.core = repo.lock])
  /\ ReleaseStops
  /\ UNCHANGED <<repo, device>>

(* The release image is flashed and smoked; only a pass writes its record. *)
Qualify ==
  /\ release.pc = "qualify"
  /\ \E check \in {c \in DOMAIN Required : Checks[c].artifact = "release"}, unit \in Units :
       LET record == Record(check, "device", "passed", release.core, release.commit, unit)
       IN /\ repo' = [repo EXCEPT !.evidence = With(@, <<check, "any", "result">>, record)]
          /\ device' = [device EXCEPT !.passes = @ \cup {record}]
  /\ release' = [release EXCEPT !.pc = "write"]
  /\ verdict' = NoVerdict
  /\ UNCHANGED candidate

QualifyFails == release.pc = "qualify" /\ ReleaseStops /\ UNCHANGED <<repo, device>>

(* The second writing; when it writes nothing the candidate of the build stays. *)
WriteManifest ==
  /\ release.pc = "write" /\ ~WriterFails(release)
  /\ ~(WriterSkips(release) /\ candidate = None)
  /\ candidate' = IF WriterSkips(release) THEN candidate ELSE Manifest(release)
  /\ release' = [release EXCEPT !.pc = "validate"]
  /\ verdict' = NoVerdict
  /\ UNCHANGED <<repo, device>>

NoManifest ==
  /\ release.pc = "write" /\ (WriterFails(release) \/ (WriterSkips(release) /\ candidate = None))
  /\ ReleaseStops
  /\ UNCHANGED <<repo, device>>

(* Someone edits a field of the candidate by hand, and may claim that it is
   qualified. *)
EditedReport(report) ==
  {None, [report EXCEPT !.budgets = [b \in DOMAIN report.budgets |-> report.budgets[b] + 9]],
   [report EXCEPT !.status = "not-applicable", !.reason = "network", !.network = TRUE,
                  !.budgets = <<>>, !.results = <<>>],
   [report EXCEPT !.status = "not-configured", !.budgets = <<>>, !.results = <<>>]}

Edited(m) ==
  {[m EXCEPT !.schema = 1, !.checks = <<>>],
   [m EXCEPT !.mode = "preview", !.core.tag = 0, !.compatibility = "preview"],
   [m EXCEPT !.axes = "other"]}
  \cup {[m EXCEPT !.resources = r] : r \in IF m.resources = None THEN {} ELSE EditedReport(m.resources)}
  \cup {[m EXCEPT !.cited = Without(m.cited, p)] : p \in DOMAIN m.cited}
  \cup {[m EXCEPT !.cited[p].status = "passed"] : p \in DOMAIN m.cited}
  \cup {[m EXCEPT !.image = m.cited[p].image, !.core.sha = m.cited[p].core] : p \in DOMAIN m.cited}
  \cup {[m EXCEPT !.embedded.sha = commit] : commit \in 1 .. repo.commit}
  \cup {[m EXCEPT !.transport.source = s] : s \in DOMAIN Pins}
  \cup {[m EXCEPT !.transport.version = Pins[s].version] : s \in DOMAIN Pins}

HandEdit ==
  /\ release.pc = "validate" /\ release.edits < MaxEdits
  /\ \E m \in Edited(candidate) \cup {candidate}, claimed \in BOOLEAN :
       candidate' = IF claimed THEN [m EXCEPT !.status = "qualified", !.compatibility = "qualified"] ELSE m
  /\ release' = [release EXCEPT !.edits = @ + 1]
  /\ verdict' = NoVerdict
  /\ UNCHANGED <<repo, device>>

ValidateCandidate ==
  /\ release.pc = "validate"
  /\ LET said == Said(candidate, "none", TRUE, FALSE)
     IN /\ Validated(candidate, said, <<>>)
        /\ IF said = "valid"
           THEN release' = [release EXCEPT !.pc = "copy"] /\ UNCHANGED candidate
           ELSE release' = Ended /\ candidate' = None
  /\ UNCHANGED <<repo, device>>

(* The copy into releases/ is not atomic. *)
CopyStarts ==
  /\ release.pc = "copy"
  /\ repo' = [repo EXCEPT !.published = With(@, release.destination, [mode |-> "partial"])]
  /\ release' = [release EXCEPT !.pc = "copying"]
  /\ verdict' = NoVerdict
  /\ UNCHANGED <<candidate, device>>

CopyEnds ==
  /\ release.pc = "copying"
  /\ repo' = [repo EXCEPT !.published = With(@, release.destination, candidate)]
  /\ release' = [release EXCEPT !.pc = "recheck"]
  /\ verdict' = NoVerdict
  /\ UNCHANGED <<candidate, device>>

(* A published record that fails stays where it is. *)
ValidatePublished ==
  /\ release.pc = "recheck"
  /\ LET m == repo.published[release.destination]
     IN Validated(m, Said(m, RevocationOf(release.destination), TRUE, FALSE), release.destination)
  /\ release' = Ended /\ candidate' = None
  /\ UNCHANGED <<repo, device>>

ReleaseKilled == release.pc # "idle" /\ ReleaseStops /\ UNCHANGED <<repo, device>>

(* check-invariants.sh on every tracked certificate. *)
CheckTracked ==
  /\ \E version \in DOMAIN repo.published :
       LET m == repo.published[version]
       IN Validated(m, Said(m, RevocationOf(version), TRUE, TRUE), version)
  /\ UNCHANGED <<repo, candidate, release, device>>

ReleaseNext ==
  \/ DeviceRun \/ Commit \/ Revoke \/ HandEdit \/ CheckTracked
  \/ ReleaseStart \/ PreviewStart \/ PreviewBuilt \/ Build \/ BuildFails \/ Qualify \/ QualifyFails
  \/ WriteManifest \/ NoManifest \/ ValidateCandidate \/ CopyStarts \/ CopyEnds
  \/ ValidatePublished \/ ReleaseKilled

ReleaseSpec == ReleaseInit /\ [][ReleaseNext]_releaseVars

-----------------------------------------------------------------------------
(* What a certificate claims of the boards: the image passed each check of the
   released image, and of each other check enough boards passed at this commit
   with this Core and no board's last run says otherwise. *)
BoardsAgree(m) ==
  \A check \in DOMAIN Required :
    LET last == {u \in Units : <<check, u>> \in DOMAIN device.last}
    IN IF Required[check].artifact = "release"
       THEN \E r \in device.passes : r.check = check /\ r.image = m.image /\ r.core = m.core.sha
       ELSE /\ Cardinality(last) >= Required[check].units
            /\ \A u \in last : LET r == device.last[<<check, u>>]
                              IN r.status = "passed" /\ r.core = m.core.sha /\ r.revision = m.embedded.sha

(* Whatever was edited, rerun, committed or interrupted: when the validator
   says that a manifest is a valid qualified release, the boards agree with it
   now, it names the locked and tagged Core and the VERSION of the checkout,
   the image fits every budget the profile declares, and no revocation record
   stands against it, not even a malformed one. *)
ValidMeansQualified ==
  verdict.said = "valid" /\ verdict.manifest.status = "qualified" /\ verdict.manifest.mode = "release" =>
    LET m == verdict.manifest
    IN /\ BoardsAgree(m)
       /\ m.core.sha = repo.lock /\ repo.tag = repo.lock
       /\ m.embedded.version = repo.version /\ repo.version[1] = repo.lock
       /\ \A b \in DOMAIN Declared.budgets : Metrics[b] <= Declared.budgets[b]
       /\ verdict.tracked \notin DOMAIN repo.revoked

=============================================================================
