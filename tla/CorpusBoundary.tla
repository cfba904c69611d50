--------------------------- MODULE CorpusBoundary ---------------------------
(***************************************************************************)
(* How a corpus database comes to be built, baked and served, and the      *)
(* checks that decide which one may go where: load_manifest (manifest.py), *)
(* build_index (index_builder.py), the image gate (image_gate.py), the two *)
(* scripts that build and scan, and the startup checks of create_app.      *)
(*                                                                         *)
(* A database file is named by the build that created it, whatever path    *)
(* leads to it: an output path and its .building path point to files, and  *)
(* builds with the same output share both.  A manifest may be edited       *)
(* between any two reads, so that every read may find any manifest.        *)
(*                                                                         *)
(* SQLite is external: creating the schema in a file that has it raises,   *)
(* so does the first write to a file that was unlinked or renamed since it *)
(* was opened, and rows of a transaction appear together when it commits.  *)
(***************************************************************************)
EXTENDS FiniteSets

CONSTANTS Builds,    \* runs of build_index(), and the files they create
          NoBuild,   \* no file, or no build
          Manifests  \* what a manifest file may hold when it is read

ASSUME NoBuildAssumption == NoBuild \notin Builds
ASSUME BuildsAssumption == Builds \cap {"repo", "external"} = {}

VARIABLES build,      \* build[k]: where run k stands, what it was given and loaded
          content,    \* content[k]: what is in the file that run k created
          temp,       \* temp[p]: the file that p with suffix .building names
          out,        \* out[p]: the file that output path p names
          image,      \* the last image built, and by which route
          service,    \* the running service, and the file its startup checked
          contended   \* output paths that two running builds have shared

bvars == <<build, content, temp, out, image, service, contended>>

-----------------------------------------------------------------------------
(* Manifests                                                               *)

Kinds == {"synthetic_fixture", "approved_corpus"}
FixtureRelease == "FIXTURE-ONLY"
Local == "local_only_licence_reviewed"
Granted == "written_permission_granted"
ApprovalStatuses == {"written_permission_required", Local, Granted}

Manifest == [content_kind : Kinds, release : {FixtureRelease, "PINNED"},
             status : ApprovalStatuses \cup {"not_required"},
             reference : {"real", "REPLACE_WITH"}]

ASSUME ManifestsAssumption == Manifests \subseteq Manifest

IsFixture(m) == m.content_kind = "synthetic_fixture"

\* Mutant: an external corpus may carry the release label of the fixture.
ValidAnyRelease(m) ==
    \/ /\ IsFixture(m)
       /\ m.release = FixtureRelease
       /\ m.status = "not_required"
    \/ /\ ~IsFixture(m)
       /\ m.status \in ApprovalStatuses
       /\ m.status \in {Local, Granted} => m.reference = "real"

\* load_manifest() returns m and does not raise.
Valid(m) ==
    \/ /\ IsFixture(m)
       /\ m.release = FixtureRelease
       /\ m.status = "not_required"
    \/ /\ ~IsFixture(m)
       /\ m.release # FixtureRelease
       /\ m.status \in ApprovalStatuses
       /\ m.status \in {Local, Granted} => m.reference = "real"

\* Mutant: the flags are looked at for external corpora only.
AllowedFixtureAnyFlags(m, flags, place) ==
    \/ IsFixture(m)
    \/ /\ ~IsFixture(m)
       /\ <<m.status, flags>> \in {<<Local, {"local"}>>, <<Granted, {"approved"}>>}
       /\ place # "repo"

\* _enforce_approval_boundary() lets manifest m be built at place with flags.
Allowed(m, flags, place) ==
    \/ IsFixture(m) /\ flags = {}
    \/ /\ ~IsFixture(m)
       /\ <<m.status, flags>> \in {<<Local, {"local"}>>, <<Granted, {"approved"}>>}
       /\ place # "repo"

\* Mutant: the approval status is recorded as the scope.
ScopeIsStatus(m) == IF IsFixture(m) THEN "fixture_only" ELSE m.status

\* The delivery scope the builder records in the database.
Scope(m) == IF IsFixture(m) THEN "fixture_only"
            ELSE IF m.status = Local THEN "local_only" ELSE "distribution_approved"

-----------------------------------------------------------------------------
(* Builds                                                                  *)

\* Output paths: in the repository, outside it, or in the private context
\* directory of one run of build_approved_image.
Places == {"repo", "external"} \cup Builds
Files == Builds \cup {NoBuild}

Unstarted == {"idle", "vetted"}
Running == {"loaded", "cleared", "open", "ingesting", "committed", "raised"}
Ended == {"done", "failed", "killed"}

Scopes == {"fixture_only", "local_only", "distribution_approved"}
NoManifest == [content_kind |-> "none"]
Idle == [pc |-> "idle", manifest |-> NoManifest, place |-> "external", scope |-> "none"]

BInit == /\ build = [k \in Builds |-> Idle]
         /\ content = [k \in Builds |-> "none"]
         /\ temp = [p \in Places |-> NoBuild]
         /\ out = [p \in Places |-> NoBuild]
         /\ image = [route |-> "none", file |-> NoBuild]
         /\ service = [from |-> "off", file |-> NoBuild]
         /\ contended = {}

At(k, pc) == build[k].pc = pc
Goto(k, pc) == build' = [build EXCEPT ![k].pc = pc]
Place(k) == build[k].place

\* build_approved_image(): the first load of the manifest and its checks.
Vet(k) ==
    /\ At(k, "idle")
    /\ \E m \in Manifests : Valid(m) /\ ~IsFixture(m) /\ m.status = Granted
    /\ Goto(k, "vetted")
    /\ UNCHANGED <<content, temp, out, image, service, contended>>

\* build_index() loads the manifest and enforces the approval boundary; a
\* vetted run loads it a second time, for its own context directory.
Load(k) ==
    /\ build[k].pc \in Unstarted
    /\ \E m \in {x \in Manifests : Valid(x)} :
       \E flags \in SUBSET {"local", "approved"} :
       \E place \in IF At(k, "vetted") THEN {k} ELSE {"repo", "external"} :
        /\ At(k, "vetted") => flags = {"approved"}
        /\ Allowed(m, flags, place)
        /\ build' = [build EXCEPT ![k] = [pc |-> "loaded", manifest |-> m,
                                          place |-> place, scope |-> Scope(m)]]
        /\ contended' = contended \cup
               {p \in {place} : \E j \in Builds : build[j].pc \in Running /\ Place(j) = p}
    /\ UNCHANGED <<content, temp, out, image, service>>

\* Whatever file has the .building name is removed.
Clear(k) ==
    /\ At(k, "loaded")
    /\ temp' = [temp EXCEPT ![Place(k)] = NoBuild]
    /\ Goto(k, "cleared")
    /\ UNCHANGED <<content, out, image, service, contended>>

\* connect() and the schema; in another build's file the schema exists.
Open(k) ==
    /\ At(k, "cleared")
    /\ IF temp[Place(k)] = NoBuild
       THEN /\ temp' = [temp EXCEPT ![Place(k)] = k]
            /\ content' = [content EXCEPT ![k] = "schema"]
            /\ Goto(k, "open")
       ELSE Goto(k, "raised") /\ UNCHANGED <<content, temp>>
    /\ UNCHANGED <<out, image, service, contended>>

\* The first document is read and its row opens the transaction, which
\* raises if the file was unlinked or renamed.
Begin(k) ==
    /\ At(k, "open")
    /\ Goto(k, IF temp[Place(k)] = k THEN "ingesting" ELSE "raised")
    /\ UNCHANGED <<content, temp, out, image, service, contended>>

\* The remaining rows, then the metadata, in the one transaction.
Commit(k) ==
    /\ At(k, "ingesting")
    /\ content' = [content EXCEPT ![k] = "complete"]
    /\ Goto(k, "committed")
    /\ UNCHANGED <<temp, out, image, service, contended>>

\* A file that cannot be opened, a source that does not match its hash, a
\* full disk, a commit that fails.
Raise(k) ==
    /\ build[k].pc \in {"cleared", "open", "ingesting"}
    /\ Goto(k, "raised")
    /\ UNCHANGED <<content, temp, out, image, service, contended>>

\* Mutant: the file is published before its transaction has committed.
ReplaceEarly(k) ==
    /\ build[k].pc \in {"ingesting", "committed"}
    /\ temp[Place(k)] # NoBuild
    /\ out' = [out EXCEPT ![Place(k)] = temp[Place(k)]]
    /\ temp' = [temp EXCEPT ![Place(k)] = NoBuild]
    /\ Goto(k, "done")
    /\ UNCHANGED <<content, image, service, contended>>

\* os.replace(): the .building name, whosever file it leads to, becomes the
\* output; without one it raises.
Replace(k) ==
    /\ At(k, "committed")
    /\ IF temp[Place(k)] # NoBuild
       THEN /\ out' = [out EXCEPT ![Place(k)] = temp[Place(k)]]
            /\ temp' = [temp EXCEPT ![Place(k)] = NoBuild]
            /\ Goto(k, "done")
       ELSE Goto(k, "raised") /\ UNCHANGED <<out, temp>>
    /\ UNCHANGED <<content, image, service, contended>>

\* The handler removes whatever file has the .building name.
CleanUp(k) ==
    /\ At(k, "raised")
    /\ temp' = [temp EXCEPT ![Place(k)] = NoBuild]
    /\ Goto(k, "failed")
    /\ UNCHANGED <<content, out, image, service, contended>>

\* The process dies and leaves its .building file behind.
Kill(k) ==
    /\ build[k].pc \in Running
    /\ Goto(k, "killed")
    /\ UNCHANGED <<content, temp, out, image, service, contended>>

-----------------------------------------------------------------------------
(* Images                                                                  *)

Meta(f) == build[f].manifest

\* Mutant: the metadata becomes visible with the schema, before the rows.
ReadableSchema(f) == f # NoBuild /\ content[f] # "none"

\* The file has metadata rows: they are in the transaction of all others.
Readable(f) == f # NoBuild /\ content[f] = "complete"

\* Mutant: an opted-in image needs no recorded approval.
GateOptInSuffices(f, optIn) ==
    /\ Readable(f)
    /\ \/ IsFixture(Meta(f)) /\ build[f].scope = "fixture_only"
       \/ ~IsFixture(Meta(f)) /\ optIn

\* verify_image_database(), run by the Dockerfile on the file it copied.
Gate(f, optIn) ==
    /\ Readable(f)
    /\ \/ /\ IsFixture(Meta(f))
          /\ Meta(f).release = FixtureRelease
          /\ build[f].scope = "fixture_only"
       \/ /\ ~IsFixture(Meta(f))
          /\ Meta(f).status = Granted
          /\ build[f].scope = "distribution_approved"
          /\ optIn
          /\ Meta(f).reference = "real"

Routes == {"default", "opted", "approved", "cloud"}
Bake(route, f) ==
    /\ image' = [route |-> route, file |-> f]
    /\ UNCHANGED <<build, content, temp, out, service, contended>>

\* docker build in the repository, without and with the opt-in argument.
DockerBuild ==
    \/ Gate(out["repo"], FALSE) /\ Bake("default", out["repo"])
    \/ Gate(out["repo"], TRUE) /\ Bake("opted", out["repo"])

\* build_approved_image() after its build_index() has returned.
ApprovedBuild(k) ==
    /\ At(k, "done")
    /\ Place(k) = k
    /\ Gate(out[k], TRUE)
    /\ Bake("approved", out[k])

\* fixture_database_is_reproducible(): a rebuild of the fixture manifest m
\* gives the same logical database.
Reproducible(f, m) ==
    /\ Readable(f)
    /\ Valid(m)
    /\ Allowed(m, {}, "external")
    /\ Meta(f) = m

\* cloudbuild.yaml: the scan and the default image of one uploaded archive.
CloudBuild ==
    /\ \E m \in Manifests : Reproducible(out["repo"], m)
    /\ Gate(out["repo"], FALSE)
    /\ Bake("cloud", out["repo"])

\* A developer moves or links an external database into the repository.
Carry ==
    /\ out["external"] # NoBuild
    /\ out' = [out EXCEPT !["repo"] = out["external"]]
    /\ UNCHANGED <<build, content, temp, image, service, contended>>

-----------------------------------------------------------------------------
(* The service                                                             *)

\* Mutant: the production checks of create_app are skipped.
ProductionUnchecked(f, release) == release # "UNCONFIGURED"

\* What validate() and create_app() require in production.
ProductionChecks(f, release) ==
    /\ release \notin {"", "UNCONFIGURED", FixtureRelease}
    /\ ~IsFixture(Meta(f))
    /\ Meta(f).status = Granted
    /\ build[f].scope = "distribution_approved"

\* create_app() starts on file f.
StartChecks(f, s) ==
    /\ Readable(f)
    /\ Meta(f).release = s.release
    /\ IsFixture(Meta(f)) \/ Meta(f).status \in {Local, Granted}
    /\ build[f].scope = Scope(Meta(f))
    /\ Meta(f).status = Local => s.redact
    /\ s.production => ProductionChecks(f, s.release)

Settings == [production : BOOLEAN, redact : BOOLEAN,
             release : {FixtureRelease, "PINNED"}]

\* Production runs in a container; development also on a file of the host.
Start(from, f) ==
    /\ service.from = "off"
    /\ \E s \in Settings :
        /\ s.production => from = "image"
        /\ StartChecks(f, s)
        /\ service' = [from |-> from, file |-> f, production |-> s.production,
                       release |-> s.release, redacts |-> Meta(f).status = Local]
    /\ UNCHANGED <<build, content, temp, out, image, contended>>

StartService == Start("image", image.file)
                \/ \E p \in {"repo", "external"} : Start(p, out[p])

Stop ==
    /\ service.from # "off"
    /\ service' = [from |-> "off", file |-> NoBuild]
    /\ UNCHANGED <<build, content, temp, out, image, contended>>

\* CorpusIndex opens its path anew for every query: in a container the file
\* of the image, on the host whatever the path names by then.
Served == IF service.from = "image" THEN service.file ELSE out[service.from]

\* The gate of a claim (gate.py) reads the metadata again, and issues nothing
\* of a release other than the one the service started with.
Issues == Readable(Served) /\ Meta(Served).release = service.release

BuildStep(k) ==
    \/ Vet(k) \/ Load(k)
    \/ Clear(k) \/ Open(k) \/ Begin(k) \/ Commit(k) \/ Raise(k)
    \/ Replace(k) \/ CleanUp(k) \/ Kill(k)
    \/ ApprovedBuild(k)

BNext == (\E k \in Builds : BuildStep(k))
         \/ DockerBuild \/ CloudBuild \/ Carry \/ StartService \/ Stop

BSpec == BInit /\ [][BNext]_bvars

-----------------------------------------------------------------------------
(* Properties                                                              *)

\* Every variable keeps its type; the scope the builder records is one of
\* the three that the gate and the startup checks know.
BTypeOK ==
    /\ build \in [Builds -> [pc : Unstarted \cup Running \cup Ended,
                             manifest : Manifest \cup {NoManifest},
                             place : Places, scope : Scopes \cup {"none"}]]
    /\ content \in [Builds -> {"none", "schema", "complete"}]
    /\ temp \in [Places -> Files]
    /\ out \in [Places -> Files]
    /\ image \in [route : Routes \cup {"none"}, file : Files]
    /\ service.from \in {"off", "image", "repo", "external"} /\ service.file \in Files
    /\ contended \subseteq Places

\* What the image gate or a starting service has accepted is a complete
\* database, although builds that share an output can publish each other's
\* unfinished file: build_index writes the metadata with the rows.
AcceptedIsComplete ==
    \A f \in {image.file, service.file} \ {NoBuild} : content[f] = "complete"

\* No image holds an external corpus unless its manifest, when it was built,
\* recorded a written permission with a real reference, and the image was
\* asked for with the opt-in (image_gate.py); the default and the cloud build
\* never hold one, whatever lies in the repository.
ImagePermitted ==
    image.file # NoBuild /\ ~IsFixture(Meta(image.file)) =>
        /\ image.route \in {"opted", "approved"}
        /\ Meta(image.file).status = Granted
        /\ Meta(image.file).reference = "real"
        /\ build[image.file].scope = "distribution_approved"

\* build_approved_image() loads the manifest twice, and it may be edited in
\* between: the image it labels as approved never holds anything else.
ApprovedToolBakesApproved ==
    image.route = "approved" => /\ ~IsFixture(Meta(image.file))
                                /\ Meta(image.file).status = Granted

\* A production service serves a complete, permitted corpus for as long as it
\* runs, although create_app() checks only once and builds go on meanwhile.
ProductionServesPermitted ==
    service.from # "off" /\ service.file # NoBuild /\ service.production =>
        /\ content[Served] = "complete"
        /\ ~IsFixture(Meta(Served))
        /\ Meta(Served).status = Granted

\* An output that no two running builds have shared names a complete
\* database or nothing, through failed and killed builds and the .building
\* files they leave (build_index publishes with one os.replace).
LoneBuildIsAtomic ==
    /\ \A p \in Places \ contended :
        out[p] # NoBuild /\ (p = "repo" => "external" \notin contended)
            => content[out[p]] = "complete"
    /\ \A k \in Builds : At(k, "committed") /\ Place(k) \notin contended
            => temp[Place(k)] = k

\* create_app() decides once whether to redact, yet the file may be replaced
\* under a service of the host.  One that started on the fixture never issues
\* a dossier with external text: the labels FIXTURE-ONLY of manifest.py keep
\* the releases of the two kinds apart, and gate.py compares the release.
FixtureServiceShowsFixture ==
    service.from # "off" /\ IsFixture(Meta(service.file)) /\ Issues =>
        IsFixture(Meta(Served))
=============================================================================
