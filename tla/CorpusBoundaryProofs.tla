------------------------ MODULE CorpusBoundaryProofs ------------------------
(***************************************************************************)
(* Proofs about CorpusBoundary, for any number of builds and any manifests. *)
(***************************************************************************)
EXTENDS CorpusBoundary, TLAPS

\* A build has no file before it opens one.
NoFileYet == Unstarted \cup {"loaded", "cleared"}

\* A file exists only once its build has loaded a valid manifest.
Loaded ==
    \A k \in Builds :
        /\ content[k] # "none" => build[k].pc \notin NoFileYet
        /\ build[k].pc \notin Unstarted => Valid(Meta(k))

\* The context directory of an approved-image build is its own: nothing but
\* its file gets there, and it was built from a granted manifest.
PrivateContext ==
    \A k \in Builds :
        /\ temp[k] \in {k, NoBuild}
        /\ out[k] \in {k, NoBuild}
        /\ Place(k) \in Builds => /\ Place(k) = k
                                  /\ build[k].pc \notin Unstarted
                                  /\ ~IsFixture(Meta(k))
                                  /\ Meta(k).status = Granted

\* What was accepted for the last image.
ImageSound ==
    image.file # NoBuild =>
        /\ content[image.file] = "complete"
        /\ ~IsFixture(Meta(image.file)) =>
              /\ image.route \in {"opted", "approved"}
              /\ Meta(image.file).status = Granted
              /\ Meta(image.file).reference = "real"
              /\ build[image.file].scope = "distribution_approved"

ApprovedSound ==
    image.route = "approved" => /\ image.file # NoBuild
                                /\ ~IsFixture(Meta(image.file))
                                /\ Meta(image.file).status = Granted

\* What the startup checks established of the file they looked at.
ServiceSound ==
    service.from # "off" =>
        /\ service.file \in Builds
        /\ content[service.file] = "complete"
        /\ Meta(service.file).release = service.release
        /\ service.production => /\ service.from = "image"
                                 /\ ~IsFixture(Meta(service.file))
                                 /\ Meta(service.file).status = Granted

\* The service is off, or has a file.
ServiceType == service.from = "off" => service.file = NoBuild

BInv == /\ BTypeOK /\ Loaded /\ PrivateContext
        /\ ImageSound /\ ApprovedSound /\ ServiceSound /\ ServiceType

-----------------------------------------------------------------------------

LEMMA InitInv == BInit => BInv
<1> SUFFICES ASSUME BInit PROVE BInv
  OBVIOUS
<1> USE DEF BInit
<1>1. BTypeOK
  BY DEF BTypeOK, Idle, Unstarted, Files, Places
<1>2. Loaded
  BY DEF Loaded, Idle, Unstarted
<1>3. PrivateContext
  BY BuildsAssumption DEF PrivateContext, Place, Idle, Places
<1>4. ImageSound /\ ApprovedSound /\ ServiceSound /\ ServiceType
  BY DEF ImageSound, ApprovedSound, ServiceSound, ServiceType
<1> QED
  BY <1>1, <1>2, <1>3, <1>4 DEF BInv

\* A complete file stays complete, and what its build recorded is fixed.
Frozen ==
    \A f \in Builds : content[f] = "complete" =>
        /\ content'[f] = "complete"
        /\ build'[f].manifest = build[f].manifest
        /\ build'[f].scope = build[f].scope

\* A step of one build run that touches no image.
FileStep(k) == \/ Vet(k) \/ Load(k) \/ Clear(k) \/ Open(k) \/ Begin(k) \/ Commit(k)
               \/ Raise(k) \/ Replace(k) \/ CleanUp(k) \/ Kill(k)

LEMMA GotoKeeps ==
    ASSUME BTypeOK, NEW k \in Builds,
           NEW pc \in Unstarted \cup Running \cup Ended, Goto(k, pc)
    PROVE  /\ build' \in [Builds -> [pc : Unstarted \cup Running \cup Ended,
                             manifest : Manifest \cup {NoManifest},
                             place : Places, scope : Scopes \cup {"none"}]]
           /\ build'[k].pc = pc
           /\ \A j \in Builds : /\ j # k => build'[j] = build[j]
                                /\ build'[j].manifest = build[j].manifest
                                /\ build'[j].scope = build[j].scope
                                /\ build'[j].place = build[j].place
BY DEF BTypeOK, Goto

LEMMA LoadKeeps ==
    ASSUME BTypeOK, NEW k \in Builds, Load(k)
    PROVE  /\ build' \in [Builds -> [pc : Unstarted \cup Running \cup Ended,
                             manifest : Manifest \cup {NoManifest},
                             place : Places, scope : Scopes \cup {"none"}]]
           /\ build[k].pc \in Unstarted
           /\ build'[k].pc = "loaded"
           /\ Valid(build'[k].manifest)
           /\ build'[k].place \in Builds => /\ build'[k].place = k
                                            /\ ~IsFixture(build'[k].manifest)
                                            /\ build'[k].manifest.status = Granted
           /\ \A j \in Builds \ {k} : build'[j] = build[j]
           /\ contended' \subseteq Places
<1>1. PICK m \in Manifests, flags \in SUBSET {"local", "approved"},
           place \in IF At(k, "vetted") THEN {k} ELSE {"repo", "external"} :
        /\ Valid(m)
        /\ At(k, "vetted") => flags = {"approved"}
        /\ Allowed(m, flags, place)
        /\ build' = [build EXCEPT ![k] = [pc |-> "loaded", manifest |-> m,
                                          place |-> place, scope |-> Scope(m)]]
        /\ contended' = contended \cup
               {p \in {place} : \E j \in Builds : build[j].pc \in Running /\ Place(j) = p}
  BY DEF Load
<1>2. m \in Manifest /\ Scope(m) \in Scopes /\ place \in Places
  BY ManifestsAssumption DEF Scope, Scopes, Places
<1>3. build'[k] = [pc |-> "loaded", manifest |-> m, place |-> place, scope |-> Scope(m)]
  BY <1>1 DEF BTypeOK
<1>4. build' \in [Builds -> [pc : Unstarted \cup Running \cup Ended,
                             manifest : Manifest \cup {NoManifest},
                             place : Places, scope : Scopes \cup {"none"}]]
  BY <1>1, <1>2 DEF BTypeOK, Running
<1>5. ASSUME place \in Builds
      PROVE  place = k /\ ~IsFixture(m) /\ m.status = Granted
  <2>1. At(k, "vetted") /\ place = k
    BY <1>1, <1>5, BuildsAssumption
  <2>2. flags = {"approved"}
    BY <2>1, <1>1
  <2>3. <<m.status, flags>> \in {<<Local, {"local"}>>, <<Granted, {"approved"}>>} /\ ~IsFixture(m)
    BY <2>2, <1>1 DEF Allowed
  <2>4. flags # {"local"}
    BY <2>2
  <2>5. m.status = Granted
    BY <2>3, <2>4
  <2> QED
    BY <2>1, <2>3, <2>5
<1>6. \A j \in Builds \ {k} : build'[j] = build[j]
  BY <1>1 DEF BTypeOK
<1>7. contended' \subseteq Places
  BY <1>1, <1>2 DEF BTypeOK
<1> QED
  BY <1>1, <1>3, <1>4, <1>5, <1>6, <1>7 DEF Load
\* Steps that only move a build along, with the names and files it changes.
LEMMA MoveKeeps ==
    ASSUME BInv, NEW k \in Builds,
           NEW pc \in Running \cup Ended \cup {"vetted"}, Goto(k, pc),
           build[k].pc \notin Unstarted \/ pc = "vetted",
           build[k].pc \in Unstarted \/ pc # "vetted",
           pc \in NoFileYet => build[k].pc \in NoFileYet /\ content' = content,
           content' = content \/ (build[k].pc \notin Unstarted /\
                \E c \in {"schema", "complete"} :
                   /\ content' = [content EXCEPT ![k] = c]
                   /\ content[k] = "complete" => c = "complete"),
           temp' = temp \/ \E f \in {k, NoBuild} : temp' = [temp EXCEPT ![Place(k)] = f],
           out' = out \/ out' = [out EXCEPT ![Place(k)] = temp[Place(k)]],
           UNCHANGED <<image, service, contended>>
    PROVE  BTypeOK' /\ Loaded' /\ PrivateContext' /\ Frozen
<1>1. /\ build' \in [Builds -> [pc : Unstarted \cup Running \cup Ended,
                             manifest : Manifest \cup {NoManifest},
                             place : Places, scope : Scopes \cup {"none"}]]
      /\ build'[k].pc = pc
      /\ \A j \in Builds : /\ j # k => build'[j] = build[j]
                           /\ build'[j].manifest = build[j].manifest
                           /\ build'[j].scope = build[j].scope
                           /\ build'[j].place = build[j].place
  BY GotoKeeps DEF BInv, Unstarted
<1>2. content' \in [Builds -> {"none", "schema", "complete"}]
  BY DEF BInv, BTypeOK
<1>3. /\ \A j \in Builds : j # k => content'[j] = content[j]
      /\ content'[k] # content[k] => build[k].pc \notin Unstarted
      /\ content[k] = "complete" => content'[k] = "complete"
  BY DEF BInv, BTypeOK
<1>4. Place(k) \in Places /\ NoBuild \in Files /\ k \in Files
  BY DEF BInv, BTypeOK, Place, Files
<1>5. temp' \in [Places -> Files]
  BY <1>4 DEF BInv, BTypeOK
<1>6. out' \in [Places -> Files]
  BY <1>4 DEF BInv, BTypeOK
<1>7. BTypeOK'
  BY <1>1, <1>2, <1>5, <1>6 DEF BInv, BTypeOK
<1>8. Frozen
  BY <1>1, <1>3 DEF Frozen
<1>9. pc \in Unstarted => build[k].pc \in Unstarted
  BY DEF Unstarted, Running, Ended
<1>10. Loaded'
  <2> SUFFICES ASSUME NEW j \in Builds
               PROVE  /\ content'[j] # "none" => build'[j].pc \notin NoFileYet
                      /\ build'[j].pc \notin Unstarted => Valid(build'[j].manifest)
    BY DEF Loaded, Meta
  <2>1. CASE j # k
    BY <2>1, <1>1, <1>3 DEF BInv, Loaded, Meta
  <2>2. CASE j = k
    <3>1. pc \notin Unstarted <=> build[k].pc \notin Unstarted
      BY DEF Unstarted, Running, Ended
    <3> QED
      BY <2>2, <3>1, <1>1, <1>3 DEF BInv, Loaded, Meta
  <2> QED
    BY <2>1, <2>2
<1>11. PrivateContext'
  <2> SUFFICES ASSUME NEW j \in Builds
               PROVE  /\ temp'[j] \in {j, NoBuild}
                      /\ out'[j] \in {j, NoBuild}
                      /\ build'[j].place \in Builds =>
                            /\ build'[j].place = j
                            /\ build'[j].pc \notin Unstarted
                            /\ ~IsFixture(build'[j].manifest)
                            /\ build'[j].manifest.status = Granted
    BY DEF PrivateContext, Place, Meta
  <2>1. j \in Places /\ temp \in [Places -> Files] /\ out \in [Places -> Files]
    BY DEF BInv, BTypeOK, Places
  <2>2. temp[j] \in {j, NoBuild} /\ out[j] \in {j, NoBuild}
    BY DEF BInv, PrivateContext
  <2>3. Place(k) = j => k = j
    BY DEF BInv, PrivateContext
  <2>4. temp'[j] \in {j, NoBuild}
    BY <2>1, <2>2, <2>3
  <2>5. out'[j] \in {j, NoBuild}
    BY <2>1, <2>2
  <2>6. build'[j].place \in Builds => build'[j].pc \notin Unstarted
    <3>1. CASE j # k
      BY <3>1, <1>1 DEF BInv, PrivateContext, Place
    <3>2. CASE j = k
      <4>1. build[k].place \in Builds => build[k].pc \notin Unstarted
        BY DEF BInv, PrivateContext, Place
      <4> QED
        BY <3>2, <4>1, <1>1, <1>9
    <3> QED
      BY <3>1, <3>2
  <2>7. build'[j].place \in Builds => /\ build'[j].place = j
                                      /\ ~IsFixture(build'[j].manifest)
                                      /\ build'[j].manifest.status = Granted
    BY <1>1 DEF BInv, PrivateContext, Place, Meta
  <2> QED
    BY <2>4, <2>5, <2>6, <2>7
<1> QED
  BY <1>7, <1>8, <1>10, <1>11

LEMMA FileStepKeeps ==
    ASSUME BInv, NEW k \in Builds, FileStep(k)
    PROVE  /\ BTypeOK' /\ Loaded' /\ PrivateContext' /\ Frozen
           /\ UNCHANGED <<image, service>>
<1> USE DEF At
<1>1. CASE Vet(k)
  BY <1>1, MoveKeeps DEF Vet, NoFileYet, Unstarted
<1>2. CASE Load(k)
  <2>1. /\ build' \in [Builds -> [pc : Unstarted \cup Running \cup Ended,
                             manifest : Manifest \cup {NoManifest},
                             place : Places, scope : Scopes \cup {"none"}]]
        /\ build[k].pc \in Unstarted
        /\ build'[k].pc = "loaded"
        /\ Valid(build'[k].manifest)
        /\ build'[k].place \in Builds => /\ build'[k].place = k
                                         /\ ~IsFixture(build'[k].manifest)
                                         /\ build'[k].manifest.status = Granted
        /\ \A j \in Builds \ {k} : build'[j] = build[j]
        /\ contended' \subseteq Places
    BY <1>2, LoadKeeps DEF BInv
  <2>2. UNCHANGED <<content, temp, out, image, service>>
    BY <1>2 DEF Load
  <2>3. BTypeOK'
    BY <2>1, <2>2 DEF BInv, BTypeOK
  <2>4. content[k] = "none"
    BY <2>1 DEF BInv, BTypeOK, Loaded, NoFileYet
  <2>5. Loaded'
    BY <2>1, <2>2, <2>4 DEF BInv, Loaded, Meta, NoFileYet, Unstarted
  <2>6. Frozen
    BY <2>1, <2>2, <2>4 DEF Frozen
  <2>7. PrivateContext'
    BY <2>1, <2>2 DEF BInv, PrivateContext, Place, Meta, Unstarted
  <2> QED
    BY <2>2, <2>3, <2>5, <2>6, <2>7
<1>3. CASE Clear(k)
  BY <1>3, MoveKeeps DEF Clear, NoFileYet, Unstarted, Running
<1>4. CASE Open(k)
  <2>1. CASE temp[Place(k)] = NoBuild
    <3>1. content[k] = "none"
      BY <1>4 DEF Open, BInv, BTypeOK, Loaded, NoFileYet
    <3> QED
      BY <1>4, <2>1, <3>1, MoveKeeps DEF Open, NoFileYet, Unstarted, Running
  <2>2. CASE temp[Place(k)] # NoBuild
    BY <1>4, <2>2, MoveKeeps DEF Open, NoFileYet, Unstarted, Running
  <2> QED
    BY <2>1, <2>2
<1>5. CASE Begin(k)
  BY <1>5, MoveKeeps DEF Begin, NoFileYet, Unstarted, Running
<1>6. CASE Commit(k)
  BY <1>6, MoveKeeps DEF Commit, NoFileYet, Unstarted, Running
<1>7. CASE Raise(k)
  BY <1>7, MoveKeeps DEF Raise, NoFileYet, Unstarted, Running
<1>8. CASE Replace(k)
  BY <1>8, MoveKeeps DEF Replace, NoFileYet, Unstarted, Running, Ended
<1>9. CASE CleanUp(k)
  BY <1>9, MoveKeeps DEF CleanUp, NoFileYet, Unstarted, Running, Ended
<1>10. CASE Kill(k)
  BY <1>10, MoveKeeps DEF Kill, NoFileYet, Unstarted, Running, Ended
<1> QED
  BY <1>1, <1>2, <1>3, <1>4, <1>5, <1>6, <1>7, <1>8, <1>9, <1>10 DEF FileStep
\* What was accepted stays true of files that are frozen.
LEMMA AcceptedKeeps ==
    ASSUME BInv, Frozen, UNCHANGED <<image, service>>
    PROVE  ImageSound' /\ ApprovedSound' /\ ServiceSound' /\ ServiceType'
<1>1. image.file # NoBuild => image.file \in Builds /\ content[image.file] = "complete"
  BY DEF BInv, BTypeOK, Files, ImageSound
<1>2. ImageSound'
  BY <1>1 DEF BInv, ImageSound, Frozen, Meta
<1>3. ApprovedSound'
  BY <1>1 DEF BInv, ApprovedSound, Frozen, Meta
<1>4. ServiceSound' /\ ServiceType'
  BY DEF BInv, ServiceSound, ServiceType, Frozen, Meta
<1> QED
  BY <1>2, <1>3, <1>4

\* A file that the gate lets into an image.
LEMMA BakeKeeps ==
    ASSUME BInv, NEW route \in Routes, NEW f \in Files, NEW optIn \in BOOLEAN,
           Gate(f, optIn), Bake(route, f),
           optIn => route \in {"opted", "approved"},
           route = "approved" => ~IsFixture(Meta(f))
    PROVE  BInv'
<1>1. f \in Builds /\ content[f] = "complete"
  BY DEF Gate, Readable, Files
<1>2. image' = [route |-> route, file |-> f]
      /\ UNCHANGED <<build, content, temp, out, service, contended>>
  BY DEF Bake
<1>3. BTypeOK'
  BY <1>2 DEF BInv, BTypeOK
<1>4. Loaded' /\ PrivateContext' /\ ServiceSound' /\ ServiceType'
  BY <1>2 DEF BInv, Loaded, PrivateContext, ServiceSound, ServiceType, Place, Meta
<1>5. ~IsFixture(Meta(f)) => /\ route \in {"opted", "approved"}
                            /\ Meta(f).status = Granted
                            /\ Meta(f).reference = "real"
                            /\ build[f].scope = "distribution_approved"
  BY DEF Gate
<1>6. ImageSound'
  BY <1>1, <1>2, <1>5 DEF ImageSound, Meta
<1>7. ApprovedSound'
  BY <1>1, <1>2, <1>5, NoBuildAssumption DEF ApprovedSound, Meta
<1> QED
  BY <1>3, <1>4, <1>6, <1>7 DEF BInv

LEMMA ApprovedBuildKeeps ==
    ASSUME BInv, NEW k \in Builds, ApprovedBuild(k)
    PROVE  BInv'
<1>1. out[k] = k
  BY DEF BInv, PrivateContext, ApprovedBuild, Gate, Readable
<1>2. ~IsFixture(Meta(k))
  BY DEF BInv, PrivateContext, ApprovedBuild
<1>3. k \in Files /\ "approved" \in Routes /\ TRUE \in BOOLEAN
  BY DEF Files, Routes
<1> QED
  BY <1>1, <1>2, <1>3, BakeKeeps DEF ApprovedBuild

LEMMA RepositoryImageKeeps ==
    ASSUME BInv, DockerBuild \/ CloudBuild
    PROVE  BInv'
<1>1. out["repo"] \in Files
  BY DEF BInv, BTypeOK, Places
<1>2. /\ {"default", "opted", "cloud"} \subseteq Routes
      /\ TRUE \in BOOLEAN /\ FALSE \in BOOLEAN
  BY DEF Routes
<1>3. CASE Gate(out["repo"], FALSE) /\ Bake("default", out["repo"])
  BY <1>1, <1>2, <1>3, BakeKeeps
<1>4. CASE Gate(out["repo"], TRUE) /\ Bake("opted", out["repo"])
  BY <1>1, <1>2, <1>4, BakeKeeps
<1>5. CASE Gate(out["repo"], FALSE) /\ Bake("cloud", out["repo"])
  BY <1>1, <1>2, <1>5, BakeKeeps
<1> QED
  BY <1>3, <1>4, <1>5 DEF DockerBuild, CloudBuild

LEMMA CarryKeeps ==
    ASSUME BInv, Carry
    PROVE  BInv'
<1>1. /\ out' = [out EXCEPT !["repo"] = out["external"]]
      /\ UNCHANGED <<build, content, temp, image, service, contended>>
  BY DEF Carry
<1>2. BTypeOK'
  BY <1>1 DEF BInv, BTypeOK, Places
<1>3. \A k \in Builds : out'[k] = out[k]
  BY <1>1, BuildsAssumption DEF BInv, BTypeOK, Places
<1>4. PrivateContext'
  BY <1>1, <1>3 DEF BInv, PrivateContext, Place, Meta
<1>5. Loaded' /\ Frozen
  BY <1>1 DEF BInv, Loaded, Frozen, Meta
<1> QED
  BY <1>1, <1>2, <1>4, <1>5, AcceptedKeeps DEF BInv

LEMMA ServiceKeeps ==
    ASSUME BInv, StartService \/ Stop
    PROVE  BInv'
<1>1. UNCHANGED <<build, content, temp, out, image, contended>>
  BY DEF StartService, Start, Stop
<1>2. Loaded' /\ PrivateContext' /\ ImageSound' /\ ApprovedSound'
  BY <1>1 DEF BInv, Loaded, PrivateContext, ImageSound, ApprovedSound, Place, Meta
<1>3. CASE Stop
  BY <1>1, <1>2, <1>3 DEF BInv, BTypeOK, Stop, Files, ServiceSound, ServiceType
<1>4. ASSUME NEW from \in {"image", "repo", "external"}, NEW f \in Files, Start(from, f)
      PROVE  BInv'
  <2>1. PICK s \in Settings :
          /\ s.production => from = "image"
          /\ StartChecks(f, s)
          /\ service' = [from |-> from, file |-> f, production |-> s.production,
                         release |-> s.release, redacts |-> Meta(f).status = Local]
    BY <1>4 DEF Start
  <2>2. f \in Builds /\ content[f] = "complete" /\ Meta(f).release = s.release
    BY <2>1 DEF StartChecks, Readable, Files
  <2>3. s.production => from = "image" /\ ~IsFixture(Meta(f)) /\ Meta(f).status = Granted
    BY <2>1 DEF StartChecks, ProductionChecks
  <2>4. BTypeOK'
    BY <1>1, <2>1 DEF BInv, BTypeOK
  <2>5. ServiceSound' /\ ServiceType'
    BY <1>1, <2>1, <2>2, <2>3 DEF ServiceSound, ServiceType, Meta
  <2> QED
    BY <1>2, <2>4, <2>5 DEF BInv
<1>5. /\ image.file \in Files
      /\ \A p \in {"repo", "external"} : out[p] \in Files
  BY DEF BInv, BTypeOK, Places
<1>6. CASE StartService
  <2>1. CASE Start("image", image.file)
    BY <2>1, <1>4, <1>5
  <2>2. CASE \E p \in {"repo", "external"} : Start(p, out[p])
    BY <2>2, <1>4, <1>5
  <2> QED
    BY <1>6, <2>1, <2>2 DEF StartService
<1> QED
  BY <1>3, <1>6

LEMMA StepInv == BInv /\ [BNext]_bvars => BInv'
<1> SUFFICES ASSUME BInv, [BNext]_bvars PROVE BInv'
  OBVIOUS
<1>1. ASSUME NEW k \in Builds, FileStep(k) PROVE BInv'
  BY <1>1, FileStepKeeps, AcceptedKeeps DEF BInv
<1>2. ASSUME NEW k \in Builds, ApprovedBuild(k) PROVE BInv'
  BY <1>2, ApprovedBuildKeeps
<1>3. CASE DockerBuild \/ CloudBuild
  BY <1>3, RepositoryImageKeeps
<1>4. CASE Carry
  BY <1>4, CarryKeeps
<1>5. CASE StartService \/ Stop
  BY <1>5, ServiceKeeps
<1>6. CASE UNCHANGED bvars
  BY <1>6 DEF bvars, BInv, BTypeOK, Loaded, PrivateContext, ImageSound, ApprovedSound,
              ServiceSound, ServiceType, Place, Meta
<1>7. ASSUME NEW k \in Builds, BuildStep(k) PROVE BInv'
  BY <1>1, <1>2, <1>7 DEF BuildStep, FileStep
<1> QED
  BY <1>3, <1>4, <1>5, <1>6, <1>7 DEF BNext

\* What an accepted file is known to be, and what each build may have touched,
\* is an inductive invariant of all builds, images and services together.
THEOREM BoundaryInvariant == BSpec => []BInv
BY InitInv, StepInv, PTL DEF BSpec

-----------------------------------------------------------------------------

\* Every variable keeps its type, for any number of builds.
THEOREM BoundaryTypeCorrect == BSpec => []BTypeOK
<1>1. BInv => BTypeOK
  BY DEF BInv
<1> QED
  BY <1>1, BoundaryInvariant, PTL

\* No image and no service accepts an unfinished database, however many
\* builds share an output (the gate and create_app read the metadata, which
\* build_index commits with the rows).
THEOREM AcceptedCorrect == BSpec => []AcceptedIsComplete
<1>1. BInv => AcceptedIsComplete
  BY DEF BInv, AcceptedIsComplete, ImageSound, ServiceSound, ServiceType
<1> QED
  BY <1>1, BoundaryInvariant, PTL

\* An image with an external corpus has its permission and its opt-in.
THEOREM ImageCorrect == BSpec => []ImagePermitted
<1>1. BInv => ImagePermitted
  BY DEF BInv, ImagePermitted, ImageSound
<1> QED
  BY <1>1, BoundaryInvariant, PTL

\* The image that build_approved_image labels as approved is, whatever was
\* done to the manifest between its two loads.
THEOREM ApprovedToolCorrect == BSpec => []ApprovedToolBakesApproved
<1>1. BInv => ApprovedToolBakesApproved
  BY DEF BInv, ApprovedToolBakesApproved, ApprovedSound
<1> QED
  BY <1>1, BoundaryInvariant, PTL

\* A production service serves a complete and permitted corpus throughout.
THEOREM ProductionCorrect == BSpec => []ProductionServesPermitted
<1>1. BInv => ProductionServesPermitted
  BY DEF BInv, ProductionServesPermitted, ServiceSound, Served
<1> QED
  BY <1>1, BoundaryInvariant, PTL

\* A service that started on the fixture issues nothing of an external corpus
\* that replaced the file: a valid manifest keeps the releases apart.
THEOREM FixtureServiceCorrect == BSpec => []FixtureServiceShowsFixture
<1>1. ASSUME BInv, service.from # "off", IsFixture(Meta(service.file)), Issues
      PROVE  IsFixture(Meta(Served))
  <2>1. service.from \in {"image", "repo", "external"} /\ service.file \in Builds
    BY <1>1 DEF BInv, BTypeOK, ServiceSound
  <2>2. Served \in Builds /\ content[Served] = "complete"
    <3>1. Served \in Files
      BY <1>1, <2>1 DEF BInv, BTypeOK, Served, Places, Files
    <3> QED
      BY <3>1, <1>1 DEF Issues, Readable, Files
  <2>3. Valid(Meta(Served)) /\ Valid(Meta(service.file))
    BY <1>1, <2>1, <2>2 DEF BInv, Loaded, NoFileYet, ServiceSound
  <2>4. service.release = FixtureRelease
    BY <1>1, <2>3 DEF BInv, ServiceSound, Valid
  <2>5. Meta(Served).release = FixtureRelease
    BY <1>1, <2>4 DEF Issues
  <2> QED
    BY <2>3, <2>5 DEF Valid
<1>2. BInv => FixtureServiceShowsFixture
  BY <1>1 DEF FixtureServiceShowsFixture
<1> QED
  BY <1>2, BoundaryInvariant, PTL

-----------------------------------------------------------------------------
(* Builds that share their output with no other running build.             *)

Writing == {"open", "ingesting", "committed"}

\* Two running builds with one output have contended for it.
Rivals ==
    \A j, k \in Builds :
        j # k /\ build[j].pc \in Running /\ build[k].pc \in Running /\ Place(j) = Place(k)
            => Place(k) \in contended

\* A build that has its output to itself has the .building name as well.
HoldsTemp ==
    \A k \in Builds :
        /\ build[k].pc = "committed" => content[k] = "complete"
        /\ build[k].pc \in Writing /\ Place(k) \notin contended => temp[Place(k)] = k

\* The file of the external output may be carried into the repository.
PublishedWhole ==
    \A p \in Places \ contended :
        out[p] # NoBuild /\ (p = "repo" => "external" \notin contended)
            => content[out[p]] = "complete"

LoneInv == BInv /\ Rivals /\ HoldsTemp /\ PublishedWhole

\* Only a build that is loaded enters the running ones, and then the output it
\* shares with another becomes contended.
LEMMA RivalsKept ==
    ASSUME LoneInv, NEW k \in Builds, FileStep(k)
    PROVE  Rivals' /\ contended \subseteq contended'
<1>1. CASE Load(k)
  <2>1. /\ \A j \in Builds \ {k} : build'[j] = build[j]
        /\ contended' = contended \cup
               {p \in {build'[k].place} :
                    \E j \in Builds : build[j].pc \in Running /\ Place(j) = p}
    BY <1>1 DEF Load, LoneInv, BInv, BTypeOK
  <2> QED BY <2>1 DEF LoneInv, Rivals, Place
<1>2. CASE Vet(k)
  <2>1. /\ \A j \in Builds : build'[j].pc \in Running => build[j].pc \in Running
        /\ \A j \in Builds : build'[j].place = build[j].place
        /\ contended' = contended
    BY <1>2 DEF Vet, Goto, LoneInv, BInv, BTypeOK, Running
  <2> QED BY <2>1 DEF LoneInv, Rivals, Place
<1>3. ASSUME NEW pc \in Running \cup Ended, Goto(k, pc), build[k].pc \in Running,
             contended' = contended
      PROVE  Rivals' /\ contended \subseteq contended'
  <2>1. /\ \A j \in Builds : build'[j].pc \in Running => build[j].pc \in Running
        /\ \A j \in Builds : build'[j].place = build[j].place
    BY <1>3 DEF Goto, LoneInv, BInv, BTypeOK
  <2> QED BY <1>3, <2>1 DEF LoneInv, Rivals, Place
<1>4. CASE ~Load(k) /\ ~Vet(k)
  BY <1>3, <1>4 DEF FileStep, Clear, Open, Begin, Commit, Raise, Replace, CleanUp, Kill,
                    At, Running, Ended
<1> QED BY <1>1, <1>2, <1>4

\* A step of another build leaves the .building name of a lone one alone.
LEMMA HoldsTempKept ==
    ASSUME LoneInv, NEW k \in Builds, FileStep(k), contended \subseteq contended',
           Frozen
    PROVE  HoldsTemp'
<1> SUFFICES ASSUME NEW j \in Builds
             PROVE  /\ build'[j].pc = "committed" => content'[j] = "complete"
                    /\ build'[j].pc \in Writing /\ build'[j].place \notin contended'
                          => temp'[build'[j].place] = j
  BY DEF HoldsTemp, Place
<1> USE DEF At, Goto
<1>1. /\ build[k] \in [pc : Unstarted \cup Running \cup Ended,
                       manifest : Manifest \cup {NoManifest},
                       place : Places, scope : Scopes \cup {"none"}]
      /\ Place(k) \in Places /\ DOMAIN temp = Places /\ DOMAIN build = Builds
      /\ DOMAIN content = Builds
  BY DEF LoneInv, BInv, BTypeOK, Place
<1>2. CASE j = k
  <2>1. CASE Vet(k) \/ Load(k)
    BY <1>1, <1>2, <2>1 DEF Vet, Load, Writing
  <2>2. CASE Open(k)
    BY <1>1, <1>2, <2>2 DEF Open, Writing, Place
  <2>3. CASE Begin(k)
    BY <1>1, <1>2, <2>3 DEF Begin, Writing, Place
  <2>4. CASE Commit(k)
    BY <1>1, <1>2, <2>4 DEF Commit, Writing, Place, LoneInv, HoldsTemp
  <2>5. CASE Clear(k) \/ Raise(k) \/ Replace(k) \/ CleanUp(k) \/ Kill(k)
    BY <1>1, <1>2, <2>5 DEF Clear, Raise, Replace, CleanUp, Kill, Writing
  <2> QED BY <2>1, <2>2, <2>3, <2>4, <2>5 DEF FileStep
<1>3. CASE j # k
  <2>1. build'[j] = build[j]
    BY <1>1, <1>3 DEF FileStep, Vet, Load, Clear, Open, Begin, Commit, Raise, Replace,
                      CleanUp, Kill
  <2>2. build[j].pc = "committed" => content[j] = "complete"
    BY DEF LoneInv, HoldsTemp
  <2>3. build'[j].pc = "committed" => content'[j] = "complete"
    BY <2>1, <2>2 DEF Frozen
  <2>4. ASSUME build[j].pc \in Writing, Place(j) \notin contended'
        PROVE  temp'[Place(j)] = j
    <3>1. temp[Place(j)] = j /\ Place(j) \notin contended
      BY <2>4 DEF LoneInv, HoldsTemp
    <3>2. build[k].pc \in Running => Place(k) # Place(j)
      BY <1>3, <2>4, <3>1 DEF LoneInv, Rivals, Writing, Running
    <3>3. temp' = temp \/ (build[k].pc \in Running /\
                             \E f \in Files : temp' = [temp EXCEPT ![Place(k)] = f])
      BY DEF FileStep, Vet, Load, Clear, Open, Begin, Commit, Raise, Replace, CleanUp,
             Kill, Running, Files
    <3>4. Place(j) \in Places
      BY DEF LoneInv, BInv, BTypeOK, Place
    <3> QED BY <1>1, <3>1, <3>2, <3>3, <3>4
  <2> QED BY <2>1, <2>3, <2>4 DEF Place
<1> QED BY <1>2, <1>3

\* What a lone build publishes is its own committed file.
LEMMA PublishedKept ==
    ASSUME LoneInv, NEW k \in Builds, FileStep(k), contended \subseteq contended',
           Frozen
    PROVE  PublishedWhole'
<1> SUFFICES ASSUME NEW p \in Places \ contended', out'[p] # NoBuild,
                    p = "repo" => "external" \notin contended'
             PROVE  content'[out'[p]] = "complete"
  BY DEF PublishedWhole
<1>1. out[p] \in Files /\ out \in [Places -> Files] /\ p \notin contended
  BY DEF LoneInv, BInv, BTypeOK
<1>2. CASE out' = out
  <2>1. content[out[p]] = "complete"
    BY <1>1, <1>2 DEF LoneInv, PublishedWhole
  <2> QED BY <1>1, <1>2, <2>1 DEF Frozen, Files
<1>3. CASE out' # out
  <2>1. /\ build[k].pc = "committed"
        /\ out' = [out EXCEPT ![Place(k)] = temp[Place(k)]]
        /\ content' = content
    BY <1>3 DEF FileStep, Vet, Load, Clear, Open, Begin, Commit, Raise, Replace, CleanUp,
                Kill, At
  <2>2. CASE p = Place(k)
    <3>1. out'[p] = k /\ content[k] = "complete"
      BY <1>1, <2>1, <2>2 DEF LoneInv, HoldsTemp, Writing
    <3> QED BY <2>1, <3>1
  <2>3. CASE p # Place(k)
    <3>1. out'[p] = out[p]
      BY <1>1, <2>1, <2>3
    <3> QED BY <1>1, <2>1, <3>1 DEF LoneInv, PublishedWhole
  <2> QED BY <2>2, <2>3
<1> QED BY <1>2, <1>3

LEMMA LoneStep == LoneInv /\ [BNext]_bvars => LoneInv'
<1> SUFFICES ASSUME LoneInv, [BNext]_bvars PROVE LoneInv'
  OBVIOUS
<1>1. BInv'
  BY StepInv DEF LoneInv
<1>2. ASSUME NEW k \in Builds, FileStep(k) PROVE LoneInv'
  <2>1. Frozen
    BY <1>2, FileStepKeeps DEF LoneInv
  <2>2. Rivals' /\ contended \subseteq contended'
    BY <1>2, RivalsKept
  <2> QED BY <1>1, <1>2, <2>1, <2>2, HoldsTempKept, PublishedKept DEF LoneInv
<1>3. CASE Carry
  <2>1. /\ out' = [out EXCEPT !["repo"] = out["external"]] /\ out["external"] # NoBuild
        /\ UNCHANGED <<build, content, temp, contended>>
    BY <1>3 DEF Carry
  <2>2. Rivals' /\ HoldsTemp'
    BY <2>1 DEF LoneInv, Rivals, HoldsTemp, Place
  <2>3. PublishedWhole'
    <3>1. DOMAIN out = Places /\ "external" \in Places /\ "repo" \in Places
      BY DEF LoneInv, BInv, BTypeOK, Places
    <3>2. "external" \notin contended => content[out["external"]] = "complete"
      BY <2>1, <3>1 DEF LoneInv, PublishedWhole
    <3> QED BY <2>1, <3>1, <3>2 DEF LoneInv, PublishedWhole
  <2> QED BY <1>1, <2>2, <2>3 DEF LoneInv
<1>4. CASE UNCHANGED <<build, content, temp, out, contended>>
  BY <1>1, <1>4 DEF LoneInv, Rivals, HoldsTemp, PublishedWhole, Place
<1>5. ASSUME NEW k \in Builds, ApprovedBuild(k)
      PROVE  UNCHANGED <<build, content, temp, out, contended>>
  BY <1>5 DEF ApprovedBuild, Bake
<1>6. DockerBuild \/ CloudBuild \/ StartService \/ Stop \/ UNCHANGED bvars
        => UNCHANGED <<build, content, temp, out, contended>>
  BY DEF DockerBuild, CloudBuild, Bake, StartService, Start, Stop, bvars
<1>7. ASSUME NEW k \in Builds, BuildStep(k) PROVE LoneInv'
  BY <1>2, <1>4, <1>5, <1>7 DEF BuildStep, FileStep
<1> QED BY <1>3, <1>4, <1>6, <1>7 DEF BNext

\* An output that no two running builds have shared names a complete database
\* or nothing, whichever builds failed or were killed before (build_index
\* publishes with one os.replace).
THEOREM LoneBuildCorrect == BSpec => []LoneBuildIsAtomic
<1>1. BInit => LoneInv
  <2>1. BInit => Rivals /\ HoldsTemp /\ PublishedWhole
    BY DEF BInit, Idle, Running, Writing, Rivals, HoldsTemp, PublishedWhole
  <2> QED BY <2>1, InitInv DEF LoneInv
<1>2. LoneInv => LoneBuildIsAtomic
  BY DEF LoneInv, HoldsTemp, PublishedWhole, LoneBuildIsAtomic, At, Writing
<1> QED BY <1>1, <1>2, LoneStep, PTL DEF BSpec
=============================================================================
