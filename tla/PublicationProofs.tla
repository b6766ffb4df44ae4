--------------------------- MODULE PublicationProofs ---------------------------
(***************************************************************************)
(* For any importers, readers, images and number of versions: the types    *)
(* and the lock, that what was published is kept, and that importers       *)
(* implement ImageCatalog.                                                 *)
(*                                                                         *)
(* The lock is what makes it work: only its holder is at work, so what the *)
(* holder knows of the disk stays true until it changes the disk itself.   *)
(* Knows says what it knows at each place.                                 *)
(***************************************************************************)
EXTENDS Publication, TLAPS

JobType == [at : Places, kind : Kinds, image : Images, version : 0..MaxVersion,
            seen : [Images -> 0..MaxVersion]]

ReaderType == [at : {"idle", "named", "open"}, image : Images, version : 0..MaxVersion]

\* The part of TypeOK about processes.
OneAtWork ==
    /\ lock \in Importers \cup {NoImporter}
    /\ jobs \in [Importers -> JobType]
    /\ \A p \in Importers : jobs[p].at # "idle" <=> lock = p

\* The part of TypeOK about files.
DiskTyped ==
    /\ records \subseteq originals
    /\ originals \cup published \cup reported \subseteq Versions
    /\ catalog \in [Images -> 0..MaxVersion]

\* The catalog names what was published.
CatalogNames == \A i \in Images : catalog[i] # 0 => <<i, catalog[i]>> \in published

Knows(job) ==
    /\ job.at \notin {"idle", "locked"} => job.version \in 1..MaxVersion
    /\ job.at \in {"staging", "staged", "recording", "recorded"} =>
        \A d \in published : d[1] = job.image => d[2] < job.version
    /\ job.at = "recording" => Target(job) \in originals
    /\ job.at = "recorded" => Target(job) \in records
    /\ job.at \in {"moved", "read", "catalogued"} => Target(job) \in published
    /\ job.at \in {"moved", "read"} => catalog[job.image] < job.version
    /\ job.at = "read" => job.seen = catalog
    /\ job.at = "catalogued" => catalog[job.image] = job.version

Inv ==
    /\ OneAtWork
    /\ DiskTyped
    /\ readers \in [Readers -> ReaderType]
    /\ VersionsKept
    /\ CatalogNames
    /\ \A p \in Importers : Knows(jobs[p])

\* Knows asks nothing of an idle importer.
LEMMA KnowsIdle == ASSUME NEW job, job.at = "idle" PROVE Knows(job)
BY DEF Knows

LEMMA Initials ==
    /\ NoJob \in JobType
    /\ NoJob.at = "idle"
    /\ NotReading \in ReaderType
    /\ NotReading.at = "idle"
    /\ Nothing \in [Images -> 0..MaxVersion]
    /\ \A kind \in Kinds, image \in Images :
        NewJob(kind, image) \in JobType /\ NewJob(kind, image).at = "locked"
<1>1. AnImage \in Images
    BY PublicationAssumption DEF AnImage
<1>2. Nothing \in [Images -> 0..MaxVersion]
    BY PublicationAssumption DEF Nothing
<1>3. ASSUME NEW kind \in Kinds, NEW image \in Images
      PROVE  NewJob(kind, image) \in JobType /\ NewJob(kind, image).at = "locked"
    BY <1>2, PublicationAssumption DEF NewJob, JobType, Places
<1>4. NoJob \in JobType /\ NoJob.at = "idle"
    BY <1>1, <1>2, PublicationAssumption DEF NoJob, NewJob, JobType, Places, Kinds
<1>5. NotReading \in ReaderType /\ NotReading.at = "idle"
    BY <1>1, PublicationAssumption DEF NotReading, ReaderType
<1> QED BY <1>2, <1>3, <1>4, <1>5

LEMMA TypeOKIsParts ==
    TypeOK <=> OneAtWork /\ DiskTyped /\ readers \in [Readers -> ReaderType]
BY DEF TypeOK, OneAtWork, DiskTyped, JobType, ReaderType

\* The importer at work holds the lock, and the others are idle.
LEMMA Alone ==
    ASSUME OneAtWork, NEW p \in Importers, jobs[p].at # "idle"
    PROVE  lock = p /\ \A q \in Importers \ {p} : jobs[q].at = "idle"
BY DEF OneAtWork

LEMMA ContinuesAlone ==
    ASSUME OneAtWork, NEW p \in Importers, jobs[p].at # "idle",
           NEW job \in JobType, job.at # "idle",
           jobs' = [jobs EXCEPT ![p] = job], lock' = lock
    PROVE  /\ OneAtWork'
           /\ jobs'[p] = job
           /\ \A q \in Importers \ {p} : jobs'[q].at = "idle"
BY Alone DEF OneAtWork

LEMMA EndsIdle ==
    ASSUME OneAtWork, NEW p \in Importers, jobs[p].at # "idle", Ends(p)
    PROVE  OneAtWork' /\ \A q \in Importers : jobs'[q].at = "idle"
BY Alone, Initials, PublicationAssumption DEF OneAtWork, Ends

\* What is known after the importer p, alone at work, went to another place.
LEMMA KnowsAfter ==
    ASSUME NEW p \in Importers, Knows(jobs[p])',
           \A q \in Importers \ {p} : jobs'[q].at = "idle"
    PROVE  (\A q \in Importers : Knows(jobs[q]))'
BY DEF Knows

--------------------------------------------------------------------------------
\* One lemma per action of an importer.

LEMMA StartsKeeps ==
    ASSUME Inv, NEW p \in Importers, NEW kind \in Kinds, NEW image \in Images,
           Starts(p, kind, image)
    PROVE  Inv'
<1> DEFINE job == NewJob(kind, image)
<1>1. job \in JobType /\ job.at = "locked"
    BY Initials
<1> HIDE DEF job
<1>2. jobs' = [jobs EXCEPT ![p] = job] /\ lock' = p /\ lock = NoImporter
    BY DEF Starts, job
<1>3. \A q \in Importers : jobs[q].at = "idle"
    BY <1>2, PublicationAssumption DEF Inv, OneAtWork
<1>4. jobs'[p] = job /\ \A q \in Importers \ {p} : jobs'[q] = jobs[q]
    BY <1>2 DEF Inv, OneAtWork
<1>5. OneAtWork'
    BY <1>1, <1>2, <1>3, <1>4 DEF Inv, OneAtWork
<1>6. Knows(jobs[p])' /\ \A q \in Importers \ {p} : jobs'[q].at = "idle"
    BY <1>1, <1>3, <1>4 DEF Knows
<1>7. UNCHANGED <<disk, reported, readers>>
    BY DEF Starts
<1> QED BY <1>5, <1>6, <1>7, KnowsAfter
        DEF Inv, disk, DiskTyped, VersionsKept, CatalogNames, Target

\* An importer that ends leaves the disk, or takes back a record.
LEMMA EndsKeeps ==
    ASSUME Inv, NEW p \in Importers, jobs[p].at # "idle", Ends(p),
           UNCHANGED <<published, catalog, readers>>, DiskTyped', published \subseteq records'
    PROVE  Inv'
<1>1. OneAtWork' /\ \A q \in Importers : jobs'[q].at = "idle"
    BY EndsIdle DEF Inv
<1>2. (\A q \in Importers : Knows(jobs[q]))'
    BY <1>1 DEF Knows
<1> QED BY <1>1, <1>2 DEF Inv, VersionsKept, CatalogNames, Target

\* An importer that goes on changes what it knows, and perhaps the disk.
LEMMA ContinuesKeeps ==
    ASSUME Inv, NEW p \in Importers, jobs[p].at # "idle",
           NEW job \in JobType, job.at # "idle",
           jobs' = [jobs EXCEPT ![p] = job], lock' = lock, readers' = readers,
           Knows(job)', DiskTyped', CatalogNames',
           published \subseteq published', published' \subseteq records'
    PROVE  Inv'
<1>1. OneAtWork' /\ jobs'[p] = job /\ \A q \in Importers \ {p} : jobs'[q].at = "idle"
    BY ContinuesAlone DEF Inv
<1>2. Knows(jobs[p])'
    BY <1>1 DEF Knows, Target
<1>3. (\A q \in Importers : Knows(jobs[q]))'
    BY <1>1, <1>2, KnowsAfter
<1>4. VersionsKept'
    BY DEF Inv, VersionsKept, Target
<1> QED BY <1>1, <1>3, <1>4 DEF Inv

LEMMA PlansVersionKeeps ==
    ASSUME Inv, NEW p \in Importers, PlansVersion(p)
    PROVE  Inv'
<1>1. PICK version \in 1..MaxVersion :
        /\ IsNext(jobs[p].image, version)
        /\ jobs' = [jobs EXCEPT ![p].at = "staging", ![p].version = version]
    BY DEF PlansVersion
<1>2. jobs[p] \in JobType /\ jobs[p].at = "locked" /\ UNCHANGED <<lock, disk, reported, readers>>
    BY DEF Inv, OneAtWork, PlansVersion
<1>3. PICK job \in JobType :
        /\ jobs' = [jobs EXCEPT ![p] = job] /\ job.at = "staging"
        /\ job.version = version /\ job.image = jobs[p].image
    <2>1. version \in 0..MaxVersion
        BY PublicationAssumption
    <2>2. [jobs[p] EXCEPT !.at = "staging", !.version = version] \in JobType
        BY <1>2, <2>1 DEF JobType, Places
    <2> QED BY <1>1, <1>2, <2>2, SMTT(30), ZenonT(60) DEF JobType
<1>4. \A d \in published : d[1] = job.image => d[2] < job.version
    <2>1. TAKE d \in published
    <2>2. d \in Images \X (1..MaxVersion)
        BY DEF Inv, DiskTyped, Versions
    <2>3. ASSUME d[1] = job.image PROVE d[2] < job.version
        <3>1. d = <<jobs[p].image, d[2]>> /\ d[2] \in 1..MaxVersion
            BY <1>3, <2>2, <2>3
        <3> QED BY <1>1, <1>3, <3>1 DEF IsNext
    <2> QED BY <2>3
<1>5. Knows(job)'
    BY <1>2, <1>3, <1>4, PublicationAssumption DEF Knows, disk
<1> QED BY <1>2, <1>3, <1>5, ContinuesKeeps
        DEF Inv, disk, DiskTyped, VersionsKept, CatalogNames

LEMMA StagesKeeps ==
    ASSUME Inv, NEW p \in Importers, Stages(p)
    PROVE  Inv'
<1>1. jobs[p] \in JobType /\ jobs[p].at = "staging" /\ UNCHANGED <<disk, reported, readers>>
    BY DEF Inv, OneAtWork, Stages
<1>2. CASE Ends(p)
    BY <1>1, <1>2, EndsKeeps DEF Inv, disk, DiskTyped, VersionsKept
<1>3. CASE Goes(p, "staged") /\ UNCHANGED lock
    <2>1. PICK job \in JobType :
            /\ jobs' = [jobs EXCEPT ![p] = job] /\ job.at = "staged"
            /\ job.version = jobs[p].version /\ job.image = jobs[p].image
        <3>1. [jobs[p] EXCEPT !.at = "staged"] \in JobType
            BY <1>1, <1>3 DEF JobType, Places
        <3> QED BY <1>1, <1>3, <3>1 DEF JobType, Places, Goes
    <2>2. Knows(job)'
        BY <1>1, <2>1 DEF Inv, Knows, disk
    <2> QED BY <1>1, <1>3, <2>1, <2>2, ContinuesKeeps
            DEF Inv, disk, DiskTyped, VersionsKept, CatalogNames
<1> QED BY <1>2, <1>3 DEF Stages

LEMMA CreatesRecordKeeps ==
    ASSUME Inv, NEW p \in Importers, CreatesRecord(p)
    PROVE  Inv'
<1>1. /\ jobs[p] \in JobType /\ jobs[p].at = "staged"
      /\ originals' = originals \cup {Target(jobs[p])}
      /\ UNCHANGED <<lock, records, published, catalog, reported, readers>>
    BY DEF Inv, OneAtWork, CreatesRecord
<1>2. PICK job \in JobType :
        /\ jobs' = [jobs EXCEPT ![p] = job] /\ job.at = "recording"
        /\ job.version = jobs[p].version /\ job.image = jobs[p].image
    <2>1. [jobs[p] EXCEPT !.at = "recording"] \in JobType
        BY <1>1 DEF JobType, Places
    <2> QED BY <1>1, <2>1 DEF JobType, Places, CreatesRecord, Goes
<1>3. Target(jobs[p]) \in Versions /\ Target(job) = Target(jobs[p])
    BY <1>1, <1>2 DEF Inv, Knows, Target, Versions, JobType
<1>4. Knows(job)'
    BY <1>1, <1>2, <1>3 DEF Inv, Knows, Target
<1> QED BY <1>1, <1>2, <1>3, <1>4, ContinuesKeeps
        DEF Inv, DiskTyped, VersionsKept, CatalogNames

LEMMA WritesRecordKeeps ==
    ASSUME Inv, NEW p \in Importers, WritesRecord(p)
    PROVE  Inv'
<1>1. /\ jobs[p] \in JobType /\ jobs[p].at = "recording"
      /\ records' = records \cup {Target(jobs[p])}
      /\ UNCHANGED <<lock, originals, published, catalog, reported, readers>>
    BY DEF Inv, OneAtWork, WritesRecord
<1>2. PICK job \in JobType :
        /\ jobs' = [jobs EXCEPT ![p] = job] /\ job.at = "recorded"
        /\ job.version = jobs[p].version /\ job.image = jobs[p].image
    <2>1. [jobs[p] EXCEPT !.at = "recorded"] \in JobType
        BY <1>1 DEF JobType, Places
    <2> QED BY <1>1, <2>1 DEF JobType, Places, WritesRecord, Goes
<1>3. Target(jobs[p]) \in originals /\ Target(job) = Target(jobs[p])
    BY <1>1, <1>2 DEF Inv, Knows, Target
<1>4. Knows(job)'
    BY <1>1, <1>2, <1>3 DEF Inv, Knows, Target
<1> QED BY <1>1, <1>2, <1>3, <1>4, ContinuesKeeps
        DEF Inv, DiskTyped, VersionsKept, CatalogNames

LEMMA MovesVersionKeeps ==
    ASSUME Inv, NEW p \in Importers, MovesVersion(p)
    PROVE  Inv'
<1>1. /\ jobs[p] \in JobType /\ jobs[p].at = "recorded"
      /\ published' = published \cup {Target(jobs[p])}
      /\ UNCHANGED <<lock, originals, records, catalog, reported, readers>>
    BY DEF Inv, OneAtWork, MovesVersion
<1>2. PICK job \in JobType :
        /\ jobs' = [jobs EXCEPT ![p] = job] /\ job.at = "moved"
        /\ job.version = jobs[p].version /\ job.image = jobs[p].image
    <2>1. [jobs[p] EXCEPT !.at = "moved"] \in JobType
        BY <1>1 DEF JobType, Places
    <2> QED BY <1>1, <2>1 DEF JobType, Places, MovesVersion, Goes
<1>3. /\ job.version \in 1..MaxVersion /\ job.image \in Images
      /\ Target(job) = Target(jobs[p]) /\ Target(job) \in Versions \cap records
    BY <1>1, <1>2 DEF Inv, Knows, Target, JobType, Versions
<1>4. catalog[job.image] < job.version
    <2>1. CASE catalog[job.image] = 0
        BY <1>3, <2>1, PublicationAssumption
    <2>2. CASE catalog[job.image] # 0
        <3>1. <<job.image, catalog[job.image]>> \in published
            BY <1>3, <2>2 DEF Inv, CatalogNames
        <3> QED BY <1>1, <1>2, <3>1 DEF Inv, Knows
    <2> QED BY <2>1, <2>2
<1>5. Knows(job)'
    BY <1>1, <1>2, <1>3, <1>4 DEF Knows, Target
<1>6. DiskTyped' /\ CatalogNames' /\ published' \subseteq records'
    BY <1>1, <1>3 DEF Inv, DiskTyped, VersionsKept, CatalogNames
<1> QED BY <1>1, <1>2, <1>5, <1>6, ContinuesKeeps DEF Inv

LEMMA ReadsCatalogKeeps ==
    ASSUME Inv, NEW p \in Importers, ReadsCatalog(p)
    PROVE  Inv'
<1>1. /\ jobs[p] \in JobType /\ jobs[p].at = "moved"
      /\ UNCHANGED <<lock, disk, reported, readers>>
    BY DEF Inv, OneAtWork, ReadsCatalog
<1>2. PICK job \in JobType :
        /\ jobs' = [jobs EXCEPT ![p] = job] /\ job.at = "read" /\ job.seen = catalog
        /\ job.version = jobs[p].version /\ job.image = jobs[p].image
    <2>1. [jobs[p] EXCEPT !.at = "read", !.seen = catalog] \in JobType
        BY <1>1 DEF JobType, Places, Inv, DiskTyped
    <2> QED BY <1>1, <2>1 DEF JobType, Places, Inv, DiskTyped, ReadsCatalog
<1>3. Knows(job)'
    BY <1>1, <1>2 DEF Inv, Knows, Target, disk
<1> QED BY <1>1, <1>2, <1>3, ContinuesKeeps
        DEF Inv, disk, DiskTyped, VersionsKept, CatalogNames

LEMMA ReplacesCatalogKeeps ==
    ASSUME Inv, NEW p \in Importers, ReplacesCatalog(p)
    PROVE  Inv'
<1>1. /\ jobs[p] \in JobType /\ jobs[p].at = "read"
      /\ UNCHANGED <<lock, originals, records, published, reported, readers>>
    BY DEF Inv, OneAtWork, ReplacesCatalog
<1>2. PICK job \in JobType :
        /\ jobs' = [jobs EXCEPT ![p] = job] /\ job.at = "catalogued"
        /\ job.version = jobs[p].version /\ job.image = jobs[p].image
    <2>1. [jobs[p] EXCEPT !.at = "catalogued"] \in JobType
        BY <1>1 DEF JobType, Places
    <2> QED BY <1>1, <2>1 DEF JobType, Places, ReplacesCatalog, Goes
<1>3. /\ job.version \in 1..MaxVersion /\ job.image \in Images
      /\ Target(job) \in published
    BY <1>1, <1>2 DEF Inv, Knows, Target, JobType
<1>4. catalog' = [catalog EXCEPT ![job.image] = job.version]
    BY <1>1, <1>2 DEF Inv, Knows, ReplacesCatalog
<1>5. catalog' \in [Images -> 0..MaxVersion] /\ catalog'[job.image] = job.version
    BY <1>3, <1>4, PublicationAssumption DEF Inv, DiskTyped
<1>6. CatalogNames'
    BY <1>1, <1>3, <1>4, <1>5 DEF Inv, DiskTyped, CatalogNames, Target
<1>7. Knows(job)'
    BY <1>1, <1>2, <1>3, <1>5 DEF Knows, Target
<1> QED BY <1>1, <1>2, <1>5, <1>6, <1>7, ContinuesKeeps
        DEF Inv, DiskTyped, VersionsKept

LEMMA SucceedsKeeps ==
    ASSUME Inv, NEW p \in Importers, Succeeds(p)
    PROVE  Inv'
<1>1. jobs[p].at = "catalogued" /\ Ends(p) /\ UNCHANGED <<disk, readers>>
    BY DEF Succeeds
<1>2. Target(jobs[p]) \in published
    BY <1>1 DEF Inv, Knows
<1>3. DiskTyped'
    BY <1>1, <1>2 DEF Inv, DiskTyped, disk, Succeeds
<1> QED BY <1>1, <1>3, EndsKeeps DEF Inv, VersionsKept, disk

\* What is taken back was not moved.
LEMMA FailsKeeps ==
    ASSUME Inv, NEW p \in Importers, Fails(p)
    PROVE  Inv'
<1>1. jobs[p].at # "idle" /\ Ends(p) /\ UNCHANGED <<published, catalog, reported, readers>>
    BY DEF Fails
<1>2. CASE UNCHANGED <<originals, records>>
    BY <1>1, <1>2, EndsKeeps DEF Inv, DiskTyped, VersionsKept
<1>3. CASE /\ Undoes(jobs[p])
           /\ records' = records \ {Target(jobs[p])}
           /\ originals' \in {originals, originals \ {Target(jobs[p])}}
    <2>1. Target(jobs[p]) \notin published
        <3>1. /\ jobs[p].version \in 1..MaxVersion
              /\ \A d \in published : d[1] = jobs[p].image => d[2] < jobs[p].version
            BY <1>3 DEF Inv, Knows, Undoes
        <3> QED BY <3>1 DEF Target
    <2>2. DiskTyped' /\ published \subseteq records'
        BY <1>1, <1>3, <2>1 DEF Inv, DiskTyped, VersionsKept
    <2> QED BY <1>1, <2>2, EndsKeeps
<1> QED BY <1>2, <1>3 DEF Fails

LEMMA DiesKeeps ==
    ASSUME Inv, NEW p \in Importers, Dies(p)
    PROVE  Inv'
BY EndsKeeps DEF Dies, Inv, DiskTyped, VersionsKept, disk

--------------------------------------------------------------------------------
\* A reader finds in the catalog a version that was published.
LEMMA ReadsKeeps ==
    ASSUME Inv, NEW r \in Readers, Reads(r)
    PROVE  Inv'
<1>1. UNCHANGED <<lock, jobs, disk, reported>>
    BY DEF Reads, OpensCurrent, ReadsManifest, LeavesImage
<1>2. PICK reader \in ReaderType :
        /\ readers' = [readers EXCEPT ![r] = reader]
        /\ reader.at # "idle" => Target(reader) \in published
    <2>1. ASSUME NEW image \in Images, OpensCurrent(r, image)
          PROVE  <<image, catalog[image]>> \in published /\ catalog[image] \in 0..MaxVersion
        BY <2>1 DEF Inv, DiskTyped, CatalogNames, OpensCurrent
    <2>2. CASE \E image \in Images : OpensCurrent(r, image)
        BY <2>1, <2>2 DEF OpensCurrent, ReaderType, Target
    <2>3. CASE ReadsManifest(r)
        <3>1. [readers[r] EXCEPT !.at = "open"] \in ReaderType
            BY DEF Inv, ReaderType
        <3>2. CASE Target(readers[r]) \in published
            BY <2>3, <3>1, <3>2 DEF ReadsManifest, Inv, ReaderType, Target
        <3>3. CASE Target(readers[r]) \notin published
            BY <2>3, <3>3, Initials DEF ReadsManifest
        <3> QED BY <3>2, <3>3
    <2>4. CASE LeavesImage(r)
        BY <2>4, Initials DEF LeavesImage
    <2> QED BY <2>2, <2>3, <2>4 DEF Reads
<1>3. readers' \in [Readers -> ReaderType]
    BY <1>2 DEF Inv
<1>4. VersionsKept'
    BY <1>1, <1>2 DEF Inv, VersionsKept, Target, disk
<1>5. (\A q \in Importers : Knows(jobs[q]))'
    BY <1>1 DEF Inv, Knows, Target, disk
<1> QED BY <1>1, <1>3, <1>4, <1>5 DEF Inv, OneAtWork, DiskTyped, CatalogNames, disk

LEMMA InvInit == Init => Inv
<1> SUFFICES ASSUME Init PROVE Inv
    OBVIOUS
<1>1. OneAtWork /\ DiskTyped /\ readers \in [Readers -> ReaderType]
    BY Initials, PublicationAssumption DEF Init, OneAtWork, DiskTyped
<1>2. VersionsKept /\ CatalogNames
    BY Initials DEF Init, VersionsKept, CatalogNames, Nothing
<1>3. \A p \in Importers : Knows(jobs[p])
    BY Initials, KnowsIdle DEF Init
<1> QED BY <1>1, <1>2, <1>3 DEF Inv

LEMMA InvStep == Inv /\ [Next]_vars => Inv'
<1> SUFFICES ASSUME Inv, [Next]_vars PROVE Inv'
    OBVIOUS
<1>1. ASSUME NEW p \in Importers, Imports(p) PROVE Inv'
    BY <1>1, StartsKeeps, PlansVersionKeeps, StagesKeeps, CreatesRecordKeeps, WritesRecordKeeps,
       MovesVersionKeeps, ReadsCatalogKeeps, ReplacesCatalogKeeps, SucceedsKeeps, FailsKeeps,
       DiesKeeps
       DEF Imports
<1>2. ASSUME NEW r \in Readers, Reads(r) PROVE Inv'
    BY <1>2, ReadsKeeps
<1>3. CASE UNCHANGED vars
    BY <1>3 DEF vars, disk, Inv, OneAtWork, DiskTyped, VersionsKept, CatalogNames, Knows, Target
<1> QED BY <1>1, <1>2, <1>3 DEF Next

LEMMA InvAlways == Spec => []Inv
BY InvInit, InvStep, PTL DEF Spec

\* Types, and one importer at work: the one that holds the lock.
THEOREM TypeCorrect == Spec => []TypeOK
<1>1. Inv => TypeOK
    BY TypeOKIsParts DEF Inv
<1> QED BY <1>1, InvAlways, PTL

\* What is published keeps its record, and what a reader was told of stays.
THEOREM VersionsAlwaysKept == Spec => []VersionsKept
<1>1. Inv => VersionsKept
    BY DEF Inv
<1> QED BY <1>1, InvAlways, PTL

--------------------------------------------------------------------------------
\* A move of a version is a Publish, a replacement of the catalog is a
\* Catalogue of one image, and a success is a Report; other steps change
\* nothing of the promise.
LEMMA StepImplements ==
    ASSUME Inv, NEW p \in Importers, Imports(p)
    PROVE  [Promise!Next]_(Promise!vars)
<1> DEFINE job == jobs[p]
<1>1. job \in JobType
    BY DEF Inv, OneAtWork
<1>2. ASSUME MovesVersion(p) PROVE Promise!Next
    <2>1. job.at = "recorded" /\ job.image \in Images /\ job.version \in 1..MaxVersion
        BY <1>1, <1>2 DEF MovesVersion, Inv, Knows, JobType
    <2>2. Promise!Publish(job.image, job.version)
        BY <1>2, <2>1 DEF MovesVersion, Promise!Publish, Inv, Knows, Target
    <2> QED BY <2>1, <2>2 DEF Promise!Next
<1>3. ASSUME ReplacesCatalog(p) PROVE Promise!Next
    <2>1. job.at = "read" /\ job.image \in Images /\ job.version \in 1..MaxVersion
        BY <1>1, <1>3 DEF ReplacesCatalog, Inv, Knows, JobType
    <2>2. Promise!Catalogue(job.image, job.version)
        BY <1>3, <2>1 DEF ReplacesCatalog, Promise!Catalogue, Inv, Knows, Target
    <2> QED BY <2>1, <2>2 DEF Promise!Next
<1>4. ASSUME Succeeds(p) PROVE Promise!Next
    <2>1. job.at = "catalogued" /\ job.image \in Images /\ job.version \in 1..MaxVersion
        BY <1>1, <1>4 DEF Succeeds, Inv, Knows, JobType
    <2>2. Promise!Report(job.image, job.version)
        BY <1>4, <2>1 DEF Succeeds, Promise!Report, Inv, Knows, Target, disk
    <2> QED BY <2>1, <2>2 DEF Promise!Next
<1>5. ASSUME \/ \E kind \in Kinds, image \in Images : Starts(p, kind, image)
             \/ PlansVersion(p)
             \/ Stages(p)
             \/ CreatesRecord(p)
             \/ WritesRecord(p)
             \/ ReadsCatalog(p)
             \/ Fails(p)
             \/ Dies(p)
      PROVE  UNCHANGED Promise!vars
    BY <1>5 DEF Promise!vars, Starts, PlansVersion, Stages, CreatesRecord, WritesRecord,
                ReadsCatalog, Fails, Dies, disk
<1> QED BY <1>2, <1>3, <1>4, <1>5 DEF Imports

LEMMA InitImplements == Init => Promise!Init
BY DEF Init, Promise!Init, Nothing

LEMMA ReaderImplements ==
    ASSUME NEW r \in Readers, Reads(r)
    PROVE  UNCHANGED Promise!vars
BY DEF Promise!vars, Reads, OpensCurrent, ReadsManifest, LeavesImage, disk

\* Importers keep the promise of ImageCatalog: versions in order, a catalog that
\* moves one image at a time to a newer published version, and no success that
\* is not in the catalog, wherever importers fail or die.
THEOREM ImportersKeepTheirPromise == Spec => ImplementsCatalog
<1>1. Inv /\ [Next]_vars => [Promise!Next]_(Promise!vars)
    <2> SUFFICES ASSUME Inv, [Next]_vars PROVE [Promise!Next]_(Promise!vars)
        OBVIOUS
    <2>1. CASE UNCHANGED vars
        BY <2>1 DEF vars, disk, Promise!vars
    <2> QED BY <2>1, StepImplements, ReaderImplements DEF Next
<1> QED BY <1>1, InitImplements, InvAlways, PTL DEF Spec, ImplementsCatalog, Promise!Spec

================================================================================
