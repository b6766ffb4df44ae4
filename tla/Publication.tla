------------------------------- MODULE Publication -------------------------------
(***************************************************************************)
(* Importers that publish versions of images, each in a process of its     *)
(* own that may die at any step, and a server that opens what the catalog  *)
(* names meanwhile.                                                        *)
(*                                                                         *)
(* An importer holds the lock of ImportLock from before it chooses a       *)
(* version number until it ends; the system takes the lock from a process  *)
(* that died.  Each effect on the file system others can see is a step.    *)
(* The job directory of staging has a name of its own and nobody else      *)
(* looks into it: that it was built, or left behind, is all there is to    *)
(* say.  A crash is the death of a process: what it wrote before stays.    *)
(* That a power failure might keep the catalog and lose the version it     *)
(* names, for only the catalog and the records are forced to disk, is left *)
(* out.                                                                    *)
(***************************************************************************)
EXTENDS Naturals

CONSTANTS
    Importers,
    Readers,        \* sessions of the server that open images
    Images,
    MaxVersion,     \* MAX_VERSION_NUMBER
    NoImporter      \* nobody holds the lock

ASSUME PublicationAssumption ==
    /\ Images # {}
    /\ MaxVersion \in Nat
    /\ NoImporter \notin Importers

VARIABLES
    lock,       \* the importer that holds staging/.ingest.lock, or NoImporter
    jobs,       \* where each importer is, and what it imports
    originals,  \* versions that have a directory under originals/
    records,    \* those of them whose import-metadata.json was written
    published,  \* versions that have a directory under pyramids/
    catalog,    \* catalog.json: the version of each image, or 0
    reported,   \* history: versions whose import reported success
    readers     \* where each reader is in openCurrent

disk == <<originals, records, published, catalog>>
vars == <<lock, jobs, disk, reported, readers>>

Versions == Images \X (1..MaxVersion)

\* "full" is FullImportService, "prepared" PreparedDeepZoomImportService, and
\* "stage" stops after the pyramid is built.
Kinds == {"full", "prepared", "stage"}
Places == {"idle", "locked", "staging", "staged", "recording", "recorded", "moved", "read",
           "catalogued"}

\* Nothing in the catalog.
Nothing == [image \in Images |-> 0]

NewJob(kind, image) ==
    [at |-> "locked", kind |-> kind, image |-> image, version |-> 0, seen |-> Nothing]

AnImage == CHOOSE image \in Images : TRUE

\* What a process does not need any more has one value.
NoJob == [NewJob("stage", AnImage) EXCEPT !.at = "idle"]
NotReading == [at |-> "idle", image |-> AnImage, version |-> 0]

Init ==
    /\ lock = NoImporter
    /\ jobs = [p \in Importers |-> NoJob]
    /\ originals = {}
    /\ records = {}
    /\ published = {}
    /\ catalog = Nothing
    /\ reported = {}
    /\ readers = [r \in Readers |-> NotReading]

--------------------------------------------------------------------------------
\* Importers

Target(job) == <<job.image, job.version>>

Goes(p, place) == jobs' = [jobs EXCEPT ![p].at = place]

\* try-with-resources: the lock is released with the result, whatever it is.
Ends(p) ==
    /\ jobs' = [jobs EXCEPT ![p] = NoJob]
    /\ lock' = NoImporter

\* Mutant: an importer that does not get the lock goes on.
StartsAnyway(p, kind, image) ==
    /\ jobs[p].at = "idle"
    /\ lock' = p
    /\ jobs' = [jobs EXCEPT ![p] = NewJob(kind, image)]
    /\ UNCHANGED <<disk, reported, readers>>

\* ImportLock.acquire, or else nothing.
Starts(p, kind, image) ==
    /\ jobs[p].at = "idle"
    /\ lock = NoImporter
    /\ lock' = p
    /\ jobs' = [jobs EXCEPT ![p] = NewJob(kind, image)]
    /\ UNCHANGED <<disk, reported, readers>>

\* nextVersion: one more than the largest that was used, of an import that
\* failed or died too.
IsNext(image, version) ==
    LET used == {v \in 1..MaxVersion : <<image, v>> \in originals \cup published}
    IN  /\ \A v \in used : v < version
        /\ version = 1 \/ version - 1 \in used

PlansVersion(p) ==
    /\ jobs[p].at = "locked"
    /\ \E version \in 1..MaxVersion :
        /\ IsNext(jobs[p].image, version)
        /\ jobs' = [jobs EXCEPT ![p].at = "staging", ![p].version = version]
    /\ UNCHANGED <<lock, disk, reported, readers>>

\* The pyramid is built in the job directory, and validated if it is to be
\* published.
Stages(p) ==
    /\ jobs[p].at = "staging"
    /\ IF jobs[p].kind = "stage"
       THEN Ends(p)
       ELSE Goes(p, "staged") /\ UNCHANGED lock
    /\ UNCHANGED <<disk, reported, readers>>

\* The private directory of the version, which must be new.
CreatesRecord(p) ==
    /\ jobs[p].at = "staged"
    /\ Target(jobs[p]) \notin originals
    /\ jobs[p].kind = "full" => Target(jobs[p]) \notin published
    /\ originals' = originals \cup {Target(jobs[p])}
    /\ Goes(p, "recording")
    /\ UNCHANGED <<lock, records, published, catalog, reported, readers>>

\* The original is copied or referred to, and its metadata are moved into place.
WritesRecord(p) ==
    /\ jobs[p].at = "recording"
    /\ records' = records \cup {Target(jobs[p])}
    /\ Goes(p, "recorded")
    /\ UNCHANGED <<lock, originals, published, catalog, reported, readers>>

\* An atomic move, which a directory that is not empty refuses.
MovesVersion(p) ==
    /\ jobs[p].at = "recorded"
    /\ Target(jobs[p]) \notin published
    /\ published' = published \cup {Target(jobs[p])}
    /\ Goes(p, "moved")
    /\ UNCHANGED <<lock, originals, records, catalog, reported, readers>>

\* Mutant: a catalog that cannot be read is taken for an empty one.
ReadsCatalogOrEmpty(p) ==
    /\ jobs[p].at = "moved"
    /\ \E seen \in {catalog, Nothing} :
        jobs' = [jobs EXCEPT ![p].at = "read", ![p].seen = seen]
    /\ UNCHANGED <<lock, disk, reported, readers>>

\* CatalogPublisher.publish: read, change one image, replace.
ReadsCatalog(p) ==
    /\ jobs[p].at = "moved"
    /\ jobs' = [jobs EXCEPT ![p].at = "read", ![p].seen = catalog]
    /\ UNCHANGED <<lock, disk, reported, readers>>

ReplacesCatalog(p) ==
    /\ jobs[p].at = "read"
    /\ catalog' = [jobs[p].seen EXCEPT ![jobs[p].image] = jobs[p].version]
    /\ Goes(p, "catalogued")
    /\ UNCHANGED <<lock, originals, records, published, reported, readers>>

\* The job directory is deleted, and the result returned.
Succeeds(p) ==
    /\ jobs[p].at = "catalogued"
    /\ reported' = reported \cup {Target(jobs[p])}
    /\ Ends(p)
    /\ UNCHANGED <<disk, readers>>

\* Mutant: the private record goes even if the version was moved.
UndoesAlways(job) == job.kind = "full" /\ job.at \notin {"locked", "staging"}

\* A full import that fails before its version is moved deletes the directory
\* of its record, even one it did not create.
Undoes(job) == job.kind = "full" /\ job.at \in {"staged", "recording", "recorded"}

\* Any step may fail, the deletion of the job directory after the catalog was
\* replaced too.  Taking the record back is a best effort: the file goes before
\* its directory, and any part may stay.
Fails(p) ==
    /\ jobs[p].at # "idle"
    /\ \/ UNCHANGED <<originals, records>>
       \/ /\ Undoes(jobs[p])
          /\ records' = records \ {Target(jobs[p])}
          /\ originals' \in {originals, originals \ {Target(jobs[p])}}
    /\ Ends(p)
    /\ UNCHANGED <<published, catalog, reported, readers>>

\* The process dies, and the system releases its lock.
Dies(p) ==
    /\ jobs[p].at # "idle"
    /\ Ends(p)
    /\ UNCHANGED <<disk, reported, readers>>

--------------------------------------------------------------------------------
\* Readers

\* openCurrent reads the catalog, then the manifest of the version it names.
OpensCurrent(r, image) ==
    /\ readers[r].at = "idle"
    /\ catalog[image] # 0
    /\ readers' = [readers EXCEPT ![r] =
                    [at |-> "named", image |-> image, version |-> catalog[image]]]
    /\ UNCHANGED <<lock, jobs, disk, reported>>

ReadsManifest(r) ==
    /\ readers[r].at = "named"
    /\ readers' = [readers EXCEPT ![r] =
                    IF Target(readers[r]) \in published
                    THEN [readers[r] EXCEPT !.at = "open"]
                    ELSE NotReading]
    /\ UNCHANGED <<lock, jobs, disk, reported>>

\* The session opened another image, or ended.
LeavesImage(r) ==
    /\ readers[r].at = "open"
    /\ readers' = [readers EXCEPT ![r] = NotReading]
    /\ UNCHANGED <<lock, jobs, disk, reported>>

--------------------------------------------------------------------------------
Imports(p) ==
    \/ \E kind \in Kinds, image \in Images : Starts(p, kind, image)
    \/ PlansVersion(p)
    \/ Stages(p)
    \/ CreatesRecord(p)
    \/ WritesRecord(p)
    \/ MovesVersion(p)
    \/ ReadsCatalog(p)
    \/ ReplacesCatalog(p)
    \/ Succeeds(p)
    \/ Fails(p)
    \/ Dies(p)

Reads(r) ==
    \/ \E image \in Images : OpensCurrent(r, image)
    \/ ReadsManifest(r)
    \/ LeavesImage(r)

Next == (\E p \in Importers : Imports(p)) \/ (\E r \in Readers : Reads(r))

Spec == Init /\ [][Next]_vars

--------------------------------------------------------------------------------
\* Properties

\* The disk and the processes have their type, and the lock is held by the only
\* importer that is at work, whichever processes died before.
TypeOK ==
    /\ lock \in Importers \cup {NoImporter}
    /\ jobs \in [Importers -> [at : Places, kind : Kinds, image : Images,
                               version : 0..MaxVersion, seen : [Images -> 0..MaxVersion]]]
    /\ \A p \in Importers : jobs[p].at # "idle" <=> lock = p
    /\ records \subseteq originals
    /\ originals \cup published \cup reported \subseteq Versions
    /\ catalog \in [Images -> 0..MaxVersion]
    /\ readers \in [Readers -> [at : {"idle", "named", "open"}, image : Images,
                                version : 0..MaxVersion]]

\* What was published has its private record, and what a reader found in the
\* catalog stays where it can be read, whatever importers do after it and
\* wherever they fail.
VersionsKept ==
    /\ published \subseteq records
    /\ \A r \in Readers : readers[r].at # "idle" => Target(readers[r]) \in published

\* Importers implement the catalog they promise.
Promise == INSTANCE ImageCatalog

ImplementsCatalog == Promise!Spec

================================================================================
