------------------------------ MODULE ImageCatalog ------------------------------
(***************************************************************************)
(* What importers promise to the server and to whoever runs them: a        *)
(* version is published once and stays; the catalog of each image moves    *)
(* only to a newer version that is published, one image at a time, so      *)
(* that no import undoes another; and an import that reports success is    *)
(* in the catalog.                                                         *)
(***************************************************************************)
EXTENDS Naturals

CONSTANTS
    Images,
    MaxVersion

\* A version of an image.
Versions == Images \X (1..MaxVersion)

VARIABLES
    published,  \* versions that can be read
    catalog,    \* the version of each image in the catalog, or 0
    reported    \* versions whose import reported success

vars == <<published, catalog, reported>>

Init ==
    /\ published = {}
    /\ catalog = [image \in Images |-> 0]
    /\ reported = {}

Publish(image, version) ==
    /\ \A d \in published : d[1] = image => d[2] < version
    /\ published' = published \cup {<<image, version>>}
    /\ UNCHANGED <<catalog, reported>>

Catalogue(image, version) ==
    /\ <<image, version>> \in published
    /\ catalog[image] < version
    /\ catalog' = [catalog EXCEPT ![image] = version]
    /\ UNCHANGED <<published, reported>>

Report(image, version) ==
    /\ catalog[image] = version
    /\ reported' = reported \cup {<<image, version>>}
    /\ UNCHANGED <<published, catalog>>

Next ==
    \E image \in Images, version \in 1..MaxVersion :
        Publish(image, version) \/ Catalogue(image, version) \/ Report(image, version)

Spec == Init /\ [][Next]_vars

================================================================================
