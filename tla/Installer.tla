----------------------------- MODULE Installer -----------------------------
(***************************************************************************)
(* The pinned dependency release on the disk of one machine: an installer  *)
(* downloads the archive to a file of its own and moves it into place,     *)
(* extracts it to a directory of its own and moves that into place.  Every *)
(* step may fail or be cut by a crash, and the next run begins with what   *)
(* it finds.  An archive counts as installed once its manifest is found.   *)
(***************************************************************************)
EXTENDS Integers, FiniteSets

CONSTANTS
    Installers,  \* processes that install
    Files,       \* files of the release, the manifest included
    Manifest,    \* MANIFEST.json
    Mirrors,     \* download_urls
    MaxRuns      \* bound: installations begun

VARIABLES
    archive,  \* the archive in place: "none", "good" or "bad"
    final,    \* the files of the activated tree
    own,      \* each installer: where it is, its mirror and its staging directory
    runs,
    told      \* roots that were returned were whole

vars == <<archive, final, own, runs, told>>

Rest == [pc |-> "rest", mirror |-> 0, staging |-> {}]

TypeOK ==
    /\ archive \in {"none", "good", "bad"} /\ final \subseteq Files
    /\ \A i \in Installers :
          own[i].pc \in {"rest", "archive", "download", "look", "extract", "clear", "activate", "check"}
    /\ told \in BOOLEAN

\* Whatever an archive of an older release or a broken disk has left
Init ==
    /\ archive \in {"none", "bad"} /\ final \in SUBSET (Files \ {Manifest})
    /\ own = [i \in Installers |-> Rest] /\ runs = 0 /\ told = TRUE

At(i, pc)   == own[i].pc = pc
Goes(i, pc) == own' = [own EXCEPT ![i].pc = pc]

\* The run ends, with an error or by a crash; a crash leaves the staging
\* directory behind, which nobody looks at again
Stops(i) == own' = [own EXCEPT ![i] = Rest]

\* What a run returns as the root of the release
Returns(i) == Stops(i) /\ told' = (told /\ final = Files)

-----------------------------------------------------------------------------
(* download_dependency_release *)

Begin(i) ==
    /\ At(i, "rest") /\ runs < MaxRuns /\ runs' = runs + 1
    /\ Goes(i, "archive")
    /\ UNCHANGED <<archive, final, told>>

\* An archive in place is used if its hash is right, else it is removed; one
\* of another size stays until it is replaced
LookAtArchive(i) ==
    /\ At(i, "archive")
    /\ IF archive = "good" THEN Goes(i, "look") /\ UNCHANGED archive
       ELSE /\ archive' \in {"none", archive}
            /\ own' = [own EXCEPT ![i].pc = "download", ![i].mirror = 1]
    /\ UNCHANGED <<final, runs, told>>

\* One mirror: what it sends has the pinned hash, or the next one is tried
Download(i) ==
    /\ At(i, "download")
    /\ \/ archive' = "good" /\ Goes(i, "look")
       \/ /\ UNCHANGED archive
          /\ IF own[i].mirror < Mirrors THEN own' = [own EXCEPT ![i].mirror = @ + 1] ELSE Stops(i)
    /\ UNCHANGED <<final, runs, told>>

-----------------------------------------------------------------------------
(* extract_dependency_release *)

Found == Manifest \in final

\* The hash again, and whether the release is there already
Look(i) ==
    /\ At(i, "look") /\ UNCHANGED <<archive, final, runs>>
    /\ \/ archive # "good" /\ Stops(i) /\ UNCHANGED told
       \/ archive = "good" /\ Found /\ Returns(i)
       \/ archive = "good" /\ ~Found /\ Goes(i, "extract") /\ UNCHANGED told

\* What if the archive were extracted where it is going to be used?
ExtractsInPlace(i, f) == final' = final \cup {f} /\ own' = [own EXCEPT ![i].staging = @ \cup {f}]

Extracts(i, f) == own' = [own EXCEPT ![i].staging = @ \cup {f}] /\ UNCHANGED final

Extract(i) ==
    /\ At(i, "extract")
    /\ \/ \E f \in Files \ own[i].staging : Extracts(i, f)
       \/ own[i].staging = Files /\ Goes(i, "clear") /\ UNCHANGED final
    /\ UNCHANGED <<archive, runs, told>>

\* shutil.rmtree(final), a file at a time
Clear(i) ==
    /\ At(i, "clear")
    /\ \/ \E f \in final : final' = final \ {f} /\ UNCHANGED own
       \/ final = {} /\ UNCHANGED final /\ Goes(i, "activate")
    /\ UNCHANGED <<archive, runs, told>>

\* os.replace refuses a directory that is not empty
Activate(i) ==
    /\ At(i, "activate")
    /\ IF final = {} THEN final' = own[i].staging /\ Goes(i, "check")
       ELSE Stops(i) /\ UNCHANGED final
    /\ UNCHANGED <<archive, runs, told>>

CheckRoot(i) ==
    /\ At(i, "check") /\ UNCHANGED <<archive, final, runs>>
    /\ IF Found THEN Returns(i) ELSE Stops(i) /\ UNCHANGED told

\* An error of the disk or a crash, anywhere
Fail(i) ==
    /\ ~At(i, "rest") /\ Stops(i)
    /\ UNCHANGED <<archive, final, runs, told>>

-----------------------------------------------------------------------------

Next ==
    \E i \in Installers :
        \/ Begin(i) \/ LookAtArchive(i) \/ Download(i) \/ Look(i) \/ Extract(i)
        \/ Clear(i) \/ Activate(i) \/ CheckRoot(i) \/ Fail(i)

Spec == Init /\ [][Next]_vars

-----------------------------------------------------------------------------
(* Properties *)

(* Whatever fails or crashes, a tree with a manifest is whole, so a root    *)
(* that is returned is one of a complete release (installer.py:38), and no  *)
(* archive with a wrong hash is put in place by an installation.            *)
WholeOrAbsent ==
    /\ told /\ (Found => final = Files)
    /\ \A i \in Installers : own[i].pc \in {"extract", "clear", "activate"} => archive = "good"
=============================================================================
