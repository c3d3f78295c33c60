------------------------------- MODULE Release -------------------------------
(***************************************************************************)
(* Publication of the images: deploy.sh and scripts/ghcr_preflight.py.     *)
(*                                                                         *)
(* An operator's run checks the worktree once, compares its commit with    *)
(* the canonical main branch, proves push access to every selected package *)
(* and the absence of every final tag, and then builds and pushes package  *)
(* by package.  The registry has no transaction over packages and cannot   *)
(* reserve a tag; the branch, the worktrees and other operators go on      *)
(* while a run is in progress.                                             *)
(***************************************************************************)
EXTENDS Integers, Sequences, SequencesExt

CONSTANTS
    Operators,
    Versions,          \* tags; the version rules of deploy.sh are met
    Packages,          \* in the order deploy.sh builds them, a sequence
    NoImage,           \* the tag is absent
    Practices,         \* what the operators may have agreed on
    MaxCommits         \* bound: commits on the main branch

(* Operators may agree to release one at a time, to leave a worktree alone *)
(* while a run uses it, and to complete a partial version only from its    *)
(* commit.  Nothing in the scripts enforces any of it.                     *)
Agreements == {"exclusive", "stable", "disciplined"}

ASSUME ReleaseAssumption ==
    /\ Versions # {}
    /\ Packages \in Seq(Range(Packages))
    /\ \A i, j \in DOMAIN Packages : Packages[i] = Packages[j] => i = j
    /\ Practices \subseteq SUBSET Agreements
    /\ MaxCommits \in Nat \ {0}

VARIABLES
    practice,          \* what the operators have agreed on
    main,              \* number of commits on origin/main, the newest one
    head,              \* commit checked out in an operator's worktree
    clean,             \* git status finds nothing
    pc,                \* where an operator's run is
    revision,          \* BUILDER_REVISION of the run
    version,           \* VERSION of the run
    selected,          \* packages of the run, in order
    todo,              \* packages the current step has not reached
    images             \* the registry: the image under each tag

releaseVars == <<practice, main, head, clean, pc, revision, version, selected, todo, images>>

Local == 0             \* a commit that is not on the main branch
Commits == Local .. MaxCommits
Running == {"canonical", "access", "absent", "push"}
Ended == {"idle", "not_canonical", "failed", "published"}

(* What a run may select: one or more packages, in the order deploy.sh     *)
(* builds them.                                                            *)
Before(a, b) ==
    \E i, j \in DOMAIN Packages : i < j /\ Packages[i] = a /\ Packages[j] = b
Selections ==
    { s \in UNION { [1..n -> Range(Packages)] : n \in 1..Len(Packages) } :
         \A i, j \in DOMAIN s : i < j => Before(s[i], s[j]) }

(* An image carries the commit it is labelled with and, as its content,    *)
(* the commit it was built from and whether that was edited.               *)
Image == [label : Commits, content : Commits, edited : BOOLEAN]

ReleaseTypeOK ==
    /\ practice \in Practices
    /\ main \in 1 .. MaxCommits
    /\ head \in [Operators -> Commits] /\ clean \in [Operators -> BOOLEAN]
    /\ pc \in [Operators -> Running \cup Ended]
    /\ revision \in [Operators -> Commits] /\ version \in [Operators -> Versions]
    /\ selected \in [Operators -> Selections \cup {<<>>}]
    /\ todo \in [Operators -> Seq(Range(Packages))]
    /\ \A o \in Operators :
          LET done == Len(selected[o]) - Len(todo[o])
          IN  done >= 0 /\ todo[o] = SubSeq(selected[o], done + 1, Len(selected[o]))
    /\ images \in [Versions \X Range(Packages) -> Image \cup {NoImage}]

ReleaseInit ==
    /\ practice \in Practices
    /\ main = 1
    /\ head = [o \in Operators |-> 1] /\ clean = [o \in Operators |-> TRUE]
    /\ pc = [o \in Operators |-> "idle"]
    /\ revision = [o \in Operators |-> Local]
    /\ version = [o \in Operators |-> CHOOSE v \in Versions : TRUE]
    /\ selected = [o \in Operators |-> <<>>]
    /\ todo = [o \in Operators |-> <<>>]
    /\ images = [t \in Versions \X Range(Packages) |-> NoImage]
-----------------------------------------------------------------------------
Commit(v, package) == images[<<v, package>>].label
Present(v) == {package \in Range(Packages) : images[<<v, package>>] # NoImage}
Goto(o, point) == pc' = [pc EXCEPT ![o] = point]

(* The run exits with an error, and what it knew is gone.                  *)
Abort(o) ==
    /\ Goto(o, "failed")
    /\ revision' = [revision EXCEPT ![o] = Local]
    /\ version' = [version EXCEPT ![o] = CHOOSE v \in Versions : TRUE]
    /\ selected' = [selected EXCEPT ![o] = <<>>]
    /\ todo' = [todo EXCEPT ![o] = <<>>]

(* The operator selects packages that go with what is published already:   *)
(* all of a new version, or what a partial one lacks, from its commit.     *)
GoesWith(o, v, packages) ==
    \A package \in Present(v) : package \notin packages /\ Commit(v, package) = head[o]

(* The worktree is clean, and its commit is the run's revision.            *)
Begin(o) ==
    /\ pc[o] \in Ended /\ clean[o]
    /\ "exclusive" \in practice => \A other \in Operators : pc[other] \in Ended
    /\ \E v \in Versions, packages \in Selections :
          /\ "disciplined" \in practice => GoesWith(o, v, Range(packages))
          /\ version' = [version EXCEPT ![o] = v]
          /\ selected' = [selected EXCEPT ![o] = packages]
    /\ revision' = [revision EXCEPT ![o] = head[o]]
    /\ todo' = [todo EXCEPT ![o] = <<>>]
    /\ Goto(o, "canonical")
    /\ UNCHANGED <<practice, main, head, clean, images>>

(* Mutant: any commit may be published.                                    *)
VerifyCanonical_Skipped(o) ==
    /\ pc[o] = "canonical"
    /\ Goto(o, "access")
    /\ todo' = [todo EXCEPT ![o] = selected[o]]
    /\ UNCHANGED <<practice, main, head, clean, revision, version, selected, images>>

(* verify_canonical_source: the revision is the fetched origin/main.       *)
VerifyCanonical(o) ==
    /\ pc[o] = "canonical" /\ revision[o] = main
    /\ Goto(o, "access")
    /\ todo' = [todo EXCEPT ![o] = selected[o]]
    /\ UNCHANGED <<practice, main, head, clean, revision, version, selected, images>>

NotCanonical(o) ==
    /\ pc[o] = "canonical" /\ revision[o] # main
    /\ Goto(o, "not_canonical")
    /\ UNCHANGED <<practice, main, head, clean, revision, version, selected, todo, images>>

(* Mutant: the next round is over all packages, not the selected ones.     *)
NextPackage_AllPackages(o, next) ==
    LET rest == Tail(todo[o]) IN
    /\ Goto(o, IF rest = <<>> THEN next ELSE pc[o])
    /\ todo' = [todo EXCEPT ![o] = IF rest = <<>> /\ next # "published"
                                   THEN Packages ELSE rest]
    /\ UNCHANGED <<practice, main, head, clean, revision, version, selected>>

(* One package after the other passes a check; after the last one the next *)
(* round over all selected packages begins.                                *)
NextPackage(o, next) ==
    LET rest == Tail(todo[o]) IN
    /\ Goto(o, IF rest = <<>> THEN next ELSE pc[o])
    /\ todo' = [todo EXCEPT ![o] = IF rest = <<>> /\ next # "published"
                                   THEN selected[o] ELSE rest]
    /\ UNCHANGED <<practice, main, head, clean, revision, version, selected>>

(* A scoped token is exchanged and an upload session accepted; cancelling  *)
(* it is best effort.                                                      *)
VerifyAccess(o) ==
    /\ pc[o] = "access"
    /\ NextPackage(o, "absent")
    /\ UNCHANGED images

(* Mutant: the tag is looked up for the first package only.                *)
VerifyAbsent_FirstOnly(o) ==
    /\ pc[o] = "absent" /\ images[<<version[o], Head(todo[o])>>] = NoImage
    /\ Goto(o, "push")
    /\ todo' = [todo EXCEPT ![o] = selected[o]]
    /\ UNCHANGED <<practice, main, head, clean, revision, version, selected, images>>

(* The registry answers that the manifest is unknown; after the last one   *)
(* Docker is logged in.                                                    *)
VerifyAbsent(o) ==
    /\ pc[o] = "absent" /\ images[<<version[o], Head(todo[o])>>] = NoImage
    /\ NextPackage(o, "push")
    /\ UNCHANGED images

TagExists(o) ==
    /\ pc[o] = "absent" /\ images[<<version[o], Head(todo[o])>>] # NoImage
    /\ Abort(o)
    /\ UNCHANGED <<practice, main, head, clean, images>>

(* Mutant: the label is the tip of main at the time of the build.          *)
Push_LabelsMain(o) ==
    /\ pc[o] = "push"
    /\ images' = [images EXCEPT ![<<version[o], Head(todo[o])>>] =
                    [label |-> main, content |-> head[o], edited |-> ~clean[o]]]
    /\ NextPackage(o, "published")

(* The package is built from the worktree as it is now, labelled with the  *)
(* revision, and pushed: a push replaces what is under the tag.            *)
Push(o) ==
    /\ pc[o] = "push"
    /\ images' = [images EXCEPT ![<<version[o], Head(todo[o])>>] =
                    [label |-> revision[o], content |-> head[o], edited |-> ~clean[o]]]
    /\ NextPackage(o, "published")

(* Network, authorization or response ambiguity, a failed login or build,  *)
(* or the operator's interrupt.                                            *)
Fails(o) ==
    /\ pc[o] \in Running
    /\ Abort(o)
    /\ UNCHANGED <<practice, main, head, clean, images>>
-----------------------------------------------------------------------------
(* Meanwhile: main advances, a worktree is edited or checked out anew.     *)
MainAdvances ==
    /\ main < MaxCommits
    /\ main' = main + 1
    /\ UNCHANGED <<practice, head, clean, pc, revision, version, selected, todo, images>>

Touch(o) ==
    /\ "stable" \in practice => pc[o] \in Ended
    /\ \/ clean' = [clean EXCEPT ![o] = FALSE] /\ UNCHANGED head
       \/ /\ \E c \in Local .. main : head' = [head EXCEPT ![o] = c]
          /\ clean' = [clean EXCEPT ![o] = TRUE]
    /\ UNCHANGED <<practice, main, pc, revision, version, selected, todo, images>>

ReleaseNext ==
    \/ \E o \in Operators :
          \/ Begin(o) \/ VerifyCanonical(o) \/ NotCanonical(o) \/ VerifyAccess(o)
          \/ VerifyAbsent(o) \/ TagExists(o) \/ Push(o) \/ Fails(o) \/ Touch(o)
    \/ MainAdvances

ReleaseSpec == ReleaseInit /\ [][ReleaseNext]_releaseVars
-----------------------------------------------------------------------------
(* Tags are immutable: as long as operators coordinate, no run, whatever   *)
(* it selects and wherever it stops, replaces a published image.           *)
TagsImmutable ==
    [][\A t \in Versions \X Range(Packages) :
          "exclusive" \in practice /\ images[t] # NoImage => images'[t] = images[t]]_releaseVars

(* Whoever may interfere: a published image is labelled with a commit that *)
(* was the tip of the canonical main branch.                               *)
LabelledFromMain ==
    \A t \in Versions \X Range(Packages) :
       images[t] # NoImage => images[t].label \in 1 .. main

(* The label tells what is in the image, if the worktree is left alone,    *)
(* with other operators pushing the same tag or not.                       *)
LabelTellsContent ==
    \A t \in Versions \X Range(Packages) :
       "stable" \in practice /\ images[t] # NoImage =>
          images[t].content = images[t].label /\ ~images[t].edited

(* No predictable partial release: when the first package of a run is      *)
(* pushed, none of the packages after it is refused for an existing tag.   *)
NoPredictablePartial ==
    \A o \in Operators :
       "exclusive" \in practice /\ pc[o] = "push" =>
          \A i \in DOMAIN todo[o] : images[<<version[o], todo[o][i]>>] = NoImage

(* A version is of one commit, if partial ones are completed as the README *)
(* says (lines 121-127), by one operator at a time.                        *)
OneCommitPerVersion ==
    {"exclusive", "disciplined"} \subseteq practice =>
       \A v \in Versions : \A a, b \in Present(v) : Commit(v, a) = Commit(v, b)

(* README lines 121-123: a partial release is completed by running the     *)
(* script for the missing package from the same commit and version.        *)
PartialReleaseCompletable ==
    \A o \in Operators :
       ~ /\ pc[o] = "not_canonical"
         /\ Present(version[o]) # {}
         /\ Range(selected[o]) = Range(Packages) \ Present(version[o])
         /\ \A package \in Present(version[o]) : Commit(version[o], package) = revision[o]
=============================================================================
