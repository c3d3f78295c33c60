---------------------------- MODULE ReleaseProofs ----------------------------
(***************************************************************************)
(* Releases by any operators, of any packages and versions, over any       *)
(* number of commits.                                                      *)
(*                                                                         *)
(* The argument: what a run has checked of the tags stays true while it is *)
(* the only one, since only runs push; what it has read of its worktree    *)
(* stays true while the worktree is left alone; and that its revision is   *)
(* on the main branch stays true in any case, as the branch only grows.    *)
(***************************************************************************)
EXTENDS Release, SequenceTheorems, TLAPS

USE DEF Goto

Tags == Versions \X Range(Packages)

(* How many of its packages the current round of a run has behind it.      *)
Passed(o) == Len(selected[o]) - Len(todo[o])

(* What a run knows of its packages, of its revision, of the tags and of   *)
(* its worktree.                                                           *)
Rounds(o) ==
    /\ selected[o] \in Selections \cup {<<>>} /\ todo[o] \in Seq(Range(Packages))
    /\ pc[o] \in Running => selected[o] # <<>>
    /\ pc[o] \in {"access", "absent", "push"} => todo[o] # <<>>
    /\ Len(todo[o]) <= Len(selected[o])
    /\ \A i \in 1..Len(todo[o]) : todo[o][i] = selected[o][Passed(o) + i]

KnowsRevision(o) ==
    pc[o] \in {"access", "absent", "push"} => revision[o] \in 1..main

KnowsTags(o) ==
    "exclusive" \in practice =>
       /\ pc[o] = "absent" =>
             \A i \in 1..Passed(o) : images[<<version[o], selected[o][i]>>] = NoImage
       /\ pc[o] = "push" =>
             \A i \in 1..Len(todo[o]) : images[<<version[o], todo[o][i]>>] = NoImage

KnowsWorktree(o) ==
    "stable" \in practice /\ pc[o] \in Running => head[o] = revision[o] /\ clean[o]

GoesWithPartial(o) ==
    {"exclusive", "disciplined"} \subseteq practice /\ pc[o] \in Running =>
       \A package \in Present(version[o]) : Commit(version[o], package) = revision[o]

Knows(o) ==
    /\ Rounds(o) /\ KnowsRevision(o) /\ KnowsTags(o) /\ KnowsWorktree(o)
    /\ GoesWithPartial(o)

OneRun ==
    "exclusive" \in practice =>
       \A o, other \in Operators : pc[o] \in Running /\ pc[other] \in Running => o = other

(* The types without those of the packages in work.                        *)
ReleaseTypes ==
    /\ practice \in Practices
    /\ main \in 1 .. MaxCommits
    /\ head \in [Operators -> Commits] /\ clean \in [Operators -> BOOLEAN]
    /\ pc \in [Operators -> Running \cup Ended]
    /\ revision \in [Operators -> Commits] /\ version \in [Operators -> Versions]
    /\ selected \in [Operators -> Selections \cup {<<>>}]
    /\ todo \in [Operators -> Seq(Range(Packages))]
    /\ images \in [Tags -> Image \cup {NoImage}]

(* The inductive invariant.                                                *)
ReleaseIInv ==
    /\ ReleaseTypes
    /\ LabelledFromMain /\ LabelTellsContent /\ OneCommitPerVersion
    /\ OneRun
    /\ \A o \in Operators : Knows(o)

(* Nothing is published and nobody at work initially.                      *)
LEMMA ReleaseInitIInv == ReleaseInit => ReleaseIInv
<1> SUFFICES ASSUME ReleaseInit PROVE ReleaseIInv
  OBVIOUS
<1> USE ReleaseAssumption DEF ReleaseInit
<1>1. ReleaseTypes
  <2>1. (CHOOSE v \in Versions : TRUE) \in Versions
    OBVIOUS
  <2> QED BY <2>1 DEF ReleaseTypes, Commits, Local, Ended, Tags
<1>2. \A t \in Tags : images[t] = NoImage
  BY DEF Tags
<1>3. LabelledFromMain /\ LabelTellsContent
  BY <1>2 DEF LabelledFromMain, LabelTellsContent, Tags
<1>4. \A v \in Versions : Present(v) = {}
  BY <1>2 DEF Present, Tags
<1>5. OneCommitPerVersion
  BY <1>4 DEF OneCommitPerVersion
<1>6. \A o \in Operators : pc[o] \notin Running
  BY DEF Running
<1>7. \A o \in Operators : Knows(o)
  BY <1>6 DEF Knows, Rounds, KnowsRevision, KnowsTags, KnowsWorktree, GoesWithPartial, Running
<1> QED BY <1>1, <1>3, <1>5, <1>6, <1>7 DEF ReleaseIInv, OneRun
-----------------------------------------------------------------------------
(* A selection is a sequence of different packages.                        *)
LEMMA SelectionSeq ==
    ASSUME NEW s \in Selections
    PROVE  /\ s \in Seq(Range(Packages)) /\ s # <<>> /\ Len(s) \in Nat \ {0}
           /\ \A i, j \in 1..Len(s) : s[i] = s[j] => i = j
<1>1. Len(Packages) \in Nat /\ DOMAIN Packages = 1..Len(Packages)
  BY ReleaseAssumption
<1>2. PICK n \in 1..Len(Packages) : s \in [1..n -> Range(Packages)]
  BY DEF Selections
<1>3. s \in Seq(Range(Packages)) /\ Len(s) = n /\ DOMAIN s = 1..n
  BY <1>1, <1>2
<1>4. \A i, j \in 1..n : i < j => Before(s[i], s[j])
  BY <1>3 DEF Selections
<1>5. \A a, b : Before(a, b) => a # b
  BY <1>1, ReleaseAssumption DEF Before
<1>6. ASSUME NEW i \in 1..n, NEW j \in 1..n, s[i] = s[j] PROVE i = j
  <2>1. CASE i < j
    BY <1>4, <1>5, <1>6, <2>1
  <2>2. CASE j < i
    BY <1>4, <1>5, <1>6, <2>2
  <2> QED BY <1>1, <2>1, <2>2
<1> QED BY <1>1, <1>3, <1>6, EmptySeq

(* Who does not move, and whose tags and worktree nobody touches, knows    *)
(* what it knew.                                                           *)
LEMMA SameKnows ==
    ASSUME ReleaseIInv, NEW o \in Operators,
           practice' = practice, main' \in Nat, main' >= main,
           pc'[o] = pc[o], revision'[o] = revision[o], version'[o] = version[o],
           selected'[o] = selected[o], todo'[o] = todo[o],
           images' = images \/ ("exclusive" \in practice => pc[o] \notin Running),
           \/ head'[o] = head[o] /\ clean'[o] = clean[o]
           \/ "stable" \in practice => pc[o] \notin Running
    PROVE  Knows(o)'
<1>1. Knows(o) /\ main \in Nat
  BY ReleaseAssumption DEF ReleaseIInv, ReleaseTypes
<1>2. Passed(o)' = Passed(o)
  BY DEF Passed
<1>3. Rounds(o)'
  BY <1>1, <1>2 DEF Knows, Rounds
<1>4. KnowsRevision(o)'
  BY <1>1 DEF Knows, KnowsRevision
<1>5. KnowsTags(o)'
  BY <1>1, <1>2 DEF Knows, KnowsTags, Running
<1>6. KnowsWorktree(o)'
  BY <1>1 DEF Knows, KnowsWorktree
<1>7. GoesWithPartial(o)'
  BY <1>1 DEF Knows, GoesWithPartial, Present, Commit
<1> QED BY <1>3, <1>4, <1>5, <1>6, <1>7 DEF Knows

(* A step of one run that pushes nothing, in terms of that run.            *)
LEMMA OnlyOne ==
    ASSUME ReleaseIInv, NEW o \in Operators, UNCHANGED <<practice, main, head, clean, images>>,
           ReleaseTypes', OneRun', Knows(o)',
           \A other \in Operators \ {o} :
              /\ pc'[other] = pc[other] /\ revision'[other] = revision[other]
              /\ version'[other] = version[other]
              /\ selected'[other] = selected[other] /\ todo'[other] = todo[other]
    PROVE  ReleaseIInv'
<1>1. \A other \in Operators \ {o} : Knows(other)'
  BY SameKnows, ReleaseAssumption DEF ReleaseIInv, ReleaseTypes
<1>2. LabelledFromMain' /\ LabelTellsContent'
  BY DEF ReleaseIInv, LabelledFromMain, LabelTellsContent
<1>3. OneCommitPerVersion'
  <2>1. OneCommitPerVersion /\ practice' = practice
    BY DEF ReleaseIInv
  <2>2. \A v \in Versions : Present(v)' = Present(v)
    BY DEF Present
  <2>3. \A v, package : Commit(v, package)' = Commit(v, package)
    BY DEF Commit
  <2> HIDE DEF Goto
  <2> QED BY <2>1, <2>2, <2>3 DEF OneCommitPerVersion
<1> QED BY <1>1, <1>2, <1>3 DEF ReleaseIInv

(* A run that has ended knows nothing.                                     *)
LEMMA EndIInv ==
    ASSUME ReleaseIInv, NEW o \in Operators,
           Abort(o) \/ NotCanonical(o), UNCHANGED <<practice, main, head, clean, images>>
    PROVE  ReleaseIInv'
<1> USE DEF ReleaseIInv, ReleaseTypes
<1>1. \E s \in {"failed", "not_canonical"} : pc' = [pc EXCEPT ![o] = s]
  BY DEF Abort, NotCanonical
<1>2. pc'[o] \notin Running /\ pc' \in [Operators -> Running \cup Ended]
  BY <1>1 DEF Running, Ended
<1>3. \/ UNCHANGED <<revision, version, selected, todo>>
      \/ /\ revision' = [revision EXCEPT ![o] = Local]
         /\ version' = [version EXCEPT ![o] = CHOOSE v \in Versions : TRUE]
         /\ selected' = [selected EXCEPT ![o] = <<>>] /\ todo' = [todo EXCEPT ![o] = <<>>]
  BY DEF Abort, NotCanonical
<1>4. ReleaseTypes'
  <2>1. (CHOOSE v \in Versions : TRUE) \in Versions /\ Local \in Commits
    BY ReleaseAssumption DEF Commits, Local
  <2>2. CASE UNCHANGED <<revision, version, selected, todo>>
    BY <1>2, <2>2
  <2>3. CASE /\ revision' = [revision EXCEPT ![o] = Local]
             /\ version' = [version EXCEPT ![o] = CHOOSE v \in Versions : TRUE]
             /\ selected' = [selected EXCEPT ![o] = <<>>] /\ todo' = [todo EXCEPT ![o] = <<>>]
    <3>1. revision' \in [Operators -> Commits]
      BY <2>1, <2>3
    <3>2. version' \in [Operators -> Versions]
      <4> DEFINE any == CHOOSE v \in Versions : TRUE
      <4>1. version' = [version EXCEPT ![o] = any] /\ any \in Versions
        BY <2>1, <2>3
      <4> HIDE DEF any
      <4> QED BY <4>1
    <3>3. selected' \in [Operators -> Selections \cup {<<>>}]
      BY <2>3
    <3>4. todo' \in [Operators -> Seq(Range(Packages))]
      BY <2>3
    <3> QED BY <1>2, <3>1, <3>2, <3>3, <3>4
  <2> QED BY <1>3, <2>2, <2>3
<1>5. OneRun'
  BY <1>1, <1>2 DEF OneRun
<1>6. Knows(o)'
  <2>1. Rounds(o)'
    <3>1. CASE UNCHANGED <<revision, version, selected, todo>>
      <4>1. Rounds(o) /\ Passed(o)' = Passed(o)
        BY <3>1 DEF Knows, Passed
      <4> QED BY <1>2, <3>1, <4>1 DEF Rounds, Running
    <3>2. CASE selected'[o] = <<>> /\ todo'[o] = <<>>
      BY <1>2, <1>4, <3>2 DEF Rounds, Running
    <3> QED BY <1>3, <3>1, <3>2
  <2>2. KnowsRevision(o)' /\ KnowsTags(o)' /\ KnowsWorktree(o)' /\ GoesWithPartial(o)'
    BY <1>2 DEF KnowsRevision, KnowsTags, KnowsWorktree, GoesWithPartial, Running
  <2> QED BY <2>1, <2>2 DEF Knows
<1> QED BY <1>1, <1>3, <1>4, <1>5, <1>6, OnlyOne

(* A run begins from a clean worktree, alone if that is agreed on.         *)
LEMMA BeginIInv ==
    ASSUME ReleaseIInv, NEW o \in Operators, Begin(o) PROVE ReleaseIInv'
<1> USE DEF ReleaseIInv, ReleaseTypes
<1>1. PICK v \in Versions, packages \in Selections :
         /\ "disciplined" \in practice => GoesWith(o, v, Range(packages))
         /\ version' = [version EXCEPT ![o] = v]
         /\ selected' = [selected EXCEPT ![o] = packages]
  BY DEF Begin
<1>2. /\ pc[o] \in Ended /\ clean[o]
      /\ "exclusive" \in practice => \A other \in Operators : pc[other] \in Ended
      /\ revision' = [revision EXCEPT ![o] = head[o]] /\ todo' = [todo EXCEPT ![o] = <<>>]
      /\ pc' = [pc EXCEPT ![o] = "canonical"]
      /\ UNCHANGED <<practice, main, head, clean, images>>
  BY DEF Begin
<1>3. ReleaseTypes'
  BY <1>1, <1>2 DEF Running
<1>4. OneRun'
  BY <1>2 DEF OneRun, Running, Ended
<1>5. /\ pc'[o] = "canonical" /\ version'[o] = v /\ selected'[o] = packages
      /\ todo'[o] = <<>> /\ revision'[o] = head[o]
  BY <1>1, <1>2
<1>6. Rounds(o)'
  BY <1>3, <1>5, SelectionSeq DEF Rounds
<1>7. GoesWithPartial(o)'
  BY <1>1, <1>2, <1>5 DEF GoesWithPartial, GoesWith, Present, Commit
<1>8. KnowsRevision(o)' /\ KnowsTags(o)' /\ KnowsWorktree(o)'
  BY <1>2, <1>5 DEF KnowsRevision, KnowsTags, KnowsWorktree
<1>9. Knows(o)'
  BY <1>6, <1>7, <1>8 DEF Knows
<1> QED BY <1>1, <1>2, <1>3, <1>4, <1>9, OnlyOne

(* The revision is that of main, which only grows from here.               *)
LEMMA CanonicalIInv ==
    ASSUME ReleaseIInv, NEW o \in Operators, VerifyCanonical(o) PROVE ReleaseIInv'
<1> USE DEF ReleaseIInv, ReleaseTypes
<1>1. /\ pc[o] = "canonical" /\ revision[o] = main
      /\ pc' = [pc EXCEPT ![o] = "access"] /\ todo' = [todo EXCEPT ![o] = selected[o]]
      /\ UNCHANGED <<practice, main, head, clean, revision, version, selected, images>>
  BY DEF VerifyCanonical
<1>2. pc[o] \in Running /\ Knows(o)
  BY <1>1 DEF Running
<1>3. selected[o] \in Selections
  BY <1>2 DEF Knows, Rounds
<1>4. selected[o] \in Seq(Range(Packages)) /\ selected[o] # <<>> /\ Len(selected[o]) \in Nat
  BY <1>3, SelectionSeq
<1>5. pc'[o] = "access" /\ todo'[o] = selected[o] /\ Passed(o)' = 0
  BY <1>1, <1>4 DEF Passed
<1>6. ReleaseTypes'
  BY <1>1, <1>4 DEF Running
<1>7. OneRun'
  BY <1>1, <1>2 DEF OneRun, Running
<1>8. Rounds(o)'
  BY <1>1, <1>3, <1>4, <1>5 DEF Rounds
<1>9. KnowsRevision(o)' /\ KnowsTags(o)' /\ KnowsWorktree(o)' /\ GoesWithPartial(o)'
  <2>1. KnowsRevision(o)'
    BY <1>1, <1>5, ReleaseAssumption DEF KnowsRevision
  <2>2. KnowsTags(o)'
    BY <1>5 DEF KnowsTags
  <2>3. KnowsWorktree(o)'
    BY <1>1, <1>2 DEF Knows, KnowsWorktree
  <2>4. GoesWithPartial(o)'
    BY <1>1, <1>2 DEF Knows, GoesWithPartial, Present, Commit
  <2> QED BY <2>1, <2>2, <2>3, <2>4
<1>10. Knows(o)'
  BY <1>8, <1>9 DEF Knows
<1> QED BY <1>1, <1>6, <1>7, <1>10, OnlyOne
-----------------------------------------------------------------------------
(* What moving on to the next package does to a run's rounds.              *)
LEMMA NextRounds ==
    ASSUME ReleaseIInv, NEW o \in Operators, pc[o] \in {"access", "absent", "push"},
           NEW next \in {"absent", "push", "published"}, NextPackage(o, next)
    PROVE  /\ pc' \in [Operators -> Running \cup Ended]
           /\ todo' \in [Operators -> Seq(Range(Packages))]
           /\ Rounds(o)'
           /\ \A other \in Operators \ {o} : pc'[other] = pc[other] /\ todo'[other] = todo[other]
           /\ \/ /\ pc'[o] = pc[o] /\ Passed(o)' = Passed(o) + 1
                 /\ Len(todo'[o]) = Len(todo[o]) - 1
                 /\ \A i \in 1..Len(todo'[o]) : todo'[o][i] = todo[o][i + 1]
              \/ /\ pc'[o] = next /\ Passed(o) + 1 = Len(selected[o])
                 /\ next # "published" => todo'[o] = selected[o] /\ Passed(o)' = 0
                 /\ next = "published" => todo'[o] = <<>>
<1> USE DEF ReleaseIInv, ReleaseTypes
<1> DEFINE rest == Tail(todo[o])
<1>1. Rounds(o) /\ todo[o] # <<>> /\ todo[o] \in Seq(Range(Packages)) /\ selected[o] # <<>>
  BY DEF Knows, Rounds, Running
<1>2. /\ Len(todo[o]) \in Nat \ {0} /\ rest \in Seq(Range(Packages))
      /\ Len(rest) = Len(todo[o]) - 1 /\ Len(rest) \in Nat
      /\ \A i \in 1..Len(rest) : rest[i] = todo[o][i + 1]
  BY <1>1, EmptySeq, HeadTailProperties
<1>3. /\ selected[o] \in Selections /\ selected[o] \in Seq(Range(Packages))
      /\ Len(selected[o]) \in Nat
  BY <1>1, SelectionSeq DEF Rounds
<1>4. selected' = selected /\ Len(todo[o]) <= Len(selected[o])
  BY <1>1 DEF NextPackage, Rounds
<1>5. CASE rest # <<>>
  <2>1. pc' = pc /\ todo' = [todo EXCEPT ![o] = rest]
    BY <1>5 DEF NextPackage
  <2>2. pc'[o] = pc[o] /\ todo'[o] = rest
    BY <2>1
  <2> HIDE DEF rest
  <2>3. Passed(o)' = Passed(o) + 1 /\ Passed(o) \in Nat
    <3>1. Len(todo'[o]) = Len(todo[o]) - 1 /\ selected'[o] = selected[o]
      BY <1>2, <1>4, <2>2
    <3> QED BY <1>2, <1>3, <1>4, <3>1 DEF Passed
  <2>4. ASSUME NEW i \in 1..Len(rest) PROVE rest[i] = selected[o][Passed(o) + 1 + i]
    <3>1. i + 1 \in 1..Len(todo[o]) /\ rest[i] = todo[o][i + 1]
      BY <1>2
    <3>2. todo[o][i + 1] = selected[o][Passed(o) + (i + 1)]
      BY <1>1, <3>1 DEF Rounds
    <3>3. Passed(o) + (i + 1) = Passed(o) + 1 + i
      BY <2>3
    <3> QED BY <3>1, <3>2, <3>3
  <2>5. (\A i \in 1..Len(todo[o]) : todo[o][i] = selected[o][Passed(o) + i])'
    BY <1>4, <2>2, <2>3, <2>4
  <2>6. Len(rest) <= Len(selected[o])
    BY <1>2, <1>3, <1>4
  <2>7. Rounds(o)'
    BY <1>1, <1>2, <1>3, <1>4, <1>5, <2>2, <2>5, <2>6 DEF Rounds
  <2>8. todo' \in [Operators -> Seq(Range(Packages))]
    BY <1>2, <2>1
  <2> QED BY <1>2, <2>1, <2>2, <2>3, <2>7, <2>8
<1>6. CASE rest = <<>>
  <2>1. /\ pc' = [pc EXCEPT ![o] = next]
        /\ todo' = [todo EXCEPT ![o] = IF next # "published" THEN selected[o] ELSE <<>>]
    BY <1>6 DEF NextPackage
  <2>2. Len(todo[o]) = 1
    <3>1. Len(rest) = 0
      BY <1>6, EmptySeq
    <3> HIDE DEF rest
    <3> QED BY <1>2, <3>1
  <2>3. Passed(o) + 1 = Len(selected[o])
    BY <1>3, <2>2 DEF Passed
  <2>4. /\ pc'[o] = next
        /\ next # "published" => todo'[o] = selected[o]
        /\ next = "published" => todo'[o] = <<>>
    BY <2>1
  <2>5. next # "published" => Passed(o)' = 0
    BY <1>3, <1>4, <2>4 DEF Passed
  <2>6. Rounds(o)'
    <3>1. CASE next # "published"
      BY <1>1, <1>3, <1>4, <2>4, <2>5, <3>1 DEF Rounds
    <3>2. CASE next = "published"
      <4>1. /\ todo'[o] = <<>> /\ <<>> \in Seq(Range(Packages)) /\ Len(<<>>) = 0
            /\ pc'[o] = "published" /\ selected'[o] = selected[o]
        BY <1>4, <2>4, <3>2, EmptySeq
      <4>2. Len(todo'[o]) = 0
        BY <4>1
      <4> QED BY <1>1, <1>3, <4>1, <4>2 DEF Rounds
    <3> QED BY <3>1, <3>2
  <2>7. pc' \in [Operators -> Running \cup Ended]
    BY <2>1 DEF Running, Ended
  <2>8. todo' \in [Operators -> Seq(Range(Packages))]
    BY <1>3, <2>1
  <2> QED BY <2>1, <2>3, <2>4, <2>5, <2>6, <2>7, <2>8
<1> QED BY <1>5, <1>6

(* What a run that is checking or pushing has before it, and that it is    *)
(* the next one after those behind it.                                     *)
LEMMA NextOne ==
    ASSUME ReleaseIInv, NEW o \in Operators, pc[o] \in {"access", "absent", "push"}
    PROVE  /\ selected[o] \in Selections /\ Passed(o) \in Nat
           /\ Len(todo[o]) \in Nat \ {0} /\ Passed(o) + Len(todo[o]) = Len(selected[o])
           /\ Head(todo[o]) = todo[o][1] /\ todo[o][1] = selected[o][Passed(o) + 1]
           /\ <<version[o], Head(todo[o])>> \in Tags
<1> USE DEF ReleaseIInv, ReleaseTypes
<1>1. Rounds(o) /\ todo[o] # <<>> /\ todo[o] \in Seq(Range(Packages)) /\ selected[o] # <<>>
  BY DEF Knows, Rounds, Running
<1>2. selected[o] \in Selections /\ Len(selected[o]) \in Nat
  BY <1>1, SelectionSeq DEF Rounds
<1>3. Len(todo[o]) \in Nat \ {0}
  BY <1>1, EmptySeq
<1>4. Passed(o) \in Nat /\ Passed(o) + Len(todo[o]) = Len(selected[o])
  BY <1>1, <1>2, <1>3 DEF Passed, Rounds
<1>5. Head(todo[o]) = todo[o][1] /\ todo[o][1] = selected[o][Passed(o) + 1]
  BY <1>1, <1>3 DEF Rounds
<1>6. <<version[o], Head(todo[o])>> \in Tags
  BY <1>1, HeadTailProperties DEF Tags
<1> QED BY <1>2, <1>3, <1>4, <1>5, <1>6

(* Checking access finds out nothing that is kept.                         *)
LEMMA AccessIInv ==
    ASSUME ReleaseIInv, NEW o \in Operators, VerifyAccess(o) PROVE ReleaseIInv'
<1> USE DEF ReleaseIInv, ReleaseTypes
<1>1. pc[o] = "access" /\ NextPackage(o, "absent") /\ images' = images
  BY DEF VerifyAccess
<1>2. UNCHANGED <<practice, main, head, clean, revision, version, selected>>
  BY <1>1 DEF NextPackage
<1>3. /\ pc' \in [Operators -> Running \cup Ended] /\ todo' \in [Operators -> Seq(Range(Packages))]
      /\ Rounds(o)'
      /\ \A other \in Operators \ {o} : pc'[other] = pc[other] /\ todo'[other] = todo[other]
      /\ pc'[o] \in {"access", "absent"} /\ (pc'[o] = "absent" => Passed(o)' = 0)
  BY <1>1, NextRounds
<1>4. pc[o] \in Running /\ Knows(o)
  BY <1>1 DEF Running
<1>5. ReleaseTypes'
  BY <1>1, <1>2, <1>3
<1>6. OneRun'
  BY <1>2, <1>3, <1>4 DEF OneRun
<1>7. KnowsRevision(o)'
  BY <1>1, <1>2, <1>4 DEF Knows, KnowsRevision
<1>8. KnowsTags(o)'
  BY <1>3 DEF KnowsTags
<1>9. KnowsWorktree(o)' /\ GoesWithPartial(o)'
  BY <1>1, <1>2, <1>4 DEF Knows, KnowsWorktree, GoesWithPartial, Present, Commit
<1>10. Knows(o)'
  BY <1>3, <1>7, <1>8, <1>9 DEF Knows
<1> QED BY <1>1, <1>2, <1>3, <1>5, <1>6, <1>10, OnlyOne

(* Another tag is found to be absent, or all of them are.                  *)
LEMMA AbsentIInv ==
    ASSUME ReleaseIInv, NEW o \in Operators, VerifyAbsent(o) PROVE ReleaseIInv'
<1> USE DEF ReleaseIInv, ReleaseTypes
<1>1. /\ pc[o] = "absent" /\ images[<<version[o], Head(todo[o])>>] = NoImage
      /\ NextPackage(o, "push") /\ images' = images
  BY DEF VerifyAbsent
<1>2. UNCHANGED <<practice, main, head, clean, revision, version, selected>>
  BY <1>1 DEF NextPackage
<1>3. /\ pc' \in [Operators -> Running \cup Ended] /\ todo' \in [Operators -> Seq(Range(Packages))]
      /\ Rounds(o)'
      /\ \A other \in Operators \ {o} : pc'[other] = pc[other] /\ todo'[other] = todo[other]
      /\ \/ pc'[o] = "absent" /\ Passed(o)' = Passed(o) + 1
         \/ pc'[o] = "push" /\ Passed(o) + 1 = Len(selected[o]) /\ todo'[o] = selected[o]
  BY <1>1, NextRounds
<1>4. pc[o] \in Running /\ Knows(o)
  BY <1>1 DEF Running
<1>5. ReleaseTypes'
  BY <1>1, <1>2, <1>3
<1>6. OneRun'
  BY <1>2, <1>3, <1>4 DEF OneRun
<1>7. KnowsRevision(o)'
  BY <1>1, <1>2, <1>4 DEF Knows, KnowsRevision
<1>8. ASSUME "exclusive" \in practice, NEW i \in 1..(Passed(o) + 1)
      PROVE  images[<<version[o], selected[o][i]>>] = NoImage
  <2>1. Passed(o) \in Nat /\ Head(todo[o]) = selected[o][Passed(o) + 1]
    BY <1>1, NextOne
  <2>2. CASE i = Passed(o) + 1
    BY <1>1, <2>1, <2>2
  <2>3. CASE i # Passed(o) + 1
    <3>1. i \in 1..Passed(o)
      BY <2>1, <2>3
    <3> QED BY <1>1, <1>4, <1>8, <3>1 DEF Knows, KnowsTags
  <2> QED BY <2>2, <2>3
<1>9. KnowsTags(o)'
  <2>1. version'[o] = version[o] /\ selected'[o] = selected[o] /\ practice' = practice
    BY <1>2
  <2>2. CASE pc'[o] = "absent" /\ Passed(o)' = Passed(o) + 1
    BY <1>1, <1>8, <2>1, <2>2 DEF KnowsTags
  <2>3. CASE pc'[o] = "push" /\ Passed(o) + 1 = Len(selected[o]) /\ todo'[o] = selected[o]
    BY <1>1, <1>8, <2>1, <2>3 DEF KnowsTags
  <2> QED BY <1>3, <2>2, <2>3
<1>10. KnowsWorktree(o)' /\ GoesWithPartial(o)'
  BY <1>1, <1>2, <1>4 DEF Knows, KnowsWorktree, GoesWithPartial, Present, Commit
<1>11. Knows(o)'
  BY <1>3, <1>7, <1>9, <1>10 DEF Knows
<1> QED BY <1>1, <1>2, <1>3, <1>5, <1>6, <1>11, OnlyOne
-----------------------------------------------------------------------------
(* What a push puts into the registry, and in the place of what.           *)
LEMMA Pushed ==
    ASSUME ReleaseIInv, NEW o \in Operators, Push(o)
    PROVE  LET t == <<version[o], Head(todo[o])>> IN
           /\ t \in Tags /\ ("exclusive" \in practice => images[t] = NoImage)
           /\ images' \in [Tags -> Image \cup {NoImage}]
           /\ images'[t] \in Image /\ images'[t].label = revision[o]
           /\ images'[t].content = head[o] /\ images'[t].edited = ~clean[o]
           /\ \A other \in Tags \ {t} : images'[other] = images[other]
<1> USE DEF ReleaseIInv, ReleaseTypes
<1> DEFINE t == <<version[o], Head(todo[o])>>
           new == [label |-> revision[o], content |-> head[o], edited |-> ~clean[o]]
<1>1. pc[o] = "push" /\ images' = [images EXCEPT ![t] = new]
  BY DEF Push
<1>2. /\ Len(todo[o]) \in Nat \ {0} /\ Head(todo[o]) = todo[o][1] /\ t \in Tags
  BY <1>1, NextOne
<1>3. "exclusive" \in practice => images[t] = NoImage
  BY <1>1, <1>2 DEF Knows, KnowsTags
<1>4. /\ new \in Image /\ new.label = revision[o] /\ new.content = head[o]
      /\ new.edited = ~clean[o]
  BY DEF Image
<1> HIDE DEF t, new
<1>5. images'[t] = new /\ \A other \in Tags \ {t} : images'[other] = images[other]
  BY <1>1, <1>2
<1>6. images' \in [Tags -> Image \cup {NoImage}]
  BY <1>1, <1>4
<1>7. /\ images'[t] \in Image /\ images'[t].label = revision[o]
      /\ images'[t].content = head[o] /\ images'[t].edited = ~clean[o]
  BY <1>4, <1>5
<1> QED BY <1>2, <1>3, <1>5, <1>6, <1>7 DEF t

(* A push keeps what the registry promises.                                *)
LEMMA PushKeepsRegistry ==
    ASSUME ReleaseIInv, NEW o \in Operators, Push(o)
    PROVE  /\ LabelledFromMain' /\ LabelTellsContent' /\ OneCommitPerVersion'
           /\ {"exclusive", "disciplined"} \subseteq practice =>
                 \A package \in Present(version[o])' : Commit(version[o], package)' = revision[o]
<1> USE DEF ReleaseIInv, ReleaseTypes
<1> DEFINE t == <<version[o], Head(todo[o])>>
<1>1. /\ t \in Tags /\ images'[t].label = revision[o]
      /\ images'[t].content = head[o] /\ images'[t].edited = ~clean[o]
      /\ \A other \in Tags \ {t} : images'[other] = images[other]
  BY Pushed
<1>2. pc[o] = "push" /\ UNCHANGED <<practice, main, head, clean, revision, version, selected>>
  BY DEF Push, NextPackage
<1>3. pc[o] \in Running /\ Knows(o)
  BY <1>2 DEF Running
<1>4. LabelledFromMain'
  <2>1. revision[o] \in 1..main
    BY <1>2, <1>3 DEF Knows, KnowsRevision
  <2> HIDE DEF t
  <2> QED BY <1>1, <1>2, <2>1 DEF LabelledFromMain, Tags
<1>5. LabelTellsContent'
  <2>1. "stable" \in practice => head[o] = revision[o] /\ clean[o]
    BY <1>3 DEF Knows, KnowsWorktree
  <2> HIDE DEF t
  <2> QED BY <1>1, <1>2, <2>1 DEF LabelTellsContent, Tags
<1>6. ASSUME {"exclusive", "disciplined"} \subseteq practice,
             NEW package \in Present(version[o])'
      PROVE  Commit(version[o], package)' = revision[o]
  <2>1. version[o] \in Versions /\ package \in Range(Packages) /\ <<version[o], package>> \in Tags
    BY DEF Present, Tags
  <2>2. CASE <<version[o], package>> = t
    BY <1>1, <1>2, <2>2 DEF Commit
  <2>3. CASE <<version[o], package>> # t
    <3>1. images'[<<version[o], package>>] = images[<<version[o], package>>]
      BY <1>1, <2>1, <2>3
    <3>2. package \in Present(version[o])
      BY <1>2, <2>1, <3>1 DEF Present
    <3>3. Commit(version[o], package) = revision[o]
      BY <1>3, <1>6, <3>2 DEF Knows, GoesWithPartial
    <3> QED BY <1>2, <3>1, <3>3 DEF Commit
  <2> QED BY <2>2, <2>3
<1>7. OneCommitPerVersion'
  <2> SUFFICES ASSUME {"exclusive", "disciplined"} \subseteq practice, NEW v \in Versions,
                      NEW a \in Present(v)', NEW b \in Present(v)'
               PROVE  Commit(v, a)' = Commit(v, b)'
    BY <1>2 DEF OneCommitPerVersion
  <2>1. CASE v = version[o]
    <3>1. v = version'[o]
      BY <1>2, <2>1
    <3> QED BY <1>6, <3>1 DEF Present, Commit
  <2>2. CASE v # version[o]
    <3>1. \A package \in Range(Packages) : images'[<<v, package>>] = images[<<v, package>>]
      BY <1>1, <2>2 DEF Tags
    <3>2. a \in Present(v) /\ b \in Present(v)
      BY <3>1 DEF Present
    <3>3. Commit(v, a) = Commit(v, b)
      BY <3>2 DEF OneCommitPerVersion
    <3>4. Commit(v, a)' = Commit(v, a) /\ Commit(v, b)' = Commit(v, b)
      BY <3>1, <3>2 DEF Commit, Present
    <3> QED BY <3>3, <3>4
  <2> QED BY <2>1, <2>2
<1> QED BY <1>4, <1>5, <1>6, <1>7

(* A push takes no absent tag from the rest of its run, or another run     *)
(* that counts on it.                                                      *)
LEMMA PushIInv ==
    ASSUME ReleaseIInv, NEW o \in Operators, Push(o) PROVE ReleaseIInv'
<1> USE DEF ReleaseIInv, ReleaseTypes
<1> DEFINE t == <<version[o], Head(todo[o])>>
<1>1. pc[o] = "push" /\ NextPackage(o, "published")
  BY DEF Push
<1>2. UNCHANGED <<practice, main, head, clean, revision, version, selected>>
  BY <1>1 DEF NextPackage
<1>3. /\ pc' \in [Operators -> Running \cup Ended] /\ todo' \in [Operators -> Seq(Range(Packages))]
      /\ Rounds(o)'
      /\ \A other \in Operators \ {o} : pc'[other] = pc[other] /\ todo'[other] = todo[other]
      /\ \/ /\ pc'[o] = "push" /\ Len(todo'[o]) = Len(todo[o]) - 1
            /\ \A i \in 1..Len(todo'[o]) : todo'[o][i] = todo[o][i + 1]
         \/ pc'[o] = "published"
  BY <1>1, NextRounds
<1>4. pc[o] \in Running /\ Knows(o) /\ version[o] \in Versions
  BY <1>1 DEF Running
<1>5. /\ images' \in [Tags -> Image \cup {NoImage}]
      /\ \A other \in Tags \ {t} : images'[other] = images[other]
  BY Pushed
<1>6. ReleaseTypes'
  BY <1>2, <1>3, <1>5
<1>7. OneRun'
  BY <1>2, <1>3, <1>4 DEF OneRun
<1>8. KnowsRevision(o)'
  BY <1>1, <1>2, <1>4 DEF Knows, KnowsRevision
<1>9. KnowsTags(o)'
  <2> SUFFICES ASSUME "exclusive" \in practice, pc'[o] = "push", NEW i \in 1..Len(todo'[o])
               PROVE  images'[<<version[o], todo'[o][i]>>] = NoImage
    BY <1>2, <1>3 DEF KnowsTags
  <2>1. /\ Len(todo[o]) \in Nat \ {0} /\ Head(todo[o]) = todo[o][1]
        /\ selected[o] \in Selections /\ Passed(o) \in Nat
        /\ Passed(o) + Len(todo[o]) = Len(selected[o])
        /\ todo[o][1] = selected[o][Passed(o) + 1]
    BY <1>1, NextOne
  <2>2. todo'[o][i] = todo[o][i + 1] /\ i + 1 \in 1..Len(todo[o]) /\ i \in Nat \ {0}
    BY <1>3, <2>1
  <2>3. todo[o][i + 1] = selected[o][Passed(o) + (i + 1)]
    BY <1>4, <2>2 DEF Knows, Rounds
  <2>4. /\ Passed(o) + (i + 1) \in 1..Len(selected[o]) /\ Passed(o) + 1 \in 1..Len(selected[o])
        /\ Passed(o) + (i + 1) # Passed(o) + 1
    BY <2>1, <2>2
  <2>5. todo[o][i + 1] # Head(todo[o])
    BY <2>1, <2>3, <2>4, SelectionSeq
  <2>6. images[<<version[o], todo[o][i + 1]>>] = NoImage
    BY <1>1, <1>4, <2>2 DEF Knows, KnowsTags
  <2>7. todo[o][i + 1] \in Range(Packages)
    BY <2>2
  <2> QED BY <1>4, <1>5, <2>2, <2>5, <2>6, <2>7 DEF Tags
<1>10. KnowsWorktree(o)'
  BY <1>2, <1>4 DEF Knows, KnowsWorktree
<1>11. GoesWithPartial(o)'
  BY <1>2, PushKeepsRegistry DEF GoesWithPartial
<1>12. Knows(o)'
  BY <1>3, <1>8, <1>9, <1>10, <1>11 DEF Knows
<1>13. ASSUME NEW other \in Operators \ {o} PROVE Knows(other)'
  <2>1. "exclusive" \in practice => pc[other] \notin Running
    BY <1>4 DEF OneRun
  <2> QED BY <1>2, <1>3, <2>1, SameKnows, ReleaseAssumption
<1> QED BY <1>6, <1>7, <1>12, <1>13, PushKeepsRegistry
-----------------------------------------------------------------------------
(* The world around the runs: main grows, and a worktree that runs are to  *)
(* leave alone is only touched between them.                               *)
LEMMA WorldIInv ==
    ASSUME ReleaseIInv,
           MainAdvances \/ (\E o \in Operators : Touch(o)) \/ UNCHANGED releaseVars
    PROVE  ReleaseIInv'
<1> USE DEF ReleaseIInv, ReleaseTypes
<1>1. UNCHANGED <<practice, pc, revision, version, selected, todo, images>>
  BY DEF MainAdvances, Touch, releaseVars
<1>2. main \in Nat /\ main' \in 1..MaxCommits /\ main' \in Nat /\ main' >= main
  BY ReleaseAssumption DEF MainAdvances, Touch, releaseVars
<1>3. head' \in [Operators -> Commits] /\ clean' \in [Operators -> BOOLEAN]
  <2>1. CASE MainAdvances \/ UNCHANGED releaseVars
    BY <2>1 DEF MainAdvances, releaseVars
  <2>2. CASE \E o \in Operators : Touch(o)
    <3>1. Local .. main \subseteq Commits
      BY ReleaseAssumption DEF Commits, Local
    <3> QED BY <2>2, <3>1 DEF Touch
  <2> QED BY <2>1, <2>2
<1>4. ASSUME NEW o \in Operators
      PROVE  \/ head'[o] = head[o] /\ clean'[o] = clean[o]
             \/ "stable" \in practice => pc[o] \notin Running
  <2>1. CASE MainAdvances \/ UNCHANGED releaseVars
    BY <2>1 DEF MainAdvances, releaseVars
  <2>2. ASSUME NEW other \in Operators, Touch(other)
        PROVE  \/ head'[o] = head[o] /\ clean'[o] = clean[o]
               \/ "stable" \in practice => pc[o] \notin Running
    <3>1. CASE o = other
      BY <2>2, <3>1 DEF Touch, Running, Ended
    <3>2. CASE o # other
      BY <2>2, <3>2 DEF Touch
    <3> QED BY <3>1, <3>2
  <2> QED BY <2>1, <2>2
<1>5. \A o \in Operators : Knows(o)'
  BY <1>1, <1>2, <1>4, SameKnows
<1>6. ReleaseTypes'
  BY <1>1, <1>2, <1>3
<1>7. LabelledFromMain'
  <2>1. 1..main \subseteq 1..main'
    BY <1>2
  <2> QED BY <1>1, <2>1 DEF LabelledFromMain
<1>8. LabelTellsContent' /\ OneCommitPerVersion' /\ OneRun'
  BY <1>1 DEF LabelTellsContent, OneCommitPerVersion, OneRun, Present, Commit
<1> QED BY <1>5, <1>6, <1>7, <1>8

(* Every step keeps it.                                                    *)
LEMMA ReleasePreserved ==
    ASSUME ReleaseIInv, [ReleaseNext]_releaseVars PROVE ReleaseIInv'
<1>1. ASSUME NEW o \in Operators,
             \/ Begin(o) \/ VerifyCanonical(o) \/ NotCanonical(o) \/ VerifyAccess(o)
             \/ VerifyAbsent(o) \/ TagExists(o) \/ Push(o) \/ Fails(o)
      PROVE  ReleaseIInv'
  <2>1. CASE NotCanonical(o) \/ TagExists(o) \/ Fails(o)
    <3>1. Abort(o) \/ NotCanonical(o)
      BY <2>1 DEF TagExists, Fails
    <3>2. UNCHANGED <<practice, main, head, clean, images>>
      BY <2>1 DEF TagExists, Fails, NotCanonical
    <3> QED BY <3>1, <3>2, EndIInv
  <2> QED
    BY <1>1, <2>1, BeginIInv, CanonicalIInv, AccessIInv, AbsentIInv, PushIInv
<1> QED BY <1>1, WorldIInv DEF ReleaseNext

(* Releases keep the inductive invariant.                                  *)
THEOREM ReleaseInvariance == ReleaseSpec => []ReleaseIInv
<1>1. ReleaseInit => ReleaseIInv
  BY ReleaseInitIInv
<1>2. ReleaseIInv /\ [ReleaseNext]_releaseVars => ReleaseIInv'
  BY ReleasePreserved
<1> QED BY <1>1, <1>2, PTL DEF ReleaseSpec

(* The types of all variables, and a round over the packages of a run is   *)
(* always about what it has not reached yet, in order.                     *)
THEOREM ReleaseTyping == ReleaseSpec => []ReleaseTypeOK
<1>1. ReleaseIInv => ReleaseTypeOK
  <2> SUFFICES ASSUME ReleaseIInv PROVE ReleaseTypeOK
    OBVIOUS
  <2> USE DEF ReleaseIInv, ReleaseTypes
  <2>1. ASSUME NEW o \in Operators
        PROVE  /\ Passed(o) >= 0
               /\ todo[o] = SubSeq(selected[o], Passed(o) + 1, Len(selected[o]))
    <3>1. Rounds(o)
      BY DEF Knows
    <3>2. selected[o] \in Seq(Range(Packages))
      BY <3>1, SelectionSeq DEF Rounds
    <3>3. /\ Len(selected[o]) \in Nat /\ Len(todo[o]) \in Nat /\ Passed(o) \in Nat
          /\ Passed(o) + Len(todo[o]) = Len(selected[o])
      BY <3>1, <3>2 DEF Rounds, Passed
    <3> DEFINE m == Passed(o) + 1
               n == Len(selected[o])
    <3>4. m \in Int /\ n \in Int /\ \A i \in m..n : selected[o][i] \in Range(Packages)
      BY <3>2, <3>3
    <3>5. /\ SubSeq(selected[o], m, n) \in Seq(Range(Packages))
          /\ Len(SubSeq(selected[o], m, n)) = IF m <= n THEN n - m + 1 ELSE 0
          /\ \A i \in 1..(n - m + 1) : SubSeq(selected[o], m, n)[i] = selected[o][m + i - 1]
      BY <3>4, SubSeqProperties
    <3>6. Len(SubSeq(selected[o], m, n)) = Len(todo[o])
      BY <3>3, <3>5
    <3>7. \A i \in 1..Len(todo[o]) : todo[o][i] = SubSeq(selected[o], m, n)[i]
      <4> TAKE i \in 1..Len(todo[o])
      <4>1. i \in 1..(n - m + 1) /\ m + i - 1 = Passed(o) + i
        BY <3>3
      <4> QED BY <3>1, <3>5, <4>1 DEF Rounds
    <3>8. todo[o] \in Seq(Range(Packages))
      BY <3>1 DEF Rounds
    <3>9. todo[o] = SubSeq(selected[o], m, n)
      BY <3>5, <3>6, <3>7, <3>8, SeqEqual
    <3> QED BY <3>3, <3>9
  <2> QED BY <2>1 DEF ReleaseTypeOK, Passed, Tags
<1> QED BY <1>1, ReleaseInvariance, PTL

(* As long as one operator releases at a time, no run replaces a published *)
(* image, whatever it selects and wherever it stops (the absence check).   *)
THEOREM TagsStay == ReleaseSpec => TagsImmutable
<1> DEFINE Stay == \A t \in Versions \X Range(Packages) :
                      "exclusive" \in practice /\ images[t] # NoImage => images'[t] = images[t]
<1>1. ReleaseIInv /\ [ReleaseNext]_releaseVars => [Stay]_releaseVars
  <2> SUFFICES ASSUME ReleaseIInv, [ReleaseNext]_releaseVars PROVE Stay
    OBVIOUS
  <2>1. CASE \E o \in Operators : Push(o)
    BY <2>1, Pushed DEF Tags
  <2>2. CASE ~\E o \in Operators : Push(o)
    <3>1. images' = images
      BY <2>2 DEF ReleaseNext, releaseVars, Begin, VerifyCanonical, NotCanonical, VerifyAccess,
                  VerifyAbsent, TagExists, Fails, Touch, MainAdvances
    <3> QED BY <3>1
  <2> QED BY <2>1, <2>2
<1> QED BY <1>1, ReleaseInvariance, PTL DEF ReleaseSpec, TagsImmutable

(* Whoever may interfere, a published image is labelled with a commit that *)
(* was the tip of main (verify_canonical_source).                          *)
THEOREM LabelsAreFromMain == ReleaseSpec => []LabelledFromMain
<1>1. ReleaseIInv => LabelledFromMain
  BY DEF ReleaseIInv
<1> QED BY <1>1, ReleaseInvariance, PTL

(* Where worktrees are left alone, the label tells what is in the image    *)
(* (the clean worktree a run begins with).                                 *)
THEOREM LabelsAreTrue == ReleaseSpec => []LabelTellsContent
<1>1. ReleaseIInv => LabelTellsContent
  BY DEF ReleaseIInv
<1> QED BY <1>1, ReleaseInvariance, PTL

(* Once a run alone pushes, no tag before it is taken (the absence check   *)
(* over all packages before the first push).                               *)
THEOREM NoPartialForeseen == ReleaseSpec => []NoPredictablePartial
<1>1. ReleaseIInv => NoPredictablePartial
  <2> SUFFICES ASSUME ReleaseIInv, NEW o \in Operators, "exclusive" \in practice, pc[o] = "push",
                      NEW i \in DOMAIN todo[o]
               PROVE  images[<<version[o], todo[o][i]>>] = NoImage
    BY DEF NoPredictablePartial
  <2>1. Knows(o) /\ todo[o] \in Seq(Range(Packages))
    BY DEF ReleaseIInv, Knows, Rounds
  <2>2. i \in 1..Len(todo[o])
    BY <2>1
  <2> QED BY <2>1, <2>2 DEF Knows, KnowsTags
<1> QED BY <1>1, ReleaseInvariance, PTL

(* A version is of one commit where partial releases are completed by the  *)
(* README's rule (deploy.sh for what is missing, from the same commit).    *)
THEOREM VersionsAreOfOneCommit == ReleaseSpec => []OneCommitPerVersion
<1>1. ReleaseIInv => OneCommitPerVersion
  BY DEF ReleaseIInv
<1> QED BY <1>1, ReleaseInvariance, PTL
=============================================================================
