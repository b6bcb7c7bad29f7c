-------------------------- MODULE SourceSyncProofs --------------------------
(***************************************************************************)
(* resolveOperandImageAt pins only what was built from the source commit,  *)
(* for every set of images and every way the registry may answer.  And     *)
(* update and verify of tools/source-update, from what is proved of their  *)
(* two halves: SourceSync implements ImageResolve and SourceUpdate, so     *)
(* their invariants are its own.                                           *)
(***************************************************************************)
EXTENDS SourceSync, SourceUpdateProofs

-----------------------------------------------------------------------------
(* Resolving the operand image: ImageResolve                                *)

\* An index was received, and the loop over it is under way or over.
Looping == rstep \in {"child", "manifest", "config", "found"}

\* Every entry before the current one was skipped or validated.
Validated ==
    Looping => \A k \in 1..(at - 1) :
                  \/ Attestation(Children[k])
                  \/ BuiltFrom(Children[k], source)

\* What is counted was runnable.
Counted ==
    Looping /\ checked > 0 =>
        \E k \in DOMAIN Children : ~Attestation(Children[k])

\* The config asked for is the one that the child's own manifest names.
ConfigNamed ==
    rstep = "config" =>
        /\ Children[at].digest \in Digests
        /\ Content[Children[at].digest].kind = "manifest"
        /\ conf = Content[Children[at].digest].config

\* The loop ends after the last entry.
LoopOver == rstep = "found" => at > Len(Children) /\ checked > 0

\* The inductive invariant: ImageFromSource alone says nothing of an index that
\* is half looked at.
ResolveInv == ResolveTypeOK /\ Validated /\ Counted /\ ConfigNamed /\ LoopOver

\* An index decodes to a sequence of descriptors.
LEMMA IndexTyped ==
  ASSUME NEW d \in Digests, Content[d].kind = "index"
  PROVE  Content[d].children \in Seq(Descriptors)
  <1>1. Content[d] \in Bodies
    BY ContentAssumption
  <1>. QED BY <1>1 DEF Bodies

\* A manifest names its config by a string.
LEMMA ManifestTyped ==
  ASSUME NEW d \in Digests, Content[d].kind = "manifest"
  PROVE  Content[d].config \in STRING
  <1>1. Content[d] \in Bodies
    BY ContentAssumption
  <1>. QED BY <1>1 DEF Bodies

\* A call that returns an error promises nothing.
LEMMA GiveUpInv ==
  ASSUME ResolveInv, GiveUp
  PROVE  ResolveInv'
  BY DEF ResolveInv, ResolveTypeOK, Looping, Validated, Counted, ConfigNamed,
         LoopOver, GiveUp

\* The start of a call, and the requests around a token, look at no entry.
LEMMA RequestInv ==
  ASSUME ResolveInv,
         (\E c \in Commits : Resolve(c)) \/ Unauthorized \/ Token
  PROVE  ResolveInv'
  <1>1. CASE \E c \in Commits : Resolve(c)
    BY <1>1 DEF Resolve, ResolveInv, ResolveTypeOK, Looping, Validated, Counted,
                ConfigNamed, LoopOver, isIndexMediaType, Children
  <1>2. CASE Unauthorized \/ Token
    BY <1>2 DEF Unauthorized, Token, Getting, ResolveInv, ResolveTypeOK, Looping,
                Validated, Counted, ConfigNamed, LoopOver, isIndexMediaType,
                Children
  <1>. QED BY <1>1, <1>2

\* A new index: nothing of it is looked at yet.
LEMMA ReadIndexInv ==
  ASSUME ResolveInv, NEW body \in Digests, NEW claimed, ReadIndex(body, claimed)
  PROVE  ResolveInv'
  <1>1. CASE GiveUp
    BY <1>1, GiveUpInv
  <1>2. CASE ~GiveUp
    <2>1. /\ IndexOK(body) /\ root' = body /\ at' = 1 /\ checked' = 0
          /\ rstep' = "child" /\ auth' = "first"
          /\ UNCHANGED <<source, conf>>
      BY <1>2 DEF ReadIndex
    <2>2. Content[body].children \in Seq(Descriptors)
      BY <2>1, IndexTyped DEF IndexOK, isIndexMediaType
    <2>3. ResolveTypeOK'
      BY <2>1, <2>2, ContentAssumption
         DEF ResolveInv, ResolveTypeOK, IndexOK, isIndexMediaType, Children
    <2>. QED BY <2>1, <2>3
         DEF ResolveInv, Looping, Validated, Counted, ConfigNamed, LoopOver
  <1>. QED BY <1>1, <1>2

\* The head of the loop: an attestation is passed over, a runnable entry is
\* counted, and the call returns only past the last one.
LEMMA NextChildInv ==
  ASSUME ResolveInv, NextChild
  PROVE  ResolveInv'
  <1>. DEFINE n == Len(Children)
  <1>1. /\ rstep = "child" /\ root \in Digests /\ isIndexMediaType(root)
        /\ at \in 1..(n + 1) /\ n <= MaxManifests
    BY DEF NextChild, ResolveInv, ResolveTypeOK
  <1>2. Children \in Seq(Descriptors)
    BY <1>1, IndexTyped DEF Children, isIndexMediaType
  <1>3. n \in Nat /\ DOMAIN Children = 1..n
    BY <1>2
  <1>4. CASE GiveUp
    BY <1>4, GiveUpInv
  <1>5. CASE /\ at > n /\ checked > 0 /\ rstep' = "found"
             /\ UNCHANGED <<auth, source, root, at, checked, conf>>
    BY <1>1, <1>3, <1>5
       DEF ResolveInv, ResolveTypeOK, Looping, Validated, Counted, ConfigNamed,
           LoopOver, Children, isIndexMediaType
  <1>6. CASE /\ at <= n /\ Attestation(Children[at]) /\ at' = at + 1
             /\ UNCHANGED <<rstep, auth, source, root, checked, conf>>
    <2>. Children' = Children
      BY <1>6 DEF Children
    <2>1. ResolveTypeOK'
      BY <1>1, <1>3, <1>6 DEF ResolveInv, ResolveTypeOK, isIndexMediaType
    <2>2. Validated'
      <3>1. at' - 1 = at /\ 1..at = (1..(at - 1)) \union {at}
        BY <1>1, <1>3, <1>6
      <3>2. \A k \in 1..at : \/ Attestation(Children[k])
                             \/ BuiltFrom(Children[k], source)
        BY <1>1, <1>6, <3>1 DEF ResolveInv, Validated, Looping
      <3>. QED BY <3>1, <3>2, <1>6 DEF Validated
    <2>. QED BY <1>1, <1>6, <2>1, <2>2
         DEF ResolveInv, Looping, Counted, ConfigNamed, LoopOver
  <1>7. CASE /\ at <= n /\ ~Attestation(Children[at])
             /\ checked' = checked + 1 /\ rstep' = "manifest"
             /\ UNCHANGED <<auth, source, root, at, conf>>
    <2>. Children' = Children
      BY <1>7 DEF Children
    <2>1. ResolveTypeOK'
      BY <1>1, <1>3, <1>7 DEF ResolveInv, ResolveTypeOK, isIndexMediaType
    <2>2. Validated'
      BY <1>1, <1>7 DEF ResolveInv, Validated, Looping
    <2>3. Counted'
      BY <1>1, <1>3, <1>7 DEF Counted
    <2>. QED BY <1>7, <2>1, <2>2, <2>3 DEF ResolveInv, ConfigNamed, LoopOver
  <1>. QED BY <1>4, <1>5, <1>6, <1>7 DEF NextChild

\* The child's manifest has the digest of the index, so it is the child's own.
LEMMA ReadManifestInv ==
  ASSUME ResolveInv, NEW body \in Digests, NEW claimed,
         ReadManifest(body, claimed)
  PROVE  ResolveInv'
  <1>1. CASE GiveUp
    BY <1>1, GiveUpInv
  <1>2. CASE ~GiveUp
    <2>1. /\ rstep = "manifest" /\ ManifestOK(body, claimed)
          /\ conf' = Content[body].config /\ rstep' = "config"
          /\ auth' = "first" /\ UNCHANGED <<source, root, at, checked>>
      BY <1>2 DEF ReadManifest, Answered
    <2>. Children' = Children
      BY <2>1 DEF Children
    <2>2. conf' \in STRING
      BY <2>1, ManifestTyped DEF ManifestOK
    <2>3. ResolveTypeOK'
      BY <2>1, <2>2 DEF ResolveInv, ResolveTypeOK, isIndexMediaType
    <2>4. ConfigNamed'
      BY <2>1 DEF ConfigNamed, ManifestOK
    <2>5. Validated' /\ Counted' /\ LoopOver'
      BY <2>1 DEF ResolveInv, Validated, Counted, Looping, LoopOver
    <2>. QED BY <2>3, <2>4, <2>5 DEF ResolveInv
  <1>. QED BY <1>1, <1>2

\* The config has the digest of the manifest, so the child was built from the
\* commit that its labels name.
LEMMA ReadConfigInv ==
  ASSUME ResolveInv, NEW body \in Digests, ReadConfig(body)
  PROVE  ResolveInv'
  <1>1. CASE GiveUp
    BY <1>1, GiveUpInv
  <1>2. CASE ~GiveUp
    <2>1. /\ rstep = "config" /\ body = conf /\ ConfigOK(body, Children[at])
          /\ at' = at + 1 /\ rstep' = "child" /\ auth' = "first"
          /\ UNCHANGED <<source, root, checked, conf>>
      BY <1>2 DEF ReadConfig, Answered, checkedDigest
    <2>. Children' = Children
      BY <2>1 DEF Children
    <2>2. root \in Digests /\ isIndexMediaType(root) /\ at \in 1..Len(Children)
      <3>1. root \in Digests /\ isIndexMediaType(root)
        BY <2>1 DEF ResolveInv, ResolveTypeOK
      <3>2. Len(Children) \in Nat
        BY <3>1, IndexTyped DEF isIndexMediaType, Children
      <3>. QED BY <2>1, <3>1, <3>2 DEF ResolveInv, ResolveTypeOK
    <2>3. Len(Children) \in Nat
      BY <2>2, IndexTyped DEF isIndexMediaType, Children
    <2>4. BuiltFrom(Children[at], source)
      BY <2>1 DEF ResolveInv, ConfigNamed, ConfigOK, BuiltFrom
    <2>5. ResolveTypeOK'
      BY <2>1, <2>2, <2>3 DEF ResolveInv, ResolveTypeOK, isIndexMediaType
    <2>6. Validated'
      <3>1. at' - 1 = at /\ 1..at = (1..(at - 1)) \union {at}
        BY <2>1, <2>2, <2>3
      <3>2. \A k \in 1..at : \/ Attestation(Children[k])
                             \/ BuiltFrom(Children[k], source)
        BY <2>1, <2>4, <3>1 DEF ResolveInv, Validated, Looping
      <3>. QED BY <2>1, <3>1, <3>2 DEF Validated
    <2>7. Counted' /\ ConfigNamed' /\ LoopOver'
      BY <2>1 DEF ResolveInv, Counted, Looping, ConfigNamed, LoopOver
    <2>. QED BY <2>5, <2>6, <2>7 DEF ResolveInv
  <1>. QED BY <1>1, <1>2

\* The invariant holds throughout.
LEMMA ResolveInvariant == ResolveSpec => []ResolveInv
  <1>1. ResolveInit => ResolveInv
    <2>. SUFFICES ASSUME ResolveInit PROVE ResolveInv
      OBVIOUS
    <2>1. ResolveTypeOK
      <3>1. rstep = "idle"
        BY DEF ResolveInit
      <3>2. rstep \notin {"child", "manifest", "config", "found"}
        BY <3>1
      <3>. QED BY <3>1, <3>2 DEF ResolveInit, ResolveTypeOK
    <2>2. Validated /\ Counted /\ ConfigNamed /\ LoopOver
      BY DEF ResolveInit, Looping, Validated, Counted, ConfigNamed, LoopOver
    <2>. QED BY <2>1, <2>2 DEF ResolveInv
  <1>2. ResolveInv /\ [ResolveNext]_resolveVars => ResolveInv'
    <2>. SUFFICES ASSUME ResolveInv, [ResolveNext]_resolveVars PROVE ResolveInv'
      OBVIOUS
    <2>1. CASE UNCHANGED resolveVars
      BY <2>1 DEF resolveVars, ResolveInv, ResolveTypeOK, Looping, Validated,
                  Counted, ConfigNamed, LoopOver, Children, isIndexMediaType
    <2>2. CASE ResolveNext
      BY <2>2, GiveUpInv, RequestInv, ReadIndexInv, NextChildInv,
         ReadManifestInv, ReadConfigInv
         DEF ResolveNext, ResolveStep, RequestFails
    <2>. QED BY <2>1, <2>2
  <1>. QED BY <1>1, <1>2, PTL DEF ResolveSpec

\* Past the last entry the whole index is validated.
LEMMA FoundAdmissible == ResolveInv => ImageFromSource
  <1>. SUFFICES ASSUME ResolveInv, rstep = "found"
                PROVE  Admissible(root, source)
    BY DEF ImageFromSource
  <1>1. root \in Digests /\ Content[root].kind = "index" /\ at > Len(Children)
        /\ checked > 0 /\ at \in 1..(Len(Children) + 1)
    BY DEF ResolveInv, ResolveTypeOK, LoopOver, isIndexMediaType
  <1>2. Children \in Seq(Descriptors)
    BY <1>1, IndexTyped DEF Children
  <1>3. DOMAIN Children = 1..Len(Children) /\ Len(Children) \in Nat
    BY <1>2
  <1>4. \A k \in DOMAIN Children : k \in 1..(at - 1)
    BY <1>1, <1>3
  <1>5. \A k \in DOMAIN Children :
           Attestation(Children[k]) \/ BuiltFrom(Children[k], source)
    BY <1>4 DEF ResolveInv, Validated, Looping
  <1>6. \E k \in DOMAIN Children : ~Attestation(Children[k])
    BY <1>1 DEF ResolveInv, Counted, Looping
  <1>. QED BY <1>1, <1>5, <1>6 DEF Admissible, Children

\* Type correctness of resolveOperandImageAt: the loop keeps to the entries of
\* an index within the cap, whatever the registry answers.
THEOREM ResolveTypeCorrect == ResolveSpec => []ResolveTypeOK
  BY ResolveInvariant, PTL DEF ResolveInv

\* resolveOperandImageAt returns only the digest of an index whose runnable
\* images were all built from the commit it was asked for, whatever the registry
\* holds and however it answers.
THEOREM PinnedImageFromSource == ResolveSpec => []ImageFromSource
  BY ResolveInvariant, FoundAdmissible, PTL

-----------------------------------------------------------------------------
(* update and verify: SourceSync                                            *)

\* The locals of update, once they are set.
LocalsSet ==
    /\ step \in {"version", "image", "record", "apply"} => commit \in Commits
    /\ step \in {"image", "record", "apply"} =>
          /\ version \in Versions /\ VersionCommit[version] = commit
          /\ source = commit

\* What is staged when it is applied.
Staged ==
    /\ DOMAIN stage = 1..3
    /\ step \in {"record", "apply"} =>
          /\ rstep = "found"
          /\ stage[ConfigDir] = Output(commit, NoDigest)
          /\ stage[Installer] = Output(commit, root)
    /\ step = "apply" => stage[ImagePin] = Output(commit, root)

\* Before it is applied the tree is as it was.
Untouched ==
    step # "apply" => /\ pc \in {"snapshot", "killed"}
                      /\ \A k \in Items : target[k] # "new"
                      /\ \A f \in ModuleFiles : modules[f] = "old"

\* verify comes after the tool.
Over == verdict # "none" => ~Running \/ step = "failed"

SyncInv == LocalsSet /\ Staged /\ Untouched /\ Over /\ old \in OldTrees

-----------------------------------------------------------------------------
\* Nothing is set, staged or changed to begin with.
LEMMA SyncInitInv == SyncInit => SyncInv
  BY SyncAssumption
     DEF SyncInit, Init, ResolveInit, SyncInv, LocalsSet, Staged, Untouched,
         Over, Items, Before

\* The resolver is busy with the commit of update and leaves it alone.
LEMMA ResolveKeepsSource ==
  ASSUME ResolveStep
  PROVE  source' = source /\ rstep # "found"
  BY DEF ResolveStep, Unauthorized, Token, RequestFails, ReadIndex,
         ReadManifest, ReadConfig, NextChild, GiveUp, Getting, Answered

\* applyUpdate takes no step once it has returned or is killed.
LEMMA NextRuns ==
  ASSUME Next
  PROVE  Running
  BY DEF Next, Snapshot, Pin, AppendWorkflow, Prepare, Backup, Install, Cleanup,
         Remove, PutBack, Sweep, RestoreWorkflow, RestoreModules, Kill, Running

\* The steps before applyUpdate.
LEMMA ResolvingInv ==
  ASSUME SyncInv,
         \/ Abort \/ validateRef
         \/ \E c \in Commits : sourceCommit(c)
         \/ \E v \in Versions : moduleVersion(v)
         \/ resolveOperandImage
  PROVE  SyncInv'
  <1>1. CASE Abort
    BY <1>1 DEF Abort, vars, treeVars, flagVars, otherVars, resolveVars, SyncInv,
                LocalsSet, Staged, Untouched, Over, Running
  <1>2. CASE validateRef
    BY <1>2 DEF validateRef, vars, treeVars, flagVars, otherVars, resolveVars,
                SyncInv, LocalsSet, Staged, Untouched, Over, Running
  <1>3. CASE \E c \in Commits : sourceCommit(c)
    BY <1>3 DEF sourceCommit, vars, treeVars, flagVars, otherVars, resolveVars,
                SyncInv, LocalsSet, Staged, Untouched, Over, Running
  <1>4. CASE \E v \in Versions : moduleVersion(v)
    BY <1>4 DEF moduleVersion, OriginOK, Resolve, vars, treeVars, flagVars,
                otherVars, SyncInv, LocalsSet, Staged, Untouched, Over, Running
  <1>5. CASE resolveOperandImage
    <2>1. source' = source
      BY <1>5, ResolveKeepsSource DEF resolveOperandImage
    <2>. QED BY <1>5, <2>1
         DEF resolveOperandImage, vars, treeVars, flagVars, otherVars, syncVars,
             SyncInv, LocalsSet, Staged, Untouched, Over, Running
  <1>. QED BY <1>1, <1>2, <1>3, <1>4, <1>5

\* The outputs are staged from the commit and the image that was resolved.
LEMMA StagingInv ==
  ASSUME SyncInv, (\E c \in Commits : generate(c)) \/ writeImagePin
  PROVE  SyncInv'
  <1>. USE DEF vars, treeVars, flagVars, otherVars, resolveVars, ConfigDir,
               Installer, ImagePin
  <1>1. CASE \E c \in Commits : generate(c)
    BY <1>1 DEF generate, SyncInv, LocalsSet, Staged, Untouched, Over, Running
  <1>2. CASE writeImagePin
    BY <1>2 DEF writeImagePin, SyncInv, LocalsSet, Staged, Untouched, Over,
                Running
  <1>. QED BY <1>1, <1>2

\* What changes the tree, or ends it all.
LEMMA ApplyingInv ==
  ASSUME SyncInv,
         \/ applyUpdate \/ KillEarly
         \/ \E v \in Versions, c \in Commits : verify(v, c)
  PROVE  SyncInv'
  <1>1. CASE applyUpdate
    <2>1. verdict = "none"
      BY <1>1, NextRuns DEF applyUpdate, SyncInv, Over
    <2>. QED BY <1>1, <2>1
         DEF applyUpdate, resolveVars, syncVars, SyncInv, LocalsSet, Staged,
             Untouched, Over
  <1>2. CASE KillEarly
    BY <1>2 DEF KillEarly, Kill, Goto, treeVars, flagVars, otherVars,
                resolveVars, syncVars, SyncInv, LocalsSet, Staged, Untouched,
                Over, Running
  <1>3. CASE \E v \in Versions, c \in Commits : verify(v, c)
    BY <1>3 DEF verify, vars, treeVars, flagVars, otherVars, resolveVars,
                SyncInv, LocalsSet, Staged, Untouched, Over, Running
  <1>. QED BY <1>1, <1>2, <1>3

\* The invariant holds throughout.
LEMMA SyncInvariant == SyncSpec => []SyncInv
  <1>1. SyncInv /\ [SyncNext]_allVars => SyncInv'
    <2>. SUFFICES ASSUME SyncInv, [SyncNext]_allVars PROVE SyncInv'
      OBVIOUS
    <2>1. CASE UNCHANGED allVars
      BY <2>1 DEF allVars, vars, treeVars, flagVars, otherVars, resolveVars,
                  syncVars, SyncInv, LocalsSet, Staged, Untouched, Over, Running
    <2>2. CASE SyncNext
      BY <2>2, ResolvingInv, StagingInv, ApplyingInv DEF SyncNext
    <2>. QED BY <2>1, <2>2
  <1>. QED BY <1>1, SyncInitInv, PTL DEF SyncSpec

-----------------------------------------------------------------------------
(* Refinement: each half sees its own steps, and stutters through the rest. *)

\* update implements applyUpdate's specification.
LEMMA ImplementsUpdate == SyncSpec => Spec
  <1>1. SyncInit => Init
    BY DEF SyncInit
  <1>2. [SyncNext]_allVars => [Next]_vars
    BY DEF SyncNext, allVars, Abort, validateRef, sourceCommit, moduleVersion,
           resolveOperandImage, generate, writeImagePin, applyUpdate, KillEarly,
           verify, Next
  <1>. QED BY <1>1, <1>2, PTL DEF SyncSpec, Spec

\* update implements resolveOperandImageAt's specification: it asks for a full
\* commit.
LEMMA ImplementsResolve == SyncSpec => ResolveSpec
  <1>1. SyncInit => ResolveInit
    BY DEF SyncInit
  <1>2. SyncInv /\ [SyncNext]_allVars => [ResolveNext]_resolveVars
    <2>. SUFFICES ASSUME SyncInv, SyncNext PROVE [ResolveNext]_resolveVars
      BY DEF allVars
    <2>1. CASE \E v \in Versions : moduleVersion(v)
      BY <2>1 DEF moduleVersion, SyncInv, LocalsSet, ResolveNext
    <2>2. CASE resolveOperandImage
      BY <2>2 DEF resolveOperandImage, ResolveNext
    <2>3. CASE ~resolveOperandImage /\ ~(\E v \in Versions : moduleVersion(v))
      BY <2>3 DEF SyncNext, Abort, validateRef, sourceCommit, generate,
                  writeImagePin, applyUpdate, KillEarly, verify
    <2>. QED BY <2>1, <2>2, <2>3
  <1>. QED BY <1>1, <1>2, SyncInvariant, PTL DEF SyncSpec, ResolveSpec

-----------------------------------------------------------------------------
\* An index is known to be admissible wherever it is staged.
LEMMA StagedAdmissible ==
  ASSUME SyncInv, ImageFromSource, step = "apply"
  PROVE  Admissible(root, commit)
  BY DEF SyncInv, LocalsSet, Staged, ImageFromSource

\* A complete update leaves what was staged.
LEMMA CompleteIsSynchronized ==
  ASSUME SyncInv, ImageFromSource, AllOrNothing
  PROVE  Synchronized
  <1>. SUFFICES ASSUME pc = "done", ~failed
                PROVE  Product /\ Matches(sourcePin, readImagePin.commit)
    BY DEF Synchronized
  <1>1. /\ step = "apply"
        /\ \A k \in 1..3 : target[k] = "new"
        /\ modules["go.mod"] = "new"
    BY SyncAssumption DEF SyncInv, Untouched, AllOrNothing, Items
  <1>2. sourcePin = version /\ version \in Versions
        /\ VersionCommit[version] = commit /\ commit \in Commits
    BY <1>1 DEF sourcePin, SyncInv, LocalsSet
  <1>3. /\ Place(ConfigDir) = Output(commit, NoDigest)
        /\ Place(Installer) = Output(commit, root)
        /\ Place(ImagePin) = Output(commit, root)
    BY <1>1 DEF Place, SyncInv, Staged, ConfigDir, Installer, ImagePin
  <1>4. Admissible(root, commit) /\ root \in Digests
    BY <1>1, StagedAdmissible DEF Admissible
  <1>5. Product
    BY <1>2, <1>3, <1>4 DEF Product
  <1>6. readImagePin.commit = commit /\ readImagePin.image = root
        /\ readImagePin # Nothing
    BY <1>2, <1>3, ContentAssumption DEF readImagePin, Output, Nothing
  <1>. QED BY <1>2, <1>3, <1>5, <1>6 DEF Matches, readImagePin

\* The tree that verify accepts: its image record is an old one or the staged
\* one, and both name an image of their commit.
LEMMA MatchIsProduct ==
  ASSUME SyncInv, UpdateTypeOK, ImageFromSource,
         NEW v \in Versions, NEW got \in Commits, Matches(v, got)
  PROVE  Product
  <1>. DEFINE image == readImagePin.image
  <1>1. /\ sourcePin \in Versions /\ VersionCommit[sourcePin] = got
        /\ readImagePin.commit = got
        /\ Place(ConfigDir) = Output(got, NoDigest)
        /\ Place(Installer) = Output(got, image)
    BY DEF Matches
  <1>2. target[3] = "old" \/ target[3] = "new"
    BY DEF Matches, readImagePin, Place, ImagePin
  <1>3. Admissible(image, got) /\ Place(ImagePin) = Output(got, image)
    <2>1. CASE target[3] = "old"
      <3>1. readImagePin = old.record
        BY <2>1 DEF readImagePin, Place, OldOutput, ImagePin, ConfigDir,
                    Installer
      <3>2. old.record = Output(old.record.commit, old.record.image)
            /\ Admissible(old.record.image, old.record.commit)
        <4>1. PICK c \in Commits, d \in Digests :
                 old.record = Output(c, d) /\ Admissible(d, c)
          BY SyncAssumption DEF SyncInv
        <4>2. old.record.commit = c /\ old.record.image = d
          BY <4>1 DEF Output
        <4>. QED BY <4>1, <4>2
      <3>. QED BY <1>1, <3>1, <3>2 DEF readImagePin
    <2>2. CASE target[3] = "new"
      <3>1. step = "apply"
        BY <2>2, SyncAssumption DEF SyncInv, Untouched, Items
      <3>2. readImagePin = Output(commit, root)
        BY <2>2, <3>1 DEF readImagePin, Place, ImagePin, SyncInv, Staged
      <3>3. readImagePin.commit = commit /\ image = root
        BY <3>2 DEF Output
      <3>. QED BY <1>1, <3>1, <3>2, <3>3, StagedAdmissible DEF readImagePin
    <2>. QED BY <1>2, <2>1, <2>2
  <1>4. image \in Digests
    BY <1>3 DEF Admissible
  <1>. QED BY <1>1, <1>3, <1>4 DEF Product

\* Nothing changes once verify has run.
LEMMA VerifiedStable ==
  ASSUME SyncInv, UpdateTypeOK, ImageFromSource, VerifiedIsProduct,
         [SyncNext]_allVars
  PROVE  VerifiedIsProduct'
  <1>. USE DEF allVars, vars, treeVars, flagVars, otherVars, syncVars
  <1>1. CASE \E v \in Versions, c \in Commits : verify(v, c)
    <2>. PICK v \in Versions, c \in Commits : verify(v, c)
      BY <1>1
    <2>1. UNCHANGED <<modules, version, old, target, stage>>
      BY DEF verify
    <2>2. verdict' = "match" => Matches(v, c)
      BY DEF verify
    <2>3. verdict' = "match" => Product
      BY <2>2, MatchIsProduct
    <2>. QED BY <2>1, <2>3
         DEF VerifiedIsProduct, Product, sourcePin, Place, OldOutput
  <1>2. CASE UNCHANGED allVars
    BY <1>2 DEF VerifiedIsProduct, Product, sourcePin, Place, OldOutput
  <1>3. CASE verdict = "none" /\ UNCHANGED verdict
    BY <1>3 DEF VerifiedIsProduct
  <1>4. SyncNext => \/ \E v \in Versions, c \in Commits : verify(v, c)
                    \/ verdict = "none" /\ UNCHANGED verdict
    BY NextRuns
       DEF SyncNext, Abort, validateRef, sourceCommit, moduleVersion,
           resolveOperandImage, generate, writeImagePin, applyUpdate, KillEarly,
           Kill, verify, SyncInv, Over, Running
  <1>. QED BY <1>1, <1>2, <1>3, <1>4

-----------------------------------------------------------------------------
\* applyUpdate within update: everything is updated, restored or reported.
THEOREM SyncAllOrNothing == SyncSpec => []AllOrNothing
  BY ImplementsUpdate, RestoredOrReported, PTL

\* A successful update leaves a tree from one commit with an image built from
\* it, which verify accepts, for every set of commits, versions and images and
\* every way the ref, the proxy and the registry move under update.
THEOREM SyncSynchronized == SyncSpec => []Synchronized
  <1>1. SyncSpec => []ImageFromSource
    BY ImplementsResolve, PinnedImageFromSource, PTL
  <1>2. SyncInv /\ ImageFromSource /\ AllOrNothing => Synchronized
    BY CompleteIsSynchronized
  <1>. QED BY <1>1, <1>2, SyncInvariant, SyncAllOrNothing, PTL

\* verify accepts no mixture of two updates, wherever the tool failed or was
\* killed.
THEOREM SyncVerified == SyncSpec => []VerifiedIsProduct
  <1>1. SyncSpec => []ImageFromSource
    BY ImplementsResolve, PinnedImageFromSource, PTL
  <1>2. SyncSpec => []UpdateTypeOK
    BY ImplementsUpdate, UpdateTypeCorrect, PTL
  <1>3. SyncInit => VerifiedIsProduct
    BY DEF SyncInit, VerifiedIsProduct
  <1>4. SyncInv /\ UpdateTypeOK /\ ImageFromSource /\ VerifiedIsProduct
          /\ [SyncNext]_allVars => VerifiedIsProduct'
    BY VerifiedStable
  <1>. QED BY <1>1, <1>2, <1>3, <1>4, SyncInvariant, PTL DEF SyncSpec

=============================================================================
