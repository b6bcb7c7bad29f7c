----------------------------- MODULE SourceSync -----------------------------
(***************************************************************************)
(* update and verify of tools/source-update.  update resolves a ref to a   *)
(* commit, the commit to a Go version and to an image (ImageResolve),      *)
(* generates the outputs in a directory of its own, and applies them to    *)
(* the working tree (SourceUpdate).  The ref, the registry's tag and the   *)
(* Go proxy's view all move meanwhile, so an answer is any choice.  verify *)
(* regenerates from what the tree records, once the tool is over, and      *)
(* compares.  A Go version names one commit for ever; a commit may have    *)
(* several versions, its pseudo-version and a tag.                         *)
(***************************************************************************)
EXTENDS ImageResolve, SourceUpdate

CONSTANTS
    Versions,       \* Go versions of the fork
    VersionCommit,  \* the commit of each
    OldTrees        \* what the working tree may hold before

\* The outputs in the order of installOutputs.
ConfigDir == 1
Installer == 2
ImagePin == 3

\* An output is from a commit; the installer is rendered with an image, and the
\* image record names it.
Output(c, image) == [commit |-> c, image |-> image]

Nothing == Output(NoCommit, NoDigest)

ASSUME SyncAssumption ==
    /\ N = 3 /\ "go.mod" \in ModuleFiles
    /\ VersionCommit \in [Versions -> Commits]
    /\ \A tree \in OldTrees :
          /\ tree.mod \in Versions
          /\ \E c \in Commits, image \in Digests :
                tree.record = Output(c, image) /\ Admissible(image, c)

VARIABLES
    step,     \* of update: ref, fetch, version, image, record, apply or failed
    commit,   \* the local variables of update: commit,
    version,  \* version
    stage,    \* and the generated outputs
    old,      \* what the tree held before
    verdict   \* of verify: none, match or drift

syncVars == <<step, commit, version, stage, old, verdict>>
allVars == <<vars, resolveVars, syncVars>>

SyncInit ==
    /\ Init /\ ResolveInit
    /\ step = "ref" /\ commit = NoCommit /\ version = "none"
    /\ stage = [k \in Items |-> Nothing]
    /\ old \in OldTrees
    /\ verdict = "none"

-----------------------------------------------------------------------------
(* update                                                                   *)

Running == pc \notin {"done", "killed"}

\* A command, a request or a file operation that fails before applyUpdate
\* leaves the tree alone.
Abort ==
    /\ Running /\ step \notin {"apply", "failed"} /\ step' = "failed"
    /\ UNCHANGED <<vars, resolveVars, commit, version, stage, old, verdict>>

validateRef ==
    /\ Running /\ step = "ref" /\ step' = "fetch"
    /\ UNCHANGED <<vars, resolveVars, commit, version, stage, old, verdict>>

\* The ref names a commit when it is fetched, and maybe another one later.
sourceCommit(c) ==
    /\ Running /\ step = "fetch" /\ step' = "version" /\ commit' = c
    /\ UNCHANGED <<vars, resolveVars, version, stage, old, verdict>>

\* Go answers the query for the commit with a version; its origin must be the
\* commit.  The image of that commit is asked for.
MutOriginOK(v) == TRUE
OriginOK(v) == VersionCommit[v] = commit

moduleVersion(v) ==
    /\ Running /\ step = "version" /\ OriginOK(v)
    /\ step' = "image" /\ version' = v /\ Resolve(commit)
    /\ UNCHANGED <<vars, commit, stage, old, verdict>>

resolveOperandImage ==
    /\ Running /\ step = "image" /\ ResolveStep
    /\ UNCHANGED <<vars, syncVars>>

\* The commit is fetched again, to generate from; the checkout must be it.
\* The configuration and the installer are rendered from what was fetched.
generate(got) ==
    /\ Running /\ step = "image" /\ rstep = "found"
    /\ got = commit
    /\ stage' = [stage EXCEPT ![ConfigDir] = Output(got, NoDigest),
                              ![Installer] = Output(got, root)]
    /\ step' = "record"
    /\ UNCHANGED <<vars, resolveVars, commit, version, old, verdict>>

writeImagePin ==
    /\ Running /\ step = "record"
    /\ stage' = [stage EXCEPT ![ImagePin] = Output(commit, root)]
    /\ step' = "apply"
    /\ UNCHANGED <<vars, resolveVars, commit, version, old, verdict>>

applyUpdate ==
    /\ step = "apply" /\ Next
    /\ UNCHANGED <<resolveVars, syncVars>>

KillEarly ==
    /\ step \notin {"apply", "failed"} /\ Kill
    /\ UNCHANGED <<resolveVars, syncVars>>

-----------------------------------------------------------------------------
(* verify                                                                   *)

\* The version go.mod pins.
sourcePin == IF modules["go.mod"] = "new" THEN version ELSE old.mod

OldOutput(k) ==
    CASE k = ConfigDir -> old.config
      [] k = Installer -> old.installer
      [] k = ImagePin -> old.record

\* What is at an output's place; a torn directory is like no other.
Place(k) ==
    CASE target[k] = "old" -> OldOutput(k)
      [] target[k] = "new" -> stage[k]
      [] OTHER -> Nothing

readImagePin == Place(ImagePin)

\* verify succeeds if Go answers with version v and the checkout is got.
MutMatches(v, got) ==
    /\ v = sourcePin
    /\ readImagePin # Nothing /\ VersionCommit[v] = readImagePin.commit
    /\ got = readImagePin.commit
    /\ Place(ConfigDir) = Output(got, NoDigest)

Matches(v, got) ==
    /\ v = sourcePin
    /\ readImagePin # Nothing /\ VersionCommit[v] = readImagePin.commit
    /\ got = readImagePin.commit
    /\ Place(ConfigDir) = Output(got, NoDigest)
    /\ Place(Installer) = Output(got, readImagePin.image)

verify(v, got) ==
    /\ ~Running \/ step = "failed"
    /\ verdict = "none"
    /\ verdict' = IF Matches(v, got) THEN "match" ELSE "drift"
    /\ UNCHANGED <<vars, resolveVars, step, commit, version, stage, old>>

-----------------------------------------------------------------------------
SyncNext ==
    \/ Abort \/ validateRef \/ KillEarly
    \/ \E c \in Commits : sourceCommit(c) \/ generate(c)
    \/ \E v \in Versions : moduleVersion(v)
    \/ resolveOperandImage \/ writeImagePin \/ applyUpdate
    \/ \E v \in Versions, c \in Commits : verify(v, c)

SyncSpec == SyncInit /\ [][SyncNext]_allVars

\* Every registry request ends: the client has a timeout, and so has the whole
\* resolution.
FairSync == SyncSpec /\ WF_allVars(resolveOperandImage)

-----------------------------------------------------------------------------
(* Properties                                                               *)

\* The tree holds, for one commit c, a Go version of c, the configuration of c,
\* and an image of c, recorded and rendered into an installer of c.
Product ==
    \E c \in Commits, image \in Digests :
        /\ sourcePin \in Versions /\ VersionCommit[sourcePin] = c
        /\ Admissible(image, c)
        /\ Place(ConfigDir) = Output(c, NoDigest)
        /\ Place(Installer) = Output(c, image)
        /\ Place(ImagePin) = Output(c, image)

\* An update that succeeds leaves everything from one commit (CONTRIBUTING.md:
\* "resolves a branch, tag, or full commit SHA once"), although the ref, the
\* tag and the proxy move between the requests; and verify agrees at once.
Synchronized ==
    pc = "done" /\ ~failed => Product /\ Matches(sourcePin, readImagePin.commit)

\* A tree that verify accepts is what a complete update leaves, wherever the
\* last one failed, failed to roll back or was killed.
VerifiedIsProduct == verdict = "match" => Product

\* resolveOperandImageAt always comes to an end, however often the registry
\* asks for a token.
ResolveEnds ==
    step = "image" ~> (rstep \in {"found", "failed"} \/ ~Running
                                                     \/ step = "failed")

=============================================================================
