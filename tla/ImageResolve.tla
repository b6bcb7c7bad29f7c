---------------------------- MODULE ImageResolve ----------------------------
(***************************************************************************)
(* resolveOperandImageAt of tools/source-update: the tool asks the         *)
(* registry for the image index tagged with a source commit, and checks    *)
(* that every runnable image in it was built from that commit, before it   *)
(* pins the index by its digest.  Tags move and a registry may answer a    *)
(* request with any body and any headers, so an answer is any choice.  A   *)
(* body is known by its digest (sha256 has no collisions here), and        *)
(* Content says what each body holds.                                      *)
(***************************************************************************)
EXTENDS Integers, Sequences

CONSTANTS
    Commits,      \* full source commits
    Digests,      \* digests of the bodies that exist
    Content,      \* what each of them decodes to
    MaxManifests  \* the cap on the entries of an index (128 in the code)

NoDigest == "none"
NoCommit == "none"

SourceLabels == {"git.commit", "org.opencontainers.image.revision", "vcs-ref"}

\* A descriptor of an index: platform, media type and digest of a child.
Descriptors ==
    [os : STRING, arch : STRING, media : STRING, digest : STRING]

Bodies ==
    [kind : {"junk"}]
    \union [kind : {"index"}, children : Seq(Descriptors)]
    \union [kind : {"manifest"}, media : STRING, config : STRING]
    \union [kind : {"config"}, os : STRING, arch : STRING, url : BOOLEAN,
            labels : UNION {[S -> Commits] : S \in SUBSET SourceLabels}]

ASSUME ContentAssumption ==
    /\ MaxManifests \in Nat
    /\ Digests \subseteq STRING \ {NoDigest} /\ NoCommit \notin Commits
    /\ Content \in [Digests -> Bodies]

\* Definitions whose name starts with Mut are plausible bugs in the definition
\* that follows them; the specification never uses them.

VARIABLES
    rstep,    \* idle, index, child, manifest, config, found or failed
    auth,     \* of the request under way: first, token or retry
    source,   \* sourceCommit, the commit that is asked for
    root,     \* rootDigest, the index that was received
    at,       \* the entry of the index that is looked at
    checked,  \* checkedPlatforms
    conf      \* the digest of the child's config

resolveVars == <<rstep, auth, source, root, at, checked, conf>>

ResolveInit ==
    /\ rstep = "idle" /\ auth = "first" /\ source = NoCommit
    /\ root = NoDigest /\ at = 1 /\ checked = 0 /\ conf = NoDigest

\* The call for commit c.
Resolve(c) ==
    /\ rstep = "idle" /\ rstep' = "index" /\ source' = c
    /\ UNCHANGED <<auth, root, at, checked, conf>>

-----------------------------------------------------------------------------
(* registryGet, registryToken: an anonymous request, and one more with a    *)
(* token if the first is refused with a challenge the tool trusts.          *)

Getting == rstep \in {"index", "manifest", "config"}

MutUnauthorized ==
    /\ Getting /\ auth \in {"first", "retry"} /\ auth' = "token"
    /\ UNCHANGED <<rstep, source, root, at, checked, conf>>

Unauthorized ==
    /\ Getting /\ auth = "first" /\ auth' = "token"
    /\ UNCHANGED <<rstep, source, root, at, checked, conf>>

Token ==
    /\ Getting /\ auth = "token" /\ auth' = "retry"
    /\ UNCHANGED <<rstep, source, root, at, checked, conf>>

\* The call returns an error.
GiveUp ==
    /\ rstep' = "failed"
    /\ UNCHANGED <<auth, source, root, at, checked, conf>>

\* A request that fails or times out, another status than 200, also 401 to the
\* token, an oversized body, an untrusted challenge or no token.
RequestFails == Getting /\ GiveUp

\* A request is answered with status 200.
Answered(what) == rstep = what /\ auth \in {"first", "retry"}

-----------------------------------------------------------------------------
(* resolveOperandImageAt                                                    *)

checkedDigest(body, claimed) == claimed = body

isIndexMediaType(body) == Content[body].kind = "index"

ImageMedia == {"oci.manifest", "docker.manifest"}

MutIndexOK(body) == isIndexMediaType(body) /\ Content[body].children # <<>>

IndexOK(body) ==
    /\ isIndexMediaType(body)
    /\ Len(Content[body].children) \in 1..MaxManifests

ReadIndex(body, claimed) ==
    /\ Answered("index")
    /\ IF checkedDigest(body, claimed) /\ IndexOK(body)
       THEN /\ root' = body /\ at' = 1 /\ checked' = 0
            /\ rstep' = "child" /\ auth' = "first"
            /\ UNCHANGED <<source, conf>>
       ELSE GiveUp

Children == Content[root].children

Attestation(d) == d.os = "unknown" /\ d.arch = "unknown"

Incomplete(d) == d.os = "" \/ d.arch = ""

\* The head of the loop over the index: what is not runnable is skipped, and
\* an index without a runnable entry is refused.
NextChild ==
    /\ rstep = "child"
    /\ \/ /\ at > Len(Children) /\ checked > 0 /\ rstep' = "found"
          /\ UNCHANGED <<auth, source, root, at, checked, conf>>
       \/ at > Len(Children) /\ checked = 0 /\ GiveUp
       \/ /\ at <= Len(Children) /\ Attestation(Children[at]) /\ at' = at + 1
          /\ UNCHANGED <<rstep, auth, source, root, checked, conf>>
       \/ at <= Len(Children) /\ Incomplete(Children[at]) /\ GiveUp
       \/ /\ at <= Len(Children)
          /\ ~Attestation(Children[at]) /\ ~Incomplete(Children[at])
          /\ IF Children[at].media \in ImageMedia
             THEN /\ checked' = checked + 1 /\ rstep' = "manifest"
                  /\ UNCHANGED <<auth, source, root, at, conf>>
             ELSE GiveUp

-----------------------------------------------------------------------------
(* validatePlatformImage                                                    *)

\* The child's manifest is asked for by digest.
MutManifestOK(body, claimed) ==
    /\ checkedDigest(body, claimed)
    /\ Content[body].kind = "manifest"
    /\ Content[body].media = Children[at].media

ManifestOK(body, claimed) ==
    /\ checkedDigest(body, claimed) /\ body = Children[at].digest
    /\ Content[body].kind = "manifest"
    /\ Content[body].media = Children[at].media

ReadManifest(body, claimed) ==
    /\ Answered("manifest")
    /\ IF ManifestOK(body, claimed)
       THEN /\ conf' = Content[body].config
            /\ rstep' = "config" /\ auth' = "first"
            /\ UNCHANGED <<source, root, at, checked>>
       ELSE GiveUp

normalizeArchitecture(arch) ==
    CASE arch = "x86_64" -> "amd64"
      [] arch = "aarch64" -> "arm64"
      [] OTHER -> arch

\* The config is for the platform of the descriptor, carries a source label, no
\* other commit in any of them, and the label of the repository.
ConfigOK(body, d) ==
    /\ Content[body].kind = "config"
    /\ Content[body].os = d.os
    /\ normalizeArchitecture(Content[body].arch) = normalizeArchitecture(d.arch)
    /\ DOMAIN Content[body].labels # {}
    /\ \A key \in DOMAIN Content[body].labels :
          Content[body].labels[key] = source
    /\ Content[body].url

ReadConfig(body) ==
    /\ Answered("config")
    /\ IF checkedDigest(body, conf) /\ ConfigOK(body, Children[at])
       THEN /\ at' = at + 1 /\ rstep' = "child" /\ auth' = "first"
            /\ UNCHANGED <<source, root, checked, conf>>
       ELSE GiveUp

-----------------------------------------------------------------------------
\* The digest of a header may be missing, malformed or of another body.
ResolveStep ==
    \/ Unauthorized \/ Token \/ RequestFails
    \/ \E body \in Digests, claimed \in Digests \union {NoDigest} :
          ReadIndex(body, claimed) \/ ReadManifest(body, claimed)
    \/ \E body \in Digests : ReadConfig(body)
    \/ NextChild

ResolveNext == (\E c \in Commits : Resolve(c)) \/ ResolveStep

ResolveSpec == ResolveInit /\ [][ResolveNext]_resolveVars

-----------------------------------------------------------------------------
(* Properties                                                               *)

\* Type correctness of resolveOperandImageAt: the loop stays on the entries of
\* an index no longer than the cap.
ResolveTypeOK ==
    /\ rstep \in {"idle", "index", "child", "manifest", "config", "found",
                  "failed"}
    /\ auth \in {"first", "token", "retry"}
    /\ source \in Commits \union {NoCommit}
    /\ root \in Digests \union {NoDigest}
    /\ conf \in STRING \union {NoDigest}
    /\ checked \in Nat
    /\ rstep \in {"child", "manifest", "config", "found"} =>
          /\ root \in Digests /\ isIndexMediaType(root)
          /\ Len(Children) <= MaxManifests
          /\ at \in 1..(Len(Children) + 1)
          /\ rstep \in {"manifest", "config"} => at <= Len(Children)

\* The image that descriptor d names was built from commit c, for the platform
\* that d says.
BuiltFrom(d, c) ==
    /\ d.digest \in Digests /\ Content[d.digest].kind = "manifest"
    /\ LET config == Content[d.digest].config IN
       /\ config \in Digests /\ Content[config].kind = "config"
       /\ Content[config].os = d.os
       /\ normalizeArchitecture(Content[config].arch) =
             normalizeArchitecture(d.arch)
       /\ \E key \in DOMAIN Content[config].labels : TRUE
       /\ \A key \in DOMAIN Content[config].labels :
             Content[config].labels[key] = c
       /\ Content[config].url

\* Every runnable image of the index is from commit c, and there is one.
Admissible(index, c) ==
    /\ index \in Digests /\ Content[index].kind = "index"
    /\ LET children == Content[index].children IN
       /\ \E k \in DOMAIN children : ~Attestation(children[k])
       /\ \A k \in DOMAIN children :
             Attestation(children[k]) \/ BuiltFrom(children[k], c)

\* resolveOperandImageAt returns the digest of an index only if all its
\* runnable images were built from the commit (CONTRIBUTING.md: "every runnable
\* platform image's source/repository labels"), although the tag moves and the
\* registry may answer every request with the body or the header of another.
ImageFromSource == rstep = "found" => Admissible(root, source)

=============================================================================
