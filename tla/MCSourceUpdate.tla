--------------------------- MODULE MCSourceUpdate ---------------------------
EXTENDS SourceSync

\* Two commits.  The first has a pseudo-version and a tag, an image of two
\* platforms with an attestation, and a rebuilt one; the second has one of each.
MCCommits == {"c1", "c2"}
MCVersions == {"pseudo1", "tag1", "pseudo2"}
MCVersionCommit ==
    [v \in MCVersions |-> IF v = "pseudo2" THEN "c2" ELSE "c1"]

Index(children) == [kind |-> "index", children |-> children]
Child(os, arch, digest) ==
    [os |-> os, arch |-> arch, media |-> "oci.manifest", digest |-> digest]
Manifest(config) ==
    [kind |-> "manifest", media |-> "oci.manifest", config |-> config]
Config(os, arch, labels, url) ==
    [kind |-> "config", os |-> os, arch |-> arch, labels |-> labels, url |-> url]

\* Beside them: an index that mixes the commits, and one that is too long.
MCContent ==
    [image1 |-> Index(<<Child("linux", "amd64", "m1"),
                        Child("unknown", "unknown", "att"),
                        Child("linux", "arm64", "m1arm")>>),
     rebuilt1 |-> Index(<<Child("linux", "amd64", "m1")>>),
     image2 |-> Index(<<Child("linux", "amd64", "m2")>>),
     mixed |-> Index(<<Child("linux", "amd64", "m1"),
                       Child("linux", "amd64", "m2")>>),
     attested |-> Index(<<Child("unknown", "unknown", "att")>>),
     partial |-> Index(<<Child("linux", "", "m1")>>),
     long |-> Index(<<Child("linux", "amd64", "m1"),
                      Child("linux", "amd64", "m1"),
                      Child("linux", "amd64", "m1"),
                      Child("linux", "amd64", "m1")>>),
     m1 |-> Manifest("k1"), m1arm |-> Manifest("k1arm"), m2 |-> Manifest("k2"),
     k1 |-> Config("linux", "x86_64", [l \in {"vcs-ref"} |-> "c1"], TRUE),
     k1arm |-> Config("linux", "aarch64", [l \in SourceLabels |-> "c1"], TRUE),
     k2 |-> Config("linux", "amd64", [l \in {"git.commit"} |-> "c2"], TRUE),
     att |-> [kind |-> "junk"]]
MCDigests == DOMAIN MCContent

\* What the previous update left, and what a broken tree may hold.
MCOldTrees ==
    {[mod |-> "pseudo1", config |-> Output("c1", NoDigest),
      installer |-> Output("c1", "image1"), record |-> Output("c1", "image1")],
     [mod |-> "pseudo2", config |-> Output("c1", NoDigest),
      installer |-> Output("c1", "image1"), record |-> Output("c2", "image2")]}
=============================================================================
