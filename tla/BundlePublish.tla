---------------------------- MODULE BundlePublish ----------------------------
(***************************************************************************)
(* The compiler publishes the bundles of every adapter as one directory:   *)
(* it writes a staging directory of its own, moves the published directory *)
(* aside, moves the staging directory in its place, and removes the old    *)
(* one; when the second move fails it tries to move the old one back.      *)
(* Compilers may overlap, fail and be killed, and loaders read the         *)
(* directory file by file meanwhile: the index once, and each bundle when  *)
(* it is first asked for.                                                  *)
(*                                                                         *)
(* A directory stands for the build it holds: a compiler writes one build, *)
(* and no file of a published directory is written again.                  *)
(***************************************************************************)
EXTENDS Naturals

CONSTANTS
  Builder,   \* the runs of the compiler, which are also their builds
  Loader,    \* the processes that load bundles
  Content    \* build -> adapter -> hash of its bundle; OldBuild is the build that was there

NoBuild == "absent"
OldBuild == "before"
AdapterIds == DOMAIN Content[OldBuild]

ASSUME BuilderAssumption == Builder \cap {NoBuild, OldBuild} = {}

VARIABLES
  published,   \* the build in the published directory, or NoBuild
  builder,     \* [at, staging, aside, hurt] of each compiler
  loader       \* [index, bundles] of each loader

bundleVars == <<published, builder, loader>>

PublishInit ==
  /\ published \in {NoBuild, OldBuild}
  /\ builder = [b \in Builder |-> [at |-> "stage", staging |-> FALSE, aside |-> NoBuild, hurt |-> FALSE]]
  /\ loader = [l \in Loader |-> [index |-> NoBuild, bundles |-> <<>>]]

-----------------------------------------------------------------------------
(* compileAll() (compiler.ts).                                             *)

\* Every bundle and the index are written and read again.
Stage(b) ==
  /\ builder[b].at = "stage"
  /\ builder' = [builder EXCEPT ![b].at = "aside", ![b].staging = TRUE]
  /\ UNCHANGED <<published, loader>>

\* It is no error that there is nothing to move aside.
MoveAside(b) ==
  /\ builder[b].at = "aside"
  /\ builder' = [builder EXCEPT ![b].at = "publish", ![b].aside = published]
  /\ published' = NoBuild
  /\ UNCHANGED loader

\* A directory that is not empty is not replaced: another compiler was faster.
MoveIn(b) ==
  /\ builder[b].at = "publish" /\ published = NoBuild
  /\ published' = b
  /\ builder' = [builder EXCEPT ![b].at = "discard", ![b].staging = FALSE]
  /\ UNCHANGED loader

MoveFails(b) ==
  /\ builder[b].at = "publish"
  /\ builder' = [builder EXCEPT ![b].at = "restore"]
  /\ UNCHANGED <<published, loader>>

\* Mutant: the old directory stays aside.
Abandons(b) ==
  /\ builder[b].at = "restore"
  /\ builder' = [builder EXCEPT ![b].at = "clean"]
  /\ UNCHANGED <<published, loader>>

\* The move back may fail as well, and nobody is told.
MoveBack(b) ==
  /\ builder[b].at = "restore"
  /\ \/ /\ published = NoBuild
        /\ published' = builder[b].aside
        /\ builder' = [builder EXCEPT ![b].at = "clean", ![b].aside = NoBuild]
     \/ /\ published' = published
        /\ builder' = [builder EXCEPT ![b].at = "clean",
                                      ![b].hurt = builder[b].aside # NoBuild /\ published = NoBuild]
  /\ UNCHANGED loader

Discard(b) ==
  /\ builder[b].at = "discard"
  /\ builder' = [builder EXCEPT ![b].at = "succeeded", ![b].aside = NoBuild]
  /\ UNCHANGED <<published, loader>>

\* Writing, the first move and the removal of the old directory may fail too.
CompileFails(b) ==
  /\ builder[b].at \in {"stage", "aside", "discard"}
  /\ builder' = [builder EXCEPT ![b].at = "clean"]
  /\ UNCHANGED <<published, loader>>

CleanStaging(b) ==
  /\ builder[b].at = "clean"
  /\ builder' = [builder EXCEPT ![b].at = "failed", ![b].staging = FALSE]
  /\ UNCHANGED <<published, loader>>

BuilderEnded(b) == builder[b].at \in {"succeeded", "failed", "killed"}

BuilderKilled(b) ==
  /\ ~BuilderEnded(b)
  /\ builder' = [builder EXCEPT ![b].at = "killed", ![b].hurt = builder[b].hurt \/ builder[b].at \in {"publish", "restore"}]
  /\ UNCHANGED <<published, loader>>

-----------------------------------------------------------------------------
(* AdapterBundleLoader.                                                    *)

\* The index is read once; without a directory the command fails, and may be given again.
LoadIndex(l) ==
  /\ loader[l].index = NoBuild /\ published # NoBuild
  /\ loader' = [loader EXCEPT ![l].index = published]
  /\ UNCHANGED <<published, builder>>

\* Mutant: a bundle is taken as it is read.
Trusts(index, build, a) == build # NoBuild

\* The bundle's hashes are those of the index that this loader read.
SameHash(index, build, a) == build # NoBuild /\ Content[build][a] = Content[index][a]

With(bundles, a, hash) == [x \in DOMAIN bundles \cup {a} |-> IF x = a THEN hash ELSE bundles[x]]

LoadBundle(l) ==
  /\ loader[l].index # NoBuild
  /\ \E a \in AdapterIds \ DOMAIN loader[l].bundles :
       /\ SameHash(loader[l].index, published, a)
       /\ loader' = [loader EXCEPT ![l].bundles = With(loader[l].bundles, a, Content[published][a])]
  /\ UNCHANGED <<published, builder>>

PublishNext ==
  \/ \E b \in Builder : \/ Stage(b) \/ MoveAside(b) \/ MoveIn(b) \/ MoveFails(b) \/ MoveBack(b)
                        \/ Discard(b) \/ CompileFails(b) \/ CleanStaging(b) \/ BuilderKilled(b)
  \/ \E l \in Loader : LoadIndex(l) \/ LoadBundle(l)

PublishSpec == PublishInit /\ [][PublishNext]_bundleVars

-----------------------------------------------------------------------------
Builds == {NoBuild, OldBuild} \cup Builder
Compiling == [at : {"stage", "aside", "publish", "restore", "discard", "clean", "succeeded", "failed", "killed"},
              staging : BOOLEAN, aside : Builds, hurt : BOOLEAN]
Hashes == {Content[b][a] : b \in Builds \ {NoBuild}, a \in AdapterIds}
Loading == [index : Builds, bundles : UNION {[loaded -> Hashes] : loaded \in SUBSET AdapterIds}]

PublishTypeOK ==
  /\ published \in Builds
  /\ builder \in [Builder -> Compiling]
  /\ loader \in [Loader -> Loading]


\* The bundles that a process works with are of the build whose index it read, or are no different in it,
\* however many compilers have moved directories meanwhile.
OneBuild == \A l \in Loader : \A a \in DOMAIN loader[l].bundles : loader[l].bundles[a] = Content[loader[l].index][a]

\* When the compilers have ended, a build is in place if there was one or one succeeded, unless a compiler
\* was killed between its two moves or could not move the old build back.
BuildInPlace ==
  (\A b \in Builder : BuilderEnded(b) /\ ~builder[b].hurt) /\ published = NoBuild =>
    /\ \A b \in Builder : builder[b].at # "succeeded" /\ builder[b].aside = NoBuild
    /\ \A l \in Loader : loader[l].index = NoBuild

\* Overlapping compilers neither mix their builds nor leave none behind.
BuildsHold == OneBuild /\ BuildInPlace
=============================================================================
