------------------------------- MODULE Deployer -----------------------------
(***************************************************************************)
(* One deployment directory: the five artifact names consumers read, the   *)
(* immutable generations behind them, and the `current` link.              *)
(*                                                                         *)
(* The deployer runs without awaiting, so no other coroutine acts on the   *)
(* directory in between; consumers in other processes see every step, and  *)
(* a crash may fall between any two.  A step is one change of what the     *)
(* directory shows: staging directories, whose names start with a dot, are *)
(* invisible until they are renamed.  Contents are the number of the       *)
(* deployment they come from, 0 for nothing.                               *)
(***************************************************************************)
EXTENDS Integers, Sequences, FiniteSets, SequencesExt

CONSTANTS
    N,               \* the number of artifact names (5), in replacement order
    MaxDeployments,  \* bound: deployments attempted
    RetentionCount,  \* generation_retention_count, 0 for None
    ByAge,           \* whether generation_retention_days is set
    LinkModes        \* the platforms considered: values of follow

ASSUME NAssumption == N \in Nat \ {0}
ASSUME MaxAssumption == MaxDeployments \in Nat
ASSUME RetentionAssumption == RetentionCount \in Nat /\ ByAge \in BOOLEAN
ASSUME LinkModesAssumption == LinkModes \subseteq BOOLEAN

VARIABLES
    generational,  \* deployment.generation_aware
    follow,        \* whether os.link follows a symbolic link, on this platform
    file,          \* names that are regular files: what they contain
    link,          \* names that are symbolic links through `current`
    pending,       \* names n with a `.n.pending` link in the directory
    gens,          \* the contents of every generation ever published
    order,         \* the generations that exist, oldest mtime first
    current,       \* the generation `current` points to, 0 for none
    pinned,        \* .pinned-generations
    pc,            \* where the deployer is
    at,            \* the name it replaces next, in the single-set layout
    deployed,      \* deployments attempted so far
    new,           \* the generation being deployed
    migrating,     \* links are made on behalf of the migration
    victims,       \* generations left for cleanup_generations to remove
    cut            \* history: a crash fell while the names were replaced or
                   \*   linked one after the other

fs == <<file, link, pending, gens, order, current, pinned>>
setup == <<generational, follow>>
vars == <<setup, fs, pc, at, deployed, new, migrating, victims, cut>>

Names == 1 .. N
Contents == 0 .. MaxDeployments
Generation == [Names -> Contents]
Existing == Range(order)

Max2 == 2 * MaxDeployments

TypeOK ==
    /\ generational \in BOOLEAN /\ follow \in LinkModes
    /\ file \in Generation
    /\ link \subseteq Names /\ pending \subseteq Names
    /\ gens \in Seq(Generation) /\ Len(gens) <= Max2
    /\ order \in Seq(DOMAIN gens) /\ IsInjective(order)
    /\ current \in 0 .. Len(gens) /\ new \in 0 .. Len(gens)
    /\ pinned \subseteq DOMAIN gens /\ victims \subseteq DOMAIN gens
    /\ pc \in {"idle", "replace", "migrate", "adopt", "links", "rename",
               "select", "retain", "remove"}
    /\ at \in Names
    /\ deployed \in Contents
    /\ migrating \in BOOLEAN /\ cut \in BOOLEAN

Init ==
    /\ generational \in BOOLEAN /\ follow \in LinkModes
    /\ file = [n \in Names |-> 0]
    /\ link = {} /\ pending = {}
    /\ gens = <<>> /\ order = <<>>
    /\ current = 0 /\ new = 0
    /\ pinned = {} /\ victims = {}
    /\ pc = "idle" /\ at = 1
    /\ deployed = 0
    /\ migrating = FALSE /\ cut = FALSE

\* What a consumer finds under name n.
Shown(n) ==
    IF n \notin link THEN file[n]
    ELSE IF current \in Existing THEN gens[current][n] ELSE 0

-----------------------------------------------------------------------------
(***************************************************************************)
(* The single-set layout: _replace_artifacts renames name after name.      *)
(***************************************************************************)
DeployFiles ==
    /\ pc = "idle" /\ ~generational
    /\ deployed < MaxDeployments
    /\ deployed' = deployed + 1
    /\ pc' = "replace" /\ at' = 1
    /\ UNCHANGED <<setup, cut, fs, new, migrating, victims>>

\* Mutant: the loop stops before the last name.
ReplaceArtifactTooFew ==
    /\ pc = "replace"
    /\ file' = [file EXCEPT ![at] = deployed]
    /\ link' = link \ {at}
    /\ IF at < N - 1 THEN at' = at + 1 /\ UNCHANGED pc
       ELSE at' = 1 /\ pc' = "idle"
    /\ UNCHANGED <<setup, cut, pending, gens, order, current, pinned,
                   deployed, new, migrating, victims>>

\* Mutant: the loop runs past the last name.
ReplaceArtifactTooFar ==
    /\ pc = "replace"
    /\ file' = [file EXCEPT ![at] = deployed]
    /\ link' = link \ {at}
    /\ IF at <= N THEN at' = at + 1 /\ UNCHANGED pc
       ELSE at' = 1 /\ pc' = "idle"
    /\ UNCHANGED <<setup, cut, pending, gens, order, current, pinned,
                   deployed, new, migrating, victims>>

ReplaceArtifact ==
    /\ pc = "replace"
    /\ file' = [file EXCEPT ![at] = deployed]
    /\ link' = link \ {at}
    /\ IF at < N THEN at' = at + 1 /\ UNCHANGED pc
       ELSE at' = 1 /\ pc' = "idle"
    /\ UNCHANGED <<setup, cut, pending, gens, order, current, pinned,
                   deployed, new, migrating, victims>>

-----------------------------------------------------------------------------
(***************************************************************************)
(* _deploy_generation and the migration: os.replace makes the staging      *)
(* directory, complete by then, a generation.                              *)
(***************************************************************************)
Publish(content) ==
    /\ gens' = Append(gens, content)
    /\ order' = Append(order, Len(gens) + 1)

DeployGeneration ==
    /\ pc = "idle" /\ generational
    /\ deployed < MaxDeployments
    /\ deployed' = deployed + 1
    /\ Publish([n \in Names |-> deployed + 1])
    /\ new' = Len(gens) + 1
    /\ pc' = "migrate"
    /\ UNCHANGED <<setup, cut, file, link, pending, current, pinned, at,
                   migrating, victims>>

(***************************************************************************)
(* _migrate_legacy_compatibility_links.  A name os.link cannot link ends   *)
(* the deployment.  A link that is not followed is itself linked, and as   *)
(* it is relative to the directory, it leads nowhere from the snapshot.    *)
(***************************************************************************)
Present(n) == n \in link \/ file[n] # 0

\* Mutant: one link is taken for a finished migration.
NothingToMigrateIfAnyLink == link # {} \/ \A n \in Names : ~Present(n)

NothingToMigrate ==
    \/ \A n \in Names : ~Present(n)
    \/ link = Names

\* Mutant: a missing name is skipped.
LinkableAlways(n) == TRUE

Linkable(n) == IF follow THEN Shown(n) # 0 ELSE Present(n)

MigrateNothing ==
    /\ pc = "migrate"
    /\ NothingToMigrate
    /\ pc' = "select"
    /\ UNCHANGED <<setup, cut, fs, at, deployed, new, migrating, victims>>

MigrateFails ==
    /\ pc = "migrate"
    /\ ~NothingToMigrate
    /\ \E n \in Names : ~Linkable(n)
    /\ pc' = "idle"
    /\ UNCHANGED <<setup, cut, fs, at, deployed, new, migrating, victims>>

\* Mutant: only regular files are taken into the snapshot.
SnapshotFilesOnly ==
    /\ pc = "migrate"
    /\ ~NothingToMigrate
    /\ \A n \in Names : Linkable(n)
    /\ Publish(file)
    /\ pc' = "adopt"
    /\ UNCHANGED <<setup, cut, file, link, pending, current, pinned, at,
                   deployed, new, migrating, victims>>

MigrateSnapshot ==
    /\ pc = "migrate"
    /\ ~NothingToMigrate
    /\ \A n \in Names : Linkable(n)
    /\ Publish([n \in Names |-> IF n \in link /\ ~follow THEN 0 ELSE Shown(n)])
    /\ pc' = "adopt"
    /\ UNCHANGED <<setup, cut, file, link, pending, current, pinned, at,
                   deployed, new, migrating, victims>>

\* The snapshot becomes current before the names become links through it.
MigrateAdopt ==
    /\ pc = "adopt"
    /\ current' = Len(gens)
    /\ migrating' = TRUE
    /\ pc' = "links"
    /\ UNCHANGED <<setup, cut, file, link, pending, gens, order, pinned, at,
                   deployed, new, victims>>

(***************************************************************************)
(* _ensure_compatibility_links, first for the migration and then for the   *)
(* new generation.  A `.n.pending` left by a crash fails symlink_to.       *)
(***************************************************************************)
NextName == CHOOSE n \in Names \ link : \A m \in Names \ link : n <= m

LinkPending ==
    /\ pc = "links" /\ link # Names
    /\ NextName \notin pending
    /\ pending' = pending \union {NextName}
    /\ pc' = "rename"
    /\ UNCHANGED <<setup, cut, file, link, gens, order, current, pinned, at,
                   deployed, new, migrating, victims>>

LinkFails ==
    /\ pc = "links" /\ link # Names
    /\ NextName \in pending
    /\ pc' = "idle"
    /\ migrating' = FALSE
    /\ UNCHANGED <<setup, cut, fs, at, deployed, new, victims>>

LinkRename ==
    /\ pc = "rename"
    /\ pending' = pending \ {NextName}
    /\ link' = link \union {NextName}
    /\ file' = [file EXCEPT ![NextName] = 0]
    /\ pc' = "links"
    /\ UNCHANGED <<setup, cut, gens, order, current, pinned, at, deployed,
                   new, migrating, victims>>

LinksDone ==
    /\ pc = "links" /\ link = Names
    /\ pc' = IF migrating THEN "select" ELSE "retain"
    /\ migrating' = FALSE
    /\ UNCHANGED <<setup, cut, fs, at, deployed, new, victims>>

\* _select_generation_directory for the new generation.
SelectNew ==
    /\ pc = "select"
    /\ current' = new
    /\ pc' = "links"
    /\ UNCHANGED <<setup, cut, file, link, pending, gens, order, pinned, at,
                   deployed, new, migrating, victims>>

-----------------------------------------------------------------------------
(***************************************************************************)
(* cleanup_generations.  The generations are ranked newest first; of those *)
(* past every limit that is set, all but the current and the pinned ones   *)
(* are removed.  old is the rank from which on they exceed the age limit.  *)
(***************************************************************************)
Place(g) == CHOOSE i \in DOMAIN order : order[i] = g

Rank(g) == Len(order) - Place(g)

Exceeding(old) ==
    {g \in Existing : /\ RetentionCount = 0 \/ Rank(g) >= RetentionCount
                      /\ ~ByAge \/ Rank(g) >= old}

\* Mutant: the current generation is not spared.
RemovableCurrent(old) ==
    IF RetentionCount = 0 /\ ~ByAge THEN {} ELSE Exceeding(old) \ pinned

Removable(old) ==
    IF RetentionCount = 0 /\ ~ByAge THEN {}
    ELSE Exceeding(old) \ ({current} \union pinned)

Retain(old) ==
    /\ pc = "retain"
    /\ victims' = Removable(old)
    /\ pc' = "remove"
    /\ UNCHANGED <<setup, cut, fs, at, deployed, new, migrating>>

\* rmtree unlinks the files in any order, which renews the mtime.
RemoveFile(g, n) ==
    /\ pc = "remove" /\ g \in victims
    /\ gens[g][n] # 0
    /\ gens' = [gens EXCEPT ![g][n] = 0]
    /\ order' = Append(RemoveAt(order, Place(g)), g)
    /\ UNCHANGED <<setup, cut, file, link, pending, current, pinned, pc, at,
                   deployed, new, migrating, victims>>

RemoveDirectory(g) ==
    /\ pc = "remove" /\ g \in victims
    /\ \A n \in Names : gens[g][n] = 0
    /\ order' = RemoveAt(order, Place(g))
    /\ victims' = victims \ {g}
    /\ UNCHANGED <<setup, cut, file, link, pending, gens, current, pinned,
                   pc, at, deployed, new, migrating>>

\* Nothing is left to remove, or an OSError of the cleanup is only logged.
Deployed ==
    /\ pc = "remove"
    /\ pc' = "idle"
    /\ victims' = {}
    /\ UNCHANGED <<setup, cut, fs, at, deployed, new, migrating>>

-----------------------------------------------------------------------------
\* select_generation, on behalf of POST .../generations/select.
SelectGeneration(g) ==
    /\ pc = "idle" /\ generational
    /\ g \in Existing
    /\ current' = g
    /\ UNCHANGED <<setup, cut, file, link, pending, gens, order, pinned, pc,
                   at, deployed, new, migrating, victims>>

\* pin_generation.
PinGeneration(g) ==
    /\ pc = "idle"
    /\ g \in Existing
    /\ pinned' = pinned \union {g}
    /\ UNCHANGED <<setup, cut, file, link, pending, gens, order, current, pc,
                   at, deployed, new, migrating, victims>>

\* A crash at any point, and a restart with either setting of the layout.
Restart(mode) ==
    /\ generational' = mode
    /\ pc' = "idle" /\ at' = 1
    /\ migrating' = FALSE
    /\ victims' = {}
    /\ cut' = \/ cut
              \/ pc = "replace"
              \/ pc \in {"links", "rename"} /\ link # Names
    /\ UNCHANGED <<follow, fs, deployed, new>>

-----------------------------------------------------------------------------
PublishNext ==
    \/ DeployGeneration
    \/ MigrateNothing \/ MigrateFails
    \/ MigrateSnapshot \/ MigrateAdopt
    \/ LinkPending \/ LinkFails \/ LinkRename \/ LinksDone
    \/ SelectNew

CleanupNext ==
    \/ \E old \in 0 .. Len(order) : Retain(old)
    \/ \E g \in victims : \/ RemoveDirectory(g)
                          \/ \E n \in Names : RemoveFile(g, n)
    \/ Deployed

Next ==
    \/ DeployFiles \/ ReplaceArtifact
    \/ PublishNext \/ CleanupNext
    \/ \E g \in Existing : SelectGeneration(g) \/ PinGeneration(g)
    \/ \E mode \in BOOLEAN : Restart(mode)

Spec == Init /\ [][Next]_vars

-----------------------------------------------------------------------------
(***************************************************************************)
(* Publishing a generation never mixes two certificates under the artifact *)
(* names: if what the names show comes from one deployment, it does after  *)
(* every step of _deploy_generation, at whatever step of an earlier one a  *)
(* crash fell and whichever layout was used before.  (A private key beside *)
(* another certificate breaks every consumer that reloads.)                *)
(***************************************************************************)
OneSet ==
    \A m, n \in Names :
        Shown(m) # 0 /\ Shown(n) # 0 => Shown(m) = Shown(n)

GenerationsNeverMix == [][PublishNext /\ OneSet => OneSet']_vars

(***************************************************************************)
(* README: the selected and the pinned generations are never removed.  No  *)
(* step takes a file or the directory of one away, a cleanup resumed after *)
(* a crash and a cleanup during a migration included.                      *)
(***************************************************************************)
ProtectedKept ==
    [][\A g \in Existing \intersect (pinned \union {current}) :
           g \in Existing' /\ gens'[g] = gens[g]]_vars

(***************************************************************************)
(* Consumers keep their paths: a name that showed an artifact shows one    *)
(* after every step of a deployment, of either layout, if os.link follows  *)
(* symbolic links.                                                         *)
(***************************************************************************)
NamesKeepResolving ==
    [][follow /\ (PublishNext \/ CleanupNext \/ ReplaceArtifact) =>
           \A n \in Names : Shown(n) # 0 => Shown(n)' # 0]_vars

(***************************************************************************)
(* What becomes current is complete, if os.link follows symbolic links and *)
(* unless select_generation chose a generation whose removal had been cut  *)
(* short (it asks only whether the directory exists).                      *)
(***************************************************************************)
Whole(g) == g \in Existing /\ \A n \in Names : gens[g][n] # 0

CurrentIsWhole ==
    [][follow /\ current' # current => Whole(current)'
           \/ \E g \in Existing : ~Whole(g) /\ SelectGeneration(g)]_vars

(***************************************************************************)
(* A deployment of a generation fails only if a crash fell while the names *)
(* were replaced or linked one after the other: a crash at any other step  *)
(* (before the snapshot is adopted or the generation selected, in the      *)
(* cleanup), a change of the layout and a cleanup that gave up leave a     *)
(* directory the next deployment can use.                                  *)
(***************************************************************************)
OnlyCutLinkingBlocks == [][LinkFails \/ MigrateFails => cut]_vars

=============================================================================
