------------------------------- MODULE AgentSets -------------------------------
(***************************************************************************)
(* The agent sets of one owner (agents.ts), the checkouts of their skill   *)
(* repositories (skill-repos.ts), and the install of the bundle into the   *)
(* home of a box (setup.ts, files/src/agentset.ts).                        *)
(*                                                                         *)
(* The box uses the set "extra" beside the global one.  A pull of a        *)
(* repository awaits git; an install awaits the stream and the setup       *)
(* command, and then works on the home without a break, unless the box     *)
(* goes down in the middle.  The content of a skill names its source.      *)
(***************************************************************************)
EXTENDS Naturals, FiniteSets, Sequences, SequencesExt

CONSTANTS Skill,          \* the names of skills
          FirstSkills, LaterSkills,  \* the skills in the first commit of the repositories, and in the next
          BuiltinSkill, ImageSkill,
          MaxRepositories, MaxSetChanges, MaxInstalls, MaxDowns

ASSUME SetsAssumption ==
  /\ FirstSkills \subseteq Skill /\ LaterSkills \subseteq Skill
  /\ BuiltinSkill \subseteq Skill /\ ImageSkill \subseteq Skill
  /\ MaxRepositories \in Nat /\ MaxSetChanges \in Nat /\ MaxInstalls \in Nat /\ MaxDowns \in Nat

VARIABLES
  \* The rows.
  extraSet,     \* the second set is there
  items,        \* the skills that each set holds itself
  repos,        \* the repositories of each set, in the order of their rows
  lastRepo,     \* the last id of a repository
  found,        \* what the row of a repository says: a commit and its skills
  \* The data directory.
  repoDirs,     \* the repositories with a directory
  tree,         \* the commit that is checked out, 0 for none
  pulls,        \* AgentStore.pulls: "fetching", and "fetched" until the row is written
  remote,       \* the commit that the repositories are at
  \* The home of the box.
  home,         \* what is in the directory of each skill
  managed,      \* the skills that the record of the last install names
  install,      \* how far the install is
  bundle,       \* what it installs
  todo,         \* the skills that its step has left
  setChanges, installs, downs,
  \* For the properties.
  expected,     \* what the box should get, from the rows and checkouts at the start of its setup
  strays,       \* directories that a pull left behind when it failed or was cut
  behind        \* the orchestrator ended between a checkout and its row

setRowVars == <<extraSet, items, repos, lastRepo, found>>
checkoutVars == <<repoDirs, tree, pulls, remote, strays, behind>>
homeVars == <<home, managed, install, bundle, todo, installs, expected>>
setVars == <<setRowVars, checkoutVars, homeVars, setChanges, downs>>

AgentSet == {"global", "extra"}
RepoId == 1..MaxRepositories
\* findSkills.
InCommit == <<FirstSkills, LaterSkills>>
Commit == DOMAIN InCommit
None == <<>>
Own == <<"agent">>
Source == {None, Own, <<"image">>, <<"builtin">>} \cup {<<"item", s>> : s \in AgentSet}
          \cup {<<"repo", r, c>> : r \in RepoId, c \in Commit}
NotFound == [commit |-> 0, skills |-> {}]

SetsTypeOK ==
  /\ items \in [AgentSet -> SUBSET Skill]
  /\ \A s \in AgentSet : ToSet(repos[s]) \subseteq RepoId
  /\ found \in [RepoId -> [commit : 0..Len(InCommit), skills : SUBSET Skill]]
  /\ repoDirs \subseteq RepoId /\ strays \subseteq RepoId
  /\ tree \in [RepoId -> 0..Len(InCommit)]
  /\ pulls \in [RepoId -> {"no", "fetching", "fetched"}] /\ remote \in Commit
  /\ home \in [Skill -> Source] /\ bundle \in [Skill -> Source] /\ expected \in [Skill -> Source]
  /\ managed \subseteq Skill /\ todo \subseteq Skill
  /\ install \in {"none", "setup", "clearing", "recording", "moving", "image", "installed"}

SetsInit ==
  /\ extraSet = TRUE
  /\ items = [s \in AgentSet |-> {}] /\ repos = [s \in AgentSet |-> <<>>] /\ lastRepo = 0
  /\ found = [r \in RepoId |-> NotFound]
  /\ repoDirs = {} /\ tree = [r \in RepoId |-> 0] /\ pulls = [r \in RepoId |-> "no"] /\ remote = 1
  /\ home = [k \in Skill |-> None] /\ managed = {}
  /\ install = "none" /\ bundle = [k \in Skill |-> None] /\ todo = {}
  /\ setChanges = 0 /\ installs = 0 /\ downs = 0
  /\ expected = [k \in Skill |-> None] /\ strays = {} /\ behind = {}

RepoRows == ToSet(repos["global"]) \cup ToSet(repos["extra"])
SetIsThere(s) == s = "global" \/ extraSet
Changes == setChanges < MaxSetChanges /\ setChanges' = setChanges + 1

(***************************************************************************)
(* The rows.                                                               *)
(***************************************************************************)

\* putItem and deleteItem.
ItemChanges(s, k) ==
  /\ SetIsThere(s) /\ Changes
  /\ items' = [items EXCEPT ![s] = IF k \in @ THEN @ \ {k} ELSE @ \cup {k}]
  /\ UNCHANGED <<extraSet, repos, lastRepo, found, checkoutVars, homeVars, downs>>

\* addRepo: a row under a new id, and its first pull.
RepoIsAdded(s) ==
  LET r == lastRepo + 1
  IN  /\ SetIsThere(s) /\ Changes
      /\ r \in RepoId
      /\ lastRepo' = r
      /\ repos' = [repos EXCEPT ![s] = Append(@, r)]
      /\ pulls' = [pulls EXCEPT ![r] = "fetching"] /\ repoDirs' = repoDirs \cup {r}
      /\ UNCHANGED <<extraSet, items, found, tree, remote, strays, behind, homeVars, downs>>

\* The rows of the repositories go, and then their directories.
ReposGo(rs) ==
  /\ repoDirs' = repoDirs \ rs
  /\ tree' = [r \in RepoId |-> IF r \in rs THEN 0 ELSE tree[r]]
  /\ strays' = strays \ rs

\* deleteRepo.
RepoIsDeleted(s, r) ==
  /\ Changes
  /\ \E i \in DOMAIN repos[s] : repos[s][i] = r /\ repos' = [repos EXCEPT ![s] = RemoveAt(@, i)]
  /\ ReposGo({r})
  /\ UNCHANGED <<extraSet, items, lastRepo, found, pulls, remote, behind, homeVars, downs>>

\* deleteSet, never of the global set.
SetIsDeleted ==
  /\ extraSet /\ Changes
  /\ extraSet' = FALSE
  /\ items' = [items EXCEPT !["extra"] = {}] /\ repos' = [repos EXCEPT !["extra"] = <<>>]
  /\ ReposGo(ToSet(repos["extra"]))
  /\ UNCHANGED <<lastRepo, found, pulls, remote, behind, homeVars, downs>>

(***************************************************************************)
(* The pulls.                                                              *)
(***************************************************************************)

\* pullDue: the directories without a row go.
StraysAreSwept ==
  /\ repoDirs \ RepoRows # {}
  /\ ReposGo(repoDirs \ RepoRows)
  /\ UNCHANGED <<setRowVars, pulls, remote, behind, homeVars, setChanges, downs>>

\* pullRepo, for a refresh or a due repository: a pull that runs is joined.
PullBegins(r) ==
  /\ r \in RepoRows /\ pulls[r] = "no" /\ Changes
  /\ pulls' = [pulls EXCEPT ![r] = "fetching"] /\ repoDirs' = repoDirs \cup {r}
  /\ strays' = strays \ {r}
  /\ UNCHANGED <<setRowVars, tree, remote, behind, homeVars, downs>>

\* The repositories get a commit.
RemoteMoves ==
  /\ remote + 1 \in Commit
  /\ remote' = remote + 1
  /\ UNCHANGED <<setRowVars, repoDirs, tree, pulls, strays, behind, homeVars, setChanges, downs>>

\* fetchRepo, after its last await: the checkout replaces the old one, unless the row
\* has gone.
FetchEnds(r) ==
  /\ pulls[r] = "fetching"
  /\ IF r \in RepoRows
       THEN repoDirs' = repoDirs \cup {r} /\ tree' = [tree EXCEPT ![r] = remote]
       ELSE repoDirs' = repoDirs \ {r} /\ tree' = [tree EXCEPT ![r] = 0]
  /\ pulls' = [pulls EXCEPT ![r] = "fetched"]
  /\ strays' = strays \ {r}
  /\ UNCHANGED <<setRowVars, remote, behind, homeVars, setChanges, downs>>

\* Git fails; when the directory was deleted meanwhile, git may have made it anew.
FetchFails(r) ==
  /\ pulls[r] = "fetching"
  /\ pulls' = [pulls EXCEPT ![r] = "no"]
  /\ \/ UNCHANGED <<repoDirs, strays>>
     \/ r \notin RepoRows /\ repoDirs' = repoDirs \cup {r} /\ strays' = strays \cup {r}
  /\ UNCHANGED <<setRowVars, tree, remote, behind, homeVars, setChanges, downs>>

\* fetchAndRecord: the row gets the commit and its skills, if it is still there.
PullIsRecorded(r) ==
  /\ pulls[r] = "fetched"
  /\ pulls' = [pulls EXCEPT ![r] = "no"]
  /\ found' = IF r \in RepoRows THEN [found EXCEPT ![r] = [commit |-> tree[r], skills |-> InCommit[tree[r]]]] ELSE found
  /\ behind' = IF r \in RepoRows THEN behind \ {r} ELSE behind
  /\ UNCHANGED <<extraSet, items, repos, lastRepo, repoDirs, tree, remote, strays, homeVars, setChanges, downs>>

\* The orchestrator ends in the middle of pulls.  One of them may be between the removal
\* of the old checkout and the rename of the new one.
PullsAreCut ==
  /\ downs < MaxDowns /\ downs' = downs + 1
  /\ \E r \in RepoId : pulls[r] # "no"
  /\ pulls' = [r \in RepoId |-> "no"]
  /\ \E lost \in SUBSET {r \in RepoId : pulls[r] = "fetching"} :
       /\ Cardinality(lost) <= 1
       /\ tree' = [r \in RepoId |-> IF r \in lost THEN 0 ELSE tree[r]]
       /\ behind' = behind \cup lost \cup {r \in RepoId : pulls[r] = "fetched"}
  /\ strays' = strays \cup {r \in repoDirs : pulls[r] = "fetching"}
  /\ UNCHANGED <<setRowVars, repoDirs, remote, homeVars, setChanges>>

(***************************************************************************)
(* The bundle.                                                             *)
(***************************************************************************)

\* skillsOf: the first repository with the name, and what the set holds itself over it.
WithRepo(skills, r) ==
  [k \in Skill |-> IF skills[k] = None /\ k \in found[r].skills THEN <<"repo", r, tree[r]>> ELSE skills[k]]
OfRepos(rs) ==
  LET upTo[i \in 0..Len(rs)] == IF i = 0 THEN [k \in Skill |-> None] ELSE WithRepo(upTo[i - 1], rs[i])
  IN  upTo[Len(rs)]
SkillsOf(s) == [k \in Skill |-> IF k \in items[s] THEN <<"item", s>> ELSE OfRepos(repos[s])[k]]

\* merge: the second set over the global one.
Merged ==
  LET extra == SkillsOf("extra")
  IN  [k \in Skill |-> IF extraSet /\ extra[k] # None THEN extra[k] ELSE SkillsOf("global")[k]]

\* addTree: a directory that the checkout of now does not have adds nothing.
IsInTree(source, k) == source[1] = "repo" => source[3] \in Commit /\ k \in InCommit[source[3]]

\* pack: the builtin skills below all others, and then the files.
Packed ==
  LET all == [k \in Skill |-> IF Merged[k] = None /\ k \in BuiltinSkill THEN <<"builtin">> ELSE Merged[k]]
  IN  [k \in Skill |-> IF all[k] # None /\ IsInTree(all[k], k) THEN all[k] ELSE None]

\* Where a skill is to come from: from the first place of the second set that has it, then
\* of the global one, and then from the builtin skills.  Place 0 is the set itself.
SourceAt(s, i) == IF i = 0 THEN <<"item", s>> ELSE <<"repo", repos[s][i], tree[repos[s][i]]>>
HasSkill(s, i, k) == IF i = 0 THEN k \in items[s] ELSE k \in found[repos[s][i]].skills
FirstPlace(s, k) ==
  {i \in 0..Len(repos[s]) : SetIsThere(s) /\ HasSkill(s, i, k) /\ \A j \in 0..(i - 1) : ~HasSkill(s, j, k)}
Strongest(k) ==
  IF FirstPlace("extra", k) # {} THEN {SourceAt("extra", i) : i \in FirstPlace("extra", k)}
  ELSE IF FirstPlace("global", k) # {} THEN {SourceAt("global", i) : i \in FirstPlace("global", k)}
  ELSE {<<"builtin">> : b \in {k} \cap BuiltinSkill}
Ranked(k) ==
  IF \E x \in Strongest(k) : IsInTree(x, k) THEN CHOOSE x \in Strongest(k) : TRUE ELSE None

(***************************************************************************)
(* The install.                                                            *)
(***************************************************************************)

\* makeReady and setUpBox: the bundle is packed, before the setup files and the setup
\* command of the box.
InstallBegins ==
  /\ install \in {"none", "installed"} /\ installs < MaxInstalls
  /\ installs' = installs + 1
  /\ install' = "setup"
  /\ bundle' = Packed
  /\ expected' = [k \in Skill |-> Ranked(k)]
  /\ UNCHANGED <<setRowVars, checkoutVars, home, managed, todo, setChanges, downs>>

\* A step before the install fails, or the stream is cut: nothing has changed.
SetupFails ==
  /\ install = "setup"
  /\ install' = "none"
  /\ UNCHANGED <<setRowVars, checkoutVars, home, managed, bundle, todo, installs, expected, setChanges, downs>>

InTheBox == UNCHANGED <<setRowVars, checkoutVars, bundle, installs, expected, setChanges, downs>>

\* installAgentSet: the set is in the stage directory.
SetIsUnpacked ==
  /\ install = "setup"
  /\ install' = "clearing" /\ todo' = managed
  /\ UNCHANGED <<home, managed>> /\ InTheBox

\* removeManaged.
UnitIsCleared(k) ==
  /\ install = "clearing" /\ k \in todo
  /\ home' = [home EXCEPT ![k] = None] /\ todo' = todo \ {k}
  /\ UNCHANGED <<managed, install>> /\ InTheBox

RecordIsRemoved ==
  /\ install = "clearing" /\ todo = {}
  /\ managed' = {} /\ install' = "recording"
  /\ UNCHANGED <<home, todo>> /\ InTheBox

\* A mutant: the record is written without the skills that are not in the home yet.
RecordIsWritten_Late ==
  /\ install = "recording"
  /\ managed' = {k \in Skill : bundle[k] # None /\ home[k] # None}
  /\ install' = "moving" /\ todo' = {k \in Skill : bundle[k] # None}
  /\ UNCHANGED home /\ InTheBox

\* The record comes before the move.
RecordIsWritten ==
  /\ install = "recording"
  /\ managed' = {k \in Skill : bundle[k] # None}
  /\ install' = "moving" /\ todo' = managed'
  /\ UNCHANGED home /\ InTheBox

UnitIsMoved(k) ==
  /\ install = "moving" /\ k \in todo
  /\ home' = [home EXCEPT ![k] = bundle[k]] /\ todo' = todo \ {k}
  /\ UNCHANGED <<managed, install>> /\ InTheBox

UnitsAreMoved ==
  /\ install = "moving" /\ todo = {}
  /\ install' = "image" /\ todo' = {k \in ImageSkill : bundle[k] = None}
  /\ UNCHANGED <<home, managed>> /\ InTheBox

\* installImageSkills.
ImageSkillIsCopied(k) ==
  /\ install = "image" /\ k \in todo
  /\ home' = [home EXCEPT ![k] = <<"image">>] /\ todo' = todo \ {k}
  /\ UNCHANGED <<managed, install>> /\ InTheBox

InstallEnds ==
  /\ install = "image" /\ todo = {}
  /\ install' = "installed"
  /\ UNCHANGED <<home, managed, todo>> /\ InTheBox

\* The box goes down in the middle: a move may be between its removal and its rename.
BoxGoesDown ==
  /\ downs < MaxDowns /\ downs' = downs + 1
  /\ install \notin {"none", "installed"}
  /\ install' = "none" /\ todo' = {}
  /\ \E cut \in SUBSET (IF install \in {"moving", "image"} THEN todo ELSE {}) :
       /\ Cardinality(cut) <= 1
       /\ home' = [k \in Skill |-> IF k \in cut THEN None ELSE home[k]]
  /\ UNCHANGED <<setRowVars, checkoutVars, managed, bundle, installs, expected, setChanges>>

\* The agent, who works only after the setup, writes a skill of its own, or deletes one.
AgentChangesSkill(k) ==
  /\ install = "installed" /\ Changes
  /\ home' = [home EXCEPT ![k] = IF @ = None THEN Own ELSE None]
  /\ UNCHANGED <<setRowVars, checkoutVars, managed, install, bundle, todo, installs, expected, downs>>

SetsNext ==
  \/ \E s \in AgentSet : (\E k \in Skill : ItemChanges(s, k)) \/ RepoIsAdded(s) \/ \E r \in RepoId : RepoIsDeleted(s, r)
  \/ SetIsDeleted \/ StraysAreSwept \/ RemoteMoves \/ PullsAreCut
  \/ \E r \in RepoId : PullBegins(r) \/ FetchEnds(r) \/ FetchFails(r) \/ PullIsRecorded(r)
  \/ InstallBegins \/ SetupFails \/ SetIsUnpacked \/ RecordIsRemoved \/ RecordIsWritten \/ UnitsAreMoved
  \/ InstallEnds \/ BoxGoesDown
  \/ \E k \in Skill : UnitIsCleared(k) \/ UnitIsMoved(k) \/ ImageSkillIsCopied(k) \/ AgentChangesSkill(k)

SetsSpec == SetsInit /\ [][SetsNext]_setVars

(***************************************************************************)
(* Properties.                                                             *)
(***************************************************************************)

\* An install that ends leaves the skills of the sets as they stood at its setup, by
\* their order of strength, and then those of the image, and no skill of an earlier
\* install, however that one ended.
HomeIsTheSet ==
  \A k \in Skill :
    /\ expected[k] # None => home[k] = expected[k]
    /\ expected[k] = None /\ k \in ImageSkill => home[k] = <<"image">>
    /\ expected[k] = None /\ k \notin ImageSkill => home[k] \in {None, Own}

\* A skill of the agent stays, unless the sets or the image have one of its name, or it
\* took the place of one that an install had recorded.
OwnSkillStays ==
  \A k \in Skill :
    home[k] = Own /\ home'[k] # Own =>
      k \in managed \cup ImageSkill \/ bundle[k] # None \/ install = "installed"

\* What the row of a repository shows is what is checked out, except between the two
\* and after a crash there.  And a directory without a row is one that a pull works
\* on, or that it left when it failed or was cut, which the next sweep takes.
CheckoutsAreRecorded ==
  \A r \in RepoId :
    /\ r \in RepoRows /\ pulls[r] # "fetched" /\ r \notin behind => found[r].commit = tree[r]
    /\ r \in repoDirs \ RepoRows => pulls[r] # "no" \/ r \in strays

\* The agent sets keep their promises to the box and to the data directory.
SetsAreInstalled ==
  /\ [](SetsTypeOK /\ CheckoutsAreRecorded)
  /\ [][(InstallEnds => HomeIsTheSet') /\ OwnSkillStays]_setVars
=============================================================================
