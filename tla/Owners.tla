--------------------------------- MODULE Owners ---------------------------------
(***************************************************************************)
(* Who owns what.  A deployment serves one user without a name, or the     *)
(* users that its reverse proxy names (users.ts, the hooks of app.ts); the *)
(* operator changes that with a restart.  The rows of the user without a   *)
(* name then go to the first user who comes.  The tables are credentials   *)
(* and api_keys (credentials.ts, api-keys.ts), egress_profiles             *)
(* (egress-profiles.ts), agent_sets (agents.ts) and boxes (boxes.ts).      *)
(*                                                                         *)
(* Profiles and agent sets are alike: each owner has a default one, which  *)
(* is made when it is first needed and cannot be deleted, and a box names  *)
(* another one, or none for the default.  A row is deleted together with   *)
(* the names of it in the boxes (ON DELETE SET NULL).                      *)
(***************************************************************************)
EXTENDS Naturals, FiniteSets, Functions

CONSTANTS NamedUser,          \* the users that the reverse proxy names
          OwnBox,        \* the ids of boxes
          MaxPlaceholders, \* bound: placeholders that are made
          MaxLists,      \* bound: profiles and sets at a time
          MaxModes,      \* bound: restarts
          MaxAsks        \* bound: requests that change something

ASSUME OwnersAssumption ==
  /\ "" \notin NamedUser /\ MaxPlaceholders \in Nat /\ MaxLists \in Nat /\ MaxModes \in Nat /\ MaxAsks \in Nat

VARIABLES
  \* The process.
  multi,       \* AUTH_USER_HEADER is set
  ready,       \* boot.ready
  unowned,     \* the rows without an owner wait for the first user
  creating,    \* the create of a box that waits for its image
  refreshing,  \* the credential that is refreshed
  \* The database.
  secrets,     \* the rows of credentials and api_keys, by owner and name
  lists,       \* the rows of egress_profiles and agent_sets
  ownBoxes,    \* the rows of boxes
  \* Outside.
  boxEnvs,     \* the placeholders in the environment of each container
  told,      \* what the proxy was told last
  placeholders, modes, requests,
  \* For the properties.
  claimer,     \* the user who was given the rows without an owner last
  torn         \* the placeholders of containers that no row has any more

processVars == <<multi, ready, unowned, creating, refreshing>>
tableVars == <<secrets, lists, ownBoxes>>
ownerVars == <<processVars, tableVars, boxEnvs, told, placeholders, modes, requests, claimer, torn>>

Owner == NamedUser \cup {""}
SecretName == {"credential", "key"}
Shape == {"long", "short"}
ListKind == {"profile", "set"}
NoCreate == [box |-> "none", owner |-> "", profile |-> 0, set |-> 0]
NoList == 0
NoOne == "nobody"

List(kind, id, owner, standard, open) ==
  [kind |-> kind, id |-> id, owner |-> owner, standard |-> standard, open |-> open]
OwnersTypeOK ==
  /\ multi \in BOOLEAN /\ ready \in BOOLEAN /\ unowned \in BOOLEAN
  /\ DOMAIN secrets \subseteq Owner \X SecretName
  /\ \A l \in lists : l.kind \in ListKind /\ l.id \in Nat \ {NoList} /\ l.owner \in Owner
  /\ DOMAIN ownBoxes \subseteq OwnBox
  /\ DOMAIN boxEnvs \subseteq DOMAIN ownBoxes

OwnersInit ==
  /\ multi \in BOOLEAN /\ ready = FALSE /\ unowned = FALSE /\ creating = NoCreate /\ refreshing = <<>>
  /\ secrets = <<>> /\ lists = {} /\ ownBoxes = <<>>
  /\ boxEnvs = <<>> /\ told = [boxes |-> <<>>, secrets |-> {}]
  /\ placeholders = 0 /\ modes = 0 /\ requests = 0
  /\ claimer = NoOne /\ torn = {}

(***************************************************************************)
(* The tables.                                                             *)
(***************************************************************************)

Drop(f, keys) == [k \in DOMAIN f \ keys |-> f[k]]
With(f, key, value) == [k \in DOMAIN f \cup {key} |-> IF k = key THEN value ELSE f[k]]

Of(rows, kind, owner) == {l \in rows : l.kind = kind /\ l.owner = owner}
Standard(rows, kind, owner) == {l \in Of(rows, kind, owner) : l.standard}
Selected(rows, kind, owner, id) == {l \in Of(rows, kind, owner) : l.id = id}
NamedIds == {creating.profile, creating.set} \cup UNION {{ownBoxes[b].profile, ownBoxes[b].set} : b \in DOMAIN ownBoxes}
UsedIds(rows) == {l.id : l \in rows} \cup NamedIds
\* An id that nothing names yet (randomBytes).
FreshId(rows) == CHOOSE id \in 1..(Cardinality(UsedIds(rows)) + 1) : id \notin UsedIds(rows)

\* defaultId and globalId: the default row of each of the owners, which is made when there is none.
WithStandards(rows, kind, owners) ==
  LET missing == {o \in owners : Standard(rows, kind, o) = {}}
      id == CHOOSE f \in [missing -> 1..(Cardinality(UsedIds(rows)) + Cardinality(missing))] :
              IsInjective(f) /\ \A o \in missing : f[o] \notin UsedIds(rows)
  IN  rows \cup {List(kind, id[o], o, TRUE, TRUE) : o \in missing}
WithStandard(rows, kind, owner) == WithStandards(rows, kind, {owner})
Fits(rows) == Cardinality(rows) <= MaxLists

\* forBox: the row that the box names, or the default of its owner.
ForBox(rows, kind, owner, id) ==
  LET named == Selected(rows, kind, owner, id)
  IN  CHOOSE l \in (IF named # {} THEN named ELSE Standard(rows, kind, owner)) : TRUE

\* summarize: the boxes that a row counts as its own.  The default set counts none.
BoxCount(l) ==
  Cardinality({b \in DOMAIN ownBoxes :
    \/ ownBoxes[b][l.kind] = l.id
    \/ l.kind = "profile" /\ l.standard /\ ownBoxes[b].profile = NoList /\ ownBoxes[b].owner = l.owner})

\* egressBoxes makes the default profiles that the boxes need.
AfterCompose(rows, boxes) ==
  WithStandards(rows, "profile",
    {boxes[b].owner : b \in {c \in DOMAIN boxes : Selected(rows, "profile", boxes[c].owner, boxes[c].profile) = {}}})

\* composePolicy: the profile of each box, and every stored secret with its placeholder.
Compose(rows, table, boxes) ==
  [boxes |-> [b \in DOMAIN boxes |-> [owner |-> boxes[b].owner,
                                      open |-> ForBox(rows, "profile", boxes[b].owner, boxes[b].profile).open]],
   secrets |-> {[row |-> k, placeholder |-> table[k].placeholder] : k \in DOMAIN table}]

\* The policy is composed and pushed: at the boot, and when a row has changed.
Pushes(rows, table, boxes) ==
  LET all == AfterCompose(rows, boxes)
  IN  /\ Fits(all)
      /\ lists' = all /\ secrets' = table /\ ownBoxes' = boxes
      /\ told' = Compose(all, table, boxes)

\* The placeholders of containers that a change of the table leaves without a row.
TornBy(table, boxes) ==
  {at \in (DOMAIN boxEnvs) \X SecretName :
     LET key == <<boxes[at[1]].owner, at[2]>>
     IN  /\ boxEnvs[at[1]][at[2]] # 0
         /\ key \notin DOMAIN table \/ table[key].placeholder # boxEnvs[at[1]][at[2]]}

(***************************************************************************)
(* The process and its requests.                                           *)
(***************************************************************************)

HasUnownedData ==
  \/ \E k \in DOMAIN secrets : k[1] = ""
  \/ \E l \in lists : l.owner = ""
  \/ \E b \in DOMAIN ownBoxes : ownBoxes[b].owner = ""

\* The process ends, and starts with or without the header; its requests are lost.
ProcessRestarts ==
  /\ modes < MaxModes /\ modes' = modes + 1
  /\ multi' \in BOOLEAN
  /\ ready' = FALSE /\ creating' = NoCreate /\ refreshing' = <<>>
  /\ unowned' = (multi' /\ HasUnownedData)
  /\ UNCHANGED <<tableVars, boxEnvs, told, placeholders, requests, claimer, torn>>

BootEnds ==
  /\ ~ready /\ ready' = TRUE
  /\ Pushes(lists, secrets, ownBoxes)
  /\ UNCHANGED <<multi, unowned, creating, refreshing, boxEnvs, placeholders, modes, requests, claimer, torn>>

\* requestUser and the hooks: who a request is from, after the boot.
IsUser(user) == ready /\ (IF multi THEN user \in NamedUser ELSE user = "") /\ ~unowned

\* claimUnownedData: each row goes to the user, unless the user has one with the same key.
Claimed(table, user) ==
  LET moved == {k \in DOMAIN table : k[1] = "" /\ <<user, k[2]>> \notin DOMAIN table}
  IN  [k \in (DOMAIN table \ moved) \cup {<<user, m[2]>> : m \in moved} |->
         IF k \in DOMAIN table THEN table[k] ELSE table[<<"", k[2]>>]]
ListsClaimed(rows, user) ==
  {IF l.owner = "" /\ ~(l.standard /\ Standard(rows, l.kind, user) # {}) THEN [l EXCEPT !.owner = user] ELSE l : l \in rows}
BoxesClaimed(boxes, user) ==
  [b \in DOMAIN boxes |-> IF boxes[b].owner = "" THEN [boxes[b] EXCEPT !.owner = user] ELSE boxes[b]]

\* The first request of a user after the boot is given what has no owner.
FirstUserComes(user) ==
  /\ ready /\ unowned
  /\ unowned' = FALSE /\ claimer' = user
  /\ LET table == Claimed(secrets, user)
         boxes == BoxesClaimed(ownBoxes, user)
     IN  /\ Pushes(ListsClaimed(lists, user), table, boxes)
         /\ torn' = torn \cup TornBy(table, boxes)
  /\ UNCHANGED <<multi, ready, creating, refreshing, boxEnvs, placeholders, modes, requests>>

Asks == requests < MaxAsks /\ requests' = requests + 1

(***************************************************************************)
(* Credentials and API keys.                                               *)
(***************************************************************************)

\* A mutant: each write makes a placeholder.
KeepsPlaceholder_Never(name, old, shape) == FALSE
\* A credential keeps its placeholder, and an API key keeps it for a key of the same shape.
KeepsPlaceholder(name, old, shape) == name = "credential" \/ old.shape = shape

\* put of both stores.
Written(table, k, shape) ==
  LET keeps == k \in DOMAIN table /\ KeepsPlaceholder(k[2], table[k], shape)
  IN  With(table, k, [shape |-> shape, placeholder |-> IF keeps THEN table[k].placeholder ELSE placeholders + 1])

SecretIsPut(user, name, shape) ==
  LET k == <<user, name>>
      table == Written(secrets, k, shape)
      fresh == k \notin DOMAIN secrets \/ table[k].placeholder # secrets[k].placeholder
  IN  /\ IsUser(user) /\ Asks
      /\ placeholders < MaxPlaceholders /\ placeholders' = IF fresh THEN placeholders + 1 ELSE placeholders
      /\ Pushes(lists, table, ownBoxes)
      \* A key of another shape is another key for the program that reads it.
      /\ torn' = IF name = "key" /\ k \in DOMAIN secrets /\ secrets[k].shape # shape
                   THEN torn \cup TornBy(table, ownBoxes) ELSE torn
      /\ UNCHANGED <<processVars, boxEnvs, modes, claimer>>

SecretIsRemoved(user, name) ==
  /\ IsUser(user) /\ Asks
  /\ <<user, name>> \in DOMAIN secrets
  /\ LET table == Drop(secrets, {<<user, name>>})
     IN  Pushes(lists, table, ownBoxes) /\ torn' = torn \cup TornBy(table, ownBoxes)
  /\ UNCHANGED <<processVars, boxEnvs, placeholders, modes, claimer>>

\* refreshCredentials takes a row with its owner, and awaits the token endpoint.
RefreshTakesRow(k) ==
  /\ ready /\ refreshing = <<>> /\ k \in DOMAIN secrets /\ k[2] = "credential"
  /\ refreshing' = k
  /\ UNCHANGED <<multi, ready, unowned, creating, tableVars, boxEnvs, told, placeholders, modes, requests, claimer, torn>>

RefreshWritesRow ==
  /\ refreshing # <<>> /\ refreshing' = <<>>
  /\ placeholders < MaxPlaceholders
  /\ placeholders' = IF refreshing \in DOMAIN secrets THEN placeholders ELSE placeholders + 1
  /\ Pushes(lists, Written(secrets, refreshing, "long"), ownBoxes)
  /\ UNCHANGED <<multi, ready, unowned, creating, boxEnvs, modes, requests, claimer, torn>>

(***************************************************************************)
(* Profiles and agent sets.                                                *)
(***************************************************************************)

\* list and get of both stores make the default row; create of the profiles does too.
ListsAreRead(user, kind) ==
  /\ IsUser(user)
  /\ lists' = WithStandard(lists, kind, user) /\ lists' # lists /\ Fits(lists')
  /\ UNCHANGED <<processVars, secrets, ownBoxes, boxEnvs, told, placeholders, modes, requests, claimer, torn>>

ListIsCreated(user, kind) ==
  LET rows == IF kind = "profile" THEN WithStandard(lists, kind, user) ELSE lists
  IN  /\ IsUser(user) /\ Asks
      /\ Cardinality(rows) < MaxLists
      /\ LET all == rows \cup {List(kind, FreshId(rows), user, FALSE, FALSE)}
         IN  IF kind = "profile" THEN Pushes(all, secrets, ownBoxes)
             ELSE lists' = all /\ UNCHANGED <<secrets, ownBoxes, told>>
      /\ UNCHANGED <<processVars, boxEnvs, placeholders, modes, claimer, torn>>

\* update of a profile: it is opened or closed.
ProfileIsChanged(user, l) ==
  /\ IsUser(user) /\ Asks
  /\ l \in Of(lists, "profile", user)
  /\ Pushes((lists \ {l}) \cup {[l EXCEPT !.open = ~@]}, secrets, ownBoxes)
  /\ UNCHANGED <<processVars, boxEnvs, placeholders, modes, claimer, torn>>

\* delete of both stores: the boxes that name the row go back to the default.
ListIsDeleted(user, l) ==
  LET boxes == [b \in DOMAIN ownBoxes |-> IF ownBoxes[b][l.kind] = l.id THEN [ownBoxes[b] EXCEPT ![l.kind] = NoList] ELSE ownBoxes[b]]
  IN  /\ IsUser(user) /\ Asks
      /\ l \in Of(lists, l.kind, user) /\ ~l.standard
      /\ IF l.kind = "profile" THEN Pushes(lists \ {l}, secrets, boxes)
         ELSE lists' = lists \ {l} /\ ownBoxes' = boxes /\ UNCHANGED <<secrets, told>>
      /\ UNCHANGED <<processVars, boxEnvs, placeholders, modes, claimer, torn>>

(***************************************************************************)
(* Boxes.                                                                  *)
(***************************************************************************)

\* selectedProfile and the check of the set: the default is stored as no name.
Selectable(rows, kind, owner) == {NoList} \cup {l.id : l \in {m \in Of(rows, kind, owner) : ~m.standard}}

\* A request that names a row is compared with the default one, which is made for this.
WhenNamed(rows, kind, owner, id) == IF id = NoList THEN rows ELSE WithStandard(rows, kind, owner)

\* create checks its request, and awaits the image of the box.
CreateIsAsked(user, b, profile, set) ==
  LET rows == WhenNamed(WhenNamed(lists, "set", user, set), "profile", user, profile) IN
  /\ IsUser(user) /\ Asks /\ creating = NoCreate /\ b \notin DOMAIN ownBoxes
  /\ Fits(rows) /\ lists' = rows
  /\ profile \in Selectable(rows, "profile", user) /\ set \in Selectable(rows, "set", user)
  /\ creating' = [box |-> b, owner |-> user, profile |-> profile, set |-> set]
  /\ UNCHANGED <<multi, ready, unowned, refreshing, secrets, ownBoxes, boxEnvs, told, placeholders, modes, claimer, torn>>

\* The row is inserted and the policy is pushed.  The insert fails when a row that it names
\* was deleted in the meantime (a foreign key).
BoxIsInserted ==
  LET c == creating
      there(kind) == c[kind] = NoList \/ \E l \in lists : l.kind = kind /\ l.id = c[kind]
  IN  /\ c # NoCreate /\ creating' = NoCreate
      /\ IF there("profile") /\ there("set")
           THEN Pushes(lists, secrets, With(ownBoxes, c.box, [owner |-> c.owner, profile |-> c.profile, set |-> c.set]))
         ELSE UNCHANGED <<tableVars, told>>
      /\ UNCHANGED <<multi, ready, unowned, refreshing, boxEnvs, placeholders, modes, requests, claimer, torn>>

\* boxSpec: the container is made, or made again, with the placeholders of now.
ContainerIsMade(b) ==
  /\ ready /\ b \in DOMAIN ownBoxes
  /\ boxEnvs' = With(boxEnvs, b, [n \in SecretName |->
                  LET k == <<ownBoxes[b].owner, n>> IN IF k \in DOMAIN secrets THEN secrets[k].placeholder ELSE 0])
  /\ torn' = {t \in torn : t[1] # b}
  /\ UNCHANGED <<processVars, tableVars, told, placeholders, modes, requests, claimer>>

\* boxScope: without the header, the user without a name sees every box.
Sees(user, b) == b \in DOMAIN ownBoxes /\ (multi => ownBoxes[b].owner = user)

BoxChangesProfile(user, b, id) ==
  LET owner == ownBoxes[b].owner
      rows == WhenNamed(lists, "profile", owner, id)
  IN  /\ IsUser(user) /\ Asks /\ Sees(user, b)
      /\ Fits(rows) /\ id \in Selectable(rows, "profile", owner)
      /\ Pushes(rows, secrets, [ownBoxes EXCEPT ![b].profile = id])
      /\ UNCHANGED <<processVars, boxEnvs, placeholders, modes, claimer, torn>>

OwnedBoxIsDeleted(user, b) ==
  /\ IsUser(user) /\ Asks /\ Sees(user, b)
  /\ Pushes(lists, secrets, Drop(ownBoxes, {b}))
  /\ boxEnvs' = Drop(boxEnvs, {b}) /\ torn' = {t \in torn : t[1] # b}
  /\ UNCHANGED <<processVars, placeholders, modes, claimer>>

Ids == {NoList} \cup {l.id : l \in lists}
OwnersNext ==
  \/ ProcessRestarts \/ BootEnds \/ RefreshWritesRow \/ BoxIsInserted
  \/ \E k \in DOMAIN secrets : RefreshTakesRow(k)
  \/ \E b \in OwnBox : ContainerIsMade(b)
  \/ \E u \in NamedUser : FirstUserComes(u)
  \/ \E u \in Owner :
       \/ \E n \in SecretName :
            SecretIsRemoved(u, n) \/ \E s \in (IF n = "key" THEN Shape ELSE {"long"}) : SecretIsPut(u, n, s)
       \/ \E k \in ListKind : ListsAreRead(u, k) \/ ListIsCreated(u, k)
       \/ \E l \in lists : ProfileIsChanged(u, l) \/ ListIsDeleted(u, l)
       \/ \E b \in OwnBox :
            \/ OwnedBoxIsDeleted(u, b)
            \/ \E p \in Ids : BoxChangesProfile(u, b, p) \/ \E s \in Ids : CreateIsAsked(u, b, p, s)

OwnersSpec == OwnersInit /\ [][OwnersNext]_ownerVars

(***************************************************************************)
(* Properties.                                                             *)
(***************************************************************************)

\* A profile or a set that a box names is of its owner, and never the default: the profile
\* of a box, the counts of the settings and what a claim moves rest on it.
NamesAreOfOwner ==
  \A b \in DOMAIN ownBoxes, kind \in ListKind :
    ownBoxes[b][kind] # NoList =>
      \E l \in Of(lists, kind, ownBoxes[b].owner) : l.id = ownBoxes[b][kind] /\ ~l.standard

\* Each box is counted at one profile, the one that its policy is made from.
CountIsUse ==
  ready => \A o \in Owner : \A l \in Of(lists, "profile", o) :
    BoxCount(l) = Cardinality({b \in DOMAIN ownBoxes : ownBoxes[b].owner = o /\ ForBox(lists, "profile", o, ownBoxes[b].profile) = l})

\* The proxy knows what the tables hold.
PolicyFollowsRows == ready => told = Compose(lists, secrets, ownBoxes)

\* A container has the placeholders of the secrets of its owner, which the proxy replaces,
\* until the secret is removed, a key of another form replaces it, or its owner had one of
\* that name already when the box was given to him.
ContainersReachTheirSecrets ==
  \A b \in DOMAIN boxEnvs, n \in SecretName :
    boxEnvs[b][n] # 0 /\ <<b, n>> \notin torn =>
      \E s \in told.secrets : s.row = <<ownBoxes[b].owner, n>> /\ s.placeholder = boxEnvs[b][n]

\* After the first user has come, no box is without an owner, and no profile or set but a
\* default that this user has already.  A secret may be: one of a name that the user has
\* already, and a credential that was being refreshed when the user came.
NothingIsLeftBehind ==
  multi /\ ready /\ ~unowned =>
    /\ \A b \in DOMAIN ownBoxes : ownBoxes[b].owner # ""
    /\ \A l \in lists : l.owner = "" => l.standard /\ Standard(lists, l.kind, claimer) # {}

OwnersAreApart ==
  OwnersTypeOK /\ NamesAreOfOwner /\ CountIsUse /\ PolicyFollowsRows /\ ContainersReachTheirSecrets /\ NothingIsLeftBehind
=============================================================================
