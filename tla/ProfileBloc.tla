------------------------------ MODULE ProfileBloc ------------------------------
(***************************************************************************)
(* The profile bloc of the app (src/lib/blocs/profile) and its repository  *)
(* over SharedPreferences (src/lib/services/profile_repository.dart).      *)
(*                                                                         *)
(* Dart runs one turn at a time.  SharedPreferences is loaded before the   *)
(* app runs (main.dart) and answers reads from memory, so a turn of a      *)
(* handler ends only where it waits for the platform to store a list: an   *)
(* action is a turn, from an event or an answer of the platform to the     *)
(* next such wait.  Handlers whose writes are in flight overlap.           *)
(*                                                                         *)
(* A profile is its id and its content: what duplicateKey compares and an  *)
(* edit changes.  Left out: status, errorMessage and importError, which    *)
(* only choose what the screen says, with the events that change nothing   *)
(* else, and pendingEncryptedPayload, which nothing sets.                  *)
(***************************************************************************)
EXTENDS Naturals, SequencesExt

CONSTANTS
  Ids, Contents, None,
  MaxEvents,     \* bounds what the user does
  MaxBatch,      \* bounds the links of one import
  MaxFailures    \* bounds the writes the platform does not store

ASSUME NoneAssumption == None \notin [id : Ids, content : Contents]
ASSUME BoundsAssumption ==
  /\ MaxEvents \in Nat /\ MaxFailures \in Nat
  /\ MaxBatch \in Nat \ {0}

Profile == [id : Ids, content : Contents]
Batches == UNION {[1..n -> Profile] : n \in 1..MaxBatch}
Excuses == {"race", "reimport", "stale", "failure"}

VARIABLES
  shown,         \* state.profiles
  active,        \* state.activeProfile
  cache,         \* the list as SharedPreferences has it in memory
  disk,          \* the list the platform has stored
  writes,        \* writes on their way to the platform and the handlers that wait for them
  listed,        \* ids on the list since the app started: a screen may hold any of them
  events, failures,
  used,          \* history: ids given out or read from a link
  kept,          \* history: ids the user saved and has not deleted since
  gone,          \* history: ids the user deleted and has not saved since
  excuses        \* history: why the list shown may differ from the list stored

history == <<used, kept, gone, excuses>>
profileVars == <<shown, active, cache, disk, writes, listed, events, failures, history>>

IdsOf(list) == {list[i].id : i \in DOMAIN list}

\* A write of list by a handler of the kind named; an import has more to save.
Write(kind, id, rest, list) == [of |-> kind, id |-> id, rest |-> rest, list |-> list]

NoProfiles ==
  /\ shown = <<>> /\ active = None
  /\ cache = <<>> /\ disk = <<>> /\ writes = <<>>
  /\ listed = {} /\ events = 0 /\ failures = 0
  /\ used = {} /\ kept = {} /\ gone = {} /\ excuses = {}

--------------------------------------------------------------------------------
(* ProfileRepository: what a call leaves in memory.                        *)

\* Variant: the index is not looked up.
SavedAtTheEnd(list, p) == Append(list, p)

\* save: the first entry with the id is replaced, otherwise one is added.
Saved(list, p) ==
  LET same == {i \in DOMAIN list : list[i].id = p.id}
  IN IF same = {} THEN Append(list, p)
     ELSE [list EXCEPT ![CHOOSE i \in same : \A j \in same : i <= j] = p]

\* The entries of list at the places in keep, in their order.
Among(list, keep) ==
  LET place(k) == CHOOSE i \in keep : Cardinality({j \in keep : j <= i}) = k
  IN [k \in 1..Cardinality(keep) |-> list[place(k)]]

\* delete
Without(list, id) == Among(list, {i \in DOMAIN list : list[i].id # id})

\* Variant: memory waits for the platform too.
StoreOnDiskOnly(kind, id, rest, list) ==
  /\ writes' = Append(writes, Write(kind, id, rest, list))
  /\ UNCHANGED cache

\* The write goes into memory at once and waits for the platform.
Store(kind, id, rest, list) ==
  /\ cache' = list
  /\ writes' = Append(writes, Write(kind, id, rest, list))

--------------------------------------------------------------------------------
(* The user.                                                               *)

\* Ids that an import still has to save.
Coming == UNION {IdsOf(writes[i].rest) : i \in DOMAIN writes}

\* A handler waits that will write or show a list it already holds.
SnapshotHeld ==
  \E i \in DOMAIN writes :
    writes[i].of \in {"dedupe", "deleteAll"} \/ writes[i].rest # <<>>

\* A list-changing event of the user.
Event ==
  /\ events < MaxEvents
  /\ events' = events + 1
  /\ UNCHANGED <<disk, failures>>

Racing == IF SnapshotHeld THEN {"race"} ELSE {}
Reimporting(batch) ==
  IF \/ IdsOf(batch) \cap IdsOf(shown) # {}
     \/ \E i, j \in DOMAIN batch : i # j /\ batch[i].id = batch[j].id
  THEN {"reimport"} ELSE {}

\* Ids that come onto the list.
Enlists(ids) ==
  /\ listed' = listed \cup ids
  /\ used' = used \cup ids

Wants(ids) ==
  /\ kept' = kept \cup ids
  /\ gone' = gone \ ids
\* A deletion does not reach what an import has yet to save.
Drops(ids) ==
  /\ kept' = kept \ ids
  /\ gone' = gone \cup (ids \ Coming)

\* _onAdded, _onAddedDirect: a new profile has a new id.
Added(p) ==
  /\ Event
  /\ p.id \notin used
  /\ shown' = Append(shown, p)
  /\ Store("save", p.id, <<>>, Saved(cache, p))
  /\ Enlists({p.id})
  /\ Wants({p.id})
  /\ excuses' = excuses \cup Racing
  /\ UNCHANGED active

\* An event names the profile its screen was opened with, which may have left
\* the list since.
Stale(id) == IF id \in IdsOf(shown) THEN {} ELSE {"stale"}

\* _onUpdated: a profile that is no longer shown is stored all the same;
\* activeProfile keeps what it was.
Updated(p) ==
  /\ Event
  /\ p.id \in listed
  /\ shown' = [i \in DOMAIN shown |-> IF shown[i].id = p.id THEN p ELSE shown[i]]
  /\ Store("save", p.id, <<>>, Saved(cache, p))
  /\ Wants({p.id})
  /\ excuses' = excuses \cup Racing \cup Stale(p.id)
  /\ UNCHANGED <<active, listed, used>>

\* copyWith takes null for "no change": the active profile stays.
copyWithActive(new) == IF new = None THEN active ELSE new

\* Variant: the repository is not told.
DeletedFromView(id) ==
  /\ Event
  /\ id \in listed
  /\ shown' = Without(shown, id)
  /\ Drops({id})
  /\ excuses' = excuses \cup Racing
  /\ UNCHANGED <<active, listed, used, cache, writes>>

\* _onDeleted
Deleted(id) ==
  /\ Event
  /\ id \in listed
  /\ shown' = Without(shown, id)
  /\ active' = copyWithActive(IF active # None /\ active.id = id THEN None ELSE active)
  /\ Store("delete", id, <<>>, Without(cache, id))
  /\ Drops({id})
  /\ excuses' = excuses \cup Racing
  /\ UNCHANGED <<listed, used>>

\* _onActivated: the first entry with the id; none is ignored.
Activated(i) ==
  /\ Event
  /\ \A j \in 1..(i - 1) : shown[j].id # shown[i].id
  /\ active' = shown[i]
  /\ UNCHANGED <<shown, cache, writes, listed, history>>

\* _onImported: the links that could be read; a plain link keeps its id.
Imported(batch) ==
  /\ Event
  /\ shown' = shown \o batch
  /\ active' = Last(batch)
  /\ Store("import", batch[1].id, Tail(batch), Saved(cache, batch[1]))
  /\ Enlists(IdsOf(batch))
  /\ Wants(IdsOf(batch))
  /\ excuses' = excuses \cup Racing \cup Reimporting(batch)

\* _onImportedEncrypted, _onEncryptedUnlockRequested
ImportedEncrypted(p) ==
  /\ Event
  /\ shown' = Append(shown, p)
  /\ active' = p
  /\ Store("save", p.id, <<>>, Saved(cache, p))
  /\ Enlists({p.id})
  /\ Wants({p.id})
  /\ excuses' = excuses \cup Racing \cup Reimporting(<<p>>)

\* The first profile of each content, in order.
deduped ==
  Among(shown, {i \in DOMAIN shown : \A j \in 1..(i - 1) : shown[j].content # shown[i].content})

\* _onDeletedDuplicates up to saveAll; what is not on the list as it is
\* shown is not saved either, and what is on it is saved again.
DeletedDuplicates ==
  /\ Event
  /\ Len(deduped) # Len(shown)
  /\ Store("dedupe", None, <<>>, deduped)
  /\ kept' = kept \cap IdsOf(deduped)
  /\ gone' = (gone \cup (IdsOf(shown) \ Coming)) \ IdsOf(deduped)
  /\ excuses' = excuses \cup Racing
  /\ UNCHANGED <<shown, active, listed, used>>

\* _onDeletedAll up to its await.
DeletedAll ==
  /\ Event
  /\ Store("deleteAll", None, <<>>, <<>>)
  /\ Drops(IdsOf(shown) \cup kept)
  /\ excuses' = excuses \cup Racing
  /\ UNCHANGED <<shown, active, listed, used>>

--------------------------------------------------------------------------------
(* The platform answers the writes in the order they were made.            *)

\* What was on disk when a write failed or the app was killed is all the
\* user can count on, and only what memory or an import still has of it:
\* the next write overwrites the rest.
Forgiven ==
  /\ kept' = kept \cap IdsOf(disk) \cap (IdsOf(cache) \cup Coming)'
  /\ gone' = gone \ IdsOf(disk)

\* Variant: the loop of _onImported ends after its first save.
SavesOnlyFirst(w) ==
  /\ w.rest # <<>>
  /\ writes' = Tail(writes)
  /\ UNCHANGED <<shown, cache>>

\* The loop of _onImported goes on with the next profile.
SavesNext(w) ==
  /\ w.rest # <<>>
  /\ cache' = Saved(cache, Head(w.rest))
  /\ writes' = Append(Tail(writes), Write("import", Head(w.rest).id, Tail(w.rest), cache'))
  /\ UNCHANGED shown

\* _onDeletedDuplicates and _onDeletedAll show the list they wrote.
Shows(w) ==
  /\ w.of \in {"dedupe", "deleteAll"}
  /\ shown' = w.list
  /\ UNCHANGED cache /\ writes' = Tail(writes)

Ends(w) ==
  /\ w.of \in {"save", "delete", "import"} /\ w.rest = <<>>
  /\ UNCHANGED <<shown, cache>> /\ writes' = Tail(writes)

\* The handler goes on after its await.
Resumes(w) == SavesNext(w) \/ Shows(w) \/ Ends(w)

PlatformStores ==
  /\ writes # <<>>
  /\ disk' = Head(writes).list
  /\ Resumes(Head(writes))
  /\ UNCHANGED <<active, listed, events, failures, history>>

\* setStringList and remove answer false: nobody looks at it.
PlatformRefuses ==
  /\ writes # <<>> /\ failures < MaxFailures
  /\ failures' = failures + 1
  /\ Resumes(Head(writes))
  /\ Forgiven
  /\ excuses' = excuses \cup {"failure"}
  /\ UNCHANGED <<active, disk, listed, events, used>>

\* The call throws: the handler ends, and _onImported saves no more.
PlatformRaises ==
  /\ writes # <<>> /\ failures < MaxFailures
  /\ failures' = failures + 1
  /\ writes' = Tail(writes)
  /\ UNCHANGED <<shown, active, cache, disk, listed, events, used>>
  /\ Forgiven
  /\ excuses' = excuses \cup {"failure"}

\* The app is killed and started again; _onLoaded shows what is stored.
Restart ==
  /\ cache' = disk /\ shown' = disk /\ listed' = IdsOf(disk)
  /\ active' = None
  /\ writes' = <<>>
  /\ IF writes = <<>> THEN UNCHANGED <<kept, gone>> ELSE Forgiven
  /\ excuses' = excuses \cap {"reimport"}
  /\ UNCHANGED <<disk, events, failures, used>>

ProfilesNext ==
  \/ \E p \in Profile : Added(p) \/ Updated(p) \/ ImportedEncrypted(p)
  \/ \E id \in Ids : Deleted(id)
  \/ \E i \in DOMAIN shown : Activated(i)
  \/ \E batch \in Batches : Imported(batch)
  \/ DeletedDuplicates \/ DeletedAll
  \/ PlatformStores \/ PlatformRefuses \/ PlatformRaises
  \/ Restart

ProfilesSpec == NoProfiles /\ [][ProfilesNext]_profileVars

--------------------------------------------------------------------------------
ProfilesTypeOK ==
  /\ shown \in Seq(Profile) /\ cache \in Seq(Profile) /\ disk \in Seq(Profile)
  /\ active \in Profile \cup {None}
  /\ writes \in Seq([of : {"save", "delete", "import", "dedupe", "deleteAll"},
                     id : Ids \cup {None}, rest : Seq(Profile), list : Seq(Profile)])
  /\ events \in 0..MaxEvents /\ failures \in 0..MaxFailures
  /\ listed \subseteq used /\ used \subseteq Ids /\ kept \subseteq used /\ gone \subseteq used
  /\ excuses \subseteq Excuses

AtRest == writes = <<>>

\* Once nothing is in flight the list shown is the list a restart will show,
\* in content and order: unless the user changed it while an import, Delete
\* Duplicates or Delete All was still at work, imported an id already
\* listed, saved a profile that had left the list while its editor was open,
\* or the platform did not store a write.
ShownIsStored == AtRest /\ excuses = {} => shown = disk

\* Nothing the user added, imported or edited is lost, whatever overlaps
\* whatever: the writes in flight, answered one by one, end with it on disk,
\* and so it comes back after a restart.
KeptIsStored == AtRest => kept \subseteq IdsOf(disk)

\* "This cannot be undone" (the three delete dialogs): what was deleted is
\* not on disk once all is at rest and never comes back, unless an import
\* had yet to save it when it was deleted or Delete Duplicates found it
\* still shown.
DeletedIsGone == AtRest => gone \cap IdsOf(disk) = {}

OneEntryPerId(list) == \A i, j \in DOMAIN list : list[i].id = list[j].id => i = j

\* Every id that stands anywhere was given out or read from a link.
IdsAreUsed ==
  /\ IdsOf(shown) \cup IdsOf(cache) \cup IdsOf(disk) \subseteq used
  /\ \A i \in DOMAIN writes : IdsOf(writes[i].rest) \cup IdsOf(writes[i].list) \subseteq used

\* Only an import has more to save.
OnlyImportsGoOn == \A i \in DOMAIN writes : writes[i].rest # <<>> => writes[i].of = "import"

\* The last write holds what memory holds; kept profiles are in memory or
\* about to be saved there, deleted ones neither; at rest the disk has the
\* list in memory, or a write failed and the history was forgiven.
MemoryLeads ==
  /\ ~AtRest => Last(writes).list = cache
  /\ kept \subseteq IdsOf(cache) \cup Coming
  /\ gone \cap (IdsOf(cache) \cup Coming) = {}
  /\ AtRest => \/ disk = cache
               \/ /\ "failure" \in excuses
                  /\ kept \subseteq IdsOf(disk) /\ gone \cap IdsOf(disk) = {}

\* Until an id is imported that is on the list, no list has an id twice.
IdsAreUnique ==
  "reimport" \notin excuses =>
    /\ OneEntryPerId(shown) /\ OneEntryPerId(cache) /\ OneEntryPerId(disk)
    /\ \A i \in DOMAIN writes : OneEntryPerId(writes[i].list)

\* Without an excuse only the last write can be one whose handler holds a
\* list.  Unless that one will show its list, the list shown is memory's
\* and what an import has yet to save behind it.
ShownLeads ==
  excuses = {} =>
    /\ \A i \in DOMAIN writes :
         writes[i].of \in {"dedupe", "deleteAll"} \/ writes[i].rest # <<>> => i = Len(writes)
    /\ AtRest => shown = cache
    /\ ~AtRest /\ Last(writes).of \notin {"dedupe", "deleteAll"} =>
         shown = cache \o Last(writes).rest

\* What the three properties rest on: types, and the order view, memory,
\* writes in flight, disk in which a change of the list travels.
ProfilesInv ==
  /\ ProfilesTypeOK /\ IdsAreUsed /\ OnlyImportsGoOn
  /\ MemoryLeads /\ IdsAreUnique /\ ShownLeads

================================================================================
