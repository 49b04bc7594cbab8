----------------------------- MODULE StateStores ------------------------------
(* ProfileStore over the file-backed local state store: edits are in memory at  *)
(* once and reach profiles.json by a debounced save, the selection has a file   *)
(* of its own, and no write waits for another.  SettingsStore saves settings    *)
(* the same way.  The app may end at any point, by a crash or by an exit that   *)
(* disposes the stores first.                                                   *)
(* (A definition X_Something is X with a plausible mistake in it.)              *)
EXTENDS Naturals, Sequences

CONSTANTS
    ProfileIds, NoProfile,
    SampleId,           \* the profile a first start shows
    MaxVersion,         \* edits of a profile told apart
    MaxStoreWrites      \* bound on the file writes outstanding at once

\* A profile as an edit leaves it.
Edits == [id : ProfileIds, version : 0..MaxVersion]

ASSUME StoresAssumption ==
    /\ NoProfile \notin ProfileIds /\ SampleId \in ProfileIds /\ NoProfile \notin Seq(Edits)
    /\ MaxVersion \in Nat /\ MaxStoreWrites \in Nat \ {0}

VARIABLES
    profiles,           \* _profiles, a sequence of [id, version]
    selected,           \* _selectedProfileId
    save_timer,         \* _saveDebounce is active
    profiles_file,      \* profiles.json, NoProfile while missing or empty
    selected_file,
    store_writes,       \* writes under way: [file, content]
    disposed,           \* dispose() has run and the exit is to follow
    reordered,          \* history: a write was started with one of its file under way
    unsaved_profiles,   \* history: the last write of profiles.json failed
    unsaved_selection   \* history: the selection was changed without a write of its file,
                        \* or the last one failed

storeVars == <<profiles, selected, save_timer, profiles_file, selected_file, store_writes,
               disposed, reordered, unsaved_profiles, unsaved_selection>>

Ids(s) == {s[i].id : i \in 1..Len(s)}
FirstOf(s) == IF s = <<>> THEN NoProfile ELSE s[1].id

Samples == <<[id |-> SampleId, version |-> 0]>>

StoresInit ==
    /\ profiles = Samples /\ selected = SampleId /\ save_timer = FALSE
    /\ profiles_file = NoProfile /\ selected_file = NoProfile
    /\ store_writes = <<>> /\ disposed = FALSE
    /\ reordered = FALSE /\ unsaved_profiles = FALSE /\ unsaved_selection = FALSE

\* Starts a write of each of these files.
StartWrites(ws) ==
    /\ store_writes' = store_writes \o ws
    /\ Len(store_writes') <= MaxStoreWrites
    /\ reordered' = (reordered \/ \E i \in 1..Len(store_writes), j \in 1..Len(ws) :
                                     store_writes[i].file = ws[j].file)

ProfilesWrite == <<[file |-> "profiles", content |-> profiles]>>

\* selectProfile: the pages call it with a profile of the list.
SelectProfile(id) ==
    /\ ~disposed /\ id \in Ids(profiles) /\ id # selected
    /\ selected' = id
    /\ StartWrites(<<[file |-> "selected", content |-> id]>>)
    /\ unsaved_selection' = FALSE
    /\ UNCHANGED <<profiles, save_timer, profiles_file, selected_file, disposed,
                   unsaved_profiles>>

Replaced(p) == [i \in 1..Len(profiles) |-> IF profiles[i].id = p.id THEN p ELSE profiles[i]]

\* upsertProfile, addSampleProfile: the profile becomes the selected one.
UpsertProfile(p) ==
    /\ ~disposed
    /\ profiles' = IF p.id \in Ids(profiles) THEN Replaced(p) ELSE Append(profiles, p)
    /\ selected' = p.id
    /\ save_timer' = TRUE
    /\ unsaved_selection' = (unsaved_selection \/ selected # p.id)
    /\ UNCHANGED <<profiles_file, selected_file, store_writes, disposed, reordered,
                   unsaved_profiles>>

\* syncStoredPasswordFlags, for a profile whose flag has changed.
SyncStoredPasswordFlags(p) ==
    /\ ~disposed /\ p.id \in Ids(profiles)
    /\ profiles' = Replaced(p)
    /\ save_timer' = TRUE
    /\ UNCHANGED <<selected, profiles_file, selected_file, store_writes, disposed, reordered,
                   unsaved_profiles, unsaved_selection>>

\* removeSelectedProfile: the first profile is selected, and that is saved at once.  An id
\* has one profile, as upsertProfile replaces the one it has.
RemoveSelectedProfile ==
    /\ ~disposed
    /\ \E i \in 1..Len(profiles) :
          /\ profiles[i].id = selected
          /\ profiles' = SubSeq(profiles, 1, i - 1) \o SubSeq(profiles, i + 1, Len(profiles))
    /\ selected' = FirstOf(profiles')
    /\ save_timer' = TRUE
    /\ StartWrites(<<[file |-> "selected", content |-> selected']>>)
    /\ unsaved_selection' = FALSE
    /\ UNCHANGED <<profiles_file, selected_file, disposed, unsaved_profiles>>

SaveTimerFires ==
    /\ save_timer /\ ~disposed
    /\ save_timer' = FALSE
    /\ StartWrites(ProfilesWrite)
    /\ unsaved_profiles' = FALSE
    /\ UNCHANGED <<profiles, selected, profiles_file, selected_file, disposed, unsaved_selection>>

\* A write lands; of two under way either may be first.
StoreWriteLands(i) ==
    /\ i \in 1..Len(store_writes)
    /\ LET w == store_writes[i]
       IN  /\ profiles_file' = IF w.file = "profiles" THEN w.content ELSE profiles_file
           /\ selected_file' = IF w.file = "selected" THEN w.content ELSE selected_file
    /\ store_writes' = SubSeq(store_writes, 1, i - 1) \o SubSeq(store_writes, i + 1, Len(store_writes))
    /\ UNCHANGED <<profiles, selected, save_timer, disposed, reordered, unsaved_profiles,
                   unsaved_selection>>

\* Or it fails, which is logged and not tried again: the file is as it was, or empty.
StoreWriteFails(i) ==
    /\ i \in 1..Len(store_writes)
    /\ LET w == store_writes[i]
       IN  /\ profiles_file' \in {profiles_file} \cup (IF w.file = "profiles" THEN {NoProfile} ELSE {})
           /\ selected_file' \in {selected_file} \cup (IF w.file = "selected" THEN {NoProfile} ELSE {})
           /\ unsaved_profiles' = (unsaved_profiles \/ w.file = "profiles")
           /\ unsaved_selection' = (unsaved_selection \/ w.file = "selected")
    /\ store_writes' = SubSeq(store_writes, 1, i - 1) \o SubSeq(store_writes, i + 1, Len(store_writes))
    /\ UNCHANGED <<profiles, selected, save_timer, disposed, reordered>>

\* The exit disposes the stores: a pending save is started, and the exit does not wait for it.
StoresDispose_CancelsTimer ==
    /\ ~disposed
    /\ disposed' = TRUE /\ save_timer' = FALSE
    /\ UNCHANGED <<profiles, selected, profiles_file, selected_file, store_writes, reordered,
                   unsaved_profiles, unsaved_selection>>

StoresDispose ==
    /\ ~disposed
    /\ disposed' = TRUE /\ save_timer' = FALSE
    /\ StartWrites(IF save_timer THEN ProfilesWrite ELSE <<>>)
    /\ unsaved_profiles' = (unsaved_profiles /\ ~save_timer)
    /\ UNCHANGED <<profiles, selected, profiles_file, selected_file, unsaved_selection>>

\* load: without a file the samples stay, and a saved selection counts if its profile exists.
LoadedProfiles(file) == IF file = NoProfile THEN Samples ELSE file
LoadedSelection(list, saved) == IF saved \in Ids(list) THEN saved ELSE FirstOf(list)

UnderWay(file) == \E i \in 1..Len(store_writes) : store_writes[i].file = file

\* The app ends, whatever is under way, and the next start loads the files.  A file whose
\* write is cut off keeps its content or is empty.
StoresRestart ==
    /\ profiles_file' \in {profiles_file} \cup (IF UnderWay("profiles") THEN {NoProfile} ELSE {})
    /\ selected_file' \in {selected_file} \cup (IF UnderWay("selected") THEN {NoProfile} ELSE {})
    /\ profiles' = LoadedProfiles(profiles_file')
    /\ selected' = LoadedSelection(profiles', selected_file')
    /\ save_timer' = FALSE /\ store_writes' = <<>> /\ disposed' = FALSE
    /\ reordered' = FALSE /\ unsaved_profiles' = FALSE /\ unsaved_selection' = FALSE

StoresNext ==
    \/ \E id \in ProfileIds : SelectProfile(id)
    \/ \E p \in Edits : UpsertProfile(p) \/ SyncStoredPasswordFlags(p)
    \/ RemoveSelectedProfile \/ SaveTimerFires
    \/ \E i \in 1..Len(store_writes) : StoreWriteLands(i) \/ StoreWriteFails(i)
    \/ StoresDispose \/ StoresRestart

StoresSpec == StoresInit /\ [][StoresNext]_storeVars

-------------------------------------------------------------------------------
\* What the next start loads is what the last one left, once its saves are through: a
\* timer that is started again or disposed of never drops an edit, and a selection never
\* names a profile that is gone.  The exceptions: the app ended with a save under way or
\* a timer running (only an exit turns the timer into a save, which it does not await),
\* two writes of one file overlapped, the last write of the file failed, or an edit moved
\* the selection, which it does not save.  A later save that lands makes up for a failed one.
EditsSurvive ==
    [][store_writes = <<>> /\ ~save_timer /\ ~reordered /\ ~unsaved_profiles /\ StoresRestart =>
          /\ profiles' = profiles
          /\ selected' = selected \/ unsaved_selection]_storeVars
===============================================================================
