---------------------------- MODULE ProfileStore ----------------------------
(***************************************************************************)
(* The profile store of the daemon (tccd-daemon/src/profiles.rs): the      *)
(* vector of profiles, the settings with the profile assigned to each      *)
(* power state, and the two JSON files that hold them between runs.        *)
(*                                                                         *)
(* Every D-Bus handler holds the mutex of the store for as long as a       *)
(* method of the store runs, so the methods never overlap.  What can come  *)
(* between two steps of one method is the end of the process or an I/O     *)
(* error: fs::write truncates the file and then fills it, and              *)
(* delete_profile saves two files one after the other.  Those are the      *)
(* steps of this module.                                                   *)
(***************************************************************************)
EXTENDS Naturals, Sequences

CONSTANTS
  Ids,             \* profile ids
  DefaultIds,      \* DEFAULT_IDS: the ids of the built-in profiles, in order
  FallbackId,      \* DEFAULT_CUSTOM_PROFILE_ID
  Bodies,          \* what a profile holds besides its id
  FactoryBodies,   \* what each of them holds
  PowerStates,     \* PowerState: on AC, on battery
  Flags,           \* the three booleans of TccSettings, taken together
  DefaultFlags,    \* their values in TccSettings::default
  TrustedClients,  \* TRUE: update_profile is called with a profile of that id
  Faults,          \* which of "crash", "open" and "write" can go wrong
  MaxProfiles      \* bound: create and copy stop at this many profiles

ASSUME StoreAssumption ==
  /\ DefaultIds \in Seq(Ids)
  /\ \A i, j \in 1 .. Len(DefaultIds) : DefaultIds[i] = DefaultIds[j] => i = j
  /\ FallbackId \in Ids
  /\ \A i \in 1 .. Len(DefaultIds) : DefaultIds[i] # FallbackId
  /\ FactoryBodies \in [1 .. Len(DefaultIds) -> Bodies]
  /\ DefaultFlags \in Flags
  /\ TrustedClients \in BOOLEAN
  /\ Faults \subseteq {"crash", "open", "write"}
  /\ MaxProfiles \in Nat

VARIABLES
  profiles,      \* ProfileStore::profiles
  settings,      \* ProfileStore::settings
  profilesFile,  \* profiles.json
  settingsFile,  \* settings.json
  pc,            \* "down", "idle", or the step of a save in progress
  op,            \* the method that runs, or ran last
  reply          \* its answer, "none" until it has returned

vars == <<profiles, settings, profilesFile, settingsFile, pc, op, reply>>

-----------------------------------------------------------------------------
(* Profiles and files *)

Profile == [id : Ids, body : Bodies]

IsDefault(id) == \E i \in 1 .. Len(DefaultIds) : DefaultIds[i] = id

DefaultProfiles ==
  [i \in 1 .. Len(DefaultIds) |-> [id |-> DefaultIds[i], body |-> FactoryBodies[i]]]

Settings == [flags : Flags, stateMap : [PowerStates -> Ids]]

DefaultSettings ==
  [flags |-> DefaultFlags, stateMap |-> [s \in PowerStates |-> FallbackId]]

(* The profiles of s that are not built in, in their order: the filter both
   save_profiles and load apply.  (A recursive function where SelectSeq would
   do, so that the proofs can unfold it.) *)
Customs(s) ==
  LET kept[n \in 0 .. Len(s)] ==
        IF n = 0 THEN << >>
        ELSE IF IsDefault(s[n].id) THEN kept[n - 1]
        ELSE Append(kept[n - 1], s[n])
  IN  kept[Len(s)]

Has(s, id) == \E i \in 1 .. Len(s) : s[i].id = id

(* position() and find(): the first entry with that id. *)
First(s, id) ==
  CHOOSE i \in 1 .. Len(s) :
    s[i].id = id /\ \A j \in 1 .. Len(s) : s[j].id = id => i <= j

Without(s, pos) ==
  [i \in 1 .. Len(s) - 1 |-> IF i < pos THEN s[i] ELSE s[i + 1]]

(* A file is absent, holds text that does not parse, or holds its data. *)
File(S) == [state : {"absent", "torn", "valid"}, data : S]
Valid(d) == [state |-> "valid", data |-> d]

LoadProfiles(file) ==
  IF file.state = "valid" THEN DefaultProfiles \o Customs(file.data)
                          ELSE DefaultProfiles

LoadSettings(file) ==
  IF file.state = "valid" THEN file.data ELSE DefaultSettings

-----------------------------------------------------------------------------
(* The process *)

Init ==
  /\ profiles = DefaultProfiles
  /\ settings = DefaultSettings
  /\ profilesFile = [state |-> "absent", data |-> << >>]
  /\ settingsFile = [state |-> "absent", data |-> DefaultSettings]
  /\ pc = "down"
  /\ op = "none"
  /\ reply = "none"

(* Mutant of Start: load returns when the profiles do not parse, before it has
   read the settings. *)
StartStopsAtTornProfiles ==
  /\ pc = "down"
  /\ profiles' = LoadProfiles(profilesFile)
  /\ settings' = IF profilesFile.state = "torn" THEN DefaultSettings
                                                ELSE LoadSettings(settingsFile)
  /\ pc' = "idle"
  /\ UNCHANGED <<profilesFile, settingsFile, op, reply>>

(* ProfileStore::new: the defaults, then load. *)
Start ==
  /\ pc = "down"
  /\ profiles' = LoadProfiles(profilesFile)
  /\ settings' = LoadSettings(settingsFile)
  /\ pc' = "idle"
  /\ UNCHANGED <<profilesFile, settingsFile, op, reply>>

(* The process ends: at rest when it is stopped, anywhere when it crashes.
   Memory is gone; what is on disk stays as it is. *)
Stop ==
  /\ pc # "down"
  /\ pc = "idle" \/ "crash" \in Faults
  /\ profiles' = DefaultProfiles
  /\ settings' = DefaultSettings
  /\ pc' = "down"
  /\ op' = "none"
  /\ reply' = "none"
  /\ UNCHANGED <<profilesFile, settingsFile>>

-----------------------------------------------------------------------------
(* The methods, up to their first save *)

(* The method m has changed memory and goes on with the save at step. *)
Save(m, step) ==
  /\ op' = m
  /\ reply' = "none"
  /\ pc' = step
  /\ UNCHANGED <<profilesFile, settingsFile>>

(* The method m returns an error before it has changed anything. *)
Refuse(m) ==
  /\ op' = m
  /\ reply' = "err"
  /\ UNCHANGED <<profiles, settings, profilesFile, settingsFile, pc>>

(* Mutant of CreateProfile: no look for the id. *)
CreateAnyId(p) ==
  /\ pc = "idle"
  /\ Len(profiles) < MaxProfiles
  /\ profiles' = Append(profiles, p)
  /\ UNCHANGED settings
  /\ Save("create", "open_profiles")

(* The id is the client's, or generate_profile_id's when the client left it
   empty: a clock reading, which may repeat an id that is in use. *)
CreateProfile(p) ==
  /\ pc = "idle"
  /\ \/ /\ Has(profiles, p.id)
        /\ Refuse("create")
     \/ /\ ~ Has(profiles, p.id)
        /\ Len(profiles) < MaxProfiles
        /\ profiles' = Append(profiles, p)
        /\ UNCHANGED settings
        /\ Save("create", "open_profiles")

(* copy_profile: the copy goes through create_profile with a generated id. *)
CopyProfile(id, newId) ==
  /\ pc = "idle"
  /\ \/ /\ ~ Has(profiles, id)
        /\ Refuse("create")
     \/ /\ Has(profiles, id)
        /\ CreateProfile([profiles[First(profiles, id)] EXCEPT !.id = newId])

(* Mutant of UpdateProfile: built-in profiles are not refused. *)
UpdateAnyProfile(id, p) ==
  /\ pc = "idle"
  /\ TrustedClients => p.id = id
  /\ \/ ~ Has(profiles, id) /\ Refuse("update")
     \/ /\ Has(profiles, id)
        /\ profiles' = [profiles EXCEPT ![First(profiles, id)] = p]
        /\ UNCHANGED settings
        /\ Save("update", "open_profiles")

(* The entry is replaced as a whole: the id in p is not compared with id. *)
UpdateProfile(id, p) ==
  /\ pc = "idle"
  /\ TrustedClients => p.id = id
  /\ \/ /\ IsDefault(id) \/ ~ Has(profiles, id)
        /\ Refuse("update")
     \/ /\ ~ IsDefault(id)
        /\ Has(profiles, id)
        /\ profiles' = [profiles EXCEPT ![First(profiles, id)] = p]
        /\ UNCHANGED settings
        /\ Save("update", "open_profiles")

(* Mutants of DeleteProfile: the state map is not mended; the assignment is
   dropped from it. *)
DeleteKeepsAssignments(id) ==
  /\ pc = "idle"
  /\ ~ IsDefault(id) /\ Has(profiles, id)
  /\ profiles' = Without(profiles, First(profiles, id))
  /\ UNCHANGED settings
  /\ Save("delete", "open_profiles")

DeleteDropsAssignments(id) ==
  /\ pc = "idle"
  /\ ~ IsDefault(id) /\ Has(profiles, id)
  /\ profiles' = Without(profiles, First(profiles, id))
  /\ settings' = [settings EXCEPT !.stateMap =
                    [s \in {t \in DOMAIN @ : @[t] # id} |-> @[s]]]
  /\ Save("delete", "open_profiles")

DeleteProfile(id) ==
  /\ pc = "idle"
  /\ \/ /\ IsDefault(id) \/ ~ Has(profiles, id)
        /\ Refuse("delete")
     \/ /\ ~ IsDefault(id)
        /\ Has(profiles, id)
        /\ profiles' = Without(profiles, First(profiles, id))
        /\ settings' = [settings EXCEPT !.stateMap =
                          [s \in PowerStates |->
                             IF @[s] = id THEN FallbackId ELSE @[s]]]
        /\ Save("delete", "open_profiles")

SetActiveProfile(id, s) ==
  /\ pc = "idle"
  /\ \/ /\ ~ Has(profiles, id)
        /\ Refuse("assign")
     \/ /\ Has(profiles, id)
        /\ settings' = [settings EXCEPT !.stateMap[s] = id]
        /\ UNCHANGED profiles
        /\ Save("assign", "open_settings")

(* update_settings, as set_global_settings calls it: the flags change, the
   state map is carried over. *)
UpdateSettings(f) ==
  /\ pc = "idle"
  /\ settings' = [settings EXCEPT !.flags = f]
  /\ UNCHANGED profiles
  /\ Save("settings", "open_settings")

-----------------------------------------------------------------------------
(* save_profiles and save_settings *)

OpenProfiles ==
  /\ pc = "open_profiles"
  /\ profilesFile' = [state |-> "torn", data |-> << >>]
  /\ pc' = "write_profiles"
  /\ UNCHANGED <<profiles, settings, settingsFile, op, reply>>

(* Mutant of WriteProfiles: the whole vector is written, built-ins included. *)
WriteEveryProfile ==
  /\ pc = "write_profiles"
  /\ profilesFile' = Valid(profiles)
  /\ \/ op = "delete" /\ pc' = "open_settings" /\ UNCHANGED reply
     \/ op # "delete" /\ pc' = "idle" /\ reply' = "ok"
  /\ UNCHANGED <<profiles, settings, settingsFile, op>>

WriteProfiles ==
  /\ pc = "write_profiles"
  /\ profilesFile' = Valid(Customs(profiles))
  /\ \/ op = "delete" /\ pc' = "open_settings" /\ UNCHANGED reply
     \/ op # "delete" /\ pc' = "idle" /\ reply' = "ok"
  /\ UNCHANGED <<profiles, settings, settingsFile, op>>

(* Mutant of SaveProfilesFails: the error is dropped, as update_settings does. *)
SaveProfilesFailsUnnoticed ==
  /\ \/ pc = "open_profiles" /\ "open" \in Faults
     \/ pc = "write_profiles" /\ "write" \in Faults
  /\ pc' = "idle"
  /\ reply' = "ok"
  /\ UNCHANGED <<profiles, settings, profilesFile, settingsFile, op>>

(* The error ends the method: delete_profile does not go on to the settings. *)
SaveProfilesFails ==
  /\ \/ pc = "open_profiles" /\ "open" \in Faults
     \/ pc = "write_profiles" /\ "write" \in Faults
  /\ pc' = "idle"
  /\ reply' = "err"
  /\ UNCHANGED <<profiles, settings, profilesFile, settingsFile, op>>

OpenSettings ==
  /\ pc = "open_settings"
  /\ settingsFile' = [state |-> "torn", data |-> DefaultSettings]
  /\ pc' = "write_settings"
  /\ UNCHANGED <<profiles, settings, profilesFile, op, reply>>

WriteSettings ==
  /\ pc = "write_settings"
  /\ settingsFile' = Valid(settings)
  /\ pc' = "idle"
  /\ reply' = "ok"
  /\ UNCHANGED <<profiles, settings, profilesFile, op>>

(* update_settings drops the error, every other method returns it. *)
SaveSettingsFails ==
  /\ \/ pc = "open_settings" /\ "open" \in Faults
     \/ pc = "write_settings" /\ "write" \in Faults
  /\ pc' = "idle"
  /\ reply' = IF op = "settings" THEN "ok" ELSE "err"
  /\ UNCHANGED <<profiles, settings, profilesFile, settingsFile, op>>

-----------------------------------------------------------------------------
Method ==
  \/ \E p \in Profile : CreateProfile(p)
  \/ \E id, newId \in Ids : CopyProfile(id, newId)
  \/ \E id \in Ids, p \in Profile : UpdateProfile(id, p)
  \/ \E id \in Ids : DeleteProfile(id)
  \/ \E id \in Ids, s \in PowerStates : SetActiveProfile(id, s)
  \/ \E f \in Flags : UpdateSettings(f)

SaveStep ==
  \/ OpenProfiles \/ WriteProfiles \/ SaveProfilesFails
  \/ OpenSettings \/ WriteSettings \/ SaveSettingsFails

Next == Start \/ Stop \/ Method \/ SaveStep

Spec == Init /\ [][Next]_vars

-----------------------------------------------------------------------------
(* Properties *)

(* Every variable has its type. *)
TypeOK ==
  /\ profiles \in Seq(Profile)
  /\ settings \in Settings
  /\ profilesFile \in File(Seq(Profile))
  /\ settingsFile \in File(Settings)
  /\ pc \in {"down", "idle", "open_profiles", "write_profiles",
             "open_settings", "write_settings"}
  /\ op \in {"none", "create", "update", "delete", "assign", "settings"}
  /\ reply \in {"none", "ok", "err"}

(* Whatever clients send and whatever fails, the built-in profiles stand at
   the front of the vector, in order and as shipped: a lookup by a built-in id
   finds the built-in, and list_profiles().first(), the profile the daemon
   falls back to, is one of them.  The code never states it: it rests on
   update and delete refusing built-in ids before they look for the first
   match, and on load adding the built-ins before what it reads. *)
BuiltInsIntact ==
  /\ Len(DefaultIds) <= Len(profiles)
  /\ \A i \in 1 .. Len(DefaultIds) : profiles[i] = DefaultProfiles[i]

(* Ids are unique in memory and in the file, through any sequence of calls,
   failed saves and restarts: load pushes what it reads without looking for
   duplicates, so this rests on what was saved.  Clients that send back the
   profile they were given are assumed (TrustedClients). *)
Distinct(s) == \A i, j \in 1 .. Len(s) : s[i].id = s[j].id => i = j
UniqueIds == Distinct(profiles) /\ Distinct(profilesFile.data)

(* A method that answers Ok has put the state it changed on disk: the process
   can end here and start again with the same profiles, with the same
   assignments.  An earlier save that failed is made up for, since each save
   writes everything. *)
AckedOnDisk ==
  reply = "ok" =>
    /\ op \in {"create", "update", "delete"} =>
         LoadProfiles(profilesFile) = profiles
    /\ op \in {"delete", "assign"} => LoadSettings(settingsFile) = settings

(* A power state that is assigned to a profile that exists, or to the fallback
   id, stays so through every method, whatever is deleted and whichever save
   fails: delete_profile mends the state map in the same step.  Only a restart
   can break it, when the process has ended between the two saves of
   delete_profile, or one of them has failed: settings.json then names a
   profile that profiles.json no longer has. *)
Known(s) ==
  \/ settings.stateMap[s] = FallbackId
  \/ Has(profiles, settings.stateMap[s])

AssignmentsStayKnown ==
  [][pc # "down" => \A s \in PowerStates : Known(s) => Known(s)']_vars

(* The profiles and the settings are each written through to their file (see
   WriteThrough): the client of a method that failed, or that never answered,
   may find the old value, the new one or none after a restart, and nothing
   else.  For the profiles this is about those that are not built in. *)
Profiles == INSTANCE WriteThrough WITH
  Values  <- Seq(Profile),
  Nothing <- << >>,
  current <- Customs(profiles),
  durable <- IF profilesFile.state = "valid" THEN profilesFile.data ELSE << >>,
  phase   <- CASE pc = "down" -> "off"
               [] pc \in {"open_profiles", "write_profiles"} -> "saving"
               [] OTHER -> "ready"

Assignments == INSTANCE WriteThrough WITH
  Values  <- Settings,
  Nothing <- DefaultSettings,
  current <- settings,
  durable <- LoadSettings(settingsFile),
  phase   <- CASE pc = "down" -> "off"
               [] pc \notin {"down", "idle"} /\ op \in {"delete", "assign", "settings"} -> "saving"
               [] OTHER -> "ready"

ProfilesWrittenThrough == Profiles!Spec
SettingsWrittenThrough == Assignments!Spec
=============================================================================
