---------------------------- MODULE Configuration ---------------------------
(***************************************************************************)
(* The add-on's configuration: Settings and load_settings (settings.py),   *)
(* ConfigService (core/config_service.py), config.json                     *)
(* (storage/persistence.py), the pages that save it (web/routes_setup.py,  *)
(* web/routes_config.py) and its use at start-up (main.py).                *)
(*                                                                         *)
(* Four places hold a value of a field: options.json of Home Assistant,    *)
(* the environment that run.sh exports, config.json, and the Settings      *)
(* object in memory.  The first two are read at start-up only.  A write of *)
(* config.json truncates the file first, so one that is cut short leaves a *)
(* file that reads as none.  The field sources, which a page shows, are    *)
(* left out.                                                               *)
(***************************************************************************)
CONSTANTS
    Fields,   \* tracked fields whose default is the empty string
    MAField,  \* the one that stands for ma_base_url and ma_token
    Values,   \* values other than the empty string
    Saves,    \* requests to /setup/save
    Empty,    \* the empty string
    Absent    \* a field that options.json does not have, a missing or torn file

ASSUME MAFieldIsField == MAField \in Fields
ASSUME EmptyIsNoValue == Empty \notin Values /\ Absent \notin Values \cup {Empty}
ASSUME AbsentIsNoConfig == Absent \notin [Fields -> Values \cup {Empty}]

VARIABLES
    options,   \* options.json
    env,       \* the ECHOWEAVE_ variables
    file,      \* config.json
    settings,  \* the Settings object while the add-on is up
    up,        \* the add-on has started
    client,    \* what the registered Music Assistant client was built from
    pending,   \* the /setup/save requests that close the old client, each with
               \* the value it was given
    saved,     \* ghost: the value of each field that was last reported as saved
               \* and that no later event entitles the add-on to forget
    behind     \* ghost: the settings changed with no /setup/save under way

vars == <<options, env, file, settings, up, client, pending, saved, behind>>

Strings == Values \cup {Empty}
Configs == [Fields -> Strings]
Blank == [f \in Fields |-> Empty]

TypeOK ==
    /\ options \in [Fields -> Strings \cup {Absent}]
    /\ env \in Configs
    /\ file \in Configs \cup {Absent}
    /\ settings \in Configs
    /\ up \in BOOLEAN
    /\ client \in Strings
    /\ pending \in [Saves -> Strings \cup {Absent}]
    /\ saved \in Configs
    /\ behind \in BOOLEAN

Idle == [r \in Saves |-> Absent]

\* A new installation: nothing is configured but by its options.
Init ==
    /\ options \in [Fields -> Strings \cup {Absent}]
    /\ env \in Configs
    /\ file = Absent
    /\ settings = Blank
    /\ up = FALSE
    /\ client = Empty
    /\ pending = Idle
    /\ saved = Blank
    /\ behind = FALSE

-----------------------------------------------------------------------------
(* Start-up *)

IsSet(v) == v \in Values

\* Mutant: an entry that options.json lacks is not looked up elsewhere.
Loaded_raw(f) == options[f]

\* load_settings: what options.json has, an empty string included, hides the
\* environment.
Loaded(f) == IF options[f] = Absent THEN env[f] ELSE options[f]

\* resolve_effective comes to the persisted value of the field.
FromFile(f) == ~IsSet(options[f]) /\ ~IsSet(env[f]) /\ file # Absent /\ IsSet(file[f])

Effective == [f \in Fields |-> IF FromFile(f) THEN file[f] ELSE Loaded(f)]

\* save_config when all goes well, and what is left of the file when it does not:
\* open() may fail before the file is truncated.
Written(config) == file' = config
NotWritten == file' \in {file, Absent}

\* Values that the options or the environment override are not kept.
Start ==
    /\ ~up
    /\ up' = TRUE
    /\ settings' = Effective
    /\ client' = Effective[MAField]
    /\ IF file = Effective THEN UNCHANGED file ELSE Written(Effective)
    /\ saved' = [f \in Fields |->
                    IF IsSet(options[f]) \/ IsSet(env[f]) THEN Empty ELSE saved[f]]
    /\ behind' = FALSE
    /\ UNCHANGED <<options, env, pending>>

\* The values that are in the file still: the others are forgotten.
Surviving(config) ==
    [f \in Fields |-> IF config # Absent /\ config[f] = saved[f] THEN saved[f] ELSE Empty]

\* The repair of config.json fails and so does the start, or it is killed then.
StartFails ==
    /\ ~up
    /\ file # Effective
    /\ NotWritten
    /\ saved' = Surviving(file')
    /\ UNCHANGED <<options, env, settings, up, client, pending, behind>>

\* The add-on stops; requests under way go with it.
Stop ==
    /\ up
    /\ up' = FALSE
    /\ settings' = Blank
    /\ client' = Empty
    /\ pending' = Idle
    /\ UNCHANGED <<options, env, file, saved, behind>>

\* Before a start the user edits the options, run.sh exports other values (it
\* opens a tunnel of its own when none is configured).
Reconfigure(f) ==
    /\ ~up
    /\ \E v \in Strings \cup {Absent} : options' = [options EXCEPT ![f] = v]
    /\ \E v \in Strings : env' = [env EXCEPT ![f] = v]
    /\ UNCHANGED <<file, settings, up, client, pending, saved, behind>>

-----------------------------------------------------------------------------
(* Saving *)

\* apply_persisted: fields that are set overlay the Settings object.
Overlay(config) ==
    [f \in Fields |-> IF IsSet(config[f]) THEN config[f] ELSE settings[f]]

\* save_persisted, when the file is written.
SavePersisted(config) ==
    /\ settings' = Overlay(config)
    /\ Written(config)

\* StorageError leaves save_persisted after the Settings object was changed.
\* Whether the add-on is killed in the write or not, a value is still saved only
\* if memory and file both have it.
SaveFails(config) ==
    /\ up
    /\ settings' = Overlay(config)
    /\ NotWritten
    /\ saved' = [f \in Fields |->
                    IF settings'[f] = saved[f] THEN Surviving(file')[f] ELSE Empty]
    /\ behind' = (behind \/ pending = Idle)
    /\ UNCHANGED <<options, env, up, client, pending>>

\* /setup/save writes a whole config, then waits for the old client to close.
SetupSave(r) ==
    /\ up
    /\ pending[r] = Absent
    /\ \E config \in Configs :
          /\ SavePersisted(config)
          /\ saved' = config
          /\ pending' = [pending EXCEPT ![r] = config[MAField]]
    /\ behind' = FALSE
    /\ UNCHANGED <<options, env, up, client>>

\* Mutant: the client is built from the request's own config.
NewClient_ofRequest(r) == pending[r]

\* The new client is built from the Settings object as it is after the wait.
NewClient(r) == settings[MAField]

SetupSaveDone(r) ==
    /\ up
    /\ pending[r] # Absent
    /\ client' = NewClient(r)
    /\ pending' = [pending EXCEPT ![r] = Absent]
    /\ UNCHANGED <<options, env, file, settings, up, saved, behind>>

SetupSaveFails(r) ==
    /\ pending[r] = Absent
    /\ \E config \in Configs : SaveFails(config)

\* Mutant: the fields that an update does not name are taken from the options.
Merged_loaded(f, v) == [g \in Fields |-> IF g = f THEN v ELSE Loaded(g)]

\* save_updates: the fields it is not given are those in memory.
Merged(f, v) == [settings EXCEPT ![f] = v]

\* /config/update, one field at a time, and /config/replace-token.  The registered
\* client stays.
Update(f) ==
    /\ up
    /\ \E v \in Strings :
          /\ SavePersisted(Merged(f, v))
          /\ saved' = [saved EXCEPT ![f] = v]
    /\ behind' = (behind \/ pending = Idle)
    /\ UNCHANGED <<options, env, up, client, pending>>

UpdateFails(f) == \E v \in Strings : SaveFails(Merged(f, v))

Next ==
    \/ Start \/ StartFails \/ Stop
    \/ \E f \in Fields : Reconfigure(f) \/ Update(f) \/ UpdateFails(f)
    \/ \E r \in Saves : SetupSave(r) \/ SetupSaveDone(r) \/ SetupSaveFails(r)

Spec == Init /\ [][Next]_vars

-----------------------------------------------------------------------------
(* Properties *)

\* What a page reported as saved is in use, through later saves of other
\* fields, the repair at start-up and restarts, until it is saved anew, cleared,
\* overridden by the options or the environment, or lost in a write that failed.
SavedValuesStayInUse ==
    up => \A f \in Fields : IsSet(saved[f]) => settings[f] = saved[f]

\* When the last /setup/save under way is through, the registered client talks
\* to the Music Assistant of the current settings, whatever was saved while the
\* old client was closing; a save by another page or one that fails leaves it
\* behind until the next /setup/save or start.
ClientFollowsSettings ==
    up /\ pending = Idle /\ ~behind => client = settings[MAField]

=============================================================================
