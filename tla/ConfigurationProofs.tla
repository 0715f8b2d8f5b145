------------------------- MODULE ConfigurationProofs -------------------------
(***************************************************************************)
(* What is proved of the module Configuration for any fields, values and   *)
(* number of concurrent saves.                                             *)
(*                                                                         *)
(* SavedValuesStayInUse is not inductive: while the add-on is down only    *)
(* config.json has the saved values.  The invariant OnRecord says that     *)
(* memory and file both have them, whenever they are there.                *)
(***************************************************************************)
EXTENDS Configuration, TLAPS

\* Every value that counts as saved is in the file.
OnRecord ==
    \A f \in Fields : IsSet(saved[f]) => file # Absent /\ file[f] = saved[f]

Inv == TypeOK /\ OnRecord /\ SavedValuesStayInUse /\ ClientFollowsSettings

USE DEF Strings, Configs, IsSet

\* What is in use after a start is a configuration.
LEMMA EffectiveType == TypeOK => Effective \in Configs
<1> SUFFICES ASSUME TypeOK, NEW f \in Fields
             PROVE  (IF FromFile(f) THEN file[f] ELSE Loaded(f)) \in Strings
  BY DEF Effective
<1>1. CASE FromFile(f)
  BY <1>1 DEF FromFile, TypeOK
<1>2. CASE ~FromFile(f)
  <2>1. Loaded(f) \in Strings
    BY DEF Loaded, TypeOK
  <2> QED
    BY <1>2, <2>1
<1> QED
  BY <1>1, <1>2

\* A start uses a saved value that neither the options nor the environment
\* override.
LEMMA EffectiveKeepsSaved ==
  ASSUME TypeOK, OnRecord, NEW f \in Fields,
         IsSet(saved[f]), ~IsSet(options[f]), ~IsSet(env[f])
  PROVE  Effective[f] = saved[f]
<1>1. FromFile(f)
  BY DEF OnRecord, FromFile
<1> QED
  BY <1>1 DEF Effective, OnRecord

\* Overlaying memory with a configuration gives a configuration that has its set
\* values.
LEMMA OverlayFacts ==
  ASSUME TypeOK, NEW config \in Configs
  PROVE  /\ Overlay(config) \in Configs
         /\ \A f \in Fields : IsSet(config[f]) => Overlay(config)[f] = config[f]
  BY DEF Overlay, TypeOK

LEMMA MergedFacts ==
  ASSUME TypeOK, NEW f \in Fields, NEW v \in Strings
  PROVE  /\ Merged(f, v) \in Configs
         /\ Merged(f, v)[f] = v
         /\ \A g \in Fields : g # f => Merged(f, v)[g] = settings[g]
  BY DEF Merged, TypeOK

\* What survives a bad write is in the file.
LEMMA SurvivingFacts ==
  ASSUME TypeOK, NEW config \in Configs \cup {Absent}
  PROVE  /\ Surviving(config) \in Configs
         /\ \A f \in Fields : IsSet(Surviving(config)[f]) =>
               /\ config # Absent
               /\ config[f] = Surviving(config)[f]
               /\ Surviving(config)[f] = saved[f]
  BY EmptyIsNoValue DEF Surviving, TypeOK

-----------------------------------------------------------------------------
LEMMA InitInv == Init => Inv
  BY EmptyIsNoValue, MAFieldIsField
  DEF Init, Inv, TypeOK, OnRecord, SavedValuesStayInUse, ClientFollowsSettings, Blank, Idle

LEMMA StartInv == Inv /\ Start => Inv'
<1> SUFFICES ASSUME Inv, Start PROVE Inv'
  OBVIOUS
<1>1. Effective \in Configs
  BY EffectiveType DEF Inv
<1>2. /\ settings' = Effective
      /\ file' = Effective
      /\ client' = Effective[MAField]
      /\ up' = TRUE
      /\ behind' = FALSE
      /\ saved' = [f \in Fields |->
                      IF IsSet(options[f]) \/ IsSet(env[f]) THEN Empty ELSE saved[f]]
      /\ UNCHANGED <<options, env, pending>>
  BY DEF Start, Written
<1>3. TypeOK'
  BY <1>1, <1>2, MAFieldIsField DEF Inv, TypeOK
<1>4. ASSUME NEW f \in Fields, IsSet(saved'[f])
      PROVE  Effective[f] = saved'[f] /\ Effective # Absent
  <2>1. ~IsSet(options[f]) /\ ~IsSet(env[f]) /\ saved'[f] = saved[f]
    BY <1>2, <1>4, EmptyIsNoValue
  <2>2. Effective[f] = saved[f]
    BY <1>4, <2>1, EffectiveKeepsSaved DEF Inv
  <2> QED
    BY <1>1, <2>1, <2>2, AbsentIsNoConfig
<1> QED
  BY <1>2, <1>3, <1>4 DEF Inv, OnRecord, SavedValuesStayInUse, ClientFollowsSettings

LEMMA StartFailsInv == Inv /\ StartFails => Inv'
<1> SUFFICES ASSUME Inv, StartFails PROVE Inv'
  OBVIOUS
<1>1. file' \in Configs \cup {Absent}
  BY DEF Inv, TypeOK, StartFails, NotWritten
<1>2. /\ saved' = Surviving(file')
      /\ ~up /\ ~up'
      /\ UNCHANGED <<options, env, settings, up, client, pending, behind>>
  BY DEF StartFails
<1>3. /\ saved' \in Configs
      /\ \A f \in Fields : IsSet(saved'[f]) => file' # Absent /\ file'[f] = saved'[f]
  BY <1>1, <1>2, SurvivingFacts DEF Inv
<1> QED
  BY <1>1, <1>2, <1>3
  DEF Inv, TypeOK, OnRecord, SavedValuesStayInUse, ClientFollowsSettings

LEMMA StopInv == Inv /\ Stop => Inv'
  BY EmptyIsNoValue
  DEF Inv, TypeOK, OnRecord, SavedValuesStayInUse, ClientFollowsSettings, Stop,
      Blank, Idle

LEMMA ReconfigureInv ==
  ASSUME Inv, NEW f \in Fields, Reconfigure(f)
  PROVE  Inv'
  BY DEF Inv, TypeOK, OnRecord, SavedValuesStayInUse, ClientFollowsSettings, Reconfigure

\* A save that fails keeps only claims that memory and file both honour.
LEMMA SaveFailsInv ==
  ASSUME Inv, NEW config \in Configs, SaveFails(config)
  PROVE  Inv'
<1>1. file' \in Configs \cup {Absent}
  BY DEF Inv, TypeOK, SaveFails, NotWritten
<1>2. settings' \in Configs
  BY OverlayFacts DEF Inv, SaveFails
<1>3. saved' = [f \in Fields |->
                   IF settings'[f] = saved[f] THEN Surviving(file')[f] ELSE Empty]
  BY DEF SaveFails
<1>4. /\ Surviving(file') \in Configs
      /\ \A f \in Fields : IsSet(Surviving(file')[f]) =>
            /\ file' # Absent
            /\ file'[f] = Surviving(file')[f]
            /\ Surviving(file')[f] = saved[f]
  BY <1>1, SurvivingFacts DEF Inv
<1>5. saved' \in Configs
  BY <1>3, <1>4
<1>6. ASSUME NEW f \in Fields, IsSet(saved'[f])
      PROVE  file' # Absent /\ file'[f] = saved'[f] /\ settings'[f] = saved'[f]
  <2>1. settings'[f] = saved[f] /\ saved'[f] = Surviving(file')[f]
    BY <1>3, <1>6, EmptyIsNoValue
  <2> QED
    BY <1>4, <1>6, <2>1
<1>7. TypeOK'
  BY <1>1, <1>2, <1>5 DEF Inv, TypeOK, SaveFails
<1>8. ClientFollowsSettings'
  BY DEF ClientFollowsSettings, SaveFails, Inv, TypeOK, Idle
<1> QED
  BY <1>6, <1>7, <1>8 DEF Inv, OnRecord, SavedValuesStayInUse

LEMMA SetupSaveInv ==
  ASSUME Inv, NEW r \in Saves, SetupSave(r)
  PROVE  Inv'
<1>1. PICK config \in Configs :
         /\ settings' = Overlay(config)
         /\ file' = config
         /\ saved' = config
         /\ pending' = [pending EXCEPT ![r] = config[MAField]]
  BY DEF SetupSave, SavePersisted, Written
<1>2. /\ Overlay(config) \in Configs
      /\ \A f \in Fields : IsSet(config[f]) => Overlay(config)[f] = config[f]
  BY OverlayFacts DEF Inv
<1>3. pending' # Idle /\ pending' \in [Saves -> Strings \cup {Absent}]
  <2>1. config[MAField] \in Strings /\ config[MAField] # Absent
    BY MAFieldIsField, EmptyIsNoValue
  <2>2. pending'[r] # Absent
    BY <1>1, <2>1 DEF Inv, TypeOK
  <2> QED
    BY <1>1, <2>1, <2>2 DEF Inv, TypeOK, Idle
<1>4. TypeOK'
  BY <1>1, <1>2, <1>3 DEF Inv, TypeOK, SetupSave
<1> QED
  BY <1>1, <1>2, <1>3, <1>4, AbsentIsNoConfig
  DEF Inv, OnRecord, SavedValuesStayInUse, ClientFollowsSettings

LEMMA SetupSaveDoneInv ==
  ASSUME Inv, NEW r \in Saves, SetupSaveDone(r)
  PROVE  Inv'
  BY MAFieldIsField
  DEF Inv, TypeOK, OnRecord, SavedValuesStayInUse, ClientFollowsSettings,
      SetupSaveDone, NewClient

\* The fields that an update does not name are written from memory, which has
\* their saved values.
LEMMA UpdateInv ==
  ASSUME Inv, NEW f \in Fields, Update(f)
  PROVE  Inv'
<1>1. PICK v \in Strings :
         /\ settings' = Overlay(Merged(f, v))
         /\ file' = Merged(f, v)
         /\ saved' = [saved EXCEPT ![f] = v]
  BY DEF Update, SavePersisted, Written
<1>2. /\ up /\ up' /\ pending' = pending
      /\ behind' = (behind \/ pending = Idle)
      /\ UNCHANGED <<options, env, client>>
  BY DEF Update
<1>3. /\ Merged(f, v) \in Configs
      /\ Merged(f, v)[f] = v
      /\ \A g \in Fields : g # f => Merged(f, v)[g] = settings[g]
  BY MergedFacts DEF Inv
<1>4. /\ Overlay(Merged(f, v)) \in Configs
      /\ \A g \in Fields : IsSet(Merged(f, v)[g]) =>
            Overlay(Merged(f, v))[g] = Merged(f, v)[g]
  BY <1>3, OverlayFacts DEF Inv
<1>5. TypeOK'
  BY <1>1, <1>2, <1>3, <1>4 DEF Inv, TypeOK
<1>6. ASSUME NEW g \in Fields, IsSet(saved'[g])
      PROVE  Merged(f, v)[g] = saved'[g]
  <2>1. CASE g = f
    BY <1>1, <1>3, <2>1 DEF Inv, TypeOK
  <2>2. CASE g # f
    BY <1>1, <1>2, <1>3, <1>6, <2>2 DEF Inv, TypeOK, SavedValuesStayInUse
  <2> QED
    BY <2>1, <2>2
<1>7. OnRecord' /\ SavedValuesStayInUse'
  BY <1>1, <1>3, <1>4, <1>6, AbsentIsNoConfig DEF OnRecord, SavedValuesStayInUse
<1>8. ClientFollowsSettings'
  BY <1>2 DEF ClientFollowsSettings, Inv, TypeOK, Idle
<1> QED
  BY <1>5, <1>7, <1>8 DEF Inv

LEMMA StepInv == Inv /\ [Next]_vars => Inv'
<1> SUFFICES ASSUME Inv, [Next]_vars PROVE Inv'
  OBVIOUS
<1>1. CASE Start
  BY <1>1, StartInv
<1>2. CASE StartFails
  BY <1>2, StartFailsInv
<1>3. CASE Stop
  BY <1>3, StopInv
<1>4. ASSUME NEW f \in Fields, Reconfigure(f) PROVE Inv'
  BY <1>4, ReconfigureInv
<1>5. ASSUME NEW f \in Fields, Update(f) PROVE Inv'
  BY <1>5, UpdateInv
<1>6. ASSUME NEW f \in Fields, UpdateFails(f) PROVE Inv'
  BY <1>6, MergedFacts, SaveFailsInv DEF UpdateFails, Inv
<1>7. ASSUME NEW r \in Saves, SetupSave(r) PROVE Inv'
  BY <1>7, SetupSaveInv
<1>8. ASSUME NEW r \in Saves, SetupSaveDone(r) PROVE Inv'
  BY <1>8, SetupSaveDoneInv
<1>9. ASSUME NEW r \in Saves, SetupSaveFails(r) PROVE Inv'
  BY <1>9, SaveFailsInv DEF SetupSaveFails
<1>10. CASE UNCHANGED vars
  BY <1>10 DEF vars, Inv, TypeOK, OnRecord, SavedValuesStayInUse,
      ClientFollowsSettings, Idle
<1> QED
  BY <1>1, <1>2, <1>3, <1>4, <1>5, <1>6, <1>7, <1>8, <1>9, <1>10 DEF Next

\* The inductive invariant holds of every behaviour.
THEOREM Invariant == Spec => []Inv
<1> QED
  BY InitInv, StepInv, PTL DEF Spec

\* Every variable keeps its type, whatever the saves and starts do.
THEOREM TypeCorrect == Spec => []TypeOK
<1>1. Inv => TypeOK
  BY DEF Inv
<1> QED
  BY <1>1, Invariant, PTL

\* No sequence of saves, failed writes and restarts loses a value that was
\* reported as saved and is still entitled to be in use.
THEOREM SavedStays == Spec => []SavedValuesStayInUse
<1>1. Inv => SavedValuesStayInUse
  BY DEF Inv
<1> QED
  BY <1>1, Invariant, PTL

\* The client follows the settings through any number of concurrent saves.
THEOREM ClientFollows == Spec => []ClientFollowsSettings
<1>1. Inv => ClientFollowsSettings
  BY DEF Inv
<1> QED
  BY <1>1, Invariant, PTL

=============================================================================
