----------------------------- MODULE ControlProofs -----------------------------
(* What ControlPlane guarantees for any number of processes, directories,      *)
(* ids, variables and patches: the settings are what was posted, a directory   *)
(* has no more ids than registrations of it raced, and a command gets the      *)
(* variables the operator let its id have.                                     *)
EXTENDS ControlPlane, FiniteSetTheorems, TLAPS

(* What the file says, and what a save that is on its way will make it say.    *)
ConfigInv ==
    /\ SettingsKept
    /\ save.at = "write" => config = Torn
    /\ save.at # "idle" => save.to = Merge(Merge(Defaults, posted), save.patch)

(* Of those that had looked in vain when a directory got its first row, each   *)
(* has inserted one more, is about to, or has given up.                        *)
RootInv(root) ==
    /\ IsFiniteSet(Known(root))
    /\ Known(root) = {} => rivals[root] = {}
    /\ Known(root) # {} =>
        Cardinality(Known(root)) + Cardinality(Trying(root)) <= Cardinality(rivals[root])

RegistryInv == \A root \in Roots : RootInv(root)

(* The allowlist that was posted for an id.                                    *)
Posted(id) == IF posted[id] = Absent THEN {} ELSE posted[id]

(* What was posted since a save was last cut short is what was last granted.   *)
GrantInv == \A id \in Ids : posted[id] # Absent => granted[id] = posted[id]

IInv == TypeOK /\ ConfigInv /\ RegistryInv /\ GrantInv /\ EnvAsGranted
--------------------------------------------------------------------------------
(* Merging keeps the shape of the settings.                                    *)
LEMMA MergeType ==
  ASSUME NEW base \in Settings, NEW over \in Settings
  PROVE  Merge(base, over) \in Settings
BY DEF Merge, Settings, Keys

LEMMA ConstantTypes == Defaults \in Settings /\ Nothing \in Settings
BY DEF Defaults, Nothing, Settings, Keys

(* Defaults under a save that started from the defaults are the defaults under *)
(* what was saved: patches can be merged one by one or all at once.            *)
LEMMA MergeOnce ==
  ASSUME NEW base \in Settings, NEW over \in Settings, NEW patch \in Settings
  PROVE  /\ Merge(base, Merge(Merge(base, over), patch)) = Merge(base, Merge(over, patch))
         /\ Merge(Merge(base, over), patch) = Merge(base, Merge(over, patch))
BY DEF Merge, Settings

LEMMA MergeNothing ==
  ASSUME NEW base \in Settings
  PROVE  Merge(base, Nothing) = base
BY DEF Merge, Nothing, Settings

(* load_settings() gives settings.                                             *)
LEMMA LoadType ==
  ASSUME TypeOK
  PROVE  Load \in Settings
BY ConstantTypes, MergeType DEF TypeOK, Load

(* What an id may have when the settings are what was posted.                  *)
LEMMA AllowlistPosted ==
  ASSUME TypeOK, Load = Merge(Defaults, posted), NEW id \in Ids
  PROVE  Allowlist(id) = Posted(id)
<1>1. id \in Keys /\ id # Other
  BY ControlAssumption DEF Keys
<1>2. posted[id] = Absent => Load[id] = Absent
  BY <1>1 DEF Merge, Defaults
<1>3. posted[id] # Absent => Load[id] = posted[id]
  BY <1>1 DEF Merge
<1> QED
  BY <1>2, <1>3 DEF Allowlist, Posted

(* Before anything is read or written all of it holds.                         *)
LEMMA InitInv == Init => IInv
<1> SUFFICES ASSUME Init PROVE IInv
  OBVIOUS
<1> USE DEF Init
<1>1. TypeOK
  BY ConstantTypes DEF TypeOK, Saving
<1>2. ConfigInv
  BY MergeNothing, ConstantTypes DEF ConfigInv, SettingsKept, Load
<1>3. RegistryInv
  BY FS_EmptySet DEF RegistryInv, RootInv, Known
<1>4. GrantInv
  BY DEF GrantInv, Nothing, Keys
<1>5. EnvAsGranted
  BY DEF EnvAsGranted
<1> QED
  BY <1>1, <1>2, <1>3, <1>4, <1>5 DEF IInv
--------------------------------------------------------------------------------
(* Every step keeps the types.                                                 *)
LEMMA TypeStep == TypeOK /\ [Next]_vars => TypeOK'
<1> SUFFICES ASSUME TypeOK, [Next]_vars PROVE TypeOK'
  OBVIOUS
<1> USE DEF TypeOK, settingsVars, pageVars, registryVars
<1>1. ASSUME NEW origin \in Origins, Refuse(origin) \/ CsrfToken(origin) PROVE TypeOK'
  BY <1>1 DEF Refuse, CsrfToken
<1>2. ASSUME NEW origin \in Origins, NEW patch \in Patches, SettingsApply(origin, patch)
      PROVE  TypeOK'
  <2>1. patch \in Settings /\ Merged(patch) \in Settings
    BY LoadType, MergeType, ControlAssumption DEF Merged
  <2> QED
    BY <1>2, <2>1 DEF SettingsApply, Saving
<1>3. CASE Truncate
  BY <1>3 DEF Truncate, Saving
<1>4. CASE Fill
  <2>1. /\ config' = save.to /\ posted' = Merge(posted, save.patch)
        /\ save' = [save EXCEPT !.at = "idle"]
        /\ granted' = [id \in Ids |-> IF save.patch[id] = Absent THEN granted[id]
                                      ELSE save.patch[id]]
        /\ UNCHANGED <<pageVars, registryVars, ran>>
    BY <1>4 DEF Fill
  <2>2. posted' \in Settings
    BY <2>1, MergeType
  <2>3. \A id \in Ids : save.patch[id] # Absent => save.patch[id] \in SUBSET Vars
    BY DEF Settings, Keys
  <2>4. granted' \in [Ids -> SUBSET Vars]
    BY <2>1, <2>3
  <2>5. save' \in [at : Saving, to : Settings, patch : Settings]
    BY <2>1 DEF Saving
  <2> QED
    BY <2>1, <2>2, <2>4, <2>5
<1>5. CASE CutShort
  BY <1>5, ConstantTypes DEF CutShort, Saving
<1>6. ASSUME NEW a \in Agents, NEW root \in Roots, Register(a, root) PROVE TypeOK'
  BY <1>6 DEF Register
<1>7. ASSUME NEW a \in Agents, Insert(a) PROVE TypeOK'
  <2>1. PICK id \in Ids : table' = table \union {<<id, reg[a]>>}
    BY <1>7 DEF Insert
  <2>2. reg[a] \in Roots
    BY <1>7 DEF Insert
  <2>3. reg' \in [Agents -> Roots \union {Absent}]
    BY <1>7 DEF Insert
  <2>4. rivals' \in [Roots -> SUBSET Agents]
    BY <1>7, <2>2 DEF Insert, Trying
  <2> QED
    BY <1>7, <2>1, <2>2, <2>3, <2>4 DEF Insert
<1>8. ASSUME NEW a \in Agents, Abandon(a) PROVE TypeOK'
  BY <1>8 DEF Abandon
<1>9. ASSUME NEW id \in Ids, NEW asked \in {Absent} \union SUBSET Vars, RunCommand(id, asked)
      PROVE  TypeOK'
  <2>1. FilteredEnv(asked, Allowlist(id)) \in Environments
    BY DEF FilteredEnv, Own, Environments
  <2>2. (IF asked = Absent THEN {} ELSE asked \intersect granted[id]) \in SUBSET Vars
    OBVIOUS
  <2> QED
    BY <1>9, <2>1, <2>2 DEF RunCommand, Commands
<1>10. CASE UNCHANGED vars
  BY <1>10 DEF vars
<1> QED
  BY <1>1, <1>2, <1>3, <1>4, <1>5, <1>6, <1>7, <1>8, <1>9, <1>10 DEF Next, Page, Agent, Command

(* TypeOK: all that config.json, the tables and the histories ever hold is     *)
(* what it should be.                                                          *)
THEOREM TypeCorrect == Spec => []TypeOK
<1>1. Init => TypeOK
  BY InitInv DEF IInv
<1> QED
  BY <1>1, TypeStep, PTL DEF Spec
--------------------------------------------------------------------------------
(* Every step of the page, the server and the agents keeps the file in order.  *)
LEMMA ConfigStep == TypeOK /\ ConfigInv /\ [Next]_vars => ConfigInv'
<1> SUFFICES ASSUME TypeOK, ConfigInv, [Next]_vars PROVE ConfigInv'
  OBVIOUS
<1> USE DEF ConfigInv, SettingsKept
<1>0. /\ save \in [at : Saving, to : Settings, patch : Settings]
      /\ posted \in Settings /\ config \in {Missing, Torn} \union Settings
  BY DEF TypeOK
<1>1. ASSUME UNCHANGED settingsVars PROVE ConfigInv'
  BY <1>1 DEF settingsVars, Load, Merge, Defaults, Keys
<1>2. ASSUME NEW origin \in Origins, NEW patch \in Patches, SettingsApply(origin, patch)
      PROVE  ConfigInv'
  <2>1. /\ save.at = "idle" /\ UNCHANGED <<config, posted>>
        /\ save' = [at |-> "open", to |-> Merge(Load, patch), patch |-> patch]
    BY <1>2 DEF SettingsApply, Merged
  <2>2. Load = Merge(Defaults, posted)
    BY <2>1
  <2>3. Load' = Load /\ Merge(Defaults, posted)' = Merge(Defaults, posted)
    BY <2>1 DEF Load, Merge, Defaults, Keys
  <2>4. (Merge(Merge(Defaults, posted), save.patch))' = Merge(Merge(Defaults, posted), patch)
    BY <2>1 DEF Merge, Defaults, Keys
  <2> QED
    BY <2>1, <2>2, <2>3, <2>4
<1>3. CASE Truncate
  <2>1. /\ save.at = "open" /\ config' = Torn /\ posted' = posted
        /\ save' = [save EXCEPT !.at = "write"]
    BY <1>3 DEF Truncate
  <2>2. save'.at = "write" /\ save'.to = save.to /\ save'.patch = save.patch
    BY <1>0, <2>1
  <2>3. (Merge(Merge(Defaults, posted), save.patch))' = Merge(Merge(Defaults, posted), save.patch)
    BY <2>1, <2>2 DEF Merge, Defaults, Keys
  <2> QED
    BY <2>1, <2>2, <2>3
<1>4. CASE Fill
  <2>1. /\ save.at = "write" /\ config' = save.to /\ posted' = Merge(posted, save.patch)
        /\ save' = [save EXCEPT !.at = "idle"]
    BY <1>4 DEF Fill
  <2>2. save'.at = "idle"
    BY <1>0, <2>1
  <2>3. save.to \in Settings /\ save.patch \in Settings
    BY <1>0
  <2>4. Load' = Merge(Defaults, save.to)
    <3>1. config' # Missing /\ config' # Torn
      BY <2>1, <2>3, ControlAssumption
    <3> QED
      BY <2>1, <3>1 DEF Load, Merge, Defaults, Keys
  <2>5. Load' = Merge(Defaults, Merge(posted, save.patch))
    BY <1>0, <2>1, <2>3, <2>4, MergeOnce, ConstantTypes
  <2>6. Merge(Defaults, posted)' = Merge(Defaults, Merge(posted, save.patch))
    BY <2>1 DEF Merge, Defaults, Keys
  <2> QED
    BY <2>2, <2>5, <2>6
<1>5. CASE CutShort
  <2>1. save' = [save EXCEPT !.at = "idle"] /\ config' = config
    BY <1>5 DEF CutShort
  <2>2. save'.at = "idle"
    BY <1>0, <2>1
  <2>3. CASE save.at = "write"
    <3>1. posted' = Nothing /\ config' = Torn
      BY <1>5, <2>1, <2>3 DEF CutShort
    <3>2. Load' = Defaults
      BY <3>1 DEF Load, Defaults, Keys
    <3>3. Merge(Defaults, posted)' = Merge(Defaults, Nothing)
      BY <3>1 DEF Merge, Defaults, Keys
    <3> QED
      BY <2>2, <3>2, <3>3, MergeNothing, ConstantTypes
  <2>4. CASE save.at # "write"
    <3>1. posted' = posted
      BY <1>5, <2>4 DEF CutShort
    <3>2. Load' = Load /\ Merge(Defaults, posted)' = Merge(Defaults, posted)
      BY <2>1, <3>1 DEF Load, Merge, Defaults, Keys
    <3> QED
      BY <2>2, <2>4, <3>2
  <2> QED
    BY <2>3, <2>4
<1>6. ASSUME NEW origin \in Origins, Refuse(origin) \/ CsrfToken(origin)
      PROVE  UNCHANGED settingsVars
  BY <1>6 DEF Refuse, CsrfToken
<1>7. ASSUME (\E a \in Agents : Agent(a)) \/ Command PROVE UNCHANGED settingsVars
  BY <1>7 DEF Agent, Register, Insert, Abandon, Command, RunCommand
<1>8. CASE UNCHANGED vars
  BY <1>1, <1>8 DEF vars
<1> QED
  BY <1>1, <1>2, <1>3, <1>4, <1>5, <1>6, <1>7, <1>8 DEF Next, Page

(* A directory whose rows stay, and that no one new tries to register.         *)
LEMMA RootKept ==
  ASSUME TypeOK, NEW root \in Roots, RootInv(root),
         Known(root)' = Known(root), rivals'[root] = rivals[root],
         Trying(root)' \subseteq Trying(root)
  PROVE  RootInv(root)'
<1>1. IsFiniteSet(Trying(root)) /\ IsFiniteSet(rivals[root])
  BY FS_Subset, ControlAssumption DEF Trying, TypeOK
<1>2. Cardinality(Trying(root)') <= Cardinality(Trying(root))
  BY <1>1, FS_Subset
<1>3. /\ Cardinality(Trying(root)) \in Nat /\ Cardinality(Trying(root)') \in Nat
      /\ Cardinality(rivals[root]) \in Nat
  BY <1>1, FS_Subset, FS_CardinalityType
<1>4. Cardinality(Known(root)) \in Nat
  BY FS_CardinalityType DEF RootInv
<1> QED
  BY <1>2, <1>3, <1>4 DEF RootInv

(* An insertion adds one id, and takes away one that tried.                    *)
LEMMA InsertKeeps ==
  ASSUME TypeOK, NEW a \in Agents, Insert(a), NEW root \in Roots, root = reg[a],
         RootInv(root)
  PROVE  RootInv(root)'
<1>1. PICK id \in Ids : /\ \A r \in Roots : <<id, r>> \notin table
                       /\ table' = table \union {<<id, reg[a]>>}
  BY DEF Insert
<1>2. /\ reg[a] \in Roots /\ reg' = [reg EXCEPT ![a] = Absent]
      /\ rivals' = IF Known(reg[a]) = {}
                   THEN [rivals EXCEPT ![reg[a]] = Trying(reg[a])] ELSE rivals
      /\ reg \in [Agents -> Roots \union {Absent}] /\ rivals \in [Roots -> SUBSET Agents]
      /\ Absent \notin Roots
  BY ControlAssumption DEF Insert, TypeOK
<1> DEFINE Was == Known(root)
          Tried == Trying(root)
<1>3. {x \in Ids : <<x, root>> \in table'} = Was \union {id} /\ id \notin Was
  BY <1>1, <1>2 DEF Known
<1>4. {b \in Agents : reg'[b] = root} = Tried \ {a} /\ a \in Tried
  BY <1>2 DEF Trying
<1>5. rivals'[root] = IF Was = {} THEN Tried ELSE rivals[root]
  BY <1>2
<1>6. IsFiniteSet(Was) /\ IsFiniteSet(Tried) /\ IsFiniteSet(rivals[root])
  BY <1>2, FS_Subset, ControlAssumption DEF Trying, RootInv
<1>7. /\ Cardinality(Was) \in Nat /\ Cardinality(Tried) \in Nat
      /\ Cardinality(rivals[root]) \in Nat
      /\ Was = {} => Cardinality(Was) = 0
  BY <1>6, FS_CardinalityType, FS_EmptySet
<1>8. /\ IsFiniteSet(Was \union {id})
      /\ Cardinality(Was \union {id}) = Cardinality(Was) + 1
      /\ Cardinality(Tried \ {a}) = Cardinality(Tried) - 1
  BY <1>3, <1>4, <1>6, FS_AddElement, FS_RemoveElement
<1>9. Was # {} => Cardinality(Was) + Cardinality(Tried) <= Cardinality(rivals[root])
  BY DEF RootInv
<1>10. Cardinality(Was \union {id}) + Cardinality(Tried \ {a}) <= Cardinality(rivals'[root])
  <2> HIDE DEF Was, Tried
  <2> QED
    BY <1>5, <1>7, <1>8, <1>9
<1>11. /\ IsFiniteSet({x \in Ids : <<x, root>> \in table'})
       /\ {x \in Ids : <<x, root>> \in table'} # {}
       /\ Cardinality({x \in Ids : <<x, root>> \in table'})
            + Cardinality({b \in Agents : reg'[b] = root}) <= Cardinality(rivals'[root])
  BY <1>3, <1>4, <1>8, <1>10
<1> QED
  BY <1>11 DEF RootInv, Known, Trying

(* Every step keeps the registry in order.                                     *)
LEMMA RegistryStep == TypeOK /\ RegistryInv /\ [Next]_vars => RegistryInv'
<1> SUFFICES ASSUME TypeOK, RegistryInv, [Next]_vars PROVE RegistryInv'
  OBVIOUS
<1>0. reg \in [Agents -> Roots \union {Absent}] /\ Absent \notin Roots
  BY ControlAssumption DEF TypeOK
<1>1. ASSUME UNCHANGED registryVars PROVE RegistryInv'
  BY <1>1 DEF RegistryInv, RootInv, Known, Trying, registryVars
<1>2. ASSUME NEW a \in Agents, NEW root \in Roots, Register(a, root) PROVE RegistryInv'
  <2>1. /\ Known(root) = {} /\ UNCHANGED <<table, rivals>>
        /\ reg[a] = Absent /\ reg' = [reg EXCEPT ![a] = root]
    BY <1>2 DEF Register
  <2>2. ASSUME NEW r \in Roots, r # root PROVE RootInv(r)'
    <3>1. Known(r)' = Known(r) /\ Trying(r)' \subseteq Trying(r)
      BY <1>0, <2>1, <2>2 DEF Known, Trying
    <3> QED
      BY <2>1, <3>1, RootKept DEF RegistryInv
  <2>3. RootInv(root)'
    BY <2>1 DEF RegistryInv, RootInv, Known
  <2> QED
    BY <2>2, <2>3 DEF RegistryInv
<1>3. ASSUME NEW a \in Agents, Insert(a) PROVE RegistryInv'
  <2>1. /\ \E id \in Ids : table' = table \union {<<id, reg[a]>>}
        /\ reg[a] \in Roots /\ reg' = [reg EXCEPT ![a] = Absent]
        /\ \A r \in Roots : r # reg[a] => rivals'[r] = rivals[r]
    BY <1>0, <1>3 DEF Insert, TypeOK
  <2>2. ASSUME NEW r \in Roots, r # reg[a] PROVE RootInv(r)'
    <3>1. Known(r)' = Known(r) /\ Trying(r)' \subseteq Trying(r)
      BY <1>0, <2>1, <2>2 DEF Known, Trying
    <3> QED
      BY <2>1, <2>2, <3>1, RootKept DEF RegistryInv
  <2>3. ASSUME NEW r \in Roots, r = reg[a] PROVE RootInv(r)'
    BY <1>3, <2>3, InsertKeeps DEF RegistryInv
  <2> QED
    BY <2>2, <2>3 DEF RegistryInv
<1>4. ASSUME NEW a \in Agents, Abandon(a) PROVE RegistryInv'
  <2>1. UNCHANGED <<table, rivals>> /\ reg' = [reg EXCEPT ![a] = Absent]
    BY <1>4 DEF Abandon
  <2>2. ASSUME NEW r \in Roots PROVE RootInv(r)'
    <3>1. Known(r)' = Known(r) /\ Trying(r)' \subseteq Trying(r)
      BY <1>0, <2>1 DEF Known, Trying
    <3> QED
      BY <2>1, <3>1, RootKept DEF RegistryInv
  <2> QED
    BY <2>2 DEF RegistryInv
<1>5. CASE Page
  BY <1>1, <1>5 DEF Page, Refuse, CsrfToken, SettingsApply
<1>6. CASE Truncate \/ Fill \/ CutShort \/ Command
  BY <1>1, <1>6 DEF Truncate, Fill, CutShort, Command, RunCommand
<1>7. CASE UNCHANGED vars
  BY <1>1, <1>7 DEF vars
<1> QED
  BY <1>1, <1>2, <1>3, <1>4, <1>5, <1>6, <1>7 DEF Next, Agent
--------------------------------------------------------------------------------
(* Every step keeps what was granted in step with what was posted.             *)
LEMMA GrantStep == TypeOK /\ GrantInv /\ [Next]_vars => GrantInv'
<1> SUFFICES ASSUME TypeOK, GrantInv, [Next]_vars PROVE GrantInv'
  OBVIOUS
<1> USE DEF GrantInv
<1>0. /\ save \in [at : Saving, to : Settings, patch : Settings]
      /\ posted \in Settings /\ granted \in [Ids -> SUBSET Vars]
      /\ Ids \subseteq Keys
  BY DEF TypeOK, Keys
<1>1. ASSUME UNCHANGED <<posted, granted>> PROVE GrantInv'
  BY <1>1
<1>2. CASE Fill
  <2>1. /\ posted' = Merge(posted, save.patch)
        /\ granted' = [id \in Ids |-> IF save.patch[id] = Absent THEN granted[id]
                                      ELSE save.patch[id]]
    BY <1>2 DEF Fill
  <2>2. \A id \in Ids :
          posted'[id] = IF save.patch[id] = Absent THEN posted[id] ELSE save.patch[id]
    BY <1>0, <2>1 DEF Merge
  <2> QED
    BY <2>1, <2>2
<1>3. CASE CutShort
  <2>1. granted' = granted /\ (posted' = posted \/ posted' = Nothing)
    BY <1>3 DEF CutShort
  <2>2. \A id \in Ids : Nothing[id] = Absent
    BY <1>0 DEF Nothing
  <2> QED
    BY <2>1, <2>2
<1>4. CASE Page \/ Truncate
  BY <1>1, <1>4 DEF Page, Refuse, CsrfToken, SettingsApply, Truncate, settingsVars
<1>5. CASE (\E a \in Agents : Agent(a)) \/ Command
  BY <1>1, <1>5 DEF Agent, Register, Insert, Abandon, Command, RunCommand, settingsVars
<1>6. CASE UNCHANGED vars
  BY <1>1, <1>6 DEF vars, settingsVars
<1> QED
  BY <1>2, <1>3, <1>4, <1>5, <1>6 DEF Next

(* What an id may have is what it was last granted, or nothing.                *)
LEMMA AllowlistGranted ==
  ASSUME IInv, NEW id \in Ids
  PROVE  /\ Allowlist(id) \subseteq granted[id]
         /\ save.at # "write" /\ posted[id] # Absent => Allowlist(id) = granted[id]
<1> USE DEF IInv
<1>1. CASE save.at # "write"
  <2>1. Allowlist(id) = Posted(id)
    BY <1>1, AllowlistPosted DEF ConfigInv, SettingsKept
  <2> QED
    BY <2>1 DEF Posted, GrantInv
<1>2. CASE save.at = "write"
  <2>1. Load = Defaults
    BY <1>2 DEF ConfigInv, Load
  <2>2. Defaults[id] = Absent
    BY ControlAssumption DEF Defaults, Keys
  <2> QED
    BY <1>2, <2>1, <2>2 DEF Allowlist
<1> QED
  BY <1>1, <1>2

(* A command is run with what was granted, or while the file cannot be read.   *)
LEMMA EnvStep == IInv /\ [Next]_vars => EnvAsGranted'
<1> SUFFICES ASSUME IInv, [Next]_vars PROVE EnvAsGranted'
  OBVIOUS
<1>1. ASSUME ran' = ran PROVE EnvAsGranted'
  BY <1>1 DEF IInv, EnvAsGranted
<1>2. ASSUME NEW id \in Ids, NEW asked \in {Absent} \union SUBSET Vars, RunCommand(id, asked)
      PROVE  EnvAsGranted'
  <2>1. ran' = [env |-> FilteredEnv(asked, Allowlist(id)),
                due |-> IF asked = Absent THEN {} ELSE asked \intersect granted[id],
                whole |-> save.at # "write" /\ posted[id] # Absent]
    BY <1>2 DEF RunCommand
  <2> SUFFICES ASSUME NEW x \in Vars
               PROVE  /\ ran'.env[x] = "agent" => x \in ran'.due
                      /\ x \in ran'.due /\ ran'.whole => ran'.env[x] = "agent"
                      /\ ran'.env[x] # "agent" => ran'.env[x] = Own(x)
    BY DEF EnvAsGranted
  <2>2. ran'.env[x] = IF asked # Absent /\ x \in asked \intersect Allowlist(id)
                      THEN "agent" ELSE Own(x)
    BY <2>1 DEF FilteredEnv
  <2>3. x \in ran'.due <=> asked # Absent /\ x \in asked /\ x \in granted[id]
    BY <2>1
  <2>4. ran'.whole => Allowlist(id) = granted[id]
    BY <2>1, AllowlistGranted
  <2>5. Allowlist(id) \subseteq granted[id] /\ Own(x) # "agent"
    BY AllowlistGranted DEF Own
  <2> QED
    BY <2>2, <2>3, <2>4, <2>5
<1>3. CASE Page \/ Truncate \/ Fill \/ CutShort
  BY <1>1, <1>3 DEF Page, Refuse, CsrfToken, SettingsApply, Truncate, Fill, CutShort
<1>4. CASE \E a \in Agents : Agent(a)
  BY <1>1, <1>4 DEF Agent, Register, Insert, Abandon
<1>5. CASE UNCHANGED vars
  BY <1>1, <1>5 DEF vars
<1> QED
  BY <1>2, <1>3, <1>4, <1>5 DEF Next, Command

(* All of it together is inductive.                                            *)
THEOREM Inductive == Spec => []IInv
<1>1. IInv /\ [Next]_vars => IInv'
  BY TypeStep, ConfigStep, RegistryStep, GrantStep, EnvStep DEF IInv
<1> QED
  BY InitInv, <1>1, PTL DEF Spec

(* SettingsKept: what is read, except in the moment of a write, is the         *)
(* defaults with every patch that was saved since a save was last cut short.   *)
THEOREM SettingsAreKept == Spec => []SettingsKept
<1>1. IInv => SettingsKept
  BY DEF IInv, ConfigInv
<1> QED
  BY <1>1, Inductive, PTL

(* IdsPerRival: however many processes register(), abandon and race, a         *)
(* directory has no more ids than registrations that had looked for it in vain *)
(* when its first row came.                                                    *)
THEOREM NoMoreIds == Spec => []IdsPerRival
<1>1. IInv => IdsPerRival
  <2> SUFFICES ASSUME IInv, NEW root \in Roots
               PROVE  Cardinality(Known(root)) <= Cardinality(rivals[root])
    BY DEF IdsPerRival
  <2>1. RootInv(root) /\ IsFiniteSet(Trying(root)) /\ IsFiniteSet(rivals[root])
    BY FS_Subset, ControlAssumption DEF IInv, TypeOK, RegistryInv, Trying
  <2>2. /\ Cardinality(Known(root)) \in Nat /\ Cardinality(Trying(root)) \in Nat
        /\ Cardinality(rivals[root]) \in Nat
    BY <2>1, FS_CardinalityType DEF RootInv
  <2>3. CASE Known(root) = {}
    BY <2>1, <2>2, <2>3 DEF RootInv
  <2>4. CASE Known(root) # {}
    BY <2>1, <2>2, <2>4 DEF RootInv
  <2> QED
    BY <2>3, <2>4
<1> QED
  BY <1>1, Inductive, PTL

(* EnvAsGranted: of the variables a command asks for, _filtered_env() gives it *)
(* none that the last finished save did not let its id have, and all of these  *)
(* unless the file is being written or a save was cut short since; it leaves   *)
(* the other variables of its own process as they are.                         *)
THEOREM EnvIsGranted == Spec => []EnvAsGranted
<1>1. IInv => EnvAsGranted
  BY DEF IInv
<1> QED
  BY <1>1, Inductive, PTL
================================================================================
