--------------------------- MODULE LaunchesProofs ---------------------------
(***************************************************************************)
(* For every set of launches, every command line and every profile found:  *)
(* what the launches leave in a profile can be used, a preference is lost  *)
(* only to an overlapping launch, and every session's Muse gets the        *)
(* user's command and its own gateway.                                     *)
(***************************************************************************)
EXTENDS Launches, TLAPS, WellFoundedInduction

Steps == {"start", "gateway", "directories", "catalog", "check", "read", "stage",
          "persist", "spawn", "muse"} \cup Ended
Active(l) == pc[l] \notin Ended \cup {"start"}
IsSession(l) == Kind(l) = "session"

(* The types that the argument needs.                                      *)
TypeInv ==
  /\ DOMAIN command \subseteq Launch
  /\ pc \in [Launch -> Steps]
  /\ settings \in [PublicProviders -> Settings \cup {None, Broken}]
  /\ catalog \in [PublicProviders -> Launch \cup {None}]
  /\ copy \in [Launch -> Settings \cup {None, Broken}]
  /\ met \in [Launch -> SUBSET Launch]
  /\ saved \in [PublicProviders -> Launch \cup {None}]

(* A launch at work has one of the two profiles.                           *)
KnownInv == \A l \in Launch : Active(l) => Profile(l) \in PublicProviders

(* Who is at work at the same time has met.                                *)
MetInv ==
  /\ \A l, m \in Launch : l # m /\ Active(l) /\ Active(m) => m \in met[l]
  /\ \A l \in Launch : pc[l] = "start" => met[l] = {}

(* What a session has written stays written: nobody takes a pin out; and a *)
(* help command is on its way to write only where there were no settings.  *)
FileInv ==
  /\ \A p \in PublicProviders :
       /\ settings[p] = Broken => found.settings = Broken
       /\ settings[p] = None => found.settings = None
  /\ \A l \in Launch :
       /\ pc[l] \in {"read", "stage", "persist", "spawn", "muse"} /\ IsSession(l) =>
            catalog[Profile(l)] \in Launch
       /\ pc[l] \in {"spawn", "muse"} /\ IsSession(l) => Pinned(settings[Profile(l)])
       /\ pc[l] \in {"stage", "persist"} => copy[l] # Broken
       /\ pc[l] = "check" => ~IsSession(l)
       /\ pc[l] = "catalog" => IsSession(l)
       /\ pc[l] \in {"read", "stage", "persist"} /\ ~IsSession(l) => found.settings = None

Lost(p) == Sharing(saved[p]) # {}

(* The last preference saved is in the file, and in the copy of whoever is *)
(* about to replace the file, unless the launch that saved it has met      *)
(* another one of the profile.                                             *)
SavedInv ==
  /\ \A p \in PublicProviders : saved[p] # None =>
       Whole(settings[p]) /\ (settings[p].preference = saved[p] \/ Lost(p))
  /\ \A l \in Launch :
       pc[l] \in {"stage", "persist"} /\ saved[Profile(l)] # None =>
         \/ Whole(copy[l]) /\ copy[l].preference = saved[Profile(l)]
         \/ Lost(Profile(l))

IInv == TypeInv /\ KnownInv /\ MetInv /\ FileInv /\ SavedInv
-----------------------------------------------------------------------------
(* A command line that is a session or an information command has one of   *)
(* the two providers.                                                      *)
LEMMA ProfileKnown ==
  ASSUME NEW args, Classify(args) \in {"session", "information"}
  PROVE  SelectedProvider(args) \in PublicProviders
<1>1. ProviderOK(args)
  BY DEF Classify
<1>2. CASE ProviderValues(args) = {}
  BY <1>2 DEF SelectedProvider, Default, PublicProviders
<1>3. CASE ProviderValues(args) # {}
  BY <1>1, <1>3 DEF SelectedProvider, ProviderOK
<1> QED BY <1>2, <1>3

(* Whatever whole or missing file it starts from, seeding pins the file    *)
(* and keeps the preference.                                               *)
LEMMA SeedPins ==
  ASSUME NEW file \in Settings \cup {None}, NEW url \in Launch \cup {Unroutable}
  PROVE  /\ SeedStockSettings(file, url) \in Settings
         /\ Pinned(SeedStockSettings(file, url))
         /\ file # None => SeedStockSettings(file, url).preference = file.preference
<1>1. Unpinned \in Settings
  BY DEF Unpinned, Settings
<1>2. PICK base \in Settings : base = IF file = None THEN Unpinned ELSE file
  BY <1>1
<1>3. SeedStockSettings(file, url) =
        [base EXCEPT !.endpoint = url, !.retries = 0, !.telemetry = "off"]
  BY <1>2 DEF SeedStockSettings
<1>4. SeedStockSettings(file, url) =
        [endpoint |-> url, retries |-> 0, telemetry |-> "off", preference |-> base.preference]
  BY <1>3 DEF Settings
<1>5. base.preference \in Launch \cup {None}
  BY DEF Settings
<1>6. SeedStockSettings(file, url) \in Settings
  BY <1>4, <1>5 DEF Settings
<1>7. /\ SeedStockSettings(file, url).endpoint = url
      /\ SeedStockSettings(file, url).retries = 0
      /\ SeedStockSettings(file, url).telemetry = "off"
      /\ SeedStockSettings(file, url).preference = base.preference
  BY <1>4
<1> QED BY <1>2, <1>6, <1>7, LaunchesAssumption DEF Pinned, Whole

(* It holds before the first launch.                                       *)
LEMMA InitInv == Init => IInv
<1> SUFFICES ASSUME Init PROVE IInv
  OBVIOUS
<1>1. TypeInv
  BY LaunchesAssumption DEF Init, TypeInv, Steps
<1>2. KnownInv /\ MetInv /\ SavedInv
  BY DEF Init, KnownInv, MetInv, SavedInv, Active
<1>3. FileInv
  BY DEF Init, FileInv
<1> QED BY <1>1, <1>2, <1>3 DEF IInv

(* The set of launches one has met only grows, and with it what is lost.   *)
LEMMA MetGrows ==
  ASSUME TypeInv, UNCHANGED <<command, saved>>, \A m \in Launch : met[m] \subseteq met'[m],
         NEW p \in PublicProviders, saved[p] # None, Lost(p)
  PROVE  Lost(p)'
<1>1. saved[p] \in Launch
  BY DEF TypeInv
<1>2. PICK m \in met[saved[p]] : Profile(m) = Profile(saved[p])
  BY DEF Lost, Sharing
<1>3. m \in met'[saved[p]]
  BY <1>1, <1>2
<1>4. Profile(m)' = Profile(m) /\ Profile(saved[p])' = Profile(saved[p]) /\ saved' = saved
  BY DEF Profile, Args
<1> QED BY <1>2, <1>3, <1>4 DEF Lost, Sharing

(* A launch that starts has met those at work, and they have met it.       *)
LEMMA StartStep ==
  ASSUME IInv, NEW l \in DOMAIN command, Start(l)
  PROVE  IInv'
<1>1. l \in Launch /\ pc[l] = "start"
  BY DEF IInv, TypeInv, Start
<1>2. /\ pc' \in [Launch -> Steps]
      /\ pc'[l] \in {"directories", "gateway", "refused", "ended"}
      /\ \A m \in Launch \ {l} : pc'[m] = pc[m]
      /\ pc'[l] \in {"directories", "gateway"} => Kind(l) \in {"session", "information"}
  BY <1>1 DEF Start, IInv, TypeInv, Steps, Ended
<1>3. TypeInv'
  BY <1>2 DEF IInv, TypeInv, Start
<1>4. KnownInv'
  BY <1>1, <1>2, ProfileKnown DEF IInv, KnownInv, Start, Active, Profile, Kind, Args, Ended
<1>5. MetInv'
  BY <1>1, <1>2 DEF IInv, TypeInv, MetInv, Start, Active, Ended
<1>6. FileInv'
  BY <1>1, <1>2 DEF IInv, TypeInv, FileInv, Start, Profile, IsSession, Kind, Args
<1>7. \A m \in Launch : met[m] \subseteq met'[m]
  BY <1>1 DEF IInv, TypeInv, MetInv, Start
<1>8. \A p \in PublicProviders : saved[p] # None /\ Lost(p) => Lost(p)'
  BY <1>7, MetGrows DEF IInv, Start
<1>9. \A m \in Launch : pc'[m] \in {"stage", "persist"} =>
        pc[m] = pc'[m] /\ Profile(m) \in PublicProviders
  BY <1>1, <1>2 DEF IInv, KnownInv, Active, Ended
<1>10. SavedInv'
  BY <1>8, <1>9 DEF IInv, SavedInv, Start, Profile, Args
<1> QED BY <1>3, <1>4, <1>5, <1>6, <1>10 DEF IInv

(* A step that only moves its own launch on, to a place for which the      *)
(* launch has done what it takes.                                          *)
LEMMA MoveStep ==
  ASSUME IInv, NEW l \in Launch, NEW step \in Steps \ {"start"}, Active(l),
         pc' = [pc EXCEPT ![l] = step],
         UNCHANGED <<command, found, settings, catalog, copy, met, saved>>,
         step \in {"stage", "persist"} => pc[l] = "stage",
         step \in {"read", "spawn"} => ~IsSession(l),
         step = "muse" => pc[l] \in {"spawn", "muse"},
         step = "check" => ~IsSession(l),
         step = "catalog" => IsSession(l),
         step \in {"read", "stage", "persist"} /\ ~IsSession(l) => found.settings = None
  PROVE  IInv'
<1>1. /\ pc' \in [Launch -> Steps] /\ pc'[l] = step
      /\ \A m \in Launch \ {l} : pc'[m] = pc[m]
  BY DEF IInv, TypeInv
<1>2. TypeInv'
  BY <1>1 DEF IInv, TypeInv
<1>3. \A m \in Launch : Active(m)' => Active(m)
  BY <1>1 DEF Active
<1>4. \A m : Profile(m)' = Profile(m) /\ Kind(m)' = Kind(m)
  BY DEF Profile, Kind, Args
<1>5. KnownInv' /\ MetInv'
  BY <1>1, <1>3, <1>4 DEF IInv, KnownInv, MetInv
<1>6. FileInv'
  BY <1>1, <1>4 DEF IInv, FileInv, IsSession
<1>7. \A p : Lost(p)' = Lost(p)
  BY <1>4 DEF Lost, Sharing
<1>8. SavedInv'
  BY <1>1, <1>4, <1>7 DEF IInv, SavedInv
<1> QED BY <1>2, <1>5, <1>6, <1>8 DEF IInv

(* A catalog replaced by another launch is still the catalog of a session. *)
LEMMA CatalogStep ==
  ASSUME IInv, NEW l \in Launch, SeedStockModelCatalog(l)
  PROVE  IInv'
<1>1. /\ pc' \in [Launch -> Steps] /\ pc[l] = "catalog" /\ pc'[l] = "read"
      /\ \A m \in Launch \ {l} : pc'[m] = pc[m]
  BY DEF IInv, TypeInv, SeedStockModelCatalog, Steps
<1>2. \A m \in Launch : Active(m)' => Active(m)
  BY <1>1 DEF Active, Ended
<1>3. \A m : Profile(m)' = Profile(m) /\ Kind(m)' = Kind(m)
  BY DEF SeedStockModelCatalog, Profile, Kind, Args
<1>4. TypeInv'
  BY <1>1 DEF IInv, TypeInv, SeedStockModelCatalog
<1>5. KnownInv' /\ MetInv'
  BY <1>1, <1>2, <1>3 DEF IInv, KnownInv, MetInv, SeedStockModelCatalog
<1>6. Profile(l) \in PublicProviders
  BY <1>1 DEF IInv, KnownInv, Active, Ended
<1>7. /\ catalog'[Profile(l)] = l
      /\ \A p \in PublicProviders : catalog[p] \in Launch => catalog'[p] \in Launch
  BY <1>6 DEF IInv, TypeInv, SeedStockModelCatalog
<1>8. \A m \in Launch : Active(m) => Profile(m) \in PublicProviders
  BY DEF IInv, KnownInv
<1>9. FileInv'
  BY <1>1, <1>2, <1>3, <1>7, <1>8 DEF IInv, FileInv, IsSession, SeedStockModelCatalog, Active, Ended
<1>10. \A p : Lost(p)' = Lost(p)
  BY <1>3 DEF Lost, Sharing, SeedStockModelCatalog
<1>11. SavedInv'
  BY <1>1, <1>3, <1>10 DEF IInv, SavedInv, SeedStockModelCatalog
<1> QED BY <1>4, <1>5, <1>9, <1>11 DEF IInv

(* The copy is as good as the file it was read from.                       *)
LEMMA ReadStep ==
  ASSUME IInv, NEW l \in Launch, ReadSettings(l)
  PROVE  IInv'
<1>1. /\ pc' \in [Launch -> Steps] /\ pc[l] = "read" /\ pc'[l] \in {"failed", "stage"}
      /\ \A m \in Launch \ {l} : pc'[m] = pc[m]
      /\ pc'[l] = "stage" => settings[Profile(l)] # Broken
  BY DEF IInv, TypeInv, ReadSettings, Steps, Ended
<1>2. Profile(l) \in PublicProviders
  BY <1>1 DEF IInv, KnownInv, Active, Ended
<1>3. /\ copy' \in [Launch -> Settings \cup {None, Broken}]
      /\ copy'[l] = settings[Profile(l)]
      /\ \A m \in Launch \ {l} : copy'[m] = copy[m]
  BY <1>2 DEF IInv, TypeInv, ReadSettings
<1>4. \A m \in Launch : Active(m)' => Active(m)
  BY <1>1 DEF Active, Ended
<1>5. \A m : Profile(m)' = Profile(m) /\ Kind(m)' = Kind(m)
  BY DEF ReadSettings, Profile, Kind, Args
<1>6. TypeInv'
  BY <1>1, <1>3 DEF IInv, TypeInv, ReadSettings
<1>7. KnownInv' /\ MetInv'
  BY <1>1, <1>4, <1>5 DEF IInv, KnownInv, MetInv, ReadSettings
<1>8. FileInv'
  BY <1>1, <1>3, <1>5 DEF IInv, FileInv, IsSession, ReadSettings
<1>9. \A p : Lost(p)' = Lost(p)
  BY <1>5 DEF Lost, Sharing, ReadSettings
<1>10. SavedInv'
  BY <1>1, <1>2, <1>3, <1>5, <1>9 DEF IInv, SavedInv, ReadSettings
<1> QED BY <1>6, <1>7, <1>8, <1>10 DEF IInv

(* The file is replaced by the copy with the pins: a preference saved      *)
(* since the copy was read was saved by a launch that has met this one.    *)
LEMMA PersistStep ==
  ASSUME IInv, NEW l \in Launch, PersistSettings(l)
  PROVE  IInv'
<1>1. /\ pc' \in [Launch -> Steps] /\ pc[l] = "persist" /\ pc'[l] = "spawn"
      /\ \A m \in Launch \ {l} : pc'[m] = pc[m]
  BY DEF IInv, TypeInv, PersistSettings, Steps
<1>2. Profile(l) \in PublicProviders
  BY <1>1 DEF IInv, KnownInv, Active, Ended
<1>3. copy[l] \in Settings \cup {None}
  BY <1>1 DEF IInv, TypeInv, FileInv
<1>4. PICK file : file = SeedStockSettings(copy[l], Address(l))
  OBVIOUS
<1>5. /\ file \in Settings /\ Pinned(file)
      /\ copy[l] # None => file.preference = copy[l].preference
  BY <1>3, <1>4, SeedPins DEF Address
<1>6. /\ settings'[Profile(l)] = file
      /\ \A p \in PublicProviders \ {Profile(l)} : settings'[p] = settings[p]
      /\ settings' \in [PublicProviders -> Settings \cup {None, Broken}]
  BY <1>2, <1>4, <1>5 DEF IInv, TypeInv, PersistSettings
<1>7. /\ copy' \in [Launch -> Settings \cup {None, Broken}]
      /\ \A m \in Launch \ {l} : copy'[m] = copy[m]
  BY DEF IInv, TypeInv, PersistSettings
<1>8. \A m \in Launch : Active(m)' => Active(m)
  BY <1>1 DEF Active, Ended
<1>9. \A m : Profile(m)' = Profile(m) /\ Kind(m)' = Kind(m)
  BY DEF PersistSettings, Profile, Kind, Args
<1>10. \A m \in Launch : Active(m) => Profile(m) \in PublicProviders
  BY DEF IInv, KnownInv
<1>11. TypeInv'
  BY <1>1, <1>6, <1>7 DEF IInv, TypeInv, PersistSettings
<1>12. KnownInv' /\ MetInv'
  BY <1>1, <1>8, <1>9 DEF IInv, KnownInv, MetInv, PersistSettings
<1>13. file # Broken /\ file # None /\ Whole(file)
  BY <1>5, LaunchesAssumption DEF Whole
<1>14. FileInv'
  BY <1>1, <1>5, <1>6, <1>7, <1>8, <1>9, <1>10, <1>13
  DEF IInv, FileInv, IsSession, PersistSettings, Active, Ended
<1>15. \A p : Lost(p)' = Lost(p)
  BY <1>9 DEF Lost, Sharing, PersistSettings
<1>16. saved[Profile(l)] # None => file.preference = saved[Profile(l)] \/ Lost(Profile(l))
  BY <1>1, <1>5 DEF IInv, SavedInv, Whole
<1>17. SavedInv'
  BY <1>1, <1>2, <1>6, <1>7, <1>9, <1>13, <1>15, <1>16 DEF IInv, SavedInv, PersistSettings
<1> QED BY <1>11, <1>12, <1>14, <1>17 DEF IInv

(* Whoever is between its read and its replacement when Muse saves is at   *)
(* work at the same time, and so has met the launch that saves.            *)
LEMMA SaveStep ==
  ASSUME IInv, NEW l \in Launch, MuseSaves(l)
  PROVE  IInv'
<1>1. pc[l] = "muse" /\ pc' = pc /\ Active(l)
  BY DEF MuseSaves, Active, Ended
<1>2. Profile(l) \in PublicProviders
  BY <1>1 DEF IInv, KnownInv
<1>3. PICK old \in Settings : old = settings[Profile(l)]
  BY <1>2 DEF IInv, TypeInv, MuseSaves, Whole
<1>4. PICK file : file = [old EXCEPT !.preference = l]
  OBVIOUS
<1>5. file = [endpoint |-> old.endpoint, retries |-> old.retries, telemetry |-> old.telemetry,
              preference |-> l]
  BY <1>4 DEF Settings
<1>6. /\ file \in Settings /\ file.preference = l
      /\ Pinned(old) => Pinned(file)
  BY <1>5, LaunchesAssumption DEF Settings, Pinned, Whole
<1>7. /\ settings'[Profile(l)] = file /\ saved'[Profile(l)] = l
      /\ \A p \in PublicProviders \ {Profile(l)} : settings'[p] = settings[p] /\ saved'[p] = saved[p]
      /\ settings' \in [PublicProviders -> Settings \cup {None, Broken}]
      /\ saved' \in [PublicProviders -> Launch \cup {None}]
  BY <1>2, <1>3, <1>4, <1>6 DEF IInv, TypeInv, MuseSaves
<1>8. \A m : Profile(m)' = Profile(m) /\ Kind(m)' = Kind(m)
  BY DEF MuseSaves, Profile, Kind, Args
<1>9. TypeInv'
  BY <1>1, <1>7 DEF IInv, TypeInv, MuseSaves
<1>10. KnownInv' /\ MetInv'
  BY <1>1, <1>8 DEF IInv, KnownInv, MetInv, MuseSaves, Active
<1>11. \A m \in Launch : Active(m) => Profile(m) \in PublicProviders
  BY DEF IInv, KnownInv
<1>12. file # Broken /\ file # None /\ Whole(file)
  BY <1>6, LaunchesAssumption DEF Whole
<1>13. FileInv'
  BY <1>1, <1>3, <1>6, <1>7, <1>8, <1>11, <1>12
  DEF IInv, FileInv, IsSession, MuseSaves, Active, Ended
<1>14. \A p \in PublicProviders \ {Profile(l)} : Lost(p)' = Lost(p)
  BY <1>7, <1>8 DEF Lost, Sharing, MuseSaves
<1>15. \A m \in Launch : pc[m] \in {"stage", "persist"} /\ Profile(m) = Profile(l) =>
         Lost(Profile(l))'
  BY <1>1, <1>7, <1>8 DEF IInv, MetInv, Active, Ended, Lost, Sharing, MuseSaves
<1>16. SavedInv'
  BY <1>1, <1>6, <1>7, <1>8, <1>11, <1>12, <1>14, <1>15
  DEF IInv, SavedInv, MuseSaves, Active, Ended
<1> QED BY <1>9, <1>10, <1>13, <1>16 DEF IInv

(* Every step of a launch or of its Muse keeps the invariant.              *)
LEMMA StepInv ==
  ASSUME IInv, NEW l \in DOMAIN command,
         \/ Start(l) \/ StartGateway(l) \/ CreatePrivate(l) \/ SeedStockModelCatalog(l)
         \/ CheckSettings(l) \/ ReadSettings(l) \/ StageSettings(l) \/ PersistSettings(l)
         \/ SpawnMuse(l) \/ MuseReads(l) \/ MuseSaves(l) \/ MuseEnds(l) \/ Killed(l)
  PROVE  IInv'
<1>1. l \in Launch
  BY DEF IInv, TypeInv
<1>2. CASE Start(l)
  BY <1>2, StartStep
<1>3. CASE StartGateway(l)
  <2>1. PICK step \in {"directories", "failed"} : pc' = [pc EXCEPT ![l] = step]
    BY <1>3 DEF StartGateway
  <2> QED BY <1>1, <1>3, <2>1, MoveStep DEF StartGateway, Steps, Active, Ended
<1>4. CASE CreatePrivate(l)
  <2>1. PICK step \in {"failed", "catalog", "check"} :
          /\ pc' = [pc EXCEPT ![l] = step]
          /\ (step = "check" => ~IsSession(l)) /\ (step = "catalog" => IsSession(l))
    BY <1>4 DEF CreatePrivate, IsSession
  <2> QED BY <1>1, <1>4, <2>1, MoveStep DEF CreatePrivate, Steps, Active, Ended
<1>5. CASE SeedStockModelCatalog(l)
  BY <1>1, <1>5, CatalogStep
<1>6. CASE CheckSettings(l)
  <2>1. Active(l) /\ ~IsSession(l) /\ Profile(l) \in PublicProviders
    BY <1>1, <1>6 DEF CheckSettings, IInv, FileInv, KnownInv, Active, Ended
  <2>2. PICK step \in {"read", "spawn"} :
          pc' = [pc EXCEPT ![l] = step] /\ (step = "read" => found.settings = None)
    BY <1>6, <2>1 DEF CheckSettings, IInv, FileInv
  <2> QED BY <1>1, <1>6, <2>1, <2>2, MoveStep DEF CheckSettings, Steps, Ended
<1>7. CASE ReadSettings(l)
  BY <1>1, <1>7, ReadStep
<1>8. CASE StageSettings(l)
  <2>1. ~IsSession(l) => found.settings = None
    BY <1>1, <1>8 DEF StageSettings, IInv, FileInv
  <2> QED BY <1>1, <1>8, <2>1, MoveStep DEF StageSettings, Steps, Active, Ended
<1>9. CASE PersistSettings(l)
  BY <1>1, <1>9, PersistStep
<1>10. CASE SpawnMuse(l)
  BY <1>1, <1>10, MoveStep DEF SpawnMuse, Steps, Active, Ended
<1>11. CASE MuseReads(l)
  <2>1. pc' = [pc EXCEPT ![l] = "muse"]
    BY <1>1, <1>11 DEF MuseReads, IInv, TypeInv
  <2> QED BY <1>1, <1>11, <2>1, MoveStep DEF MuseReads, Steps, Active, Ended
<1>12. CASE MuseSaves(l)
  BY <1>1, <1>12, SaveStep
<1>13. CASE MuseEnds(l)
  BY <1>1, <1>13, MoveStep DEF MuseEnds, Steps, Active, Ended
<1>14. CASE Killed(l)
  BY <1>1, <1>14, MoveStep DEF Killed, Steps, Active, Ended
<1> QED BY <1>2, <1>3, <1>4, <1>5, <1>6, <1>7, <1>8, <1>9, <1>10, <1>11, <1>12, <1>13, <1>14

(* The inductive invariant holds of every behaviour.                       *)
THEOREM Invariance == Spec => []IInv
<1>1. ASSUME IInv, [Next]_vars PROVE IInv'
  <2>1. CASE Next
    BY <1>1, <2>1, StepInv DEF Next
  <2>2. CASE UNCHANGED vars
    <3>1. \A m : Profile(m)' = Profile(m) /\ Kind(m)' = Kind(m)
      BY <2>2 DEF vars, Profile, Kind, Args
    <3>2. \A m : Active(m)' = Active(m) /\ Lost(m)' = Lost(m)
      BY <2>2, <3>1 DEF vars, Active, Lost, Sharing
    <3> QED BY <1>1, <2>2, <3>1, <3>2
            DEF vars, IInv, TypeInv, KnownInv, MetInv, FileInv, SavedInv, IsSession
  <2> QED BY <1>1, <2>1, <2>2
<1> QED BY <1>1, InitInv, PTL DEF Spec

(* Whenever Muse runs a session its profile is whole, pinned and has a     *)
(* catalog, and a launch killed at any step spoils nothing for the next    *)
(* ones (seed_stock_settings, seed_stock_model_catalog): for any number of *)
(* launches, whatever their command lines.                                 *)
THEOREM AlwaysUsable == Spec => []ProfileUsable
<1>1. IInv => ProfileUsable
  BY DEF IInv, TypeInv, FileInv, ProfileUsable, Session, IsSession
<1> QED BY <1>1, Invariance, PTL

(* A preference Muse has saved survives every launch that does not overlap *)
(* with the one that saved it, for any number of launches: what            *)
(* seed_stock_settings replaces the file by holds the last preference      *)
(* saved, or was read while the launch that saved it was at work.          *)
THEOREM PreferenceSurvives == Spec => []PreferencesKept
<1>1. IInv => PreferencesKept
  BY DEF IInv, SavedInv, PreferencesKept, Lost
<1> QED BY <1>1, Invariance, PTL

-----------------------------------------------------------------------------
(* Induction over the natural numbers, for a set.                          *)
LEMMA SetInduction ==
  ASSUME NEW S, 0 \in S, \A n \in Nat : n \in S => n + 1 \in S
  PROVE  Nat \subseteq S
<1> SUFFICES ASSUME NEW z \in Nat, z \notin S PROVE FALSE
  OBVIOUS
<1> DEFINE T == {n \in Nat : n \notin S}
           R == {ss \in Nat \X Nat : ss[1] < ss[2]}
<1>1. PICK x \in T : \A y \in T : ~(<<y, x>> \in R)
  <2>1. IsWellFoundedOn(R, Nat)
    BY NatLessThanWellFounded DEF OpToRel
  <2>2. T \in SUBSET Nat /\ T # {}
    OBVIOUS
  <2> HIDE DEF R, T
  <2> QED BY <2>1, <2>2, WFMin
<1>2. x \in Nat /\ x # 0 /\ x \notin S
  OBVIOUS
<1>3. x - 1 \in Nat /\ (x - 1) + 1 = x
  BY <1>2
<1>4. x - 1 \in T
  BY <1>2, <1>3
<1>5. <<x - 1, x>> \in Nat \X Nat /\ <<x - 1, x>>[1] = x - 1 /\ <<x - 1, x>>[2] = x
  BY <1>2, <1>3
<1>6. <<x - 1, x>> \in R
  BY <1>2, <1>5
<1> QED BY <1>1, <1>4, <1>6

(* Induction over sequences, for a set.                                    *)
LEMMA SeqInduction ==
  ASSUME NEW T, NEW X, <<>> \in X, \A q \in Seq(T), t \in T : q \in X => Append(q, t) \in X
  PROVE  Seq(T) \subseteq X
<1> DEFINE S == {n \in Nat : \A q \in Seq(T) : Len(q) = n => q \in X}
<1>1. 0 \in S
  OBVIOUS
<1>2. ASSUME NEW n \in Nat, n \in S PROVE n + 1 \in S
  <2> SUFFICES ASSUME NEW q \in Seq(T), Len(q) = n + 1 PROVE q \in X
    OBVIOUS
  <2> DEFINE r == SubSeq(q, 1, n)
  <2>1. r \in Seq(T) /\ Len(r) = n /\ q[n + 1] \in T /\ q = Append(r, q[n + 1])
    OBVIOUS
  <2>2. r \in X
    BY <1>2, <2>1
  <2> HIDE DEF r, S
  <2> QED BY <2>1, <2>2
<1>3. Nat \subseteq S
  <2> HIDE DEF S
  <2> QED BY <1>1, <1>2, SetInduction
<1> QED BY <1>3
-----------------------------------------------------------------------------
(* The loop of Units: g holds the units read of the first tokens of a.     *)
TokenRead(a, g, n) == IF n = 0 THEN <<>> ELSE AddToken(g[n - 1], a[n])
IsRead(a, g, m) == g = [n \in 0..m |-> TokenRead(a, g, n)]

(* It can be run to any length.                                            *)
LEMMA ReadExists ==
  ASSUME NEW a, NEW m \in Nat
  PROVE  \E g : IsRead(a, g, m)
<1> DEFINE E == {k \in Nat : \E g : IsRead(a, g, k)}
<1>1. 0 \in E
  <2> DEFINE g == [n \in 0..0 |-> <<>>]
  <2>1. \A n \in 0..0 : TokenRead(a, g, n) = <<>>
    BY DEF TokenRead
  <2>2. IsRead(a, g, 0)
    BY <2>1 DEF IsRead
  <2> QED BY <2>2
<1>2. ASSUME NEW k \in Nat, k \in E PROVE k + 1 \in E
  <2>1. PICK g : IsRead(a, g, k)
    BY <1>2
  <2> DEFINE h == [n \in 0..(k + 1) |-> IF n <= k THEN g[n] ELSE TokenRead(a, g, k + 1)]
  <2>2. ASSUME NEW n \in 0..(k + 1) PROVE h[n] = TokenRead(a, h, n)
    <3>1. n # 0 => h[n - 1] = g[n - 1]
      OBVIOUS
    <3>2. TokenRead(a, h, n) = TokenRead(a, g, n)
      BY <3>1 DEF TokenRead
    <3>3. n <= k => g[n] = TokenRead(a, g, n)
      BY <2>1 DEF IsRead
    <3>4. n > k => n = k + 1
      OBVIOUS
    <3> QED BY <3>2, <3>3, <3>4
  <2>3. h = [n \in 0..(k + 1) |-> TokenRead(a, h, n)]
    BY <2>2
  <2> HIDE DEF h
  <2>4. IsRead(a, h, k + 1) /\ k + 1 \in Nat
    BY <2>3 DEF IsRead
  <2> QED BY <2>4
<1>3. Nat \subseteq E
  <2> HIDE DEF E
  <2> QED BY <1>1, <1>2, SetInduction
<1> QED BY <1>3

(* Two command lines with their first m tokens in common.                  *)
SameTokens(a, b, m) == \A p \in 1..m : a[p] = b[p]

(* Two runs agree on the tokens they have in common.                       *)
LEMMA ReadsAgree ==
  ASSUME NEW a, NEW b, NEW g, NEW h, NEW m \in Nat, NEW k \in Nat, m <= k,
         IsRead(a, g, m), IsRead(b, h, k), SameTokens(a, b, m)
  PROVE  g[m] = h[m]
<1> DEFINE S == {n \in Nat : n <= m => g[n] = h[n]}
<1>1. 0 \in S
  BY DEF IsRead, TokenRead
<1>2. ASSUME NEW n \in Nat, n \in S PROVE n + 1 \in S
  <2> SUFFICES ASSUME n + 1 <= m PROVE g[n + 1] = h[n + 1]
    OBVIOUS
  <2>1. g[n + 1] = TokenRead(a, g, n + 1) /\ h[n + 1] = TokenRead(b, h, n + 1)
    <3>1. n + 1 \in 0..m /\ n + 1 \in 0..k
      OBVIOUS
    <3>2. g = [i \in 0..m |-> TokenRead(a, g, i)] /\ h = [i \in 0..k |-> TokenRead(b, h, i)]
      BY DEF IsRead
    <3> QED BY <3>1, <3>2
  <2>2. TokenRead(a, g, n + 1) = AddToken(g[n], a[n + 1])
    BY DEF TokenRead
  <2>3. TokenRead(b, h, n + 1) = AddToken(h[n], b[n + 1])
    BY DEF TokenRead
  <2>4. g[n] = h[n] /\ a[n + 1] = b[n + 1]
    BY <1>2 DEF SameTokens
  <2> QED BY <2>1, <2>2, <2>3, <2>4
<1>3. Nat \subseteq S
  <2> HIDE DEF S
  <2> QED BY <1>1, <1>2, SetInduction
<1> QED BY <1>3

(* The units of an empty command line, and of one token more.              *)
LEMMA UnitsAppend ==
  ASSUME NEW T
  PROVE  /\ Units(<<>>) = <<>>
         /\ \A a \in Seq(T), t \in T : Units(Append(a, t)) = AddToken(Units(a), t)
<1> DEFINE run(a) == CHOOSE g : IsRead(a, g, Len(a))
<1>1. \A a : Units(a) = run(a)[Len(a)]
  BY DEF Units, IsRead, TokenRead
<1>2. ASSUME NEW a \in Seq(T) PROVE IsRead(a, run(a), Len(a)) /\ Len(a) \in Nat
  <2>1. Len(a) \in Nat
    OBVIOUS
  <2>2. \E g : IsRead(a, g, Len(a))
    BY <2>1, ReadExists
  <2> QED BY <2>1, <2>2
<1> HIDE DEF run
<1>3. Units(<<>>) = <<>>
  <2>1. <<>> \in Seq(T) /\ Len(<<>>) = 0
    OBVIOUS
  <2>2. IsRead(<<>>, run(<<>>), 0)
    BY <1>2, <2>1
  <2>3. run(<<>>)[0] = <<>>
    BY <2>2 DEF IsRead, TokenRead
  <2> QED BY <1>1, <2>1, <2>3
<1>4. ASSUME NEW a \in Seq(T), NEW t \in T PROVE Units(Append(a, t)) = AddToken(Units(a), t)
  <2>1. PICK b : b = Append(a, t)
    OBVIOUS
  <2>2. /\ b \in Seq(T) /\ Len(a) \in Nat /\ Len(b) = Len(a) + 1
        /\ b[Len(a) + 1] = t /\ \A p \in 1..Len(a) : a[p] = b[p]
    BY <2>1
  <2>3. IsRead(a, run(a), Len(a)) /\ IsRead(b, run(b), Len(a) + 1)
    BY <1>2, <2>2
  <2>4. run(a)[Len(a)] = run(b)[Len(a)]
    <3>1. PICK g, h : g = run(a) /\ h = run(b)
      OBVIOUS
    <3>2. PICK m \in Nat, k \in Nat : m = Len(a) /\ k = Len(a) + 1 /\ m <= k
      BY <2>2
    <3>3. IsRead(a, g, m) /\ IsRead(b, h, k)
      BY <2>3, <3>1, <3>2
    <3>4. SameTokens(a, b, m)
      BY <2>2, <3>2 DEF SameTokens
    <3>5. g[m] = h[m]
      <4>1. m <= k
        BY <3>2
      <4>2. IsRead(a, g, m)
        BY <3>3
      <4>3. IsRead(b, h, k)
        BY <3>3
      <4> QED BY <4>1, <4>2, <4>3, <3>4, ReadsAgree
    <3> QED BY <3>1, <3>2, <3>5
  <2>5. run(b)[Len(a) + 1] = TokenRead(b, run(b), Len(a) + 1)
    <3>1. PICK g, n : g = run(b) /\ n = Len(a) + 1
      OBVIOUS
    <3>2. n \in 0..n /\ IsRead(b, g, n)
      BY <2>2, <2>3, <3>1
    <3>3. g[n] = TokenRead(b, g, n)
      BY <3>2 DEF IsRead
    <3> QED BY <3>1, <3>3
  <2>6. TokenRead(b, run(b), Len(a) + 1) = AddToken(run(b)[Len(a)], t)
    BY <2>2 DEF TokenRead
  <2> QED BY <1>1, <2>1, <2>2, <2>4, <2>5, <2>6
<1> QED BY <1>3, <1>4
-----------------------------------------------------------------------------
(* The loop of FlattenSeq: g holds the first sequences of c, joined.       *)
PieceJoined(c, g, i) == IF i = 1 THEN c[i] ELSE g[i - 1] \o c[i]
IsJoined(c, g, m) == g = [i \in 1..m |-> PieceJoined(c, g, i)]

(* It can be run to any length.                                            *)
LEMMA JoinExists ==
  ASSUME NEW c, NEW m \in Nat
  PROVE  \E g : IsJoined(c, g, m)
<1> DEFINE E == {k \in Nat : \E g : IsJoined(c, g, k)}
<1>1. 0 \in E
  <2>1. IsJoined(c, <<>>, 0)
    BY DEF IsJoined
  <2> QED BY <2>1
<1>2. ASSUME NEW k \in Nat, k \in E PROVE k + 1 \in E
  <2>1. PICK g : IsJoined(c, g, k)
    BY <1>2
  <2> DEFINE h == [i \in 1..(k + 1) |-> IF i <= k THEN g[i] ELSE PieceJoined(c, g, k + 1)]
  <2>2. ASSUME NEW i \in 1..(k + 1) PROVE h[i] = PieceJoined(c, h, i)
    <3>1. i # 1 => h[i - 1] = g[i - 1]
      OBVIOUS
    <3>2. PieceJoined(c, h, i) = PieceJoined(c, g, i)
      BY <3>1 DEF PieceJoined
    <3>3. i <= k => g[i] = PieceJoined(c, g, i)
      BY <2>1 DEF IsJoined
    <3>4. i > k => i = k + 1
      OBVIOUS
    <3> QED BY <3>2, <3>3, <3>4
  <2>3. h = [i \in 1..(k + 1) |-> PieceJoined(c, h, i)]
    BY <2>2
  <2> HIDE DEF h
  <2>4. IsJoined(c, h, k + 1) /\ k + 1 \in Nat
    BY <2>3 DEF IsJoined
  <2> QED BY <2>4
<1>3. Nat \subseteq E
  <2> HIDE DEF E
  <2> QED BY <1>1, <1>2, SetInduction
<1> QED BY <1>3

(* Two runs agree on the pieces they have in common.                       *)
LEMMA JoinsAgree ==
  ASSUME NEW c, NEW d, NEW g, NEW h, NEW m \in Nat, NEW k \in Nat, m <= k, m # 0,
         IsJoined(c, g, m), IsJoined(d, h, k), SameTokens(c, d, m)
  PROVE  g[m] = h[m]
<1> DEFINE S == {n \in Nat : n \in 1..m => g[n] = h[n]}
<1>1. 0 \in S
  OBVIOUS
<1>2. ASSUME NEW n \in Nat, n \in S PROVE n + 1 \in S
  <2> SUFFICES ASSUME n + 1 <= m PROVE g[n + 1] = h[n + 1]
    OBVIOUS
  <2>1. g[n + 1] = PieceJoined(c, g, n + 1) /\ h[n + 1] = PieceJoined(d, h, n + 1)
    <3>1. n + 1 \in 1..m /\ n + 1 \in 1..k
      OBVIOUS
    <3>2. g = [i \in 1..m |-> PieceJoined(c, g, i)] /\ h = [i \in 1..k |-> PieceJoined(d, h, i)]
      BY DEF IsJoined
    <3> QED BY <3>1, <3>2
  <2>2. c[n + 1] = d[n + 1]
    BY DEF SameTokens
  <2>3. n + 1 # 1 => g[(n + 1) - 1] = h[(n + 1) - 1]
    BY <1>2
  <2>4. PieceJoined(c, g, n + 1) = PieceJoined(d, h, n + 1)
    BY <2>2, <2>3 DEF PieceJoined
  <2> QED BY <2>1, <2>4
<1>3. Nat \subseteq S
  <2> HIDE DEF S
  <2> QED BY <1>1, <1>2, SetInduction
<1> QED BY <1>3

(* One sequence more is joined at the end.                                 *)
LEMMA FlattenAppend ==
  ASSUME NEW T
  PROVE  /\ FlattenSeq(<<>>) = <<>>
         /\ \A b \in Seq(Seq(T)), x \in Seq(T) : FlattenSeq(Append(b, x)) = FlattenSeq(b) \o x
<1> DEFINE run(a) == CHOOSE g : IsJoined(a, g, Len(a))
<1>1. \A a : Len(a) # 0 => FlattenSeq(a) = run(a)[Len(a)]
  BY DEF FlattenSeq, IsJoined, PieceJoined
<1>2. ASSUME NEW a \in Seq(Seq(T)) PROVE IsJoined(a, run(a), Len(a)) /\ Len(a) \in Nat
  <2>1. Len(a) \in Nat
    OBVIOUS
  <2>2. \E g : IsJoined(a, g, Len(a))
    BY <2>1, JoinExists
  <2> QED BY <2>1, <2>2
<1> HIDE DEF run
<1>3. FlattenSeq(<<>>) = <<>>
  BY DEF FlattenSeq
<1>4. ASSUME NEW b \in Seq(Seq(T)), NEW x \in Seq(T)
      PROVE  FlattenSeq(Append(b, x)) = FlattenSeq(b) \o x
  <2>1. PICK d : d = Append(b, x)
    OBVIOUS
  <2>2. PICK m \in Nat, k \in Nat : m = Len(b) /\ k = m + 1
    OBVIOUS
  <2>3. /\ d \in Seq(Seq(T)) /\ Len(d) = k /\ d[k] = x
        /\ \A p \in 1..m : b[p] = d[p]
    BY <2>1, <2>2
  <2>4. PICK g, h : g = run(b) /\ h = run(d)
    OBVIOUS
  <2>5. IsJoined(b, g, m)
    BY <1>2, <2>2, <2>4
  <2>6. IsJoined(d, h, k)
    BY <1>2, <2>3, <2>4
  <2>7. FlattenSeq(d) = h[k]
    BY <1>1, <2>2, <2>3, <2>4
  <2>8. h[k] = PieceJoined(d, h, k)
    <3>1. k \in 1..k
      BY <2>2
    <3>2. h = [i \in 1..k |-> PieceJoined(d, h, i)]
      BY <2>6 DEF IsJoined
    <3> QED BY <3>1, <3>2
  <2>9. CASE m = 0
    <3>1. b = <<>> /\ k = 1 /\ <<>> \o x = x
      <4>1. Len(b) = 0 /\ k = 1
        BY <2>2, <2>9
      <4> QED BY <4>1
    <3> QED BY <1>3, <2>1, <2>3, <2>7, <2>8, <3>1 DEF PieceJoined
  <2>10. CASE m # 0
    <3>1. m <= k
      BY <2>2
    <3>2. SameTokens(b, d, m)
      BY <2>3 DEF SameTokens
    <3>3. g[m] = h[m]
      BY <2>5, <2>6, <2>10, <3>1, <3>2, JoinsAgree
    <3>4. PieceJoined(d, h, k) = h[m] \o x
      BY <2>2, <2>3, <2>10 DEF PieceJoined
    <3>5. FlattenSeq(b) = g[m]
      BY <1>1, <2>2, <2>4, <2>10
    <3> QED BY <2>1, <2>7, <2>8, <3>3, <3>4, <3>5
  <2> QED BY <2>9, <2>10
<1> QED BY <1>3, <1>4

(* Joining is associative, and the elements of one sequence more.          *)
LEMMA ConcatFacts ==
  ASSUME NEW T, NEW a \in Seq(T), NEW b \in Seq(T)
  PROVE  /\ \A c \in Seq(T) : (a \o b) \o c = a \o (b \o c)
         /\ \A t \in T : a \o Append(b, t) = Append(a \o b, t)
         /\ a \o <<>> = a /\ <<>> \o a = a
OBVIOUS

(* One element more at the end of two sequences joined.                    *)
LEMMA ConcatAppend ==
  ASSUME NEW T, NEW a \in Seq(T), NEW b \in Seq(T), NEW t \in T
  PROVE  a \o Append(b, t) = Append(a \o b, t)
OBVIOUS

(* Sequences with the same elements in the same places are equal.          *)
LEMMA SameSequence ==
  ASSUME NEW T, NEW a \in Seq(T), NEW b \in Seq(T), Len(a) = Len(b),
         \A i \in 1..Len(b) : a[i] = b[i]
  PROVE  a = b
OBVIOUS

(* A sequence of one.                                                      *)
LEMMA OneElement ==
  ASSUME NEW T, NEW a \in Seq(T), Len(a) = 1
  PROVE  a = <<a[1]>> /\ a[1] \in T
<1>1. PICK b : b = <<a[1]>>
  OBVIOUS
<1>2. a[1] \in T
  OBVIOUS
<1>3. b \in Seq(T) /\ Len(b) = 1 /\ b[1] = a[1]
  BY <1>1, <1>2
<1>4. \A i \in 1..Len(b) : a[i] = b[i]
  BY <1>3
<1>5. a = b
  BY <1>3, <1>4, SameSequence
<1> QED BY <1>1, <1>2, <1>5

(* What stands where in two sequences joined.                              *)
LEMMA ConcatPlaces ==
  ASSUME NEW T, NEW a \in Seq(T), NEW b \in Seq(T), NEW c, c = a \o b
  PROVE  /\ c \in Seq(T) /\ Len(a) \in Nat /\ Len(b) \in Nat /\ Len(c) = Len(a) + Len(b)
         /\ \A i \in 1..Len(a) : c[i] = a[i]
         /\ \A i \in 1..Len(b) : c[Len(a) + i] = b[i]
OBVIOUS

(* Concatenation is associative.                                           *)
LEMMA ConcatAssociates ==
  ASSUME NEW T, NEW a \in Seq(T), NEW b \in Seq(T), NEW c \in Seq(T)
  PROVE  (a \o b) \o c = a \o (b \o c)
OBVIOUS

(* What a sequence holds.                                                  *)
LEMMA ToSetFacts ==
  ASSUME NEW T
  PROVE  /\ ToSet(<<>>) = {}
         /\ \A q \in Seq(T) : \A t \in T : ToSet(Append(q, t)) = ToSet(q) \cup {t}
         /\ \A q \in Seq(T) : ToSet(q) \subseteq T
         /\ \A a, b \in Seq(T) : ToSet(a \o b) = ToSet(a) \cup ToSet(b)
<1>1. ToSet(<<>>) = {}
  BY DEF ToSet
<1>2. ASSUME NEW q \in Seq(T), NEW t \in T PROVE ToSet(Append(q, t)) = ToSet(q) \cup {t}
  <2>1. /\ Len(q) \in Nat /\ DOMAIN q = 1..Len(q) /\ DOMAIN Append(q, t) = 1..(Len(q) + 1)
        /\ Append(q, t)[Len(q) + 1] = t /\ \A i \in 1..Len(q) : Append(q, t)[i] = q[i]
    OBVIOUS
  <2> QED BY <2>1 DEF ToSet
<1>3. \A q \in Seq(T) : ToSet(q) \subseteq T
  BY DEF ToSet
<1>4. ASSUME NEW a \in Seq(T), NEW b \in Seq(T) PROVE ToSet(a \o b) = ToSet(a) \cup ToSet(b)
  <2>1. /\ Len(a) \in Nat /\ Len(b) \in Nat /\ DOMAIN a = 1..Len(a) /\ DOMAIN b = 1..Len(b)
        /\ DOMAIN (a \o b) = 1..(Len(a) + Len(b))
        /\ \A i \in 1..Len(a) : (a \o b)[i] = a[i]
        /\ \A i \in 1..Len(b) : (a \o b)[Len(a) + i] = b[i]
    OBVIOUS
  <2>2. \A i \in 1..(Len(a) + Len(b)) :
          i \in 1..Len(a) \/ (i - Len(a) \in 1..Len(b) /\ i = Len(a) + (i - Len(a)))
    BY <2>1
  <2>3. ToSet(a \o b) \subseteq ToSet(a) \cup ToSet(b)
    BY <2>1, <2>2 DEF ToSet
  <2>4. ToSet(a) \cup ToSet(b) \subseteq ToSet(a \o b)
    <3>1. \A i \in 1..Len(a) : i \in 1..(Len(a) + Len(b))
      BY <2>1
    <3>2. \A i \in 1..Len(b) : Len(a) + i \in 1..(Len(a) + Len(b))
      BY <2>1
    <3> QED BY <2>1, <3>1, <3>2 DEF ToSet
  <2> QED BY <2>3, <2>4
<1> QED BY <1>1, <1>2, <1>3, <1>4

(* Joined sequences are a sequence of the same elements.                   *)
LEMMA FlattenType ==
  ASSUME NEW T, NEW b \in Seq(Seq(T))
  PROVE  FlattenSeq(b) \in Seq(T)
<1> DEFINE X == {q \in Seq(Seq(T)) : FlattenSeq(q) \in Seq(T)}
<1>1. <<>> \in X
  <2>1. FlattenSeq(<<>>) = <<>> /\ <<>> \in Seq(T) /\ <<>> \in Seq(Seq(T))
    BY FlattenAppend
  <2> QED BY <2>1
<1>2. ASSUME NEW q \in Seq(Seq(T)), NEW x \in Seq(T), q \in X PROVE Append(q, x) \in X
  <2>1. FlattenSeq(Append(q, x)) = FlattenSeq(q) \o x
    BY FlattenAppend
  <2>2. Append(q, x) \in Seq(Seq(T))
    OBVIOUS
  <2>3. FlattenSeq(q) \o x \in Seq(T)
    BY <1>2
  <2> QED BY <2>1, <2>2, <2>3
<1>3. Seq(Seq(T)) \subseteq X
  <2> HIDE DEF X
  <2> QED BY <1>1, <1>2, SeqInduction
<1> QED BY <1>3

(* The joined pieces of two lists are joined.                              *)
LEMMA FlattenConcat ==
  ASSUME NEW T, NEW a \in Seq(Seq(T)), NEW b \in Seq(Seq(T))
  PROVE  FlattenSeq(a \o b) = FlattenSeq(a) \o FlattenSeq(b)
<1> DEFINE X == {q \in Seq(Seq(T)) : FlattenSeq(a \o q) = FlattenSeq(a) \o FlattenSeq(q)}
<1>1. <<>> \in X
  <2>1. FlattenSeq(a) \in Seq(T) /\ FlattenSeq(<<>>) = <<>> /\ a \o <<>> = a
    BY FlattenType, FlattenAppend
  <2>2. FlattenSeq(a) \o <<>> = FlattenSeq(a)
    BY <2>1, ConcatFacts
  <2> QED BY <2>1, <2>2
<1>2. ASSUME NEW q \in Seq(Seq(T)), NEW x \in Seq(T), q \in X PROVE Append(q, x) \in X
  <2>1. a \o Append(q, x) = Append(a \o q, x) /\ a \o q \in Seq(Seq(T))
    OBVIOUS
  <2>2. FlattenSeq(Append(a \o q, x)) = FlattenSeq(a \o q) \o x
    BY <2>1, FlattenAppend
  <2>3. FlattenSeq(Append(q, x)) = FlattenSeq(q) \o x
    BY FlattenAppend
  <2>4. FlattenSeq(a) \in Seq(T) /\ FlattenSeq(q) \in Seq(T)
    BY FlattenType
  <2>5. (FlattenSeq(a) \o FlattenSeq(q)) \o x = FlattenSeq(a) \o (FlattenSeq(q) \o x)
    <3>1. PICK f, g : f = FlattenSeq(a) /\ g = FlattenSeq(q)
      OBVIOUS
    <3>2. f \in Seq(T) /\ g \in Seq(T)
      BY <2>4, <3>1
    <3>3. (f \o g) \o x = f \o (g \o x)
      BY <3>2, ConcatAssociates
    <3> QED BY <3>1, <3>3
  <2>6. Append(q, x) \in Seq(Seq(T))
    OBVIOUS
  <2> QED BY <1>2, <2>1, <2>2, <2>3, <2>5, <2>6
<1>3. Seq(Seq(T)) \subseteq X
  <2> HIDE DEF X
  <2> QED BY <1>1, <1>2, SeqInduction
<1> QED BY <1>3
-----------------------------------------------------------------------------
(* What is kept is a list of units again.                                  *)
LEMMA KeptType ==
  ASSUME NEW U, NEW S, NEW q \in Seq(U)
  PROVE  Kept(q, S) \in Seq(U)
<1> DEFINE pieces == [i \in 1..Len(q) |-> IF q[i] \in S THEN <<q[i]>> ELSE <<>>]
<1>1. \A i \in 1..Len(q) : (IF q[i] \in S THEN <<q[i]>> ELSE <<>>) \in Seq(U)
  OBVIOUS
<1>2. pieces \in Seq(Seq(U))
  BY <1>1
<1>3. Kept(q, S) = FlattenSeq(pieces)
  BY DEF Kept
<1> HIDE DEF pieces
<1> QED BY <1>2, <1>3, FlattenType

(* Nothing is kept of nothing.                                             *)
LEMMA KeptEmpty ==
  ASSUME NEW S
  PROVE  Kept(<<>>, S) = <<>>
<1>1. [i \in 1..Len(<<>>) |-> IF <<>>[i] \in S THEN <<<<>>[i]>> ELSE <<>>] = <<>>
  OBVIOUS
<1> QED BY <1>1, FlattenAppend DEF Kept

(* What is kept of one unit more.                                          *)
LEMMA KeptAppend ==
  ASSUME NEW U, NEW S, NEW q \in Seq(U), NEW u \in U
  PROVE  /\ u \in S => Kept(Append(q, u), S) = Append(Kept(q, S), u)
         /\ u \notin S => Kept(Append(q, u), S) = Kept(q, S)
<1> DEFINE Piece(v) == IF v \in S THEN <<v>> ELSE <<>>
           Pieces(r) == [i \in 1..Len(r) |-> Piece(r[i])]
<1>1. \A r : Kept(r, S) = FlattenSeq(Pieces(r))
  BY DEF Kept
<1>2. \A v \in U : Piece(v) \in Seq(U)
  OBVIOUS
<1>3. \A r \in Seq(U) : Pieces(r) \in Seq(Seq(U))
  BY <1>2
<1> HIDE DEF Piece
<1>4. PICK r : r = Append(Pieces(q), Piece(u))
  OBVIOUS
<1>5. /\ Len(q) \in Nat /\ Len(Append(q, u)) = Len(q) + 1 /\ Append(q, u)[Len(q) + 1] = u
      /\ \A i \in 1..Len(q) : Append(q, u)[i] = q[i]
  OBVIOUS
<1>6. Pieces(q) \in Seq(Seq(U)) /\ Piece(u) \in Seq(U) /\ Len(Pieces(q)) = Len(q)
      /\ \A i \in 1..Len(q) : Pieces(q)[i] = Piece(q[i])
  BY <1>2, <1>3
<1>7. r = Pieces(Append(q, u))
  <2>1. /\ r \in Seq(Seq(U)) /\ Len(r) = Len(q) + 1 /\ r[Len(q) + 1] = Piece(u)
        /\ \A i \in 1..Len(q) : r[i] = Piece(q[i])
    <3> HIDE DEF Pieces
    <3> QED BY <1>4, <1>5, <1>6
  <2>2. r = [i \in 1..(Len(q) + 1) |-> r[i]]
    BY <2>1
  <2>3. \A i \in 1..(Len(q) + 1) : r[i] = Piece(Append(q, u)[i])
    BY <1>5, <2>1
  <2> QED BY <1>5, <2>2, <2>3
<1> HIDE DEF Pieces
<1>8. PICK p, x : p = Pieces(q) /\ x = Piece(u)
  OBVIOUS
<1>9. p \in Seq(Seq(U)) /\ x \in Seq(U)
  BY <1>6, <1>8
<1>10. FlattenSeq(Append(p, x)) = FlattenSeq(p) \o x
  BY <1>9, FlattenAppend
<1>11. Kept(Append(q, u), S) = Kept(q, S) \o Piece(u)
  BY <1>1, <1>4, <1>7, <1>8, <1>10
<1>12. Kept(q, S) \in Seq(U)
  BY KeptType
<1>13. Kept(q, S) \o <<>> = Kept(q, S) /\ Kept(q, S) \o <<u>> = Append(Kept(q, S), u)
  BY <1>12
<1> QED BY <1>11, <1>13 DEF Piece

(* Only what is there matters.                                             *)
LEMMA KeptSame ==
  ASSUME NEW U, NEW q \in Seq(U), NEW S, NEW R, ToSet(q) \cap S = ToSet(q) \cap R
  PROVE  Kept(q, S) = Kept(q, R)
<1>1. \A i \in 1..Len(q) : q[i] \in ToSet(q)
  BY DEF ToSet
<1>2. \A i \in 1..Len(q) : q[i] \in S <=> q[i] \in R
  BY <1>1
<1>3. [i \in 1..Len(q) |-> IF q[i] \in S THEN <<q[i]>> ELSE <<>>] =
      [i \in 1..Len(q) |-> IF q[i] \in R THEN <<q[i]>> ELSE <<>>]
  BY <1>2
<1> QED BY <1>3 DEF Kept

(* What is kept is what is in the set.                                     *)
LEMMA KeptHolds ==
  ASSUME NEW U, NEW S, NEW q \in Seq(U)
  PROVE  ToSet(Kept(q, S)) = ToSet(q) \cap S
<1> DEFINE X == {r \in Seq(U) : ToSet(Kept(r, S)) = ToSet(r) \cap S}
<1>1. <<>> \in X
  <2>1. Kept(<<>>, S) = <<>> /\ ToSet(<<>>) = {} /\ <<>> \in Seq(U)
    BY KeptEmpty, ToSetFacts
  <2> QED BY <2>1
<1>2. ASSUME NEW r \in Seq(U), NEW u \in U, r \in X PROVE Append(r, u) \in X
  <2>1. Append(r, u) \in Seq(U) /\ ToSet(Append(r, u)) = ToSet(r) \cup {u}
    BY ToSetFacts
  <2>2. Kept(r, S) \in Seq(U) /\ ToSet(Kept(r, S)) = ToSet(r) \cap S
    BY <1>2, KeptType
  <2>3. CASE u \in S
    <3>1. Kept(Append(r, u), S) = Append(Kept(r, S), u)
      BY <2>3, KeptAppend
    <3>2. ToSet(Append(Kept(r, S), u)) = ToSet(Kept(r, S)) \cup {u}
      BY <2>2, ToSetFacts
    <3> QED BY <2>1, <2>2, <2>3, <3>1, <3>2
  <2>4. CASE u \notin S
    <3>1. Kept(Append(r, u), S) = Kept(r, S)
      BY <2>4, KeptAppend
    <3> QED BY <2>1, <2>2, <2>4, <3>1
  <2> QED BY <2>3, <2>4
<1>3. Seq(U) \subseteq X
  <2> HIDE DEF X
  <2> QED BY <1>1, <1>2, SeqInduction
<1> QED BY <1>3

(* What a narrower set keeps, it keeps of what a wider one has kept.       *)
LEMMA KeptTwice ==
  ASSUME NEW U, NEW S, NEW R, R \subseteq S, NEW q \in Seq(U)
  PROVE  Kept(Kept(q, S), R) = Kept(q, R)
<1> DEFINE X == {r \in Seq(U) : Kept(Kept(r, S), R) = Kept(r, R)}
<1>1. <<>> \in X
  <2>1. Kept(<<>>, S) = <<>> /\ Kept(<<>>, R) = <<>> /\ <<>> \in Seq(U)
    BY KeptEmpty
  <2> QED BY <2>1
<1>2. ASSUME NEW r \in Seq(U), NEW u \in U, r \in X PROVE Append(r, u) \in X
  <2>1. Append(r, u) \in Seq(U)
    OBVIOUS
  <2>2. PICK k : k = Kept(r, S)
    OBVIOUS
  <2>3. k \in Seq(U) /\ Kept(k, R) = Kept(r, R)
    BY <1>2, <2>2, KeptType
  <2>4. CASE u \in R
    <3>1. Kept(Append(r, u), S) = Append(k, u)
      BY <2>2, <2>4, KeptAppend
    <3>2. Kept(Append(r, u), R) = Append(Kept(r, R), u)
      BY <2>4, KeptAppend
    <3>3. Kept(Append(k, u), R) = Append(Kept(k, R), u)
      BY <2>3, <2>4, KeptAppend
    <3> QED BY <2>1, <2>3, <3>1, <3>2, <3>3
  <2>5. CASE u \notin R
    <3>1. Kept(Append(r, u), R) = Kept(r, R)
      BY <2>5, KeptAppend
    <3>2. Kept(Append(k, u), R) = Kept(k, R)
      BY <2>3, <2>5, KeptAppend
    <3>3. Kept(Append(r, u), S) = Append(k, u) \/ Kept(Append(r, u), S) = k
      BY <2>2, KeptAppend
    <3> QED BY <2>1, <2>3, <3>1, <3>2, <3>3
  <2> QED BY <2>4, <2>5
<1>3. Seq(U) \subseteq X
  <2> HIDE DEF X
  <2> QED BY <1>1, <1>2, SeqInduction
<1> QED BY <1>3

(* What is kept of two lists.                                              *)
LEMMA KeptConcat ==
  ASSUME NEW U, NEW S, NEW a \in Seq(U), NEW b \in Seq(U)
  PROVE  Kept(a \o b, S) = Kept(a, S) \o Kept(b, S)
<1> DEFINE X == {r \in Seq(U) : Kept(a \o r, S) = Kept(a, S) \o Kept(r, S)}
<1>1. <<>> \in X
  <2>1. Kept(<<>>, S) = <<>> /\ <<>> \in Seq(U)
    BY KeptEmpty
  <2>2. Kept(a, S) \in Seq(U)
    BY KeptType
  <2>3. a \o <<>> = a /\ Kept(a, S) \o <<>> = Kept(a, S)
    BY <2>2
  <2> QED BY <2>1, <2>3
<1>2. ASSUME NEW r \in Seq(U), NEW u \in U, r \in X PROVE Append(r, u) \in X
  <2>1. PICK c : c = a \o r
    OBVIOUS
  <2>2. Append(r, u) \in Seq(U) /\ c \in Seq(U) /\ a \o Append(r, u) = Append(c, u)
    BY <2>1
  <2>3. Kept(a, S) \in Seq(U) /\ Kept(r, S) \in Seq(U)
    BY KeptType
  <2>4. Kept(c, S) = Kept(a, S) \o Kept(r, S)
    BY <1>2, <2>1
  <2>5. CASE u \in S
    <3>1. Kept(Append(r, u), S) = Append(Kept(r, S), u)
      BY <2>5, KeptAppend
    <3>2. Kept(Append(c, u), S) = Append(Kept(c, S), u)
      BY <2>2, <2>5, KeptAppend
    <3>3. Kept(a, S) \o Append(Kept(r, S), u) = Append(Kept(a, S) \o Kept(r, S), u)
      BY <2>3, ConcatAppend
    <3> QED BY <2>2, <2>4, <3>1, <3>2, <3>3
  <2>6. CASE u \notin S
    <3>1. Kept(Append(r, u), S) = Kept(r, S)
      BY <2>6, KeptAppend
    <3>2. Kept(Append(c, u), S) = Kept(c, S)
      BY <2>2, <2>6, KeptAppend
    <3> QED BY <2>2, <2>4, <3>1, <3>2
  <2> QED BY <2>5, <2>6
<1>3. Seq(U) \subseteq X
  <2> HIDE DEF X
  <2> QED BY <1>1, <1>2, SeqInduction
<1> QED BY <1>3

(* What is all in the set is all kept.                                     *)
LEMMA KeptAll ==
  ASSUME NEW U, NEW S, NEW q \in Seq(U), ToSet(q) \subseteq S
  PROVE  Kept(q, S) = q
<1> DEFINE X == {r \in Seq(U) : Kept(r, U) = r}
<1>1. <<>> \in X
  <2>1. Kept(<<>>, U) = <<>> /\ <<>> \in Seq(U)
    BY KeptEmpty
  <2> QED BY <2>1
<1>2. ASSUME NEW r \in Seq(U), NEW u \in U, r \in X PROVE Append(r, u) \in X
  BY <1>2, KeptAppend
<1>3. Seq(U) \subseteq X
  <2> HIDE DEF X
  <2> QED BY <1>1, <1>2, SeqInduction
<1>4. Kept(q, U) = q
  BY <1>3
<1>5. ToSet(q) \cap S = ToSet(q) \cap U
  BY ToSetFacts
<1> QED BY <1>4, <1>5, KeptSame

(* What two sets keep one after the other, both keep together.             *)
LEMMA KeptBoth ==
  ASSUME NEW U, NEW S, NEW R, NEW q \in Seq(U)
  PROVE  Kept(Kept(q, S), R) = Kept(q, S \cap R)
<1>1. PICK k : k = Kept(q, S)
  OBVIOUS
<1>2. k \in Seq(U) /\ ToSet(k) \subseteq S
  BY <1>1, KeptType, KeptHolds
<1>3. ToSet(k) \cap R = ToSet(k) \cap (S \cap R)
  BY <1>2
<1>4. Kept(k, R) = Kept(k, S \cap R)
  BY <1>2, <1>3, KeptSame
<1>5. Kept(k, S \cap R) = Kept(q, S \cap R)
  BY <1>1, KeptTwice
<1> QED BY <1>1, <1>4, <1>5
-----------------------------------------------------------------------------
(* A unit, one that takes no further token, and a list as Units reads it:  *)
(* only the last unit may take one.                                        *)
IsUnit(u) == u # <<>> /\ (u[1] = "--" \/ Len(u) = 1 \/ (Len(u) = 2 /\ u[1] \in ValueOptions))
Closed(u) == ~(u[1] = "--" \/ (Len(u) = 1 /\ u[1] \in ValueOptions))
WellFormed(us) ==
  /\ \A i \in 1..Len(us) : IsUnit(us[i])
  /\ \A i \in 1..(Len(us) - 1) : Closed(us[i])

(* One unit more can follow when all the units before are closed.          *)
LEMMA WellFormedAppend ==
  ASSUME NEW U, NEW q \in Seq(U), NEW u \in U
  PROVE  WellFormed(Append(q, u)) <=>
           /\ \A i \in 1..Len(q) : IsUnit(q[i]) /\ Closed(q[i])
           /\ IsUnit(u)
<1>1. PICK r : r = Append(q, u)
  OBVIOUS
<1>2. /\ Len(q) \in Nat /\ Len(r) = Len(q) + 1 /\ r[Len(q) + 1] = u
      /\ \A i \in 1..Len(q) : r[i] = q[i]
  BY <1>1
<1>3. /\ \A i \in 1..Len(r) : i \in 1..Len(q) \/ i = Len(q) + 1
      /\ 1..(Len(r) - 1) = 1..Len(q) /\ 1..Len(q) \subseteq 1..Len(r) /\ Len(q) + 1 \in 1..Len(r)
  BY <1>2
<1> QED BY <1>1, <1>2, <1>3 DEF WellFormed

(* A token begins a unit after a closed one, and goes to one that is open. *)
LEMMA TokenBegins ==
  ASSUME NEW T, NEW q \in Seq(Seq(T)), NEW t \in T, q # <<>> => Closed(q[Len(q)])
  PROVE  AddToken(q, t) = Append(q, <<t>>)
<1>1. q # <<>> => Last(q) = q[Len(q)]
  BY DEF Last
<1>2. q # <<>> => ~(Last(q)[1] = "--" \/ (Len(Last(q)) = 1 /\ Last(q)[1] \in ValueOptions))
  BY <1>1 DEF Closed
<1> QED BY <1>2 DEF AddToken

(* A token that comes after an open unit belongs to it.                    *)
LEMMA TokenContinues ==
  ASSUME NEW T, NEW q \in Seq(Seq(T)), NEW u \in Seq(T), NEW t \in T, ~Closed(u)
  PROVE  AddToken(Append(q, u), t) = Append(q, Append(u, t))
<1>1. PICK r : r = Append(q, u)
  OBVIOUS
<1>2. /\ r \in Seq(Seq(T)) /\ Len(q) \in Nat /\ Len(r) = Len(q) + 1 /\ r[Len(q) + 1] = u
      /\ r # <<>> /\ \A i \in 1..Len(q) : r[i] = q[i]
  BY <1>1
<1>3. Last(r) = u
  BY <1>2 DEF Last
<1>4. AddToken(r, t) = [r EXCEPT ![Len(r)] = Append(u, t)]
  BY <1>2, <1>3 DEF AddToken, Closed
<1>5. [r EXCEPT ![Len(r)] = Append(u, t)] = Append(q, Append(u, t))
  <2>1. PICK x : x = Append(u, t) /\ x \in Seq(T)
    <3>1. Append(u, t) \in Seq(T)
      OBVIOUS
    <3> QED BY <3>1
  <2>2. PICK v : v = [r EXCEPT ![Len(r)] = x]
    OBVIOUS
  <2>3. /\ v \in Seq(Seq(T)) /\ Len(v) = Len(q) + 1 /\ v[Len(q) + 1] = x
        /\ \A i \in 1..Len(q) : v[i] = q[i]
    BY <1>2, <2>1, <2>2
  <2>4. v = Append(q, x)
    BY <1>2, <2>1, <2>3
  <2> QED BY <2>1, <2>2, <2>4
<1> QED BY <1>1, <1>4, <1>5

(* A list that is not empty is one with a last unit.                       *)
LEMMA SplitLast ==
  ASSUME NEW U, NEW q \in Seq(U), q # <<>>
  PROVE  \E r \in Seq(U), u \in U : q = Append(r, u) /\ q[Len(q)] = u
<1> DEFINE r == SubSeq(q, 1, Len(q) - 1)
<1>1. r \in Seq(U) /\ q[Len(q)] \in U /\ q = Append(r, q[Len(q)])
  OBVIOUS
<1> QED BY <1>1

(* What Units reads is a well-formed list.                                 *)
LEMMA UnitsWellFormed ==
  ASSUME NEW T, NEW a \in Seq(T)
  PROVE  Units(a) \in Seq(Seq(T)) /\ WellFormed(Units(a))
<1> DEFINE X == {q \in Seq(T) : Units(q) \in Seq(Seq(T)) /\ WellFormed(Units(q))}
<1>1. <<>> \in X
  <2>1. Units(<<>>) = <<>> /\ <<>> \in Seq(T) /\ <<>> \in Seq(Seq(T))
    BY UnitsAppend
  <2>2. WellFormed(<<>>)
    BY DEF WellFormed
  <2> QED BY <2>1, <2>2
<1>2. ASSUME NEW b \in Seq(T), NEW t \in T, b \in X PROVE Append(b, t) \in X
  <2>1. PICK q : q = Units(b)
    OBVIOUS
  <2>2. q \in Seq(Seq(T)) /\ WellFormed(q) /\ Append(b, t) \in Seq(T)
    BY <1>2, <2>1
  <2>3. Units(Append(b, t)) = AddToken(q, t)
    BY <2>1, UnitsAppend
  <2>4. CASE q # <<>> => Closed(q[Len(q)])
    <3>1. AddToken(q, t) = Append(q, <<t>>)
      BY <2>2, <2>4, TokenBegins
    <3>2. <<t>> \in Seq(T) /\ IsUnit(<<t>>)
      BY DEF IsUnit
    <3>3. \A i \in 1..Len(q) : IsUnit(q[i]) /\ Closed(q[i])
      <4> SUFFICES ASSUME NEW i \in 1..Len(q) PROVE IsUnit(q[i]) /\ Closed(q[i])
        OBVIOUS
      <4>1. Len(q) \in Nat /\ q # <<>>
        BY <2>2
      <4>2. i = Len(q) \/ i \in 1..(Len(q) - 1)
        BY <4>1
      <4> QED BY <2>2, <2>4, <4>1, <4>2 DEF WellFormed
    <3>4. WellFormed(Append(q, <<t>>))
      BY <2>2, <3>2, <3>3, WellFormedAppend
    <3>5. Append(q, <<t>>) \in Seq(Seq(T))
      BY <2>2, <3>2
    <3> QED BY <2>2, <2>3, <3>1, <3>4, <3>5
  <2>5. CASE q # <<>> /\ ~Closed(q[Len(q)])
    <3>1. PICK r \in Seq(Seq(T)), u \in Seq(T) : q = Append(r, u) /\ q[Len(q)] = u
      BY <2>2, <2>5, SplitLast
    <3>2. ~Closed(u)
      BY <2>5, <3>1
    <3>3. AddToken(q, t) = Append(r, Append(u, t))
      BY <3>1, <3>2, TokenContinues
    <3>4. (\A i \in 1..Len(r) : IsUnit(r[i]) /\ Closed(r[i])) /\ IsUnit(u)
      BY <2>2, <3>1, WellFormedAppend
    <3>5. PICK v : v = Append(u, t) /\ v \in Seq(T)
      <4>1. Append(u, t) \in Seq(T)
        OBVIOUS
      <4> QED BY <4>1
    <3>6. IsUnit(v)
      <4>1. u # <<>> /\ Len(u) \in Nat /\ Len(u) # 0
        BY <3>4 DEF IsUnit
      <4>2. v # <<>> /\ v[1] = u[1] /\ Len(v) = Len(u) + 1
        <5>1. Len(v) = Len(u) + 1 /\ \A i \in 1..Len(u) : v[i] = u[i]
          BY <3>5
        <5>2. 1 \in 1..Len(u) /\ Len(u) + 1 # 0
          BY <4>1
        <5>3. v # <<>>
          BY <3>5, <5>1, <5>2
        <5> QED BY <5>1, <5>2, <5>3
      <4>3. u[1] = "--" \/ (Len(u) = 1 /\ u[1] \in ValueOptions)
        BY <3>2 DEF Closed
      <4>4. v[1] = "--" \/ (Len(v) = 2 /\ v[1] \in ValueOptions)
        <5>1. Len(u) = 1 => Len(v) = 2
          BY <4>2
        <5>2. v[1] = u[1]
          BY <4>2
        <5>3. CASE u[1] = "--"
          BY <5>2, <5>3
        <5>4. CASE Len(u) = 1 /\ u[1] \in ValueOptions
          BY <5>1, <5>2, <5>4
        <5> QED BY <4>3, <5>3, <5>4
      <4> QED BY <4>2, <4>4 DEF IsUnit
    <3>7. WellFormed(Append(r, v))
      BY <3>4, <3>5, <3>6, WellFormedAppend
    <3>8. Append(r, v) \in Seq(Seq(T))
      BY <3>5
    <3> QED BY <2>2, <2>3, <3>3, <3>5, <3>7, <3>8
  <2> QED BY <2>4, <2>5
<1>3. Seq(T) \subseteq X
  <2> HIDE DEF X
  <2> QED BY <1>1, <1>2, SeqInduction
<1> QED BY <1>3

(* Reading a well-formed list's tokens gives the list back.                *)
LEMMA UnitsOfFlatten ==
  ASSUME NEW T, NEW us \in Seq(Seq(T)), WellFormed(us)
  PROVE  Units(FlattenSeq(us)) = us
<1> DEFINE X == {q \in Seq(Seq(T)) : WellFormed(q) => Units(FlattenSeq(q)) = q}
<1>1. <<>> \in X
  BY UnitsAppend, FlattenAppend
<1>2. ASSUME NEW q \in Seq(Seq(T)), NEW u \in Seq(T), q \in X PROVE Append(q, u) \in X
  <2> SUFFICES ASSUME WellFormed(Append(q, u)) PROVE Units(FlattenSeq(Append(q, u))) = Append(q, u)
    OBVIOUS
  <2>1. (\A i \in 1..Len(q) : IsUnit(q[i]) /\ Closed(q[i])) /\ IsUnit(u)
    BY WellFormedAppend
  <2>2. WellFormed(q)
    <3>1. Len(q) \in Nat /\ 1..(Len(q) - 1) \subseteq 1..Len(q)
      OBVIOUS
    <3> QED BY <2>1, <3>1 DEF WellFormed
  <2>3. PICK a : a = FlattenSeq(q)
    OBVIOUS
  <2>4. a \in Seq(T)
    BY <2>3, FlattenType
  <2>5. Units(a) = q
    BY <1>2, <2>2, <2>3
  <2>6. q # <<>> => Closed(q[Len(q)])
    <3>1. q # <<>> => Len(q) \in 1..Len(q)
      OBVIOUS
    <3> QED BY <2>1, <3>1
  <2> DEFINE Y == {r \in Seq(T) : IsUnit(r) => Units(a \o r) = Append(q, r)}
  <2>7. <<>> \in Y
    BY DEF IsUnit
  <2>8. ASSUME NEW r \in Seq(T), NEW t \in T, r \in Y PROVE Append(r, t) \in Y
    <3>1. PICK v : v = Append(r, t)
      OBVIOUS
    <3>2. v \in Seq(T)
      BY <3>1
    <3> SUFFICES ASSUME IsUnit(v) PROVE Units(a \o v) = Append(q, v)
      BY <3>1, <3>2
    <3>3. PICK b : b = a \o r
      OBVIOUS
    <3>4. b \in Seq(T) /\ a \o v = Append(b, t)
      BY <2>4, <3>1, <3>3
    <3>5. Units(a \o v) = AddToken(Units(b), t)
      BY <3>4, UnitsAppend
    <3>6. CASE r = <<>>
      <4>1. b = a /\ v = <<t>>
        BY <2>4, <3>1, <3>3, <3>6
      <4>2. AddToken(q, t) = Append(q, <<t>>)
        BY <2>6, TokenBegins
      <4> QED BY <2>5, <3>5, <4>1, <4>2
    <3>7. CASE r # <<>>
      <4>1. Len(r) \in Nat /\ Len(r) # 0 /\ v[1] = r[1] /\ Len(v) = Len(r) + 1
        BY <3>1, <3>7
      <4>2. r[1] = "--" \/ (Len(r) = 1 /\ r[1] \in ValueOptions)
        <5>1. Len(v) # 1 /\ (Len(v) = 2 => Len(r) = 1)
          <6>1. PICK n \in Nat : n = Len(r)
            OBVIOUS
          <6>2. Len(v) = n + 1 /\ n # 0
            BY <4>1, <6>1
          <6>3. n + 1 # 1 /\ (n + 1 = 2 => n = 1)
            BY <6>2
          <6> QED BY <6>1, <6>2, <6>3
        <5>2. v[1] = "--" \/ (Len(v) = 2 /\ v[1] \in ValueOptions)
          BY <5>1 DEF IsUnit
        <5>3. v[1] = r[1]
          BY <4>1
        <5> QED BY <5>1, <5>2, <5>3
      <4>3. IsUnit(r) /\ ~Closed(r)
        BY <3>7, <4>2 DEF IsUnit, Closed
      <4>4. Units(b) = Append(q, r)
        BY <2>8, <3>3, <4>3
      <4>5. AddToken(Append(q, r), t) = Append(q, Append(r, t))
        BY <4>3, TokenContinues
      <4> QED BY <3>1, <3>5, <4>4, <4>5
    <3> QED BY <3>6, <3>7
  <2>9. Seq(T) \subseteq Y
    <3> HIDE DEF Y
    <3> QED BY <2>7, <2>8, SeqInduction
  <2>10. Units(a \o u) = Append(q, u)
    BY <2>1, <2>9
  <2>11. FlattenSeq(Append(q, u)) = a \o u
    BY <2>3, FlattenAppend
  <2> QED BY <2>10, <2>11
<1>3. Seq(Seq(T)) \subseteq X
  <2> HIDE DEF X
  <2> QED BY <1>1, <1>2, SeqInduction
<1> QED BY <1>3

(* Taking units out of a well-formed list leaves one.                      *)
LEMMA KeptWellFormed ==
  ASSUME NEW U, NEW S, NEW q \in Seq(U), WellFormed(q)
  PROVE  WellFormed(Kept(q, S))
<1> DEFINE X == {r \in Seq(U) : WellFormed(r) => WellFormed(Kept(r, S))}
<1>1. <<>> \in X
  BY KeptEmpty
<1>2. ASSUME NEW r \in Seq(U), NEW u \in U, r \in X PROVE Append(r, u) \in X
  <2> SUFFICES ASSUME WellFormed(Append(r, u)) PROVE WellFormed(Kept(Append(r, u), S))
    OBVIOUS
  <2>1. (\A i \in 1..Len(r) : IsUnit(r[i]) /\ Closed(r[i])) /\ IsUnit(u)
    BY WellFormedAppend
  <2>2. WellFormed(r)
    <3>1. Len(r) \in Nat /\ 1..(Len(r) - 1) \subseteq 1..Len(r)
      OBVIOUS
    <3> QED BY <2>1, <3>1 DEF WellFormed
  <2>3. CASE u \notin S
    BY <1>2, <2>2, <2>3, KeptAppend
  <2>4. CASE u \in S
    <3>1. PICK k : k = Kept(r, S)
      OBVIOUS
    <3>2. k \in Seq(U)
      BY <3>1, KeptType
    <3>3. Kept(Append(r, u), S) = Append(k, u)
      BY <2>4, <3>1, KeptAppend
    <3>4. \A v \in ToSet(r) : IsUnit(v) /\ Closed(v)
      BY <2>1 DEF ToSet
    <3>5. ToSet(k) \subseteq ToSet(r)
      BY <3>1, KeptHolds
    <3>6. \A i \in 1..Len(k) : k[i] \in ToSet(k)
      BY <3>2 DEF ToSet
    <3>7. \A i \in 1..Len(k) : IsUnit(k[i]) /\ Closed(k[i])
      BY <3>4, <3>5, <3>6
    <3>8. WellFormed(Append(k, u))
      BY <2>1, <3>2, <3>7, WellFormedAppend
    <3> QED BY <3>3, <3>8
  <2> QED BY <2>3, <2>4
<1>3. Seq(U) \subseteq X
  <2> HIDE DEF X
  <2> QED BY <1>1, <1>2, SeqInduction
<1> QED BY <1>3
-----------------------------------------------------------------------------
(* The forms with "=" are none of the options with a value of their own.   *)
LEMMA InlineForms ==
  /\ DOMAIN InlineProvider = {"--provider=codex", "--provider=zai", "--provider=meta"}
  /\ DOMAIN InlineUrl = {"--base-url=u1", "--base-url=u2", "--base-url="}
<1>1. DOMAIN InlineProvider = {"--provider=codex", "--provider=zai", "--provider=meta"}
  BY DEF InlineProvider
<1>2. DOMAIN InlineUrl = {"--base-url=u1", "--base-url=u2", "--base-url="}
  BY DEF InlineUrl
<1> QED BY <1>1, <1>2

(* The smallest number of a set.                                           *)
LEMMA MinFacts ==
  ASSUME NEW S, S \subseteq Nat, S # {}
  PROVE  Min(S) \in S /\ \A i \in S : Min(S) <= i
<1> DEFINE A == {n \in Nat : \A i \in S : i >= n}
<1>1. \E m \in S : \A i \in S : m <= i
  <2> SUFFICES ASSUME \A m \in S : \E i \in S : ~(m <= i) PROVE FALSE
    OBVIOUS
  <2>1. 0 \in A
    OBVIOUS
  <2>2. ASSUME NEW n \in Nat, n \in A PROVE n + 1 \in A
    <3> SUFFICES ASSUME NEW i \in S PROVE i >= n + 1
      OBVIOUS
    <3>1. i >= n /\ i \in Nat
      BY <2>2
    <3>2. i # n
      BY <2>2
    <3> QED BY <3>1, <3>2
  <2>3. Nat \subseteq A
    <3> HIDE DEF A
    <3> QED BY <2>1, <2>2, SetInduction
  <2>4. PICK i \in S : TRUE
    OBVIOUS
  <2>5. i + 1 \in A /\ i \in Nat
    BY <2>3
  <2> QED BY <2>4, <2>5
<1> QED BY <1>1 DEF Min

(* One pass over the arguments takes out the units of a set and leaves the *)
(* others as they were read.                                               *)
LEMMA WithoutUnits ==
  ASSUME NEW T, NEW a \in Seq(T), NEW D
  PROVE  /\ Without(a, D) \in Seq(T)
         /\ Units(Without(a, D)) = Kept(Units(a), Seq(T) \ D)
         /\ Without(a, D) = FlattenSeq(Units(Without(a, D)))
         /\ ToSet(Units(Without(a, D))) = ToSet(Units(a)) \ D
<1>1. PICK q : q = Units(a)
  OBVIOUS
<1>2. q \in Seq(Seq(T)) /\ WellFormed(q)
  BY <1>1, UnitsWellFormed
<1>3. PICK k : k = Kept(q, ToSet(q) \ D)
  OBVIOUS
<1>4. k \in Seq(Seq(T))
  BY <1>2, <1>3, KeptType
<1>5. WellFormed(k)
  BY <1>2, <1>3, KeptWellFormed
<1>6. Without(a, D) = FlattenSeq(k)
  BY <1>1, <1>3 DEF Without
<1>7. Units(FlattenSeq(k)) = k
  BY <1>4, <1>5, UnitsOfFlatten
<1>8. FlattenSeq(k) \in Seq(T)
  BY <1>4, FlattenType
<1>9. ToSet(k) = ToSet(q) \cap (ToSet(q) \ D)
  BY <1>2, <1>3, KeptHolds
<1>10. ToSet(q) \subseteq Seq(T)
  BY <1>2, ToSetFacts
<1>11. Kept(q, ToSet(q) \ D) = Kept(q, Seq(T) \ D)
  <2>1. ToSet(q) \cap (ToSet(q) \ D) = ToSet(q) \cap (Seq(T) \ D)
    BY <1>10
  <2> QED BY <1>2, <2>1, KeptSame
<1> QED BY <1>1, <1>3, <1>6, <1>7, <1>8, <1>9, <1>11

(* And a unit that is not in the set stays where it is among its like.     *)
LEMMA WithoutSpares ==
  ASSUME NEW T, NEW a \in Seq(T), NEW D, NEW R, R \subseteq Seq(T), R \cap D = {}
  PROVE  Kept(Units(Without(a, D)), R) = Kept(Units(a), R)
<1>1. Units(Without(a, D)) = Kept(Units(a), Seq(T) \ D)
  BY WithoutUnits
<1>2. Units(a) \in Seq(Seq(T))
  BY UnitsWellFormed
<1>3. R \subseteq Seq(T) \ D
  OBVIOUS
<1> QED BY <1>1, <1>2, <1>3, KeptTwice

(* The units that are Muse's are none of those the launcher takes out.     *)
LEMMA SparedApart ==
  ASSUME NEW u, Spared(u)
  PROVE  ~Removable(u) /\ u # <<"--fast">> /\ u # <<"--api-key-stdin">>
BY DEF Spared

(* What is left of the arguments of a session when the launcher's options  *)
(* are taken out: units of the command line, none of them an option of the *)
(* launcher, Muse's own units all there and in order; and all of those the *)
(* launcher does not take out.                                             *)
Remains(a, k, T) ==
  /\ k \in Seq(Seq(T)) /\ WellFormed(k)
  /\ WithoutRouting(SessionArgs(a)) = FlattenSeq(k)
  /\ Units(WithoutRouting(SessionArgs(a))) = k
  /\ ToSet(k) \subseteq ToSet(Units(a)) /\ ToSet(k) \subseteq ToSet(Units(SessionArgs(a)))
  /\ \A u \in ToSet(k) : ~Removable(u) /\ u # <<"--fast">>
  /\ Kept(k, {u \in Seq(T) : Spared(u)}) = Kept(Units(a), {u \in Seq(T) : Spared(u)})
  /\ k = Kept(Units(a), Seq(T) \ {u \in Seq(T) : Taken(a, u)})

(* take_exec_api_key_stdin, take_fast_mode and the removal of the routing. *)
LEMMA SessionRemains ==
  ASSUME NEW T, NEW a \in Seq(T)
  PROVE  Remains(a, Units(WithoutRouting(SessionArgs(a))), T)
<1> DEFINE R == {u \in Seq(T) : Spared(u)}
<1>1. R \subseteq Seq(T) /\ <<"--fast">> \notin R /\ <<"--api-key-stdin">> \notin R
      /\ \A u \in R : ~Removable(u)
  BY SparedApart
<1> HIDE DEF R
<1>2. PICK b : b = TakeExecApiKeyStdin(a)
  OBVIOUS
<1>3. /\ b \in Seq(T) /\ ToSet(Units(b)) \subseteq ToSet(Units(a))
      /\ Kept(Units(b), R) = Kept(Units(a), R)
  <2>1. CASE b = a
    BY <2>1
  <2>2. CASE b = Without(a, {<<"--api-key-stdin">>})
    <3>1. R \cap {<<"--api-key-stdin">>} = {}
      BY <1>1
    <3>2. Kept(Units(b), R) = Kept(Units(a), R)
      BY <1>1, <2>2, <3>1, WithoutSpares
    <3>3. b \in Seq(T) /\ ToSet(Units(b)) = ToSet(Units(a)) \ {<<"--api-key-stdin">>}
      BY <2>2, WithoutUnits
    <3> QED BY <3>2, <3>3
  <2> QED BY <1>2, <2>1, <2>2 DEF TakeExecApiKeyStdin
<1>4. PICK c : c = Without(b, {<<"--fast">>})
  OBVIOUS
<1>5. c = SessionArgs(a)
  BY <1>2, <1>4 DEF SessionArgs, TakeFastMode
<1>6. c \in Seq(T) /\ ToSet(Units(c)) = ToSet(Units(b)) \ {<<"--fast">>}
  BY <1>3, <1>4, WithoutUnits
<1>7. Kept(Units(c), R) = Kept(Units(b), R)
  <2>1. R \cap {<<"--fast">>} = {}
    BY <1>1
  <2> QED BY <1>1, <1>3, <1>4, <2>1, WithoutSpares
<1>8. PICK D : D = {u \in ToSet(Units(c)) : Removable(u)}
  OBVIOUS
<1>9. WithoutRouting(c) = Without(c, D)
  BY <1>8 DEF WithoutRouting
<1>10. PICK k : k = Units(Without(c, D))
  OBVIOUS
<1>11. Without(c, D) = FlattenSeq(k) /\ ToSet(k) = ToSet(Units(c)) \ D /\ Without(c, D) \in Seq(T)
  <2>1. c \in Seq(T)
    BY <1>6
  <2>2. /\ Without(c, D) \in Seq(T) /\ Without(c, D) = FlattenSeq(Units(Without(c, D)))
        /\ ToSet(Units(Without(c, D))) = ToSet(Units(c)) \ D
    BY <2>1, WithoutUnits
  <2> QED BY <1>10, <2>2
<1>12. k \in Seq(Seq(T)) /\ WellFormed(k)
  BY <1>10, <1>11, UnitsWellFormed
<1>13. Kept(k, R) = Kept(Units(c), R)
  <2>1. R \cap D = {}
    BY <1>1, <1>8
  <2> QED BY <1>1, <1>6, <1>10, <2>1, WithoutSpares
<1>14. \A u \in ToSet(k) : ~Removable(u) /\ u # <<"--fast">>
  BY <1>6, <1>8, <1>11
<1>15. ToSet(k) \subseteq ToSet(Units(a)) /\ ToSet(k) \subseteq ToSet(Units(c))
  BY <1>3, <1>6, <1>11
<1>16. Kept(k, R) = Kept(Units(a), R)
  BY <1>3, <1>7, <1>13
<1>17. k = Units(WithoutRouting(SessionArgs(a))) /\ WithoutRouting(SessionArgs(a)) = FlattenSeq(k)
  BY <1>5, <1>9, <1>10, <1>11
<1>18. k = Kept(Units(a), Seq(T) \ {u \in Seq(T) : Taken(a, u)})
  <2>1. PICK U, q : U = Seq(T) /\ q = Units(a)
    OBVIOUS
  <2>2. q \in Seq(U) /\ ToSet(q) \subseteq U
    <3>1. q \in Seq(U)
      BY <2>1, UnitsWellFormed
    <3> QED BY <3>1, ToSetFacts
  <2>3. PICK A, F : /\ A = IF SubcommandOf(a) = "exec" THEN {<<"--api-key-stdin">>} ELSE {}
                    /\ F = {<<"--fast">>}
    OBVIOUS
  <2>4. Units(b) = Kept(q, U \ A)
    <3>1. CASE SubcommandOf(a) = "exec"
      <4>1. b = Without(a, A)
        BY <1>2, <2>3, <3>1 DEF TakeExecApiKeyStdin
      <4> QED BY <2>1, <4>1, WithoutUnits
    <3>2. CASE SubcommandOf(a) # "exec"
      <4>1. b = a /\ A = {}
        BY <1>2, <2>3, <3>2 DEF TakeExecApiKeyStdin
      <4>2. ToSet(q) \subseteq U \ A
        BY <2>2, <4>1
      <4>3. Kept(q, U \ A) = q
        BY <2>2, <4>2, KeptAll
      <4> QED BY <2>1, <4>1, <4>3
    <3> QED BY <3>1, <3>2
  <2>5. Units(c) = Kept(Units(b), U \ F)
    BY <1>3, <1>4, <2>1, <2>3, WithoutUnits
  <2>6. k = Kept(Units(c), U \ D)
    BY <1>6, <1>10, <2>1, WithoutUnits
  <2>7. Units(c) = Kept(q, (U \ A) \cap (U \ F))
    BY <2>2, <2>4, <2>5, KeptBoth
  <2>8. k = Kept(q, ((U \ A) \cap (U \ F)) \cap (U \ D))
    BY <2>2, <2>6, <2>7, KeptBoth
  <2>9. ToSet(Units(c)) = ToSet(q) \cap ((U \ A) \cap (U \ F))
    BY <2>2, <2>7, KeptHolds
  <2>10. \A u \in ToSet(q) : u \in (U \ A) \cap (U \ F) =>
            (u \in U \ D <=> ~Removable(u))
    BY <1>8, <2>2, <2>9
  <2>11. \A u : u \in A \cup F <=>
            u = <<"--fast">> \/ (u = <<"--api-key-stdin">> /\ SubcommandOf(a) = "exec")
    BY <2>3
  <2>12. PICK E : E = {u \in Seq(T) : Taken(a, u)}
    OBVIOUS
  <2>13. \A u \in U : u \in E <=> Removable(u) \/ u \in A \cup F
    BY <2>1, <2>11, <2>12 DEF Taken
  <2>14. ToSet(q) \cap (((U \ A) \cap (U \ F)) \cap (U \ D)) = ToSet(q) \cap (U \ E)
    BY <2>2, <2>10, <2>13
  <2>15. k = Kept(q, U \ E)
    BY <2>2, <2>8, <2>14, KeptSame
  <2> QED BY <2>1, <2>12, <2>15
<1> QED BY <1>5, <1>12, <1>14, <1>15, <1>16, <1>17, <1>18 DEF Remains, R

(* The subcommand that stock_subcommand finds is a unit of its own.        *)
LEMMA SubcommandUnit ==
  ASSUME NEW T, NEW a \in Seq(T), NEW i, i = StockSubcommand(a), i # 0
  PROVE  /\ i \in 1..Len(Units(a)) /\ Units(a)[i] = <<SubcommandOf(a)>>
         /\ SubcommandOf(a) \in StockSubcommands /\ ~OptionLike(SubcommandOf(a))
         /\ SubcommandOf(a) \in T
<1>1. PICK q : q = Units(a)
  OBVIOUS
<1>2. q \in Seq(Seq(T)) /\ WellFormed(q)
  BY <1>1, UnitsWellFormed
<1> DEFINE Mode(j) == j > 1 /\ q[j][1] \in WorktreeModes /\ q[j - 1][1] \in Worktree
           free == {j \in 1..Len(q) : ~OptionLike(q[j][1]) /\ ~Mode(j)}
<1>3. StockSubcommand(a) =
        IF free # {} /\ q[Min(free)][1] \in StockSubcommands THEN Min(free) ELSE 0
  BY <1>1 DEF StockSubcommand
<1>4. free \subseteq Nat
  BY <1>2
<1>5. i = Min(free) /\ free # {} /\ q[i][1] \in StockSubcommands
  <2> HIDE DEF free
  <2> QED BY <1>3
<1>6. i \in free
  <2> HIDE DEF free
  <2> QED BY <1>4, <1>5, MinFacts
<1>7. i \in 1..Len(q) /\ ~OptionLike(q[i][1])
  BY <1>6
<1>8. SubcommandOf(a) = q[i][1]
  BY <1>1 DEF SubcommandOf
<1>9. q[i] \in Seq(T) /\ IsUnit(q[i])
  BY <1>2, <1>7 DEF WellFormed
<1>10. q[i][1] # "--" /\ q[i][1] \notin ValueOptions
  BY <1>7 DEF OptionLike
<1>11. Len(q[i]) = 1
  BY <1>9, <1>10 DEF IsUnit
<1>12. q[i] = <<q[i][1]>> /\ q[i][1] \in T
  BY <1>9, <1>11
<1> QED BY <1>1, <1>5, <1>7, <1>8, <1>12

(* A subcommand that comes first is the one that is found.                 *)
LEMMA SubcommandStands ==
  ASSUME NEW T, NEW a \in Seq(T), NEW s, s \in StockSubcommands, ~OptionLike(s),
         Units(a) # <<>>, Units(a)[1] = <<s>>
  PROVE  SubcommandOf(a) = s
<1>1. PICK q : q = Units(a)
  OBVIOUS
<1>2. q \in Seq(Seq(T)) /\ q # <<>> /\ q[1][1] = s
  <2>1. q \in Seq(Seq(T))
    BY <1>1, UnitsWellFormed
  <2> QED BY <1>1, <2>1
<1> DEFINE Mode(j) == j > 1 /\ q[j][1] \in WorktreeModes /\ q[j - 1][1] \in Worktree
           free == {j \in 1..Len(q) : ~OptionLike(q[j][1]) /\ ~Mode(j)}
<1>3. StockSubcommand(a) =
        IF free # {} /\ q[Min(free)][1] \in StockSubcommands THEN Min(free) ELSE 0
  BY <1>1 DEF StockSubcommand
<1>4. 1 \in free /\ free \subseteq 1..Len(q) /\ free \subseteq Nat
  <2>1. 1 \in 1..Len(q)
    BY <1>2
  <2> QED BY <1>2, <2>1
<1>5. Min(free) = 1
  <2> HIDE DEF free
  <2>1. Min(free) \in free /\ Min(free) <= 1
    BY <1>4, MinFacts
  <2>2. Min(free) \in 1..Len(q) /\ Len(q) \in Nat
    <3>1. Len(q) \in Nat
      BY <1>2
    <3> QED BY <1>4, <2>1, <3>1
  <2> QED BY <2>1, <2>2
<1>6. StockSubcommand(a) = 1
  <2> HIDE DEF free
  <2> QED BY <1>2, <1>3, <1>4, <1>5
<1> QED BY <1>1, <1>2, <1>6 DEF SubcommandOf
-----------------------------------------------------------------------------
(* A list of units that take no further token.                             *)
AllClosed(us) == \A i \in 1..Len(us) : IsUnit(us[i]) /\ Closed(us[i])

(* Closed units and a well-formed list after them.                         *)
LEMMA ClosedConcat ==
  ASSUME NEW U, NEW m \in Seq(U), NEW r \in Seq(U), AllClosed(m)
  PROVE  /\ WellFormed(r) => WellFormed(m \o r)
         /\ AllClosed(r) => AllClosed(m \o r)
<1>1. PICK c : c = m \o r
  OBVIOUS
<1>2. /\ Len(m) \in Nat /\ Len(r) \in Nat /\ Len(c) = Len(m) + Len(r)
      /\ \A i \in 1..Len(m) : c[i] = m[i]
      /\ \A i \in 1..Len(r) : c[Len(m) + i] = r[i]
  BY <1>1
<1>3. ASSUME NEW i \in 1..Len(c), i \notin 1..Len(m)
      PROVE  /\ i - Len(m) \in 1..Len(r) /\ c[i] = r[i - Len(m)]
             /\ i \in 1..(Len(c) - 1) => i - Len(m) \in 1..(Len(r) - 1)
  <2>1. i - Len(m) \in 1..Len(r) /\ i = Len(m) + (i - Len(m))
    BY <1>2, <1>3
  <2>2. c[Len(m) + (i - Len(m))] = r[i - Len(m)]
    BY <1>2, <2>1
  <2> QED BY <1>2, <2>1, <2>2
<1>4. \A i \in 1..Len(m) : IsUnit(c[i]) /\ Closed(c[i])
  BY <1>2 DEF AllClosed
<1>5. ASSUME WellFormed(r) PROVE WellFormed(c)
  <2>1. \A i \in 1..Len(c) : IsUnit(c[i])
    BY <1>3, <1>4, <1>5 DEF WellFormed
  <2>2. 1..(Len(c) - 1) \subseteq 1..Len(c)
    BY <1>2
  <2>3. \A i \in 1..(Len(c) - 1) : Closed(c[i])
    BY <1>3, <1>4, <1>5, <2>2 DEF WellFormed
  <2> QED BY <2>1, <2>3 DEF WellFormed
<1>6. ASSUME AllClosed(r) PROVE AllClosed(c)
  BY <1>3, <1>4, <1>6 DEF AllClosed
<1> QED BY <1>1, <1>5, <1>6

(* A unit in its place: what comes before it and what comes after it.      *)
Split(k, i, x, y) ==
  /\ RemoveAt(k, i) = x \o y /\ k = (x \o <<k[i]>>) \o y /\ Len(x) = i - 1
  /\ WellFormed(k) => AllClosed(x) /\ WellFormed(y)

(* There is such a split at every place.                                   *)
LEMMA SplitAt ==
  ASSUME NEW U, NEW k \in Seq(U), NEW i \in 1..Len(k)
  PROVE  \E x \in Seq(U), y \in Seq(U) : Split(k, i, x, y)
<1>1. Len(k) \in Nat /\ i \in Nat /\ i >= 1 /\ i <= Len(k)
  OBVIOUS
<1>2. PICK x, y : x = SubSeq(k, 1, i - 1) /\ y = SubSeq(k, i + 1, Len(k))
  OBVIOUS
<1>3. x \in Seq(U) /\ Len(x) = i - 1 /\ \A j \in 1..(i - 1) : x[j] = k[j]
  BY <1>1, <1>2
<1>4. y \in Seq(U) /\ Len(y) = Len(k) - i /\ \A j \in 1..(Len(k) - i) : y[j] = k[i + j]
  BY <1>1, <1>2
<1>5. RemoveAt(k, i) = x \o y
  BY <1>2 DEF RemoveAt
<1>6. k = (x \o <<k[i]>>) \o y
  <2>1. PICK z : z = x \o <<k[i]>>
    OBVIOUS
  <2>2. z \in Seq(U) /\ Len(z) = i /\ z[i] = k[i] /\ \A j \in 1..(i - 1) : z[j] = x[j]
    BY <1>1, <1>3, <2>1
  <2>3. PICK w : w = z \o y
    OBVIOUS
  <2>4. /\ w \in Seq(U) /\ Len(w) = Len(k) /\ \A j \in 1..i : w[j] = z[j]
        /\ \A j \in 1..(Len(k) - i) : w[i + j] = y[j]
    <3>1. z \in Seq(U) /\ y \in Seq(U)
      BY <1>4, <2>2
    <3>2. /\ w \in Seq(U) /\ Len(w) = Len(z) + Len(y) /\ \A j \in 1..Len(z) : w[j] = z[j]
          /\ \A j \in 1..Len(y) : w[Len(z) + j] = y[j]
      BY <2>3, <3>1
    <3> QED BY <1>1, <1>4, <2>2, <3>2
  <2>5. \A j \in 1..Len(k) : w[j] = k[j]
    <3> SUFFICES ASSUME NEW j \in 1..Len(k) PROVE w[j] = k[j]
      OBVIOUS
    <3>1. j \in 1..(i - 1) \/ j = i \/ (j - i \in 1..(Len(k) - i) /\ j = i + (j - i))
      BY <1>1
    <3>2. CASE j \in 1..(i - 1)
      BY <1>1, <1>3, <2>2, <2>4, <3>2
    <3>3. CASE j = i
      BY <1>1, <2>2, <2>4, <3>3
    <3>4. CASE j - i \in 1..(Len(k) - i) /\ j = i + (j - i)
      BY <1>4, <2>4, <3>4
    <3> QED BY <3>1, <3>2, <3>3, <3>4
  <2>6. w = k
    BY <2>4, <2>5
  <2> QED BY <2>1, <2>3, <2>6
<1>7. ASSUME WellFormed(k) PROVE AllClosed(x) /\ WellFormed(y)
  <2>1. 1..(i - 1) \subseteq 1..Len(k) /\ 1..(i - 1) \subseteq 1..(Len(k) - 1)
    BY <1>1
  <2>2. AllClosed(x)
    BY <1>3, <1>7, <2>1 DEF AllClosed, WellFormed
  <2>3. /\ \A j \in 1..(Len(k) - i) : i + j \in 1..Len(k)
        /\ \A j \in 1..((Len(k) - i) - 1) : j \in 1..(Len(k) - i) /\ i + j \in 1..(Len(k) - 1)
    BY <1>1
  <2>4. WellFormed(y)
    BY <1>4, <1>7, <2>3 DEF WellFormed
  <2> QED BY <2>2, <2>4
<1>8. Split(k, i, x, y)
  BY <1>3, <1>5, <1>6, <1>7 DEF Split
<1> QED BY <1>3, <1>4, <1>8

(* Where stock_subcommand's loop may stop: at a unit that is no option and *)
(* no worktree flag's mode; a list it runs through; and a worktree flag    *)
(* and a mode with nothing between them but units of a set.                *)
FreeAt(q, j) ==
  /\ ~OptionLike(q[j][1])
  /\ ~(j > 1 /\ q[j][1] \in WorktreeModes /\ q[j - 1][1] \in Worktree)
Opening(q) == \A j \in 1..Len(q) : ~FreeAt(q, j)
Parted(q, D) ==
  \E i, j \in 1..Len(q) :
    /\ i + 1 < j /\ q[i][1] \in Worktree /\ q[j][1] \in WorktreeModes
    /\ \A n \in (i + 1)..(j - 1) : q[n] \in D

(* Units that are options and no worktree flags, and how a list and what   *)
(* is kept of it end: with the same unit, but for units of the set.        *)
Owned(D) == \A u \in D : OptionLike(u[1]) /\ u[1] \notin Worktree
Ends(x, k, D) ==
  \/ k = <<>> /\ \A n \in 1..Len(x) : x[n] \in D
  \/ /\ k # <<>>
     /\ \E i \in 1..Len(x) : x[i] = k[Len(k)] /\ \A n \in (i + 1)..Len(x) : x[n] \in D

(* Whether the loop stops at a unit depends on nothing after it.           *)
LEMMA FreeAppend ==
  ASSUME NEW U, NEW x \in Seq(U), NEW u \in U
  PROVE  /\ \A j \in 1..Len(x) : FreeAt(Append(x, u), j) <=> FreeAt(x, j)
         /\ Opening(Append(x, u)) <=> Opening(x) /\ ~FreeAt(Append(x, u), Len(x) + 1)
<1>1. PICK z : z = Append(x, u)
  OBVIOUS
<1>2. /\ Len(x) \in Nat /\ Len(z) = Len(x) + 1 /\ \A j \in 1..Len(x) : z[j] = x[j]
  BY <1>1
<1>3. ASSUME NEW j \in 1..Len(x) PROVE FreeAt(z, j) <=> FreeAt(x, j)
  <2>1. j > 1 => j - 1 \in 1..Len(x)
    BY <1>2
  <2> QED BY <1>2, <2>1 DEF FreeAt
<1>4. \A j \in 1..Len(z) : j \in 1..Len(x) \/ j = Len(x) + 1
  BY <1>2
<1>5. 1..Len(x) \subseteq 1..Len(z) /\ Len(x) + 1 \in 1..Len(z)
  BY <1>2
<1>6. Opening(z) <=> Opening(x) /\ ~FreeAt(z, Len(x) + 1)
  BY <1>3, <1>4, <1>5 DEF Opening
<1> QED BY <1>1, <1>3, <1>6

(* A list that the loop does not run through has a first unit it stops at. *)
LEMMA FirstExists ==
  ASSUME NEW U, NEW q \in Seq(U), ~Opening(q)
  PROVE  \E x \in Seq(U), y \in Seq(U), v \in U :
           q = (x \o <<v>>) \o y /\ Opening(x) /\ FreeAt(Append(x, v), Len(x) + 1)
<1> DEFINE First(r, x, y, v) ==
             r = (x \o <<v>>) \o y /\ Opening(x) /\ FreeAt(Append(x, v), Len(x) + 1)
           X == {r \in Seq(U) :
                   ~Opening(r) => \E x \in Seq(U), y \in Seq(U), v \in U : First(r, x, y, v)}
<1>1. <<>> \in X
  <2>1. Opening(<<>>)
    BY DEF Opening
  <2> QED BY <2>1
<1>2. ASSUME NEW r \in Seq(U), NEW u \in U, r \in X PROVE Append(r, u) \in X
  <2> HIDE DEF First
  <2>0. Append(r, u) \in Seq(U)
    OBVIOUS
  <2> SUFFICES ASSUME ~Opening(Append(r, u))
               PROVE  \E x \in Seq(U), y \in Seq(U), v \in U : First(Append(r, u), x, y, v)
    BY <2>0
  <2>1. CASE Opening(r)
    <3>1. FreeAt(Append(r, u), Len(r) + 1)
      BY <2>1, FreeAppend
    <3>2. Append(r, u) = (r \o <<u>>) \o <<>> /\ <<>> \in Seq(U)
      OBVIOUS
    <3>3. First(Append(r, u), r, <<>>, u)
      BY <2>1, <3>1, <3>2 DEF First
    <3> QED BY <3>2, <3>3
  <2>2. CASE ~Opening(r)
    <3>1. PICK x \in Seq(U), y \in Seq(U), v \in U : First(r, x, y, v)
      BY <1>2, <2>2
    <3>2. PICK z : z = x \o <<v>>
      OBVIOUS
    <3>3. z \in Seq(U) /\ r = z \o y
      BY <3>1, <3>2 DEF First
    <3>4. z \o Append(y, u) = Append(z \o y, u) /\ Append(y, u) \in Seq(U)
      BY <3>3, ConcatAppend
    <3>5. First(Append(r, u), x, Append(y, u), v)
      BY <3>1, <3>2, <3>3, <3>4 DEF First
    <3> QED BY <3>4, <3>5
  <2> QED BY <2>1, <2>2
<1>3. Seq(U) \subseteq X
  <2> HIDE DEF X
  <2> QED BY <1>1, <1>2, SeqInduction
<1> QED BY <1>3

(* There stock_subcommand finds its subcommand, or that there is none.     *)
LEMMA FirstFree ==
  ASSUME NEW U, NEW a, Units(a) \in Seq(U)
  PROVE  /\ Opening(Units(a)) => StockSubcommand(a) = 0
         /\ \A x \in Seq(U), y \in Seq(U), v \in U :
              /\ Units(a) = (x \o <<v>>) \o y /\ Opening(x) /\ FreeAt(Append(x, v), Len(x) + 1)
              => StockSubcommand(a) = IF v[1] \in StockSubcommands THEN Len(x) + 1 ELSE 0
<1>1. PICK q : q = Units(a)
  OBVIOUS
<1>2. q \in Seq(U) /\ Len(q) \in Nat
  BY <1>1
<1> DEFINE Mode(j) == j > 1 /\ q[j][1] \in WorktreeModes /\ q[j - 1][1] \in Worktree
           free == {j \in 1..Len(q) : ~OptionLike(q[j][1]) /\ ~Mode(j)}
<1>3. StockSubcommand(a) =
        IF free # {} /\ q[Min(free)][1] \in StockSubcommands THEN Min(free) ELSE 0
  BY <1>1 DEF StockSubcommand
<1>4. free = {j \in 1..Len(q) : FreeAt(q, j)} /\ free \subseteq Nat
  BY <1>2 DEF FreeAt
<1> HIDE DEF free
<1>5. ASSUME Opening(q) PROVE StockSubcommand(a) = 0
  <2>1. free = {}
    BY <1>4, <1>5 DEF Opening
  <2> QED BY <1>3, <2>1
<1>6. ASSUME NEW x \in Seq(U), NEW y \in Seq(U), NEW v \in U, q = (x \o <<v>>) \o y,
             Opening(x), FreeAt(Append(x, v), Len(x) + 1)
      PROVE  StockSubcommand(a) = IF v[1] \in StockSubcommands THEN Len(x) + 1 ELSE 0
  <2>1. PICK z : z = Append(x, v)
    OBVIOUS
  <2>2. /\ z \in Seq(U) /\ Len(x) \in Nat /\ Len(z) = Len(x) + 1 /\ z[Len(x) + 1] = v
        /\ q = z \o y /\ \A j \in 1..Len(x) : z[j] = x[j]
    BY <1>6, <2>1
  <2>3. Len(q) = Len(z) + Len(y) /\ Len(y) \in Nat /\ \A j \in 1..Len(z) : q[j] = z[j]
    <3>1. z \in Seq(U) /\ y \in Seq(U) /\ q = z \o y
      BY <2>2
    <3> QED BY <3>1, ConcatPlaces
  <2>4. \A j \in 1..Len(z) : FreeAt(q, j) <=> FreeAt(z, j)
    <3> SUFFICES ASSUME NEW j \in 1..Len(z) PROVE FreeAt(q, j) <=> FreeAt(z, j)
      OBVIOUS
    <3>1. j > 1 => j - 1 \in 1..Len(z)
      BY <2>2
    <3> QED BY <2>3, <3>1 DEF FreeAt
  <2>5. \A j \in 1..Len(x) : ~FreeAt(z, j)
    BY <1>6, <2>1, FreeAppend DEF Opening
  <2>6. Len(x) + 1 \in 1..Len(z) /\ Len(x) + 1 \in 1..Len(q) /\ 1..Len(x) \subseteq 1..Len(z)
    BY <2>2, <2>3
  <2>7. Len(x) + 1 \in free
    BY <1>4, <1>6, <2>1, <2>4, <2>6
  <2>8. \A j \in free : j \notin 1..Len(x)
    BY <1>4, <2>4, <2>5, <2>6
  <2>9. Min(free) \in free /\ Min(free) <= Len(x) + 1
    BY <1>4, <2>7, MinFacts
  <2>10. Min(free) \in 1..Len(q) /\ Min(free) \notin 1..Len(x)
    BY <1>4, <2>8, <2>9
  <2>11. Min(free) = Len(x) + 1
    BY <1>2, <2>2, <2>9, <2>10
  <2>12. q[Len(x) + 1] = v
    BY <2>2, <2>3, <2>6
  <2> QED BY <1>3, <2>7, <2>11, <2>12
<1> QED BY <1>1, <1>5, <1>6

(* Without one of its units, a list is what comes before and after it.     *)
Around(q, at, x, y) ==
  /\ at = Len(x) + 1 /\ Len(q) = at + Len(y)
  /\ \A j \in 1..Len(x) : x[j] = q[j]
  /\ \A j \in 1..Len(y) : y[j] = q[at + j]
LEMMA Halves ==
  ASSUME NEW U, NEW q \in Seq(U), NEW x \in Seq(U), NEW y \in Seq(U), NEW at, Around(q, at, x, y)
  PROVE  RemoveAt(q, at) = x \o y
<1>0. /\ at = Len(x) + 1 /\ Len(q) = at + Len(y)
      /\ \A j \in 1..Len(x) : x[j] = q[j]
      /\ \A j \in 1..Len(y) : y[j] = q[at + j]
  BY DEF Around
<1>1. Len(q) \in Nat /\ at \in Nat /\ at >= 1 /\ at <= Len(q) /\ Len(x) = at - 1
  BY <1>0
<1>2. PICK b, c : b = SubSeq(q, 1, at - 1) /\ c = SubSeq(q, at + 1, Len(q))
  OBVIOUS
<1>3. b = x
  <2>1. b \in Seq(U) /\ Len(b) = at - 1 /\ \A j \in 1..(at - 1) : b[j] = q[j]
    BY <1>1, <1>2
  <2>2. Len(b) = Len(x) /\ \A j \in 1..Len(x) : b[j] = x[j]
    BY <1>0, <1>1, <2>1
  <2> QED BY <2>1, <2>2, SameSequence
<1>4. c = y
  <2>1. c \in Seq(U) /\ Len(c) = Len(q) - at /\ \A j \in 1..(Len(q) - at) : c[j] = q[at + j]
    BY <1>1, <1>2
  <2>2. Len(q) - at = Len(y)
    BY <1>0, <1>1
  <2>3. Len(c) = Len(y) /\ \A j \in 1..Len(y) : c[j] = y[j]
    BY <1>0, <2>1, <2>2
  <2> QED BY <2>1, <2>3, SameSequence
<1>5. RemoveAt(q, at) = b \o c
  BY <1>2 DEF RemoveAt
<1> QED BY <1>3, <1>4, <1>5

(* And one that is put together around a unit is what it was put around.   *)
LEMMA RemoveMiddle ==
  ASSUME NEW U, NEW x \in Seq(U), NEW y \in Seq(U), NEW v \in U,
         NEW z, z = Append(x, v), NEW q, q = z \o y
  PROVE  RemoveAt(q, Len(x) + 1) = x \o y /\ q[Len(x) + 1] = v
<1>1. PICK at : at = Len(x) + 1
  OBVIOUS
<1>2. z \in Seq(U) /\ Len(z) = at /\ z[at] = v /\ \A j \in 1..Len(x) : z[j] = x[j]
  BY <1>1
<1>3. /\ q \in Seq(U) /\ Len(x) \in Nat /\ Len(y) \in Nat /\ Len(q) = at + Len(y)
      /\ \A j \in 1..at : q[j] = z[j]
      /\ \A j \in 1..Len(y) : y[j] = q[at + j]
  BY <1>1, <1>2, ConcatPlaces
<1>4. at \in 1..Len(q) /\ at \in 1..at /\ 1..Len(x) \subseteq 1..at
  BY <1>1, <1>3
<1>5. q[at] = v /\ \A j \in 1..Len(x) : x[j] = q[j]
  BY <1>2, <1>3, <1>4
<1>6. RemoveAt(q, at) = x \o y
  <2>1. Around(q, at, x, y)
    BY <1>1, <1>3, <1>5 DEF Around
  <2>2. q \in Seq(U)
    BY <1>3
  <2>3. \A p \in Seq(U) : Around(p, at, x, y) => RemoveAt(p, at) = x \o y
    BY Halves
  <2> QED BY <2>1, <2>2, <2>3
<1> QED BY <1>1, <1>5, <1>6

(* A mode parted from its flag in a list is so in a longer one.            *)
LEMMA PartedGrows ==
  ASSUME NEW U, NEW D, NEW x \in Seq(U), NEW y \in Seq(U), Parted(x, D)
  PROVE  Parted(x \o y, D)
<1>1. PICK z : z = x \o y
  OBVIOUS
<1>2. Len(x) \in Nat /\ Len(y) \in Nat /\ Len(z) = Len(x) + Len(y)
      /\ \A i \in 1..Len(x) : z[i] = x[i]
  BY <1>1, ConcatPlaces
<1>3. PICK i \in 1..Len(x), j \in 1..Len(x) :
        /\ i + 1 < j /\ x[i][1] \in Worktree /\ x[j][1] \in WorktreeModes
        /\ \A n \in (i + 1)..(j - 1) : x[n] \in D
  BY DEF Parted
<1>4. i \in 1..Len(z) /\ j \in 1..Len(z) /\ \A n \in (i + 1)..(j - 1) : n \in 1..Len(x)
  BY <1>2
<1>5. Parted(z, D)
  BY <1>2, <1>3, <1>4 DEF Parted
<1> QED BY <1>1, <1>5

(* Whether the loop stops at a unit is the same when options of the        *)
(* launcher before it are taken out, unless they part a mode from its flag. *)
LEMMA NextFree ==
  ASSUME NEW U, NEW D, Owned(D), NEW x \in Seq(U), NEW k \in Seq(U), Ends(x, k, D),
         NEW u \in U, ~Parted(Append(x, u), D)
  PROVE  FreeAt(Append(x, u), Len(x) + 1) <=> FreeAt(Append(k, u), Len(k) + 1)
<1>1. PICK z, h : z = Append(x, u) /\ h = Append(k, u)
  OBVIOUS
<1>2. /\ Len(x) \in Nat /\ Len(z) = Len(x) + 1 /\ z[Len(x) + 1] = u
      /\ \A j \in 1..Len(x) : z[j] = x[j]
  BY <1>1
<1>3. /\ Len(k) \in Nat /\ h[Len(k) + 1] = u /\ \A j \in 1..Len(k) : h[j] = k[j]
  BY <1>1
<1> DEFINE After(q) == Len(q) > 0 /\ q[Len(q)][1] \in Worktree
<1>4. FreeAt(z, Len(x) + 1) <=> ~OptionLike(u[1]) /\ ~(u[1] \in WorktreeModes /\ After(x))
  <2>1. (Len(x) + 1) - 1 = Len(x) /\ (Len(x) + 1 > 1 <=> Len(x) > 0)
    BY <1>2
  <2>2. Len(x) > 0 => z[Len(x)] = x[Len(x)]
    BY <1>2
  <2> QED BY <1>2, <2>1, <2>2 DEF FreeAt
<1>5. FreeAt(h, Len(k) + 1) <=> ~OptionLike(u[1]) /\ ~(u[1] \in WorktreeModes /\ After(k))
  <2>1. (Len(k) + 1) - 1 = Len(k) /\ (Len(k) + 1 > 1 <=> Len(k) > 0)
    BY <1>3
  <2>2. Len(k) > 0 => h[Len(k)] = k[Len(k)]
    BY <1>3
  <2> QED BY <1>3, <2>1, <2>2 DEF FreeAt
<1>6. \A v \in D : v[1] \notin Worktree
  BY DEF Owned
<1>7. ASSUME u[1] \in WorktreeModes PROVE After(x) <=> After(k)
  <2>1. CASE k = <<>> /\ \A n \in 1..Len(x) : x[n] \in D
    <3>1. ~After(k)
      BY <2>1
    <3>2. Len(x) > 0 => x[Len(x)] \in D
      BY <1>2, <2>1
    <3> QED BY <1>6, <3>1, <3>2
  <2>2. ASSUME k # <<>>, NEW i \in 1..Len(x), x[i] = k[Len(k)],
               \A n \in (i + 1)..Len(x) : x[n] \in D
        PROVE  After(x) <=> After(k)
    <3>1. Len(k) > 0 /\ Len(x) > 0
      BY <1>2, <1>3, <2>2
    <3>2. CASE i = Len(x)
      BY <2>2, <3>1, <3>2
    <3>3. CASE i # Len(x)
      <4>1. x[Len(x)] \in D
        BY <1>2, <2>2, <3>3
      <4>2. ~After(x)
        BY <1>6, <4>1
      <4>3. ASSUME After(k) PROVE Parted(z, D)
        <5>1. x[i][1] \in Worktree
          BY <2>2, <4>3
        <5>2. PICK j : j = Len(x) + 1
          OBVIOUS
        <5>3. i \in 1..Len(z) /\ j \in 1..Len(z) /\ i + 1 < j
          BY <1>2, <3>3, <5>2
        <5>4. z[i][1] \in Worktree /\ z[j][1] \in WorktreeModes
          BY <1>2, <1>7, <5>1, <5>2
        <5>5. \A n \in (i + 1)..(j - 1) : z[n] \in D
          <6>1. \A n \in (i + 1)..(j - 1) : n \in (i + 1)..Len(x) /\ n \in 1..Len(x)
            BY <1>2, <5>2
          <6> QED BY <1>2, <2>2, <6>1
        <5> QED BY <5>3, <5>4, <5>5 DEF Parted
      <4> QED BY <1>1, <4>2, <4>3
    <3> QED BY <3>2, <3>3
  <2> HIDE DEF After
  <2> QED BY <2>1, <2>2 DEF Ends
<1> HIDE DEF After
<1> QED BY <1>1, <1>4, <1>5, <1>7

(* How what is kept of a list ends.                                        *)
LEMMA KeptEnds ==
  ASSUME NEW U, NEW D, NEW q \in Seq(U)
  PROVE  Ends(q, Kept(q, U \ D), D)
<1> DEFINE X == {r \in Seq(U) : Ends(r, Kept(r, U \ D), D)}
<1>1. <<>> \in X
  <2>1. Kept(<<>>, U \ D) = <<>> /\ <<>> \in Seq(U) /\ Len(<<>>) = 0
    BY KeptEmpty
  <2> QED BY <2>1 DEF Ends
<1>2. ASSUME NEW r \in Seq(U), NEW u \in U, r \in X PROVE Append(r, u) \in X
  <2>1. PICK k, z : k = Kept(r, U \ D) /\ z = Append(r, u)
    OBVIOUS
  <2>2. /\ z \in Seq(U) /\ Len(r) \in Nat /\ Len(z) = Len(r) + 1 /\ z[Len(r) + 1] = u
        /\ \A n \in 1..Len(r) : z[n] = r[n]
    BY <2>1
  <2>3. k \in Seq(U) /\ Ends(r, k, D)
    BY <1>2, <2>1, KeptType
  <2>4. CASE u \in D
    <3>1. Kept(z, U \ D) = k
      BY <2>1, <2>4, KeptAppend
    <3>2. \A n \in 1..Len(z) : n \in 1..Len(r) \/ n = Len(r) + 1
      BY <2>2
    <3>3. CASE k = <<>> /\ \A n \in 1..Len(r) : r[n] \in D
      <4>1. \A n \in 1..Len(z) : z[n] \in D
        BY <2>2, <2>4, <3>2, <3>3
      <4> QED BY <2>1, <2>2, <3>1, <3>3, <4>1 DEF Ends
    <3>4. ASSUME k # <<>>, NEW i \in 1..Len(r), r[i] = k[Len(k)],
                 \A n \in (i + 1)..Len(r) : r[n] \in D
          PROVE  Ends(z, k, D)
      <4>1. i \in 1..Len(z) /\ z[i] = k[Len(k)]
        BY <2>2, <3>4
      <4>2. \A n \in (i + 1)..Len(z) : (n \in (i + 1)..Len(r) /\ n \in 1..Len(r)) \/ n = Len(r) + 1
        <5>1. Len(r) \in Nat /\ Len(z) = Len(r) + 1 /\ i \in Nat /\ i >= 1
          BY <2>2
        <5> QED BY <5>1
      <4>3. \A n \in (i + 1)..Len(z) : z[n] \in D
        BY <2>2, <2>4, <3>4, <4>2
      <4> QED BY <3>4, <4>1, <4>3 DEF Ends
    <3>5. Ends(z, k, D)
      BY <2>1, <2>3, <3>1, <3>3, <3>4 DEF Ends
    <3> QED BY <2>1, <2>2, <3>1, <3>5
  <2>5. CASE u \notin D
    <3>1. PICK h : h = Append(k, u)
      OBVIOUS
    <3>2. Kept(z, U \ D) = h
      BY <2>1, <2>5, <3>1, KeptAppend
    <3>3. h # <<>> /\ h[Len(h)] = u
      BY <2>3, <3>1
    <3>4. Len(z) \in 1..Len(z) /\ z[Len(z)] = u /\ \A n \in (Len(z) + 1)..Len(z) : z[n] \in D
      BY <2>2
    <3>5. Ends(z, h, D)
      BY <3>3, <3>4 DEF Ends
    <3> QED BY <2>1, <2>2, <3>2, <3>5
  <2> QED BY <2>4, <2>5
<1>3. Seq(U) \subseteq X
  <2> HIDE DEF X
  <2> QED BY <1>1, <1>2, SeqInduction
<1> QED BY <1>3

(* A list the loop runs through is one without the launcher's options too. *)
LEMMA OpeningKept ==
  ASSUME NEW U, NEW D, Owned(D), NEW q \in Seq(U), Opening(q), ~Parted(q, D)
  PROVE  Opening(Kept(q, U \ D))
<1> DEFINE X == {r \in Seq(U) : Opening(r) /\ ~Parted(r, D) => Opening(Kept(r, U \ D))}
<1>1. <<>> \in X
  <2>1. Kept(<<>>, U \ D) = <<>> /\ <<>> \in Seq(U) /\ Len(<<>>) = 0
    BY KeptEmpty
  <2>2. Opening(<<>>)
    BY <2>1 DEF Opening
  <2> QED BY <2>1, <2>2
<1>2. ASSUME NEW r \in Seq(U), NEW u \in U, r \in X PROVE Append(r, u) \in X
  <2>1. PICK k, z : k = Kept(r, U \ D) /\ z = Append(r, u)
    OBVIOUS
  <2>2. z \in Seq(U)
    BY <2>1
  <2> SUFFICES ASSUME Opening(z), ~Parted(z, D) PROVE Opening(Kept(z, U \ D))
    BY <2>1, <2>2
  <2>3. Opening(r) /\ ~FreeAt(z, Len(r) + 1)
    BY <2>1, FreeAppend
  <2>4. ~Parted(r, D)
    <3>1. <<u>> \in Seq(U) /\ z = r \o <<u>>
      BY <2>1
    <3> QED BY <3>1, PartedGrows
  <2>5. Opening(k) /\ k \in Seq(U) /\ Ends(r, k, D)
    BY <1>2, <2>1, <2>3, <2>4, KeptType, KeptEnds
  <2>6. CASE u \in D
    <3>1. Kept(z, U \ D) = k
      BY <2>1, <2>6, KeptAppend
    <3> QED BY <2>5, <3>1
  <2>7. CASE u \notin D
    <3>1. Kept(z, U \ D) = Append(k, u)
      BY <2>1, <2>7, KeptAppend
    <3>2. ~FreeAt(Append(k, u), Len(k) + 1)
      BY <2>1, <2>3, <2>5, NextFree
    <3>3. Opening(Append(k, u))
      BY <2>5, <3>2, FreeAppend
    <3> QED BY <3>1, <3>3
  <2> QED BY <2>6, <2>7
<1>3. Seq(U) \subseteq X
  <2> HIDE DEF X
  <2> QED BY <1>1, <1>2, SeqInduction
<1> QED BY <1>3

(* Closed units, put before a well-formed list, are read as they are.      *)
LEMMA UnitsAfter ==
  ASSUME NEW T, NEW m \in Seq(Seq(T)), NEW r \in Seq(Seq(T)), AllClosed(m), WellFormed(r)
  PROVE  Units(FlattenSeq(m) \o FlattenSeq(r)) = m \o r
<1>1. WellFormed(m \o r)
  BY ClosedConcat
<1>2. m \o r \in Seq(Seq(T))
  OBVIOUS
<1>3. Units(FlattenSeq(m \o r)) = m \o r
  BY <1>1, <1>2, UnitsOfFlatten
<1> QED BY <1>3, FlattenConcat

(* The options rewrite_muse_args puts in.                                  *)
ProviderUnit == <<"--provider", "meta">>
UrlUnit(url) == <<"--base-url", url>>

(* They are closed units.                                                  *)
LEMMA RoutingUnits ==
  ASSUME NEW T, {"--provider", "meta", "--base-url"} \subseteq T, NEW url \in T
  PROVE  /\ <<ProviderUnit, UrlUnit(url)>> \in Seq(Seq(T))
         /\ AllClosed(<<ProviderUnit, UrlUnit(url)>>)
         /\ FlattenSeq(<<ProviderUnit, UrlUnit(url)>>) = <<"--provider", "meta", "--base-url", url>>
<1>1. PICK p, b : p = ProviderUnit /\ b = UrlUnit(url)
  OBVIOUS
<1>2. p \in Seq(T) /\ b \in Seq(T)
  <2>1. "--provider" \in T /\ "meta" \in T /\ "--base-url" \in T
    OBVIOUS
  <2> QED BY <1>1, <2>1 DEF ProviderUnit, UrlUnit
<1>3. /\ p # <<>> /\ Len(p) = 2 /\ p[1] = "--provider"
      /\ b # <<>> /\ Len(b) = 2 /\ b[1] = "--base-url"
  BY <1>1 DEF ProviderUnit, UrlUnit
<1>4. IsUnit(p) /\ Closed(p) /\ IsUnit(b) /\ Closed(b)
  BY <1>3 DEF IsUnit, Closed, ValueOptions
<1>5. AllClosed(<<p, b>>)
  <2>1. Len(<<p, b>>) = 2 /\ <<p, b>>[1] = p /\ <<p, b>>[2] = b /\ 1..2 = {1, 2}
    OBVIOUS
  <2> QED BY <1>4, <2>1 DEF AllClosed
<1>6. FlattenSeq(<<p, b>>) = p \o b
  <2>1. /\ <<p, b>> = Append(<<p>>, b) /\ <<p>> = Append(<<>>, p)
        /\ <<p>> \in Seq(Seq(T)) /\ <<>> \in Seq(Seq(T))
    BY <1>2
  <2>2. FlattenSeq(<<>>) = <<>> /\ FlattenSeq(<<p>>) = <<>> \o p
    BY <1>2, <2>1, FlattenAppend
  <2>3. FlattenSeq(<<p, b>>) = FlattenSeq(<<p>>) \o b
    BY <1>2, <2>1, FlattenAppend
  <2>4. <<>> \o p = p
    BY <1>2
  <2> QED BY <2>2, <2>3, <2>4
<1>7. p \o b = <<"--provider", "meta", "--base-url", url>>
  <2>1. PICK q : q = p \o b
    OBVIOUS
  <2>2. /\ q \in Seq(T) /\ Len(q) = Len(p) + Len(b)
        /\ \A i \in 1..Len(p) : q[i] = p[i]
        /\ \A i \in 1..Len(b) : q[Len(p) + i] = b[i]
    BY <1>2, <2>1
  <2>3. Len(q) = 4 /\ q[1] = p[1] /\ q[2] = p[2]
    BY <1>3, <2>2
  <2>4. q[2 + 1] = b[1] /\ q[2 + 2] = b[2]
    BY <1>3, <2>2
  <2>5. q[1] = "--provider" /\ q[2] = "meta" /\ q[3] = "--base-url" /\ q[4] = url
    BY <1>1, <2>3, <2>4 DEF ProviderUnit, UrlUnit
  <2>6. PICK r : r = <<"--provider", "meta", "--base-url", url>>
    OBVIOUS
  <2>7. /\ r \in Seq({"--provider", "meta", "--base-url", url}) /\ Len(r) = 4
        /\ r[1] = "--provider" /\ r[2] = "meta" /\ r[3] = "--base-url" /\ r[4] = url
    BY <2>6
  <2>8. \A i \in 1..4 : q[i] = r[i]
    BY <2>5, <2>7
  <2>9. q = r
    BY <2>2, <2>3, <2>7, <2>8
  <2> QED BY <2>1, <2>6, <2>9
<1>8. <<p, b>> \in Seq(Seq(T))
  BY <1>2
<1> QED BY <1>1, <1>5, <1>6, <1>7, <1>8

(* Units that are not in the set, put before others, change nothing.       *)
LEMMA KeptAfter ==
  ASSUME NEW U, NEW R, NEW m \in Seq(U), NEW r \in Seq(U), ToSet(m) \cap R = {}
  PROVE  Kept(m \o r, R) = Kept(r, R)
<1>1. PICK e : e = Kept(m, R)
  OBVIOUS
<1>2. e \in Seq(U)
  BY <1>1, KeptType
<1>3. ToSet(e) = {}
  BY <1>1, KeptHolds
<1>4. e = <<>>
  <2>1. Len(e) \in Nat /\ DOMAIN e = 1..Len(e)
    BY <1>2
  <2>2. 1 \notin DOMAIN e
    BY <1>3 DEF ToSet
  <2>3. Len(e) = 0
    BY <2>1, <2>2
  <2> QED BY <1>2, <2>3
<1>5. Kept(m \o r, R) = e \o Kept(r, R)
  BY <1>1, KeptConcat
<1>6. PICK f : f = Kept(r, R)
  OBVIOUS
<1>7. f \in Seq(U)
  BY <1>6, KeptType
<1>8. <<>> \o f = f
  BY <1>7
<1> QED BY <1>4, <1>5, <1>6, <1>8

(* Nor does a unit that is not in the set and is taken out.                *)
LEMMA KeptAround ==
  ASSUME NEW U, NEW R, NEW x \in Seq(U), NEW y \in Seq(U), NEW u \in U, u \notin R
  PROVE  Kept((x \o <<u>>) \o y, R) = Kept(x \o y, R)
<1>1. PICK z : z = x \o <<u>>
  OBVIOUS
<1>2. z \in Seq(U) /\ z = Append(x, u)
  BY <1>1
<1>3. Kept(z, R) = Kept(x, R)
  BY <1>2, KeptAppend
<1>4. Kept(z \o y, R) = Kept(z, R) \o Kept(y, R)
  BY <1>2, KeptConcat
<1>5. Kept(x \o y, R) = Kept(x, R) \o Kept(y, R)
  BY KeptConcat
<1> QED BY <1>1, <1>3, <1>4, <1>5

(* The units beside the subcommand.                                        *)
Beside(w) ==
  IF StockSubcommand(w) = 0 THEN Units(w) ELSE RemoveAt(Units(w), StockSubcommand(w))

(* Taking out options that part no mode from its flag leaves the           *)
(* subcommand, and of what is beside it everything but those options.      *)
LEMMA SubcommandKept ==
  ASSUME NEW U, NEW D, Owned(D), NEW a, Units(a) \in Seq(U), ~Parted(Units(a), D),
         NEW b, Units(b) = Kept(Units(a), U \ D)
  PROVE  SubcommandOf(b) = SubcommandOf(a) /\ Beside(b) = Kept(Beside(a), U \ D)
<1>1. PICK q, k : q = Units(a) /\ k = Units(b)
  OBVIOUS
<1>2. q \in Seq(U) /\ ~Parted(q, D) /\ k = Kept(q, U \ D) /\ k \in Seq(U)
  BY <1>1, KeptType
<1>3. CASE Opening(q)
  <2>1. StockSubcommand(a) = 0
    BY <1>1, <1>3, FirstFree
  <2>2. Opening(k)
    BY <1>2, <1>3, OpeningKept
  <2>3. StockSubcommand(b) = 0
    BY <1>1, <1>2, <2>2, FirstFree
  <2> QED BY <1>1, <1>2, <2>1, <2>3 DEF SubcommandOf, Beside
<1>4. CASE ~Opening(q)
  <2>1. PICK x \in Seq(U), y \in Seq(U), v \in U :
          q = (x \o <<v>>) \o y /\ Opening(x) /\ FreeAt(Append(x, v), Len(x) + 1)
    BY <1>2, <1>4, FirstExists
  <2>2. PICK z : z = Append(x, v)
    OBVIOUS
  <2>3. z \in Seq(U) /\ z = x \o <<v>> /\ q = z \o y
    BY <2>1, <2>2
  <2>4. ~Parted(z, D)
    BY <1>2, <2>3, PartedGrows
  <2>5. ~Parted(x, D)
    <3>1. <<v>> \in Seq(U)
      OBVIOUS
    <3> QED BY <2>3, <2>4, <3>1, PartedGrows
  <2>6. PICK g, h : g = Kept(x, U \ D) /\ h = Kept(y, U \ D)
    OBVIOUS
  <2>7. g \in Seq(U) /\ h \in Seq(U) /\ Opening(g) /\ Ends(x, g, D)
    BY <2>1, <2>5, <2>6, KeptType, OpeningKept, KeptEnds
  <2>8. v \notin D
    <3>1. Append(x, v)[Len(x) + 1] = v
      OBVIOUS
    <3> QED BY <2>1, <3>1 DEF FreeAt, Owned
  <2>9. Kept(z, U \ D) = Append(g, v)
    BY <2>2, <2>6, <2>8, KeptAppend
  <2>10. k = (g \o <<v>>) \o h
    <3>1. Kept(z \o y, U \ D) = Kept(z, U \ D) \o Kept(y, U \ D)
      BY <2>3, KeptConcat
    <3>2. Append(g, v) = g \o <<v>>
      BY <2>7
    <3> QED BY <1>2, <2>3, <2>6, <2>9, <3>1, <3>2
  <2>11. FreeAt(Append(g, v), Len(g) + 1)
    BY <2>1, <2>2, <2>4, <2>7, NextFree
  <2>12. StockSubcommand(a) = IF v[1] \in StockSubcommands THEN Len(x) + 1 ELSE 0
    BY <1>1, <1>2, <2>1, FirstFree
  <2>13. StockSubcommand(b) = IF v[1] \in StockSubcommands THEN Len(g) + 1 ELSE 0
    BY <1>1, <1>2, <2>7, <2>10, <2>11, FirstFree
  <2>14. /\ RemoveAt(q, Len(x) + 1) = x \o y /\ q[Len(x) + 1] = v
         /\ RemoveAt(k, Len(g) + 1) = g \o h /\ k[Len(g) + 1] = v
    <3>0. x \in Seq(U) /\ y \in Seq(U) /\ v \in U /\ q = z \o y
      BY <2>3
    <3>1. RemoveAt(q, Len(x) + 1) = x \o y
      BY <2>2, <3>0, RemoveMiddle
    <3>2. q[Len(x) + 1] = v
      BY <2>2, <3>0, RemoveMiddle
    <3>3. PICK e : e = Append(g, v)
      OBVIOUS
    <3>4. k = e \o h /\ g \in Seq(U) /\ h \in Seq(U)
      <4>1. e = g \o <<v>>
        BY <2>7, <3>3
      <4> QED BY <2>7, <2>10, <4>1
    <3>5. RemoveAt(k, Len(g) + 1) = g \o h
      BY <3>3, <3>4, RemoveMiddle
    <3>6. k[Len(g) + 1] = v
      BY <3>3, <3>4, RemoveMiddle
    <3> QED BY <3>1, <3>2, <3>5, <3>6
  <2>15. Len(x) + 1 # 0 /\ Len(g) + 1 # 0
    BY <2>7
  <2>16. Kept(x \o y, U \ D) = g \o h
    BY <2>6, KeptConcat
  <2> QED BY <1>1, <1>2, <2>12, <2>13, <2>14, <2>15, <2>16 DEF SubcommandOf, Beside
<1> QED BY <1>3, <1>4

(* What becomes of the arguments: their units and the routing, those that  *)
(* are Muse's in order, the subcommand first, and the address wherever     *)
(* Muse takes it from its arguments.                                       *)
Rewritten(new, w, url, T) ==
  /\ Units(new) \in Seq(Seq(T))
  /\ ToSet(Units(new)) \subseteq ToSet(Units(w)) \cup {ProviderUnit, UrlUnit(url)}
  /\ Kept(Units(new), {u \in Seq(T) : Spared(u)}) = Kept(Units(w), {u \in Seq(T) : Spared(u)})
  /\ MuseCommand(new) = SubcommandOf(w) /\ MuseRest(new) = Beside(w)
  /\ SubcommandOf(w) \in {"none", "exec", "resume"} => UrlUnit(url) \in ToSet(Units(new))

(* Neither the routing nor a subcommand is one of Muse's units.            *)
LEMMA OwnUnits ==
  ASSUME NEW url, ~OptionLike(url)
  PROVE  /\ Removable(ProviderUnit) /\ Removable(UrlUnit(url))
         /\ ~Spared(ProviderUnit) /\ ~Spared(UrlUnit(url))
         /\ \A s \in StockSubcommands : ~Spared(<<s>>)
<1>1. /\ ProviderUnit[1] = "--provider" /\ ProviderUnit[2] = "meta" /\ Len(ProviderUnit) = 2
      /\ UrlUnit(url)[1] = "--base-url" /\ UrlUnit(url)[2] = url /\ Len(UrlUnit(url)) = 2
  BY DEF ProviderUnit, UrlUnit
<1>2. ~OptionLike("meta")
  BY OptionsAssumption, InlineForms DEF OptionLike, ValueOptions, InformationFlags, Worktree
<1>3. Removable(ProviderUnit) /\ Removable(UrlUnit(url))
  BY <1>1, <1>2 DEF Removable
<1>4. \A s : <<s>>[1] = s
  OBVIOUS
<1> QED BY <1>3, <1>4 DEF Spared

(* Of the routing and units after it that are not routing, these are left. *)
LEMMA RestAfter ==
  ASSUME NEW U, NEW m \in Seq(U), NEW r \in Seq(U), \A u \in ToSet(m) : Removable(u),
         \A u \in ToSet(r) : ~Removable(u)
  PROVE  Kept(m \o r, {u \in ToSet(m \o r) : ~Removable(u)}) = r
<1>1. PICK R : R = {u \in ToSet(m \o r) : ~Removable(u)}
  OBVIOUS
<1>2. ToSet(m \o r) = ToSet(m) \cup ToSet(r)
  BY ToSetFacts
<1>3. ToSet(m) \cap R = {} /\ ToSet(r) \subseteq R
  BY <1>1, <1>2
<1> QED BY <1>1, <1>3, KeptAfter, KeptAll

(* What follows the first unit.                                            *)
LEMMA TailAfter ==
  ASSUME NEW U, NEW u \in U, NEW r \in Seq(U)
  PROVE  Tail(<<u>> \o r) = r /\ (<<u>> \o r)[1] = u
OBVIOUS

(* Nor is anything else left of what follows a subcommand.                 *)
Unrouted(t) == Kept(t, {v \in ToSet(t) : ~Removable(v)})
LEMMA RestBehind ==
  ASSUME NEW U, NEW h \in Seq(U), Len(h) = 1, NEW q \in Seq(U), \A v \in ToSet(q) : Removable(v),
         NEW r \in Seq(U), \A v \in ToSet(r) : ~Removable(v)
  PROVE  Unrouted(Tail((h \o q) \o r)) = r
<1>1. PICK y : y = q \o r
  OBVIOUS
<1>2. y \in Seq(U) /\ h = <<h[1]>> /\ h[1] \in U
  <2>1. y \in Seq(U)
    BY <1>1
  <2> QED BY <2>1, OneElement
<1>3. (h \o q) \o r = h \o y
  BY <1>1, ConcatAssociates
<1>4. Tail(h \o y) = y
  BY <1>2, TailAfter
<1>5. Kept(q \o r, {v \in ToSet(q \o r) : ~Removable(v)}) = r
  BY RestAfter
<1> QED BY <1>1, <1>3, <1>4, <1>5 DEF Unrouted

(* Without a subcommand the routing comes before everything.               *)
LEMMA RewrittenBare ==
  ASSUME NEW T, {"--provider", "meta", "--base-url"} \subseteq T, NEW url \in T,
         NEW w \in Seq(T), w = FlattenSeq(Units(w)), StockSubcommand(w) = 0,
         ~OptionLike(url), \A u \in ToSet(Units(w)) : ~Removable(u),
         NEW new, new = <<"--provider", "meta", "--base-url", url>> \o w
  PROVE  Rewritten(new, w, url, T)
<1>1. PICK k, m : k = Units(w) /\ m = <<ProviderUnit, UrlUnit(url)>>
  OBVIOUS
<1>2. k \in Seq(Seq(T)) /\ WellFormed(k) /\ w = FlattenSeq(k)
  BY <1>1, UnitsWellFormed
<1>3. /\ m \in Seq(Seq(T)) /\ AllClosed(m)
      /\ FlattenSeq(m) = <<"--provider", "meta", "--base-url", url>>
  BY <1>1, RoutingUnits
<1>4. Units(FlattenSeq(m) \o FlattenSeq(k)) = m \o k
  BY <1>2, <1>3, UnitsAfter
<1>5. Units(new) = m \o k
  BY <1>2, <1>3, <1>4
<1>6. m \o k \in Seq(Seq(T))
  BY <1>2, <1>3
<1>7. ToSet(m \o k) = ToSet(m) \cup ToSet(k)
  BY <1>2, <1>3, ToSetFacts
<1>8. ToSet(m) = {ProviderUnit, UrlUnit(url)}
  <2>1. DOMAIN m = {1, 2} /\ m[1] = ProviderUnit /\ m[2] = UrlUnit(url)
    BY <1>1
  <2> QED BY <2>1 DEF ToSet
<1>9. Kept(m \o k, {u \in Seq(T) : Spared(u)}) = Kept(k, {u \in Seq(T) : Spared(u)})
  <2>1. PICK R : R = {u \in Seq(T) : Spared(u)}
    OBVIOUS
  <2>2. ToSet(m) \cap R = {}
    BY <1>8, <2>1, OwnUnits
  <2> QED BY <1>2, <1>3, <2>1, <2>2, KeptAfter
<1>10. MuseCommand(new) = "none"
  <2>1. new[1] = "--provider"
    OBVIOUS
  <2> QED BY <2>1 DEF MuseCommand, StockSubcommands, LocalCommands, AuthCommands
<1>11. MuseRest(new) = k
  <2>1. Kept(m \o k, {u \in ToSet(m \o k) : ~Removable(u)}) = k
    <3>1. PICK U : U = Seq(T)
      OBVIOUS
    <3>2. m \in Seq(U) /\ k \in Seq(U)
      BY <1>2, <1>3, <3>1
    <3>3. (\A u \in ToSet(m) : Removable(u)) /\ (\A u \in ToSet(k) : ~Removable(u))
      BY <1>1, <1>8, OwnUnits
    <3> QED BY <3>2, <3>3, RestAfter
  <2> QED BY <1>5, <1>10, <2>1 DEF MuseRest
<1>12. SubcommandOf(w) = "none" /\ Beside(w) = k
  BY <1>1 DEF SubcommandOf, Beside
<1> QED BY <1>1, <1>5, <1>6, <1>7, <1>8, <1>9, <1>10, <1>11, <1>12 DEF Rewritten

(* The units of two lists.                                                 *)
LEMMA ToSetConcat ==
  ASSUME NEW U, NEW a \in Seq(U), NEW b \in Seq(U)
  PROVE  ToSet(a \o b) = ToSet(a) \cup ToSet(b)
BY ToSetFacts

(* The unit of a list of one.                                              *)
LEMMA ToSetOne ==
  ASSUME NEW u, NEW m, m = <<u>>
  PROVE  ToSet(m) = {u}
<1>1. DOMAIN m = {1} /\ m[1] = u
  OBVIOUS
<1>2. ToSet(m) = {m[i] : i \in DOMAIN m}
  BY DEF ToSet
<1> QED BY <1>1, <1>2

(* What moves with the subcommand: nothing but the subcommand.             *)
Moves(w, s, r, T) ==
  /\ WellFormed(r) /\ SubcommandFirst(w) = <<s>> \o FlattenSeq(r)
  /\ s \in T /\ s \in StockSubcommands /\ ~OptionLike(s)
  /\ <<<<s>>>> \in Seq(Seq(T)) /\ AllClosed(<<<<s>>>>) /\ FlattenSeq(<<<<s>>>>) = <<s>>
  /\ ToSet(r) \cup {<<s>>} = ToSet(Units(w))
  /\ \A R : <<s>> \notin R => Kept(r, R) = Kept(Units(w), R)
  /\ r = Beside(w)

(* With one, the arguments begin with it, the others in their order.       *)
LEMMA SubcommandMoves ==
  ASSUME NEW T, NEW w \in Seq(T), NEW s, s = SubcommandOf(w), StockSubcommand(w) # 0
  PROVE  \E r \in Seq(Seq(T)) : Moves(w, s, r, T)
<1>1. PICK k, i : k = Units(w) /\ i = StockSubcommand(w)
  OBVIOUS
<1>2. k \in Seq(Seq(T)) /\ WellFormed(k)
  BY <1>1, UnitsWellFormed
<1>3. /\ i \in 1..Len(k) /\ k[i] = <<s>>
      /\ s \in T /\ s \in StockSubcommands /\ ~OptionLike(s)
  BY <1>1, SubcommandUnit
<1>4. PICK x \in Seq(Seq(T)), y \in Seq(Seq(T)) :
        /\ RemoveAt(k, i) = x \o y /\ k = (x \o <<k[i]>>) \o y
        /\ WellFormed(k) => AllClosed(x) /\ WellFormed(y)
  <2>1. PICK U : U = Seq(T)
    OBVIOUS
  <2>2. k \in Seq(U) /\ i \in 1..Len(k)
    BY <1>2, <1>3, <2>1
  <2>3. PICK x \in Seq(U), y \in Seq(U) : Split(k, i, x, y)
    BY <2>2, SplitAt
  <2> QED BY <2>1, <2>3 DEF Split
<1>5. PICK r : r = x \o y
  OBVIOUS
<1>6. r \in Seq(Seq(T)) /\ WellFormed(r)
  <2>1. WellFormed(x \o y)
    BY <1>2, <1>4, ClosedConcat
  <2> QED BY <1>4, <1>5, <2>1
<1>7. PICK u : u = <<s>>
  OBVIOUS
<1>8. u \in Seq(T) /\ u # <<>> /\ Len(u) = 1 /\ u[1] = s
  BY <1>3, <1>7
<1>9. <<u>> \in Seq(Seq(T)) /\ Len(<<u>>) = 1 /\ <<u>>[1] = u /\ <<u>> = Append(<<>>, u)
  BY <1>8
<1>10. AllClosed(<<u>>)
  <2>1. s \notin ValueOptions /\ s # "--"
    BY <1>3 DEF OptionLike
  <2>2. IsUnit(u) /\ Closed(u)
    BY <1>8, <2>1 DEF IsUnit, Closed
  <2> QED BY <1>9, <2>2 DEF AllClosed
<1>11. FlattenSeq(<<u>>) = u
  <2>1. FlattenSeq(<<>>) = <<>> /\ <<>> \in Seq(Seq(T))
    BY FlattenAppend
  <2>2. FlattenSeq(Append(<<>>, u)) = FlattenSeq(<<>>) \o u
    BY <1>8, <2>1, FlattenAppend
  <2>3. <<>> \o u = u
    BY <1>8
  <2> QED BY <1>9, <2>1, <2>2, <2>3
<1>12. SubcommandFirst(w) = FlattenSeq(<<u>> \o r)
  BY <1>1, <1>3, <1>4, <1>5, <1>7 DEF SubcommandFirst
<1>13. FlattenSeq(<<u>> \o r) = u \o FlattenSeq(r)
  BY <1>6, <1>9, <1>11, FlattenConcat
<1>14. k = (x \o <<u>>) \o y
  BY <1>3, <1>4, <1>7
<1>15. ToSet(r) \cup {u} = ToSet(k)
  <2>1. ToSet(r) = ToSet(x) \cup ToSet(y)
    BY <1>4, <1>5, ToSetFacts
  <2>2. PICK z : z = x \o <<u>>
    OBVIOUS
  <2>3. z \in Seq(Seq(T)) /\ z = Append(x, u)
    BY <1>4, <1>8, <2>2
  <2>4. ToSet(Append(x, u)) = ToSet(x) \cup {u}
    BY <1>4, <1>8, ToSetFacts
  <2>5. ToSet(z \o y) = ToSet(z) \cup ToSet(y)
    <3>1. PICK U : U = Seq(T)
      OBVIOUS
    <3>2. z \in Seq(U) /\ y \in Seq(U)
      BY <1>4, <2>3, <3>1
    <3> QED BY <3>2, ToSetConcat
  <2> QED BY <1>14, <2>1, <2>2, <2>3, <2>4, <2>5
<1>16. ASSUME NEW R, u \notin R PROVE Kept(r, R) = Kept(k, R)
  BY <1>4, <1>5, <1>8, <1>14, <1>16, KeptAround
<1>17. r = Beside(w)
  BY <1>1, <1>4, <1>5 DEF Beside
<1>18. Moves(w, s, r, T)
  BY <1>1, <1>3, <1>6, <1>7, <1>9, <1>10, <1>11, <1>12, <1>13, <1>15, <1>16, <1>17 DEF Moves
<1> QED BY <1>6, <1>18

(* Any other subcommand than exec and resume is all that moves.            *)
LEMMA RewrittenServe ==
  ASSUME NEW T, NEW url \in T, NEW w \in Seq(T), StockSubcommand(w) # 0,
         ~OptionLike(url), \A u \in ToSet(Units(w)) : ~Removable(u),
         SubcommandOf(w) \notin {"exec", "resume"}, NEW new, new = SubcommandFirst(w)
  PROVE  Rewritten(new, w, url, T)
<1>1. PICK s : s = SubcommandOf(w)
  OBVIOUS
<1>2. PICK r \in Seq(Seq(T)) :
        /\ WellFormed(r) /\ SubcommandFirst(w) = <<s>> \o FlattenSeq(r)
        /\ s \in T /\ s \in StockSubcommands /\ ~OptionLike(s)
        /\ <<<<s>>>> \in Seq(Seq(T)) /\ AllClosed(<<<<s>>>>) /\ FlattenSeq(<<<<s>>>>) = <<s>>
        /\ ToSet(r) \cup {<<s>>} = ToSet(Units(w))
        /\ \A R : <<s>> \notin R => Kept(r, R) = Kept(Units(w), R)
        /\ r = Beside(w)
  <2>1. PICK r \in Seq(Seq(T)) : Moves(w, s, r, T)
    BY <1>1, SubcommandMoves
  <2> QED BY <2>1 DEF Moves
<1>3. PICK m : m = <<<<s>>>>
  OBVIOUS
<1>4. Units(new) = m \o r
  BY <1>2, <1>3, UnitsAfter
<1>5. m \o r \in Seq(Seq(T)) /\ ToSet(m \o r) = ToSet(m) \cup ToSet(r)
  <2>1. m \in Seq(Seq(T))
    BY <1>2, <1>3
  <2> QED BY <1>2, <2>1, ToSetConcat
<1>6. ToSet(m) = {<<s>>}
  BY <1>3, ToSetOne
<1>7. PICK R : R = {u \in Seq(T) : Spared(u)}
  OBVIOUS
<1>8. <<s>> \notin R
  BY <1>2, <1>7, OwnUnits
<1>9. Kept(m \o r, R) = Kept(r, R)
  <2>1. ToSet(m) \cap R = {}
    BY <1>6, <1>8
  <2>2. m \in Seq(Seq(T))
    BY <1>2, <1>3
  <2> QED BY <1>2, <2>1, <2>2, KeptAfter
<1>10. Kept(r, R) = Kept(Units(w), R)
  BY <1>2, <1>8
<1>11. MuseCommand(new) = s
  <2>1. FlattenSeq(r) \in Seq(T)
    BY <1>2, FlattenType
  <2>2. new # <<>> /\ new[1] = s
    BY <1>2, <2>1
  <2> QED BY <1>2, <2>2 DEF MuseCommand
<1>12. s # "none"
  BY <1>2 DEF StockSubcommands, LocalCommands, AuthCommands
<1>13. MuseRest(new) = r
  <2>1. PICK U, u : U = Seq(T) /\ u = <<s>>
    OBVIOUS
  <2>2. u \in U /\ m = <<u>> /\ r \in Seq(U) /\ <<>> \in Seq(U)
    BY <1>2, <1>3, <2>1
  <2>3. Tail(m \o r) = r
    BY <2>2, TailAfter
  <2>4. Kept(<<>> \o r, {v \in ToSet(<<>> \o r) : ~Removable(v)}) = r
    <3>1. (\A v \in ToSet(<<>>) : Removable(v)) /\ (\A v \in ToSet(r) : ~Removable(v))
      BY <1>2, ToSetFacts
    <3> QED BY <2>2, <3>1, RestAfter
  <2>5. <<>> \o r = r
    BY <2>2
  <2> QED BY <1>4, <1>11, <1>12, <2>3, <2>4, <2>5 DEF MuseRest
<1> QED BY <1>1, <1>2, <1>4, <1>5, <1>6, <1>7, <1>9, <1>10, <1>11, <1>12, <1>13 DEF Rewritten

(* After exec and resume comes the routing.                                *)
LEMMA RewrittenExec ==
  ASSUME NEW T, {"--provider", "meta", "--base-url"} \subseteq T, NEW url \in T,
         NEW w \in Seq(T), StockSubcommand(w) # 0,
         ~OptionLike(url), \A u \in ToSet(Units(w)) : ~Removable(u),
         NEW new, new = (<<SubcommandFirst(w)[1]>> \o <<"--provider", "meta", "--base-url", url>>)
                        \o Tail(SubcommandFirst(w))
  PROVE  Rewritten(new, w, url, T)
<1>1. PICK s : s = SubcommandOf(w)
  OBVIOUS
<1>2. PICK r \in Seq(Seq(T)) :
        /\ WellFormed(r) /\ SubcommandFirst(w) = <<s>> \o FlattenSeq(r)
        /\ s \in T /\ s \in StockSubcommands /\ ~OptionLike(s)
        /\ <<<<s>>>> \in Seq(Seq(T)) /\ AllClosed(<<<<s>>>>) /\ FlattenSeq(<<<<s>>>>) = <<s>>
        /\ ToSet(r) \cup {<<s>>} = ToSet(Units(w))
        /\ \A R : <<s>> \notin R => Kept(r, R) = Kept(Units(w), R)
        /\ r = Beside(w)
  <2>1. PICK r \in Seq(Seq(T)) : Moves(w, s, r, T)
    BY <1>1, SubcommandMoves
  <2> QED BY <2>1 DEF Moves
<1>3. PICK h, q : h = <<<<s>>>> /\ q = <<ProviderUnit, UrlUnit(url)>>
  OBVIOUS
<1>4. /\ q \in Seq(Seq(T)) /\ AllClosed(q)
      /\ FlattenSeq(q) = <<"--provider", "meta", "--base-url", url>>
  BY <1>3, RoutingUnits
<1>5. PICK m : m = h \o q
  OBVIOUS
<1>6. m \in Seq(Seq(T)) /\ AllClosed(m)
  <2>1. h \in Seq(Seq(T)) /\ AllClosed(h)
    BY <1>2, <1>3
  <2>2. AllClosed(h \o q)
    BY <1>4, <2>1, ClosedConcat
  <2> QED BY <1>4, <1>5, <2>1, <2>2
<1>7. FlattenSeq(m) = <<s>> \o <<"--provider", "meta", "--base-url", url>>
  <2>1. FlattenSeq(h \o q) = FlattenSeq(h) \o FlattenSeq(q)
    BY <1>2, <1>3, <1>4, FlattenConcat
  <2> QED BY <1>2, <1>3, <1>4, <1>5, <2>1
<1>8. SubcommandFirst(w)[1] = s /\ Tail(SubcommandFirst(w)) = FlattenSeq(r)
  <2>1. PICK f : f = FlattenSeq(r)
    OBVIOUS
  <2>2. f \in Seq(T)
    BY <1>2, <2>1, FlattenType
  <2>3. PICK z : z = <<s>> \o f
    OBVIOUS
  <2>4. z[1] = s /\ Tail(z) = f
    BY <1>2, <2>2, <2>3, TailAfter
  <2> QED BY <1>2, <2>1, <2>3, <2>4
<1>9. new = FlattenSeq(m) \o FlattenSeq(r)
  BY <1>7, <1>8
<1>10. Units(new) = m \o r
  BY <1>2, <1>6, <1>9, UnitsAfter
<1>11. m \o r \in Seq(Seq(T)) /\ ToSet(m \o r) = ToSet(m) \cup ToSet(r)
  BY <1>2, <1>6, ToSetFacts
<1>12. ToSet(m) = {<<s>>, ProviderUnit, UrlUnit(url)}
  <2>1. DOMAIN q = {1, 2} /\ q[1] = ProviderUnit /\ q[2] = UrlUnit(url)
    BY <1>3
  <2>2. ToSet(q) = {ProviderUnit, UrlUnit(url)}
    BY <2>1 DEF ToSet
  <2>3. ToSet(h) = {<<s>>}
    BY <1>3, ToSetOne
  <2>4. h \in Seq(Seq(T))
    BY <1>2, <1>3
  <2>5. ToSet(h \o q) = ToSet(h) \cup ToSet(q)
    BY <1>4, <2>4, ToSetConcat
  <2> QED BY <1>5, <2>2, <2>3, <2>5
<1>13. PICK R : R = {u \in Seq(T) : Spared(u)}
  OBVIOUS
<1>14. <<s>> \notin R /\ ToSet(m) \cap R = {}
  BY <1>2, <1>12, <1>13, OwnUnits
<1>15. Kept(m \o r, R) = Kept(r, R)
  BY <1>2, <1>6, <1>14, KeptAfter
<1>16. Kept(r, R) = Kept(Units(w), R)
  BY <1>2, <1>14
<1>17. MuseCommand(new) = s
  <2>1. PICK t : t = <<"--provider", "meta", "--base-url", url>>
    OBVIOUS
  <2>2. t \in Seq(T)
    BY <2>1
  <2>3. PICK f : f = FlattenSeq(r) /\ f \in Seq(T)
    BY <1>2, FlattenType
  <2>4. new = (<<s>> \o t) \o f
    BY <1>8, <2>1, <2>3
  <2>5. new # <<>> /\ new[1] = s
    BY <1>2, <2>2, <2>3, <2>4
  <2> QED BY <1>2, <2>5 DEF MuseCommand
<1>18. MuseRest(new) = r
  <2>1. PICK U : U = Seq(T)
    OBVIOUS
  <2>2. h \in Seq(U) /\ Len(h) = 1 /\ q \in Seq(U) /\ r \in Seq(U)
    BY <1>2, <1>3, <1>4, <2>1
  <2>3. DOMAIN q = {1, 2} /\ q[1] = ProviderUnit /\ q[2] = UrlUnit(url)
    BY <1>3
  <2>4. ToSet(q) = {ProviderUnit, UrlUnit(url)}
    BY <2>3 DEF ToSet
  <2>5. (\A v \in ToSet(q) : Removable(v)) /\ (\A v \in ToSet(r) : ~Removable(v))
    BY <1>2, <2>4, OwnUnits
  <2>6. Unrouted(Tail((h \o q) \o r)) = r
    BY <2>2, <2>5, RestBehind
  <2>7. MuseCommand(new) # "none"
    BY <1>2, <1>17 DEF StockSubcommands, LocalCommands, AuthCommands
  <2> QED BY <1>5, <1>10, <2>6, <2>7 DEF MuseRest, Unrouted
<1> QED BY <1>1, <1>2, <1>10, <1>11, <1>12, <1>13, <1>15, <1>16, <1>17, <1>18 DEF Rewritten

(* Muse's first argument is the subcommand once it has been moved.         *)
LEMMA SubcommandLeads ==
  ASSUME NEW T, NEW w \in Seq(T), StockSubcommand(w) # 0
  PROVE  /\ SubcommandOf(SubcommandFirst(w)) = SubcommandOf(w)
         /\ SubcommandFirst(w)[1] = SubcommandOf(w)
         /\ SubcommandOf(w) # "none"
<1>1. PICK s, new : s = SubcommandOf(w) /\ new = SubcommandFirst(w)
  OBVIOUS
<1>2. PICK r \in Seq(Seq(T)) :
        /\ WellFormed(r) /\ SubcommandFirst(w) = <<s>> \o FlattenSeq(r)
        /\ s \in T /\ s \in StockSubcommands /\ ~OptionLike(s)
        /\ <<<<s>>>> \in Seq(Seq(T)) /\ AllClosed(<<<<s>>>>) /\ FlattenSeq(<<<<s>>>>) = <<s>>
  <2>1. PICK r \in Seq(Seq(T)) : Moves(w, s, r, T)
    BY <1>1, SubcommandMoves
  <2> QED BY <2>1 DEF Moves
<1>3. PICK m, f : m = <<<<s>>>> /\ f = FlattenSeq(r)
  OBVIOUS
<1>4. f \in Seq(T)
  BY <1>2, <1>3, FlattenType
<1>5. new = <<s>> \o f
  BY <1>1, <1>2, <1>3
<1>6. new \in Seq(T) /\ new[1] = s
  BY <1>2, <1>4, <1>5
<1>7. Units(new) = m \o r
  BY <1>1, <1>2, <1>3, UnitsAfter
<1>8. Units(new) # <<>> /\ Units(new)[1] = <<s>>
  <2>1. PICK u : u = <<s>>
    OBVIOUS
  <2>2. u \in Seq(T) /\ m = <<u>>
    BY <1>2, <1>3, <2>1
  <2>3. m \o r # <<>> /\ (m \o r)[1] = u
    BY <1>2, <2>2
  <2> QED BY <1>7, <2>1, <2>3
<1>9. SubcommandOf(new) = s
  BY <1>2, <1>6, <1>8, SubcommandStands
<1>10. s # "none"
  BY <1>2 DEF StockSubcommands, LocalCommands, AuthCommands
<1> QED BY <1>1, <1>6, <1>9, <1>10

(* What rewrite_muse_args gives.                                           *)
LEMMA RewriteForms ==
  ASSUME NEW T, {"--provider", "meta", "--base-url"} \subseteq T, NEW url \in T, NEW b,
         NEW w \in Seq(T), w = WithoutRouting(b), w = FlattenSeq(Units(w)),
         ~OptionLike(url), \A u \in ToSet(Units(w)) : ~Removable(u)
  PROVE  Rewritten(RewriteMuseArgs(b, url), w, url, T)
<1>1. PICK new, f : new = RewriteMuseArgs(b, url) /\ f = SubcommandFirst(w)
  OBVIOUS
<1>2. new = IF SubcommandOf(f) = "none" THEN <<"--provider", "meta", "--base-url", url>> \o f
            ELSE IF f[1] \in {"exec", "resume"}
            THEN (<<f[1]>> \o <<"--provider", "meta", "--base-url", url>>) \o Tail(f)
            ELSE f
  BY <1>1 DEF RewriteMuseArgs
<1>3. CASE StockSubcommand(w) = 0
  <2>1. f = w /\ SubcommandOf(w) = "none"
    BY <1>1, <1>3 DEF SubcommandFirst, SubcommandOf
  <2>2. new = <<"--provider", "meta", "--base-url", url>> \o w
    BY <1>2, <2>1
  <2> QED BY <1>1, <1>3, <2>2, RewrittenBare
<1>4. CASE StockSubcommand(w) # 0
  <2>1. SubcommandOf(f) = SubcommandOf(w) /\ f[1] = SubcommandOf(w) /\ SubcommandOf(w) # "none"
    BY <1>1, <1>4, SubcommandLeads
  <2>2. CASE SubcommandOf(w) \in {"exec", "resume"}
    <3>1. new = (<<f[1]>> \o <<"--provider", "meta", "--base-url", url>>) \o Tail(f)
      BY <1>2, <2>1, <2>2
    <3>2. Rewritten(new, w, url, T)
      BY <1>1, <1>4, <3>1, RewrittenExec
    <3> QED BY <1>1, <3>2
  <2>3. CASE SubcommandOf(w) \notin {"exec", "resume"}
    <3>1. new = f
      BY <1>2, <2>1, <2>3
    <3>2. Rewritten(new, w, url, T)
      BY <1>1, <1>4, <2>3, <3>1, RewrittenServe
    <3> QED BY <1>1, <3>2
  <2> QED BY <2>2, <2>3
<1> QED BY <1>3, <1>4

(* The command line of Muse is what the launch means it to be.             *)
CommandRouted(a, new, url) ==
  /\ IF ModeParted(a) THEN Untouched(new) = Untouched(a)
     ELSE MuseCommand(new) = SubcommandOf(a) /\ MuseRest(new) = UserRest(a)
  /\ "--fast" \notin Heads(new)
  /\ ProviderValues(new) \subseteq {"meta"}
  /\ MuseUrls(new) \subseteq {url}
  /\ MuseCommand(new) \in {"none", "exec", "resume"} => MuseUrls(new) = {url}

(* The units that are Muse's, of a list of units of a wider alphabet.      *)
LEMMA UntouchedKept ==
  ASSUME NEW T, NEW b, Units(b) \in Seq(Seq(T))
  PROVE  Untouched(b) = Kept(Units(b), {u \in Seq(T) : Spared(u)})
<1>1. PICK q : q = Units(b)
  OBVIOUS
<1>2. q \in Seq(Seq(T)) /\ ToSet(q) \subseteq Seq(T)
  BY <1>1, ToSetFacts
<1>3. PICK S, R : S = {u \in ToSet(q) : Spared(u)} /\ R = {u \in Seq(T) : Spared(u)}
  OBVIOUS
<1>4. ToSet(q) \cap S = ToSet(q) \cap R
  BY <1>2, <1>3
<1>5. Kept(q, S) = Kept(q, R)
  BY <1>2, <1>4, KeptSame
<1> QED BY <1>1, <1>3, <1>5 DEF Untouched

(* No option for the provider or the address of a session that the checks  *)
(* let through is left to the user: one that is not taken out has no value *)
(* or an option for one, and is refused.                                   *)
LEMMA NothingLeft ==
  ASSUME NEW a, NEW environment, ProviderOK(a), UpstreamOK(SessionArgs(a), environment),
         NEW u, u \in ToSet(Units(a)), u \in ToSet(Units(SessionArgs(a))), ~Removable(u)
  PROVE  ~IsProvider(u) /\ ~IsBaseUrl(u)
<1>1. ASSUME IsProvider(u) PROVE FALSE
  <2>1. u[1] = "--provider" /\ u[1] \notin DOMAIN InlineProvider
    BY <1>1, InlineForms DEF IsProvider, Removable
  <2>2. ProviderValue(u) \in PublicProviders
    BY <1>1 DEF ProviderOK, ProviderValues
  <2>3. Len(u) = 2 /\ u[2] \in PublicProviders
    BY <2>1, <2>2 DEF ProviderValue, PublicProviders
  <2>4. ~OptionLike(u[2])
    BY <2>3, OptionsAssumption, InlineForms
    DEF OptionLike, PublicProviders, ValueOptions, InformationFlags, Worktree
  <2> QED BY <2>1, <2>3, <2>4 DEF Removable
<1>2. ASSUME IsBaseUrl(u) PROVE FALSE
  <2>1. u[1] = "--base-url" /\ u[1] \notin DOMAIN InlineUrl
    BY <1>2, InlineForms DEF IsBaseUrl, Removable
  <2>2. UrlValue(u) # ""
    BY <1>2 DEF UpstreamOK
  <2> QED BY <2>1, <2>2 DEF UrlValue, Removable
<1> QED BY <1>1, <1>2

(* What the launcher takes out are options of its own, and what the user   *)
(* gave beside them and the subcommand is what is left of the other units. *)
LEMMA TakenOut ==
  ASSUME NEW T, NEW a \in Seq(T), NEW D, D = {u \in Seq(T) : Taken(a, u)}
  PROVE  /\ Owned(D) /\ (ModeParted(a) <=> Parted(Units(a), D))
         /\ UserRest(a) = Kept(Beside(a), Seq(T) \ D)
<1>1. PICK q : q = Units(a)
  OBVIOUS
<1>2. q \in Seq(Seq(T)) /\ \A n \in 1..Len(q) : q[n] \in Seq(T)
  <2>1. q \in Seq(Seq(T))
    BY <1>1, UnitsWellFormed
  <2> QED BY <2>1
<1>3. Owned(D)
  <2> SUFFICES ASSUME NEW u \in D PROVE OptionLike(u[1]) /\ u[1] \notin Worktree
    BY DEF Owned
  <2>1. u[1] \in DOMAIN InlineProvider \cup DOMAIN InlineUrl \cup
                 {"--provider", "--base-url", "--fast", "--api-key-stdin"}
    <3>1. <<"--fast">>[1] = "--fast" /\ <<"--api-key-stdin">>[1] = "--api-key-stdin"
      OBVIOUS
    <3> QED BY <3>1 DEF Taken, Removable
  <2> QED BY <2>1, InlineForms DEF OptionLike, ValueOptions, Worktree
<1>4. \A n \in 1..Len(q) : Taken(a, q[n]) <=> q[n] \in D
  BY <1>2
<1>5. ModeParted(a) <=> Parted(q, D)
  <2>1. \A i, j \in 1..Len(q) : \A n \in (i + 1)..(j - 1) : n \in 1..Len(q)
    BY <1>2
  <2>2. \A i, j \in 1..Len(q) :
          (\A n \in (i + 1)..(j - 1) : Taken(a, q[n])) <=> (\A n \in (i + 1)..(j - 1) : q[n] \in D)
    BY <1>4, <2>1
  <2> QED BY <1>1, <2>2 DEF ModeParted, Parted
<1>6. PICK r : r = Beside(a)
  OBVIOUS
<1>7. r \in Seq(Seq(T))
  <2>1. CASE StockSubcommand(a) = 0
    BY <1>1, <1>2, <1>6, <2>1 DEF Beside
  <2>2. CASE StockSubcommand(a) # 0
    <3>1. PICK s \in Seq(Seq(T)) : Moves(a, SubcommandOf(a), s, T)
      BY <2>2, SubcommandMoves
    <3> QED BY <1>6, <3>1 DEF Moves
  <2> QED BY <2>1, <2>2
<1>8. UserRest(a) = Kept(r, {u \in ToSet(r) : ~Taken(a, u)})
  BY <1>6 DEF UserRest, Beside
<1>9. ToSet(r) \subseteq Seq(T)
  BY <1>7, ToSetFacts
<1>10. PICK N : N = {u \in ToSet(r) : ~Taken(a, u)}
  OBVIOUS
<1>11. ToSet(r) \cap N = ToSet(r) \cap (Seq(T) \ D)
  BY <1>9, <1>10
<1>12. Kept(r, N) = Kept(r, Seq(T) \ D)
  BY <1>7, <1>11, KeptSame
<1> QED BY <1>1, <1>3, <1>5, <1>6, <1>8, <1>10, <1>12

(* The arguments of Muse, for a session the launcher's checks let through. *)
LEMMA RewriteRoutes ==
  ASSUME NEW T, {"--provider", "meta", "--base-url"} \subseteq T, NEW url \in T, ~OptionLike(url),
         NEW a \in Seq(T), NEW environment, ProviderOK(a), UpstreamOK(SessionArgs(a), environment)
  PROVE  CommandRouted(a, RewriteMuseArgs(SessionArgs(a), url), url)
<1>1. PICK b, w, k, new : /\ b = SessionArgs(a) /\ w = WithoutRouting(b) /\ k = Units(w)
                          /\ new = RewriteMuseArgs(b, url)
  OBVIOUS
<1>2. PICK R : R = {u \in Seq(T) : Spared(u)}
  OBVIOUS
<1>3. /\ k \in Seq(Seq(T)) /\ WellFormed(k) /\ w = FlattenSeq(k)
      /\ ToSet(k) \subseteq ToSet(Units(a)) /\ ToSet(k) \subseteq ToSet(Units(b))
      /\ \A u \in ToSet(k) : ~Removable(u) /\ u # <<"--fast">>
      /\ Kept(k, R) = Kept(Units(a), R)
      /\ k = Kept(Units(a), Seq(T) \ {u \in Seq(T) : Taken(a, u)})
  <2>1. Remains(a, k, T)
    BY <1>1, SessionRemains
  <2> QED BY <1>1, <1>2, <2>1 DEF Remains
<1>4. w \in Seq(T)
  BY <1>3, FlattenType
<1>5. Rewritten(new, w, url, T)
  <2>1. w = WithoutRouting(b) /\ w = FlattenSeq(Units(w))
    BY <1>1, <1>3
  <2>2. \A u \in ToSet(Units(w)) : ~Removable(u)
    BY <1>1, <1>3
  <2>3. Rewritten(RewriteMuseArgs(b, url), w, url, T)
    BY <1>4, <2>1, <2>2, RewriteForms
  <2> QED BY <1>1, <2>3
<1>6. PICK N : N = ToSet(Units(new))
  OBVIOUS
<1>7. /\ Units(new) \in Seq(Seq(T)) /\ N \subseteq ToSet(k) \cup {ProviderUnit, UrlUnit(url)}
      /\ Kept(Units(new), R) = Kept(k, R)
      /\ MuseCommand(new) = SubcommandOf(w) /\ MuseRest(new) = Beside(w)
      /\ SubcommandOf(w) \in {"none", "exec", "resume"} => UrlUnit(url) \in N
  BY <1>1, <1>2, <1>5, <1>6 DEF Rewritten
<1>8. \A u \in ToSet(k) : ~IsProvider(u) /\ ~IsBaseUrl(u)
  BY <1>1, <1>3, NothingLeft
<1>9. /\ ProviderUnit[1] = "--provider" /\ ProviderUnit[2] = "meta" /\ Len(ProviderUnit) = 2
      /\ UrlUnit(url)[1] = "--base-url" /\ UrlUnit(url)[2] = url /\ Len(UrlUnit(url)) = 2
  BY DEF ProviderUnit, UrlUnit
<1>10. /\ IsProvider(ProviderUnit) /\ ~IsBaseUrl(ProviderUnit)
       /\ ProviderValue(ProviderUnit) = "meta"
       /\ ~IsProvider(UrlUnit(url)) /\ IsBaseUrl(UrlUnit(url)) /\ UrlValue(UrlUnit(url)) = url
  BY <1>9, InlineForms DEF IsProvider, IsBaseUrl, ProviderValue, UrlValue
<1>11. ASSUME ~ModeParted(a)
       PROVE  MuseCommand(new) = SubcommandOf(a) /\ MuseRest(new) = UserRest(a)
  <2>1. PICK U, D : U = Seq(T) /\ D = {u \in Seq(T) : Taken(a, u)}
    OBVIOUS
  <2>2. Owned(D) /\ ~Parted(Units(a), D) /\ UserRest(a) = Kept(Beside(a), U \ D)
    BY <1>11, <2>1, TakenOut
  <2>3. Units(a) \in Seq(U)
    BY <2>1, UnitsWellFormed
  <2>4. Units(w) = Kept(Units(a), U \ D)
    BY <1>1, <1>3, <2>1
  <2>5. SubcommandOf(w) = SubcommandOf(a) /\ Beside(w) = Kept(Beside(a), U \ D)
    BY <2>2, <2>3, <2>4, SubcommandKept
  <2> QED BY <1>7, <2>2, <2>5
<1>12. Untouched(new) = Untouched(a)
  <2>1. Untouched(new) = Kept(Units(new), R)
    BY <1>2, <1>7, UntouchedKept
  <2>2. Units(a) \in Seq(Seq(T))
    BY UnitsWellFormed
  <2>3. Untouched(a) = Kept(Units(a), R)
    BY <1>2, <2>2, UntouchedKept
  <2> QED BY <1>3, <1>7, <2>1, <2>3
<1>13. \A u \in ToSet(k) : u[1] # "--fast"
  <2> SUFFICES ASSUME NEW u \in ToSet(k), u[1] = "--fast" PROVE FALSE
    OBVIOUS
  <2>1. u \in Seq(T) /\ IsUnit(u)
    <3>1. PICK i \in DOMAIN k : u = k[i]
      BY DEF ToSet
    <3>2. i \in 1..Len(k) /\ k[i] \in Seq(T)
      BY <1>3, <3>1
    <3> QED BY <1>3, <3>1, <3>2 DEF WellFormed
  <2>2. Len(u) = 1
    BY <2>1 DEF IsUnit, ValueOptions
  <2>3. u = <<"--fast">>
    BY <2>1, <2>2
  <2> QED BY <1>3, <2>3
<1>14. "--fast" \notin Heads(new)
  BY <1>6, <1>7, <1>9, <1>13 DEF Heads
<1>15. ProviderValues(new) \subseteq {"meta"}
  BY <1>6, <1>7, <1>8, <1>10 DEF ProviderValues
<1>16. MuseUrls(new) \subseteq {url} /\ (UrlUnit(url) \in N => url \in MuseUrls(new))
  BY <1>6, <1>7, <1>8, <1>10 DEF MuseUrls
<1>17. MuseCommand(new) \in {"none", "exec", "resume"} => MuseUrls(new) = {url}
  BY <1>7, <1>16
<1> QED BY <1>1, <1>11, <1>12, <1>14, <1>15, <1>16, <1>17 DEF CommandRouted
-----------------------------------------------------------------------------
(* An address a launch's Muse may be sent to: its own gateway's, or what   *)
(* another launch of the profile that overlapped with it may write.        *)
Serves(l, url) == url = l \/ \E m \in MayReroute(l) : url = Address(m)

(* A session at work has passed the checks.                                *)
CheckedInv ==
  \A l \in DOMAIN command : IsSession(l) /\ Active(l) => SessionOK(Args(l), command[l].environment)

(* Its Muse has the arguments rewritten, and they had passed the checks.   *)
SpawnedInv ==
  \A l \in DOMAIN command : IsSession(l) /\ (muse[l] # None \/ pc[l] = "muse") =>
    /\ muse[l] = RewriteMuseArgs(SessionArgs(Args(l)), l)
    /\ SessionOK(Args(l), command[l].environment)

(* The settings of a session that has written them name its own gateway    *)
(* until an overlapping launch writes its own.                             *)
AddressInv ==
  \A l \in DOMAIN command : IsSession(l) /\ pc[l] \in {"spawn", "muse"} =>
    Serves(l, settings[Profile(l)].endpoint)

(* Only a running Muse settles where its requests go.                      *)
EndpointInv ==
  \A l \in DOMAIN command :
    /\ endpoint[l] # None => pc[l] \in {"muse"} \cup Ended
    /\ IsSession(l) /\ endpoint[l] \notin {None, l} =>
         MuseCommand(muse[l]) = "serve" /\ \E m \in MayReroute(l) : endpoint[l] = Address(m)

RouteInv ==
  /\ command \in Commands /\ DOMAIN muse = Launch /\ DOMAIN endpoint = Launch
  /\ CheckedInv /\ SpawnedInv /\ AddressInv /\ EndpointInv

(* A command line of the user is one of strings.                           *)
LEMMA ArgsTyped ==
  ASSUME command \in Commands, NEW l \in DOMAIN command
  PROVE  l \in Launch /\ ~OptionLike(l) /\ Args(l) \in Seq(STRING)
BY LaunchesAssumption DEF Args

(* The arguments of a session's Muse are those RewriteRoutes is about.     *)
LEMMA SessionRouted ==
  ASSUME command \in Commands, NEW l \in DOMAIN command, IsSession(l),
         SessionOK(Args(l), command[l].environment),
         NEW new, new = RewriteMuseArgs(SessionArgs(Args(l)), l)
  PROVE  CommandRouted(Args(l), new, l)
<1>1. PICK a, T : a = Args(l) /\ T = STRING \cup Launch \cup {"--provider", "meta", "--base-url"}
  OBVIOUS
<1>2. l \in T /\ ~OptionLike(l) /\ {"--provider", "meta", "--base-url"} \subseteq T
  BY <1>1, ArgsTyped
<1>3. a \in Seq(T)
  <2>1. PICK S : S = STRING
    OBVIOUS
  <2>2. a \in Seq(S) /\ S \subseteq T
    BY <1>1, <2>1, ArgsTyped
  <2> QED BY <2>2
<1>4. ProviderOK(a)
  BY <1>1 DEF IsSession, Kind, Classify
<1>5. UpstreamOK(SessionArgs(a), command[l].environment)
  BY <1>1 DEF SessionOK, SessionArgs
<1>6. PICK environment : environment = command[l].environment
  OBVIOUS
<1>7. CommandRouted(a, RewriteMuseArgs(SessionArgs(a), l), l)
  BY <1>2, <1>3, <1>4, <1>5, <1>6, RewriteRoutes
<1> QED BY <1>1, <1>7

(* It holds before the first launch.                                       *)
LEMMA InitRoute == Init => RouteInv
<1> SUFFICES ASSUME Init PROVE RouteInv
  OBVIOUS
<1>1. \A l \in DOMAIN command : pc[l] = "start" /\ muse[l] = None /\ endpoint[l] = None
  BY LaunchesAssumption DEF Init
<1> QED BY <1>1 DEF Init, RouteInv, CheckedInv, SpawnedInv, AddressInv, EndpointInv, Active

(* What a launch may be sent to stays so: launches only meet more.         *)
LEMMA ServesGrows ==
  ASSUME UNCHANGED <<command, found>>, NEW l \in Launch, met[l] \subseteq met'[l]
  PROVE  /\ \A m : m \in MayReroute(l) => (m \in MayReroute(l))'
         /\ \A m : Address(m)' = Address(m) /\ Profile(m)' = Profile(m) /\ Kind(m)' = Kind(m)
                   /\ Args(m)' = Args(m)
         /\ \A url : Serves(l, url) => Serves(l, url)'
<1>1. \A m : Args(m)' = Args(m)
  BY DEF Args
<1>2. \A m : Profile(m)' = Profile(m) /\ Kind(m)' = Kind(m)
  BY <1>1 DEF Profile, Kind
<1>3. \A m : Address(m)' = Address(m)
  BY <1>2 DEF Address
<1>4. \A m : m \in MayReroute(l) => (m \in MayReroute(l))'
  BY <1>2 DEF Sharing, MayReroute
<1> QED BY <1>1, <1>2, <1>3, <1>4 DEF Serves

(* A step that moves a launch on and neither starts its Muse nor touches   *)
(* settings.                                                               *)
LEMMA RouteMove ==
  ASSUME IInv, RouteInv, NEW l \in Launch, NEW step \in Steps \ {"start", "muse"}, Active(l),
         pc' = [pc EXCEPT ![l] = step], UNCHANGED <<command, found, settings, muse, endpoint, met>>,
         step = "spawn" => ~IsSession(l), pc[l] = "muse" => step \in Ended
  PROVE  RouteInv'
<1>1. /\ pc'[l] = step /\ \A m \in Launch \ {l} : pc'[m] = pc[m]
      /\ command' = command /\ found' = found /\ DOMAIN command \subseteq Launch
      /\ settings' = settings /\ muse' = muse /\ endpoint' = endpoint /\ met' = met
  BY DEF IInv, TypeInv
<1>2. \A m \in Launch : Active(m)' => Active(m)
  BY <1>1 DEF Active
<1>3. \A m : Args(m)' = Args(m) /\ Profile(m)' = Profile(m) /\ Kind(m)' = Kind(m)
  BY <1>1 DEF Args, Profile, Kind
<1>4. \A m : Address(m)' = Address(m) /\ MayReroute(m)' = MayReroute(m)
             /\ IsSession(m)' = IsSession(m)
  BY <1>1, <1>3 DEF Address, Sharing, MayReroute, IsSession
<1>5. CheckedInv'
  BY <1>1, <1>2, <1>3, <1>4 DEF RouteInv, CheckedInv
<1>6. SpawnedInv'
  BY <1>1, <1>3, <1>4 DEF RouteInv, SpawnedInv
<1>7. AddressInv'
  BY <1>1, <1>3, <1>4 DEF RouteInv, AddressInv, Serves
<1>8. EndpointInv'
  <2>1. \A m \in DOMAIN command : endpoint[m] # None => pc'[m] \in {"muse"} \cup Ended
    BY <1>1 DEF RouteInv, EndpointInv, Active
  <2> QED BY <1>1, <1>4, <2>1 DEF RouteInv, EndpointInv
<1> QED BY <1>1, <1>5, <1>6, <1>7, <1>8 DEF RouteInv

(* run_stock_muse goes on only when the checks pass.                       *)
LEMMA RouteStart ==
  ASSUME IInv, RouteInv, NEW l \in DOMAIN command, Start(l)
  PROVE  RouteInv'
<1>1. /\ l \in Launch /\ pc[l] = "start" /\ DOMAIN command \subseteq Launch
      /\ command' = command /\ found' = found
      /\ settings' = settings /\ muse' = muse /\ endpoint' = endpoint
  BY DEF IInv, TypeInv, Start
<1>2. /\ \A m \in Launch \ {l} : pc'[m] = pc[m]
      /\ pc'[l] \in {"directories", "gateway", "refused", "ended"}
      /\ IsSession(l) /\ pc'[l] \notin Ended => SessionOK(Args(l), command[l].environment)
  BY <1>1 DEF Start, IInv, TypeInv, Ended, IsSession
<1>3. \A m \in Launch : met[m] \subseteq met'[m]
  BY <1>1 DEF IInv, TypeInv, MetInv, Start
<1>4. \A m \in Launch : /\ \A url : Serves(m, url) => Serves(m, url)'
                        /\ \A n : n \in MayReroute(m) => (n \in MayReroute(m))'
  BY <1>1, <1>3, ServesGrows
<1>5. \A m : Args(m)' = Args(m) /\ Profile(m)' = Profile(m) /\ Kind(m)' = Kind(m)
  BY <1>1 DEF Args, Profile, Kind
<1>6. \A m : Address(m)' = Address(m) /\ IsSession(m)' = IsSession(m)
  BY <1>5 DEF Address, IsSession
<1>7. CheckedInv'
  BY <1>1, <1>2, <1>5, <1>6 DEF RouteInv, CheckedInv, Active
<1>8. SpawnedInv'
  BY <1>1, <1>2, <1>5, <1>6 DEF RouteInv, SpawnedInv
<1>9. AddressInv'
  BY <1>1, <1>2, <1>4, <1>5, <1>6 DEF RouteInv, AddressInv
<1>10. EndpointInv'
  <2>1. endpoint[l] = None
    BY <1>1 DEF RouteInv, EndpointInv, Ended
  <2>2. \A m \in DOMAIN command : endpoint[m] # None => pc'[m] \in {"muse"} \cup Ended
    BY <1>1, <1>2, <2>1 DEF RouteInv, EndpointInv
  <2> QED BY <1>1, <1>4, <1>6, <2>2 DEF RouteInv, EndpointInv
<1> QED BY <1>1, <1>7, <1>8, <1>9, <1>10 DEF RouteInv

(* seed_stock_settings: whoever runs a session of the profile meanwhile    *)
(* has met the launch whose address replaces its own.                      *)
LEMMA RoutePersist ==
  ASSUME IInv, RouteInv, NEW l \in DOMAIN command, PersistSettings(l)
  PROVE  RouteInv'
<1>1. /\ l \in Launch /\ pc[l] = "persist" /\ DOMAIN command \subseteq Launch
      /\ command' = command /\ found' = found
      /\ muse' = muse /\ endpoint' = endpoint /\ met' = met
  BY DEF IInv, TypeInv, PersistSettings
<1>2. pc'[l] = "spawn" /\ \A m \in Launch \ {l} : pc'[m] = pc[m]
  BY <1>1 DEF IInv, TypeInv, PersistSettings
<1>3. \A m : Args(m)' = Args(m) /\ Profile(m)' = Profile(m) /\ Kind(m)' = Kind(m)
  BY <1>1 DEF Args, Profile, Kind
<1>4. \A m : Address(m)' = Address(m) /\ MayReroute(m)' = MayReroute(m)
             /\ IsSession(m)' = IsSession(m)
  BY <1>1, <1>3 DEF Address, Sharing, MayReroute, IsSession
<1>5. \A m \in Launch : Active(m)' => Active(m)
  BY <1>1, <1>2 DEF Active, Ended
<1>6. \A m \in Launch : Active(m) => Profile(m) \in PublicProviders
  BY DEF IInv, KnownInv
<1>7. Profile(l) \in PublicProviders /\ Active(l)
  BY <1>1, <1>6 DEF Active, Ended
<1>8. copy[l] \in Settings \cup {None}
  BY <1>1 DEF IInv, TypeInv, FileInv
<1>9. PICK file : file = SeedStockSettings(copy[l], Address(l))
  OBVIOUS
<1>10. file.endpoint = Address(l)
  <2>1. PICK base \in Settings : base = IF copy[l] = None THEN Unpinned ELSE copy[l]
    BY <1>8 DEF Unpinned, Settings
  <2>2. file = [base EXCEPT !.endpoint = Address(l), !.retries = 0, !.telemetry = "off"]
    BY <1>9, <2>1 DEF SeedStockSettings
  <2> QED BY <2>2 DEF Settings
<1>11. /\ settings'[Profile(l)] = file
       /\ \A p \in PublicProviders \ {Profile(l)} : settings'[p] = settings[p]
  BY <1>7, <1>9 DEF IInv, TypeInv, PersistSettings
<1>12. CheckedInv'
  BY <1>1, <1>3, <1>4, <1>5 DEF RouteInv, CheckedInv
<1>13. SpawnedInv'
  BY <1>1, <1>2, <1>3, <1>4 DEF RouteInv, SpawnedInv
<1>14. AddressInv'
  <2> SUFFICES ASSUME NEW m \in DOMAIN command, IsSession(m), pc'[m] \in {"spawn", "muse"}
               PROVE  Serves(m, settings'[Profile(m)].endpoint)
    BY <1>1, <1>3, <1>4 DEF AddressInv, Serves
  <2>1. CASE m = l
    BY <1>10, <1>11, <2>1 DEF Serves, Address, IsSession
  <2>2. CASE m # l
    <3>1. m \in Launch /\ pc[m] \in {"spawn", "muse"} /\ Active(m)
      BY <1>1, <1>2, <2>2 DEF Active, Ended
    <3>2. l \in met[m]
      BY <1>1, <1>7, <2>2, <3>1 DEF IInv, MetInv
    <3>3. CASE Profile(m) = Profile(l)
      <4>1. Kind(l) = "session" \/ found.settings = None
        BY <1>1 DEF IInv, FileInv, IsSession
      <4>2. l \in MayReroute(m)
        BY <3>2, <3>3, <4>1 DEF MayReroute, Sharing
      <4> QED BY <1>10, <1>11, <3>3, <4>2 DEF Serves
    <3>4. CASE Profile(m) # Profile(l)
      BY <1>6, <1>11, <3>1, <3>4 DEF RouteInv, AddressInv
    <3> QED BY <3>3, <3>4
  <2> QED BY <2>1, <2>2
<1>15. EndpointInv'
  <2>1. endpoint[l] = None
    BY <1>1 DEF RouteInv, EndpointInv, Ended
  <2>2. \A m \in DOMAIN command : endpoint[m] # None => pc'[m] \in {"muse"} \cup Ended
    BY <1>1, <1>2, <2>1 DEF RouteInv, EndpointInv
  <2> QED BY <1>1, <1>4, <2>2 DEF RouteInv, EndpointInv
<1> QED BY <1>1, <1>12, <1>13, <1>14, <1>15 DEF RouteInv

(* Muse is started with the arguments rewritten.                           *)
LEMMA RouteSpawn ==
  ASSUME IInv, RouteInv, NEW l \in DOMAIN command, SpawnMuse(l)
  PROVE  RouteInv'
<1>1. /\ l \in Launch /\ pc[l] = "spawn" /\ DOMAIN command \subseteq Launch
      /\ command' = command /\ found' = found
      /\ settings' = settings /\ endpoint' = endpoint /\ met' = met
  BY DEF IInv, TypeInv, SpawnMuse
<1>2. pc'[l] = "muse" /\ \A m \in Launch \ {l} : pc'[m] = pc[m]
  BY <1>1 DEF IInv, TypeInv, SpawnMuse
<1>3. \A m : Args(m)' = Args(m) /\ Profile(m)' = Profile(m) /\ Kind(m)' = Kind(m)
  BY <1>1 DEF Args, Profile, Kind
<1>4. \A m : Address(m)' = Address(m) /\ MayReroute(m)' = MayReroute(m)
             /\ IsSession(m)' = IsSession(m)
  BY <1>1, <1>3 DEF Address, Sharing, MayReroute, IsSession
<1>5. \A m \in Launch : Active(m)' => Active(m)
  BY <1>1, <1>2 DEF Active, Ended
<1>6. /\ DOMAIN muse' = Launch /\ \A m \in Launch \ {l} : muse'[m] = muse[m]
      /\ IsSession(l) => muse'[l] = RewriteMuseArgs(SessionArgs(Args(l)), l)
  BY <1>1 DEF RouteInv, SpawnMuse, IsSession
<1>7. CheckedInv'
  BY <1>1, <1>3, <1>4, <1>5 DEF RouteInv, CheckedInv
<1>8. IsSession(l) => SessionOK(Args(l), command[l].environment)
  BY <1>1 DEF RouteInv, CheckedInv, Active, Ended
<1>9. SpawnedInv'
  BY <1>1, <1>2, <1>3, <1>4, <1>6, <1>8 DEF RouteInv, SpawnedInv
<1>10. AddressInv'
  BY <1>1, <1>2, <1>3, <1>4 DEF RouteInv, AddressInv, Serves
<1>11. EndpointInv'
  <2>1. endpoint[l] = None
    BY <1>1 DEF RouteInv, EndpointInv, Ended
  <2>2. \A m \in DOMAIN command : endpoint[m] # None => pc'[m] \in {"muse"} \cup Ended
    BY <1>1, <1>2, <2>1 DEF RouteInv, EndpointInv
  <2> QED BY <1>1, <1>4, <1>6, <2>1, <2>2 DEF RouteInv, EndpointInv
<1> QED BY <1>1, <1>6, <1>7, <1>9, <1>10, <1>11 DEF RouteInv

(* Muse takes its address from its arguments, or from the settings.        *)
LEMMA RouteReads ==
  ASSUME IInv, RouteInv, NEW l \in DOMAIN command, MuseReads(l)
  PROVE  RouteInv'
<1>1. /\ l \in Launch /\ pc[l] = "muse" /\ IsSession(l) /\ DOMAIN command \subseteq Launch
      /\ command' = command /\ found' = found /\ pc' = pc /\ settings' = settings
      /\ muse' = muse /\ met' = met
  BY DEF IInv, TypeInv, MuseReads, IsSession
<1>2. PICK url : /\ endpoint' = [endpoint EXCEPT ![l] = url]
                 /\ IF MuseCommand(muse[l]) = "serve" THEN url = settings[Profile(l)].endpoint
                    ELSE url \in MuseUrls(muse[l])
  BY DEF MuseReads
<1>3. /\ DOMAIN endpoint' = Launch /\ endpoint'[l] = url
      /\ \A m \in Launch \ {l} : endpoint'[m] = endpoint[m]
  BY <1>1, <1>2 DEF RouteInv
<1>4. \A m : Args(m)' = Args(m) /\ Profile(m)' = Profile(m) /\ Kind(m)' = Kind(m)
  BY <1>1 DEF Args, Profile, Kind
<1>5. \A m : /\ Address(m)' = Address(m) /\ MayReroute(m)' = MayReroute(m)
             /\ IsSession(m)' = IsSession(m) /\ Active(m)' = Active(m)
  BY <1>1, <1>4 DEF Address, Sharing, MayReroute, IsSession, Active
<1>6. /\ muse[l] = RewriteMuseArgs(SessionArgs(Args(l)), l)
      /\ SessionOK(Args(l), command[l].environment)
  BY <1>1 DEF RouteInv, SpawnedInv
<1>7. MuseUrls(muse[l]) \subseteq {l}
  <2>1. CommandRouted(Args(l), muse[l], l)
    BY <1>1, <1>6, SessionRouted DEF RouteInv
  <2> QED BY <2>1 DEF CommandRouted
<1>8. url # l => MuseCommand(muse[l]) = "serve" /\ \E m \in MayReroute(l) : url = Address(m)
  <2>1. Serves(l, settings[Profile(l)].endpoint)
    BY <1>1 DEF RouteInv, AddressInv
  <2> QED BY <1>2, <1>7, <2>1 DEF Serves
<1>9. CheckedInv' /\ SpawnedInv'
  BY <1>1, <1>4, <1>5 DEF RouteInv, CheckedInv, SpawnedInv
<1>10. AddressInv'
  BY <1>1, <1>4, <1>5 DEF RouteInv, AddressInv, Serves
<1>11. EndpointInv'
  <2>1. \A m \in DOMAIN command : endpoint'[m] # None => pc[m] \in {"muse"} \cup Ended
    BY <1>1, <1>3 DEF RouteInv, EndpointInv
  <2>2. ASSUME NEW m \in DOMAIN command, IsSession(m), endpoint'[m] \notin {None, m}
        PROVE  MuseCommand(muse[m]) = "serve" /\ \E n \in MayReroute(m) : endpoint'[m] = Address(n)
    BY <1>1, <1>3, <1>8, <2>2 DEF RouteInv, EndpointInv
  <2> QED BY <1>1, <1>5, <2>1, <2>2 DEF EndpointInv
<1> QED BY <1>1, <1>3, <1>9, <1>10, <1>11 DEF RouteInv

(* A preference saved leaves the address where it is.                      *)
LEMMA RouteSaves ==
  ASSUME IInv, RouteInv, NEW l \in DOMAIN command, MuseSaves(l)
  PROVE  RouteInv'
<1>1. /\ l \in Launch /\ pc[l] = "muse" /\ DOMAIN command \subseteq Launch
      /\ command' = command /\ found' = found
      /\ pc' = pc /\ muse' = muse /\ endpoint' = endpoint /\ met' = met
  BY DEF IInv, TypeInv, MuseSaves
<1>2. \A m : Args(m)' = Args(m) /\ Profile(m)' = Profile(m) /\ Kind(m)' = Kind(m)
  BY <1>1 DEF Args, Profile, Kind
<1>3. \A m : /\ Address(m)' = Address(m) /\ MayReroute(m)' = MayReroute(m)
             /\ IsSession(m)' = IsSession(m) /\ Active(m)' = Active(m)
  BY <1>1, <1>2 DEF Address, Sharing, MayReroute, IsSession, Active
<1>4. \A m \in Launch : Active(m) => Profile(m) \in PublicProviders
  BY DEF IInv, KnownInv
<1>5. Profile(l) \in PublicProviders
  BY <1>1, <1>4 DEF Active, Ended
<1>6. PICK old \in Settings : old = settings[Profile(l)]
  BY <1>5 DEF IInv, TypeInv, MuseSaves, Whole
<1>7. settings' = [settings EXCEPT ![Profile(l)] = [old EXCEPT !.preference = l]]
  BY <1>6 DEF MuseSaves
<1>8. [old EXCEPT !.preference = l].endpoint = old.endpoint
  BY DEF Settings
<1>9. \A p \in PublicProviders : settings'[p].endpoint = settings[p].endpoint
  BY <1>5, <1>6, <1>7, <1>8 DEF IInv, TypeInv
<1>10. CheckedInv' /\ SpawnedInv'
  BY <1>1, <1>2, <1>3 DEF RouteInv, CheckedInv, SpawnedInv
<1>11. AddressInv'
  <2>1. \A m \in DOMAIN command : pc[m] \in {"spawn", "muse"} =>
          settings'[Profile(m)].endpoint = settings[Profile(m)].endpoint
    BY <1>1, <1>4, <1>9 DEF Active, Ended
  <2> QED BY <1>1, <1>2, <1>3, <2>1 DEF RouteInv, AddressInv, Serves
<1>12. EndpointInv'
  BY <1>1, <1>3 DEF RouteInv, EndpointInv
<1> QED BY <1>1, <1>10, <1>11, <1>12 DEF RouteInv

(* Every step keeps it.                                                    *)
LEMMA RouteStep ==
  ASSUME IInv, RouteInv, NEW l \in DOMAIN command,
         \/ Start(l) \/ StartGateway(l) \/ CreatePrivate(l) \/ SeedStockModelCatalog(l)
         \/ CheckSettings(l) \/ ReadSettings(l) \/ StageSettings(l) \/ PersistSettings(l)
         \/ SpawnMuse(l) \/ MuseReads(l) \/ MuseSaves(l) \/ MuseEnds(l) \/ Killed(l)
  PROVE  RouteInv'
<1>1. l \in Launch
  BY DEF IInv, TypeInv
<1>2. CASE Start(l)
  BY <1>2, RouteStart
<1>3. CASE StartGateway(l)
  <2>1. PICK step \in {"directories", "failed"} : pc' = [pc EXCEPT ![l] = step]
    BY <1>3 DEF StartGateway
  <2> QED BY <1>1, <1>3, <2>1, RouteMove DEF StartGateway, Steps, Active, Ended
<1>4. CASE CreatePrivate(l)
  <2>1. PICK step \in {"failed", "catalog", "check"} : pc' = [pc EXCEPT ![l] = step]
    BY <1>4 DEF CreatePrivate
  <2> QED BY <1>1, <1>4, <2>1, RouteMove DEF CreatePrivate, Steps, Active, Ended
<1>5. CASE SeedStockModelCatalog(l)
  BY <1>1, <1>5, RouteMove DEF SeedStockModelCatalog, Steps, Active, Ended
<1>6. CASE CheckSettings(l)
  <2>1. PICK step \in {"read", "spawn"} : pc' = [pc EXCEPT ![l] = step]
    BY <1>6 DEF CheckSettings
  <2>2. ~IsSession(l)
    BY <1>1, <1>6 DEF CheckSettings, IInv, FileInv
  <2> QED BY <1>1, <1>6, <2>1, <2>2, RouteMove DEF CheckSettings, Steps, Active, Ended
<1>7. CASE ReadSettings(l)
  <2>1. PICK step \in {"failed", "stage"} : pc' = [pc EXCEPT ![l] = step]
    BY <1>7 DEF ReadSettings
  <2> QED BY <1>1, <1>7, <2>1, RouteMove DEF ReadSettings, Steps, Active, Ended
<1>8. CASE StageSettings(l)
  BY <1>1, <1>8, RouteMove DEF StageSettings, Steps, Active, Ended
<1>9. CASE PersistSettings(l)
  BY <1>9, RoutePersist
<1>10. CASE SpawnMuse(l)
  BY <1>10, RouteSpawn
<1>11. CASE MuseReads(l)
  BY <1>11, RouteReads
<1>12. CASE MuseSaves(l)
  BY <1>12, RouteSaves
<1>13. CASE MuseEnds(l)
  BY <1>1, <1>13, RouteMove DEF MuseEnds, Steps, Active, Ended
<1>14. CASE Killed(l)
  BY <1>1, <1>14, RouteMove DEF Killed, Steps, Active, Ended
<1> QED BY <1>2, <1>3, <1>4, <1>5, <1>6, <1>7, <1>8, <1>9, <1>10, <1>11, <1>12, <1>13, <1>14

(* The Muse of every session runs the command the user gave and gets       *)
(* everything else the user gave, in order, without the launcher's options *)
(* (of a line that is ModeParted: everything but the launcher's options    *)
(* and the names of subcommands, and no --fast); it gets the provider      *)
(* "meta" and no address but its own gateway's, and sends its requests     *)
(* there unless it serves and a session that overlapped with it, or a help *)
(* command where no launch had written settings before, wrote the address  *)
(* of the profile (rewrite_muse_args, seed_stock_settings): for command    *)
(* lines of any length, any number of launches and any interleaving.       *)
THEOREM SessionsRouted == Spec => []Routed
<1>1. ASSUME IInv, RouteInv, [Next]_vars PROVE RouteInv'
  <2>1. CASE Next
    BY <1>1, <2>1, RouteStep DEF Next
  <2>2. CASE UNCHANGED vars
    <3>1. /\ command' = command /\ found' = found /\ pc' = pc /\ settings' = settings /\ muse' = muse
          /\ endpoint' = endpoint /\ met' = met
      BY <2>2 DEF vars
    <3>2. \A m : Args(m)' = Args(m) /\ Profile(m)' = Profile(m) /\ Kind(m)' = Kind(m)
      BY <3>1 DEF Args, Profile, Kind
    <3>3. \A m : /\ Address(m)' = Address(m) /\ MayReroute(m)' = MayReroute(m)
                 /\ IsSession(m)' = IsSession(m) /\ Active(m)' = Active(m)
      BY <3>1, <3>2 DEF Address, Sharing, MayReroute, IsSession, Active
    <3> QED BY <1>1, <3>1, <3>2, <3>3
            DEF RouteInv, CheckedInv, SpawnedInv, AddressInv, EndpointInv, Serves
  <2> QED BY <1>1, <2>1, <2>2
<1>2. ASSUME RouteInv PROVE Routed
  <2> SUFFICES ASSUME NEW l \in DOMAIN command, Session(l)
               PROVE  /\ CommandRouted(Args(l), muse[l], l)
                      /\ endpoint[l] \notin {None, l} =>
                           /\ MuseCommand(muse[l]) = "serve"
                           /\ \E m \in MayReroute(l) : endpoint[l] = Address(m)
    BY DEF Routed, CommandRouted
  <2>1. IsSession(l) /\ muse[l] # None
    BY DEF Session, IsSession
  <2>2. CommandRouted(Args(l), muse[l], l)
    BY <1>2, <2>1, SessionRouted DEF RouteInv, SpawnedInv
  <2> QED BY <1>2, <2>1, <2>2 DEF RouteInv, EndpointInv
<1> QED BY <1>1, <1>2, Invariance, InitRoute, PTL DEF Spec
=============================================================================
