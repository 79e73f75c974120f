------------------------------ MODULE Launches ------------------------------
(***************************************************************************)
(* Launches that share a profile.  A launch reads its command line, starts *)
(* its own gateway, writes the model catalog and the settings of the       *)
(* profile of its provider and starts stock Muse there; a help or local    *)
(* command writes settings only where there are none.  Nothing locks the   *)
(* profile: every step below interleaves with those of other launches, and *)
(* a launch may be killed between any two.                                 *)
(***************************************************************************)
EXTENDS CommandLine

CONSTANTS
  Launch,      \* the launches; each is also the address of its gateway
  Commands,    \* what may be launched: functions from launches to [args, environment]
  Profiles,    \* what a profile may be before the first launch
  Unroutable,  \* the address a help command writes
  None, Broken

(* What settings.json can say: its endpoint, its retries, its telemetry,   *)
(* and one preference that is the user's (none, or the launch whose Muse   *)
(* saved it).                                                              *)
Settings ==
  [endpoint : Launch \cup {Unroutable, None}, retries : Nat, telemetry : {"on", "off"},
   preference : Launch \cup {None}]

ASSUME LaunchesAssumption ==
  /\ \A c \in Commands : DOMAIN c \subseteq Launch /\ \A l \in DOMAIN c : c[l].args \in Seq(STRING)
  /\ \A l \in Launch : ~OptionLike(l)
  /\ \A p \in Profiles : p.settings \in Settings \cup {None, Broken}
  /\ None \notin Launch /\ None # Unroutable /\ None # Broken
  /\ None \notin Settings /\ Broken \notin Settings

VARIABLES
  command,    \* the command lines of some launches, never changed
  found,      \* the profile before the first launch, never changed
  pc,         \* [Launch -> the step of run_stock_muse or run_stock_information]
  directory,  \* [PublicProviders -> {"absent", "private", "foreign"}]
  settings,   \* [PublicProviders -> settings.json: None, Broken or its fields]
  catalog,    \* [PublicProviders -> the launch whose models the catalog lists]
  copy,       \* [Launch -> the settings it has read]
  muse,       \* [Launch -> the arguments of its Muse]
  endpoint,   \* [Launch -> the address its Muse sends requests to]
  met,        \* [Launch -> the launches whose lifetime overlapped with its own]
  saved       \* [PublicProviders -> the launch whose Muse saved a preference last]

vars == <<command, found, pc, directory, settings, catalog, copy, muse, endpoint, met, saved>>
-----------------------------------------------------------------------------
Args(l) == command[l].args
Kind(l) == Classify(Args(l))
Profile(l) == SelectedProvider(Args(l))
Address(l) == IF Kind(l) = "session" THEN l ELSE Unroutable
Ended == {"ended", "refused", "failed", "killed"}
Whole(file) == file \notin {None, Broken}

(* The fields of settings.json that are pinned, and one that is not.       *)
Unpinned == [endpoint |-> None, retries |-> 10, telemetry |-> "on", preference |-> None]
Pinned(file) == Whole(file) /\ file.endpoint # None /\ file.retries = 0 /\ file.telemetry = "off"

SeedStockSettings_Mutant(file, url) ==  \* PreferencesKept: the file is written anew
  [Unpinned EXCEPT !.endpoint = url, !.retries = 0, !.telemetry = "off"]

(* seed_stock_settings, on the file as it was read.                        *)
SeedStockSettings(file, url) ==
  [(IF file = None THEN Unpinned ELSE file)
     EXCEPT !.endpoint = url, !.retries = 0, !.telemetry = "off"]

(* Stock Muse: its subcommand is its first argument or none, and only      *)
(* serve takes its endpoint from the settings.                             *)
MuseCommand(args) ==
  IF args # <<>> /\ args[1] \in StockSubcommands THEN args[1] ELSE "none"
MuseUrls(args) == {UrlValue(u) : u \in {v \in ToSet(Units(args)) : IsBaseUrl(v)}}
-----------------------------------------------------------------------------
Init ==
  /\ command \in Commands
  /\ pc = [l \in Launch |-> "start"]
  /\ found \in Profiles
  /\ directory = [p \in PublicProviders |-> found.directory]
  /\ settings = [p \in PublicProviders |-> found.settings]
  /\ catalog = [p \in PublicProviders |-> None]
  /\ copy = [l \in Launch |-> None]
  /\ muse = [l \in Launch |-> None]
  /\ endpoint = [l \in Launch |-> None]
  /\ met = [l \in Launch |-> {}]
  /\ saved = [p \in PublicProviders |-> None]

(* run, classify_invocation and the checks that come before the gateway.   *)
Start(l) ==
  LET others == {m \in Launch \ {l} : pc[m] \notin Ended \cup {"start"}}
  IN /\ pc[l] = "start"
     /\ pc' = [pc EXCEPT ![l] =
          IF Kind(l) = "information" THEN "directories"
          ELSE IF Kind(l) = "session"
          THEN IF SessionOK(Args(l), command[l].environment) THEN "gateway" ELSE "refused"
          ELSE IF Kind(l) = "refused" THEN "refused" ELSE "ended"]
     /\ met' = [m \in Launch |-> IF m = l THEN others
                                 ELSE IF m \in others THEN met[m] \cup {l} ELSE met[m]]
     /\ UNCHANGED <<command, found, directory, settings, catalog, copy, muse, endpoint, saved>>

StartGateway(l) ==
  /\ pc[l] = "gateway"
  /\ \E step \in {"directories", "failed"} : pc' = [pc EXCEPT ![l] = step]
  /\ UNCHANGED <<command, found, directory, settings, catalog, copy, muse, endpoint, met, saved>>

(* A directory that another launch has made meanwhile is as good.          *)
CreatePrivate(l) ==
  /\ pc[l] = "directories"
  /\ IF directory[Profile(l)] = "foreign"
     THEN /\ pc' = [pc EXCEPT ![l] = "failed"]
          /\ UNCHANGED directory
     ELSE /\ pc' = [pc EXCEPT ![l] = IF Kind(l) = "session" THEN "catalog" ELSE "check"]
          /\ directory' = [directory EXCEPT ![Profile(l)] = "private"]
  /\ UNCHANGED <<command, found, settings, catalog, copy, muse, endpoint, met, saved>>

(* Staged in a temporary file; only the rename is seen.                    *)
SeedStockModelCatalog(l) ==
  /\ pc[l] = "catalog"
  /\ catalog' = [catalog EXCEPT ![Profile(l)] = l]
  /\ pc' = [pc EXCEPT ![l] = "read"]
  /\ UNCHANGED <<command, found, directory, settings, copy, muse, endpoint, met, saved>>

(* run_stock_information seeds settings only where it sees none.           *)
CheckSettings(l) ==
  /\ pc[l] = "check"
  /\ pc' = [pc EXCEPT ![l] = IF settings[Profile(l)] = None THEN "read" ELSE "spawn"]
  /\ UNCHANGED <<command, found, directory, settings, catalog, copy, muse, endpoint, met, saved>>

ReadSettings(l) ==
  /\ pc[l] = "read"
  /\ copy' = [copy EXCEPT ![l] = settings[Profile(l)]]
  /\ pc' = [pc EXCEPT ![l] = IF settings[Profile(l)] = Broken THEN "failed" ELSE "stage"]
  /\ UNCHANGED <<command, found, directory, settings, catalog, muse, endpoint, met, saved>>

StageSettings_Mutant(l) ==  \* ProfileUsable: the file is written in place
  /\ pc[l] = "stage"
  /\ settings' = [settings EXCEPT ![Profile(l)] = Broken]
  /\ pc' = [pc EXCEPT ![l] = "persist"]
  /\ UNCHANGED <<command, found, directory, catalog, copy, muse, endpoint, met, saved>>

StageSettings(l) ==
  /\ pc[l] = "stage"
  /\ pc' = [pc EXCEPT ![l] = "persist"]
  /\ UNCHANGED <<command, found, directory, settings, catalog, copy, muse, endpoint, met, saved>>

PersistSettings(l) ==
  /\ pc[l] = "persist"
  /\ settings' = [settings EXCEPT ![Profile(l)] =
       SeedStockSettings(copy[l], Address(l))]
  /\ copy' = [copy EXCEPT ![l] = None]
  /\ pc' = [pc EXCEPT ![l] = "spawn"]
  /\ UNCHANGED <<command, found, directory, catalog, muse, endpoint, met, saved>>

SpawnMuse(l) ==
  /\ pc[l] = "spawn"
  /\ muse' = [muse EXCEPT ![l] =
       IF Kind(l) = "session" THEN RewriteMuseArgs(SessionArgs(Args(l)), l)
       ELSE InformationArgs(Args(l))]
  /\ pc' = [pc EXCEPT ![l] = "muse"]
  /\ UNCHANGED <<command, found, directory, settings, catalog, copy, endpoint, met, saved>>

(* Stock Muse, of a session, settles where its requests go.                *)
MuseReads(l) ==
  /\ pc[l] = "muse" /\ Kind(l) = "session" /\ endpoint[l] = None
  /\ IF MuseCommand(muse[l]) = "serve"
     THEN /\ Whole(settings[Profile(l)])
          /\ endpoint' = [endpoint EXCEPT ![l] = settings[Profile(l)].endpoint]
     ELSE \E url \in MuseUrls(muse[l]) : endpoint' = [endpoint EXCEPT ![l] = url]
  /\ UNCHANGED <<command, found, pc, directory, settings, catalog, copy, muse, met, saved>>

(* Stock Muse saves a preference and keeps the other fields.               *)
MuseSaves(l) ==
  /\ pc[l] = "muse" /\ Whole(settings[Profile(l)]) /\ settings[Profile(l)].preference # l
  /\ settings' = [settings EXCEPT ![Profile(l)].preference = l]
  /\ saved' = [saved EXCEPT ![Profile(l)] = l]
  /\ UNCHANGED <<command, found, pc, directory, catalog, copy, muse, endpoint, met>>

MuseEnds(l) ==
  /\ pc[l] = "muse"
  /\ pc' = [pc EXCEPT ![l] = "ended"]
  /\ UNCHANGED <<command, found, directory, settings, catalog, copy, muse, endpoint, met, saved>>

Killed(l) ==
  /\ pc[l] \notin Ended \cup {"start", "muse"}
  /\ pc' = [pc EXCEPT ![l] = "killed"]
  /\ UNCHANGED <<command, found, directory, settings, catalog, copy, muse, endpoint, met, saved>>

Next ==
  \E l \in DOMAIN command :
    \/ Start(l) \/ StartGateway(l) \/ CreatePrivate(l) \/ SeedStockModelCatalog(l)
    \/ CheckSettings(l) \/ ReadSettings(l) \/ StageSettings(l) \/ PersistSettings(l)
    \/ SpawnMuse(l) \/ MuseReads(l) \/ MuseSaves(l) \/ MuseEnds(l) \/ Killed(l)

Spec == Init /\ [][Next]_vars
-----------------------------------------------------------------------------
Session(l) == Kind(l) = "session" /\ muse[l] # None
Sharing(l) == {m \in met[l] : Profile(m) = Profile(l)}

(* The options the launcher takes out of a session's command line.         *)
Taken(args, unit) ==
  \/ Removable(unit) \/ unit = <<"--fast">>
  \/ unit = <<"--api-key-stdin">> /\ SubcommandOf(args) = "exec"

(* A worktree flag and a word that is a mode, with nothing but such        *)
(* options between them: the word is a prompt before they are taken out    *)
(* and the flag's mode after, and what follows it may become the command.  *)
ModeParted(args) ==
  LET units == Units(args)
  IN \E i, j \in 1..Len(units) :
       /\ i + 1 < j /\ units[i][1] \in Worktree /\ units[j][1] \in WorktreeModes
       /\ \A n \in (i + 1)..(j - 1) : Taken(args, units[n])

(* What the user gave beside the subcommand and the launcher's options,    *)
(* and what Muse gets beside its subcommand and the routing, in order.     *)
UserRest(args) ==
  LET at == StockSubcommand(args)
      units == IF at = 0 THEN Units(args) ELSE RemoveAt(Units(args), at)
  IN Kept(units, {u \in ToSet(units) : ~Taken(args, u)})
MuseRest(args) ==
  LET units == IF MuseCommand(args) = "none" THEN Units(args) ELSE Tail(Units(args))
  IN Kept(units, {u \in ToSet(units) : ~Removable(u)})

(* The units that are neither the launcher's nor the name of a subcommand. *)
Spared(unit) ==
  /\ ~Removable(unit) /\ unit \notin {<<"--fast">>, <<"--api-key-stdin">>}
  /\ unit[1] \notin StockSubcommands
Untouched(args) == Kept(Units(args), {u \in ToSet(Units(args)) : Spared(u)})

(* The launches that may have written the address a session's Muse serves  *)
(* from: sessions of the profile that overlap, and help commands that do   *)
(* where no launch had written settings before.                            *)
MayReroute(l) == {m \in Sharing(l) : Kind(m) = "session" \/ found.settings = None}

(* The Muse of a session runs the command the user gave with everything    *)
(* else the user gave, prompts and values in their order, the routing and  *)
(* none of the launcher's own options (rewrite_muse_args and the passes    *)
(* before it); of a line that is ModeParted, where the passes disagree on  *)
(* the command, it still gets what is neither a subcommand's name nor the  *)
(* launcher's, in order, and no --fast.  Its requests go to the gateway of *)
(* its own launch: always when it takes the address from its arguments,    *)
(* and for serve unless an overlapping launch of the profile wrote its own *)
(* (seed_stock_settings).  "A help/schema command must not overwrite a     *)
(* running session's endpoint" (run_stock_information), and does so only   *)
(* on the first use of a profile, between its check and its write.         *)
Routed ==
  \A l \in DOMAIN command : Session(l) =>
    /\ IF ModeParted(Args(l)) THEN Untouched(muse[l]) = Untouched(Args(l))
       ELSE /\ MuseCommand(muse[l]) = SubcommandOf(Args(l))
            /\ MuseRest(muse[l]) = UserRest(Args(l))
    /\ "--fast" \notin Heads(muse[l])
    /\ ProviderValues(muse[l]) \subseteq {"meta"}
    /\ MuseUrls(muse[l]) \subseteq {l}
    /\ MuseCommand(muse[l]) \in {"none", "exec", "resume"} => MuseUrls(muse[l]) = {l}
    /\ endpoint[l] \notin {None, l} =>
         /\ MuseCommand(muse[l]) = "serve"
         /\ \E m \in MayReroute(l) : endpoint[l] = Address(m)

(* Whenever Muse runs a session its profile has whole settings with the    *)
(* transport, the retries and the telemetry pinned, and a catalog some     *)
(* session has written; and no launch fails on what another one left, were *)
(* it killed: only on what it found before there was any                   *)
(* (seed_stock_settings refuses to overwrite what it cannot read).         *)
ProfileUsable ==
  /\ \A l \in DOMAIN command : Session(l) /\ pc[l] = "muse" =>
       Pinned(settings[Profile(l)]) /\ catalog[Profile(l)] \in Launch
  /\ \A p \in PublicProviders : settings[p] = Broken => found.settings = Broken

(* A preference that Muse saved is lost only to launches of the profile    *)
(* that overlapped with the one that saved it.                             *)
PreferencesKept ==
  \A p \in PublicProviders :
    saved[p] # None /\ Whole(settings[p]) /\ settings[p].preference # saved[p] =>
      Sharing(saved[p]) # {}

(* Authentication never reaches stock Muse.                                *)
AuthStaysHere ==
  \A l \in DOMAIN command : muse[l] # None => MuseCommand(muse[l]) \notin AuthCommands
=============================================================================
