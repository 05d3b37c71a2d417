------------------------ MODULE ConfigurationsProofs ------------------------
(***************************************************************************)
(* Proofs about Configurations, for any runs, kind clusters, inputs, edits *)
(* and credentials on kind.                                                *)
(***************************************************************************)
EXTENDS Configurations, TLAPS

-----------------------------------------------------------------------------
(* What the passes over a configuration have in common.                    *)

Maps(f, D) == f = [x \in D |-> f[x]]

KindNames == KindClusters \cup {""}

(* A configuration has every setting, reads its switches and may name a    *)
(* kind cluster.                                                           *)
Complete(cfg) ==
    /\ cfg = [set |-> cfg.set, fixed |-> cfg.fixed]
    /\ Maps(cfg.set, Setting)
    /\ cfg.fixed \subseteq Guarded
    /\ \A s \in Switches : cfg.set[s] \in Truth
    /\ cfg.set["KindClusterName"] \in KindNames

(* What a file, a variable or a stored configuration says of kind.         *)
NamesKind(kv) == "KindClusterName" \in DOMAIN kv => kv["KindClusterName"] \in KindNames

(* Flags for switches come in pairs, one for each value.                   *)
FlagsRead(flags) == NamesKind(flags) /\ \A s \in Switches \cap DOMAIN flags : flags[s] \in Truth

LEMMA SettingFacts ==
    /\ Stored \subseteq Setting /\ Guarded \subseteq Stored /\ Switches \subseteq Setting
    /\ Credentials \subseteq Setting /\ Credentials \cap Stored = {}
    /\ Credentials \cap Switches = {} /\ Switches \cap Guarded = {}
    /\ Amounts \subseteq Setting /\ Amounts \cap Switches = {}
    /\ "KindClusterName" \in Stored \ (Guarded \cup Switches \cup Amounts)
    /\ "WorkloadClusterName" \in Stored \ Switches /\ "ConfigName" \in Stored \ Switches
    /\ "InfraProvider" \in Setting \ (Stored \cup Switches \cup Credentials)
    /\ "CAPIToken" \in Credentials /\ "DigitalOceanToken" \in Credentials
BY DEF Setting, Stored, Guarded, Switches, Credentials, Amounts

-----------------------------------------------------------------------------
(* The merges.                                                             *)

LEMMA Replacing ==
    ASSUME NEW cfg, Complete(cfg), NEW new, Maps(new, Setting),
           \A s \in Switches : new[s] \in Truth, new["KindClusterName"] \in KindNames,
           NEW out, out = [cfg EXCEPT !.set = new]
    PROVE  Complete(out) /\ out.set = new /\ out.fixed = cfg.fixed
<1>1. out = [set |-> new, fixed |-> cfg.fixed]
  BY DEF Complete
<1> QED
  BY <1>1 DEF Complete

LEMMA SetChanges ==
    ASSUME NEW cfg, Complete(cfg), NEW s \in Setting, NEW v,
           s \in Switches => v \in Truth, s = "KindClusterName" => v \in KindNames
    PROVE  /\ Complete(Set(cfg, s, v)) /\ Set(cfg, s, v).fixed = cfg.fixed
           /\ Set(cfg, s, v).set[s] = v
           /\ \A t \in Setting : t # s => Set(cfg, s, v).set[t] = cfg.set[t]
BY SettingFacts DEF Set, Complete, Maps

LEMMA OverlayChanges ==
    ASSUME NEW cfg, Complete(cfg), NEW kv, NamesKind(kv)
    PROVE  /\ Complete(Overlay(cfg, kv)) /\ Overlay(cfg, kv).fixed = cfg.fixed
           /\ \A s \in Setting :
                Overlay(cfg, kv).set[s] = IF Replaceable(cfg, kv, s) THEN kv[s] ELSE cfg.set[s]
<1> DEFINE new == [s \in Setting |-> IF Replaceable(cfg, kv, s) THEN kv[s] ELSE cfg.set[s]]
<1>1. Overlay(cfg, kv) = [cfg EXCEPT !.set = new]
  BY DEF Overlay
<1>2. \A s \in Switches : new[s] \in Truth
  BY SettingFacts DEF Complete, Replaceable
<1>3. new["KindClusterName"] \in KindNames
  BY SettingFacts DEF Complete, Replaceable, NamesKind
<1>4. Maps(new, Setting)
  BY DEF Maps
<1>5. \A s \in Setting : new[s] = IF Replaceable(cfg, kv, s) THEN kv[s] ELSE cfg.set[s]
  OBVIOUS
<1> HIDE DEF new
<1>6. /\ Complete(Overlay(cfg, kv)) /\ Overlay(cfg, kv).set = new
      /\ Overlay(cfg, kv).fixed = cfg.fixed
  BY <1>1, <1>2, <1>3, <1>4, Replacing
<1> QED
  BY <1>5, <1>6

LEMMA FilledChanges ==
    ASSUME NEW cfg, Complete(cfg), NEW kv,
           DOMAIN kv \subseteq {"InfraProvider", "WorkloadClusterName", "DigitalOceanToken"}
    PROVE  /\ Complete(FilledIn(cfg, kv)) /\ FilledIn(cfg, kv).fixed = cfg.fixed
           /\ \A s \in Setting :
                s \notin DOMAIN kv \/ cfg.set[s] # "" => FilledIn(cfg, kv).set[s] = cfg.set[s]
<1> DEFINE new == [s \in Setting |->
                     IF s \in DOMAIN kv /\ cfg.set[s] = "" THEN kv[s] ELSE cfg.set[s]]
<1>1. FilledIn(cfg, kv) = [cfg EXCEPT !.set = new]
  BY DEF FilledIn
<1>2. (\A s \in Switches : s \notin DOMAIN kv) /\ "KindClusterName" \notin DOMAIN kv
  BY DEF Switches
<1>3. (\A s \in Switches : new[s] \in Truth) /\ new["KindClusterName"] \in KindNames
  BY <1>2, SettingFacts DEF Complete
<1>4. Maps(new, Setting)
  BY DEF Maps
<1>5. \A s \in Setting : s \notin DOMAIN kv \/ cfg.set[s] # "" => new[s] = cfg.set[s]
  OBVIOUS
<1> HIDE DEF new
<1>6. /\ Complete(FilledIn(cfg, kv)) /\ FilledIn(cfg, kv).set = new
      /\ FilledIn(cfg, kv).fixed = cfg.fixed
  BY <1>1, <1>3, <1>4, Replacing
<1> QED
  BY <1>5, <1>6

(* The keys a provider takes back are those of its credentials and places. *)
LEMMA RegistryKeeps ==
    ASSUME NEW name \in DOMAIN Registry
    PROVE  Registry[name] \in {Proxmox, AWS, Azure, GCP, Hetzner, OpenStack, Vsphere, OCI, IBMCloud}
BY DEF Registry

Placed == Setting \ (Stored \cup Switches \cup {"InfraProvider"})

LEMMA ProvidersTake ==
    ASSUME NEW cfg, NEW j \in ProviderFor(cfg).takes
    PROVE  j[Len(j)] \in Placed
<1> DEFINE Taking(settings) == \A k \in settings.takes : k[Len(k)] \in Placed
<1>1. Taking(Proxmox)
  BY DEF Proxmox, Placed, Setting, Stored, Switches, Credentials
<1>2. ASSUME NEW settings, settings \subseteq Placed, NEW cloud
      PROVE  Taking(Bare(settings, cloud))
  BY <1>2 DEF Bare
<1>3. /\ Taking(AWS) /\ Taking(Azure) /\ Taking(GCP) /\ Taking(Hetzner)
      /\ Taking(OpenStack) /\ Taking(Vsphere) /\ Taking(OCI) /\ Taking(IBMCloud)
  <2>1. {"AWSRegion", "AWSAMIID", "AzureSubscriptionID", "GCPProject", "HetznerLocation",
         "OpenStackCloud", "VsphereServer", "OCITenancyOCID", "IBMCloudVPCName"} \subseteq Placed
    BY DEF Placed, Setting, Stored, Switches
  <2> HIDE DEF Taking
  <2> QED
    BY <1>2, <2>1 DEF AWS, Azure, GCP, Hetzner, OpenStack, Vsphere, OCI, IBMCloud
<1>4. Taking(Bare({}, FALSE))
  BY <1>2
<1> HIDE DEF Taking
<1>5. Taking(ProviderFor(cfg))
  BY <1>1, <1>3, <1>4, RegistryKeeps DEF ProviderFor
<1> QED
  BY <1>5 DEF Taking

LEMMA AbsorbChanges ==
    ASSUME NEW cfg, Complete(cfg), NEW kv
    PROVE  /\ Complete(AbsorbConfigYAML(cfg, kv)) /\ AbsorbConfigYAML(cfg, kv).fixed = cfg.fixed
           /\ \A s \in Setting : s \notin Placed \/ cfg.set[s] # "" =>
                AbsorbConfigYAML(cfg, kv).set[s] = cfg.set[s]
           /\ \A s \in Setting : cfg.set[s] = "" =>
                /\ Offered(cfg, kv, s) = {} => AbsorbConfigYAML(cfg, kv).set[s] = ""
                /\ Offered(cfg, kv, s) # {} =>
                      AbsorbConfigYAML(cfg, kv).set[s] \in Offered(cfg, kv, s)
<1> DEFINE new == [s \in Setting |->
        IF cfg.set[s] = "" /\ Offered(cfg, kv, s) # {}
        THEN CHOOSE v \in Offered(cfg, kv, s) : TRUE ELSE cfg.set[s]]
<1>1. AbsorbConfigYAML(cfg, kv) = [cfg EXCEPT !.set = new]
  BY DEF AbsorbConfigYAML
<1>2. ASSUME NEW s \in Setting \ Placed PROVE Offered(cfg, kv, s) = {}
  BY <1>2, ProvidersTake DEF Offered
<1>3. (\A s \in Switches : new[s] \in Truth) /\ new["KindClusterName"] \in KindNames
  BY <1>2, SettingFacts DEF Complete, Placed
<1>4. Maps(new, Setting)
  BY DEF Maps
<1>5. \A s \in Setting \ Placed : new[s] = cfg.set[s]
  BY <1>2
<1>6. \A s \in Setting : cfg.set[s] # "" => new[s] = cfg.set[s]
  OBVIOUS
<1>7. \A s \in Setting : cfg.set[s] = "" =>
        /\ Offered(cfg, kv, s) = {} => new[s] = ""
        /\ Offered(cfg, kv, s) # {} => new[s] \in Offered(cfg, kv, s)
  OBVIOUS
<1> HIDE DEF new
<1>8. /\ Complete(AbsorbConfigYAML(cfg, kv)) /\ AbsorbConfigYAML(cfg, kv).set = new
      /\ AbsorbConfigYAML(cfg, kv).fixed = cfg.fixed
  BY <1>1, <1>3, <1>4, Replacing
<1> QED
  BY <1>5, <1>6, <1>7, <1>8

-----------------------------------------------------------------------------
(* A new process.                                                          *)

LEMMA Sections ==
    ASSUME NEW env, NEW keyring
    PROVE  LET load == Load(env, keyring)
           IN /\ load.fixed \subseteq Guarded
              /\ load = [set |-> load.set, fixed |-> load.fixed]
              /\ Maps(load.set, Setting)
              /\ load.set["Airgapped"] = Switch(env, "Airgapped", "false")
              /\ load.set["KyvernoEnabled"] = Switch(env, "KyvernoEnabled", "true")
              /\ load.set["PivotEnabled"] = Switch(env, "PivotEnabled", "true")
              /\ load.set["KindClusterName"] = Text(env, "KindClusterName", "")
<1> DEFINE a == LoadReleases(env)
           b == LoadTopLevel(env)
           c == LoadCosts(env)
           d == LoadClouds(env)
           e == LoadManagement(env)
           f == LoadAddOns(env)
           g == LoadIdentities(env, keyring)
           h == LoadNetwork(env)
           i == LoadClusters(env)
<1>1. /\ DOMAIN a = {"CiliumVersion"} /\ DOMAIN b = {"Airgapped"}
      /\ DOMAIN c = {"DigitalOceanToken"} /\ DOMAIN e = {"KindClusterName", "InfraProvider"}
      /\ DOMAIN g = {"CAPIToken"} /\ DOMAIN h = {"Gateway"}
  BY DEF LoadReleases, LoadTopLevel, LoadCosts, LoadManagement, LoadIdentities, LoadNetwork
<1>2. DOMAIN d = {"AWSRegion", "HetznerLocation", "AWSAMIID", "AzureSubscriptionID", "GCPProject",
                  "OpenStackCloud", "VsphereServer", "OCITenancyOCID", "IBMCloudVPCName",
                  "SystemAppsMemory"}
  BY DEF LoadClouds, ++, Amounts
<1>3. DOMAIN f = {"PostsyncHooksGitURL", "KyvernoEnabled"}
  BY DEF LoadAddOns, ++
<1>4. DOMAIN i = {"WorkloadClusterName", "WorkerMachineCount", "MgmtClusterName", "ConfigName",
                  "Pool", "PivotEnabled"}
  BY DEF LoadClusters, ++
<1>5. /\ b["Airgapped"] = Switch(env, "Airgapped", "false")
      /\ f["KyvernoEnabled"] = Switch(env, "KyvernoEnabled", "true")
      /\ i["PivotEnabled"] = Switch(env, "PivotEnabled", "true")
      /\ e["KindClusterName"] = Text(env, "KindClusterName", "")
  BY DEF LoadTopLevel, LoadAddOns, LoadClusters, LoadManagement, ++
<1>6. Load(env, keyring) = [set |-> a ++ b ++ c ++ d ++ e ++ f ++ g ++ h ++ i,
                            fixed |-> EnvFixes(env)]
  BY DEF Load
<1> HIDE DEF a, b, c, d, e, f, g, h, i
<1> DEFINE ab == a ++ b
           abc == ab ++ c
           abcd == abc ++ d
           abcde == abcd ++ e
           most == abcde ++ f ++ g ++ h
<1>7. DOMAIN ab = {"CiliumVersion", "Airgapped"} /\ ab["Airgapped"] = b["Airgapped"]
  BY <1>1 DEF ++
<1>8. /\ DOMAIN abc = DOMAIN ab \cup {"DigitalOceanToken"}
      /\ abc["Airgapped"] = b["Airgapped"]
  <2> HIDE DEF ab
  <2> QED
    BY <1>1, <1>7 DEF ++
<1>9. /\ DOMAIN abcd = DOMAIN abc \cup DOMAIN d
      /\ abcd["Airgapped"] = b["Airgapped"]
  <2> HIDE DEF abc
  <2> QED
    BY <1>7, <1>8 DEF ++
<1>10. /\ DOMAIN abcde = DOMAIN abcd \cup DOMAIN e
       /\ abcde["Airgapped"] = b["Airgapped"]
       /\ abcde["KindClusterName"] = e["KindClusterName"]
  <2> HIDE DEF abcd, abc, ab
  <2> QED
    BY <1>1, <1>2, <1>7, <1>8, <1>9 DEF ++
<1>11. /\ DOMAIN most = DOMAIN abcde \cup DOMAIN f \cup DOMAIN g \cup DOMAIN h
       /\ most["Airgapped"] = b["Airgapped"]
       /\ most["KindClusterName"] = e["KindClusterName"]
       /\ most["KyvernoEnabled"] = f["KyvernoEnabled"]
  <2>1. /\ {"Airgapped", "KindClusterName"} \subseteq DOMAIN abcde
        /\ "KyvernoEnabled" \notin DOMAIN abcde /\ "KyvernoEnabled" \in DOMAIN f
    BY <1>1, <1>2, <1>3, <1>7, <1>8, <1>9, <1>10
  <2> HIDE DEF abcde
  <2> QED
    BY <1>10, <2>1 DEF ++
<1>12. DOMAIN most \cup DOMAIN i = Setting
  BY <1>1, <1>2, <1>3, <1>4, <1>7, <1>8, <1>9, <1>10, <1>11
     DEF Setting, Stored, Switches, Amounts, Credentials
<1>13. "PivotEnabled" \notin DOMAIN most
  BY <1>1, <1>2, <1>3, <1>7, <1>8, <1>9, <1>10, <1>11
<1>14. {"Airgapped", "KindClusterName", "KyvernoEnabled"} \subseteq DOMAIN most
  BY <1>1, <1>3, <1>7, <1>8, <1>9, <1>10, <1>11
<1>15. Load(env, keyring) = [set |-> most ++ i, fixed |-> EnvFixes(env)]
  BY <1>6
<1> HIDE DEF most
<1>16. /\ Maps(most ++ i, Setting)
       /\ (most ++ i)["Airgapped"] = most["Airgapped"]
       /\ (most ++ i)["KindClusterName"] = most["KindClusterName"]
       /\ (most ++ i)["KyvernoEnabled"] = most["KyvernoEnabled"]
       /\ (most ++ i)["PivotEnabled"] = i["PivotEnabled"]
  BY <1>4, <1>12, <1>13, <1>14 DEF ++, Maps
<1>17. EnvFixes(env) \subseteq Guarded
  BY DEF EnvFixes, Guarded
<1>18. Load(env, keyring).set = most ++ i /\ Load(env, keyring).fixed = EnvFixes(env)
  BY <1>15
<1> QED
  BY <1>5, <1>11, <1>15, <1>16, <1>17, <1>18

LEMMA LoadComplete ==
    ASSUME NEW env, NamesKind(env), NEW keyring
    PROVE  Complete(Load(env, keyring))
<1>1. \A key \in {"Airgapped", "KyvernoEnabled", "PivotEnabled"}, preset \in Truth :
        Switch(env, key, preset) \in Truth
  BY DEF Switch, Readable, Text, Truth
<1>2. Text(env, "KindClusterName", "") \in KindNames
  BY DEF Text, NamesKind, KindNames
<1> QED
  <2> DEFINE load == Load(env, keyring)
  <2>1. /\ load.fixed \subseteq Guarded
        /\ load = [set |-> load.set, fixed |-> load.fixed]
        /\ Maps(load.set, Setting)
    BY Sections
  <2>2. /\ load.set["Airgapped"] = Switch(env, "Airgapped", "false")
        /\ load.set["KyvernoEnabled"] = Switch(env, "KyvernoEnabled", "true")
        /\ load.set["PivotEnabled"] = Switch(env, "PivotEnabled", "true")
        /\ load.set["KindClusterName"] = Text(env, "KindClusterName", "")
    BY Sections
  <2> HIDE DEF load
  <2>3. \A s \in Switches : load.set[s] \in Truth
    BY <1>1, <2>2 DEF Switches, Truth
  <2>4. Complete(load)
    BY <1>2, <2>1, <2>2, <2>3 DEF Complete
  <2> QED
    BY <2>4 DEF load

LEMMA FileKept ==
    ASSUME NEW cfg, Complete(cfg), NEW file, NamesKind(file)
    PROVE  Complete(ApplyYAMLFile(cfg, file))
<1> DEFINE given == {s \in DOMAIN file : file[s] # ""}
           extra == {"InfraProvider", "CAPIToken", "DigitalOceanToken"} \cap given
           over == Overlay(cfg, file).set
           read == [s \in extra |-> file[s]] ++ over
           new == IF "OldToken" \in given /\ read["CAPIToken"] = ""
                  THEN [read EXCEPT !["CAPIToken"] = file["OldToken"]] ELSE read
<1>1. Complete(Overlay(cfg, file))
  BY OverlayChanges
<1>2. /\ Maps(over, Setting) /\ over["KindClusterName"] \in KindNames
      /\ \A s \in Switches : over[s] \in Truth
  BY <1>1 DEF Complete
<1>3. extra \subseteq Setting /\ extra \cap Switches = {} /\ "KindClusterName" \notin extra
  BY DEF Setting, Switches, Credentials
<1> HIDE DEF extra, over
<1>4. DOMAIN over = Setting
  BY <1>2 DEF Maps
<1>5. /\ Maps(read, Setting) /\ read["KindClusterName"] \in KindNames
      /\ \A s \in Switches : read[s] \in Truth
  BY <1>2, <1>3, <1>4, SettingFacts DEF ++, Maps
<1> HIDE DEF read
<1>6. /\ Maps(new, Setting) /\ new["KindClusterName"] \in KindNames
      /\ \A s \in Switches : new[s] \in Truth
  BY <1>5, SettingFacts DEF Maps
<1>7. ApplyYAMLFile(cfg, file) = [cfg EXCEPT !.set = new]
  BY DEF ApplyYAMLFile, extra, over, read
<1> HIDE DEF new
<1> QED
  BY <1>6, <1>7, Replacing

LEMMA TakenKept ==
    ASSUME NEW cfg, Complete(cfg), NEW flags, FlagsRead(flags), NEW keys, keys \subseteq Setting
    PROVE  Complete(Taken(cfg, flags, keys))
<1> DEFINE taken == [s \in keys \cap DOMAIN flags |-> flags[s]]
           new == taken ++ cfg.set
<1>1. Maps(cfg.set, Setting) /\ DOMAIN cfg.set = Setting
  BY DEF Complete, Maps
<1>2. DOMAIN taken = keys \cap DOMAIN flags /\ \A s \in keys \cap DOMAIN flags : taken[s] = flags[s]
  OBVIOUS
<1>3. Taken(cfg, flags, keys) = [cfg EXCEPT !.set = new]
  BY DEF Taken
<1> HIDE DEF taken
<1>4. Maps(new, Setting)
  BY <1>1, <1>2 DEF ++, Maps
<1>5. \A s \in Setting : (s \in DOMAIN flags /\ new[s] = flags[s]) \/ new[s] = cfg.set[s]
  BY <1>1, <1>2 DEF ++
<1> HIDE DEF new
<1>6. (\A s \in Switches : new[s] \in Truth) /\ new["KindClusterName"] \in KindNames
  BY <1>5, SettingFacts DEF Complete, FlagsRead, NamesKind
<1> QED
  BY <1>3, <1>4, <1>6, Replacing

LEMMA FixingKept ==
    ASSUME NEW cfg, Complete(cfg), NEW flags, FlagsRead(flags), NEW keys, keys \subseteq Guarded
    PROVE  Complete(Fixing(cfg, flags, keys))
<1> DEFINE taken == Taken(cfg, flags, keys)
           fix == keys \cap DOMAIN flags
<1>1. Complete(taken)
  BY TakenKept, SettingFacts
<1>2. Fixing(cfg, flags, keys) = [taken EXCEPT !.fixed = @ \cup fix]
  BY DEF Fixing
<1> HIDE DEF taken
<1>3. fix \subseteq Guarded
  OBVIOUS
<1> HIDE DEF fix
<1>4. [taken EXCEPT !.fixed = @ \cup fix] = [set |-> taken.set, fixed |-> taken.fixed \cup fix]
  BY <1>1 DEF Complete
<1> QED
  BY <1>1, <1>2, <1>3, <1>4 DEF Complete

LEMMA ParseKept ==
    ASSUME NEW cfg, Complete(cfg), NEW flags, FlagsRead(flags)
    PROVE  Complete(Parse(cfg, flags))
<1>1. \A c : Complete(c) => Complete(ParseProxmox(c, flags))
  BY TakenKept DEF ParseProxmox, Setting, Stored, Credentials
<1>2. \A c : Complete(c) => Complete(ParseNetwork(c, flags))
  BY FixingKept DEF ParseNetwork, Guarded
<1>3. \A c : Complete(c) => Complete(ParseAddOns(c, flags))
  BY TakenKept DEF ParseAddOns, Only, Setting, Stored
<1>4. \A c : Complete(c) => Complete(ParseClusters(c, flags))
  BY TakenKept, FixingKept DEF ParseClusters, Guarded, Setting, Stored
<1>5. \A c : Complete(c) => Complete(ParseCosts(c, flags))
  <2> DEFINE on == Only(flags, "Airgapped", "true")
             sums == {s \in Amounts \cap DOMAIN flags : flags[s] \in Figures}
  <2>1. on \subseteq {"Airgapped"}
    BY DEF Only
  <2>2. sums \subseteq Amounts
    OBVIOUS
  <2>3. ASSUME NEW c PROVE ParseCosts(c, flags) = Taken(c, flags, on \cup sums)
    BY DEF ParseCosts
  <2> HIDE DEF on, sums
  <2>4. on \cup sums \subseteq Setting
    BY <2>1, <2>2, SettingFacts DEF Switches
  <2> QED
    BY <2>3, <2>4, TakenKept
<1>6. \A c : Complete(c) => Complete(ParseManagement(c, flags))
  BY TakenKept DEF ParseManagement, Setting, Stored
<1>7. \A c : Complete(c) => Complete(ParseProvider(c, flags))
  BY TakenKept DEF ParseProvider, Setting
<1> QED
  BY <1>1, <1>2, <1>3, <1>4, <1>5, <1>6, <1>7 DEF Parse

(* What the inputs of a process say, source by source.                     *)
LEMMA FromInputs ==
    ASSUME NEW given \in SUBSET Inputs, NEW source
    PROVE  /\ NamesKind(From(given, source))
           /\ source = "flag" => FlagsRead(From(given, source))
<1> DEFINE of == {i \in given : i[1] = source}
           m == From(given, source)
<1>1. m = [key \in {i[2] : i \in of} |-> (CHOOSE i \in of : i[2] = key)[3]]
  BY DEF From
<1>2. ASSUME NEW key \in DOMAIN m
      PROVE  \E i \in Inputs : i[1] = source /\ i[2] = key /\ m[key] = i[3]
  <2>1. \E i \in of : i[2] = key
    BY <1>1
  <2>2. PICK i \in of : i[2] = key /\ i = CHOOSE j \in of : j[2] = key
    BY <2>1
  <2>3. m[key] = i[3]
    BY <1>1, <2>2
  <2> QED
    BY <2>2, <2>3
<1> HIDE DEF m
<1>3. NamesKind(m)
  BY <1>2, InputsAssumption DEF NamesKind, KindNames
<1>4. ASSUME source = "flag", NEW s \in Switches \cap DOMAIN m
      PROVE  m[s] \in Truth
  <2>1. PICK i \in Inputs : i[1] = source /\ i[2] = s /\ m[s] = i[3]
    BY <1>2
  <2>2. i[3] \in Truth
    BY <1>4, <2>1, InputsAssumption
  <2> QED
    BY <2>1, <2>2
<1> QED
  BY <1>3, <1>4 DEF m, FlagsRead

LEMMA ConfigureComplete ==
    ASSUME NEW given \in SUBSET Inputs
    PROVE  Complete(Configure(From(given, "env"), "", From(given, "file"), From(given, "flag")))
BY FromInputs, LoadComplete, FileKept, ParseKept DEF Configure
-----------------------------------------------------------------------------
(* The inductive invariant.                                                *)

SecretParts == {"label", "workload", "status", "plain", "fields", "snapshot", "was"}

(* The Secret of a configuration says what it was made from, under the     *)
(* keys that a run reads back.                                             *)
Faithful(c, l, sec) ==
    /\ Maps(sec, SecretParts)
    /\ sec.label = l
    /\ Label(l) = l
    /\ sec.was["KindClusterName"] = c
    /\ \A s \in Switches : sec.was[s] \in Truth
    /\ DOMAIN sec.plain \subseteq {"InfraProvider", "WorkloadClusterName", "DigitalOceanToken"}
    /\ DOMAIN sec.snapshot = {t \in Stored : sec.was[t] # ""}
    /\ \A s \in DOMAIN sec.snapshot : sec.snapshot[s] = sec.was[s]
    /\ sec.was["InfraProvider"] = "proxmox" =>
          LET token == <<"proxmox", "CAPIToken">>
          IN /\ <<"CAPIToken">> \notin DOMAIN sec.fields
             /\ token \in DOMAIN sec.fields <=> sec.was["CAPIToken"] # ""
             /\ token \in DOMAIN sec.fields => sec.fields[token] = sec.was["CAPIToken"]

ConfigsInv ==
    /\ Maps(configs, KindClusters)
    /\ \A c \in KindClusters :
         /\ Maps(configs[c], DOMAIN configs[c])
         /\ \A l \in DOMAIN configs[c] : Faithful(c, l, configs[c][l])

SharedInv ==
    /\ Maps(shared, KindClusters)
    /\ \A c \in KindClusters : DOMAIN shared[c] \subseteq Stored /\ NamesKind(shared[c])

(* What is not there holds nothing.                                        *)
ClustersInv ==
    /\ clusters \subseteq KindClusters /\ current \in clusters \cup {None}
    /\ Maps(built, KindClusters)
    /\ \A c \in KindClusters \ clusters :
         DOMAIN configs[c] = {} /\ DOMAIN shared[c] = {} /\ built[c] = {}

Before == {"off", "recall", "form", "filling", "install"}
OnKind == {"select", "kind", "create", "workload", "promote"}

Parts == {"pc", "cfg", "given", "picked", "chosen", "style"}

(* A process has a complete configuration; nothing is picked before the    *)
(* recall, and kind has a name from the install on.                        *)
Running(r) ==
    /\ Maps(r, Parts)
    /\ r.pc \in Before \cup OnKind
    /\ Complete(r.cfg)
    /\ r.pc \in {"off", "recall"} => r.picked = None
    /\ r.pc \in OnKind => r.cfg.set["KindClusterName"] \in KindClusters

RunsInv == Maps(runs, Runners) /\ \A p \in Runners : Running(runs[p])

IInv == ConfigsInv /\ SharedInv /\ ClustersInv /\ RunsInv /\ begun \in 0 .. MaxRuns

-----------------------------------------------------------------------------
(* The merges of a run.                                                    *)

LEMMA SnapshotSays ==
    ASSUME NEW cfg, Complete(cfg)
    PROVE  /\ DOMAIN Snapshot(cfg) = {t \in Stored : cfg.set[t] # ""}
           /\ \A s \in DOMAIN Snapshot(cfg) : Snapshot(cfg)[s] = cfg.set[s]
           /\ NamesKind(Snapshot(cfg))
BY DEF Snapshot, NamesKind, Complete

(* What is read back has the same settings, none of them emptied.          *)
LEMMA ParsedSays ==
    ASSUME NEW kv
    PROVE  /\ DOMAIN Parsed(kv) = DOMAIN kv
           /\ \A s \in DOMAIN kv :
                /\ kv[s] \notin DOMAIN Hashed => Parsed(kv)[s] = kv[s]
                /\ kv[s] # "" => Parsed(kv)[s] # ""
BY HashedAssumption DEF Parsed

LEMMA KindUnhashed ==
    ASSUME NEW kv, NamesKind(kv)
    PROVE  /\ NamesKind(Parsed(kv))
           /\ "KindClusterName" \in DOMAIN kv =>
                Parsed(kv)["KindClusterName"] = kv["KindClusterName"]
<1>1. KindNames \cap DOMAIN Hashed = {}
  BY InputsAssumption, HashedAssumption DEF KindNames
<1> QED
  BY <1>1, ParsedSays DEF NamesKind

LEMMA SecretFaithful ==
    ASSUME NEW cfg, Complete(cfg), NEW c, cfg.set["KindClusterName"] = c
    PROVE  /\ ConfigSecret(cfg).label = Label(cfg.set["ConfigName"])
           /\ Faithful(c, Label(cfg.set["ConfigName"]), ConfigSecret(cfg))
<1> DEFINE sec == ConfigSecret(cfg)
           kept == {s \in ProviderFor(cfg).keeps : cfg.set[s] # ""}
           plain == {s \in {"InfraProvider", "WorkloadClusterName", "DigitalOceanToken"} :
                        cfg.set[s] # ""}
<1>1. sec = [label |-> Label(cfg.set["ConfigName"]),
             workload |-> Label(cfg.set["WorkloadClusterName"]),
             status |-> "draft",
             plain |-> [s \in plain |-> cfg.set[s]],
             fields |-> [k \in {<<cfg.set["InfraProvider"], s>> : s \in kept} |-> cfg.set[k[2]]],
             snapshot |-> Snapshot(cfg),
             was |-> cfg.set]
  BY DEF ConfigSecret
<1> HIDE DEF sec
<1>2. Label(Label(cfg.set["ConfigName"])) = Label(cfg.set["ConfigName"])
  BY DEF Label
<1>3. sec.was = cfg.set /\ sec.snapshot = Snapshot(cfg) /\ DOMAIN sec.plain = plain
  BY <1>1
<1>4. ASSUME cfg.set["InfraProvider"] = "proxmox"
      PROVE  LET token == <<"proxmox", "CAPIToken">>
             IN /\ <<"CAPIToken">> \notin DOMAIN sec.fields
                /\ token \in DOMAIN sec.fields <=> sec.was["CAPIToken"] # ""
                /\ token \in DOMAIN sec.fields => sec.fields[token] = sec.was["CAPIToken"]
  <2>1. ProviderFor(cfg) = Proxmox
    <3>1. "proxmox" \in DOMAIN Registry /\ Registry["proxmox"] = Proxmox
      BY DEF Registry
    <3>2. ~ Proxmox.cloud
      BY DEF Proxmox
    <3> QED
      BY <1>4, <3>1, <3>2 DEF ProviderFor
  <2>2. kept = {s \in {"CAPIToken", "Pool"} : cfg.set[s] # ""}
    BY <2>1 DEF Proxmox
  <2> HIDE DEF kept
  <2> DEFINE keys == {<<"proxmox", s>> : s \in kept}
  <2>3. sec.fields = [k \in {<<cfg.set["InfraProvider"], s>> : s \in kept} |-> cfg.set[k[2]]]
    BY <1>1
  <2>4. {<<cfg.set["InfraProvider"], s>> : s \in kept} = keys
    BY <1>4
  <2>5. /\ <<"CAPIToken">> \notin keys
        /\ <<"proxmox", "CAPIToken">> \in keys <=> cfg.set["CAPIToken"] # ""
    BY <2>2
  <2> HIDE DEF keys
  <2>6. /\ DOMAIN sec.fields = keys
        /\ <<"proxmox", "CAPIToken">> \in keys =>
              sec.fields[<<"proxmox", "CAPIToken">>] = cfg.set["CAPIToken"]
    BY <2>3, <2>4
  <2> QED
    BY <1>3, <2>5, <2>6
<1>5. plain \subseteq {"InfraProvider", "WorkloadClusterName", "DigitalOceanToken"}
  OBVIOUS
<1> HIDE DEF plain, kept
<1>6. sec.label = Label(cfg.set["ConfigName"])
  BY <1>1
<1>7. Maps(sec, SecretParts)
  BY <1>1 DEF Maps, SecretParts
<1>8. sec.was["KindClusterName"] = c /\ \A s \in Switches : sec.was[s] \in Truth
  BY <1>3 DEF Complete
<1>9. /\ DOMAIN sec.snapshot = {t \in Stored : sec.was[t] # ""}
      /\ \A s \in DOMAIN sec.snapshot : sec.snapshot[s] = sec.was[s]
  BY <1>3, SnapshotSays
<1>10. DOMAIN sec.plain \subseteq {"InfraProvider", "WorkloadClusterName", "DigitalOceanToken"}
  BY <1>3, <1>5
<1>11. sec.was["InfraProvider"] = "proxmox" =>
          LET token == <<"proxmox", "CAPIToken">>
          IN /\ <<"CAPIToken">> \notin DOMAIN sec.fields
             /\ token \in DOMAIN sec.fields <=> sec.was["CAPIToken"] # ""
             /\ token \in DOMAIN sec.fields => sec.fields[token] = sec.was["CAPIToken"]
  BY <1>3, <1>4
<1>12. Faithful(c, sec.label, sec)
  BY <1>2, <1>6, <1>7, <1>8, <1>9, <1>10, <1>11 DEF Faithful
<1> QED
  BY <1>6, <1>12 DEF sec

(* A setting that a merge must not touch.                                  *)
Firmly(cfg, s) ==
    \/ s \in {"Gateway", "Pool", "MgmtClusterName"} \cap cfg.fixed
    \/ s \in Credentials /\ cfg.set[s] # ""

(* One merge after another: complete, with the same guards, and what was   *)
(* fixed or supplied as it was.                                            *)
Merges(cfg, new) ==
    /\ Complete(new) /\ new.fixed = cfg.fixed
    /\ \A s \in Setting : Firmly(cfg, s) => new.set[s] = cfg.set[s]

LEMMA MergesCompose ==
    ASSUME NEW a, NEW b, NEW c, Merges(a, b), Merges(b, c)
    PROVE  Merges(a, c)
BY SettingFacts DEF Merges, Firmly

LEMMA SettingMerges ==
    ASSUME NEW cfg, Complete(cfg), NEW s \in {"KindClusterName", "ConfigName", "WorkloadClusterName"},
           NEW v, s = "KindClusterName" => v \in KindNames
    PROVE  Merges(cfg, Set(cfg, s, v))
<1>1. s \in Setting /\ s \notin Switches /\ s \notin {"Gateway", "Pool", "MgmtClusterName"}
      /\ s \notin Credentials
  BY DEF Setting, Stored, Switches, Credentials
<1>2. \A t \in Setting : Firmly(cfg, t) => t # s
  BY <1>1 DEF Firmly
<1> QED
  BY <1>1, <1>2, SetChanges DEF Merges

LEMMA OverlayMerges ==
    ASSUME NEW cfg, Complete(cfg), NEW kv, NamesKind(kv)
    PROVE  Merges(cfg, Overlay(cfg, kv))
<1>1. \A s \in Setting : Firmly(cfg, s) => ~ Replaceable(cfg, kv, s)
  BY SettingFacts DEF Firmly, Replaceable, Guarded
<1> QED
  BY <1>1, OverlayChanges DEF Merges

LEMMA FilledMerges ==
    ASSUME NEW cfg, Complete(cfg), NEW kv,
           DOMAIN kv \subseteq {"InfraProvider", "WorkloadClusterName", "DigitalOceanToken"}
    PROVE  Merges(cfg, FilledIn(cfg, kv))
<1>1. \A s \in Setting : Firmly(cfg, s) => s \notin DOMAIN kv \/ cfg.set[s] # ""
  BY DEF Firmly
<1> QED
  BY <1>1, FilledChanges DEF Merges

LEMMA AbsorbMerges ==
    ASSUME NEW cfg, Complete(cfg), NEW kv
    PROVE  Merges(cfg, AbsorbConfigYAML(cfg, kv))
<1>1. \A s \in Setting : Firmly(cfg, s) => s \notin Placed \/ cfg.set[s] # ""
  BY DEF Firmly, Placed, Stored
<1>2. /\ Complete(AbsorbConfigYAML(cfg, kv)) /\ AbsorbConfigYAML(cfg, kv).fixed = cfg.fixed
      /\ \A s \in Setting : s \notin Placed \/ cfg.set[s] # "" =>
           AbsorbConfigYAML(cfg, kv).set[s] = cfg.set[s]
  BY AbsorbChanges
<1> QED
  BY <1>1, <1>2 DEF Merges

(* The shared settings of a cluster: kind keeps a name that it has.        *)
LEMMA SharedMerges ==
    ASSUME IInv, NEW cfg, Complete(cfg)
    PROVE  /\ Merges(cfg, MergeShared(cfg))
           /\ cfg.set["KindClusterName"] \in KindClusters =>
                MergeShared(cfg).set["KindClusterName"] \in KindClusters
<1> DEFINE c == Context(cfg)
           kv == Parsed(shared[c])
           over == Overlay(cfg, kv)
<1>1. CASE c = None
  BY <1>1, SettingFacts DEF MergeShared, Merges
<1>2. CASE c # None
  <2>1. c \in KindClusters
    BY <1>2 DEF Context, IInv, ClustersInv
  <2> HIDE DEF c
  <2>2. NamesKind(kv)
    BY <2>1, KindUnhashed DEF IInv, SharedInv
  <2> HIDE DEF kv
  <2>3. Merges(cfg, over)
    BY <2>2, OverlayMerges
  <2>4. cfg.set["KindClusterName"] \in KindClusters => over.set["KindClusterName"] \in KindClusters
    <3>1. over.set["KindClusterName"] = IF Replaceable(cfg, kv, "KindClusterName")
                                        THEN kv["KindClusterName"]
                                        ELSE cfg.set["KindClusterName"]
      BY <2>2, OverlayChanges, SettingFacts
    <3> QED
      BY <2>2, <3>1 DEF Replaceable, NamesKind, KindNames
  <2> HIDE DEF over
  <2>5. Complete(over)
    BY <2>3 DEF Merges
  <2>6. Merges(over, AbsorbConfigYAML(over, Vault))
    BY <2>5, AbsorbMerges
  <2>7. AbsorbConfigYAML(over, Vault).set["KindClusterName"] = over.set["KindClusterName"]
    <3>1. "KindClusterName" \in Setting \ Placed
      BY SettingFacts DEF Placed
    <3> QED
      BY <2>5, <3>1, AbsorbChanges
  <2>8. MergeShared(cfg) = AbsorbConfigYAML(over, Vault)
    BY <1>2 DEF MergeShared, over, kv, c
  <2> QED
    BY <2>3, <2>4, <2>6, <2>7, <2>8, MergesCompose
<1> QED
  BY <1>1, <1>2

(* The configuration on a cluster: what it was made from comes back.       *)
ComesBack(cfg, sec, new) ==
    /\ Merges(cfg, new)
    /\ \A s \in Stored \ new.fixed :
         sec.was[s] \notin {""} \cup DOMAIN Hashed => new.set[s] = sec.was[s]
    /\ new.set["InfraProvider"] = "proxmox" /\ sec.was["InfraProvider"] = "proxmox" =>
         cfg.set["CAPIToken"] # "" \/ new.set["CAPIToken"] = sec.was["CAPIToken"]

LEMMA RecallsConfig ==
    ASSUME IInv, NEW cfg, Complete(cfg), NEW c \in clusters, NEW l \in DOMAIN configs[c],
           c = cfg.set["KindClusterName"], l = Label(cfg.set["ConfigName"])
    PROVE  /\ ComesBack(cfg, configs[c][l], MergeConfig(cfg))
           /\ MergeConfig(cfg).set["KindClusterName"] = c
<1> DEFINE sec == configs[c][l]
           new == MergeConfig(cfg)
           filled == FilledIn(cfg, sec.plain)
           taken == AbsorbConfigYAML(filled, sec.fields)
<1>1. c \in KindClusters
  BY DEF IInv, ClustersInv
<1>2. Faithful(c, l, sec)
  BY <1>1 DEF IInv, ConfigsInv
<1>3. new = Overlay(taken, Parsed(sec.snapshot))
  BY DEF MergeConfig
<1> HIDE DEF new, sec
<1>4. /\ DOMAIN sec.plain \subseteq {"InfraProvider", "WorkloadClusterName", "DigitalOceanToken"}
      /\ DOMAIN sec.snapshot = {t \in Stored : sec.was[t] # ""}
      /\ \A s \in DOMAIN sec.snapshot : sec.snapshot[s] = sec.was[s]
      /\ sec.was["KindClusterName"] = c
      /\ \A s \in Switches : sec.was[s] \in Truth
  BY <1>2 DEF Faithful
<1> DEFINE kept == Parsed(sec.snapshot)
<1>5. NamesKind(kept) /\ ("KindClusterName" \in DOMAIN kept => kept["KindClusterName"] = c)
  <2>1. NamesKind(sec.snapshot)
    BY <1>1, <1>4 DEF NamesKind, KindNames
  <2>2. "KindClusterName" \in DOMAIN sec.snapshot => sec.snapshot["KindClusterName"] = c
    BY <1>4
  <2> QED
    BY <2>1, <2>2, KindUnhashed, ParsedSays
<1>P. /\ DOMAIN kept = {t \in Stored : sec.was[t] # ""}
      /\ \A s \in DOMAIN kept : sec.was[s] \notin DOMAIN Hashed => kept[s] = sec.was[s]
      /\ \A s \in DOMAIN kept : kept[s] # ""
  BY <1>4, ParsedSays
<1> HIDE DEF kept
<1>6. Merges(cfg, filled)
  BY <1>4, FilledMerges
<1>7. Complete(filled)
  BY <1>6 DEF Merges
<1>8. filled.set["KindClusterName"] = c /\ filled.set["CAPIToken"] = cfg.set["CAPIToken"]
  <2>1. {"KindClusterName", "CAPIToken"} \subseteq Setting
    BY SettingFacts
  <2>2. \A s \in Setting \ DOMAIN sec.plain : filled.set[s] = cfg.set[s]
    <3> DEFINE kv == sec.plain
    <3>1. DOMAIN kv \subseteq {"InfraProvider", "WorkloadClusterName", "DigitalOceanToken"}
      BY <1>4
    <3> HIDE DEF kv
    <3>2. \A s \in Setting :
            s \notin DOMAIN kv \/ cfg.set[s] # "" => FilledIn(cfg, kv).set[s] = cfg.set[s]
      BY <3>1, FilledChanges
    <3> QED
      BY <3>2 DEF kv
  <2>3. {"KindClusterName", "CAPIToken"} \cap DOMAIN sec.plain = {}
    BY <1>4
  <2> QED
    BY <2>1, <2>2, <2>3
<1> HIDE DEF filled
<1>9. Merges(filled, taken)
  BY <1>7, AbsorbMerges
<1>10. Complete(taken)
  BY <1>9 DEF Merges
<1>11. /\ taken.set["KindClusterName"] = c
       /\ taken.set["InfraProvider"] = filled.set["InfraProvider"]
  <2>1. {"KindClusterName", "InfraProvider"} \subseteq Setting \ Placed
    BY SettingFacts DEF Placed
  <2>2. \A s \in Setting \ Placed : taken.set[s] = filled.set[s]
    <3> DEFINE kv == sec.fields
    <3> HIDE DEF kv
    <3>1. \A s \in Setting : s \notin Placed \/ filled.set[s] # "" =>
            AbsorbConfigYAML(filled, kv).set[s] = filled.set[s]
      BY <1>7, AbsorbChanges
    <3> QED
      BY <3>1 DEF kv
  <2> QED
    BY <1>8, <2>1, <2>2
<1>12. filled.set["CAPIToken"] = "" =>
         /\ Offered(filled, sec.fields, "CAPIToken") = {} => taken.set["CAPIToken"] = ""
         /\ Offered(filled, sec.fields, "CAPIToken") # {} =>
               taken.set["CAPIToken"] \in Offered(filled, sec.fields, "CAPIToken")
  BY <1>7, AbsorbChanges, SettingFacts
<1> HIDE DEF taken
<1>13. Merges(taken, new)
  <2>1. new = Overlay(taken, kept)
    BY <1>3 DEF kept
  <2> QED
    BY <1>5, <1>10, <2>1, OverlayMerges
<1>14. /\ new.fixed = taken.fixed
       /\ \A s \in Setting : new.set[s] = IF Replaceable(taken, kept, s)
                                          THEN kept[s] ELSE taken.set[s]
  <2>1. Complete(taken) /\ NamesKind(kept) /\ new = Overlay(taken, kept)
    BY <1>3, <1>5, <1>10 DEF kept
  <2> QED
    BY <2>1, OverlayChanges
<1>15. Merges(cfg, new)
  BY <1>6, <1>9, <1>13, MergesCompose
<1>16. new.set["KindClusterName"] = c
  BY <1>5, <1>11, <1>14, SettingFacts DEF Replaceable
<1>17. ASSUME NEW s \in Stored \ new.fixed, sec.was[s] \notin {""} \cup DOMAIN Hashed
       PROVE  new.set[s] = sec.was[s]
  <2>1. s \in DOMAIN kept /\ kept[s] = sec.was[s] /\ kept[s] # ""
    BY <1>P, <1>17
  <2>2. Replaceable(taken, kept, s)
    BY <1>4, <1>14, <1>17, <2>1 DEF Replaceable
  <2> QED
    BY <1>14, <2>1, <2>2, SettingFacts
<1>18. ASSUME new.set["InfraProvider"] = "proxmox", sec.was["InfraProvider"] = "proxmox",
              cfg.set["CAPIToken"] = ""
       PROVE  new.set["CAPIToken"] = sec.was["CAPIToken"]
  <2>1. new.set["InfraProvider"] = taken.set["InfraProvider"]
        /\ new.set["CAPIToken"] = taken.set["CAPIToken"]
    BY <1>14, SettingFacts DEF Replaceable
  <2>2. ProviderFor(filled) = Proxmox
    <3>1. "proxmox" \in DOMAIN Registry /\ Registry["proxmox"] = Proxmox /\ ~ Proxmox.cloud
      BY DEF Registry, Proxmox
    <3> QED
      BY <1>11, <1>18, <2>1, <3>1 DEF ProviderFor
  <2>3. ProviderFor(filled).takes = {<<"proxmox", "CAPIToken">>, <<"CAPIToken">>}
    BY <2>2 DEF Proxmox
  <2> DEFINE token == <<"proxmox", "CAPIToken">>
  <2>4. /\ <<"CAPIToken">> \notin DOMAIN sec.fields
        /\ token \in DOMAIN sec.fields <=> sec.was["CAPIToken"] # ""
        /\ token \in DOMAIN sec.fields => sec.fields[token] = sec.was["CAPIToken"]
    BY <1>2, <1>18 DEF Faithful
  <2>5. token[Len(token)] = "CAPIToken"
    OBVIOUS
  <2>6. Offered(filled, sec.fields, "CAPIToken") = {sec.was["CAPIToken"]} \ {""}
    <3> DEFINE keys == {j \in DOMAIN sec.fields \cap ProviderFor(filled).takes :
                          j[Len(j)] = "CAPIToken"}
    <3>1. keys = IF sec.was["CAPIToken"] # "" THEN {token} ELSE {}
      BY <2>3, <2>4, <2>5
    <3>2. Offered(filled, sec.fields, "CAPIToken") = {sec.fields[k] : k \in keys} \ {""}
      BY DEF Offered
    <3> HIDE DEF keys, token
    <3> QED
      BY <2>4, <3>1, <3>2
  <2> QED
    BY <1>8, <1>12, <1>18, <2>1, <2>6
<1>19. ComesBack(cfg, sec, new)
  BY <1>15, <1>17, <1>18 DEF ComesBack
<1> QED
  BY <1>16, <1>19 DEF sec, new

LEMMA ConfigMerges ==
    ASSUME IInv, NEW cfg, Complete(cfg)
    PROVE  Merges(cfg, MergeConfig(cfg))
<1> DEFINE c == cfg.set["KindClusterName"]
           l == Label(cfg.set["ConfigName"])
<1>1. CASE c \notin clusters \/ l \notin DOMAIN configs[c]
  BY <1>1 DEF MergeConfig, Merges
<1>2. CASE c \in clusters /\ l \in DOMAIN configs[c]
  BY <1>2, RecallsConfig DEF ComesBack
<1> QED
  BY <1>1, <1>2

(* The candidate a run picks, likewise.                                    *)
LEMMA CandidateRecalled ==
    ASSUME IInv, NEW cfg, Complete(cfg), NEW c \in clusters, NEW l \in DOMAIN configs[c]
    PROVE  /\ ComesBack(cfg, configs[c][l], ApplyCandidate(cfg, c, configs[c][l]))
           /\ ApplyCandidate(cfg, c, configs[c][l]).set["KindClusterName"] = c
<1> DEFINE sec == configs[c][l]
           new == ApplyCandidate(cfg, c, sec)
           flagged == "WorkloadClusterName" \in cfg.fixed \/ sec.workload = ""
           here == Set(cfg, "KindClusterName", c)
           there == Set(here, "ConfigName", l)
           start == IF flagged THEN there ELSE Set(there, "WorkloadClusterName", sec.workload)
<1>1. c \in KindClusters
  BY DEF IInv, ClustersInv
<1>2. Faithful(c, l, sec)
  BY <1>1 DEF IInv, ConfigsInv
<1>3. sec.label = l /\ Label(l) = l
  <2> HIDE DEF sec
  <2> QED
    BY <1>2 DEF Faithful
<1>4. new = MergeConfig(start)
  BY <1>3 DEF ApplyCandidate
<1> HIDE DEF sec, flagged
<1>N. /\ {"KindClusterName", "ConfigName", "WorkloadClusterName", "CAPIToken"} \subseteq Setting
      /\ {"KindClusterName", "ConfigName", "WorkloadClusterName"} \cap Switches = {}
  BY SettingFacts DEF Switches
<1>5. Merges(cfg, here) /\ here.set["KindClusterName"] = c
      /\ here.set["CAPIToken"] = cfg.set["CAPIToken"]
  <2>1. c \in KindNames
    BY <1>1 DEF KindNames
  <2>2. Merges(cfg, here)
    BY <2>1, SettingMerges
  <2>3. /\ here.set["KindClusterName"] = c
        /\ \A t \in Setting : t # "KindClusterName" => here.set[t] = cfg.set[t]
    BY <1>N, <2>1, SetChanges
  <2> QED
    BY <1>N, <2>2, <2>3
<1> HIDE DEF here
<1>6. /\ Merges(here, there) /\ there.set["KindClusterName"] = c /\ there.set["ConfigName"] = l
      /\ there.set["CAPIToken"] = cfg.set["CAPIToken"]
  <2>1. Complete(here)
    BY <1>5 DEF Merges
  <2>2. Merges(here, there)
    BY <2>1, SettingMerges
  <2>3. /\ there.set["ConfigName"] = l
        /\ \A t \in Setting : t # "ConfigName" => there.set[t] = here.set[t]
    BY <1>N, <2>1, SetChanges
  <2> QED
    BY <1>N, <1>5, <2>2, <2>3
<1> HIDE DEF there
<1>7. /\ Merges(there, start) /\ start.set["KindClusterName"] = c /\ start.set["ConfigName"] = l
      /\ start.set["CAPIToken"] = cfg.set["CAPIToken"]
  <2>1. Complete(there)
    BY <1>6 DEF Merges
  <2>2. Merges(there, there)
    BY <2>1 DEF Merges
  <2>3. LET other == Set(there, "WorkloadClusterName", sec.workload)
        IN /\ Merges(there, other) /\ other.set["KindClusterName"] = c
           /\ other.set["ConfigName"] = l /\ other.set["CAPIToken"] = cfg.set["CAPIToken"]
    <3> DEFINE other == Set(there, "WorkloadClusterName", sec.workload)
    <3>1. Merges(there, other)
      BY <2>1, SettingMerges
    <3>2. \A t \in Setting : t # "WorkloadClusterName" => other.set[t] = there.set[t]
      BY <1>N, <2>1, SetChanges
    <3> QED
      BY <1>N, <1>6, <3>1, <3>2
  <2> QED
    BY <1>6, <2>2, <2>3
<1> HIDE DEF start
<1>8. Merges(cfg, start) /\ Complete(start)
  <2>1. Merges(cfg, there)
    BY <1>5, <1>6, MergesCompose
  <2>2. Merges(cfg, start)
    BY <1>7, <2>1, MergesCompose
  <2> QED
    BY <2>2 DEF Merges
<1>9. ComesBack(start, sec, new) /\ new.set["KindClusterName"] = c
  <2>1. l = Label(start.set["ConfigName"]) /\ c = start.set["KindClusterName"]
    BY <1>3, <1>7
  <2>2. ComesBack(start, configs[c][l], MergeConfig(start))
        /\ MergeConfig(start).set["KindClusterName"] = c
    BY <1>8, <2>1, RecallsConfig
  <2> QED
    BY <1>4, <2>2 DEF sec
<1> HIDE DEF new
<1>10. Merges(cfg, new)
  BY <1>8, <1>9, MergesCompose DEF ComesBack
<1>11. ComesBack(cfg, sec, new)
  BY <1>7, <1>9, <1>10 DEF ComesBack
<1> QED
  BY <1>9, <1>11 DEF sec, new
-----------------------------------------------------------------------------
(* The steps of a process.                                                 *)

(* A process that goes on has only merged since, but for the form.         *)
Carries(p) ==
    runs[p].pc \notin {"off", "filling"} /\ runs'[p].pc # "off" => Merges(runs[p].cfg, runs'[p].cfg)

(* A step of p: the processes stay as they should be, and only p moves.    *)
Onward(p) ==
    RunsInv' /\ (\A q \in Runners : Carries(q)) /\ (\A q \in Runners \ {p} : runs'[q] = runs[q])

LEMMA IdleRuns == Running(Idle) /\ Idle.pc = "off"
<1>1. NamesKind(Nothing)
  BY DEF NamesKind, Nothing
<1>2. Complete(Idle.cfg)
  BY <1>1, LoadComplete DEF Idle
<1>3. Maps(Idle, Parts)
  BY DEF Idle, Maps, Parts
<1>4. Idle.pc = "off" /\ Idle.picked = None
  BY DEF Idle
<1> QED
  BY <1>2, <1>3, <1>4 DEF Running, Before, OnKind

LEMMA GoesOn ==
    ASSUME RunsInv, NEW p \in Runners, NEW r, Running(r),
           r.pc = "off" \/ runs[p].pc \in {"off", "filling"} \/ Merges(runs[p].cfg, r.cfg),
           runs' = [runs EXCEPT ![p] = r]
    PROVE  Onward(p) /\ runs'[p] = r
<1>1. runs'[p] = r /\ \A q \in Runners \ {p} : runs'[q] = runs[q]
  BY DEF RunsInv, Maps
<1>2. Maps(runs', Runners)
  BY DEF RunsInv, Maps
<1>3. \A q \in Runners : Running(runs'[q])
  BY <1>1 DEF RunsInv
<1>4. ASSUME NEW q \in Runners PROVE Carries(q)
  <2>1. CASE q = p
    BY <1>1, <2>1 DEF Carries
  <2>2. CASE q # p
    BY <1>1, <2>2 DEF Carries, Merges, RunsInv, Running
  <2> QED
    BY <2>1, <2>2
<1> QED
  BY <1>1, <1>2, <1>3, <1>4 DEF RunsInv, Onward

LEMMA BecomeGoesOn ==
    ASSUME RunsInv, NEW p \in Runners, NEW pc \in Before \cup OnKind, pc # "recall",
           NEW cfg, Complete(cfg),
           pc \in OnKind => cfg.set["KindClusterName"] \in KindClusters,
           pc = "off" \/ runs[p].pc \in {"off", "filling"} \/ Merges(runs[p].cfg, cfg),
           Become(p, pc, cfg)
    PROVE  Onward(p) /\ (pc # "off" => runs'[p].cfg = cfg /\ runs'[p].picked = runs[p].picked)
<1> DEFINE r == IF pc = "off" THEN Idle ELSE [runs[p] EXCEPT !.pc = pc, !.cfg = cfg]
<1>1. runs' = [runs EXCEPT ![p] = r]
  BY DEF Become, RunsInv, Maps
<1>2. Running(runs[p])
  BY DEF RunsInv
<1>3. CASE pc = "off"
  <2>1. Running(r) /\ r.pc = "off"
    BY <1>3, IdleRuns
  <2> HIDE DEF r
  <2> QED
    BY <1>1, <1>3, <2>1, GoesOn
<1>4. CASE pc # "off"
  <2>2. Maps(r, Parts) /\ r.pc = pc /\ r.cfg = cfg /\ r.picked = runs[p].picked
    BY <1>2, <1>4 DEF Running, Maps, Parts
  <2> HIDE DEF r
  <2>3. Running(r)
    BY <1>4, <2>2 DEF Running
  <2> QED
    BY <1>1, <1>4, <2>2, <2>3, GoesOn
<1> QED
  BY <1>3, <1>4

LEMMA StartOnward ==
    ASSUME IInv, NEW p \in Runners, Start(p)
    PROVE  Onward(p)
<1>1. PICK given \in Choices, style \in Styles :
        /\ runs[p].pc = "off"
        /\ runs' = [runs EXCEPT ![p] =
             [Idle EXCEPT !.pc = "recall", !.given = given, !.style = style,
                          !.cfg = Configure(From(given, "env"), "", From(given, "file"),
                                            From(given, "flag"))]]
  BY DEF Start
<1> DEFINE cfg == Configure(From(given, "env"), "", From(given, "file"), From(given, "flag"))
           r == [Idle EXCEPT !.pc = "recall", !.given = given, !.style = style, !.cfg = cfg]
<1>2. Complete(cfg)
  BY ConfigureComplete DEF Choices
<1> HIDE DEF cfg
<1>3. Maps(r, Parts) /\ r.pc = "recall" /\ r.cfg = cfg /\ r.picked = None
  <2>1. Running(Idle) /\ Idle.picked = None
    BY IdleRuns DEF Running
  <2> QED
    BY <2>1 DEF Running, Maps, Parts
<1> HIDE DEF r
<1>4. Running(r)
  BY <1>2, <1>3 DEF Running, Before, OnKind
<1>5. runs' = [runs EXCEPT ![p] = r]
  BY <1>1 DEF r, cfg
<1> QED
  BY <1>1, <1>4, <1>5, GoesOn DEF IInv

LEMMA AfterIs ==
    ASSUME NEW p, NEW cfg
    PROVE  After(p, cfg) \in {"form", "off", "install"}
BY DEF After

LEMMA RecallOnward ==
    ASSUME IInv, NEW p \in Runners, Recall(p)
    PROVE  /\ Onward(p)
           /\ runs'[p].pc # "off" =>
                /\ Named(p) => runs'[p].cfg = MergeConfig(runs[p].cfg)
                /\ runs'[p].picked = None
<1> DEFINE cfg == IF Named(p) THEN MergeConfig(runs[p].cfg) ELSE runs[p].cfg
           pc == After(p, cfg)
<1>1. Become(p, pc, cfg) /\ runs[p].pc = "recall"
  BY DEF Recall
<1>2. Running(runs[p]) /\ RunsInv
  BY DEF IInv, RunsInv
<1>3. Complete(runs[p].cfg) /\ runs[p].picked = None
  BY <1>1, <1>2 DEF Running
<1>4. Merges(runs[p].cfg, cfg)
  BY <1>3, ConfigMerges DEF Merges
<1>5. pc \in {"form", "off", "install"}
  BY AfterIs
<1>6. cfg = IF Named(p) THEN MergeConfig(runs[p].cfg) ELSE runs[p].cfg
  OBVIOUS
<1> HIDE DEF cfg, pc
<1>7. Complete(cfg) /\ pc \in Before \cup OnKind /\ pc \notin OnKind /\ pc # "recall"
  BY <1>4, <1>5 DEF Merges, Before, OnKind
<1>8. Onward(p) /\ (pc # "off" => runs'[p].cfg = cfg /\ runs'[p].picked = runs[p].picked)
  BY <1>1, <1>2, <1>4, <1>7, BecomeGoesOn
<1>9. pc = "off" => runs'[p].pc = "off"
  BY <1>1, <1>2, IdleRuns DEF Become, RunsInv, Maps
<1> QED
  BY <1>3, <1>6, <1>8, <1>9

LEMMA PickOnward ==
    ASSUME IInv, NEW p \in Runners, PickConfig(p)
    PROVE  /\ Onward(p)
           /\ runs'[p].pc # "off" =>
                \/ runs'[p].picked = None
                \/ \E c \in clusters : \E l \in DOMAIN configs[c] :
                      /\ runs'[p].picked = l
                      /\ runs'[p].cfg = ApplyCandidate(runs[p].cfg, c, configs[c][l])
<1>1. Running(runs[p]) /\ RunsInv
  BY DEF IInv, RunsInv
<1>2. Complete(runs[p].cfg) /\ runs[p].picked = None /\ runs[p].pc = "recall"
  BY <1>1 DEF Running, PickConfig
<1>3. CASE Become(p, After(p, runs[p].cfg), runs[p].cfg)
  <2> DEFINE pc == After(p, runs[p].cfg)
             cfg == runs[p].cfg
  <2>1. pc \in {"form", "off", "install"}
    BY AfterIs
  <2>2. Complete(cfg) /\ Merges(runs[p].cfg, cfg)
    BY <1>2 DEF Merges
  <2>3. Become(p, pc, cfg)
    BY <1>3
  <2> HIDE DEF pc, cfg
  <2>4. pc \in Before \cup OnKind /\ pc \notin OnKind /\ pc # "recall"
    BY <2>1 DEF Before, OnKind
  <2>5. Onward(p) /\ (pc # "off" => runs'[p].cfg = cfg /\ runs'[p].picked = runs[p].picked)
    BY <1>1, <2>2, <2>3, <2>4, BecomeGoesOn
  <2>6. pc = "off" => runs'[p].pc = "off"
    BY <1>1, <2>3, IdleRuns DEF Become, RunsInv, Maps
  <2> QED
    BY <1>2, <2>5, <2>6
<1>4. CASE \E k \in Candidates(p) :
             LET cfg == ApplyCandidate(runs[p].cfg, k[1], configs[k[1]][k[2]])
             IN runs' = [runs EXCEPT ![p] =
                  IF After(p, cfg) = "off" THEN Idle
                  ELSE [@ EXCEPT !.pc = After(p, cfg), !.cfg = cfg, !.picked = k[2]]]
  <2>1. PICK k \in Candidates(p) :
             LET cfg == ApplyCandidate(runs[p].cfg, k[1], configs[k[1]][k[2]])
             IN runs' = [runs EXCEPT ![p] =
                  IF After(p, cfg) = "off" THEN Idle
                  ELSE [@ EXCEPT !.pc = After(p, cfg), !.cfg = cfg, !.picked = k[2]]]
    BY <1>4
  <2> DEFINE c == k[1]
             l == k[2]
             cfg == ApplyCandidate(runs[p].cfg, c, configs[c][l])
             pc == After(p, cfg)
             r == IF pc = "off" THEN Idle
                  ELSE [runs[p] EXCEPT !.pc = pc, !.cfg = cfg, !.picked = l]
  <2>2. c \in clusters /\ l \in DOMAIN configs[c]
    BY DEF Candidates, Reachable
  <2>3. runs' = [runs EXCEPT ![p] = r]
    BY <1>1, <2>1 DEF RunsInv, Maps
  <2> HIDE DEF c, l
  <2>4. Merges(runs[p].cfg, cfg)
    BY <1>2, <2>2, CandidateRecalled DEF ComesBack
  <2>5. pc \in {"form", "off", "install"}
    BY AfterIs
  <2>6. cfg = ApplyCandidate(runs[p].cfg, c, configs[c][l])
    OBVIOUS
  <2> HIDE DEF cfg, pc
  <2>7. CASE pc = "off"
    <3>1. Running(r) /\ r.pc = "off"
      BY <2>7, IdleRuns
    <3> HIDE DEF r
    <3> QED
      BY <1>1, <2>3, <3>1, GoesOn
  <2>8. CASE pc # "off"
    <3>2. Maps(r, Parts) /\ r.pc = pc /\ r.cfg = cfg /\ r.picked = l
      BY <1>1, <2>8 DEF Running, Maps, Parts
    <3> HIDE DEF r
    <3>3. Running(r)
      BY <2>4, <2>5, <2>8, <3>2 DEF Running, Merges, Before, OnKind
    <3>4. Onward(p) /\ runs'[p] = r
      BY <1>1, <2>3, <2>4, <3>2, <3>3, GoesOn
    <3> QED
      BY <2>2, <2>6, <3>2, <3>4
  <2> QED
    BY <2>7, <2>8
<1> QED
  BY <1>3, <1>4 DEF PickConfig

LEMMA FormOnward ==
    ASSUME IInv, NEW p \in Runners, OpenForm(p)
    PROVE  Onward(p)
<1> DEFINE c == IF Get(p, "KindClusterName") = "" THEN "yage-mgmt" ELSE Get(p, "KindClusterName")
           cfg == Set(runs[p].cfg, "KindClusterName", c)
<1>1. Become(p, "filling", cfg)
  BY DEF OpenForm
<1>2. Complete(runs[p].cfg) /\ RunsInv
  BY DEF IInv, RunsInv, Running
<1>3. c \in KindNames
  BY <1>2, InputsAssumption DEF Get, Complete, KindNames
<1> HIDE DEF c
<1>4. Merges(runs[p].cfg, cfg)
  BY <1>2, <1>3, SettingMerges
<1> HIDE DEF cfg
<1>5. Complete(cfg)
  BY <1>4 DEF Merges
<1> QED
  BY <1>1, <1>2, <1>4, <1>5, BecomeGoesOn DEF Before, OnKind

LEMMA EditOnward ==
    ASSUME IInv, NEW p \in Runners, Edit(p)
    PROVE  Onward(p)
<1>1. PICK e \in Edits :
        /\ runs[p].pc = "filling"
        /\ runs' = [runs EXCEPT ![p].cfg = Set(@, e[1], e[2]), ![p].chosen = @ \cup {e[1]}]
  BY DEF Edit
<1> DEFINE s == e[1]
           v == e[2]
           cfg == Set(runs[p].cfg, s, v)
           chosen == runs[p].chosen \cup {s}
           r == [runs[p] EXCEPT !.cfg = cfg, !.chosen = chosen]
<1>2. Running(runs[p]) /\ RunsInv
  BY DEF IInv, RunsInv
<1>3. s \in Setting /\ (s \in Switches => v \in Truth) /\ (s = "KindClusterName" => v \in KindNames)
  BY InputsAssumption DEF KindNames
<1>4. runs' = [runs EXCEPT ![p] = r]
  BY <1>1, <1>2 DEF RunsInv, Maps
<1> HIDE DEF s, v
<1>5. Complete(cfg)
  BY <1>2, <1>3, SetChanges DEF Running
<1> HIDE DEF cfg, chosen
<1>6. Maps(r, Parts) /\ r.pc = "filling" /\ r.cfg = cfg
  BY <1>1, <1>2 DEF Running, Maps, Parts
<1> HIDE DEF r
<1>7. Running(r)
  BY <1>5, <1>6 DEF Running, Before, OnKind
<1> QED
  BY <1>1, <1>2, <1>4, <1>7, GoesOn

LEMMA SaveOnward ==
    ASSUME IInv, NEW p \in Runners, Save(p)
    PROVE  Onward(p)
<1>1. Complete(runs[p].cfg) /\ RunsInv
  BY DEF IInv, RunsInv, Running
<1>2. runs[p].pc = "filling" /\ (Become(p, "off", runs[p].cfg) \/ Become(p, "install", runs[p].cfg))
  BY DEF Save
<1> QED
  BY <1>1, <1>2, BecomeGoesOn DEF Before, OnKind

LEMMA InstallOnward ==
    ASSUME IInv, NEW p \in Runners, Install(p)
    PROVE  Onward(p)
<1> DEFINE named == IF Get(p, "KindClusterName") # "" THEN runs[p].cfg
                    ELSE Set(runs[p].cfg, "KindClusterName", "capi-provisioner")
           cfg == MergeShared(named)
<1>1. Become(p, "select", cfg)
  BY DEF Install
<1>2. Complete(runs[p].cfg) /\ RunsInv
  BY DEF IInv, RunsInv, Running
<1>3. Merges(runs[p].cfg, named) /\ named.set["KindClusterName"] \in KindClusters
  <2>1. CASE Get(p, "KindClusterName") # ""
    BY <1>2, <2>1 DEF Get, Complete, Merges, KindNames
  <2>2. CASE Get(p, "KindClusterName") = ""
    <3>1. "capi-provisioner" \in KindClusters /\ "capi-provisioner" \in KindNames
      BY InputsAssumption DEF KindNames
    <3>2. "KindClusterName" \in Setting /\ "KindClusterName" \notin Switches
      BY SettingFacts
    <3>3. Merges(runs[p].cfg, named)
      BY <1>2, <2>2, <3>1, SettingMerges
    <3>4. named.set["KindClusterName"] = "capi-provisioner"
      <4>1. Set(runs[p].cfg, "KindClusterName", "capi-provisioner").set["KindClusterName"]
              = "capi-provisioner"
        BY <1>2, <3>1, <3>2, SetChanges
      <4> QED
        BY <2>2, <4>1
    <3> QED
      BY <3>1, <3>3, <3>4
  <2> QED
    BY <2>1, <2>2
<1> HIDE DEF named
<1>4. Merges(named, cfg) /\ cfg.set["KindClusterName"] \in KindClusters
  BY <1>3, SharedMerges DEF Merges
<1>5. Merges(runs[p].cfg, cfg)
  BY <1>3, <1>4, MergesCompose
<1> HIDE DEF cfg
<1>6. Complete(cfg)
  BY <1>4 DEF Merges
<1> QED
  BY <1>1, <1>2, <1>4, <1>5, <1>6, BecomeGoesOn DEF Before, OnKind

(* The clusters a run may be asked to choose from.                         *)
LEMMA ChoicesAreKinds ==
    ASSUME IInv, NEW p \in Runners, runs[p].pc \in OnKind, NEW c \in KindChoices(p)
    PROVE  c \in KindClusters
<1>1. Get(p, "KindClusterName") \in KindClusters
  BY DEF IInv, RunsInv, Running, Get
<1>2. clusters \subseteq KindClusters
  BY DEF IInv, ClustersInv
<1> QED
  BY <1>1, <1>2 DEF KindChoices

(* A choice put in, then the shared settings: what Select and Workload do. *)
LEMMA ChosenOnward ==
    ASSUME IInv, NEW p \in Runners, runs[p].pc \in OnKind,
           NEW s \in {"KindClusterName", "WorkloadClusterName"}, NEW v,
           s = "KindClusterName" => v \in KindClusters,
           NEW pc \in OnKind, NEW chosen,
           runs' = [runs EXCEPT ![p].pc = pc, ![p].cfg = MergeShared(Set(runs[p].cfg, s, v)),
                                ![p].chosen = chosen]
    PROVE  Onward(p) /\ Complete(MergeShared(Set(runs[p].cfg, s, v)))
<1> DEFINE there == Set(runs[p].cfg, s, v)
           cfg == MergeShared(there)
           r == [runs[p] EXCEPT !.pc = pc, !.cfg = cfg, !.chosen = chosen]
<1>1. Running(runs[p]) /\ RunsInv
  BY DEF IInv, RunsInv
<1>2. /\ Complete(runs[p].cfg) /\ runs[p].cfg.set["KindClusterName"] \in KindClusters
  BY <1>1 DEF Running
<1>3. s = "KindClusterName" => v \in KindNames
  BY DEF KindNames
<1>4. Merges(runs[p].cfg, there)
  BY <1>2, <1>3, SettingMerges
<1>5. there.set["KindClusterName"] \in KindClusters
  <2>1. /\ there.set[s] = v
        /\ \A t \in Setting : t # s => there.set[t] = runs[p].cfg.set[t]
    <3>1. s \in Setting /\ s \notin Switches
      BY SettingFacts
    <3> QED
      BY <1>2, <1>3, <3>1, SetChanges
  <2> QED
    BY <1>2, <2>1, SettingFacts
<1>6. runs' = [runs EXCEPT ![p] = r]
  BY <1>1 DEF RunsInv, Maps
<1> HIDE DEF there
<1>7. Merges(there, cfg) /\ cfg.set["KindClusterName"] \in KindClusters
  BY <1>4, <1>5, SharedMerges DEF Merges
<1>8. Merges(runs[p].cfg, cfg)
  BY <1>4, <1>7, MergesCompose
<1>9. Complete(cfg)
  BY <1>7 DEF Merges
<1> HIDE DEF cfg
<1>10. Maps(r, Parts) /\ r.pc = pc /\ r.cfg = cfg
  BY <1>1 DEF Running, Maps, Parts
<1> HIDE DEF r
<1>11. r.pc = pc /\ r.cfg = cfg
  BY <1>10
<1>12. Running(r)
  BY <1>7, <1>9, <1>10, <1>11 DEF Running, Before, OnKind
<1>13. Onward(p)
  BY <1>1, <1>6, <1>8, <1>11, <1>12, GoesOn
<1> QED
  BY <1>9, <1>13 DEF cfg, there

LEMMA SelectOnward ==
    ASSUME IInv, NEW p \in Runners, Select(p)
    PROVE  Onward(p) /\ \E cfg : Complete(cfg) /\ shared' = Synced(cfg)
<1>1. PICK c, chosen :
        LET cfg == MergeShared(Set(runs[p].cfg, "KindClusterName", c))
        IN /\ runs[p].pc = "select" /\ c \in KindChoices(p)
           /\ shared' = Synced(cfg)
           /\ runs' = [runs EXCEPT ![p].pc = "kind", ![p].cfg = cfg, ![p].chosen = chosen]
  <2>1. PICK c \in KindChoices(p) :
          LET cfg == MergeShared(Set(runs[p].cfg, "KindClusterName", c))
          IN /\ runs[p].pc = "select"
             /\ shared' = Synced(cfg)
             /\ runs' = [runs EXCEPT ![p].pc = "kind", ![p].cfg = cfg,
                           ![p].chosen = @ \cup {s \in {"KindClusterName"} :
                                                    Attended(p) /\ c # Get(p, s)}]
    BY DEF Select
  <2> DEFINE chosen == runs[p].chosen \cup {s \in {"KindClusterName"} :
                                              Attended(p) /\ c # Get(p, s)}
             cfg == MergeShared(Set(runs[p].cfg, "KindClusterName", c))
  <2>2. runs' = [runs EXCEPT ![p].pc = "kind", ![p].cfg = cfg, ![p].chosen = chosen]
    BY <2>1 DEF IInv, RunsInv, Maps, Running
  <2> HIDE DEF chosen
  <2> QED
    BY <2>1, <2>2
<1> DEFINE cfg == MergeShared(Set(runs[p].cfg, "KindClusterName", c))
<1>2. runs[p].pc \in OnKind /\ "kind" \in OnKind
  BY <1>1 DEF OnKind
<1>3. c \in KindClusters
  BY <1>1, <1>2, ChoicesAreKinds
<1>4. Onward(p) /\ Complete(cfg)
  BY <1>1, <1>2, <1>3, ChosenOnward
<1> QED
  BY <1>1, <1>4

LEMMA WorkloadOnward ==
    ASSUME IInv, NEW p \in Runners, Workload(p)
    PROVE  Onward(p) /\ \E cfg : Complete(cfg) /\ shared' = Synced(cfg)
<1>1. PICK w, chosen :
        LET cfg == MergeShared(Set(runs[p].cfg, "WorkloadClusterName", w))
        IN /\ runs[p].pc = "workload"
           /\ shared' = Synced(cfg)
           /\ runs' = [runs EXCEPT ![p].pc = "promote", ![p].cfg = cfg, ![p].chosen = chosen]
  <2>1. PICK w \in WorkloadChoices(p) :
          LET cfg == MergeShared(Set(runs[p].cfg, "WorkloadClusterName", w))
          IN /\ runs[p].pc = "workload"
             /\ shared' = Synced(cfg)
             /\ runs' = [runs EXCEPT ![p].pc = "promote", ![p].cfg = cfg,
                           ![p].chosen = @ \cup {s \in {"WorkloadClusterName"} :
                                                    Attended(p) /\ w # Get(p, s)}]
    BY DEF Workload
  <2> DEFINE chosen == runs[p].chosen \cup {s \in {"WorkloadClusterName"} :
                                              Attended(p) /\ w # Get(p, s)}
             cfg == MergeShared(Set(runs[p].cfg, "WorkloadClusterName", w))
  <2>2. runs' = [runs EXCEPT ![p].pc = "promote", ![p].cfg = cfg, ![p].chosen = chosen]
    BY <2>1 DEF IInv, RunsInv, Maps, Running
  <2> HIDE DEF chosen
  <2> QED
    BY <2>1, <2>2
<1> DEFINE cfg == MergeShared(Set(runs[p].cfg, "WorkloadClusterName", w))
<1>2. runs[p].pc \in OnKind /\ "promote" \in OnKind
  BY <1>1 DEF OnKind
<1>3. Onward(p) /\ Complete(cfg)
  BY <1>1, <1>2, ChosenOnward
<1> QED
  BY <1>1, <1>3

(* The steps that leave the settings of their process alone.               *)
LEMMA SteadyOnward ==
    ASSUME IInv, NEW p \in Runners, RecreateKind(p) \/ CreateKind(p) \/ Promote(p) \/ Crash(p)
    PROVE  Onward(p)
<1>1. Running(runs[p]) /\ RunsInv
  BY DEF IInv, RunsInv
<1>2. Complete(runs[p].cfg) /\ Merges(runs[p].cfg, runs[p].cfg)
  BY <1>1 DEF Running, Merges
<1>3. CASE Become(p, "off", runs[p].cfg)
  <2>1. "off" \in Before \cup OnKind /\ "off" \notin OnKind
    BY DEF Before, OnKind
  <2> QED
    BY <1>1, <1>2, <1>3, <2>1, BecomeGoesOn
<1>4. CASE /\ Become(p, "create", runs[p].cfg) \/ Become(p, "workload", runs[p].cfg)
           /\ runs[p].pc \in {"kind", "create"}
  <2>1. runs[p].cfg.set["KindClusterName"] \in KindClusters
    BY <1>1, <1>4 DEF Running, OnKind
  <2>2. {"create", "workload"} \subseteq OnKind
    BY DEF OnKind
  <2> QED
    BY <1>1, <1>2, <1>4, <2>1, <2>2, BecomeGoesOn
<1> QED
  BY <1>3, <1>4 DEF RecreateKind, CreateKind, Promote, Crash

LEMMA RunsStep ==
    ASSUME IInv, NEW p \in Runners, Step(p)
    PROVE  Onward(p)
BY StartOnward, RecallOnward, PickOnward, FormOnward, EditOnward, SaveOnward, InstallOnward,
   SelectOnward, WorkloadOnward, SteadyOnward DEF Step

-----------------------------------------------------------------------------
(* What the clusters hold.                                                 *)

LEMMA SaveKeepsConfigs ==
    ASSUME IInv, NEW p \in Runners, Save(p)
    PROVE  ConfigsInv'
<1> DEFINE c == Get(p, "KindClusterName")
           sec == ConfigSecret(runs[p].cfg)
           l == sec.label
           new == [x \in {l} |-> sec] ++ configs[c]
<1>1. configs' = IF c \in clusters THEN [configs EXCEPT ![c] = [x \in {sec.label} |-> sec] ++ @]
                 ELSE configs
  BY DEF Save
<1>2. CASE c \notin clusters
  BY <1>1, <1>2 DEF IInv, ConfigsInv
<1>3. CASE c \in clusters
  <2>1. c \in KindClusters
    BY <1>3 DEF IInv, ClustersInv
  <2>2. Complete(runs[p].cfg) /\ runs[p].cfg.set["KindClusterName"] = c
    BY DEF IInv, RunsInv, Running, Get
  <2>3. Faithful(c, l, sec)
    BY <2>2, SecretFaithful
  <2>4. configs' = [configs EXCEPT ![c] = new]
    BY <1>1, <1>3, <2>1 DEF IInv, ConfigsInv, Maps
  <2> HIDE DEF c, l, sec
  <2>5. Maps(configs, KindClusters) /\ \A k \in KindClusters : Maps(configs[k], DOMAIN configs[k])
    BY DEF IInv, ConfigsInv
  <2>6. Maps(new, DOMAIN new) /\ \A x \in DOMAIN new : Faithful(c, x, new[x])
    <3>1. \A x \in DOMAIN configs[c] : Faithful(c, x, configs[c][x])
      BY <2>1 DEF IInv, ConfigsInv
    <3>2. /\ DOMAIN new = {l} \cup DOMAIN configs[c] /\ new[l] = sec
          /\ \A x \in DOMAIN configs[c] \ {l} : new[x] = configs[c][x]
          /\ Maps(new, DOMAIN new)
      BY DEF ++, Maps
    <3> HIDE DEF new
    <3> QED
      BY <2>3, <3>1, <3>2
  <2> HIDE DEF new
  <2>7. configs'[c] = new /\ \A k \in KindClusters \ {c} : configs'[k] = configs[k]
    BY <2>1, <2>4, <2>5 DEF Maps
  <2>8. Maps(configs', KindClusters)
    BY <2>4, <2>5 DEF Maps
  <2> QED
    BY <2>6, <2>7, <2>8 DEF IInv, ConfigsInv
<1> QED
  BY <1>2, <1>3

LEMMA PromoteKeepsConfigs ==
    ASSUME IInv, NEW p \in Runners, Promote(p)
    PROVE  ConfigsInv' /\ \A c \in KindClusters : DOMAIN configs'[c] = DOMAIN configs[c]
<1> DEFINE c == Get(p, "KindClusterName")
           l == Label(Get(p, "ConfigName"))
           sec == [configs[c][l] EXCEPT !.status = "realized"]
           new == [configs[c] EXCEPT ![l] = sec]
<1>1. configs' = IF c \in clusters /\ l \in DOMAIN configs[c]
                 THEN [configs EXCEPT ![c][l].status = "realized"] ELSE configs
  BY DEF Promote
<1>2. CASE ~(c \in clusters /\ l \in DOMAIN configs[c])
  BY <1>1, <1>2 DEF IInv, ConfigsInv
<1>3. CASE c \in clusters /\ l \in DOMAIN configs[c]
  <2>1. c \in KindClusters
    BY <1>3 DEF IInv, ClustersInv
  <2>2. Maps(configs, KindClusters) /\ \A k \in KindClusters : Maps(configs[k], DOMAIN configs[k])
    BY DEF IInv, ConfigsInv
  <2>3. configs' = [configs EXCEPT ![c] = new]
    BY <1>1, <1>3, <2>1, <2>2 DEF Maps
  <2>4. \A x \in DOMAIN configs[c] : Faithful(c, x, configs[c][x])
    BY <2>1 DEF IInv, ConfigsInv
  <2> HIDE DEF c, l
  <2>5. Faithful(c, l, sec)
    <3> DEFINE old == configs[c][l]
    <3>1. Faithful(c, l, old)
      BY <1>3, <2>4
    <3>2. sec = [old EXCEPT !.status = "realized"]
      OBVIOUS
    <3> HIDE DEF old, sec
    <3>3. Maps(old, SecretParts)
      BY <3>1 DEF Faithful
    <3>4. /\ Maps(sec, SecretParts) /\ sec.label = old.label /\ sec.plain = old.plain
          /\ sec.fields = old.fields /\ sec.snapshot = old.snapshot /\ sec.was = old.was
      BY <3>2, <3>3 DEF Maps, SecretParts
    <3> QED
      BY <3>1, <3>4 DEF Faithful
  <2> HIDE DEF sec
  <2>6. /\ Maps(new, DOMAIN new) /\ DOMAIN new = DOMAIN configs[c]
        /\ new[l] = sec /\ \A x \in DOMAIN configs[c] \ {l} : new[x] = configs[c][x]
    BY <1>3, <2>1, <2>2 DEF Maps
  <2> HIDE DEF new
  <2>7. configs'[c] = new /\ \A k \in KindClusters \ {c} : configs'[k] = configs[k]
    BY <2>1, <2>2, <2>3 DEF Maps
  <2>8. Maps(configs', KindClusters)
    BY <2>2, <2>3 DEF Maps
  <2>9. \A x \in DOMAIN new : Faithful(c, x, new[x])
    BY <2>4, <2>5, <2>6
  <2> QED
    BY <2>6, <2>7, <2>8, <2>9 DEF IInv, ConfigsInv
<1> QED
  BY <1>2, <1>3

LEMMA RecreateKeepsConfigs ==
    ASSUME IInv, NEW p \in Runners, RecreateKind(p)
    PROVE  ConfigsInv'
<1> DEFINE c == Get(p, "KindClusterName")
           new == [l \in {} |-> Nothing]
<1>1. c \in KindClusters /\ configs' = [configs EXCEPT ![c] = new]
  BY DEF RecreateKind, IInv, ClustersInv
<1>2. Maps(new, DOMAIN new) /\ DOMAIN new = {}
  BY DEF Maps
<1> HIDE DEF new
<1>3. Maps(configs', KindClusters) /\ configs'[c] = new
      /\ \A k \in KindClusters \ {c} : configs'[k] = configs[k]
  BY <1>1 DEF IInv, ConfigsInv, Maps
<1> HIDE DEF c
<1> QED
  BY <1>2, <1>3 DEF IInv, ConfigsInv

LEMMA ConfigsStep ==
    ASSUME IInv, NEW p \in Runners, Step(p)
    PROVE  ConfigsInv'
<1>1. CASE UNCHANGED configs
  BY <1>1 DEF IInv, ConfigsInv
<1> QED
  BY <1>1, SaveKeepsConfigs, PromoteKeepsConfigs, RecreateKeepsConfigs
     DEF Step, Start, Recall, PickConfig, OpenForm, Edit, Install, Select, CreateKind, Workload, Crash

LEMMA SharedPut ==
    ASSUME IInv, NEW c \in KindClusters, NEW kv, DOMAIN kv \subseteq Stored, NamesKind(kv),
           shared' = [shared EXCEPT ![c] = kv]
    PROVE  SharedInv' /\ shared'[c] = kv /\ \A k \in KindClusters \ {c} : shared'[k] = shared[k]
<1>1. /\ Maps(shared', KindClusters) /\ shared'[c] = kv
      /\ \A k \in KindClusters \ {c} : shared'[k] = shared[k]
  BY DEF IInv, SharedInv, Maps
<1> QED
  BY <1>1 DEF IInv, SharedInv

LEMMA SyncPuts ==
    ASSUME IInv, NEW cfg, Complete(cfg), shared' = Synced(cfg)
    PROVE  SharedInv' /\ \A k \in KindClusters \ clusters : shared'[k] = shared[k]
<1>1. CASE Context(cfg) = None
  BY <1>1 DEF Synced, IInv, SharedInv
<1>2. CASE Context(cfg) # None
  <2> DEFINE c == Context(cfg)
             kv == Snapshot(cfg)
  <2>1. c \in clusters /\ c \in KindClusters
    BY <1>2 DEF Context, IInv, ClustersInv
  <2>2. DOMAIN kv \subseteq Stored /\ NamesKind(kv)
    BY SnapshotSays
  <2>3. shared' = [shared EXCEPT ![c] = kv]
    BY <1>2 DEF Synced
  <2> HIDE DEF c, kv
  <2>4. SharedInv' /\ \A k \in KindClusters \ {c} : shared'[k] = shared[k]
    BY <2>1, <2>2, <2>3, SharedPut
  <2> QED
    BY <2>1, <2>4
<1> QED
  BY <1>1, <1>2

LEMMA CreatePuts ==
    ASSUME IInv, NEW p \in Runners, CreateKind(p)
    PROVE  LET c == Get(p, "KindClusterName")
           IN SharedInv' /\ c \in KindClusters
                /\ \A k \in KindClusters \ {c} : shared'[k] = shared[k]
<1> DEFINE c == Get(p, "KindClusterName")
           kv == Snapshot(runs[p].cfg)
<1>1. Running(runs[p]) /\ runs[p].pc \in OnKind
  BY DEF IInv, RunsInv, CreateKind, OnKind
<1>2. Complete(runs[p].cfg) /\ c \in KindClusters
  BY <1>1 DEF Running, Get
<1>3. DOMAIN kv \subseteq Stored /\ NamesKind(kv)
  BY <1>2, SnapshotSays
<1>4. shared' = [shared EXCEPT ![c] = kv]
  BY DEF CreateKind
<1> HIDE DEF c, kv
<1>5. SharedInv' /\ \A k \in KindClusters \ {c} : shared'[k] = shared[k]
  BY <1>2, <1>3, <1>4, SharedPut
<1> QED
  BY <1>2, <1>5 DEF c

LEMMA RecreatePuts ==
    ASSUME IInv, NEW p \in Runners, RecreateKind(p)
    PROVE  LET c == Get(p, "KindClusterName")
           IN SharedInv' /\ DOMAIN shared'[c] = {}
                /\ \A k \in KindClusters \ {c} : shared'[k] = shared[k]
<1> DEFINE c == Get(p, "KindClusterName")
<1>1. c \in KindClusters /\ shared' = [shared EXCEPT ![c] = Nothing]
  BY DEF RecreateKind, IInv, ClustersInv
<1>2. DOMAIN Nothing = {} /\ NamesKind(Nothing)
  BY DEF Nothing, NamesKind
<1> HIDE DEF c
<1>3. SharedInv' /\ shared'[c] = Nothing /\ \A k \in KindClusters \ {c} : shared'[k] = shared[k]
  BY <1>1, <1>2, SharedPut
<1> QED
  BY <1>2, <1>3 DEF c

LEMMA SharedStep ==
    ASSUME IInv, NEW p \in Runners, Step(p)
    PROVE  SharedInv'
<1>1. CASE UNCHANGED shared
  BY <1>1 DEF IInv, SharedInv
<1>2. CASE Select(p) \/ Workload(p)
  BY <1>2, SelectOnward, WorkloadOnward, SyncPuts
<1>3. CASE CreateKind(p) \/ RecreateKind(p)
  BY <1>3, CreatePuts, RecreatePuts
<1> QED
  BY <1>1, <1>2, <1>3
     DEF Step, Start, Recall, PickConfig, OpenForm, Edit, Save, Install, Promote, Crash

LEMMA ClustersStep ==
    ASSUME IInv, NEW p \in Runners, Step(p)
    PROVE  ClustersInv'
<1> DEFINE c == Get(p, "KindClusterName")
<1>0. /\ clusters \subseteq KindClusters /\ current \in clusters \cup {None}
      /\ Maps(built, KindClusters) /\ Maps(configs, KindClusters)
      /\ \A k \in KindClusters \ clusters :
           DOMAIN configs[k] = {} /\ DOMAIN shared[k] = {} /\ built[k] = {}
  BY DEF IInv, ClustersInv, ConfigsInv
<1>1. CASE UNCHANGED <<clusters, current, configs, shared, built>>
  BY <1>0, <1>1 DEF ClustersInv
<1>2. CASE OpenForm(p)
  <2> DEFINE k == IF c = "" THEN "yage-mgmt" ELSE c
  <2>1. clusters' = clusters \cup {k} /\ current' = k /\ UNCHANGED <<configs, shared, built>>
    BY <1>2 DEF OpenForm
  <2>2. k \in KindClusters
    BY InputsAssumption DEF IInv, RunsInv, Running, Complete, KindNames, Get
  <2> HIDE DEF k
  <2> QED
    BY <1>0, <2>1, <2>2 DEF ClustersInv
<1>3. CASE Save(p)
  <2>1. UNCHANGED <<clusters, current, shared, built>>
    BY <1>3 DEF Save
  <2>2. \A k \in KindClusters \ clusters : configs'[k] = configs[k]
    BY <1>0, <1>3 DEF Save, Maps
  <2> QED
    BY <1>0, <2>1, <2>2 DEF ClustersInv
<1>4. CASE Select(p) \/ Workload(p)
  <2>1. UNCHANGED <<clusters, current, configs, built>>
    BY <1>4 DEF Select, Workload
  <2>2. \A k \in KindClusters \ clusters : shared'[k] = shared[k]
    BY <1>4, SelectOnward, WorkloadOnward, SyncPuts
  <2> QED
    BY <1>0, <2>1, <2>2 DEF ClustersInv
<1>5. CASE RecreateKind(p)
  <2> DEFINE new == [l \in {} |-> Nothing]
  <2>1. /\ clusters' = clusters \ {c} /\ current' = IF current = c THEN None ELSE current
        /\ built' = [built EXCEPT ![c] = {}] /\ configs' = [configs EXCEPT ![c] = new]
    BY <1>5 DEF RecreateKind
  <2>2. DOMAIN new = {}
    OBVIOUS
  <2>3. DOMAIN shared'[c] = {} /\ \A k \in KindClusters \ {c} : shared'[k] = shared[k]
    BY <1>5, RecreatePuts
  <2> HIDE DEF c, new
  <2>4. /\ Maps(built', KindClusters)
        /\ \A k \in KindClusters : built'[k] = IF k = c THEN {} ELSE built[k]
    BY <1>0, <2>1 DEF Maps
  <2>5. \A k \in KindClusters : configs'[k] = IF k = c THEN new ELSE configs[k]
    BY <1>0, <2>1 DEF Maps
  <2>6. clusters' \subseteq KindClusters /\ current' \in clusters' \cup {None}
    BY <1>0, <2>1
  <2>7. \A k \in KindClusters \ clusters' :
          DOMAIN configs'[k] = {} /\ DOMAIN shared'[k] = {} /\ built'[k] = {}
    BY <1>0, <2>1, <2>2, <2>3, <2>4, <2>5
  <2> QED
    BY <2>4, <2>6, <2>7 DEF ClustersInv
<1>6. CASE CreateKind(p)
  <2>1. clusters' = clusters \cup {c} /\ current' = c /\ UNCHANGED <<configs, built>>
    BY <1>6 DEF CreateKind
  <2>2. c \in KindClusters /\ \A k \in KindClusters \ {c} : shared'[k] = shared[k]
    BY <1>6, CreatePuts
  <2> HIDE DEF c
  <2> QED
    BY <1>0, <2>1, <2>2 DEF ClustersInv
<1>7. CASE Promote(p)
  <2>1. UNCHANGED <<clusters, current, shared>>
    BY <1>7 DEF Promote
  <2>2. \A k \in KindClusters : DOMAIN configs'[k] = DOMAIN configs[k]
    BY <1>7, PromoteKeepsConfigs
  <2>3. Maps(built', KindClusters) /\ \A k \in KindClusters \ clusters : built'[k] = built[k]
    <3>1. built' = IF c \in clusters
                   THEN [built EXCEPT ![c] = @ \cup {Get(p, "WorkloadClusterName")}] ELSE built
      BY <1>7 DEF Promote
    <3> HIDE DEF c
    <3> QED
      BY <1>0, <3>1 DEF Maps
  <2> QED
    BY <1>0, <2>1, <2>2, <2>3 DEF ClustersInv
<1> QED
  BY <1>1, <1>2, <1>3, <1>4, <1>5, <1>6, <1>7
     DEF Step, Start, Recall, PickConfig, Edit, Install, Crash

-----------------------------------------------------------------------------
(* The theorems.                                                           *)

LEMMA Initially == Init => IInv
<1> SUFFICES ASSUME Init PROVE IInv
  OBVIOUS
<1>1. ConfigsInv /\ SharedInv /\ ClustersInv
  <2> DEFINE new == [l \in {} |-> Nothing]
  <2>1. DOMAIN new = {} /\ Maps(new, DOMAIN new) /\ DOMAIN Nothing = {} /\ NamesKind(Nothing)
    BY DEF Maps, Nothing, NamesKind
  <2>2. configs = [k \in KindClusters |-> new]
    BY DEF Init
  <2> HIDE DEF new
  <2>3. Maps(configs, KindClusters) /\ \A k \in KindClusters : configs[k] = new
    BY <2>2 DEF Maps
  <2>4. Maps(shared, KindClusters) /\ \A k \in KindClusters : shared[k] = Nothing
    BY DEF Init, Maps
  <2>5. Maps(built, KindClusters) /\ \A k \in KindClusters : built[k] = {}
    BY DEF Init, Maps
  <2>6. clusters \subseteq KindClusters /\ current \in clusters \cup {None}
    BY DEF Init
  <2> QED
    BY <2>1, <2>3, <2>4, <2>5, <2>6 DEF ConfigsInv, SharedInv, ClustersInv
<1>2. RunsInv
  <2>1. Maps(runs, Runners) /\ \A p \in Runners : runs[p] = Idle
    BY DEF Init, Maps
  <2> QED
    BY <2>1, IdleRuns DEF RunsInv
<1>3. begun \in 0 .. MaxRuns
  <2>1. begun = 0
    BY DEF Init
  <2>2. MaxRuns \in Nat
    BY InputsAssumption
  <2> QED
    BY <2>1, <2>2
<1> QED
  BY <1>1, <1>2, <1>3 DEF IInv

LEMMA Preserved == IInv /\ [Next]_vars => IInv'
<1> SUFFICES ASSUME IInv, [Next]_vars PROVE IInv'
  OBVIOUS
<1>1. CASE UNCHANGED vars
  BY <1>1 DEF vars, IInv, ConfigsInv, SharedInv, ClustersInv, RunsInv
<1>2. ASSUME NEW p \in Runners, Step(p) PROVE IInv'
  <2>1. ConfigsInv' /\ SharedInv' /\ ClustersInv' /\ RunsInv'
    BY <1>2, ConfigsStep, SharedStep, ClustersStep, RunsStep DEF Onward
  <2>2. begun' \in 0 .. MaxRuns
    <3>1. begun \in 0 .. MaxRuns /\ MaxRuns \in Nat
      BY InputsAssumption DEF IInv
    <3>2. begun' = begun \/ (begun < MaxRuns /\ begun' = begun + 1)
      BY <1>2 DEF Step, Start, Recall, PickConfig, OpenForm, Edit, Save, Install, Select,
                  RecreateKind, CreateKind, Workload, Promote, Crash
    <3> QED
      BY <3>1, <3>2
  <2> QED
    BY <2>1, <2>2 DEF IInv
<1> QED
  BY <1>1, <1>2 DEF Next

LEMMA Invariant == Spec => []IInv
BY Initially, Preserved, PTL DEF Spec

(* What every state has: settings for each of which there is a value in    *)
(* every process, guards that are guards, and stored configurations and    *)
(* workload clusters only where there is a kind cluster to hold them.      *)
THEOREM TypeCorrect == Spec => []TypeOK
<1>1. IInv => TypeOK
  <2> SUFFICES ASSUME IInv PROVE TypeOK
    OBVIOUS
  <2>1. ASSUME NEW p \in Runners
        PROVE  /\ runs[p].pc \in {"off", "recall", "form", "filling", "install", "select", "kind",
                                  "create", "workload", "promote"}
               /\ DOMAIN runs[p].cfg.set = Setting
               /\ runs[p].cfg.fixed \subseteq Guarded
    BY DEF IInv, RunsInv, Running, Complete, Maps, Before, OnKind
  <2> QED
    BY <2>1 DEF IInv, ClustersInv, SharedInv, TypeOK
<1> QED
  BY <1>1, Invariant, PTL

(* Whatever a run merges from its clusters, a guarded setting the operator *)
(* fixed and a credential that was supplied stay what they were: for any   *)
(* inputs, any number of runs that overlap, and whatever is stored.        *)
THEOREM SuppliedIsKept == Spec => SuppliedStays
<1> DEFINE Stays == \A p \in Runners :
                      runs[p].pc \notin {"off", "filling"} /\ runs'[p].pc # "off" =>
                          \A s \in Firm(p) : runs'[p].cfg.set[s] = Get(p, s)
<1>1. IInv /\ [Next]_vars => [Stays]_vars
  <2> SUFFICES ASSUME IInv, NEW q \in Runners, Step(q) PROVE Stays
    BY DEF Next
  <2>1. \A p \in Runners : Carries(p)
    BY RunsStep DEF Onward
  <2>2. \A p \in Runners : \A s \in Firm(p) : s \in Setting /\ Firmly(runs[p].cfg, s)
    BY SettingFacts DEF Firm, Firmly, Get, Guarded
  <2> QED
    BY <2>1, <2>2 DEF Carries, Merges, Get
<1>2. SuppliedStays <=> [][Stays]_vars
  BY DEF SuppliedStays
<1> HIDE DEF Stays
<1> QED
  BY <1>1, <1>2, Invariant, PTL DEF Spec

(* A configuration that is recalled by name, or picked, is what was saved  *)
(* under it - every stored setting without a "#" that is not fixed or      *)
(* supplied anew, and the Proxmox token - whatever other runs did to its   *)
(* cluster in between.                                                     *)
THEOREM SavedComesBack == Spec => RestoredAsSaved
<1> DEFINE Back == \A p \in Runners : Restores(p) =>
         LET c == IF Named(p) THEN Get(p, "KindClusterName") ELSE runs'[p].cfg.set["KindClusterName"]
             l == IF Named(p) THEN Label(Get(p, "ConfigName")) ELSE runs'[p].picked
         IN l \in DOMAIN configs[c] => RestoredFrom(p, configs[c][l])
<1>1. IInv /\ [Next]_vars => [Back]_vars
  <2> SUFFICES ASSUME IInv, NEW q \in Runners, Step(q), NEW p \in Runners, Restores(p),
                      NEW c, c = IF Named(p) THEN Get(p, "KindClusterName")
                                 ELSE runs'[p].cfg.set["KindClusterName"],
                      NEW l, l = IF Named(p) THEN Label(Get(p, "ConfigName"))
                                 ELSE runs'[p].picked,
                      l \in DOMAIN configs[c]
               PROVE  RestoredFrom(p, configs[c][l])
    BY DEF Next
  <2>1. runs[p].pc = "recall" /\ runs'[p].pc \notin {"off", "recall"}
        /\ (Named(p) \/ runs'[p].picked # None)
    BY DEF Restores
  <2>2. p = q
    BY <2>1, RunsStep DEF Onward
  <2>3. Complete(runs[p].cfg)
    BY DEF IInv, RunsInv, Running
  <2>4. \A sec : ComesBack(runs[p].cfg, sec, runs'[p].cfg) => RestoredFrom(p, sec)
    BY DEF ComesBack, RestoredFrom, Get
  <2>5. CASE Recall(p)
    <3>1. Named(p) /\ runs'[p].cfg = MergeConfig(runs[p].cfg)
      BY <2>1, <2>5, RecallOnward
    <3>2. c = runs[p].cfg.set["KindClusterName"] /\ l = Label(runs[p].cfg.set["ConfigName"])
      BY <3>1 DEF Get
    <3>3. c \in KindClusters
      BY <2>3, <3>1, <3>2 DEF Named, Get, Complete, KindNames
    <3>4. c \in clusters
      BY <3>3 DEF IInv, ClustersInv
    <3>5. ComesBack(runs[p].cfg, configs[c][l], MergeConfig(runs[p].cfg))
      BY <2>3, <3>2, <3>4, RecallsConfig
    <3> QED
      BY <2>4, <3>1, <3>5
  <2>6. CASE PickConfig(p)
    <3>1. ~ Named(p)
      BY <2>6 DEF PickConfig
    <3>2. PICK k \in clusters : \E m \in DOMAIN configs[k] :
             runs'[p].picked = m /\ runs'[p].cfg = ApplyCandidate(runs[p].cfg, k, configs[k][m])
      BY <2>1, <2>6, <3>1, PickOnward
    <3>3. l \in DOMAIN configs[k] /\ runs'[p].cfg = ApplyCandidate(runs[p].cfg, k, configs[k][l])
      BY <3>1, <3>2
    <3>4. /\ ComesBack(runs[p].cfg, configs[k][l], runs'[p].cfg)
          /\ runs'[p].cfg.set["KindClusterName"] = k
      BY <2>3, <3>3, CandidateRecalled
    <3>5. c = k
      BY <3>1, <3>4
    <3> QED
      BY <2>4, <3>4, <3>5
  <2>7. CASE Crash(p)
    <3>1. runs'[p] = Idle
      BY <2>7 DEF Crash, Become, IInv, RunsInv, Maps
    <3> QED
      BY <2>1, <3>1, IdleRuns
  <2> QED
    BY <2>1, <2>2, <2>5, <2>6, <2>7 DEF Step, Start, OpenForm, Edit, Save, Install, Select,
                                    RecreateKind, CreateKind, Workload, Promote
<1>2. RestoredAsSaved <=> [][Back]_vars
  BY DEF RestoredAsSaved
<1> HIDE DEF Back
<1> QED
  BY <1>1, <1>2, Invariant, PTL DEF Spec
=============================================================================
