-------------------------- MODULE ManifestsProofs --------------------------
(***************************************************************************)
(* Proofs about Manifests, for any number of runs, workload clusters,      *)
(* sizes, networks and changes by the operator.                            *)
(***************************************************************************)
EXTENDS Manifests, TLAPS

-----------------------------------------------------------------------------
(* The inductive invariant.                                                *)

Parts == {Docs, <<"control-plane", "worker">>, <<"worker">>, <<>>}

Places == {"purge", "begin", "select", "load", "judge", "generate", "size", "patch", "push",
           "touch", "apply", "put", "refused"}

Active == [pc : Places, as : {"run", "attended", "rollout", "purge"}, mode : {"secret", "file"},
           given : SUBSET {"name", "net"}, seen : 0..MaxEdits, work : Manifests \cup {None},
           left : Parts, cfg : Settings]

Finished == [pc |-> "done"]

Clusters == [net : Networks \cup {0}, going : BOOLEAN,
             templates : SUBSET [role : Roles, rev : Revisions, spec : Sizes],
             owners : SUBSET [role : Roles, name : Revisions, ref : Revisions]]

Typed ==
    /\ flavour \in Flavours
    /\ yaml \in [of : Settings, save : 0..MaxEdits] /\ yaml.save <= edits
    /\ edits \in 0..MaxEdits
    /\ stamp \in {"absent", "older", "newer"}
    /\ file \in Manifests \cup {None} /\ fileOld \in BOOLEAN
    /\ shared \in Settings \cup {None} /\ secret \in Manifests \cup {None}
    /\ live \in [Workloads -> Clusters]
    /\ runs \in [Runners -> {Off, Finished} \cup Active]
    /\ crossed \in BOOLEAN

(* The file of the operator has one user at a time.                        *)
OneFileUser ==
    \A q, r \in Runners : q # r /\ Running(q) /\ Running(r) =>
        "secret" \in {runs[q].mode, runs[r].mode}

(* What a run holds between its generation and its apply.  In the Secret   *)
(* mode nobody else can touch it, so it has the sizes asked for, and it    *)
(* was made from config.yaml as it is unless runs have crossed.            *)
Holds(r) ==
    /\ runs[r].pc \in {"size", "patch", "push", "touch", "apply", "put"} => Work(r) \in Manifests
    /\ runs[r].pc \in {"push", "touch", "apply", "put"} /\ SpecRevisions =>
          Work(r).template = Work(r).spec /\ \A o \in Roles : Work(r).ref[o] # 0
    /\ runs[r].mode = "secret" =>
          /\ runs[r].pc = "size" => runs[r].work.want = runs[r].cfg.size
          /\ runs[r].pc = "judge" /\ runs[r].work # None => runs[r].work.spec = runs[r].work.want
          /\ runs[r].pc \in {"patch", "push"} => runs[r].work.spec = runs[r].work.want
          /\ runs[r].pc \in {"size", "patch", "push"} /\ ~crossed => runs[r].work.seen = yaml.save
    /\ ~crossed => runs[r].seen = yaml.save

RunsHold == \A r \in Runners : Running(r) => Holds(r)

(* A name that carries a digest carries that of its spec.                  *)
LiveRevised ==
    SpecRevisions => \A w \in Workloads : \A t \in live[w].templates : t.spec = t.rev

(* While the stamp vouches for the Secret, or is about to, what is in it   *)
(* and what a run has just taken from it was made from config.yaml as it is.*)
Vouched == stamp = "newer" \/ \E r \in Runners : At(r, "touch")

Loaded(r) == At(r, "judge") /\ runs[r].mode = "secret" /\ runs[r].work # None

Vouching ==
    ~crossed /\ Vouched =>
        /\ secret # None => secret.seen = yaml.save
        /\ \A r \in Runners : Loaded(r) => runs[r].work.seen = yaml.save

IInv ==
    /\ Typed /\ OneFileUser /\ RunsHold /\ LiveRevised /\ SecretIsWhole /\ Vouching
    /\ SpecRevisions => ApplyAccepted

-----------------------------------------------------------------------------
(* Operators.                                                              *)

LEMMA ActiveRun ==
    ASSUME Typed, NEW r \in Runners, runs[r].pc \notin {"off", "done"}
    PROVE  runs[r] \in Active
BY DEF Typed, Off, Finished

LEMMA PlacesType ==
    /\ "begin" \in Places /\ "select" \in Places /\ "load" \in Places /\ "push" \in Places
    /\ "apply" \in Places /\ "refused" \in Places /\ "patch" \in Places /\ "judge" \in Places
    /\ "touch" \in Places /\ "put" \in Places /\ "generate" \in Places
BY DEF Places

LEMMA Moved ==
    ASSUME NEW a \in Active, NEW pc \in Places PROVE [a EXCEPT !.pc = pc] \in Active
BY DEF Active

LEMMA MovedWith ==
    ASSUME NEW a \in Active, NEW pc \in Places, NEW work \in Manifests \cup {None}
    PROVE  [a EXCEPT !.pc = pc, !.work = work] \in Active
BY DEF Active

LEMMA MovedAs ==
    ASSUME NEW a \in Active, NEW pc \in Places, NEW cfg \in Settings
    PROVE  [a EXCEPT !.pc = pc, !.cfg = cfg] \in Active
BY DEF Active

LEMMA MovedTo ==
    ASSUME NEW a \in Active, NEW pc \in Places, NEW w \in Workloads, NEW work \in Manifests \cup {None}
    PROVE  /\ [a EXCEPT !.pc = pc, !.cfg.name = w] \in Active
           /\ [a EXCEPT !.pc = pc, !.cfg.name = w, !.work = work] \in Active
BY DEF Active, Settings

LEMMA Left ==
    ASSUME NEW a \in Active, NEW pc \in Places, NEW left \in Parts
    PROVE  [a EXCEPT !.left = left] \in Active /\ [a EXCEPT !.pc = pc, !.left = left] \in Active
BY DEF Active

LEMMA RunsUpdate ==
    ASSUME Typed, NEW r \in Runners, NEW a \in {Off, Finished} \cup Active,
           runs' = [runs EXCEPT ![r] = a]
    PROVE  runs' \in [Runners -> {Off, Finished} \cup Active]
BY DEF Typed

LEMMA PartsType ==
    /\ <<>> \in Parts /\ Docs \in Parts /\ Tail(Docs) \in Parts
    /\ \A l \in Parts : l \notin {<<>>, Docs} => Head(l) \in Roles /\ Tail(l) \in Parts
<1>1. Docs = <<"cluster", "control-plane", "worker">>
  BY DEF Docs
<1>2. Tail(Docs) = <<"control-plane", "worker">>
  BY <1>1
<1>3. /\ Head(<<"control-plane", "worker">>) = "control-plane"
      /\ Tail(<<"control-plane", "worker">>) = <<"worker">>
      /\ Head(<<"worker">>) = "worker" /\ Tail(<<"worker">>) = <<>>
  OBVIOUS
<1> QED BY <1>2, <1>3 DEF Parts, Roles

LEMMA NotNone == None \notin Manifests /\ None \notin Settings
BY DEF None, Manifests, Settings

LEMMA MergedType ==
    ASSUME NEW cfg \in Settings, NEW given, shared \in Settings \cup {None}
    PROVE  Merged(cfg, given) \in Settings
<1>1. CASE shared = None
  BY <1>1 DEF Merged
<1>2. CASE shared \in Settings
  BY <1>2, NotNone DEF Merged, Settings
<1> QED BY <1>1, <1>2

LEMMA FilledType ==
    ASSUME Typed, NEW cfg \in Settings, NEW given
    PROVE  Filled(cfg, given) \in Settings
BY DEF Filled, Typed, Settings, Exists, Clusters

LEMMA SelectableType ==
    ASSUME Typed, NEW r \in Runners, runs[r] \in Active
    PROVE  Selectable(r) \subseteq Workloads
BY DEF Selectable, Active, Settings

LEMMA GeneratedType ==
    ASSUME Typed, NEW r \in Runners, runs[r] \in Active
    PROVE  /\ Generated(r) \in Manifests
           /\ Generated(r).want = runs[r].cfg.size
           /\ Generated(r).seen = runs[r].seen
           /\ flavour = "k3s" => Generated(r).spec = Generated(r).want
BY DEF Generated, Manifests, Active, Settings, Revisions, Roles

LEMMA SizedType ==
    ASSUME NEW m \in Manifests, NEW cfg \in Settings
    PROVE  /\ Sized(m, cfg) \in Manifests
           /\ Sized(m, cfg).spec = cfg.size
           /\ Sized(m, cfg).want = m.want /\ Sized(m, cfg).seen = m.seen
BY DEF Sized, Manifests, Settings

(* Whatever digests the names carried before, PatchProxmoxMachineTemplate- *)
(* SpecRevisions leaves that of its spec in a template's name, some digest *)
(* in every reference, and the rest of the manifest alone.                 *)
LEMMA RevisedType ==
    ASSUME NEW m \in Manifests
    PROVE  /\ Revised(m) \in Manifests
           /\ Revised(m).of = m.of /\ Revised(m).spec = m.spec
           /\ Revised(m).want = m.want /\ Revised(m).seen = m.seen
           /\ SpecRevisions => /\ Revised(m).template = m.spec
                               /\ \A o \in Roles : Revised(m).ref[o] # 0
<1>1. CASE ~SpecRevisions
  BY <1>1 DEF Revised
<1>2. CASE SpecRevisions
  <2> DEFINE rev(o, n) == IF n = 0 THEN m.spec[o] ELSE n
             ref == [o \in Roles |-> rev(o, m.ref[o])]
             owner == [o \in Roles |-> IF o \in SameName THEN rev(o, m.owner[o]) ELSE m.owner[o]]
  <2>1. ref \in [Roles -> Revisions] /\ owner \in [Roles -> Revisions] /\ m.spec \in [Roles -> Revisions]
    BY DEF Manifests, Revisions
  <2>2. \A o \in Roles : ref[o] # 0
    BY ManifestsAssumption DEF Manifests, Revisions
  <2>3. Revised(m) = [m EXCEPT !.template = m.spec, !.ref = ref, !.owner = owner]
    BY <1>2 DEF Revised, Manifests
  <2> HIDE DEF ref, owner
  <2> QED BY <2>1, <2>2, <2>3 DEF Manifests
<1> QED BY <1>1, <1>2

-----------------------------------------------------------------------------
(* Types.                                                                  *)

LEMMA InitIInv == Init => IInv
<1> SUFFICES ASSUME Init PROVE IInv
  OBVIOUS
<1>1. Typed
  <2>1. yaml \in [of : Settings, save : 0..MaxEdits] /\ yaml.save = 0
    <3>1. PICK w \in Workloads, z \in Sizes, n \in Networks :
             yaml = [of |-> [name |-> w, size |-> [o \in Roles |-> z], net |-> n, regenerate |-> FALSE],
                     save |-> 0]
      BY DEF Init
    <3>2. 0 \in 0..MaxEdits
      BY ManifestsAssumption
    <3> QED BY <3>1, <3>2 DEF Settings
  <2>2. Absent \in Clusters
    BY DEF Absent, Clusters
  <2>3. live \in [Workloads -> Clusters] /\ runs \in [Runners -> {Off, Finished} \cup Active]
    BY <2>2 DEF Init
  <2>4. edits \in 0..MaxEdits /\ yaml.save <= edits
    BY <2>1, ManifestsAssumption DEF Init
  <2>5. flavour \in Flavours /\ stamp = "absent" /\ fileOld = FALSE /\ file = None /\ shared = None
        /\ secret = None /\ crossed = FALSE
    BY DEF Init
  <2> QED BY <2>1, <2>3, <2>4, <2>5 DEF Typed
<1>2. \A r \in Runners : runs[r].pc = "off"
  BY DEF Init, Off
<1>3. LiveRevised
  BY DEF Init, LiveRevised, Absent
<1> QED
  BY <1>1, <1>2, <1>3
  DEF Init, IInv, OneFileUser, RunsHold, Running, SecretIsWhole, ApplyAccepted, At, Vouching, Loaded

LEMMA TypedStart ==
    ASSUME IInv, NEW r \in Runners, Start(r), UNCHANGED flavour PROVE Typed'
<1>1. PICK c \in Commands :
         LET cfg == [yaml.of EXCEPT !.name = IF c.name = "default" THEN @ ELSE c.name,
                                    !.net = IF c.net = 0 THEN @ ELSE c.net,
                                    !.regenerate = c.regenerate]
         IN runs' = [runs EXCEPT ![r] =
                 [pc |-> IF c.as = "purge" THEN "purge" ELSE "begin", as |-> c.as, mode |-> c.mode,
                  given |-> (IF c.name = "default" THEN {} ELSE {"name"})
                            \cup (IF c.net = 0 THEN {} ELSE {"net"}),
                  seen |-> yaml.save, work |-> None, left |-> <<>>, cfg |-> cfg]]
  BY DEF Start
<1> DEFINE cfg == [yaml.of EXCEPT !.name = IF c.name = "default" THEN @ ELSE c.name,
                                  !.net = IF c.net = 0 THEN @ ELSE c.net,
                                  !.regenerate = c.regenerate]
<1>2. cfg \in Settings
  BY ManifestsAssumption DEF IInv, Typed, Settings
<1> DEFINE pc == IF c.as = "purge" THEN "purge" ELSE "begin"
           given == (IF c.name = "default" THEN {} ELSE {"name"})
                    \cup (IF c.net = 0 THEN {} ELSE {"net"})
           a == [pc |-> pc, as |-> c.as, mode |-> c.mode, given |-> given,
                 seen |-> yaml.save, work |-> None, left |-> <<>>, cfg |-> cfg]
<1>3. a \in Active
  <2>1. pc \in Places /\ c.as \in {"run", "attended", "rollout", "purge"} /\ c.mode \in {"secret", "file"}
    BY ManifestsAssumption DEF Places
  <2>2. given \in SUBSET {"name", "net"} /\ yaml.save \in 0..MaxEdits
    BY DEF IInv, Typed
  <2> HIDE DEF cfg, pc, given
  <2> QED BY <1>2, <2>1, <2>2, PartsType DEF Active
<1>4. runs' = [runs EXCEPT ![r] = a]
  BY <1>1
<1>5. runs' \in [Runners -> {Off, Finished} \cup Active]
  <2> HIDE DEF a
  <2> QED BY <1>3, <1>4, RunsUpdate DEF IInv
<1> QED BY <1>5 DEF IInv, Typed, Start

LEMMA WriteType ==
    ASSUME Typed, NEW r \in Runners, runs[r] \in Active, NEW m \in Manifests, NEW pc \in Places,
           Write(r, m, pc)
    PROVE  /\ file' \in Manifests \cup {None} /\ fileOld' \in BOOLEAN
           /\ runs' \in [Runners -> {Off, Finished} \cup Active]
<1>1. \/ runs' = [runs EXCEPT ![r] = [runs[r] EXCEPT !.pc = pc]]
      \/ runs' = [runs EXCEPT ![r] = [runs[r] EXCEPT !.pc = pc, !.work = m]]
  BY DEF Write
<1>2. [runs[r] EXCEPT !.pc = pc] \in Active /\ [runs[r] EXCEPT !.pc = pc, !.work = m] \in Active
  BY Moved, PlacesType, MovedWith, Zenon
<1> QED BY <1>1, <1>2, RunsUpdate DEF Write, Typed

LEMMA TypedStep ==
    ASSUME IInv, NEW r \in Runners, RunStep(r), UNCHANGED flavour PROVE Typed'
<1>1. CASE Start(r)
  BY <1>1, TypedStart
<1>2. CASE ~Start(r)
  <2>1. (Running(r) /\ runs[r].pc # "refused") \/ Stop(r)
    BY <1>2 DEF RunStep, Running, At, Purge, Begin, Select, Load, Judge, Generate, Size, Patch, Push, Touch,
       FindCluster, PutCluster, Apply, Retry, Finish
  <2>2. runs[r] \in Active
    BY <2>1, ActiveRun DEF IInv, Running, Stop
  <2>3. Holds(r)
    BY <2>1 DEF IInv, RunsHold, Stop
  <2>4. CASE Purge(r)
    <3> DEFINE w == IF runs[r].mode = "file" /\ file # None THEN file.of ELSE runs[r].cfg.name
    <3>1. w \in Workloads
      BY <2>2 DEF IInv, Typed, Manifests, Settings, Active
    <3>2. live' \in [Workloads -> Clusters]
      <4>1. PICK go \in BOOLEAN : live' = [live EXCEPT ![w].going = @ \/ (go /\ Exists(w))]
        BY <2>4, Zenon DEF Purge
      <4>2. (live[w].going \/ (go /\ Exists(w))) \in BOOLEAN
        OBVIOUS
      <4> HIDE DEF w
      <4> QED BY <3>1, <4>1, <4>2 DEF IInv, Typed, Clusters
    <3> DEFINE b == [runs[r] EXCEPT !.pc = "begin", !.cfg.name = w]
    <3>4. b \in Active
      <4> HIDE DEF w
      <4> QED BY <2>2, <3>1, PlacesType, MovedTo, Zenon
    <3>5. runs' = [runs EXCEPT ![r] = b]
      BY <2>4 DEF Purge
    <3> HIDE DEF b
    <3>6. runs' \in [Runners -> {Off, Finished} \cup Active]
      BY <3>4, <3>5, RunsUpdate DEF IInv
    <3> QED BY <2>4, <3>2, <3>6 DEF Purge, IInv, Typed
  <2>5. CASE Begin(r)
    <3> DEFINE cfg == Merged(runs[r].cfg, runs[r].given)
    <3>1. cfg \in Settings
      BY <2>2, MergedType DEF IInv, Typed, Active
    <3>2. runs' = [runs EXCEPT ![r] = [runs[r] EXCEPT !.pc = "select", !.cfg = cfg]] /\ shared' = cfg
      BY <2>5 DEF Begin
    <3>3. [runs[r] EXCEPT !.pc = "select", !.cfg = cfg] \in Active
      BY <2>2, <3>1, PlacesType, MovedAs, Zenon
    <3>4. runs' \in [Runners -> {Off, Finished} \cup Active]
      BY <3>2, <3>3, RunsUpdate DEF IInv
    <3> HIDE DEF cfg
    <3> QED BY <2>5, <3>1, <3>2, <3>4 DEF Begin, IInv, Typed
  <2>6. CASE Select(r)
    <3>1. PICK w \in Selectable(r) :
             LET cfg == [runs[r].cfg EXCEPT !.name = w]
                 merged == Merged(Filled(cfg, runs[r].given), runs[r].given)
             IN runs' = [runs EXCEPT ![r].pc = "load", ![r].cfg = merged]
      BY <2>6 DEF Select
    <3> DEFINE cfg == [runs[r].cfg EXCEPT !.name = w]
               merged == Merged(Filled(cfg, runs[r].given), runs[r].given)
    <3>2. cfg \in Settings
      BY <2>2, SelectableType DEF IInv, Settings, Active
    <3>3. merged \in Settings
      <4> HIDE DEF cfg
      <4> QED BY <3>2, FilledType, MergedType DEF IInv, Typed
    <3>4. runs' = [runs EXCEPT ![r] = [runs[r] EXCEPT !.pc = "load", !.cfg = merged]]
      BY <3>1
    <3>5. [runs[r] EXCEPT !.pc = "load", !.cfg = merged] \in Active
      BY <2>2, <3>3, PlacesType, MovedAs, Zenon
    <3>6. runs' \in [Runners -> {Off, Finished} \cup Active]
      BY <3>4, <3>5, RunsUpdate DEF IInv
    <3> QED BY <2>6, <3>6 DEF Select, IInv, Typed
  <2>7. CASE Load(r)
    <3>1. PICK m \in {secret, None} : runs' = [runs EXCEPT ![r] = [runs[r] EXCEPT !.pc = "judge", !.work = m]]
      BY <2>7 DEF Load
    <3>2. [runs[r] EXCEPT !.pc = "judge", !.work = m] \in Active
      BY <2>2, PlacesType, MovedWith, Zenon DEF IInv, Typed
    <3>3. runs' \in [Runners -> {Off, Finished} \cup Active]
      BY <3>1, <3>2, RunsUpdate DEF IInv
    <3> QED BY <2>7, <3>3 DEF Load, IInv, Typed
  <2>16. CASE Judge(r)
    <3> DEFINE again == Work(r) # None /\ ~Stale(r)
               pc == IF again THEN "patch" ELSE "generate"
               work == IF again THEN runs[r].work ELSE None
    <3>1. pc \in Places /\ work \in Manifests \cup {None}
      BY <2>2 DEF Places, Active
    <3>2. runs' = [runs EXCEPT ![r] = [runs[r] EXCEPT !.pc = pc, !.work = work]]
      BY <2>16, Zenon DEF Judge
    <3> HIDE DEF pc, work
    <3>3. [runs[r] EXCEPT !.pc = pc, !.work = work] \in Active
      BY <2>2, <3>1, MovedWith, Zenon
    <3>4. runs' \in [Runners -> {Off, Finished} \cup Active]
      BY <3>2, <3>3, RunsUpdate DEF IInv
    <3> QED BY <2>16, <3>4 DEF Judge, IInv, Typed
  <2>8. CASE Generate(r)
    <3>1. Generated(r) \in Manifests
      BY <2>2, GeneratedType DEF IInv
    <3>2. PICK pc \in Places : Write(r, Generated(r), pc)
      BY <2>8 DEF Generate, Places
    <3>3. shared' \in Settings \cup {None} /\ UNCHANGED <<yaml, edits, stamp, secret, live, crossed>>
      BY <2>2, <2>8 DEF Generate, IInv, Typed, Active
    <3> QED BY <2>2, <3>1, <3>2, <3>3, PlacesType, WriteType DEF IInv, Typed
  <2>9. CASE Size(r)
    <3>1. Sized(Work(r), runs[r].cfg) \in Manifests
      BY <2>2, <2>3, <2>9, SizedType DEF Size, At, Holds, Active
    <3>2. Write(r, Sized(Work(r), runs[r].cfg), "patch")
      BY <2>9 DEF Size
    <3>3. shared' \in Settings \cup {None} /\ UNCHANGED <<yaml, edits, stamp, secret, live, crossed>>
      BY <2>2, <2>9 DEF Size, IInv, Typed, Active
    <3> QED BY <2>2, <3>1, <3>2, <3>3, PlacesType, WriteType DEF IInv, Typed
  <2>10. CASE Patch(r)
    <3> DEFINE m == Revised(Work(r))
    <3>1. m \in Manifests
      BY <2>3, <2>10, RevisedType DEF Patch, At, Holds
    <3>2. m.of \in Workloads
      BY <3>1 DEF Manifests
    <3> DEFINE work == IF runs[r].mode = "secret" THEN m ELSE None
               b == [runs[r] EXCEPT !.pc = "push", !.cfg.name = m.of, !.work = work]
    <3>3. b \in Active
      <4>1. work \in Manifests \cup {None}
        BY <3>1
      <4> HIDE DEF m, work
      <4> QED BY <2>2, <3>2, <4>1, PlacesType, MovedTo, Zenon
    <3>4. /\ runs' = [runs EXCEPT ![r] = b]
          /\ file' \in {file, m} /\ fileOld' \in {fileOld, FALSE}
          /\ UNCHANGED <<yaml, edits, stamp, shared, secret, live, crossed>>
      BY <2>10, Zenon DEF Patch
    <3> HIDE DEF b
    <3>5. runs' \in [Runners -> {Off, Finished} \cup Active]
      BY <3>3, <3>4, RunsUpdate DEF IInv
    <3> HIDE DEF m
    <3> QED BY <3>1, <3>4, <3>5 DEF IInv, Typed
  <2>11. CASE Push(r)
    <3>1. PICK pc \in {"touch", "apply"} : runs' = [runs EXCEPT ![r] = [runs[r] EXCEPT !.pc = pc, !.left = Docs]]
      BY <2>11 DEF Push
    <3>2. runs[r].mode = "secret" => runs[r].work \in Manifests
      BY <2>3, <2>11 DEF Push, At, Holds, Work
    <3>3. [runs[r] EXCEPT !.pc = pc, !.left = Docs] \in Active
      BY <2>2, PartsType, PlacesType, Left, Zenon
    <3>4. runs' \in [Runners -> {Off, Finished} \cup Active]
      BY <3>1, <3>3, RunsUpdate DEF IInv
    <3>5. crossed' \in BOOLEAN
      BY <2>11 DEF Push, IInv, Typed
    <3> QED BY <2>11, <3>2, <3>4, <3>5 DEF Push, IInv, Typed
  <2>17. CASE Touch(r)
    <3>1. runs' = [runs EXCEPT ![r] = [runs[r] EXCEPT !.pc = "apply"]]
      BY <2>17 DEF Touch
    <3>2. [runs[r] EXCEPT !.pc = "apply"] \in Active
      BY <2>2, PlacesType, Moved, Zenon
    <3>3. runs' \in [Runners -> {Off, Finished} \cup Active]
      BY <3>1, <3>2, RunsUpdate DEF IInv
    <3> QED BY <2>17, <3>3 DEF Touch, IInv, Typed
  <2>18. CASE FindCluster(r)
    <3>1. \/ runs' = [runs EXCEPT ![r] = [runs[r] EXCEPT !.left = Tail(runs[r].left)]]
          \/ runs' = [runs EXCEPT ![r] = [runs[r] EXCEPT !.pc = "put"]]
      BY <2>2, <2>18 DEF FindCluster, IInv, Typed, Active
    <3>2. Tail(runs[r].left) \in Parts
      BY <2>18, PartsType DEF FindCluster
    <3>3. /\ [runs[r] EXCEPT !.left = Tail(runs[r].left)] \in Active
          /\ [runs[r] EXCEPT !.pc = "put"] \in Active
      BY <2>2, <3>2, Left, PlacesType, Moved, Zenon
    <3>4. runs' \in [Runners -> {Off, Finished} \cup Active]
      BY <3>1, <3>3, RunsUpdate DEF IInv
    <3> QED BY <2>18, <3>4 DEF FindCluster, IInv, Typed
  <2>19. CASE PutCluster(r)
    <3> DEFINE m == Work(r)
    <3>1. m \in Manifests
      BY <2>3, <2>19 DEF PutCluster, At, Holds
    <3>2. runs' = [runs EXCEPT ![r] = [runs[r] EXCEPT !.pc = "apply", !.left = Tail(Docs)]]
      BY <2>19 DEF PutCluster
    <3>3. [runs[r] EXCEPT !.pc = "apply", !.left = Tail(Docs)] \in Active
      BY <2>2, PartsType, PlacesType, Left, Zenon
    <3>4. runs' \in [Runners -> {Off, Finished} \cup Active]
      BY <3>2, <3>3, RunsUpdate DEF IInv
    <3>5. live' = [live EXCEPT ![m.of].net = m.net]
      BY <2>19, Zenon DEF PutCluster
    <3> HIDE DEF m
    <3>6. live' \in [Workloads -> Clusters]
      BY <3>1, <3>5 DEF IInv, Typed, Clusters, Manifests
    <3> QED BY <2>19, <3>4, <3>6 DEF PutCluster, IInv, Typed
  <2>12. CASE Apply(r)
    <3> DEFINE m == Work(r)  doc == Head(runs[r].left)
    <3>1. m \in Manifests
      BY <2>3, <2>12 DEF Apply, At, Holds
    <3>2. doc \in Roles /\ Tail(runs[r].left) \in Parts
      BY <2>2, <2>12, PartsType DEF Apply, Active
    <3>3. runs' \in [Runners -> {Off, Finished} \cup Active]
      <4>1. \/ runs' = [runs EXCEPT ![r] = [runs[r] EXCEPT !.left = Tail(runs[r].left)]]
            \/ runs' = [runs EXCEPT ![r] = [runs[r] EXCEPT !.pc = "refused"]]
        BY <2>2, <2>12 DEF Apply, IInv, Typed, Active
      <4>2. /\ [runs[r] EXCEPT !.left = Tail(runs[r].left)] \in Active
            /\ [runs[r] EXCEPT !.pc = "refused"] \in Active
        BY <2>2, <3>2, Left, PlacesType, Moved, Zenon
      <4> QED BY <4>1, <4>2, RunsUpdate DEF IInv
    <3>4. m.of \in Workloads /\ live[m.of] \in Clusters
      BY <3>1 DEF Manifests, IInv, Typed
    <3>6. ASSUME NEW c \in Clusters, doc \in Roles
          PROVE  ApplyOwner(c, m, doc) \in Clusters /\ ApplyTemplate(c, m, doc) \in Clusters
      <4> HIDE DEF m, doc
      <4>1. [role |-> doc, name |-> m.owner[doc], ref |-> m.ref[doc]] \in [role : Roles, name : Revisions, ref : Revisions]
        BY <3>1, <3>6 DEF Manifests
      <4>2. [role |-> doc, rev |-> m.template[doc], spec |-> m.spec[doc]] \in [role : Roles, rev : Revisions, spec : Sizes]
        BY <3>1, <3>6 DEF Manifests
      <4> QED BY <4>1, <4>2, <3>6 DEF ApplyOwner, ApplyTemplate, Clusters
    <3>7. live' \in [Workloads -> Clusters]
      <4>1. IF Refused(live[m.of], m, doc)
            THEN live' = [live EXCEPT ![m.of] = ApplyOwner(live[m.of], m, doc)]
            ELSE live' = [live EXCEPT ![m.of] = ApplyTemplate(ApplyOwner(live[m.of], m, doc), m, doc)]
        BY <2>12, Zenon DEF Apply
      <4> HIDE DEF m, doc
      <4> QED BY <4>1, <3>2, <3>4, <3>6 DEF IInv, Typed
    <3> QED BY <2>12, <3>3, <3>7 DEF Apply, IInv, Typed
  <2>13. CASE Retry(r)
    <3>1. runs' = [runs EXCEPT ![r] = [runs[r] EXCEPT !.pc = "apply", !.left = Docs]]
      BY <2>13 DEF Retry
    <3>2. [runs[r] EXCEPT !.pc = "apply", !.left = Docs] \in Active
      BY <2>2, PartsType, PlacesType, Left, Zenon
    <3>3. runs' \in [Runners -> {Off, Finished} \cup Active]
      BY <3>1, <3>2, RunsUpdate DEF IInv
    <3> QED BY <2>13, <3>3 DEF Retry, IInv, Typed
  <2>14. CASE Finish(r)
    BY <2>14 DEF Finish, IInv, Typed, Finished
  <2>15. CASE Stop(r)
    BY <2>15 DEF Stop, IInv, Typed
  <2> QED
    BY <1>2, <2>4, <2>5, <2>6, <2>7, <2>8, <2>9, <2>10, <2>11, <2>12, <2>13, <2>14, <2>15,
       <2>16, <2>17, <2>18, <2>19
    DEF RunStep
<1> QED BY <1>1, <1>2

LEMMA TypedOperator ==
    ASSUME IInv, Operator, UNCHANGED flavour PROVE Typed'
<1>1. CASE SaveConfig
  <2>1. PICK s \in [Roles -> Sizes], n \in Networks :
           yaml' = [of |-> [yaml.of EXCEPT !.size = s, !.net = n], save |-> yaml.save + 1]
    BY <1>1 DEF SaveConfig
  <2>2. [yaml.of EXCEPT !.size = s, !.net = n] \in Settings
    BY DEF IInv, Typed, Settings
  <2>3. yaml' \in [of : Settings, save : 0..MaxEdits] /\ yaml'.save <= edits'
    BY <1>1, <2>1, <2>2, ManifestsAssumption DEF SaveConfig, IInv, Typed
  <2>4. crossed' \in BOOLEAN
    BY <1>1 DEF SaveConfig, IInv, Typed
  <2> QED BY <1>1, <2>3, <2>4, ManifestsAssumption DEF SaveConfig, IInv, Typed
<1>2. CASE EditShared
  BY <1>2, ManifestsAssumption, NotNone DEF EditShared, IInv, Typed, Settings
<1>3. CASE HandEdit
  <2>1. ASSUME NEW m \in Manifests, NEW o \in Roles, NEW s \in Sizes
        PROVE  [m EXCEPT !.spec[o] = s, !.want[o] = s] \in Manifests
    BY DEF Manifests
  <2>2. secret' \in Manifests \cup {None} /\ file' \in Manifests \cup {None} /\ fileOld' \in BOOLEAN
    <3>1. PICK o \in Roles, s \in Sizes :
             LET edit(m) == [m EXCEPT !.spec[o] = s, !.want[o] = s] IN
             \/ secret # None /\ secret' = edit(secret) /\ UNCHANGED <<file, fileOld>>
             \/ file # None /\ Quiet /\ file' = edit(file) /\ fileOld' = FALSE /\ UNCHANGED secret
      BY <1>3, Zenon DEF HandEdit
    <3> DEFINE edit(m) == [m EXCEPT !.spec[o] = s, !.want[o] = s]
    <3>2. \A m \in Manifests : edit(m) \in Manifests
      BY <2>1, Zenon
    <3>3. \/ secret # None /\ secret' = edit(secret) /\ UNCHANGED <<file, fileOld>>
          \/ file # None /\ file' = edit(file) /\ fileOld' = FALSE /\ UNCHANGED secret
      BY <3>1, Zenon
    <3> HIDE DEF edit
    <3> QED BY <3>2, <3>3 DEF IInv, Typed
  <2> QED BY <1>3, <2>2, ManifestsAssumption DEF HandEdit, IInv, Typed
<1> QED BY <1>1, <1>2, <1>3 DEF Operator

-----------------------------------------------------------------------------
(* What a step of a run does to the processes.                             *)

Onward == UNCHANGED yaml /\ (crossed => crossed')

LEMMA PushOnward == ASSUME NEW r \in Runners, Push(r) PROVE Onward
<1>1. UNCHANGED yaml
  BY DEF Push
<1>2. crossed => crossed'
  BY Zenon DEF Push
<1> QED BY <1>1, <1>2, Zenon DEF Onward

LEMMA RunsOnward ==
    ASSUME NEW r \in Runners, RunStep(r)
    PROVE  Onward
<1>1. UNCHANGED yaml
  BY DEF RunStep, Start, Purge, Begin, Select, Load, Judge, Generate, Size, Patch, Push, Touch,
         FindCluster, PutCluster, Apply, Retry, Finish, Stop
<1>2. CASE Push(r)
  BY <1>1, <1>2, PushOnward DEF Onward
<1>3. CASE ~Push(r)
  <2>1. UNCHANGED crossed
    BY <1>3 DEF RunStep, Start, Purge, Begin, Select, Load, Judge, Generate, Size, Patch, Touch,
                FindCluster, PutCluster, Apply, Retry, Finish, Stop
  <2> QED BY <1>1, <2>1, Zenon DEF Onward
<1> QED BY <1>2, <1>3

Did(r, pc, work, cfg) ==
    /\ runs'[r].pc = pc /\ runs'[r].work = work /\ runs'[r].cfg = cfg
    /\ runs'[r].mode = runs[r].mode /\ runs'[r].seen = runs[r].seen
    /\ \A q \in Runners \ {r} : runs'[q] = runs[q]
    /\ Onward

LEMMA DidMove ==
    ASSUME Typed, NEW r \in Runners, runs[r] \in Active, NEW pc, NEW left, Onward,
           \/ runs' = [runs EXCEPT ![r].pc = pc]
           \/ runs' = [runs EXCEPT ![r].pc = pc, ![r].left = left]
           \/ runs' = [runs EXCEPT ![r].left = left] /\ pc = runs[r].pc
    PROVE  Did(r, pc, runs[r].work, runs[r].cfg)
<1> DEFINE a == runs[r]
           b == [a EXCEPT !.pc = pc]  c == [a EXCEPT !.pc = pc, !.left = left]  d == [a EXCEPT !.left = left]
<1>1. \/ runs' = [runs EXCEPT ![r] = b] \/ runs' = [runs EXCEPT ![r] = c]
      \/ runs' = [runs EXCEPT ![r] = d] /\ pc = a.pc
  OBVIOUS
<1>2. \A x \in {b, c} : x.pc = pc /\ x.work = a.work /\ x.cfg = a.cfg /\ x.mode = a.mode /\ x.seen = a.seen
  <2> HIDE DEF a
  <2> QED BY a \in Active DEF Active, a
<1>3. d.pc = a.pc /\ d.work = a.work /\ d.cfg = a.cfg /\ d.mode = a.mode /\ d.seen = a.seen
  BY DEF Active
<1> HIDE DEF a, b, c, d
<1> QED BY <1>1, <1>2, <1>3 DEF Typed, Did, a

LEMMA DidChange ==
    ASSUME Typed, NEW r \in Runners, runs[r] \in Active, NEW pc, NEW work, NEW cfg, Onward,
           \/ runs' = [runs EXCEPT ![r].pc = pc, ![r].work = work] /\ cfg = runs[r].cfg
           \/ runs' = [runs EXCEPT ![r].pc = pc, ![r].cfg = cfg] /\ work = runs[r].work
    PROVE  Did(r, pc, work, cfg)
<1> DEFINE a == runs[r]
           b == [a EXCEPT !.pc = pc, !.work = work]  c == [a EXCEPT !.pc = pc, !.cfg = cfg]
<1>1. \/ runs' = [runs EXCEPT ![r] = b] /\ cfg = a.cfg
      \/ runs' = [runs EXCEPT ![r] = c] /\ work = a.work
  OBVIOUS
<1>2. b.pc = pc /\ b.work = work /\ b.cfg = a.cfg /\ b.mode = a.mode /\ b.seen = a.seen
  <2> HIDE DEF a
  <2> QED BY a \in Active DEF Active, a
<1>3. c.pc = pc /\ c.work = a.work /\ c.cfg = cfg /\ c.mode = a.mode /\ c.seen = a.seen
  <2> HIDE DEF a
  <2> QED BY a \in Active DEF Active, a
<1> HIDE DEF a, b, c
<1> QED BY <1>1, <1>2, <1>3 DEF Typed, Did, a

(* A manifest that was loaded is used again only if the stamp is newer.    *)
LEMMA LoadDoes ==
    ASSUME IInv, NEW r \in Runners, runs[r] \in Active, Load(r)
    PROVE  /\ \/ Did(r, "judge", None, runs[r].cfg)
              \/ runs[r].mode = "secret" /\ Did(r, "judge", secret, runs[r].cfg)
           /\ UNCHANGED <<file, crossed, secret, stamp>>
<1>1. PICK m \in IF runs[r].mode = "secret" THEN {secret, None} ELSE {None} :
             runs' = [runs EXCEPT ![r].pc = "judge", ![r].work = m]
  BY Zenon DEF Load
<1>2. Onward /\ UNCHANGED <<file, crossed, secret, stamp>>
  BY DEF Load, Onward
<1>3. Did(r, "judge", m, runs[r].cfg)
  BY <1>1, <1>2, DidChange, Zenon DEF IInv
<1>4. m = None \/ (runs[r].mode = "secret" /\ m = secret)
  OBVIOUS
<1> QED BY <1>2, <1>3, <1>4, Zenon

LEMMA JudgeDoes ==
    ASSUME IInv, NEW r \in Runners, runs[r] \in Active, Judge(r)
    PROVE  /\ \/ /\ Did(r, "patch", runs[r].work, runs[r].cfg)
                 /\ ~Stale(r) /\ UNCHANGED file /\ Work(r) # None
              \/ Did(r, "generate", None, runs[r].cfg) /\ (runs[r].mode = "secret" => UNCHANGED file)
           /\ runs[r].pc = "judge" /\ UNCHANGED <<crossed, secret, stamp>>
<1> DEFINE again == Work(r) # None /\ ~Stale(r)
           pc == IF again THEN "patch" ELSE "generate"
           work == IF again THEN runs[r].work ELSE None
<1>1. runs' = [runs EXCEPT ![r].pc = pc, ![r].work = work]
  BY Zenon DEF Judge
<1>2. Onward /\ runs[r].pc = "judge" /\ UNCHANGED <<crossed, secret, stamp>>
  BY DEF Judge, Onward, At
<1>3. Did(r, pc, work, runs[r].cfg)
  <2> HIDE DEF pc, work
  <2> QED BY <1>1, <1>2, DidChange, Zenon DEF IInv
<1>4. /\ (again => UNCHANGED file) /\ (runs[r].mode = "secret" => UNCHANGED file)
  BY Zenon DEF Judge
<1>5. CASE again
  BY <1>2, <1>3, <1>4, <1>5
<1>6. CASE ~again
  BY <1>2, <1>3, <1>4, <1>6
<1> QED BY <1>5, <1>6

LEMMA WriteDoes ==
    ASSUME IInv, NEW r \in Runners, runs[r] \in Active, NEW m, NEW pc, Write(r, m, pc), Onward
    PROVE  \/ runs[r].mode = "file" /\ file' = m /\ Did(r, pc, runs[r].work, runs[r].cfg)
           \/ runs[r].mode = "secret" /\ UNCHANGED file /\ Did(r, pc, m, runs[r].cfg)
<1>1. CASE runs[r].mode = "file"
  BY <1>1, DidMove, Zenon DEF Write, IInv
<1>2. CASE runs[r].mode = "secret"
  <2>1. runs' = [runs EXCEPT ![r].pc = pc, ![r].work = m] /\ UNCHANGED file
    BY <1>2 DEF Write
  <2> QED BY <1>2, <2>1, DidChange, Zenon DEF IInv
<1> QED BY <1>1, <1>2 DEF Active

LEMMA PatchDoes ==
    ASSUME IInv, NEW r \in Runners, runs[r] \in Active, Patch(r)
    PROVE  LET m == Revised(Work(r)) IN
           /\ Did(r, "push", IF runs[r].mode = "secret" THEN m ELSE None,
                  [runs[r].cfg EXCEPT !.name = m.of])
           /\ file' = IF runs[r].mode = "file" THEN m ELSE file
<1> DEFINE m == Revised(Work(r))
           work == IF runs[r].mode = "secret" THEN m ELSE None
           a == runs[r]
           b == [a EXCEPT !.pc = "push", !.cfg.name = m.of, !.work = work]
<1>1. runs' = [runs EXCEPT ![r] = b] /\ Onward /\ file' = IF runs[r].mode = "file" THEN m ELSE file
  <2>1. runs' = [runs EXCEPT ![r] = b] /\ file' = IF runs[r].mode = "file" THEN m ELSE file
    BY Zenon DEF Patch
  <2>2. Onward
    BY DEF Patch, Onward
  <2> QED BY <2>1, <2>2
<1>2. /\ b.pc = "push" /\ b.work = work /\ b.cfg = [a.cfg EXCEPT !.name = m.of]
      /\ b.mode = a.mode /\ b.seen = a.seen
  <2> HIDE DEF a, m, work
  <2> QED BY a \in Active DEF Active, a
<1>3. Did(r, "push", work, [a.cfg EXCEPT !.name = m.of])
  <2> HIDE DEF b, m, work
  <2> QED BY <1>1, <1>2, Zenon DEF Did, IInv, Typed
<1> QED BY <1>1, <1>3, Zenon

-----------------------------------------------------------------------------
(* What runs hold.                                                         *)

(* A step of one run takes nothing from the hands of another.              *)
LEMMA OthersHold ==
    ASSUME IInv, NEW r \in Runners, NEW q \in Runners, q # r,
           runs'[q] = runs[q], Running(q), Onward,
           UNCHANGED file \/ (Running(r) /\ runs[r].mode = "file")
    PROVE  Holds(q)'
<1>1. Holds(q)
  BY DEF IInv, RunsHold
<1>2. runs[q] \in Active
  BY ActiveRun DEF IInv, Running
<1>3. UNCHANGED file \/ runs[q].mode = "secret"
  BY <1>2 DEF IInv, OneFileUser, Active
<1> QED BY <1>1, <1>2, <1>3 DEF Holds, Work, Onward

(* A run that waits for its turn, or applies, holds on to what it has.     *)
LEMMA HoldsOn ==
    ASSUME IInv, NEW r \in Runners, runs[r] \in Active, Holds(r), UNCHANGED file,
           NEW pc, NEW cfg, Did(r, pc, runs[r].work, cfg),
           \/ pc \in {"begin", "select", "load"}
           \/ pc \in {"touch", "apply", "put"} /\ runs[r].pc \in {"push", "touch", "apply", "put"}
    PROVE  Holds(r)'
<1>1. Work(r)' = Work(r)
  BY DEF Did, Work
<1> QED BY <1>1 DEF Holds, Did, Onward

LEMMA LoadHolds ==
    ASSUME IInv, NEW r \in Runners, runs[r] \in Active, Holds(r), Load(r)
    PROVE  Holds(r)'
<1>1. CASE Did(r, "judge", None, runs[r].cfg)
  BY <1>1 DEF Holds, Did, Onward
<1>2. CASE Did(r, "judge", secret, runs[r].cfg)
  BY <1>2 DEF Holds, Did, Onward, IInv, SecretIsWhole
<1> QED BY <1>1, <1>2, LoadDoes

LEMMA JudgeHolds ==
    ASSUME IInv, NEW r \in Runners, runs[r] \in Active, Holds(r), Judge(r)
    PROVE  Holds(r)'
<1>1. runs[r].pc = "judge" /\ UNCHANGED crossed
  BY JudgeDoes
<1>2. CASE /\ Did(r, "patch", runs[r].work, runs[r].cfg)
           /\ ~Stale(r) /\ UNCHANGED file /\ Work(r) # None
  <2>1. Work(r)' = Work(r) /\ Work(r) \in Manifests
    BY <1>2 DEF Did, Work, IInv, Typed, Active
  <2>2. CASE runs[r].mode = "secret"
    <3>1. runs[r].work # None /\ stamp = "newer" /\ runs[r].work.spec = runs[r].work.want
      BY <1>1, <1>2, <2>2 DEF Work, Stale, Holds
    <3>2. ~crossed => runs[r].work.seen = yaml.save
      BY <1>1, <2>2, <3>1 DEF IInv, Vouching, Vouched, Loaded, At
    <3> QED BY <1>1, <1>2, <2>1, <2>2, <3>1, <3>2 DEF Holds, Did, Onward
  <2>3. CASE runs[r].mode = "file"
    BY <1>1, <1>2, <2>1, <2>3 DEF Holds, Did, Onward
  <2> QED BY <2>2, <2>3 DEF Active
<1>3. CASE Did(r, "generate", None, runs[r].cfg)
  BY <1>1, <1>3 DEF Holds, Did, Onward
<1> QED BY <1>2, <1>3, JudgeDoes

(* K3s sizes its machines from the start, clusterctl's need a step.        *)
LEMMA GenerateHolds ==
    ASSUME IInv, NEW r \in Runners, runs[r] \in Active, Holds(r), Generate(r)
    PROVE  Holds(r)'
<1> DEFINE m == Generated(r)
           pc == IF flavour = "k3s" THEN "patch" ELSE "size"
<1>1. Write(r, m, pc) /\ Onward
  <2>1. Write(r, m, pc)
    BY Zenon DEF Generate
  <2> QED BY <2>1 DEF Generate, Onward
<1>2. /\ m \in Manifests /\ m.want = runs[r].cfg.size /\ m.seen = runs[r].seen
      /\ flavour = "k3s" => m.spec = m.want
  BY GeneratedType DEF IInv
<1>3. pc \in {"size", "patch"} /\ (pc = "patch" => m.spec = m.want)
  BY <1>2
<1> HIDE DEF m, pc
<1>4. CASE runs[r].mode = "file" /\ file' = m /\ Did(r, pc, runs[r].work, runs[r].cfg)
  BY <1>2, <1>3, <1>4 DEF Holds, Did, Work, Onward
<1>5. CASE runs[r].mode = "secret" /\ Did(r, pc, m, runs[r].cfg)
  BY <1>2, <1>3, <1>5 DEF Holds, Did, Work, Onward
<1> QED BY <1>1, <1>4, <1>5, WriteDoes, Zenon

LEMMA SizeHolds ==
    ASSUME IInv, NEW r \in Runners, runs[r] \in Active, Holds(r), Size(r)
    PROVE  Holds(r)'
<1> DEFINE m == Sized(Work(r), runs[r].cfg)
<1>1. Write(r, m, "patch") /\ Onward
  <2>1. Write(r, m, "patch")
    BY Zenon DEF Size
  <2> QED BY <2>1 DEF Size, Onward
<1>2. Work(r) \in Manifests /\ runs[r].pc = "size"
  BY DEF Holds, Size, At
<1>3. /\ m \in Manifests /\ m.spec = runs[r].cfg.size
      /\ m.want = Work(r).want /\ m.seen = Work(r).seen
  BY <1>2, SizedType DEF Active
<1> HIDE DEF m
<1>4. CASE runs[r].mode = "file" /\ file' = m /\ Did(r, "patch", runs[r].work, runs[r].cfg)
  BY <1>3, <1>4 DEF Holds, Did, Work, Onward
<1>5. CASE runs[r].mode = "secret" /\ Did(r, "patch", m, runs[r].cfg)
  BY <1>2, <1>3, <1>5 DEF Holds, Did, Work, Onward
<1> QED BY <1>1, <1>4, <1>5, WriteDoes, Zenon

LEMMA PatchHolds ==
    ASSUME IInv, NEW r \in Runners, runs[r] \in Active, Holds(r), Patch(r)
    PROVE  Holds(r)'
<1> DEFINE m == Revised(Work(r))
<1>1. /\ Did(r, "push", IF runs[r].mode = "secret" THEN m ELSE None,
             [runs[r].cfg EXCEPT !.name = m.of])
      /\ file' = IF runs[r].mode = "file" THEN m ELSE file
  BY PatchDoes, Zenon
<1>2. Work(r) \in Manifests /\ runs[r].pc = "patch"
  BY DEF Holds, Patch, At
<1>3. /\ m \in Manifests /\ m.spec = Work(r).spec
      /\ m.want = Work(r).want /\ m.seen = Work(r).seen
      /\ SpecRevisions => m.template = m.spec /\ \A o \in Roles : m.ref[o] # 0
  BY <1>2, RevisedType
<1> HIDE DEF m
<1>4. Work(r)' = m
  BY <1>1 DEF Did, Work, Active
<1>5. CASE runs[r].mode = "file"
  BY <1>1, <1>3, <1>4, <1>5 DEF Holds, Did, Onward
<1>6. CASE runs[r].mode = "secret"
  <2>1. /\ runs'[r].pc = "push" /\ runs'[r].work = m /\ runs'[r].mode = "secret"
        /\ runs'[r].seen = runs[r].seen /\ UNCHANGED yaml /\ (crossed => crossed')
    BY <1>1, <1>6 DEF Did, Onward
  <2>2. m.spec = m.want /\ (~crossed => m.seen = yaml.save)
    BY <1>2, <1>3, <1>6 DEF Holds, Work
  <2> QED BY <1>3, <1>4, <2>1, <2>2 DEF Holds
<1> QED BY <1>5, <1>6 DEF Active

LEMMA StartHolds ==
    ASSUME IInv, NEW r \in Runners, Start(r)
    PROVE  /\ Holds(r)' /\ Onward /\ UNCHANGED <<yaml, file>>
           /\ \A q \in Runners \ {r} : runs'[q] = runs[q]
           /\ runs'[r].mode = "file" =>
                 \A q \in Runners \ {r} : Running(q) => runs[q].mode = "secret"
<1>1. PICK a : /\ runs' = [runs EXCEPT ![r] = a]
               /\ a.pc \in {"purge", "begin"} /\ a.seen = yaml.save
               /\ a.mode = "file" => \A q \in Runners : Running(q) => runs[q].mode = "secret"
  <2>1. PICK c \in Commands :
           LET cfg == [yaml.of EXCEPT !.name = IF c.name = "default" THEN @ ELSE c.name,
                                      !.net = IF c.net = 0 THEN @ ELSE c.net,
                                      !.regenerate = c.regenerate]
           IN
           /\ c.mode = "file" => \A q \in Runners : Running(q) => runs[q].mode = "secret"
           /\ runs' = [runs EXCEPT ![r] =
                   [pc |-> IF c.as = "purge" THEN "purge" ELSE "begin", as |-> c.as, mode |-> c.mode,
                    given |-> (IF c.name = "default" THEN {} ELSE {"name"})
                              \cup (IF c.net = 0 THEN {} ELSE {"net"}),
                    seen |-> yaml.save, work |-> None, left |-> <<>>, cfg |-> cfg]]
    BY Zenon DEF Start
  <2> DEFINE a == [pc |-> IF c.as = "purge" THEN "purge" ELSE "begin", as |-> c.as, mode |-> c.mode,
                   given |-> (IF c.name = "default" THEN {} ELSE {"name"})
                             \cup (IF c.net = 0 THEN {} ELSE {"net"}),
                   seen |-> yaml.save, work |-> None, left |-> <<>>,
                   cfg |-> [yaml.of EXCEPT !.name = IF c.name = "default" THEN @ ELSE c.name,
                                           !.net = IF c.net = 0 THEN @ ELSE c.net,
                                           !.regenerate = c.regenerate]]
  <2>2. a.pc \in {"purge", "begin"} /\ a.seen = yaml.save /\ a.mode = c.mode
    OBVIOUS
  <2>3. runs' = [runs EXCEPT ![r] = a]
    BY <2>1, Zenon
  <2> HIDE DEF a
  <2> QED BY <2>1, <2>2, <2>3, Zenon
<1>2. runs'[r] = a /\ \A q \in Runners \ {r} : runs'[q] = runs[q]
  BY <1>1 DEF IInv, Typed
<1>3. Onward /\ UNCHANGED <<yaml, file>>
  BY DEF Start, Onward
<1> QED BY <1>1, <1>2, <1>3 DEF Holds, Onward

LEMMA PurgeHolds ==
    ASSUME IInv, NEW r \in Runners, runs[r] \in Active, Holds(r), Purge(r)
    PROVE  /\ Holds(r)' /\ Onward /\ runs'[r].mode = runs[r].mode
           /\ \A q \in Runners \ {r} : runs'[q] = runs[q]
           /\ runs[r].mode = "secret" => UNCHANGED file
<1> DEFINE w == IF runs[r].mode = "file" /\ file # None THEN file.of ELSE runs[r].cfg.name
           a == runs[r]
           b == [a EXCEPT !.pc = "begin", !.cfg.name = w]
<1>1. runs' = [runs EXCEPT ![r] = b] /\ Onward /\ (runs[r].mode = "secret" => UNCHANGED file)
  <2>1. runs' = [runs EXCEPT ![r] = b] /\ (runs[r].mode = "secret" => UNCHANGED file)
    BY Zenon DEF Purge
  <2>2. Onward
    BY DEF Purge, Onward
  <2> QED BY <2>1, <2>2, Zenon
<1>2. b.pc = "begin" /\ b.mode = a.mode /\ b.seen = a.seen
  <2> HIDE DEF a, w
  <2> QED BY a \in Active DEF Active, a
<1>3. runs'[r] = b /\ \A q \in Runners \ {r} : runs'[q] = runs[q]
  <2> HIDE DEF b
  <2> QED BY <1>1 DEF IInv, Typed
<1> HIDE DEF b
<1> QED BY <1>1, <1>2, <1>3 DEF Holds, Onward

LEMMA BeginDoes ==
    ASSUME IInv, NEW r \in Runners, runs[r] \in Active, Begin(r) \/ Select(r)
    PROVE  UNCHANGED file /\ \E pc \in {"select", "load"} : \E cfg : Did(r, pc, runs[r].work, cfg)
<1>1. \E pc \in {"select", "load"} : \E cfg : runs' = [runs EXCEPT ![r].pc = pc, ![r].cfg = cfg]
  BY Zenon DEF Begin, Select
<1>2. UNCHANGED file /\ Onward
  BY DEF Begin, Select, Onward
<1> QED BY <1>1, <1>2, DidChange, Zenon DEF IInv

(* An apply the provider refuses.                                          *)
Clash(r) == Apply(r) /\ Refused(live[Work(r).of], Work(r), Head(runs[r].left))

Applies(r) == Push(r) \/ Touch(r) \/ FindCluster(r) \/ PutCluster(r) \/ Apply(r) \/ Retry(r)

LEMMA ApplyDoes ==
    ASSUME IInv, NEW r \in Runners, runs[r] \in Active, Applies(r)
    PROVE  /\ UNCHANGED file /\ runs[r].pc \in {"push", "touch", "apply", "put"}
           /\ \E pc \in {"touch", "apply", "put", "refused"} :
                 /\ Did(r, pc, runs[r].work, runs[r].cfg)
                 /\ pc = "touch" => Push(r)
                 /\ pc = "refused" => Clash(r)
<1>1. \E pc \in {"touch", "apply", "put", "refused"} :
         /\ pc = "touch" => Push(r)
         /\ pc = "refused" => Clash(r)
         /\ \/ \E left : runs' = [runs EXCEPT ![r].pc = pc, ![r].left = left]
            \/ runs' = [runs EXCEPT ![r].left = Tail(runs[r].left)] /\ pc = runs[r].pc
            \/ runs' = [runs EXCEPT ![r].pc = pc]
  <2>1. CASE Push(r)
    BY <2>1, Zenon DEF Push
  <2>2. CASE Touch(r)
    BY <2>2, Zenon DEF Touch
  <2>3. CASE FindCluster(r)
    BY <2>3, Zenon DEF FindCluster, At
  <2>5. CASE Apply(r)
    BY <2>5, Zenon DEF Apply, At, Clash
  <2>4. CASE PutCluster(r) \/ Retry(r)
    BY <2>4, Zenon DEF PutCluster, Retry
  <2> QED BY <2>1, <2>2, <2>3, <2>4, <2>5 DEF Applies
<1>2. UNCHANGED file /\ Onward /\ runs[r].pc \in {"push", "touch", "apply", "put"}
  <2>1. UNCHANGED file /\ runs[r].pc \in {"push", "touch", "apply", "put"}
    BY DEF Applies, Push, Touch, FindCluster, PutCluster, Apply, Retry, At
  <2> QED BY <2>1, RunsOnward DEF RunStep, Applies
<1>3. \E pc \in {"touch", "apply", "put", "refused"} :
         /\ Did(r, pc, runs[r].work, runs[r].cfg)
         /\ pc = "touch" => Push(r)
         /\ pc = "refused" => Clash(r)
  BY <1>1, <1>2, DidMove, Zenon DEF IInv
<1> QED BY <1>2, <1>3

(* What a step leaves of all the runs.                                     *)
LEMMA StepHolds ==
    ASSUME IInv, NEW r \in Runners, RunStep(r)
    PROVE  RunsHold' /\ OneFileUser'
<1>1. CASE Start(r)
  <2>1. \A q \in Runners \ {r} : Running(q)' => Running(q) /\ Holds(q)'
    <3> SUFFICES ASSUME NEW q \in Runners \ {r}, Running(q)' PROVE Running(q) /\ Holds(q)'
      OBVIOUS
    <3>1. runs'[q] = runs[q] /\ Onward
      BY <1>1, StartHolds
    <3>2. Running(q)
      BY <3>1 DEF Running
    <3>3. q # r /\ q \in Runners
      OBVIOUS
    <3>4. UNCHANGED file \/ (Running(r) /\ runs[r].mode = "file")
      BY StartHolds, <1>1
    <3>5. Holds(q)'
      BY <3>1, <3>2, <3>3, <3>4, OthersHold, Zenon
    <3> QED BY <3>2, <3>5
  <2>2. RunsHold'
    BY <1>1, <2>1, StartHolds, Zenon DEF RunsHold
  <2>3. runs'[r].mode \in {"secret", "file"}
    BY <1>1, ManifestsAssumption DEF Start, IInv, Typed
  <2> QED BY <1>1, <2>1, <2>2, <2>3, StartHolds DEF IInv, OneFileUser, Running
<1>2. CASE Finish(r) \/ Stop(r)
  <2>1. ~Running(r)' /\ Onward /\ UNCHANGED file /\ \A q \in Runners \ {r} : runs'[q] = runs[q]
    BY <1>2 DEF Finish, Stop, IInv, Typed, Running, Off, Onward
  <2>2. \A q \in Runners \ {r} : Running(q)' => Running(q) /\ Holds(q)'
    <3> SUFFICES ASSUME NEW q \in Runners \ {r}, Running(q)' PROVE Running(q) /\ Holds(q)'
      OBVIOUS
    <3>1. runs'[q] = runs[q] /\ Onward
      BY <2>1
    <3>2. Running(q)
      BY <3>1 DEF Running
    <3>3. q # r /\ q \in Runners
      OBVIOUS
    <3>4. UNCHANGED file \/ (Running(r) /\ runs[r].mode = "file")
      BY <2>1
    <3>5. Holds(q)'
      BY <3>1, <3>2, <3>3, <3>4, OthersHold, Zenon
    <3> QED BY <3>2, <3>5
  <2>3. RunsHold'
    BY <2>1, <2>2, Zenon DEF RunsHold
  <2> QED BY <2>1, <2>2, <2>3 DEF IInv, OneFileUser, Running
<1>3. CASE ~(Start(r) \/ Finish(r) \/ Stop(r))
  <2>1. Running(r) /\ runs[r] \in Active /\ Holds(r)
    <3>1. runs[r].pc \notin {"off", "done", "refused"}
      BY <1>3 DEF RunStep, At, Purge, Begin, Select, Load, Judge, Generate, Size, Patch, Push, Touch,
                  FindCluster, PutCluster, Apply, Retry
    <3> QED BY <3>1, ActiveRun DEF IInv, RunsHold, Running
  <2>2. /\ Onward /\ runs'[r].mode = runs[r].mode
        /\ \A q \in Runners \ {r} : runs'[q] = runs[q]
        /\ runs[r].mode = "secret" => UNCHANGED file
        /\ Running(r)' => Holds(r)'
    <3>1. CASE Purge(r)
      BY <2>1, <3>1, PurgeHolds
    <3>2. CASE Begin(r) \/ Select(r)
      BY <2>1, <3>2, BeginDoes, HoldsOn, Zenon DEF Did
    <3>3. CASE Load(r)
      BY <2>1, <3>3, LoadDoes, LoadHolds, Zenon DEF Did
    <3>8. CASE Judge(r)
      BY <2>1, <3>8, JudgeDoes, JudgeHolds, Zenon DEF Did
    <3>4. CASE Generate(r)
      <4>1. \E m, pc : Write(r, m, pc)
        BY <3>4 DEF Generate
      <4>2. Onward
        BY <1>3, <3>4, RunsOnward DEF RunStep
      <4> QED BY <2>1, <3>4, <4>1, <4>2, WriteDoes, GenerateHolds, Zenon DEF Did
    <3>5. CASE Size(r)
      <4>1. \E m, pc : Write(r, m, pc)
        BY <3>5 DEF Size
      <4>2. Onward
        BY <1>3, <3>5, RunsOnward DEF RunStep
      <4> QED BY <2>1, <3>5, <4>1, <4>2, WriteDoes, SizeHolds, Zenon DEF Did
    <3>6. CASE Patch(r)
      <4>1. Holds(r)'
        BY <2>1, <3>6, PatchHolds
      <4> DEFINE m == Revised(Work(r))
      <4>2. /\ Did(r, "push", IF runs[r].mode = "secret" THEN m ELSE None,
                   [runs[r].cfg EXCEPT !.name = m.of])
            /\ file' = IF runs[r].mode = "file" THEN m ELSE file
        BY <2>1, <3>6, PatchDoes, Zenon
      <4> HIDE DEF m
      <4> QED BY <4>1, <4>2 DEF Did
    <3>7. CASE Applies(r)
      <4>1. PICK pc \in {"touch", "apply", "put", "refused"} : Did(r, pc, runs[r].work, runs[r].cfg)
        BY <2>1, <3>7, ApplyDoes, Zenon
      <4>2. UNCHANGED file /\ runs[r].pc \in {"push", "touch", "apply", "put"}
        BY <2>1, <3>7, ApplyDoes, Zenon
      <4>3. CASE pc \in {"touch", "apply", "put"}
        BY <2>1, <4>1, <4>2, <4>3, HoldsOn, Zenon DEF Did
      <4>4. CASE pc = "refused"
        BY <4>1, <4>2, <4>4 DEF Did, Running
      <4> QED BY <4>3, <4>4
    <3> QED BY <1>3, <3>1, <3>2, <3>3, <3>4, <3>5, <3>6, <3>7, <3>8 DEF RunStep, Applies
  <2>3. UNCHANGED file \/ runs[r].mode = "file"
    BY <2>1, <2>2 DEF Active
  <2>4. \A q \in Runners \ {r} : Running(q)' => Running(q) /\ Holds(q)'
    <3> SUFFICES ASSUME NEW q \in Runners \ {r}, Running(q)' PROVE Running(q) /\ Holds(q)'
      OBVIOUS
    <3>1. runs'[q] = runs[q] /\ Onward
      BY <2>1, <2>2, <2>3
    <3>2. Running(q)
      BY <3>1 DEF Running
    <3>3. q # r /\ q \in Runners
      OBVIOUS
    <3>4. UNCHANGED file \/ (Running(r) /\ runs[r].mode = "file")
      BY <2>1, <2>3
    <3>5. Holds(q)'
      BY <3>1, <3>2, <3>3, <3>4, OthersHold, Zenon
    <3> QED BY <3>2, <3>5
  <2>5. RunsHold'
    BY <2>2, <2>4, Zenon DEF RunsHold
  <2> QED BY <2>1, <2>2, <2>5 DEF IInv, OneFileUser, Running
<1> QED BY <1>1, <1>2, <1>3

-----------------------------------------------------------------------------
(* The Secret, the stamp and the live objects.                             *)

(* Only the push and the purge touch the Secret, and what the push stores  *)
(* is whole.                                                               *)
LEMMA SecretStep ==
    ASSUME IInv, NEW r \in Runners, RunStep(r)
    PROVE  SecretIsWhole'
<1>1. CASE Push(r)
  <2>1. runs[r] \in Active /\ Holds(r) /\ runs[r].pc = "push"
    <3>1. Running(r) /\ runs[r].pc = "push"
      BY <1>1 DEF Push, At, Running
    <3> QED BY <3>1, ActiveRun DEF IInv, RunsHold, Running
  <2>2. CASE runs[r].mode = "secret"
    <3> DEFINE m == runs[r].work
    <3>1. secret' = m /\ m \in Manifests /\ m.spec = m.want
      BY <1>1, <2>1, <2>2 DEF Push, Holds, Work
    <3>2. SpecRevisions => \A o \in Roles : m.template[o] # 0 /\ m.ref[o] # 0
      BY <2>1, <2>2, <3>1, ManifestsAssumption DEF Holds, Work, Manifests
    <3> HIDE DEF m
    <3> QED BY <3>1, <3>2 DEF SecretIsWhole
  <2>3. CASE runs[r].mode = "file"
    BY <1>1, <2>3 DEF Push, IInv, SecretIsWhole
  <2> QED BY <2>1, <2>2, <2>3 DEF Active
<1>2. CASE ~Push(r)
  <2>1. secret' \in {secret, None}
    BY <1>2 DEF RunStep, Start, Purge, Begin, Select, Load, Judge, Generate, Size, Patch, Touch,
                FindCluster, PutCluster, Apply, Retry, Finish, Stop
  <2> QED BY <2>1 DEF IInv, SecretIsWhole
<1> QED BY <1>1, <1>2

(* Where a run begins.                                                     *)
LEMMA StartPlace == ASSUME IInv, NEW r \in Runners, Start(r) PROVE runs'[r].pc \in {"purge", "begin"}
BY ManifestsAssumption DEF Start, IInv, Typed

(* Only the load takes a run to its judgement, the push to the touch, and  *)
(* an apply that clashes to "refused".                                     *)
LEMMA Elsewhere ==
    ASSUME IInv, NEW r \in Runners, RunStep(r)
    PROVE  /\ \A q \in Runners \ {r} : runs'[q] = runs[q]
           /\ runs'[r].pc = "judge" => Load(r)
           /\ runs'[r].pc = "touch" => Push(r)
           /\ runs'[r].pc = "refused" => Clash(r)
<1>1. CASE Start(r)
  <2>1. runs'[r].pc \in {"purge", "begin"}
    BY <1>1, StartPlace
  <2> QED BY <1>1, <2>1, StartHolds
<1>2. CASE Finish(r) \/ Stop(r)
  BY <1>2 DEF Finish, Stop, Off, IInv, Typed
<1>3. CASE ~(Start(r) \/ Finish(r) \/ Stop(r))
  <2>1. runs[r] \in Active /\ Holds(r)
    <3>1. runs[r].pc \notin {"off", "done", "refused"}
      BY <1>3 DEF RunStep, At, Purge, Begin, Select, Load, Judge, Generate, Size, Patch, Push, Touch,
                  FindCluster, PutCluster, Apply, Retry
    <3> QED BY <3>1, ActiveRun DEF IInv, RunsHold, Running
  <2>2. CASE Purge(r)
    <3>1. \E w : runs' = [runs EXCEPT ![r] = [runs[r] EXCEPT !.pc = "begin", !.cfg.name = w]]
      BY <2>2, Zenon DEF Purge
    <3>2. \A w : [runs[r] EXCEPT !.pc = "begin", !.cfg.name = w].pc = "begin"
      BY <2>1 DEF Active
    <3>3. \A q \in Runners \ {r} : runs'[q] = runs[q]
      BY <2>1, <2>2, PurgeHolds
    <3> QED BY <3>1, <3>2, <3>3 DEF IInv, Typed
  <2>3. CASE Begin(r) \/ Select(r)
    BY <2>1, <2>3, BeginDoes DEF Did
  <2>4. CASE Load(r)
    BY <2>1, <2>4, LoadDoes DEF Did
  <2>5. CASE Judge(r)
    BY <2>1, <2>5, JudgeDoes DEF Did
  <2>6. CASE Generate(r) \/ Size(r)
    <3>1. \E m, pc : pc \in {"size", "patch"} /\ Write(r, m, pc)
      BY <2>6 DEF Generate, Size
    <3>2. Onward
      BY RunsOnward
    <3> QED BY <2>1, <3>1, <3>2, WriteDoes DEF Did
  <2>7. CASE Patch(r)
    BY <2>1, <2>7, PatchDoes DEF Did
  <2>8. CASE Applies(r)
    BY <2>1, <2>8, ApplyDoes DEF Did
  <2> QED BY <1>3, <2>2, <2>3, <2>4, <2>5, <2>6, <2>7, <2>8 DEF RunStep, Applies
<1> QED BY <1>1, <1>2, <1>3

(* A push by a run that read config.yaml as it is, with no other run about *)
(* to judge what it loaded before, leaves nothing older to be vouched for. *)
LEMMA VouchingStep ==
    ASSUME IInv, NEW r \in Runners, RunStep(r)
    PROVE  Vouching'
<1> SUFFICES ASSUME ~crossed', Vouched'
             PROVE  /\ secret' # None => secret'.seen = yaml'.save
                    /\ \A q \in Runners : Loaded(q)' => runs'[q].work.seen = yaml'.save
  BY DEF Vouching
<1>1. ~crossed /\ UNCHANGED yaml
  BY RunsOnward DEF Onward
<1>2. \A q \in Runners \ {r} : Loaded(q)' => Loaded(q) /\ runs'[q] = runs[q]
  BY Elsewhere DEF Loaded, At
<1>3. CASE Push(r) /\ runs[r].mode = "secret"
  <2>1. runs[r] \in Active /\ Holds(r) /\ runs[r].pc = "push"
    <3>1. Running(r) /\ runs[r].pc = "push"
      BY <1>3 DEF Push, At, Running
    <3> QED BY <3>1, ActiveRun DEF IInv, RunsHold, Running
  <2>2. secret'.seen = yaml'.save
    BY <1>1, <1>3, <2>1 DEF Push, Holds
  <2>3. ~\E q \in Runners \ {r} : Loaded(q)
    BY <1>3 DEF Push, Loaded
  <2>4. ~Loaded(r)'
    <3>1. ~Load(r)
      BY <2>1 DEF Load, At
    <3> QED BY <3>1, Elsewhere DEF Loaded, At
  <2> QED BY <1>2, <2>2, <2>3, <2>4
<1>4. CASE ~(Push(r) /\ runs[r].mode = "secret")
  <2>1. Vouched
    <3>1. CASE stamp' = "newer"
      <4>1. CASE Touch(r)
        BY <4>1 DEF Touch, Vouched
      <4>2. CASE ~Touch(r)
        <5>1. UNCHANGED stamp
          BY <4>2 DEF RunStep, Start, Purge, Begin, Select, Load, Judge, Generate, Size, Patch, Push,
                      FindCluster, PutCluster, Apply, Retry, Finish, Stop
        <5> QED BY <3>1, <5>1 DEF Vouched
      <4> QED BY <4>1, <4>2
    <3>2. CASE \E q \in Runners : At(q, "touch")'
      <4>1. PICK q \in Runners : runs'[q].pc = "touch"
        BY <3>2 DEF At
      <4>2. CASE q = r
        <5>1. Push(r)
          BY <4>1, <4>2, Elsewhere
        <5>2. runs'[r].pc = "apply"
          BY <1>4, <5>1 DEF Push, IInv, Typed
        <5> QED BY <4>1, <4>2, <5>2
      <4>3. CASE q # r
        BY <4>1, <4>3, Elsewhere DEF Vouched, At
      <4> QED BY <4>2, <4>3
    <3> QED BY <3>1, <3>2 DEF Vouched
  <2>2. /\ secret # None => secret.seen = yaml.save
        /\ \A q \in Runners : Loaded(q) => runs[q].work.seen = yaml.save
    BY <1>1, <2>1 DEF IInv, Vouching
  <2>3. secret' \in {secret, None}
    BY <1>4 DEF RunStep, Start, Purge, Begin, Select, Load, Judge, Generate, Size, Patch, Push, Touch,
                FindCluster, PutCluster, Apply, Retry, Finish, Stop
  <2>4. Loaded(r)' => runs'[r].work.seen = yaml'.save
    <3> SUFFICES ASSUME Loaded(r)' PROVE runs'[r].work.seen = yaml'.save
      OBVIOUS
    <3>1. Load(r)
      BY Elsewhere DEF Loaded, At
    <3>2. runs[r] \in Active
      BY <3>1, ActiveRun DEF Load, At, IInv
    <3>3. runs'[r].work # None /\ runs'[r].work \in {None, secret}
      BY <3>1, <3>2, LoadDoes DEF Loaded, Did
    <3> QED BY <1>1, <2>2, <3>3
  <2> QED BY <1>1, <1>2, <2>2, <2>3, <2>4
<1> QED BY <1>3, <1>4

(* The digest is in a name before the name is applied, so a template that  *)
(* exists has the spec of the one applied over it.                         *)
LEMMA NeverRefused ==
    ASSUME IInv, SpecRevisions, NEW r \in Runners, Apply(r)
    PROVE  LET m == Work(r)  doc == Head(runs[r].left) IN
           doc \in Roles /\ m.template[doc] = m.spec[doc] /\ ~Clash(r)
<1> DEFINE m == Work(r)  doc == Head(runs[r].left)
<1>1. runs[r].pc = "apply" /\ Holds(r) /\ runs[r] \in Active
  BY ActiveRun DEF Apply, At, IInv, RunsHold, Running
<1>2. m \in Manifests /\ m.template = m.spec
  BY <1>1 DEF Holds
<1>3. m.of \in Workloads /\ doc \in Roles
  BY <1>1, <1>2, PartsType DEF Manifests, Apply, Active
<1>4. ~Refused(live[m.of], m, doc)
  <2> HIDE DEF m, doc
  <2> QED BY <1>2, <1>3 DEF Refused, IInv, LiveRevised
<1> QED BY <1>2, <1>3, <1>4, Zenon DEF Clash

LEMMA LiveStep ==
    ASSUME IInv, NEW r \in Runners, RunStep(r)
    PROVE  LiveRevised' /\ (SpecRevisions => ApplyAccepted')
<1> SUFFICES ASSUME SpecRevisions PROVE LiveRevised' /\ ApplyAccepted'
  BY DEF LiveRevised
<1>1. ApplyAccepted'
  BY Elsewhere, NeverRefused DEF IInv, ApplyAccepted, At, Clash
<1>2. LiveRevised'
  <2>1. CASE Apply(r)
    <3> DEFINE m == Work(r)  doc == Head(runs[r].left)
    <3>1. doc \in Roles /\ m.template[doc] = m.spec[doc]
      BY <2>1, NeverRefused, Zenon
    <3>2. m.of \in Workloads
      BY <2>1 DEF Apply, At, IInv, RunsHold, Running, Holds, Manifests
    <3>3. IF Refused(live[m.of], m, doc)
          THEN live' = [live EXCEPT ![m.of] = ApplyOwner(live[m.of], m, doc)]
          ELSE live' = [live EXCEPT ![m.of] = ApplyTemplate(ApplyOwner(live[m.of], m, doc), m, doc)]
      BY <2>1, Zenon DEF Apply
    <3> HIDE DEF m, doc
    <3>4. live[m.of] \in Clusters
      BY <3>2 DEF IInv, Typed
    <3>5. \A w \in Workloads \ {m.of} : live'[w] = live[w]
      BY <3>3 DEF IInv, Typed
    <3>6. \A t \in live'[m.of].templates :
             t \in live[m.of].templates
             \/ t = [role |-> doc, rev |-> m.template[doc], spec |-> m.spec[doc]]
      <4>1. /\ ApplyOwner(live[m.of], m, doc).templates = live[m.of].templates
            /\ ApplyTemplate(ApplyOwner(live[m.of], m, doc), m, doc).templates
                  = live[m.of].templates
                    \cup {[role |-> doc, rev |-> m.template[doc], spec |-> m.spec[doc]]}
        BY <3>4 DEF ApplyOwner, ApplyTemplate, Clusters
      <4> QED BY <3>2, <3>3, <4>1 DEF IInv, Typed
    <3> QED BY <3>1, <3>5, <3>6 DEF IInv, LiveRevised
  <2>2. CASE Purge(r) \/ PutCluster(r)
    <3>1. \A w \in Workloads : live'[w].templates = live[w].templates
      <4>1. \/ \E w, go : live' = [live EXCEPT ![w] = [live[w] EXCEPT !.going = go]]
            \/ \E w, net : live' = [live EXCEPT ![w] = [live[w] EXCEPT !.net = net]]
        BY <2>2, Zenon DEF Purge, PutCluster
      <4>2. \A w \in Workloads : live[w] \in Clusters
        BY DEF IInv, Typed
      <4>3. \A c \in Clusters : \A x : [c EXCEPT !.going = x].templates = c.templates
                                   /\ [c EXCEPT !.net = x].templates = c.templates
        BY DEF Clusters
      <4>4. live \in [Workloads -> Clusters]
        BY DEF IInv, Typed
      <4>5. CASE \E w, go : live' = [live EXCEPT ![w] = [live[w] EXCEPT !.going = go]]
        BY <4>2, <4>3, <4>4, <4>5
      <4>6. CASE \E w, net : live' = [live EXCEPT ![w] = [live[w] EXCEPT !.net = net]]
        BY <4>2, <4>3, <4>4, <4>6
      <4> QED BY <4>1, <4>5, <4>6
    <3> QED BY <3>1 DEF IInv, LiveRevised
  <2>3. CASE ~(Apply(r) \/ Purge(r) \/ PutCluster(r))
    <3>1. UNCHANGED live
      BY <2>3 DEF RunStep, Start, Begin, Select, Load, Judge, Generate, Size, Patch, Push, Touch,
                  FindCluster, Retry, Finish, Stop
    <3> QED BY <3>1 DEF IInv, LiveRevised
  <2> QED BY <2>1, <2>2, <2>3
<1> QED BY <1>1, <1>2

-----------------------------------------------------------------------------
(* The operator, and all steps.                                            *)

LEMMA OperatorKeeps ==
    ASSUME IInv, Operator
    PROVE  /\ OneFileUser' /\ RunsHold' /\ LiveRevised' /\ SecretIsWhole' /\ Vouching'
           /\ SpecRevisions => ApplyAccepted'
<1>1. UNCHANGED <<live, runs>> /\ (crossed => crossed')
  <2>1. UNCHANGED <<live, runs>>
    BY DEF Operator, SaveConfig, EditShared, HandEdit
  <2>2. CASE SaveConfig
    BY <2>2, Zenon DEF SaveConfig
  <2>3. CASE EditShared \/ HandEdit
    <3>1. UNCHANGED crossed
      BY <2>3 DEF EditShared, HandEdit
    <3> QED BY <2>1, <3>1, Zenon
  <2> QED BY <2>1, <2>2, <2>3 DEF Operator
<1>2. OneFileUser' /\ LiveRevised' /\ (SpecRevisions => ApplyAccepted')
  BY <1>1 DEF IInv, OneFileUser, LiveRevised, ApplyAccepted, Running, At
<1>3. ASSUME NEW r \in Runners, Running(r)
      PROVE  /\ UNCHANGED file \/ runs[r].mode = "secret"
             /\ UNCHANGED yaml \/ crossed'
  BY <1>3 DEF Operator, SaveConfig, EditShared, HandEdit, Quiet
<1>4. RunsHold'
  <2> SUFFICES ASSUME NEW r \in Runners, Running(r) PROVE Holds(r)'
    BY <1>1 DEF RunsHold, Running
  <2>1. Holds(r) /\ Work(r)' = Work(r) /\ runs'[r] = runs[r]
    BY <1>1, <1>3 DEF IInv, RunsHold, Work
  <2> QED BY <1>1, <1>3, <2>1 DEF Holds
<1>5. CASE SaveConfig
  <2>1. stamp' # "newer" /\ UNCHANGED secret
    BY <1>5 DEF SaveConfig
  <2>2. crossed' \/ \A r \in Runners : ~At(r, "touch")'
    BY <1>1, <1>5 DEF SaveConfig, Quiet, Running, At
  <2> QED BY <1>2, <1>4, <2>1, <2>2 DEF IInv, SecretIsWhole, Vouching, Vouched
<1>6. CASE EditShared
  <2>1. UNCHANGED <<yaml, stamp, secret, crossed>>
    BY <1>6 DEF EditShared
  <2> QED BY <1>1, <1>2, <1>4, <2>1 DEF IInv, SecretIsWhole, Vouching, Vouched, Loaded, At
<1>7. CASE HandEdit
  <2>1. UNCHANGED <<yaml, stamp, crossed>>
    BY <1>7 DEF HandEdit
  <2>2. PICK o \in Roles, s \in Sizes :
           LET edit(m) == [m EXCEPT !.spec[o] = s, !.want[o] = s] IN
           \/ secret # None /\ secret' = edit(secret) /\ UNCHANGED <<file, fileOld>>
           \/ file # None /\ Quiet /\ file' = edit(file) /\ fileOld' = FALSE /\ UNCHANGED secret
    BY <1>7, Zenon DEF HandEdit
  <2> DEFINE edit(m) == [m EXCEPT !.spec[o] = s, !.want[o] = s]
  <2>3. UNCHANGED secret \/ (secret # None /\ secret' = edit(secret))
    BY <2>2, Zenon
  <2>4. ASSUME NEW m \in Manifests
        PROVE  /\ edit(m).template = m.template /\ edit(m).ref = m.ref /\ edit(m).seen = m.seen
               /\ m.spec = m.want => edit(m).spec = edit(m).want
    BY DEF Manifests
  <2> HIDE DEF edit
  <2>5. SecretIsWhole' /\ (secret' # None => secret # None /\ secret'.seen = secret.seen)
    BY <2>3, <2>4 DEF IInv, Typed, SecretIsWhole
  <2> QED BY <1>1, <1>2, <1>4, <2>1, <2>5 DEF IInv, Vouching, Vouched, Loaded, At
<1> QED BY <1>2, <1>4, <1>5, <1>6, <1>7 DEF Operator

(* What has gone leaves nothing behind that could clash.                   *)
LEMMA GoneKeeps ==
    ASSUME IInv, NEW w \in Workloads, Gone(w), UNCHANGED flavour PROVE IInv'
<1>1. /\ live' \in [Workloads -> Clusters]
      /\ \A x \in Workloads : live'[x].templates \in {live[x].templates, {}}
  BY DEF Gone, IInv, Typed, Clusters, Absent
<1>2. UNCHANGED <<flavour, yaml, edits, stamp, file, fileOld, shared, secret, runs, begun, crossed>>
  BY DEF Gone
<1>3. Typed' /\ LiveRevised'
  BY <1>1, <1>2 DEF IInv, Typed, LiveRevised
<1>4. OneFileUser' /\ RunsHold' /\ SecretIsWhole' /\ Vouching' /\ (SpecRevisions => ApplyAccepted')
  BY <1>2 DEF IInv, OneFileUser, RunsHold, Holds, Work, Running, At, SecretIsWhole, Vouching, Vouched,
              Loaded, ApplyAccepted
<1> QED BY <1>3, <1>4 DEF IInv

LEMMA Preserved == IInv /\ [Next]_vars => IInv'
<1>1. ASSUME IInv, UNCHANGED vars PROVE IInv'
  BY <1>1
  DEF IInv, vars, Typed, OneFileUser, RunsHold, Holds, Work, Running, At, LiveRevised, SecretIsWhole,
      ApplyAccepted, Vouching, Vouched, Loaded
<1>2. ASSUME IInv, UNCHANGED flavour, NEW r \in Runners, RunStep(r) PROVE IInv'
  BY <1>2, TypedStep, StepHolds, SecretStep, VouchingStep, LiveStep DEF IInv
<1>3. ASSUME IInv, UNCHANGED flavour, Operator PROVE IInv'
  BY <1>3, TypedOperator, OperatorKeeps DEF IInv
<1> QED BY <1>1, <1>2, <1>3, GoneKeeps DEF Next

(* The invariant holds of every behaviour.                                 *)
THEOREM Inductive == Spec => []IInv
BY InitIInv, Preserved, PTL DEF Spec

(* Settings, manifests and live objects stay what they are, however runs   *)
(* and edits mix (the types of config.Config and of the two Secrets).      *)
THEOREM TypeCorrect == Spec => []TypeOK
<1>1. IInv => TypeOK
  <2> SUFFICES ASSUME IInv PROVE TypeOK
    OBVIOUS
  <2>1. \A w \in Workloads : live[w] \in Clusters
    BY DEF IInv, Typed
  <2>2. \A r \in Runners : Running(r) => runs[r] \in Active
    BY ActiveRun DEF IInv, Running
  <2> QED BY <2>1, <2>2 DEF IInv, Typed, TypeOK, Clusters, Active
<1> QED BY <1>1, Inductive, PTL

(* With digests in the names of templates, no run is ever turned away for  *)
(* changing one in place (PatchProxmoxMachineTemplateSpecRevisions).       *)
THEOREM NeverTurnedAway ==
    ASSUME SpecRevisions PROVE Spec => []ApplyAccepted
<1>1. IInv => ApplyAccepted
  BY DEF IInv
<1> QED BY <1>1, Inductive, PTL

(* The Secret never holds a half-made manifest (PushCAPIManifestToSecret). *)
THEOREM SecretAlwaysWhole == Spec => []SecretIsWhole
<1>1. IInv => SecretIsWhole
  BY DEF IInv
<1> QED BY <1>1, Inductive, PTL

(* A stamp that is newer than config.yaml vouches for the Secret, unless   *)
(* config.yaml was saved in the course of a run or a push fell between the *)
(* load and the judgement of another run (WorkloadClusterctlIsStale).      *)
THEOREM StampIsTrue == Spec => []StampMeansRead
<1>1. IInv => StampMeansRead
  BY DEF IInv, Vouching, Vouched, StampMeansRead
<1> QED BY <1>1, Inductive, PTL

(* With digests in the names, an owner that moves to another template      *)
(* moves to another spec (ApplyWorkloadManifestToManagementCluster).       *)
THEOREM MachinesRollForAReason ==
    ASSUME SpecRevisions PROVE Spec => RolledOnlyWhenChanged
<1>1. LiveRevised /\ LiveRevised' =>
        [\A w \in Workloads :
           \A x \in live[w].owners, y \in live'[w].owners :
              x.role = y.role /\ x.name = y.name /\ x.ref # y.ref =>
                 \A t \in live[w].templates, u \in live'[w].templates :
                    t.role = x.role /\ t.rev = x.ref /\ u.role = y.role /\ u.rev = y.ref =>
                       t.spec # u.spec]_vars
  BY DEF LiveRevised
<1>2. IInv => LiveRevised
  BY DEF IInv
<1> QED BY <1>1, <1>2, Inductive, PTL DEF RolledOnlyWhenChanged
=============================================================================
