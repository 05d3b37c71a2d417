------------------------------ MODULE Archives ------------------------------
(***************************************************************************)
(* yage --kind-backup and --kind-restore (internal/cluster/kind): an       *)
(* archive of the objects in some namespaces of the kind cluster, read     *)
(* call by call while others change them, and its return to that cluster   *)
(* or to one made anew.                                                    *)
(*                                                                         *)
(* One process runs at a time and may stop at any point.  A start that     *)
(* finds no kubectl, no context or no namespace to save ends at once, and  *)
(* so does a call to the local file system that fails: both leave what a   *)
(* stop leaves.                                                            *)
(***************************************************************************)
EXTENDS Naturals, SequencesExt

CONSTANTS
    SortedSpaces,   \* the namespaces, in the order of their names
    DefaultSpaces,  \* those saved when the operator names none
    SortedKinds,    \* the kinds of objects, as api-resources lists them
    BuiltIn,        \* the kinds a new cluster serves
    Keys,           \* the objects: records of a namespace, a kind and a name
    Fields,         \* the fields of an object that kubectl apply merges one by one
    Contents,       \* what others may write into an object
    Standing,       \* the objects there may be at first
    Backups,        \* how backups are asked for
    MaxMissed,      \* bound: calls of one backup that get no answer
    MaxEvents       \* bound: processes and changes made by others, together

Spaces == ToSet(SortedSpaces)
Kinds == ToSet(SortedKinds)

\* Passphrases of the two variables: the program's own, and the one of age.
Passphrases == [own : {"", "s1"}, age : {"", "s2"}]
Asking == [asked : SUBSET Spaces, want : {"auto", "none", "age", "openssl"},
           env : Passphrases, tools : SUBSET {"age", "openssl"}, dest : {0, 1}]

VARIABLES
    there,    \* the cluster: its namespaces, kinds and objects
    files,    \* the archives on disk, by name: <<how many ".gz", suffix>>
    job,      \* the process
    events    \* how many processes were started and changes made by others

archivesVars == <<there, files, job, events>>

\* What an object says: a value for each field, 0 for a field it does not have.
Values == [Fields -> 0 .. 2]
Blank == [f \in Fields |-> 0]
Documents == Values \ {Blank}
FieldsOf(doc) == {f \in Fields : doc[f] # 0}

\* An object on the cluster: "last" are the fields of the document that was last
\* given to kubectl apply for it, "owned" says that it has an owner.
Object == [says : Values, last : SUBSET Fields, owned : BOOLEAN]
Gone == [says |-> Blank, last |-> {}, owned |-> FALSE]
NoObjects == [k \in Keys |-> Gone]
Present(objects) == {k \in Keys : objects[k].says # Blank}

\* A line of an archive.
SavedLine == Keys \X Documents
Lines(objects, keys) == {<<k, objects[k].says>> : k \in keys}

ASSUME ArchivesAssumption ==
    /\ DefaultSpaces \subseteq Spaces /\ "default" \in Spaces
    /\ BuiltIn \subseteq Kinds
    /\ Keys \subseteq [ns : Spaces, kind : Kinds, name : STRING]
    /\ Contents \subseteq Documents
    /\ \A objects \in Standing : objects \in [Keys -> Object]
    /\ Backups \subseteq Asking
    /\ {MaxMissed, MaxEvents} \subseteq Nat
\* An archive that is not there, or cut short.
Broken == [whole |-> FALSE]
FileName == (0 .. 2) \X {"", "age", "enc"}

NewCluster == [spaces |-> {"default"}, serves |-> BuiltIn, objects |-> NoObjects]
NoJob == [pc |-> "off"]

Place(order, x) == CHOOSE i \in DOMAIN order : order[i] = x
Leads(order, x, S) == \A y \in S : Place(order, x) <= Place(order, y)

Passphrase(env) == IF env.own # "" THEN env.own ELSE env.age

\* BackupNamespaces: those asked for, or the default ones.
BackupNamespaces(asked) == IF asked = {} THEN DefaultSpaces ELSE asked

\* Without a passphrase nothing is encrypted, whatever was asked for.
Encryption(want, env, tools) ==
    CASE Passphrase(env) = "" -> "none"
      [] Passphrase(env) # "" /\ want # "auto" -> want
      [] Passphrase(env) # "" /\ want = "auto" ->
           IF "age" \in tools THEN "age" ELSE IF "openssl" \in tools THEN "openssl" ELSE "none"

\* Each tool reads a variable of its own, which a backup passes on as it is.
Sees(mode, env) ==
    CASE mode = "none" -> "" [] mode = "age" -> env.age [] mode = "openssl" -> env.own

File(dest, mode) ==
    <<dest + 1, CASE mode = "none" -> "" [] mode = "age" -> "age" [] mode = "openssl" -> "enc">>

--------------------------------------------------------------------------

\* What a backup of some namespaces has to save.
Wanted(objects, spaces) == {k \in Present(objects) : k.ns \in spaces /\ k.kind # "events"}

\* "steady" and "seen" are history: the objects to be saved that nobody touched
\* since the start, and all that was there to be saved at any time.  "missed"
\* counts the calls without an answer.
StartBackup ==
    \E b \in Backups :
      LET spaces == BackupNamespaces(b.asked)
          mode == Encryption(b.want, b.env, b.tools)
          saved == Lines(there.objects, Wanted(there.objects, spaces))
      IN /\ events < MaxEvents /\ events' = events + 1
         /\ job' = [pc |-> "space", asked |-> spaces, left |-> spaces, ns |-> "default",
                    kinds |-> {}, spaces |-> {}, objects |-> {},
                    tool |-> mode \in b.tools, key |-> Sees(mode, b.env), mode |-> mode,
                    dest |-> b.dest, missed |-> 0, steady |-> saved, seen |-> saved]
         /\ UNCHANGED <<there, files>>

\* A call is answered, or not.
Answers == IF job.missed < MaxMissed THEN BOOLEAN ELSE {TRUE}
Missed(answered) == job.missed + IF answered THEN 0 ELSE 1

\* kubectl get namespace: what is not there, or not answered, is not saved.
ReadNamespace ==
    /\ job.pc = "space"
    /\ \E ns \in job.left, answered \in Answers :
         /\ Leads(SortedSpaces, ns, job.left)
         /\ job' = [job EXCEPT !.pc = "kinds", !.ns = ns, !.left = @ \ {ns},
                               !.missed = Missed(answered),
                               !.spaces = IF answered THEN @ \cup ({ns} \cap there.spaces) ELSE @]
    /\ UNCHANGED <<there, files, events>>

\* kubectl api-resources: what it lists is used, also when it failed half-way.
ReadKinds ==
    /\ job.pc = "kinds"
    /\ \E shown \in SUBSET there.serves :
         /\ shown = there.serves \/ job.missed < MaxMissed
         /\ job' = [job EXCEPT !.pc = "list", !.missed = Missed(shown = there.serves),
                               !.kinds = shown \ {"events"}]
    /\ UNCHANGED <<there, files, events>>

\* kubectl get of one kind in the namespace: without an answer, nothing of it.
ListKind ==
    /\ job.pc = "list"
    /\ \E kind \in job.kinds, answered \in Answers :
         LET found == {k \in Present(there.objects) : answered /\ k.ns = job.ns /\ k.kind = kind}
         IN /\ Leads(SortedKinds, kind, job.kinds)
            /\ job' = [job EXCEPT !.kinds = @ \ {kind}, !.missed = Missed(answered),
                                  !.objects = @ \cup Lines(there.objects, found)]
    /\ UNCHANGED <<there, files, events>>

CloseNamespace ==
    /\ job.pc = "list" /\ job.kinds = {}
    /\ job' = [job EXCEPT !.pc = "space"]
    /\ UNCHANGED <<there, files, events>>

\* The archive under its name is emptied first and complete when it is closed.
\* A tool that is missing, or has no passphrase of its own, ends the backup and
\* may leave an empty file.
OpenArchive ==
    LET emptied == [files EXCEPT ![File(job.dest, job.mode)] = Broken]
    IN /\ job.pc = "space" /\ job.left = {}
       /\ \/ /\ job.mode = "none" \/ (job.tool /\ job.key # "")
             /\ files' = emptied /\ job' = [job EXCEPT !.pc = "write"]
          \/ /\ job.mode # "none"
             /\ files' \in {files, emptied} /\ job' = NoJob
       /\ UNCHANGED <<there, events>>

Sealed == [whole |-> TRUE, key |-> job.key, spaces |-> job.spaces, objects |-> job.objects,
           missed |-> job.missed, steady |-> job.steady, seen |-> job.seen]

\* Without encryption the file of the name asked for is removed in the end.
WriteArchive ==
    /\ job.pc = "write"
    /\ files' = [f \in FileName |->
         CASE f = File(job.dest, job.mode) -> Sealed
           [] f # File(job.dest, job.mode) /\ job.mode = "none" /\ f = <<job.dest, "">> -> Broken
           [] OTHER -> files[f]]
    /\ job' = NoJob
    /\ UNCHANGED <<there, events>>

--------------------------------------------------------------------------

\* An archive that is cut short, or sealed with another passphrase, does not open.
Opens(file, env) ==
    /\ files[file].whole
    /\ file[2] # "" => Passphrase(env) = files[file].key

StartRestore ==
    \E file \in FileName, env \in Passphrases :
      /\ events < MaxEvents /\ events' = events + 1
      /\ Opens(file, env)
      /\ job' = [pc |-> "apply", spaces |-> files[file].spaces, objects |-> files[file].objects,
                 archive |-> files[file], before |-> there.objects, touched |-> {}]
      /\ UNCHANGED <<there, files>>

\* applyRestoreTree goes through the namespaces by name.
Reached(ns) == Leads(SortedSpaces, ns, job.spaces \cup {line[1].ns : line \in job.objects})

\* namespace.json, before the objects of the namespace.
ApplyNamespace ==
    /\ job.pc = "apply"
    /\ \E ns \in job.spaces :
         /\ Reached(ns)
         /\ there' = [there EXCEPT !.spaces = @ \cup {ns}]
         /\ job' = [job EXCEPT !.spaces = @ \ {ns}]
    /\ UNCHANGED <<files, events>>

\* The lines of objects.jsonl are in the order of their kinds.
NextLine(line) ==
    LET ns == line[1].ns
    IN /\ Reached(ns) /\ ns \notin job.spaces
       /\ Leads(SortedKinds, line[1].kind,
                {other[1].kind : other \in {o \in job.objects : o[1].ns = ns}})

Accepts(k) == k.ns \in there.spaces /\ k.kind \in there.serves

\* kubectl apply merges a document into what is there: a field it does not have
\* goes only if the document before it had it.
Merged(doc, o) ==
    [f \in Fields |-> IF doc[f] # 0 THEN doc[f] ELSE IF f \in o.last THEN 0 ELSE o.says[f]]

\* The document is the object without its status, its owners, its marks of
\* deletion and the record of what was last applied: one that is there keeps its
\* owners, a new one has none.
Applied(line) ==
    [there EXCEPT !.objects[line[1]].says = Merged(line[2], there.objects[line[1]]),
                  !.objects[line[1]].last = FieldsOf(line[2])]

\* mutant: an object that the cluster refuses is passed over
ApplyAccepted ==
    /\ job.pc = "apply"
    /\ \E line \in job.objects :
         /\ NextLine(line)
         /\ there' = IF Accepts(line[1]) THEN Applied(line) ELSE there
         /\ job' = [job EXCEPT !.objects = @ \ {line}]
    /\ UNCHANGED <<files, events>>

ApplyObject ==
    /\ job.pc = "apply"
    /\ \E line \in job.objects :
         /\ NextLine(line) /\ Accepts(line[1])
         /\ there' = Applied(line)
         /\ job' = [job EXCEPT !.objects = @ \ {line}]
    /\ UNCHANGED <<files, events>>

EndRestore ==
    /\ job.pc = "apply" /\ job.spaces = {} /\ job.objects = {}
    /\ job' = [job EXCEPT !.pc = "restored"]
    /\ UNCHANGED <<there, files, events>>

\* Stopped, or a document was refused, or a call failed.
Stop ==
    /\ job.pc # "off"
    /\ job' = NoJob
    /\ UNCHANGED <<there, files, events>>

--------------------------------------------------------------------------

Saving == {"space", "kinds", "list", "write"}
Restoring == {"apply", "restored"}

\* What the process does not know: which objects are not as they were.
Noticed(new) ==
    LET changed == {k \in Keys : there.objects[k] # new[k]}
    IN CASE job.pc \in Saving ->
              [job EXCEPT !.steady = {line \in @ : line[1] \notin changed},
                          !.seen = @ \cup Lines(new, Wanted(new, job.asked))]
         [] job.pc \in Restoring -> [job EXCEPT !.touched = @ \cup changed]
         [] job.pc = "off" -> job

Others(cluster) ==
    /\ events < MaxEvents /\ events' = events + 1
    /\ there' = cluster
    /\ job' = Noticed(cluster.objects)
    /\ UNCHANGED files

\* Controllers and other runs write and delete objects, the cluster is made anew
\* (what it held is gone), Cluster API is installed on it.
Rewritten(k, doc) == [there EXCEPT !.objects[k].says = doc]
Drift ==
    \/ \E k \in Present(there.objects), doc \in Contents : Others(Rewritten(k, doc))
    \/ \E k \in Present(there.objects) : Others([there EXCEPT !.objects[k] = Gone])
    \/ Others(NewCluster)
    \/ Others([there EXCEPT !.serves = Kinds])

ArchivesInit ==
    /\ there \in [spaces : {Spaces}, serves : {Kinds}, objects : Standing]
    /\ files = [f \in FileName |-> Broken] /\ job = NoJob /\ events = 0

ArchivesNext ==
    \/ StartBackup \/ ReadNamespace \/ ReadKinds \/ ListKind \/ CloseNamespace
    \/ OpenArchive \/ WriteArchive
    \/ StartRestore \/ ApplyNamespace \/ ApplyObject \/ EndRestore \/ Stop \/ Drift

ArchivesSpec == ArchivesInit /\ [][ArchivesNext]_archivesVars

--------------------------------------------------------------------------

ArchivesTypeOK ==
    /\ there.spaces \subseteq Spaces /\ there.serves \subseteq Kinds
    /\ there.objects \in [Keys -> Object]
    /\ \A k \in Present(there.objects) : k.ns \in there.spaces /\ k.kind \in there.serves
    /\ job.pc \in {"off"} \cup Saving \cup Restoring
    /\ events \in 0 .. MaxEvents

(* When a restore reports success (restore.go:119), what a backup whose    *)
(* calls were all answered had to save and nobody touched during it has    *)
(* every field it had then, unless somebody changed it since the restore   *)
(* began.  Any other object is as before, or an object that was there to   *)
(* be saved while the backup ran was laid over it: what it did not say     *)
(* stays as it is, and goes only if a kubectl apply had put it there.      *)
(* Nothing is missing that was there.  That holds over stops, repeated and *)
(* failed attempts, clusters made anew and archives written over.          *)
Covers(o, doc) == \A f \in FieldsOf(doc) : o.says[f] = doc[f]
Spares(o, old, doc) ==
    \A f \in Fields \ FieldsOf(doc) :
        o.says[f] = old.says[f] \/ (o.says[f] = 0 /\ f \in old.last)
LaidOver(k, saved, o, old) ==
    \E line \in saved : line[1] = k /\ Covers(o, line[2]) /\ Spares(o, old, line[2])
RoundTrip ==
    job.pc = "restored" =>
      LET now == there.objects
          archive == job.archive
      IN /\ archive.missed = 0 =>
              \A line \in archive.steady :
                line[1] \in job.touched \/ Covers(now[line[1]], line[2])
         /\ \A k \in Keys \ job.touched :
              now[k] = job.before[k] \/ LaidOver(k, archive.seen, now[k], job.before[k])
         /\ Present(job.before) \ job.touched \subseteq Present(now)
=============================================================================
