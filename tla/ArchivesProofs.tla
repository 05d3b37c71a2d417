--------------------------- MODULE ArchivesProofs ---------------------------
(***************************************************************************)
(* Proofs about Archives, for every set of namespaces, kinds and objects,  *)
(* any number of processes, and any changes and failures during them.      *)
(***************************************************************************)
EXTENDS Archives, TLAPS

-----------------------------------------------------------------------------
(* The inductive invariant.                                                *)

Cluster == [spaces : SUBSET Spaces, serves : SUBSET Kinds, objects : [Keys -> Object]]

Secret == {"", "s1", "s2"}

Archive ==
    [whole : {TRUE}, key : Secret, spaces : SUBSET Spaces, objects : SUBSET SavedLine,
     missed : Nat, steady : SUBSET SavedLine, seen : SUBSET SavedLine]

Backup ==
    [pc : Saving, asked : SUBSET Spaces, left : SUBSET Spaces, ns : Spaces,
     kinds : SUBSET Kinds, spaces : SUBSET Spaces, objects : SUBSET SavedLine,
     tool : BOOLEAN, key : Secret, mode : {"none", "age", "openssl"}, dest : {0, 1},
     missed : Nat, steady : SUBSET SavedLine, seen : SUBSET SavedLine]

Restore ==
    [pc : Restoring, spaces : SUBSET Spaces, objects : SUBSET SavedLine,
     archive : Archive, before : [Keys -> Object], touched : SUBSET Keys]

(* An object has its namespace, and its kind is served.                    *)
Housed == \A k \in Present(there.objects) : k.ns \in there.spaces /\ k.kind \in there.serves

TypeInv ==
    /\ there \in Cluster /\ Housed
    /\ files \in [FileName -> {Broken} \cup Archive]
    /\ job \in {NoJob} \cup Backup \cup Restore
    /\ events \in 0 .. MaxEvents

(* What nobody touched during a backup is as it was, and is to be saved.   *)
SteadyHolds ==
    \A line \in job.steady :
        /\ there.objects[line[1]].says = line[2]
        /\ line[1].ns \in job.asked /\ line[1].kind # "events"

(* A backup reads the namespaces it was asked for, without their events,   *)
(* and what is there to be saved was seen.                                 *)
InScope ==
    /\ job.left \subseteq job.asked
    /\ job.pc \in {"kinds", "list"} => job.ns \in job.asked \ job.left
    /\ "events" \notin job.kinds
    /\ \A k \in Wanted(there.objects, job.asked) : <<k, there.objects[k].says>> \in job.seen

(* What is saved was there, each object once, and agrees with what nobody   *)
(* touched.                                                                *)
Truthful(saved) ==
    /\ saved.objects \subseteq saved.seen
    /\ \A p, q \in saved.objects : p[1] = q[1] => p = q
    /\ \A p \in saved.objects, q \in saved.steady : p[1] = q[1] => p = q

(* A backup whose calls were all answered has saved what nobody touched,   *)
(* apart from the namespaces and the kinds it has not come to.             *)
AheadOf(line) ==
    \/ line[1].ns \in job.left
    \/ job.pc = "kinds" /\ line[1].ns = job.ns
    \/ job.pc = "list" /\ line[1].ns = job.ns /\ line[1].kind \in job.kinds

SavedSoFar ==
    job.missed = 0 => \A line \in job.steady : line \in job.objects \/ AheadOf(line)

(* What is saved already is not come to again.                             *)
NoneAhead == \A p \in job.objects : ~ AheadOf(p)

BackupInv ==
    job.pc \in Saving =>
        /\ SteadyHolds /\ InScope /\ Truthful(job) /\ SavedSoFar /\ NoneAhead
        /\ job.pc = "write" => job.left = {}

(* An archive that is whole.                                               *)
Sound(archive) ==
    /\ Truthful(archive)
    /\ archive.missed = 0 => archive.steady \subseteq archive.objects

FilesInv == \A f \in FileName : files[f] # Broken => Sound(files[f])

(* A restore brings back the lines it has not come to, and nothing else.   *)
BringsBack(line) ==
    \/ line \in job.objects
    \/ line[1] \in job.touched
    \/ Covers(there.objects[line[1]], line[2])

RestoreInv ==
    job.pc \in Restoring =>
        /\ Sound(job.archive)
        /\ job.objects \subseteq job.archive.objects
        /\ job.pc = "restored" => job.objects = {}
        /\ job.archive.missed = 0 => \A line \in job.archive.steady : BringsBack(line)
        /\ \A line \in job.objects :
             line[1] \in job.touched \/ there.objects[line[1]] = job.before[line[1]]
        /\ \A k \in Keys \ job.touched :
             \/ there.objects[k] = job.before[k]
             \/ LaidOver(k, job.archive.seen, there.objects[k], job.before[k])

Inv == TypeInv /\ BackupInv /\ FilesInv /\ RestoreInv

-----------------------------------------------------------------------------
(* Types.                                                                  *)

LEMMA Places == \A dest \in {0, 1}, mode \in {"none", "age", "openssl"} : File(dest, mode) \in FileName
<1> TAKE dest \in {0, 1}, mode \in {"none", "age", "openssl"}
<1>1. dest + 1 \in 0 .. 2
  OBVIOUS
<1>2. File(dest, mode)[2] \in {"", "age", "enc"}
  BY DEF File
<1> QED
  BY <1>1, <1>2 DEF File, FileName

LEMMA LinesTyped ==
    ASSUME NEW objects \in [Keys -> Object], NEW K, K \subseteq Present(objects)
    PROVE  Lines(objects, K) \subseteq SavedLine
<1>1. \A k \in K : k \in Keys /\ objects[k].says \in Documents
  BY DEF Present, Object, Documents
<1> QED
  BY <1>1 DEF Lines, SavedLine

(* What is gone is blank, and has the type of an object.                   *)
LEMMA BlankTyped == Blank \in Values /\ Gone \in Object /\ Gone.says = Blank
BY DEF Blank, Values, Gone, Object

LEMMA MergedTyped ==
    ASSUME NEW o \in Object, NEW doc \in Documents
    PROVE  /\ Merged(doc, o) \in Documents
           /\ FieldsOf(doc) \in SUBSET Fields
<1>1. doc \in [Fields -> 0 .. 2] /\ o.says \in [Fields -> 0 .. 2]
  BY DEF Documents, Values, Object
<1>2. Merged(doc, o) \in Values
  BY <1>1 DEF Merged, Values
<1>3. PICK f \in Fields : doc[f] # 0
  BY <1>1 DEF Documents, Values, Blank
<1>4. Merged(doc, o)[f] # 0 /\ Blank[f] = 0
  BY <1>3 DEF Merged, Blank
<1> QED
  BY <1>2, <1>4 DEF Documents, FieldsOf

(* What apply leaves: the fields of the document, and of the rest only what *)
(* the document before it did not have.                                    *)
LEMMA MergedLaidOver ==
    ASSUME NEW o \in Object, NEW doc \in Documents, NEW new,
           new.says = Merged(doc, o)
    PROVE  Covers(new, doc) /\ Spares(new, o, doc)
BY DEF Covers, Spares, FieldsOf, Merged

(* The cluster after a document was accepted.                              *)
LEMMA AppliedTyped ==
    ASSUME there \in Cluster, NEW line \in SavedLine
    PROVE  /\ Applied(line) \in Cluster
           /\ Applied(line).spaces = there.spaces /\ Applied(line).serves = there.serves
           /\ Applied(line).objects[line[1]].says = Merged(line[2], there.objects[line[1]])
           /\ Applied(line).objects[line[1]].says # Blank
           /\ \A k \in Keys \ {line[1]} : Applied(line).objects[k] = there.objects[k]
<1> DEFINE k == line[1]
           o == there.objects[k]
           new == [o EXCEPT !.says = Merged(line[2], o), !.last = FieldsOf(line[2])]
<1>1. k \in Keys /\ line[2] \in Documents /\ o \in Object
  BY DEF SavedLine, Cluster
<1>2. Merged(line[2], o) \in Documents /\ FieldsOf(line[2]) \in SUBSET Fields
  BY <1>1, MergedTyped
<1>3. new \in Object /\ new.says = Merged(line[2], o) /\ new.says # Blank
  BY <1>1, <1>2 DEF Object, Documents
<1>4. Applied(line) = [there EXCEPT !.objects = [@ EXCEPT ![k] = new]]
  BY <1>1 DEF Applied, Cluster, Object
<1> HIDE DEF k, new
<1> QED
  BY <1>1, <1>3, <1>4 DEF Cluster, k

LEMMA PassphrasesTyped ==
    ASSUME NEW b \in Backups
    PROVE  /\ Encryption(b.want, b.env, b.tools) \in {"none", "age", "openssl"}
           /\ Sees(Encryption(b.want, b.env, b.tools), b.env) \in Secret
           /\ BackupNamespaces(b.asked) \subseteq Spaces
           /\ b.dest \in {0, 1}
<1> DEFINE mode == Encryption(b.want, b.env, b.tools)
<1>1. b \in Asking
  BY ArchivesAssumption
<1>2. mode \in {"none", "age", "openssl"}
  BY <1>1 DEF Encryption, Asking
<1>3. Sees(mode, b.env) \in Secret
  <2>1. b.env.own \in Secret /\ b.env.age \in Secret
    BY <1>1 DEF Asking, Passphrases, Secret
  <2> HIDE DEF mode
  <2>2. Sees(mode, b.env) \in {"", b.env.own, b.env.age}
    BY <1>2 DEF Sees
  <2> QED
    BY <2>1, <2>2 DEF Secret
<1> QED
  BY <1>1, <1>2, <1>3, ArchivesAssumption DEF BackupNamespaces, Asking

(* What others do to the cluster leaves one that is housed.                *)
LEMMA DriftTyped ==
    ASSUME there \in Cluster, Housed, Drift
    PROVE  /\ there' \in Cluster /\ Housed'
           /\ Others(there')
<1> USE DEF Cluster, Housed, Others, Present
<1>1. ASSUME NEW k \in Present(there.objects), NEW doc \in Contents, Others(Rewritten(k, doc))
      PROVE  there' \in Cluster /\ Housed' /\ Others(there')
  <2> DEFINE new == [there.objects[k] EXCEPT !.says = doc]
  <2>1. there.objects[k] \in Object /\ doc \in Values
    BY ArchivesAssumption DEF Documents
  <2>2. there' \in Cluster
    <3>1. new \in Object
      BY <2>1 DEF Object
    <3>2. \A j \in Keys : there'.objects[j] = IF j = k THEN new ELSE there.objects[j]
      BY <1>1 DEF Rewritten
    <3> HIDE DEF new
    <3> QED
      BY <1>1, <3>1, <3>2 DEF Rewritten
  <2>3. Housed'
    BY <1>1 DEF Rewritten
  <2> QED
    BY <1>1, <2>2, <2>3
<1>2. ASSUME NEW k \in Present(there.objects), Others([there EXCEPT !.objects[k] = Gone])
      PROVE  there' \in Cluster /\ Housed' /\ Others(there')
  <2>1. Gone \in Object /\ Gone.says = Blank
    BY BlankTyped
  <2>2. there' \in Cluster
    BY <1>2, <2>1
  <2>3. Housed'
    BY <1>2, <2>1
  <2> QED
    BY <1>2, <2>2, <2>3
<1>3. CASE Others(NewCluster)
  BY <1>3, ArchivesAssumption, BlankTyped DEF NewCluster, NoObjects
<1>4. CASE Others([there EXCEPT !.serves = Kinds])
  BY <1>4, ArchivesAssumption
<1> QED
  BY <1>1, <1>2, <1>3, <1>4 DEF Drift

LEMMA NoticedTyped ==
    ASSUME TypeInv, NEW new \in [Keys -> Object]
    PROVE  Noticed(new) \in {NoJob} \cup Backup \cup Restore
<1> DEFINE changed == {k \in Keys : there.objects[k] # new[k]}
<1>1. CASE job = NoJob
  BY <1>1 DEF NoJob, Noticed, Saving, Restoring
<1>2. CASE job \in Backup
  <2>1. Noticed(new) = [job EXCEPT !.steady = {line \in @ : line[1] \notin changed},
                                   !.seen = @ \cup Lines(new, Wanted(new, job.asked))]
    BY <1>2 DEF Noticed, Backup, Saving, Restoring
  <2>2. Lines(new, Wanted(new, job.asked)) \subseteq SavedLine
    BY LinesTyped DEF Wanted
  <2> HIDE DEF changed
  <2> QED
    BY <1>2, <2>1, <2>2 DEF Backup
<1>3. CASE job \in Restore
  <2>1. Noticed(new) = [job EXCEPT !.touched = @ \cup changed]
    BY <1>3 DEF Noticed, Restore, Saving, Restoring
  <2> QED
    BY <1>3, <2>1 DEF Restore
<1> QED
  BY <1>1, <1>2, <1>3 DEF TypeInv

LEMMA MissedTyped ==
    ASSUME job \in Backup, NEW answered \in BOOLEAN
    PROVE  Missed(answered) \in Nat
BY DEF Missed, Backup

LEMMA TypePreserved == TypeInv /\ [ArchivesNext]_archivesVars => TypeInv'
<1> SUFFICES ASSUME TypeInv, [ArchivesNext]_archivesVars PROVE TypeInv'
  OBVIOUS
<1> USE DEF TypeInv
<1>0. job.pc \in Saving => job \in Backup
  BY DEF Saving, Restoring, NoJob, Restore
<1>00. job.pc \in Restoring => job \in Restore
  BY DEF Saving, Restoring, NoJob, Backup
<1>1. CASE StartBackup
  <2>1. PICK b \in Backups :
          LET mode == Encryption(b.want, b.env, b.tools)
              spaces == BackupNamespaces(b.asked)
              saved == Lines(there.objects, Wanted(there.objects, spaces))
          IN job' = [pc |-> "space", asked |-> spaces, left |-> spaces, ns |-> "default",
                    kinds |-> {}, spaces |-> {}, objects |-> {},
                    tool |-> mode \in b.tools, key |-> Sees(mode, b.env), mode |-> mode,
                    dest |-> b.dest, missed |-> 0, steady |-> saved, seen |-> saved]
    BY <1>1 DEF StartBackup
  <2> DEFINE spaces == BackupNamespaces(b.asked)
             saved == Lines(there.objects, Wanted(there.objects, spaces))
  <2>2. saved \subseteq SavedLine
    BY LinesTyped DEF Wanted, Cluster
  <2> HIDE DEF saved
  <2>3. job' \in Backup
    BY <2>1, <2>2, PassphrasesTyped, ArchivesAssumption DEF Backup, Saving, saved
  <2> QED
    BY <1>1, <2>3, ArchivesAssumption DEF StartBackup, Housed, Present
<1>2. CASE ReadNamespace
  <2>1. job' \in Backup
    <3>1. job \in Backup
      BY <1>2, <1>0 DEF ReadNamespace, Saving
    <3>2. PICK ns \in job.left, answered \in Answers :
            job' = [job EXCEPT !.pc = "kinds", !.ns = ns, !.left = @ \ {ns},
                               !.missed = Missed(answered),
                               !.spaces = IF answered THEN @ \cup ({ns} \cap there.spaces) ELSE @]
      BY <1>2 DEF ReadNamespace
    <3>3. Missed(answered) \in Nat
      BY <3>1, MissedTyped DEF Answers
    <3> QED
      BY <3>1, <3>2, <3>3 DEF Backup, Saving
  <2> QED
    BY <1>2, <2>1 DEF ReadNamespace, Housed, Present
<1>3. CASE ReadKinds
  <2>1. job' \in Backup
    <3>1. job \in Backup
      BY <1>3, <1>0 DEF ReadKinds, Saving
    <3>2. PICK shown \in SUBSET there.serves :
            job' = [job EXCEPT !.pc = "list", !.missed = Missed(shown = there.serves),
                               !.kinds = shown \ {"events"}]
      BY <1>3 DEF ReadKinds
    <3>3. Missed(shown = there.serves) \in Nat
      BY <3>1, MissedTyped
    <3> QED
      BY <3>1, <3>2, <3>3 DEF Backup, Saving, Cluster
  <2> QED
    BY <1>3, <2>1 DEF ReadKinds, Housed, Present
<1>4. CASE ListKind
  <2>1. PICK kind \in job.kinds, answered \in Answers :
          LET found == {k \in Present(there.objects) : answered /\ k.ns = job.ns /\ k.kind = kind}
          IN job' = [job EXCEPT !.kinds = @ \ {kind}, !.missed = Missed(answered),
                                !.objects = @ \cup Lines(there.objects, found)]
    BY <1>4 DEF ListKind
  <2> DEFINE found == {k \in Present(there.objects) : answered /\ k.ns = job.ns /\ k.kind = kind}
  <2>2. Lines(there.objects, found) \subseteq SavedLine
    BY LinesTyped DEF Cluster
  <2> HIDE DEF found
  <2>3. job' \in Backup
    <3>1. job \in Backup
      BY <1>4, <1>0 DEF ListKind, Saving
    <3>2. Missed(answered) \in Nat
      BY <3>1, MissedTyped DEF Answers
    <3> QED
      BY <3>1, <3>2, <2>1, <2>2 DEF Backup, found
  <2> QED
    BY <1>4, <2>3 DEF ListKind, Housed, Present
<1>5. CASE CloseNamespace
  BY <1>5, <1>0 DEF CloseNamespace, Backup, Saving, Housed, Present
<1>6. CASE OpenArchive
  <2>1. job \in Backup /\ File(job.dest, job.mode) \in FileName
    BY <1>6, <1>0, Places DEF OpenArchive, Backup, Saving
  <2>2. files' \in [FileName -> {Broken} \cup Archive]
    BY <1>6, <2>1 DEF OpenArchive
  <2>3. job' \in {NoJob} \cup Backup
    <3>1. [job EXCEPT !.pc = "write"] \in Backup
      BY <2>1 DEF Backup, Saving
    <3> QED
      BY <1>6, <3>1 DEF OpenArchive
  <2> QED
    BY <1>6, <2>2, <2>3 DEF OpenArchive, Housed, Present
<1>7. CASE WriteArchive
  <2>1. job \in Backup
    BY <1>7, <1>0 DEF WriteArchive, Saving
  <2>2. Sealed \in Archive
    BY <2>1 DEF Sealed, Archive, Backup
  <2>3. files' \in [FileName -> {Broken} \cup Archive]
    BY <1>7, <2>2 DEF WriteArchive
  <2> QED
    BY <1>7, <2>3 DEF WriteArchive, Housed, Present
<1>8. CASE StartRestore
  <2>1. PICK file \in FileName, env \in Passphrases :
          /\ Opens(file, env)
          /\ job' = [pc |-> "apply", spaces |-> files[file].spaces, objects |-> files[file].objects,
                     archive |-> files[file], before |-> there.objects, touched |-> {}]
    BY <1>8 DEF StartRestore
  <2>2. files[file] \in Archive
    <3>1. ~ Broken.whole
      BY DEF Broken
    <3> QED
      BY <2>1, <3>1 DEF Opens
  <2>3. job' \in Restore
    BY <2>1, <2>2 DEF Restore, Restoring, Archive, Cluster
  <2> QED
    BY <1>8, <2>3, ArchivesAssumption DEF StartRestore, Housed, Present
<1>9. CASE ApplyNamespace
  <2>1. job \in Restore
    BY <1>9, <1>00 DEF ApplyNamespace, Restoring
  <2>2. there' \in Cluster /\ job' \in Restore
    BY <1>9, <2>1 DEF ApplyNamespace, Restore, Restoring, Cluster
  <2>3. Housed'
    BY <1>9 DEF ApplyNamespace, Housed, Present, Cluster
  <2> QED
    BY <1>9, <2>2, <2>3 DEF ApplyNamespace
<1>10. CASE ApplyObject
  <2>1. job \in Restore
    BY <1>10, <1>00 DEF ApplyObject, Restoring
  <2>2. PICK line \in job.objects :
          Accepts(line[1]) /\ there' = Applied(line) /\ job' = [job EXCEPT !.objects = @ \ {line}]
    BY <1>10 DEF ApplyObject
  <2>3. line \in SavedLine /\ line[1] \in Keys
    BY <2>1 DEF Restore, SavedLine
  <2>4. there' \in Cluster
    BY <2>2, <2>3, AppliedTyped
  <2>5. Housed'
    BY <2>2, <2>3, AppliedTyped DEF Housed, Accepts, Present
  <2>6. job' \in Restore
    BY <2>1, <2>2 DEF Restore
  <2> QED
    BY <1>10, <2>4, <2>5, <2>6 DEF ApplyObject
<1>11. CASE EndRestore
  BY <1>11, <1>00 DEF EndRestore, Restore, Restoring, Housed, Present
<1>12. CASE Stop
  BY <1>12 DEF Stop, Housed, Present
<1>13. CASE Drift
  <2>1. there' \in Cluster /\ Housed' /\ Others(there')
    BY <1>13, DriftTyped
  <2>2. Noticed(there.objects') \in {NoJob} \cup Backup \cup Restore
    BY <2>1, NoticedTyped DEF Cluster
  <2> QED
    BY <2>1, <2>2, ArchivesAssumption DEF Others
<1>14. CASE UNCHANGED archivesVars
  BY <1>14 DEF archivesVars, Housed, Present
<1> QED
  BY <1>1, <1>2, <1>3, <1>4, <1>5, <1>6, <1>7, <1>8, <1>9, <1>10, <1>11, <1>12,
     <1>13, <1>14 DEF ArchivesNext

LEMMA InitTyped == ArchivesInit => TypeInv
<1> SUFFICES ASSUME ArchivesInit PROVE TypeInv
  OBVIOUS
<1>1. PICK objects \in Standing : there = [spaces |-> Spaces, serves |-> Kinds, objects |-> objects]
  BY DEF ArchivesInit
<1>2. there \in Cluster
  BY <1>1, ArchivesAssumption DEF Cluster
<1>3. Housed
  BY <1>1, ArchivesAssumption DEF Housed, Present
<1> QED
  BY <1>2, <1>3, ArchivesAssumption DEF ArchivesInit, TypeInv

THEOREM TypeCorrect == ArchivesSpec => []ArchivesTypeOK
<1>1. ArchivesInit => TypeInv
  BY InitTyped
<1>2. TypeInv => ArchivesTypeOK
  BY DEF TypeInv, ArchivesTypeOK, Cluster, Housed, NoJob, Backup, Restore
<1> QED
  BY <1>1, <1>2, TypePreserved, PTL DEF ArchivesSpec

-----------------------------------------------------------------------------
(* Backups.                                                                *)

(* What a job is, from where it is.                                        *)
LEMMA JobIs ==
    ASSUME TypeInv
    PROVE  /\ job.pc \in Saving => job \in Backup
           /\ job.pc \in Restoring => job \in Restore
           /\ job.pc \notin Saving \cup Restoring => job = NoJob
BY DEF TypeInv, Saving, Restoring, NoJob, Backup, Restore

(* An object to be saved is there, in its namespace and of a kind served.  *)
LEMMA SteadyIsThere ==
    ASSUME TypeInv, BackupInv, job.pc \in Saving, NEW line \in job.steady
    PROVE  /\ line[1] \in Present(there.objects)
           /\ line = <<line[1], there.objects[line[1]].says>>
           /\ line[1].ns \in job.asked
           /\ line[1].kind \in there.serves \ {"events"}
<1>1. line[1] \in Keys /\ line[2] # Blank /\ line = <<line[1], line[2]>>
  BY JobIs DEF Backup, SavedLine, Documents
<1> QED
  BY <1>1 DEF BackupInv, SteadyHolds, TypeInv, Housed, Present

(* What others change is no longer steady, and what they leave was seen.   *)
LEMMA DriftSeen ==
    ASSUME TypeInv, BackupInv, Drift, job.pc \in Saving
    PROVE  BackupInv'
<1>1. job \in Backup /\ there' \in Cluster /\ Others(there')
  BY JobIs, DriftTyped DEF TypeInv
<1> DEFINE changed == {k \in Keys : there.objects[k] # there.objects'[k]}
           shown == Lines(there.objects', Wanted(there.objects', job.asked))
<1>2. job' = [job EXCEPT !.steady = {line \in @ : line[1] \notin changed}, !.seen = @ \cup shown]
  BY <1>1 DEF Others, Noticed, Saving, Restoring
<1>3. \A line \in job'.steady : line \in job.steady /\ there.objects[line[1]] = there.objects'[line[1]]
  BY <1>1, <1>2 DEF Backup, SavedLine
<1>4. /\ job'.pc = job.pc /\ job'.asked = job.asked /\ job'.left = job.left
      /\ job'.ns = job.ns /\ job'.kinds = job.kinds /\ job'.objects = job.objects
      /\ job'.missed = job.missed /\ job'.seen = job.seen \cup shown
  BY <1>1, <1>2 DEF Backup
<1>5. \A k \in Wanted(there.objects', job.asked) : <<k, there.objects'[k].says>> \in shown
  BY DEF Lines
<1> HIDE DEF changed, shown
<1>6. SteadyHolds'
  BY <1>3, <1>4 DEF BackupInv, SteadyHolds
<1>7. InScope'
  BY <1>4, <1>5 DEF BackupInv, InScope
<1>8. Truthful(job)'
  BY <1>3, <1>4 DEF BackupInv, Truthful
<1>9. SavedSoFar'
  BY <1>3, <1>4 DEF BackupInv, SavedSoFar, AheadOf
<1>10. NoneAhead'
  BY <1>4 DEF BackupInv, NoneAhead, AheadOf
<1> QED
  BY <1>4, <1>6, <1>7, <1>8, <1>9, <1>10 DEF BackupInv

LEMMA BackupKept == TypeInv /\ BackupInv /\ [ArchivesNext]_archivesVars => BackupInv'
<1> SUFFICES ASSUME TypeInv, BackupInv, [ArchivesNext]_archivesVars PROVE BackupInv'
  OBVIOUS
<1>1. CASE StartBackup
  <2>1. PICK b \in Backups :
          LET mode == Encryption(b.want, b.env, b.tools)
              spaces == BackupNamespaces(b.asked)
              saved == Lines(there.objects, Wanted(there.objects, spaces))
          IN job' = [pc |-> "space", asked |-> spaces, left |-> spaces, ns |-> "default",
                    kinds |-> {}, spaces |-> {}, objects |-> {},
                    tool |-> mode \in b.tools, key |-> Sees(mode, b.env), mode |-> mode,
                    dest |-> b.dest, missed |-> 0, steady |-> saved, seen |-> saved]
    BY <1>1 DEF StartBackup
  <2> DEFINE spaces == BackupNamespaces(b.asked)
             saved == Lines(there.objects, Wanted(there.objects, spaces))
  <2>2. /\ job'.pc = "space" /\ job'.asked = spaces /\ job'.left = spaces /\ job'.kinds = {}
        /\ job'.objects = {} /\ job'.steady = saved /\ job'.seen = saved
    BY <2>1
  <2>3. \A line \in saved :
          /\ there.objects[line[1]].says = line[2]
          /\ line[1].ns \in spaces /\ line[1].kind # "events"
    BY DEF Lines, Wanted
  <2>4. \A k \in Wanted(there.objects, spaces) : <<k, there.objects[k].says>> \in saved
    BY DEF Lines
  <2>5. there' = there
    BY <1>1 DEF StartBackup
  <2> HIDE DEF spaces, saved
  <2> QED
    BY <2>2, <2>3, <2>4, <2>5
       DEF BackupInv, SteadyHolds, InScope, Truthful, SavedSoFar, AheadOf, NoneAhead
<1>2. CASE ReadNamespace
  <2>1. job \in Backup /\ job.pc \in Saving
    BY <1>2, JobIs DEF ReadNamespace, Saving
  <2>2. PICK ns \in job.left, answered \in Answers :
          job' = [job EXCEPT !.pc = "kinds", !.ns = ns, !.left = @ \ {ns},
                             !.missed = Missed(answered),
                             !.spaces = IF answered THEN @ \cup ({ns} \cap there.spaces) ELSE @]
    BY <1>2 DEF ReadNamespace
  <2>3. /\ job'.pc = "kinds" /\ job'.ns = ns /\ job'.left = job.left \ {ns}
        /\ job'.missed = Missed(answered) /\ job'.asked = job.asked /\ job'.kinds = job.kinds
        /\ job'.objects = job.objects /\ job'.steady = job.steady /\ job'.seen = job.seen
    BY <2>1, <2>2 DEF Backup
  <2>4. Missed(answered) = 0 => job.missed = 0
    BY <2>1 DEF Missed, Backup
  <2>5. there' = there /\ job.pc = "space"
    BY <1>2 DEF ReadNamespace
  <2>6. SteadyHolds'
    BY <2>1, <2>3, <2>5 DEF BackupInv, SteadyHolds
  <2>7. InScope'
    BY <2>1, <2>3, <2>5 DEF BackupInv, InScope
  <2>8. Truthful(job)'
    BY <2>1, <2>3 DEF BackupInv, Truthful
  <2>9. SavedSoFar'
    BY <2>1, <2>3, <2>4, <2>5 DEF BackupInv, SavedSoFar, AheadOf
  <2>10. NoneAhead'
    BY <2>1, <2>3, <2>5 DEF BackupInv, NoneAhead, AheadOf
  <2> QED
    BY <2>3, <2>6, <2>7, <2>8, <2>9, <2>10 DEF BackupInv
<1>3. CASE ReadKinds
  <2>1. job \in Backup /\ job.pc \in Saving
    BY <1>3, JobIs DEF ReadKinds, Saving
  <2>2. PICK shown \in SUBSET there.serves :
          job' = [job EXCEPT !.pc = "list", !.missed = Missed(shown = there.serves),
                             !.kinds = shown \ {"events"}]
    BY <1>3 DEF ReadKinds
  <2>3. /\ job'.pc = "list" /\ job'.ns = job.ns /\ job'.left = job.left
        /\ job'.missed = Missed(shown = there.serves) /\ job'.asked = job.asked
        /\ job'.kinds = shown \ {"events"}
        /\ job'.objects = job.objects /\ job'.steady = job.steady /\ job'.seen = job.seen
    BY <2>1, <2>2 DEF Backup
  <2>4. Missed(shown = there.serves) = 0 => job.missed = 0 /\ shown = there.serves
    BY <2>1 DEF Missed, Backup
  <2>5. there' = there /\ job.pc = "kinds"
    BY <1>3 DEF ReadKinds
  <2>6. SteadyHolds'
    BY <2>1, <2>3, <2>5 DEF BackupInv, SteadyHolds
  <2>7. InScope'
    BY <2>1, <2>3, <2>5 DEF BackupInv, InScope
  <2>8. Truthful(job)'
    BY <2>1, <2>3 DEF BackupInv, Truthful
  <2>9. SavedSoFar'
    <3> SUFFICES ASSUME job'.missed = 0, NEW line \in job.steady
                 PROVE  line \in job.objects \/ AheadOf(line)'
      BY <2>3 DEF SavedSoFar
    <3>1. line \in job.objects \/ line[1].ns \in job.left \/ line[1].ns = job.ns
      BY <2>1, <2>3, <2>4, <2>5 DEF BackupInv, SavedSoFar, AheadOf
    <3>2. line[1].kind \in job'.kinds
      BY <2>1, <2>3, <2>4, SteadyIsThere
    <3> QED
      BY <2>3, <3>1, <3>2 DEF AheadOf
  <2>10. NoneAhead'
    BY <2>1, <2>3, <2>5 DEF BackupInv, NoneAhead, AheadOf
  <2> QED
    BY <2>3, <2>6, <2>7, <2>8, <2>9, <2>10 DEF BackupInv
<1>4. CASE ListKind
  <2>1. job \in Backup /\ job.pc \in Saving
    BY <1>4, JobIs DEF ListKind, Saving
  <2>2. PICK kind \in job.kinds, answered \in Answers :
          LET found == {k \in Present(there.objects) : answered /\ k.ns = job.ns /\ k.kind = kind}
          IN job' = [job EXCEPT !.kinds = @ \ {kind}, !.missed = Missed(answered),
                                !.objects = @ \cup Lines(there.objects, found)]
    BY <1>4 DEF ListKind
  <2> DEFINE found == {k \in Present(there.objects) : answered /\ k.ns = job.ns /\ k.kind = kind}
             read == Lines(there.objects, found)
  <2>3. /\ job'.pc = job.pc /\ job'.ns = job.ns /\ job'.left = job.left
        /\ job'.missed = Missed(answered) /\ job'.asked = job.asked
        /\ job'.kinds = job.kinds \ {kind}
        /\ job'.objects = job.objects \cup read
        /\ job'.steady = job.steady /\ job'.seen = job.seen
    BY <2>1, <2>2 DEF Backup
  <2>4. Missed(answered) = 0 => job.missed = 0 /\ answered
    BY <2>1 DEF Missed, Backup
  <2>5. there' = there /\ job.pc = "list"
    BY <1>4 DEF ListKind
  <2>6. job.ns \in job.asked /\ kind # "events"
    BY <2>1, <2>5 DEF BackupInv, InScope
  <2>7. read \subseteq job.seen
    BY <2>1, <2>6 DEF BackupInv, InScope, Lines, Wanted
  <2>8. \A p \in read, q \in job.steady : p[1] = q[1] => p = q
    BY <2>1, SteadyIsThere DEF Lines
  <2>9. \A line \in job.steady :
          answered /\ line[1].ns = job.ns /\ line[1].kind = kind => line \in read
    BY <2>1, SteadyIsThere DEF Lines
  <2>14. \A p \in read : AheadOf(p) /\ p[1].ns = job.ns /\ p[1].kind = kind
    BY <2>5 DEF Lines, AheadOf
  <2>15. \A p, q \in read : p[1] = q[1] => p = q
    BY DEF Lines
  <2> HIDE DEF found, read
  <2>10. SteadyHolds'
    BY <2>1, <2>3, <2>5 DEF BackupInv, SteadyHolds
  <2>11. InScope'
    BY <2>1, <2>3, <2>5 DEF BackupInv, InScope
  <2>12. Truthful(job)'
    <3>1. ASSUME NEW p \in job.objects \cup read, NEW q \in job.objects \cup read, p[1] = q[1]
          PROVE  p = q
      BY <2>1, <2>14, <2>15, <3>1 DEF BackupInv, Truthful, NoneAhead, AheadOf
    <3> QED
      BY <2>1, <2>3, <2>7, <2>8, <3>1 DEF BackupInv, Truthful
  <2>13. SavedSoFar'
    BY <2>1, <2>3, <2>4, <2>5, <2>9 DEF BackupInv, SavedSoFar, AheadOf
  <2>16. NoneAhead'
    BY <2>1, <2>3, <2>5, <2>14 DEF BackupInv, InScope, NoneAhead, AheadOf
  <2> QED
    BY <2>3, <2>5, <2>10, <2>11, <2>12, <2>13, <2>16 DEF BackupInv
<1>5. CASE CloseNamespace
  <2>1. job \in Backup /\ job.pc \in Saving
    BY <1>5, JobIs DEF CloseNamespace, Saving
  <2>2. /\ job'.pc = "space" /\ job'.ns = job.ns /\ job'.left = job.left
        /\ job'.missed = job.missed /\ job'.asked = job.asked
        /\ job'.kinds = job.kinds /\ job.kinds = {} /\ job.pc = "list"
        /\ job'.objects = job.objects /\ job'.steady = job.steady /\ job'.seen = job.seen
        /\ there' = there
    BY <1>5, <2>1 DEF CloseNamespace, Backup
  <2> QED
    BY <2>1, <2>2 DEF BackupInv, SteadyHolds, InScope, Truthful, SavedSoFar, AheadOf, NoneAhead
<1>6. CASE OpenArchive
  <2>1. job \in Backup /\ job.pc \in Saving
    BY <1>6, JobIs DEF OpenArchive, Saving
  <2>2. CASE job' = NoJob
    BY <2>2 DEF BackupInv, NoJob, Saving
  <2>3. CASE job' = [job EXCEPT !.pc = "write"]
    <3>1. /\ job'.pc = "write" /\ job'.left = job.left
          /\ job'.missed = job.missed /\ job'.asked = job.asked
          /\ job'.kinds = job.kinds /\ job.left = {} /\ job.pc = "space"
          /\ job'.objects = job.objects /\ job'.steady = job.steady /\ job'.seen = job.seen
          /\ there' = there
      BY <1>6, <2>1, <2>3 DEF OpenArchive, Backup
    <3> QED
      BY <2>1, <3>1
         DEF BackupInv, SteadyHolds, InScope, Truthful, SavedSoFar, AheadOf, NoneAhead
  <2> QED
    BY <1>6, <2>2, <2>3 DEF OpenArchive
<1>7. CASE WriteArchive \/ Stop
  <2>1. job'.pc = "off"
    <3>1. job' = NoJob
      BY <1>7 DEF WriteArchive, Stop
    <3> QED
      BY <3>1 DEF NoJob
  <2> QED
    BY <2>1 DEF BackupInv, Saving
<1>8. CASE StartRestore
  BY <1>8 DEF StartRestore, BackupInv, Saving
<1>9. CASE ApplyNamespace \/ ApplyObject \/ EndRestore
  <2>1. job \in Restore
    BY <1>9, JobIs DEF ApplyNamespace, ApplyObject, EndRestore, Restoring
  <2>2. job'.pc \in {"apply", "restored"}
    BY <1>9, <2>1 DEF ApplyNamespace, ApplyObject, EndRestore, Restore
  <2> QED
    BY <2>2 DEF BackupInv, Saving
<1>10. CASE Drift
  <2>1. CASE job.pc \in Saving
    BY <1>10, <2>1, DriftSeen
  <2>2. CASE job.pc \in Restoring
    <3>1. job \in Restore /\ Others(there')
      BY <1>10, <2>2, JobIs, DriftTyped DEF TypeInv
    <3>2. job'.pc = job.pc
      BY <2>2, <3>1 DEF Others, Noticed, Saving, Restoring, Restore
    <3> QED
      BY <2>2, <3>2 DEF BackupInv, Saving, Restoring
  <2>3. CASE job = NoJob
    <3>1. Others(there')
      BY <1>10, DriftTyped DEF TypeInv
    <3> QED
      BY <2>3, <3>1 DEF Others, Noticed, Saving, Restoring, NoJob, BackupInv
  <2> QED
    BY <2>1, <2>2, <2>3, JobIs
<1>11. CASE UNCHANGED archivesVars
  BY <1>11 DEF archivesVars, BackupInv, SteadyHolds, InScope, Truthful, SavedSoFar,
                    AheadOf, NoneAhead
<1> QED
  BY <1>1, <1>2, <1>3, <1>4, <1>5, <1>6, <1>7, <1>8, <1>9, <1>10, <1>11 DEF ArchivesNext

-----------------------------------------------------------------------------
(* Archives.                                                               *)

(* Every archive that is whole was one of a backup that came to its end.   *)
LEMMA FilesKept ==
    TypeInv /\ BackupInv /\ FilesInv /\ [ArchivesNext]_archivesVars => FilesInv'
<1> SUFFICES ASSUME TypeInv, BackupInv, FilesInv, [ArchivesNext]_archivesVars,
                    NEW f \in FileName, files'[f] # Broken
             PROVE  Sound(files'[f])
  BY DEF FilesInv, Sound, Truthful
<1>1. CASE OpenArchive
  <2>1. job \in Backup /\ File(job.dest, job.mode) \in FileName
    BY <1>1, JobIs, Places DEF OpenArchive, Saving, Backup
  <2>2. files'[f] = files[f]
    BY <1>1, <2>1 DEF OpenArchive, TypeInv
  <2> QED
    BY <2>2 DEF FilesInv
<1>2. CASE WriteArchive
  <2>1. job \in Backup /\ job.pc = "write"
    BY <1>2, JobIs DEF WriteArchive, Saving
  <2>2. Truthful(job) /\ (job.missed = 0 => job.steady \subseteq job.objects)
    BY <2>1 DEF BackupInv, SavedSoFar, AheadOf, Saving
  <2>3. Sound(Sealed)
    BY <2>2 DEF Sound, Truthful, Sealed
  <2>4. files'[f] \in {Sealed, Broken, files[f]}
    BY <1>2 DEF WriteArchive
  <2> QED
    BY <2>3, <2>4 DEF FilesInv
<1>3. CASE UNCHANGED files
  BY <1>3 DEF FilesInv
<1> QED
  BY <1>1, <1>2, <1>3
     DEF ArchivesNext, archivesVars, StartBackup, ReadNamespace, ReadKinds, ListKind,
         CloseNamespace, StartRestore, ApplyNamespace, ApplyObject, EndRestore, Stop,
         Drift, Others

-----------------------------------------------------------------------------
(* Restores.                                                               *)

(* What others change during a restore is touched.                         *)
LEMMA DriftTouches ==
    ASSUME TypeInv, RestoreInv, Drift, job.pc \in Restoring
    PROVE  RestoreInv'
<1>1. job \in Restore /\ there' \in Cluster /\ Others(there')
  BY JobIs, DriftTyped DEF TypeInv
<1> DEFINE changed == {k \in Keys : there.objects[k] # there.objects'[k]}
<1>2. job' = [job EXCEPT !.touched = @ \cup changed]
  BY <1>1 DEF Others, Noticed, Saving, Restoring, Restore
<1>3. /\ job'.pc = job.pc /\ job'.objects = job.objects /\ job'.archive = job.archive
      /\ job'.before = job.before /\ job'.touched = job.touched \cup changed
  BY <1>1, <1>2 DEF Restore
<1>4. \A k \in Keys \ job'.touched : k \notin job.touched /\ there.objects'[k] = there.objects[k]
  BY <1>3
<1>5. \A line \in job.archive.steady : line[1] \in Keys
  BY <1>1 DEF Restore, Archive, SavedLine
<1>7. \A line \in job.objects : line[1] \in Keys
  BY <1>1 DEF Restore, SavedLine
<1> HIDE DEF changed
<1>6. \A line \in job.archive.steady : BringsBack(line) => BringsBack(line)'
  BY <1>3, <1>4, <1>5 DEF BringsBack
<1>8. \A line \in job'.objects :
          line[1] \in job'.touched \/ there'.objects[line[1]] = job'.before[line[1]]
  BY <1>3, <1>4, <1>7 DEF RestoreInv
<1> QED
  BY <1>3, <1>4, <1>6, <1>8 DEF RestoreInv

LEMMA RestoreKept ==
    TypeInv /\ FilesInv /\ RestoreInv /\ [ArchivesNext]_archivesVars => RestoreInv'
<1> SUFFICES ASSUME TypeInv, FilesInv, RestoreInv, [ArchivesNext]_archivesVars
             PROVE  RestoreInv'
  OBVIOUS
<1>1. CASE StartRestore
  <2>1. PICK file \in FileName, env \in Passphrases :
          /\ Opens(file, env)
          /\ job' = [pc |-> "apply", spaces |-> files[file].spaces, objects |-> files[file].objects,
                     archive |-> files[file], before |-> there.objects, touched |-> {}]
          /\ there' = there
    BY <1>1 DEF StartRestore
  <2>2. ~ Broken.whole
    BY DEF Broken
  <2>3. Sound(files[file])
    BY <2>1, <2>2 DEF Opens, FilesInv
  <2>4. /\ job'.pc = "apply" /\ job'.objects = files[file].objects
        /\ job'.archive = files[file] /\ job'.before = there.objects
    BY <2>1
  <2>5. Sound(job.archive)'
    BY <2>3, <2>4 DEF Sound, Truthful
  <2>6. job'.archive.missed = 0 => \A line \in job'.archive.steady : BringsBack(line)'
    BY <2>3, <2>4 DEF Sound, BringsBack
  <2> QED
    BY <2>1, <2>4, <2>5, <2>6 DEF RestoreInv
<1>2. CASE ApplyNamespace
  <2>1. job \in Restore /\ job.pc \in Restoring
    BY <1>2, JobIs DEF ApplyNamespace, Restoring
  <2>2. /\ job'.pc = job.pc /\ job'.objects = job.objects /\ job'.archive = job.archive
        /\ job'.before = job.before /\ job'.touched = job.touched
        /\ there'.objects = there.objects
    BY <1>2, <2>1 DEF ApplyNamespace, Restore, TypeInv, Cluster
  <2> QED
    BY <2>1, <2>2 DEF RestoreInv, Sound, Truthful, BringsBack
<1>3. CASE ApplyObject
  <2>1. job \in Restore /\ job.pc \in Restoring
    BY <1>3, JobIs DEF ApplyObject, Restoring
  <2>2. PICK line \in job.objects :
          there' = Applied(line) /\ job' = [job EXCEPT !.objects = @ \ {line}]
    BY <1>3 DEF ApplyObject
  <2>3. /\ job'.pc = job.pc /\ job'.objects = job.objects \ {line} /\ job'.archive = job.archive
        /\ job'.before = job.before /\ job'.touched = job.touched
    BY <2>1, <2>2 DEF Restore
  <2> DEFINE o == there.objects[line[1]]
  <2>4. /\ line \in SavedLine /\ line[1] \in Keys /\ line[2] \in Documents
        /\ o \in Object /\ there \in Cluster
    BY <2>1 DEF Restore, SavedLine, TypeInv, Cluster
  <2>5. /\ there'.objects[line[1]].says = Merged(line[2], o)
        /\ \A k \in Keys : k # line[1] => there'.objects[k] = there.objects[k]
    BY <2>2, <2>4, AppliedTyped
  <2>11. Covers(there'.objects[line[1]], line[2]) /\ Spares(there'.objects[line[1]], o, line[2])
    BY <2>4, <2>5, MergedLaidOver
  <2>6. line \in job.archive.objects /\ line \in job.archive.seen
    BY <2>1 DEF RestoreInv, Sound, Truthful
  <2>7. Sound(job.archive)'
    BY <2>1, <2>3 DEF RestoreInv, Sound, Truthful
  <2>8. ASSUME job.archive.missed = 0, NEW q \in job.archive.steady
        PROVE  BringsBack(q)'
    <3>1. q[1] \in Keys /\ BringsBack(q)
      BY <2>1, <2>8 DEF RestoreInv, Restore, Archive, SavedLine
    <3>2. CASE q[1] = line[1]
      <4>1. q = line
        BY <2>1, <2>6, <3>2 DEF RestoreInv, Sound, Truthful
      <4> QED
        BY <2>11, <4>1 DEF BringsBack
    <3>3. CASE q[1] # line[1]
      BY <2>3, <2>5, <3>1, <3>3 DEF BringsBack
    <3> QED
      BY <3>2, <3>3
  <2>9. ASSUME NEW k \in Keys \ job'.touched
        PROVE  \/ there'.objects[k] = job'.before[k]
               \/ LaidOver(k, job'.archive.seen, there'.objects[k], job'.before[k])
    <3>1. CASE k = line[1]
      <4>1. o = job.before[k]
        BY <2>1, <2>3, <2>9, <3>1 DEF RestoreInv
      <4> QED
        BY <2>3, <2>6, <2>11, <3>1, <4>1 DEF LaidOver
    <3>2. CASE k # line[1]
      BY <2>1, <2>3, <2>5, <2>9, <3>2 DEF RestoreInv
    <3> QED
      BY <3>1, <3>2
  <2>12. ASSUME NEW q \in job'.objects, q[1] \notin job'.touched
         PROVE  there'.objects[q[1]] = job'.before[q[1]]
    <3>1. q \in job.objects /\ q # line /\ q \in job.archive.objects /\ q[1] \in Keys
      BY <2>1, <2>3 DEF RestoreInv, Restore, SavedLine
    <3>2. q[1] # line[1]
      BY <2>1, <2>6, <3>1 DEF RestoreInv, Sound, Truthful
    <3> QED
      BY <2>1, <2>3, <2>5, <2>12, <3>1, <3>2 DEF RestoreInv
  <2>10. job'.pc = "apply"
    BY <1>3, <2>3 DEF ApplyObject
  <2> QED
    BY <2>1, <2>3, <2>7, <2>8, <2>9, <2>10, <2>12 DEF RestoreInv
<1>4. CASE EndRestore
  <2>1. job \in Restore /\ job.pc \in Restoring
    BY <1>4, JobIs DEF EndRestore, Restoring
  <2>2. /\ job'.objects = job.objects /\ job.objects = {} /\ job'.archive = job.archive
        /\ job'.before = job.before /\ job'.touched = job.touched /\ there' = there
    BY <1>4, <2>1 DEF EndRestore, Restore
  <2> QED
    BY <2>1, <2>2 DEF RestoreInv, Sound, Truthful, BringsBack
<1>5. CASE StartBackup
  BY <1>5 DEF StartBackup, RestoreInv, Restoring
<1>6. CASE ReadNamespace \/ ReadKinds \/ ListKind \/ CloseNamespace
  <2>1. job \in Backup
    BY <1>6, JobIs DEF ReadNamespace, ReadKinds, ListKind, CloseNamespace, Saving
  <2>2. job'.pc \in Saving
    BY <1>6, <2>1 DEF ReadNamespace, ReadKinds, ListKind, CloseNamespace, Backup, Saving
  <2> QED
    BY <2>2 DEF RestoreInv, Saving, Restoring
<1>7. CASE OpenArchive
  <2>1. job \in Backup
    BY <1>7, JobIs DEF OpenArchive, Saving
  <2>2. job'.pc \in {"off", "write"}
    <3>1. job' = NoJob \/ job' = [job EXCEPT !.pc = "write"]
      BY <1>7 DEF OpenArchive
    <3> QED
      BY <2>1, <3>1 DEF NoJob, Backup
  <2> QED
    BY <2>2 DEF RestoreInv, Restoring
<1>8. CASE WriteArchive \/ Stop
  <2>1. job'.pc = "off"
    <3>1. job' = NoJob
      BY <1>8 DEF WriteArchive, Stop
    <3> QED
      BY <3>1 DEF NoJob
  <2> QED
    BY <2>1 DEF RestoreInv, Restoring
<1>9. CASE Drift
  <2>1. CASE job.pc \in Restoring
    BY <1>9, <2>1, DriftTouches
  <2>2. CASE job.pc \in Saving
    <3>1. job \in Backup /\ Others(there')
      BY <1>9, <2>2, JobIs, DriftTyped DEF TypeInv
    <3>2. job'.pc = job.pc
      BY <2>2, <3>1 DEF Others, Noticed, Saving, Restoring, Backup
    <3> QED
      BY <2>2, <3>2 DEF RestoreInv, Saving, Restoring
  <2>3. CASE job = NoJob
    <3>1. Others(there')
      BY <1>9, DriftTyped DEF TypeInv
    <3> QED
      BY <2>3, <3>1 DEF Others, Noticed, Saving, Restoring, NoJob, RestoreInv
  <2> QED
    BY <2>1, <2>2, <2>3, JobIs
<1>10. CASE UNCHANGED archivesVars
  BY <1>10 DEF archivesVars, RestoreInv, Sound, Truthful, BringsBack
<1> QED
  BY <1>1, <1>2, <1>3, <1>4, <1>5, <1>6, <1>7, <1>8, <1>9, <1>10 DEF ArchivesNext

(* When a restore reports success (restore.go:119), what a backup whose    *)
(* calls were all answered had to save and nobody touched has every field  *)
(* it had then; any other object is as before, or a document that was      *)
(* there while the backup ran was merged into it; nothing is missing.      *)
THEOREM RestoresWhatWasSaved == ArchivesSpec => []RoundTrip
<1>1. ArchivesInit => Inv
  <2> SUFFICES ASSUME ArchivesInit PROVE Inv
    OBVIOUS
  <2>1. TypeInv
    BY InitTyped
  <2>2. BackupInv /\ FilesInv /\ RestoreInv
    BY DEF ArchivesInit, BackupInv, FilesInv, RestoreInv, NoJob, Saving, Restoring
  <2> QED
    BY <2>1, <2>2 DEF Inv
<1>2. Inv /\ [ArchivesNext]_archivesVars => Inv'
  BY TypePreserved, BackupKept, FilesKept, RestoreKept DEF Inv
<1>3. Inv => RoundTrip
  <2> SUFFICES ASSUME Inv, job.pc = "restored" PROVE RoundTrip
    BY DEF RoundTrip
  <2>1. TypeInv /\ RestoreInv /\ job.pc \in Restoring
    BY DEF Inv, Restoring
  <2>2. job \in Restore
    BY <2>1, JobIs
  <2>3. job.archive.missed = 0 =>
          \A line \in job.archive.steady :
            line[1] \in job.touched \/ Covers(there.objects[line[1]], line[2])
    BY <2>1 DEF RestoreInv, BringsBack
  <2>4. \A k \in Keys \ job.touched :
          \/ there.objects[k] = job.before[k]
          \/ LaidOver(k, job.archive.seen, there.objects[k], job.before[k])
    BY <2>1 DEF RestoreInv
  <2>5. ASSUME NEW k \in Present(job.before) \ job.touched PROVE k \in Present(there.objects)
    <3>1. CASE there.objects[k] = job.before[k]
      BY <3>1 DEF Present
    <3>2. ASSUME NEW line \in job.archive.seen, Covers(there.objects[k], line[2])
          PROVE  k \in Present(there.objects)
      <4>1. line[2] \in Documents
        BY <2>2 DEF Restore, Archive, SavedLine
      <4>2. PICK f \in Fields : line[2][f] # 0
        BY <4>1 DEF Documents, Values, Blank
      <4>3. there.objects[k].says[f] # 0
        BY <3>2, <4>2 DEF Covers, FieldsOf
      <4> QED
        BY <4>2, <4>3 DEF Present, Blank
    <3> QED
      BY <2>4, <3>1, <3>2 DEF LaidOver, Present
  <2>6. Present(job.before) \ job.touched \subseteq Present(there.objects)
    BY <2>5
  <2> QED
    BY <2>3, <2>4, <2>6 DEF RoundTrip
<1> QED
  BY <1>1, <1>2, <1>3, PTL DEF ArchivesSpec
=============================================================================
