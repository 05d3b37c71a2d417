----------------------------- MODULE TofuProofs -----------------------------
(***************************************************************************)
(* Proofs about TofuJobs, for every set of roots, any number of calls and  *)
(* any failures.                                                           *)
(***************************************************************************)
EXTENDS TofuJobs, TLAPS

-----------------------------------------------------------------------------
(* The inductive invariant.                                                *)

(* What EnsureIssuingCA stores was parsed.                                 *)
Parsed == step \in {"store", "wire"} => log \in Wanted

(* Pods and Jobs belong to calls that were made.                           *)
Numbered ==
    /\ step # "idle" => n > 0
    /\ \A p \in pods : p.n \in 1 .. n
    /\ \A o \in Op : job[o] # Absent => job[o].n \in 1 .. n

(* Until it creates its Job, a call has neither a Job nor a pod.           *)
Fresh ==
    step \in {"prepare", "delete", "create"} =>
        /\ \A p \in pods : p.n # n
        /\ \A o \in Op : job[o] # Absent => job[o].n # n

(* From then on, the Job with its name is its own, if there is one.        *)
Mine == step \in {"pod", "logs", "job"} /\ job[op] # Absent => job[op].n = n

(* Its pods find its variables: in the Secret, or in the Job for a sync.   *)
Provided ==
    /\ step \in InCall \ {"prepare"} /\ op # "sync" => creds[SecretOf(op)] = Args(op, want)
    /\ step \in InCall =>
          \A o \in Op : job[o] # Absent /\ job[o].n = n =>
              o = op /\ job[o].vars = Args(op, want)

(* Its pods, once they run, have used them.                                *)
Used ==
    step \in InCall => \A p \in pods : p.n = n =>
        p.op = op /\ (Ready(p) \/ op = "sync" => p.vars = Args(op, want))

(* A pod that succeeded did its work, and a Job is complete only then.     *)
Carried ==
    /\ \A p \in pods : p.phase = "succeeded" => <<p.n, p.vars>> \in done
    /\ step \in InCall =>
          \A o \in Op : Status(o) = "complete" /\ job[o].n = n => <<n, Args(op, want)>> \in done

Inv == Parsed /\ Numbered /\ Fresh /\ Mine /\ Provided /\ Used /\ Carried

-----------------------------------------------------------------------------
(* Steps.                                                                  *)

(* The parts of a call that change nothing in the cluster.                 *)
Waiting == PodTimesOut \/ LogsBreak \/ JobFails \/ JobTimesOut \/ Kill

(* Next, one name for each kind of step.                                   *)
LEMMA Steps ==
    ASSUME Next
    PROVE  \/ Prepare \/ PrepareFails \/ DeleteOld \/ Create \/ CreateFails
           \/ Waiting \/ JobCompletes \/ ReadBack \/ StoreOnMgmt \/ WireWorkload
           \/ \E p \in pods : SeePod(p) \/ FollowLogs(p)
           \/ \E o \in Op \ {"output"}, w \in Wanted : Start(o, w)
           \/ \E o \in Op : CreatePod(o)
           \/ \E p \in pods : StartPod(p) \/ Lock(p) \/ Succeed(p) \/ PodFails(p)
                                \/ ObserveJob(p) \/ CollectPod(p)
           \/ ExpireJob
BY ConstantsAssumption DEF Next, Client, Cluster, Waiting, Op

LEMMA TypePreserved == TypeOK /\ Parsed /\ [Next]_vars => TypeOK'
<1> SUFFICES ASSUME TypeOK, Parsed, [Next]_vars PROVE TypeOK'
  OBVIOUS
<1> USE DEF TypeOK, process, cluster, stores, history, InCall, GiveUp, Continue, Vars, Op
<1>1. CASE Prepare
  BY <1>1 DEF Prepare, WriteCreds, Args, SecretOf
<1>2. CASE PrepareFails
  BY <1>2 DEF PrepareFails, WriteCreds, Args, SecretOf
<1>3. CASE DeleteOld
  BY <1>3 DEF DeleteOld
<1>4. CASE Create
  BY <1>4 DEF Create, SubmitJob, Args, Job
<1>5. CASE CreateFails
  BY <1>5 DEF CreateFails, SubmitJob, Args, Job
<1>6. CASE Waiting
  BY <1>6 DEF Waiting, PodTimesOut, LogsBreak, JobFails, JobTimesOut, Kill
<1>7. CASE JobCompletes
  BY <1>7 DEF JobCompletes, AfterCall
<1>8. CASE ReadBack
  BY <1>8 DEF ReadBack, Begin
<1>9. CASE StoreOnMgmt
  BY <1>9 DEF StoreOnMgmt, Parsed
<1>10. CASE WireWorkload
  BY <1>10 DEF WireWorkload, Parsed
<1>11. ASSUME NEW p \in pods, SeePod(p) \/ FollowLogs(p)
       PROVE  TypeOK'
  BY <1>11 DEF SeePod, FollowLogs, Pod
<1>12. ASSUME NEW o \in Op, NEW w \in Wanted, Start(o, w)
       PROVE  TypeOK'
  BY <1>12 DEF Start, Begin, Quiet
<1>13. ASSUME NEW o \in Op, CreatePod(o)
       PROVE  TypeOK'
  BY <1>13 DEF CreatePod, Status, Pod, Job
<1>14. ASSUME NEW p \in pods, StartPod(p)
       PROVE  TypeOK'
  BY <1>14 DEF StartPod, Becomes, Pod, SecretOf
<1>15. ASSUME NEW p \in pods, Lock(p) \/ PodFails(p) \/ CollectPod(p)
       PROVE  TypeOK'
  BY <1>15 DEF Lock, PodFails, CollectPod, Becomes, Pod
<1>16. ASSUME NEW p \in pods, Succeed(p)
       PROVE  TypeOK'
  <2>1. p \in Pod
    OBVIOUS
  <2>2. pods' \in SUBSET Pod
    BY <1>16, <2>1 DEF Succeed, Becomes, Pod
  <2>3. state' \in Vars /\ lock' \in Nat /\ done' \in SUBSET (Nat \X Vars)
    BY <1>16, <2>1 DEF Succeed, Pod
  <2> QED
    BY <1>16, <2>2, <2>3 DEF Succeed
<1>17. ASSUME NEW p \in pods, ObserveJob(p)
       PROVE  TypeOK'
  BY <1>17 DEF ObserveJob, Status, Job, Pod
<1>18. CASE ExpireJob
  BY <1>18 DEF ExpireJob
<1>19. CASE UNCHANGED vars
  BY <1>19 DEF vars
<1> QED
  BY <1>1, <1>2, <1>3, <1>4, <1>5, <1>6, <1>7, <1>8, <1>9, <1>10, <1>11, <1>12,
     <1>13, <1>14, <1>15, <1>16, <1>17, <1>18, <1>19, Steps

(* Steps outside of a call, which give up the call or change no Job and no *)
(* pod, keep the parts of the invariant about a call for lack of one.      *)
LEMMA InvPreserved == TypeOK /\ Inv /\ [Next]_vars => Inv'
<1> SUFFICES ASSUME TypeOK, Inv, [Next]_vars PROVE Inv'
  OBVIOUS
<1> USE DEF Inv, Parsed, Numbered, Fresh, Mine, Provided, Used, Carried, Status
<1> USE DEF process, cluster, stores, history, InCall, GiveUp, Continue, Args
<1>1. CASE Prepare
  BY <1>1 DEF Prepare, WriteCreds, TypeOK, SecretOf
<1>2. CASE PrepareFails
  BY <1>2 DEF PrepareFails
<1>3. CASE DeleteOld
  BY <1>3 DEF DeleteOld, TypeOK
<1>4. CASE Create
  BY <1>4 DEF Create, SubmitJob, TypeOK
<1>5. CASE CreateFails
  BY <1>5 DEF CreateFails, SubmitJob, TypeOK
<1>6. CASE Waiting
  BY <1>6 DEF Waiting, PodTimesOut, LogsBreak, JobFails, JobTimesOut, Kill
<1>7. CASE JobCompletes
  BY <1>7 DEF JobCompletes, AfterCall, TypeOK
<1>8. CASE ReadBack
  BY <1>8 DEF ReadBack, Begin, TypeOK
<1>9. CASE StoreOnMgmt
  BY <1>9 DEF StoreOnMgmt
<1>10. CASE WireWorkload
  BY <1>10 DEF WireWorkload
<1>11. ASSUME NEW p \in pods, SeePod(p) \/ FollowLogs(p)
       PROVE  Inv'
  BY <1>11 DEF SeePod, FollowLogs
<1>12. ASSUME NEW o \in Op, NEW w \in Wanted, Start(o, w)
       PROVE  Inv'
  BY <1>12 DEF Start, Begin, TypeOK
<1>13. ASSUME NEW o \in Op, CreatePod(o)
       PROVE  Inv'
  BY <1>13 DEF CreatePod, TypeOK, Ready
<1>14. ASSUME NEW p \in pods, StartPod(p)
       PROVE  Inv'
  BY <1>14 DEF StartPod, Becomes, TypeOK, Pod, Ready
<1>15. ASSUME NEW p \in pods, Lock(p) \/ PodFails(p) \/ CollectPod(p)
       PROVE  Inv'
  BY <1>15 DEF Lock, PodFails, CollectPod, Becomes, TypeOK, Pod, Ready
<1>16. ASSUME NEW p \in pods, Succeed(p)
       PROVE  Inv'
  <2> DEFINE q == [p EXCEPT !.phase = "succeeded",
                            !.out = IF p.op = "output" THEN state ELSE Garbage]
  <2>1. q.n = p.n /\ q.op = p.op /\ q.vars = p.vars /\ Ready(p)
    BY <1>16 DEF Succeed, TypeOK, Pod, Ready
  <2>2. \A r \in pods' : r \in pods \/ r = q
    BY <1>16 DEF Succeed, Becomes
  <2>3. done' = done \cup {<<p.n, p.vars>>} /\ UNCHANGED <<n, op, want, step, log, creds, job>>
    BY <1>16 DEF Succeed
  <2> HIDE DEF q
  <2>4. Parsed' /\ Numbered' /\ Fresh' /\ Mine' /\ Provided'
    BY <2>1, <2>2, <2>3
  <2>5. Used'
    BY <2>1, <2>2, <2>3
  <2>6. Carried'
    BY <2>1, <2>2, <2>3
  <2> QED
    BY <2>4, <2>5, <2>6
<1>17. ASSUME NEW p \in pods, ObserveJob(p)
       PROVE  Inv'
  BY <1>17 DEF ObserveJob, Ended, Owned, TypeOK, Pod, Ready
<1>18. CASE ExpireJob
  BY <1>18 DEF ExpireJob, TypeOK
<1>19. CASE UNCHANGED vars
  BY <1>19 DEF vars
<1> QED
  BY <1>1, <1>2, <1>3, <1>4, <1>5, <1>6, <1>7, <1>8, <1>9, <1>10, <1>11, <1>12,
     <1>13, <1>14, <1>15, <1>16, <1>17, <1>18, <1>19, Steps

LEMMA InvInitially == Init => TypeOK /\ Inv
BY DEF Init, TypeOK, Inv, Parsed, Numbered, Fresh, Mine, Provided, Used, Carried, Status,
       InCall, Vars, Op

(* The invariant holds in every state that a run reaches.                  *)
LEMMA Invariant == Spec => [](TypeOK /\ Inv)
<1>1. TypeOK /\ Inv /\ [Next]_vars => (TypeOK /\ Inv)'
  BY TypePreserved, InvPreserved DEF Inv
<1> QED
  BY <1>1, InvInitially, PTL DEF Spec

(* TypeOK for every number of calls and every set of roots: what Output    *)
(* returns is never stored unparsed (EnsureIssuingCA).                     *)
THEOREM TypeCorrect == Spec => []TypeOK
BY Invariant, PTL

-----------------------------------------------------------------------------
(* The refinement.                                                         *)

LEMMA RunnerInitially == Init => Runner!Init
BY DEF Init, Runner!Init, InCall, Args, Vars

(* A Job that is complete and has the number of the call was carried out   *)
(* for it: that is all that waitForJob has to see.                         *)
LEMMA RunnerSteps == TypeOK /\ Inv /\ [Next]_vars => [Runner!Next]_(Runner!vars)
<1> SUFFICES ASSUME TypeOK, Inv, [Next]_vars PROVE Runner!Next \/ UNCHANGED Runner!vars
  OBVIOUS
<1> USE DEF process, cluster, stores, history, GiveUp, Continue, InCall, Runner!vars
<1>1. CASE Prepare \/ DeleteOld \/ Create
  BY <1>1 DEF Prepare, DeleteOld, Create
<1>2. CASE PrepareFails \/ CreateFails
  BY <1>2 DEF PrepareFails, CreateFails, Runner!Next, Runner!Fail
<1>3. CASE Waiting
  BY <1>3 DEF Waiting, PodTimesOut, LogsBreak, JobFails, JobTimesOut, Kill, Runner!Next,
              Runner!Fail
<1>4. CASE JobCompletes
  <2>1. <<n, Args(op, want)>> \in done
    BY <1>4 DEF JobCompletes, TypeOK, Inv, Mine, Carried, Status
  <2>2. step' \notin InCall /\ UNCHANGED <<n, op, want, done>>
    BY <1>4 DEF JobCompletes, AfterCall
  <2>3. CASE ok' = ok \cup {n}
    BY <1>4, <2>1, <2>2, <2>3 DEF JobCompletes, Runner!Next, Runner!Return
  <2>4. CASE ok' = ok
    BY <1>4, <2>2, <2>4 DEF JobCompletes, Runner!Next, Runner!Fail
  <2> QED
    BY <1>4, <2>3, <2>4 DEF JobCompletes
<1>5. CASE ReadBack \/ \E o \in Op, w \in Wanted : Start(o, w)
  <2>1. Args(op', want') \in Vars
    BY <1>5 DEF ReadBack, Start, Begin, Args, Vars, TypeOK
  <2> QED
    BY <1>5, <2>1 DEF ReadBack, Start, Begin, Runner!Next, Runner!Call
<1>6. CASE StoreOnMgmt \/ WireWorkload
  BY <1>6 DEF StoreOnMgmt, WireWorkload
<1>7. ASSUME NEW p \in pods, SeePod(p) \/ FollowLogs(p)
      PROVE  UNCHANGED Runner!vars
  BY <1>7 DEF SeePod, FollowLogs
<1>8. ASSUME NEW p \in pods, Succeed(p)
      PROVE  Runner!Next
  <2>1. p.n \in 1 .. n /\ p.vars \in Vars
    BY DEF Inv, Numbered, TypeOK, Pod
  <2> QED
    BY <1>8, <2>1 DEF Succeed, Runner!Next, Runner!Work
<1>9. ASSUME NEW p \in pods,
             StartPod(p) \/ Lock(p) \/ PodFails(p) \/ ObserveJob(p) \/ CollectPod(p)
      PROVE  UNCHANGED Runner!vars
  BY <1>9 DEF StartPod, Lock, PodFails, ObserveJob, CollectPod
<1>10. CASE ExpireJob \/ \E o \in Op : CreatePod(o)
  BY <1>10 DEF ExpireJob, CreatePod
<1>11. CASE UNCHANGED vars
  BY <1>11 DEF vars
<1> QED
  BY <1>1, <1>2, <1>3, <1>4, <1>5, <1>6, <1>7, <1>8, <1>9, <1>10, <1>11, Steps

(* A call that returns nil was carried out by a pod of its own, with its   *)
(* own variables, for any number of calls, kills and failures (runJob,     *)
(* Output, EnsureRepoSync).                                                *)
THEOREM RunnerImplemented == Spec => ImplementsRunner
<1>1. Spec => Runner!Spec
  BY Invariant, RunnerInitially, RunnerSteps, PTL DEF Spec, Runner!Spec
<1> QED
  BY <1>1 DEF ImplementsRunner
-----------------------------------------------------------------------------
(* What a run stores.                                                      *)

(* A call has one Job, a Job has one pod, and a Job that is complete or    *)
(* failed is so because its pod ended.                                     *)
OnePod ==
    /\ \A p, q \in pods : p.n = q.n => p = q
    /\ \A p \in pods : Owned(p) /\ Status(p.op) # "active" => Ended(p)
    /\ \A p \in pods : p.phase = "locked" => p.op \in {"apply", "destroy"}

(* During a call of a run that started alone nothing of another call is at *)
(* work, and there is no other output to be read.                          *)
NobodyElse ==
    alone /\ step \in InCall =>
        /\ \A p \in pods : ~Ended(p) \/ p.op = "output" => p.n = n
        /\ \A o \in Op : Status(o) = "active" => job[o].n = n

(* An apply that went through left the root of the run in the state.       *)
AppliedOwn ==
    alone /\ step \in InCall /\ op = "apply" =>
        /\ \A p \in pods : p.n = n /\ p.phase = "succeeded" => state = want
        /\ Status("apply") = "complete" /\ job["apply"].n = n => state = want

(* Between its two calls a run is as alone as when it started.             *)
BetweenCalls == alone /\ step = "applied" => Quiet /\ state = want

(* An output follows its own pod and reads that state, or nothing; what is *)
(* stored comes from it.                                                   *)
ReadsOwn ==
    alone /\ step \in InCall /\ op = "output" =>
        /\ state = want /\ log \in {want, Garbage}
        /\ step = "logs" => watched = n
        /\ \A p \in pods : p.op = "output" => p.out \in {want, Garbage}
LogIsOwn == alone /\ step \in {"store", "wire"} => log = want

OwnInv == OnePod /\ NobodyElse /\ AppliedOwn /\ BetweenCalls /\ ReadsOwn /\ LogIsOwn

(* A Job makes a pod only while it is active and none has its number.      *)
LEMMA OnePodKept ==
    ASSUME TypeOK, Inv, OwnInv, [Next]_vars
    PROVE  OnePod'
<1> USE DEF process, cluster, stores, history, InCall, GiveUp, Continue, OwnInv, OnePod, TypeOK,
        Pod, Job, Ended, Status, Owned, Ready, Op, Inv, Numbered, Fresh
<1>1. CASE Prepare
  BY <1>1 DEF Prepare, WriteCreds
<1>2. CASE PrepareFails
  BY <1>2 DEF PrepareFails, WriteCreds
<1>3. CASE DeleteOld
  BY <1>3 DEF DeleteOld
<1>4. CASE Create
  BY <1>4 DEF Create, SubmitJob
<1>5. CASE CreateFails
  BY <1>5 DEF CreateFails, SubmitJob
<1>6. CASE Waiting
  BY <1>6 DEF Waiting, PodTimesOut, LogsBreak, JobFails, JobTimesOut, Kill
<1>7. CASE JobCompletes
  BY <1>7 DEF JobCompletes, AfterCall
<1>8. CASE ReadBack
  BY <1>8 DEF ReadBack, Begin
<1>9. CASE StoreOnMgmt
  BY <1>9 DEF StoreOnMgmt
<1>10. CASE WireWorkload
  BY <1>10 DEF WireWorkload
<1>11. ASSUME NEW p \in pods, SeePod(p) \/ FollowLogs(p)
      PROVE  OnePod'
  BY <1>11 DEF SeePod, FollowLogs
<1>12. ASSUME NEW o \in Op \ {"output"}, NEW w \in Wanted, Start(o, w)
      PROVE  OnePod'
  BY <1>12 DEF Start, Begin
<1>13. ASSUME NEW o \in Op, CreatePod(o)
      PROVE  OnePod'
  BY <1>13 DEF CreatePod
<1>14. ASSUME NEW p \in pods, StartPod(p)
      PROVE  OnePod'
  <2> DEFINE q == [p EXCEPT !.phase = "running", !.vars = IF p.op = "sync" THEN @ ELSE creds[SecretOf(p.op)]]
  <2>1. q.n = p.n /\ q.op = p.op /\ q.phase = "running"
    BY DEF TypeOK, Pod
  <2>2. pods' = (pods \ {p}) \cup {q} /\ UNCHANGED job
    BY <1>14 DEF StartPod, Becomes
  <2>3. p.phase = "pending"
    BY <1>14 DEF StartPod
  <2> HIDE DEF q
  <2> QED
    BY <2>1, <2>2, <2>3 DEF OwnInv, OnePod, Ended, Status, Owned
<1>15. ASSUME NEW p \in pods, Lock(p)
      PROVE  OnePod'
  BY <1>15 DEF Lock, Becomes
<1>16. ASSUME NEW p \in pods, Succeed(p)
      PROVE  OnePod'
  <2> DEFINE q == [p EXCEPT !.phase = "succeeded", !.out = IF p.op = "output" THEN state ELSE Garbage]
  <2>1. q.n = p.n /\ q.op = p.op /\ q.phase = "succeeded"
    BY DEF TypeOK, Pod
  <2>2. pods' = (pods \ {p}) \cup {q} /\ UNCHANGED job
    BY <1>16 DEF Succeed, Becomes
  <2>3. p.phase = (IF p.op \in {"apply", "destroy"} THEN "locked" ELSE "running")
    BY <1>16 DEF Succeed
  <2> HIDE DEF q
  <2> QED
    BY <2>1, <2>2, <2>3 DEF OwnInv, OnePod, Ended, Status, Owned
<1>17. ASSUME NEW p \in pods, PodFails(p)
      PROVE  OnePod'
  BY <1>17 DEF PodFails, Becomes
<1>18. ASSUME NEW p \in pods, ObserveJob(p)
      PROVE  OnePod'
  BY <1>18 DEF ObserveJob
<1>19. ASSUME NEW p \in pods, CollectPod(p)
      PROVE  OnePod'
  BY <1>19 DEF CollectPod
<1>20. CASE ExpireJob
  BY <1>20 DEF ExpireJob
<1>21. CASE UNCHANGED vars
  BY <1>21 DEF vars
<1> QED
  BY <1>1, <1>2, <1>3, <1>4, <1>5, <1>6, <1>7, <1>8, <1>9, <1>10, <1>11, <1>12, <1>13, <1>14,
     <1>15, <1>16, <1>17, <1>18, <1>19, <1>20, <1>21, Steps

(* Jobs of earlier calls are not active, so only this call makes pods.     *)
LEMMA NobodyElseKept ==
    ASSUME TypeOK, Inv, OwnInv, [Next]_vars
    PROVE  NobodyElse'
<1> USE DEF process, cluster, stores, history, InCall, GiveUp, Continue, OwnInv, NobodyElse,
        TypeOK, Pod, Job, Ended, Status, Op, Inv, Numbered, BetweenCalls, Quiet
<1>1. CASE Prepare
  BY <1>1 DEF Prepare, WriteCreds
<1>2. CASE PrepareFails
  BY <1>2 DEF PrepareFails, WriteCreds
<1>3. CASE DeleteOld
  BY <1>3 DEF DeleteOld
<1>4. CASE Create
  BY <1>4 DEF Create, SubmitJob
<1>5. CASE CreateFails
  BY <1>5 DEF CreateFails, SubmitJob
<1>6. CASE Waiting
  BY <1>6 DEF Waiting, PodTimesOut, LogsBreak, JobFails, JobTimesOut, Kill
<1>7. CASE JobCompletes
  BY <1>7 DEF JobCompletes, AfterCall
<1>8. CASE ReadBack
  BY <1>8 DEF ReadBack, Begin
<1>9. CASE StoreOnMgmt
  BY <1>9 DEF StoreOnMgmt
<1>10. CASE WireWorkload
  BY <1>10 DEF WireWorkload
<1>11. ASSUME NEW p \in pods, SeePod(p) \/ FollowLogs(p)
      PROVE  NobodyElse'
  BY <1>11 DEF SeePod, FollowLogs
<1>12. ASSUME NEW o \in Op \ {"output"}, NEW w \in Wanted, Start(o, w)
      PROVE  NobodyElse'
  BY <1>12 DEF Start, Begin
<1>13. ASSUME NEW o \in Op, CreatePod(o)
      PROVE  NobodyElse'
  BY <1>13 DEF CreatePod
<1>14. ASSUME NEW p \in pods, StartPod(p)
      PROVE  NobodyElse'
  BY <1>14 DEF StartPod, Becomes
<1>15. ASSUME NEW p \in pods, Lock(p)
      PROVE  NobodyElse'
  BY <1>15 DEF Lock, Becomes
<1>16. ASSUME NEW p \in pods, Succeed(p)
      PROVE  NobodyElse'
  BY <1>16 DEF Succeed, Becomes
<1>17. ASSUME NEW p \in pods, PodFails(p)
      PROVE  NobodyElse'
  BY <1>17 DEF PodFails, Becomes
<1>18. ASSUME NEW p \in pods, ObserveJob(p)
      PROVE  NobodyElse'
  BY <1>18 DEF ObserveJob
<1>19. ASSUME NEW p \in pods, CollectPod(p)
      PROVE  NobodyElse'
  BY <1>19 DEF CollectPod
<1>20. CASE ExpireJob
  BY <1>20 DEF ExpireJob
<1>21. CASE UNCHANGED vars
  BY <1>21 DEF vars
<1> QED
  BY <1>1, <1>2, <1>3, <1>4, <1>5, <1>6, <1>7, <1>8, <1>9, <1>10, <1>11, <1>12, <1>13, <1>14,
     <1>15, <1>16, <1>17, <1>18, <1>19, <1>20, <1>21, Steps

(* Whatever writes the state during the apply is the pod of the call, with *)
(* its variables; its success comes before that of the Job.                *)
LEMMA AppliedOwnKept ==
    ASSUME TypeOK, Inv, OwnInv, [Next]_vars
    PROVE  AppliedOwn'
<1> USE DEF process, cluster, stores, history, InCall, GiveUp, Continue, OwnInv, AppliedOwn,
        NobodyElse, OnePod, TypeOK, Pod, Job, Ended, Ready, Status, Owned, Op, Inv, Numbered,
        Fresh, Used, Args
<1>1. CASE Prepare
  BY <1>1 DEF Prepare, WriteCreds
<1>2. CASE PrepareFails
  BY <1>2 DEF PrepareFails, WriteCreds
<1>3. CASE DeleteOld
  BY <1>3 DEF DeleteOld
<1>4. CASE Create
  BY <1>4 DEF Create, SubmitJob
<1>5. CASE CreateFails
  BY <1>5 DEF CreateFails, SubmitJob
<1>6. CASE Waiting
  BY <1>6 DEF Waiting, PodTimesOut, LogsBreak, JobFails, JobTimesOut, Kill
<1>7. CASE JobCompletes
  BY <1>7 DEF JobCompletes, AfterCall
<1>8. CASE ReadBack
  BY <1>8 DEF ReadBack, Begin
<1>9. CASE StoreOnMgmt
  BY <1>9 DEF StoreOnMgmt
<1>10. CASE WireWorkload
  BY <1>10 DEF WireWorkload
<1>11. ASSUME NEW p \in pods, SeePod(p) \/ FollowLogs(p)
      PROVE  AppliedOwn'
  BY <1>11 DEF SeePod, FollowLogs
<1>12. ASSUME NEW o \in Op \ {"output"}, NEW w \in Wanted, Start(o, w)
      PROVE  AppliedOwn'
  BY <1>12 DEF Start, Begin
<1>13. ASSUME NEW o \in Op, CreatePod(o)
      PROVE  AppliedOwn'
  BY <1>13 DEF CreatePod
<1>14. ASSUME NEW p \in pods, StartPod(p)
      PROVE  AppliedOwn'
  BY <1>14 DEF StartPod, Becomes
<1>15. ASSUME NEW p \in pods, Lock(p)
      PROVE  AppliedOwn'
  BY <1>15 DEF Lock, Becomes
<1>16. ASSUME NEW p \in pods, Succeed(p)
      PROVE  AppliedOwn'
  BY <1>16 DEF Succeed, Becomes
<1>17. ASSUME NEW p \in pods, PodFails(p)
      PROVE  AppliedOwn'
  BY <1>17 DEF PodFails, Becomes
<1>18. ASSUME NEW p \in pods, ObserveJob(p)
      PROVE  AppliedOwn'
  BY <1>18 DEF ObserveJob
<1>19. ASSUME NEW p \in pods, CollectPod(p)
      PROVE  AppliedOwn'
  BY <1>19 DEF CollectPod
<1>20. CASE ExpireJob
  BY <1>20 DEF ExpireJob
<1>21. CASE UNCHANGED vars
  BY <1>21 DEF vars
<1> QED
  BY <1>1, <1>2, <1>3, <1>4, <1>5, <1>6, <1>7, <1>8, <1>9, <1>10, <1>11, <1>12, <1>13, <1>14,
     <1>15, <1>16, <1>17, <1>18, <1>19, <1>20, <1>21, Steps

(* When waitForJob sees the Job of the apply complete, its pod has ended.  *)
LEMMA BetweenCallsKept ==
    ASSUME TypeOK, Inv, OwnInv, [Next]_vars
    PROVE  BetweenCalls'
<1> USE DEF process, cluster, stores, history, InCall, GiveUp, Continue, OwnInv, BetweenCalls,
        Quiet, AppliedOwn, NobodyElse, OnePod, TypeOK, Pod, Job, Ended, Status, Owned, Op, Inv,
        Mine, Provided, Used
<1>1. CASE Prepare
  BY <1>1 DEF Prepare, WriteCreds
<1>2. CASE PrepareFails
  BY <1>2 DEF PrepareFails, WriteCreds
<1>3. CASE DeleteOld
  BY <1>3 DEF DeleteOld
<1>4. CASE Create
  BY <1>4 DEF Create, SubmitJob
<1>5. CASE CreateFails
  BY <1>5 DEF CreateFails, SubmitJob
<1>6. CASE Waiting
  BY <1>6 DEF Waiting, PodTimesOut, LogsBreak, JobFails, JobTimesOut, Kill
<1>7. CASE JobCompletes
  BY <1>7 DEF JobCompletes, AfterCall
<1>8. CASE ReadBack
  BY <1>8 DEF ReadBack, Begin
<1>9. CASE StoreOnMgmt
  BY <1>9 DEF StoreOnMgmt
<1>10. CASE WireWorkload
  BY <1>10 DEF WireWorkload
<1>11. ASSUME NEW p \in pods, SeePod(p) \/ FollowLogs(p)
      PROVE  BetweenCalls'
  BY <1>11 DEF SeePod, FollowLogs
<1>12. ASSUME NEW o \in Op \ {"output"}, NEW w \in Wanted, Start(o, w)
      PROVE  BetweenCalls'
  BY <1>12 DEF Start, Begin
<1>13. ASSUME NEW o \in Op, CreatePod(o)
      PROVE  BetweenCalls'
  BY <1>13 DEF CreatePod
<1>14. ASSUME NEW p \in pods, StartPod(p)
      PROVE  BetweenCalls'
  BY <1>14 DEF StartPod, Becomes
<1>15. ASSUME NEW p \in pods, Lock(p)
      PROVE  BetweenCalls'
  BY <1>15 DEF Lock, Becomes
<1>16. ASSUME NEW p \in pods, Succeed(p)
      PROVE  BetweenCalls'
  BY <1>16 DEF Succeed, Becomes
<1>17. ASSUME NEW p \in pods, PodFails(p)
      PROVE  BetweenCalls'
  BY <1>17 DEF PodFails, Becomes
<1>18. ASSUME NEW p \in pods, ObserveJob(p)
      PROVE  BetweenCalls'
  BY <1>18 DEF ObserveJob
<1>19. ASSUME NEW p \in pods, CollectPod(p)
      PROVE  BetweenCalls'
  BY <1>19 DEF CollectPod
<1>20. CASE ExpireJob
  BY <1>20 DEF ExpireJob
<1>21. CASE UNCHANGED vars
  BY <1>21 DEF vars
<1> QED
  BY <1>1, <1>2, <1>3, <1>4, <1>5, <1>6, <1>7, <1>8, <1>9, <1>10, <1>11, <1>12, <1>13, <1>14,
     <1>15, <1>16, <1>17, <1>18, <1>19, <1>20, <1>21, Steps

(* During the output nothing is at work that has the lock of the state.    *)
LEMMA ReadsOwnKept ==
    ASSUME TypeOK, Inv, OwnInv, [Next]_vars
    PROVE  ReadsOwn'
<1> USE DEF process, cluster, stores, history, InCall, GiveUp, Continue, OwnInv, ReadsOwn,
        BetweenCalls, Quiet, NobodyElse, OnePod, TypeOK, Pod, Ended, Op, Inv, Used
<1>1. CASE Prepare
  BY <1>1 DEF Prepare, WriteCreds
<1>2. CASE PrepareFails
  BY <1>2 DEF PrepareFails, WriteCreds
<1>3. CASE DeleteOld
  BY <1>3 DEF DeleteOld
<1>4. CASE Create
  BY <1>4 DEF Create, SubmitJob
<1>5. CASE CreateFails
  BY <1>5 DEF CreateFails, SubmitJob
<1>6. CASE Waiting
  BY <1>6 DEF Waiting, PodTimesOut, LogsBreak, JobFails, JobTimesOut, Kill
<1>7. CASE JobCompletes
  BY <1>7 DEF JobCompletes, AfterCall
<1>8. CASE ReadBack
  BY <1>8 DEF ReadBack, Begin
<1>9. CASE StoreOnMgmt
  BY <1>9 DEF StoreOnMgmt
<1>10. CASE WireWorkload
  BY <1>10 DEF WireWorkload
<1>11. ASSUME NEW p \in pods, SeePod(p) \/ FollowLogs(p)
      PROVE  ReadsOwn'
  BY <1>11 DEF SeePod, FollowLogs
<1>12. ASSUME NEW o \in Op \ {"output"}, NEW w \in Wanted, Start(o, w)
      PROVE  ReadsOwn'
  BY <1>12 DEF Start, Begin
<1>13. ASSUME NEW o \in Op, CreatePod(o)
      PROVE  ReadsOwn'
  BY <1>13 DEF CreatePod
<1>14. ASSUME NEW p \in pods, StartPod(p)
      PROVE  ReadsOwn'
  BY <1>14 DEF StartPod, Becomes
<1>15. ASSUME NEW p \in pods, Lock(p)
      PROVE  ReadsOwn'
  BY <1>15 DEF Lock, Becomes
<1>16. ASSUME NEW p \in pods, Succeed(p)
      PROVE  ReadsOwn'
  BY <1>16 DEF Succeed, Becomes
<1>17. ASSUME NEW p \in pods, PodFails(p)
      PROVE  ReadsOwn'
  BY <1>17 DEF PodFails, Becomes
<1>18. ASSUME NEW p \in pods, ObserveJob(p)
      PROVE  ReadsOwn'
  BY <1>18 DEF ObserveJob
<1>19. ASSUME NEW p \in pods, CollectPod(p)
      PROVE  ReadsOwn'
  BY <1>19 DEF CollectPod
<1>20. CASE ExpireJob
  BY <1>20 DEF ExpireJob
<1>21. CASE UNCHANGED vars
  BY <1>21 DEF vars
<1> QED
  BY <1>1, <1>2, <1>3, <1>4, <1>5, <1>6, <1>7, <1>8, <1>9, <1>10, <1>11, <1>12, <1>13, <1>14,
     <1>15, <1>16, <1>17, <1>18, <1>19, <1>20, <1>21, Steps

(* A log that parses is not Garbage.                                       *)
LEMMA LogIsOwnKept ==
    ASSUME TypeOK, Inv, OwnInv, [Next]_vars
    PROVE  LogIsOwn'
<1> USE DEF process, cluster, stores, history, InCall, GiveUp, Continue, OwnInv, LogIsOwn,
        ReadsOwn, TypeOK, Op
<1>1. CASE Prepare
  BY <1>1 DEF Prepare, WriteCreds
<1>2. CASE PrepareFails
  BY <1>2 DEF PrepareFails, WriteCreds
<1>3. CASE DeleteOld
  BY <1>3 DEF DeleteOld
<1>4. CASE Create
  BY <1>4 DEF Create, SubmitJob
<1>5. CASE CreateFails
  BY <1>5 DEF CreateFails, SubmitJob
<1>6. CASE Waiting
  BY <1>6 DEF Waiting, PodTimesOut, LogsBreak, JobFails, JobTimesOut, Kill
<1>7. CASE JobCompletes
  BY <1>7, ConstantsAssumption DEF JobCompletes, AfterCall
<1>8. CASE ReadBack
  BY <1>8 DEF ReadBack, Begin
<1>9. CASE StoreOnMgmt
  BY <1>9 DEF StoreOnMgmt
<1>10. CASE WireWorkload
  BY <1>10 DEF WireWorkload
<1>11. ASSUME NEW p \in pods, SeePod(p) \/ FollowLogs(p)
      PROVE  LogIsOwn'
  BY <1>11 DEF SeePod, FollowLogs
<1>12. ASSUME NEW o \in Op \ {"output"}, NEW w \in Wanted, Start(o, w)
      PROVE  LogIsOwn'
  BY <1>12 DEF Start, Begin
<1>13. ASSUME NEW o \in Op, CreatePod(o)
      PROVE  LogIsOwn'
  BY <1>13 DEF CreatePod
<1>14. ASSUME NEW p \in pods, StartPod(p)
      PROVE  LogIsOwn'
  BY <1>14 DEF StartPod, Becomes
<1>15. ASSUME NEW p \in pods, Lock(p)
      PROVE  LogIsOwn'
  BY <1>15 DEF Lock, Becomes
<1>16. ASSUME NEW p \in pods, Succeed(p)
      PROVE  LogIsOwn'
  BY <1>16 DEF Succeed, Becomes
<1>17. ASSUME NEW p \in pods, PodFails(p)
      PROVE  LogIsOwn'
  BY <1>17 DEF PodFails, Becomes
<1>18. ASSUME NEW p \in pods, ObserveJob(p)
      PROVE  LogIsOwn'
  BY <1>18 DEF ObserveJob
<1>19. ASSUME NEW p \in pods, CollectPod(p)
      PROVE  LogIsOwn'
  BY <1>19 DEF CollectPod
<1>20. CASE ExpireJob
  BY <1>20 DEF ExpireJob
<1>21. CASE UNCHANGED vars
  BY <1>21 DEF vars
<1> QED
  BY <1>1, <1>2, <1>3, <1>4, <1>5, <1>6, <1>7, <1>8, <1>9, <1>10, <1>11, <1>12, <1>13, <1>14,
     <1>15, <1>16, <1>17, <1>18, <1>19, <1>20, <1>21, Steps

LEMMA OwnInitially == Init => OwnInv
BY DEF Init, OwnInv, OnePod, NobodyElse, AppliedOwn, BetweenCalls, ReadsOwn, LogIsOwn, Status,
       InCall

LEMMA OwnInvariant == Spec => [](TypeOK /\ Inv /\ OwnInv)
<1>1. TypeOK /\ Inv /\ OwnInv /\ [Next]_vars => OwnInv'
  BY OnePodKept, NobodyElseKept, AppliedOwnKept, BetweenCallsKept, ReadsOwnKept, LogIsOwnKept
  DEF OwnInv
<1> QED
  BY <1>1, OwnInitially, Invariant, PTL DEF Spec

(* Only StoreOnMgmt writes the Secret of the management cluster.           *)
LEMMA OnlyStoreWrites ==
    ASSUME [Next]_vars, mgmtCA' # mgmtCA
    PROVE  StoreOnMgmt
BY Steps DEF vars, cluster, stores, Prepare, PrepareFails, DeleteOld, Create, CreateFails,
   Waiting, PodTimesOut, LogsBreak, JobFails, JobTimesOut, Kill, JobCompletes, ReadBack, Begin,
   WireWorkload, SeePod, FollowLogs, Start, CreatePod, StartPod, Lock, Succeed, PodFails,
   ObserveJob, CollectPod, ExpireJob

(* A run that starts when nothing of an earlier one is left stores the CA  *)
(* of its own root or none, whatever fails in it and wherever it or an     *)
(* earlier run was killed (EnsureIssuingCA).                               *)
THEOREM OwnCAStored == Spec => StoresItsOwn
<1>1. OwnInv /\ [Next]_vars => [alone /\ mgmtCA' # mgmtCA => mgmtCA' = want]_vars
  <2> SUFFICES ASSUME OwnInv, [Next]_vars, alone, mgmtCA' # mgmtCA
               PROVE  mgmtCA' = want
    OBVIOUS
  <2>1. step = "store" /\ mgmtCA' = log
    BY OnlyStoreWrites DEF StoreOnMgmt
  <2> QED
    BY <2>1 DEF OwnInv, LogIsOwn
<1> QED
  BY OwnInvariant, <1>1, PTL DEF Spec, StoresItsOwn

=============================================================================
