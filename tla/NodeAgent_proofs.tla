--------------------------- MODULE NodeAgent_proofs ---------------------------
(***************************************************************************)
(* Proofs about NodeAgent, for any instances, tasks, responses and slots.  *)
(***************************************************************************)
EXTENDS NodeAgent, TLAPS

-----------------------------------------------------------------------------
(* What a step does to the record of a goroutine.                          *)

ActiveJob == [pc : JobPc, task : TaskIds, type : {"start", "stop", "logs"}, inst : Instances,
              cid : 0 .. MaxContainers, late : BOOLEAN, ok : BOOLEAN]

(* A goroutine that is somewhere in a task has all its fields.             *)
LEMMA ActiveRow ==
    ASSUME NEW r \in Job, r.pc # "idle"
    PROVE  r \in ActiveJob
  BY DEF Job, ActiveJob, Idle

(* Moving on keeps the record well typed and its other fields.             *)
LEMMA RowGoto ==
    ASSUME NEW r \in ActiveJob, NEW p \in JobPc
    PROVE  /\ [r EXCEPT !.pc = p] \in Job
           /\ [r EXCEPT !.pc = p].pc = p
           /\ [r EXCEPT !.pc = p].type = r.type
           /\ [r EXCEPT !.pc = p].inst = r.inst
           /\ [r EXCEPT !.pc = p].cid = r.cid
           /\ [r EXCEPT !.pc = p].ok = r.ok
  BY DEF ActiveJob, Job

(* So does ending with a result.                                           *)
LEMMA RowFinish ==
    ASSUME NEW r \in ActiveJob, NEW b \in BOOLEAN
    PROVE  LET n == [r EXCEPT !.pc = "report", !.ok = b]
           IN  n \in Job /\ n.pc = "report" /\ n.type = r.type /\ n.inst = r.inst
               /\ n.cid = r.cid /\ n.ok = b
  BY DEF ActiveJob, Job, JobPc

(* So does learning the id of a container.                                 *)
LEMMA RowCid ==
    ASSUME NEW r \in ActiveJob, NEW p \in JobPc, NEW c \in 0 .. MaxContainers
    PROVE  LET n == [r EXCEPT !.pc = p, !.cid = c]
           IN  n \in Job /\ n.pc = p /\ n.type = r.type /\ n.inst = r.inst
               /\ n.cid = c /\ n.ok = r.ok
  BY DEF ActiveJob, Job

(* And the end of the task's context.                                      *)
LEMMA RowLate ==
    ASSUME NEW r \in ActiveJob
    PROVE  LET n == [r EXCEPT !.late = TRUE]
           IN  n \in Job /\ n.pc = r.pc /\ n.type = r.type /\ n.inst = r.inst
               /\ n.cid = r.cid /\ n.ok = r.ok
  BY DEF ActiveJob, Job

(* A new state keeps a container well typed, and its id.                   *)
LEMMA RowContainer ==
    ASSUME NEW c \in Container, c # Absent, NEW st \in {"created", "running", "exited"}
    PROVE  /\ [c EXCEPT !.st = st] \in Container
           /\ [c EXCEPT !.st = st].id = c.id
           /\ [c EXCEPT !.st = st] # Absent
  BY DEF Container, Absent, Ids

(* The record of a goroutine that the loop has just dispatched.            *)
LEMMA RowDispatched ==
    ASSUME NEW b \in Brief
    PROVE  LET n == [pc |-> FirstCall(b.type), task |-> b.task, type |-> b.type,
                     inst |-> b.inst, cid |-> 0, late |-> FALSE, ok |-> FALSE]
           IN  /\ n \in Job
               /\ n.pc \in {"create", "inspect", "logs"}
               /\ n.pc = "create" => n.type = "start"
               /\ n.pc = "inspect" => n.type = "stop"
               /\ n.pc = "logs" => n.type = "logs"
<1>1. MaxContainers \in Nat
  BY AgentAssumption
<1>2. 0 \in 0 .. MaxContainers
  BY <1>1
<1> QED
  BY <1>2 DEF Brief, FirstCall, Job, JobPc

-----------------------------------------------------------------------------
(* Which handler a goroutine runs follows from its task's type.            *)
PcRow(r) ==
    /\ r.pc \in {"create", "start", "verify", "health", "cleanup"} => r.type = "start"
    /\ r.pc \in {"inspect", "stop", "remove"} => r.type = "stop"
    /\ r.pc = "logs" => r.type = "logs"

PcType == \A w \in Workers : PcRow(job[w])

TypeInv == TypeOK /\ PcType

(* A start that has created its container and may still report it.         *)
OwnsRow(r) ==
    /\ r.type = "start"
    /\ r.pc \in {"start", "verify", "health", "cleanup"} \/ (r.pc = "report" /\ r.ok)

(* A step that creates no container and posts no result.  No goroutine     *)
(* comes to own a container by it; and, if nothing went wrong, one that    *)
(* holds a container lets go of it only when the container disappears.     *)
Quiet ==
    /\ UNCHANGED <<created, results>>
    /\ faulty => faulty'
    /\ \A i \in Instances :
          ctr'[i] # Absent => ctr[i] # Absent /\ ctr'[i].id = ctr[i].id
    /\ \A w \in Workers :
          OwnsRow(job'[w]) => OwnsRow(job[w]) /\ job'[w].cid = job[w].cid
    /\ ~faulty' => \A w \in Workers, i \in Instances :
          Holds(w, i) /\ ctr'[i] # Absent
              => OwnsRow(job'[w]) /\ job'[w].inst = i /\ job'[w].cid = ctr'[i].id

(* The steps of one goroutine that are quiet.                              *)
LEMMA WorkerStep ==
    ASSUME TypeInv, NEW w \in Workers, NEW n \in Job, PcRow(n),
           job' = [job EXCEPT ![w] = n],
           OwnsRow(n) => OwnsRow(job[w]) /\ n.cid = job[w].cid,
           ctr' \in [Instances -> Container],
           \A i \in Instances :
              ctr'[i] # Absent => ctr[i] # Absent /\ ctr'[i].id = ctr[i].id,
           ~faulty' => (\A i \in Instances : Holds(w, i) /\ ctr'[i] # Absent
                           => OwnsRow(n) /\ n.inst = i /\ n.cid = job[w].cid),
           faulty' \in BOOLEAN, faulty => faulty',
           UNCHANGED agentVars
    PROVE  TypeInv' /\ Quiet
<1>1. TypeOK'
  BY DEF TypeInv, TypeOK, agentVars
<1>2. PcType'
  BY DEF TypeInv, PcType, TypeOK
<1>3. \A v \in Workers : job'[v] = IF v = w THEN n ELSE job[v]
  BY DEF TypeInv, TypeOK
<1>4. \A v \in Workers : OwnsRow(job'[v]) => OwnsRow(job[v]) /\ job'[v].cid = job[v].cid
  BY <1>3
<1>5. ~faulty' => \A v \in Workers, i \in Instances :
          Holds(v, i) /\ ctr'[i] # Absent
              => OwnsRow(job'[v]) /\ job'[v].inst = i /\ job'[v].cid = ctr'[i].id
  BY <1>3 DEF Holds, OwnsRow, At
<1> QED
  BY <1>1, <1>2, <1>4, <1>5 DEF TypeInv, Quiet, agentVars

(* A goroutine ends its task: with success only after the health check, or *)
(* when the task is not a start.                                           *)
LEMMA FinishStep ==
    ASSUME TypeInv, NEW w \in Workers, NEW b \in BOOLEAN, job[w].pc # "idle", Finish(w, b),
           b /\ job[w].type = "start" => job[w].pc = "health",
           ctr' \in [Instances -> Container],
           \A i \in Instances :
              ctr'[i] # Absent => ctr[i] # Absent /\ ctr'[i].id = ctr[i].id,
           ~faulty' => (\A i \in Instances : Holds(w, i) /\ ctr'[i] # Absent => b),
           faulty' \in BOOLEAN, faulty => faulty',
           UNCHANGED agentVars
    PROVE  TypeInv' /\ Quiet
<1> DEFINE n == [job[w] EXCEPT !.pc = "report", !.ok = b]
<1>1. job[w] \in ActiveJob
  BY ActiveRow DEF TypeInv, TypeOK
<1>2. n \in Job /\ n.pc = "report" /\ n.type = job[w].type /\ n.inst = job[w].inst
      /\ n.cid = job[w].cid /\ n.ok = b
  BY <1>1, RowFinish
<1>3. job' = [job EXCEPT ![w] = n]
  BY <1>1 DEF Finish, TypeInv, TypeOK
<1> HIDE DEF n
<1>4. PcRow(n)
  BY <1>2 DEF PcRow
<1>5. OwnsRow(n) => OwnsRow(job[w]) /\ n.cid = job[w].cid
  BY <1>2 DEF OwnsRow
<1>6. ~faulty' => \A i \in Instances : Holds(w, i) /\ ctr'[i] # Absent
                    => OwnsRow(n) /\ n.inst = i /\ n.cid = job[w].cid
  BY <1>2 DEF Holds, OwnsRow
<1> QED
  BY <1>2, <1>3, <1>4, <1>5, <1>6, WorkerStep

(* A goroutine goes on to the next call of the same handler.               *)
LEMMA GotoStep ==
    ASSUME TypeInv, NEW w \in Workers, NEW p \in JobPc, Goto(w, p),
           \/ /\ job[w].pc \in {"start", "verify", "health"}
              /\ p \in {"verify", "health", "cleanup"}
           \/ job[w].pc = "stop" /\ p = "remove",
           ctr' \in [Instances -> Container],
           \A i \in Instances :
              ctr'[i] # Absent => ctr[i] # Absent /\ ctr'[i].id = ctr[i].id,
           UNCHANGED <<agentVars, faulty>>
    PROVE  TypeInv' /\ Quiet
<1> DEFINE n == [job[w] EXCEPT !.pc = p]
<1>1. job[w] \in ActiveJob /\ PcRow(job[w])
  BY ActiveRow DEF TypeInv, TypeOK, PcType
<1>2. n \in Job /\ n.pc = p /\ n.type = job[w].type /\ n.inst = job[w].inst
      /\ n.cid = job[w].cid /\ n.ok = job[w].ok
  BY <1>1, RowGoto
<1>3. job' = [job EXCEPT ![w] = n]
  BY <1>1 DEF Goto, TypeInv, TypeOK
<1> HIDE DEF n
<1>4. PcRow(n)
  BY <1>1, <1>2 DEF PcRow
<1>5. OwnsRow(n) <=> OwnsRow(job[w])
  BY <1>1, <1>2 DEF OwnsRow, PcRow
<1>6. \A i \in Instances : Holds(w, i) => OwnsRow(job[w]) /\ job[w].inst = i
  BY DEF Holds, OwnsRow, At
<1>7. faulty' \in BOOLEAN /\ (faulty => faulty') /\ UNCHANGED agentVars
  BY DEF TypeInv, TypeOK
<1> QED
  BY <1>2, <1>3, <1>4, <1>5, <1>6, <1>7, WorkerStep

(* Changing or removing one container gives no name another container.     *)
LEMMA ContainerStep ==
    ASSUME TypeInv, NEW i \in Instances, ctr[i] # Absent, NEW c \in Container,
           c # Absent => c.id = ctr[i].id,
           ctr' = [ctr EXCEPT ![i] = c]
    PROVE  /\ ctr' \in [Instances -> Container]
           /\ \A j \in Instances :
                 ctr'[j] # Absent => ctr[j] # Absent /\ ctr'[j].id = ctr[j].id
  BY DEF TypeInv, TypeOK

(* Neither does leaving them alone.                                        *)
LEMMA SameContainers ==
    ASSUME TypeInv, ctr' = ctr
    PROVE  /\ ctr' \in [Instances -> Container]
           /\ \A j \in Instances :
                 ctr'[j] # Absent => ctr[j] # Absent /\ ctr'[j].id = ctr[j].id
  BY DEF TypeInv, TypeOK

(* A goroutine in a task is about one of the instances.                    *)
LEMMA ActiveFields ==
    ASSUME TypeInv, NEW w \in Workers, job[w].pc # "idle"
    PROVE  job[w] \in ActiveJob /\ job[w].inst \in Instances /\ PcRow(job[w])
<1>1. job[w] \in ActiveJob
  BY ActiveRow DEF TypeInv, TypeOK
<1> QED
  BY <1>1 DEF ActiveJob, TypeInv, PcType

(* Every step is quiet, except the creation of a container and the report  *)
(* of a result; and all steps keep the types.                              *)
LEMMA Steps ==
    ASSUME TypeInv, [Next]_vars
    PROVE  /\ TypeInv'
           /\ \/ Quiet
              \/ \E w \in Workers : ContainerCreate(w)
              \/ \E w \in Workers : ReportTaskResult(w)
<1>1. ASSUME NEW resp \in Responses, SendHeartbeat(resp) PROVE TypeInv' /\ Quiet
  <2>1. resp \in Seq(Brief) /\ responses' \in 0 .. MaxResponses
    BY <1>1, AgentAssumption DEF SendHeartbeat, TypeInv, TypeOK
  <2>2. TypeInv'
    BY <1>1, <2>1 DEF SendHeartbeat, TypeInv, TypeOK, PcType
  <2>3. Quiet
    BY <1>1 DEF SendHeartbeat, Quiet, Holds, OwnsRow, At
  <2> QED
    BY <2>2, <2>3
<1>2. ASSUME NEW w \in Workers, Dispatch(w) PROVE TypeInv' /\ Quiet
  <2> DEFINE b == Head(queue)
             n == [pc |-> FirstCall(b.type), task |-> b.task, type |-> b.type,
                   inst |-> b.inst, cid |-> 0, late |-> FALSE, ok |-> FALSE]
  <2>1. b \in Brief /\ Tail(queue) \in Seq(Brief)
    BY <1>2 DEF Dispatch, TypeInv, TypeOK
  <2>2. /\ n \in Job /\ n.pc \in {"create", "inspect", "logs"}
        /\ PcRow(n) /\ ~OwnsRow(n)
    BY <2>1, RowDispatched DEF PcRow, OwnsRow
  <2>3. job' = [job EXCEPT ![w] = n] /\ job[w] = Idle
    BY <1>2 DEF Dispatch
  <2> HIDE DEF n
  <2>4. TypeInv'
    BY <1>2, <2>1, <2>2, <2>3 DEF Dispatch, TypeInv, TypeOK, PcType
  <2>5. \A v \in Workers : job'[v] = IF v = w THEN n ELSE job[v]
    BY <2>3 DEF TypeInv, TypeOK
  <2>6. ~OwnsRow(job[w]) /\ \A i \in Instances : ~Holds(w, i)
    BY <2>3 DEF Idle, OwnsRow, Holds
  <2>7. \A v \in Workers, i \in Instances :
          Holds(v, i) => OwnsRow(job[v]) /\ job[v].inst = i /\ job[v].cid = ctr[i].id
    BY DEF Holds, OwnsRow, At
  <2>8. UNCHANGED <<ctr, created, results, faulty>>
    BY <1>2 DEF Dispatch
  <2>9. Quiet
    BY <2>2, <2>5, <2>6, <2>7, <2>8 DEF Quiet
  <2> QED
    BY <2>4, <2>9
<1>3. ASSUME NEW w \in Workers, ContainerCreate(w) PROVE TypeInv'
  <2> DEFINE c == created + 1
             n == [job[w] EXCEPT !.pc = "start", !.cid = c]
  <2>1. job[w] \in ActiveJob /\ job[w].inst \in Instances /\ PcRow(job[w])
    BY <1>3, ActiveFields DEF ContainerCreate, At
  <2>2. c \in Ids /\ c \in 0 .. MaxContainers /\ "start" \in JobPc
    BY <1>3, AgentAssumption DEF ContainerCreate, TypeInv, TypeOK, Ids, JobPc
  <2> HIDE DEF c
  <2>3. n \in Job /\ n.pc = "start" /\ n.type = job[w].type
    <3>1. job[w] \in ActiveJob /\ "start" \in JobPc /\ c \in 0 .. MaxContainers
      BY <2>1, <2>2
    <3> QED
      BY <3>1 DEF ActiveJob, Job
  <2> USE DEF c
  <2>4. PcRow(n)
    BY <1>3, <2>1, <2>3 DEF PcRow, ContainerCreate, At
  <2>5. job' = [job EXCEPT ![w] = n]
    BY <1>3, <2>1 DEF ContainerCreate, TypeInv, TypeOK
  <2>6. [st |-> "created", id |-> c] \in Container
    BY <2>2 DEF Container
  <2> HIDE DEF n
  <2>7. job' \in [Workers -> Job] /\ \A v \in Workers : PcRow(job'[v])
    BY <2>3, <2>4, <2>5 DEF TypeInv, TypeOK, PcType
  <2>8. ctr' \in [Instances -> Container]
    BY <1>3, <2>6, <2>1 DEF ContainerCreate, TypeInv, TypeOK
  <2> QED
    BY <1>3, <2>2, <2>7, <2>8 DEF ContainerCreate, TypeInv, TypeOK, PcType
<1>4. ASSUME NEW w \in Workers, ContainerCreateFails(w) PROVE TypeInv' /\ Quiet
  <2>1. job[w].pc # "idle" /\ PcRow(job[w]) /\ Finish(w, FALSE) /\ ctr' = ctr /\ UNCHANGED agentVars
    BY <1>4, ActiveFields DEF ContainerCreateFails, At
  <2>2. FALSE /\ job[w].type = "start" => job[w].pc = "health"
    BY <1>4, <2>1 DEF ContainerCreateFails, At, PcRow
  <2>3. ~faulty' => (\A i \in Instances : Holds(w, i) /\ ctr'[i] # Absent => FALSE)
    BY <1>4 DEF ContainerCreateFails, At, Holds
  <2>4. faulty' \in BOOLEAN /\ (faulty => faulty')
    BY <1>4 DEF ContainerCreateFails, TypeInv, TypeOK
  <2> QED
    BY <2>1, <2>2, <2>3, <2>4, SameContainers, FinishStep
<1>5. ASSUME NEW w \in Workers, ContainerStart(w) PROVE TypeInv' /\ Quiet
  <2>1. "verify" \in JobPc /\ Goto(w, "verify") /\ UNCHANGED <<agentVars, faulty>>
    BY <1>5 DEF ContainerStart, JobPc
  <2>2. /\ ctr' \in [Instances -> Container]
        /\ \A i \in Instances :
              ctr'[i] # Absent => ctr[i] # Absent /\ ctr'[i].id = ctr[i].id
    <3> DEFINE i == job[w].inst
               st == "running"
               c == [ctr[i] EXCEPT !.st = st]
    <3>1. i \in Instances /\ ctr[i] # Absent /\ ctr[i] \in Container
      BY <1>5, ActiveFields DEF ContainerStart, At, Mine, TypeInv, TypeOK
    <3>2. st \in {"created", "running", "exited"}
      BY <3>1 DEF Container, Absent
    <3>3. c \in Container /\ c.id = ctr[i].id
      BY <3>1, <3>2, RowContainer
    <3>4. ctr' = [ctr EXCEPT ![i] = c]
      BY <1>5, <3>1 DEF ContainerStart, TypeInv, TypeOK
    <3> HIDE DEF c
    <3> QED
      BY <3>1, <3>3, <3>4, ContainerStep
  <2>3. \/ /\ job[w].pc \in {"start", "verify", "health"}
           /\ "verify" \in {"verify", "health", "cleanup"}
        \/ job[w].pc = "stop" /\ "verify" = "remove"
    BY <1>5 DEF ContainerStart, At
  <2> QED
    BY <2>1, <2>2, <2>3, GotoStep
<1>6. ASSUME NEW w \in Workers, ContainerStartFails(w) PROVE TypeInv' /\ Quiet
  <2>1. "cleanup" \in JobPc /\ Goto(w, "cleanup") /\ UNCHANGED <<agentVars, faulty>>
    BY <1>6 DEF ContainerStartFails, JobPc
  <2>2. /\ ctr' \in [Instances -> Container]
        /\ \A i \in Instances :
              ctr'[i] # Absent => ctr[i] # Absent /\ ctr'[i].id = ctr[i].id
    BY <1>6, SameContainers DEF ContainerStartFails
  <2>3. \/ /\ job[w].pc \in {"start", "verify", "health"}
           /\ "cleanup" \in {"verify", "health", "cleanup"}
        \/ job[w].pc = "stop" /\ "cleanup" = "remove"
    BY <1>6 DEF ContainerStartFails, At
  <2> QED
    BY <2>1, <2>2, <2>3, GotoStep
<1>7. ASSUME NEW w \in Workers, VerifyPasses(w) PROVE TypeInv' /\ Quiet
  <2>1. "health" \in JobPc /\ Goto(w, "health") /\ UNCHANGED <<agentVars, faulty>>
    BY <1>7 DEF VerifyPasses, JobPc
  <2>2. /\ ctr' \in [Instances -> Container]
        /\ \A i \in Instances :
              ctr'[i] # Absent => ctr[i] # Absent /\ ctr'[i].id = ctr[i].id
    BY <1>7, SameContainers DEF VerifyPasses
  <2>3. \/ /\ job[w].pc \in {"start", "verify", "health"}
           /\ "health" \in {"verify", "health", "cleanup"}
        \/ job[w].pc = "stop" /\ "health" = "remove"
    BY <1>7 DEF VerifyPasses, At
  <2> QED
    BY <2>1, <2>2, <2>3, GotoStep
<1>8. ASSUME NEW w \in Workers, VerifyFails(w) PROVE TypeInv' /\ Quiet
  <2>1. "cleanup" \in JobPc /\ Goto(w, "cleanup") /\ UNCHANGED <<agentVars, faulty>>
    BY <1>8 DEF VerifyFails, JobPc
  <2>2. /\ ctr' \in [Instances -> Container]
        /\ \A i \in Instances :
              ctr'[i] # Absent => ctr[i] # Absent /\ ctr'[i].id = ctr[i].id
    BY <1>8, SameContainers DEF VerifyFails
  <2>3. \/ /\ job[w].pc \in {"start", "verify", "health"}
           /\ "cleanup" \in {"verify", "health", "cleanup"}
        \/ job[w].pc = "stop" /\ "cleanup" = "remove"
    BY <1>8 DEF VerifyFails, At
  <2> QED
    BY <2>1, <2>2, <2>3, GotoStep
<1>9. ASSUME NEW w \in Workers, HealthPasses(w) PROVE TypeInv' /\ Quiet
  <2>1. job[w].pc # "idle" /\ PcRow(job[w]) /\ Finish(w, TRUE) /\ ctr' = ctr /\ UNCHANGED agentVars
    BY <1>9, ActiveFields DEF HealthPasses, At
  <2>2. TRUE /\ job[w].type = "start" => job[w].pc = "health"
    BY <1>9, <2>1 DEF HealthPasses, At, PcRow
  <2>3. ~faulty' => (\A i \in Instances : Holds(w, i) /\ ctr'[i] # Absent => TRUE)
    BY <1>9 DEF HealthPasses, At, Holds
  <2>4. faulty' \in BOOLEAN /\ (faulty => faulty')
    BY <1>9 DEF HealthPasses, TypeInv, TypeOK
  <2> QED
    BY <2>1, <2>2, <2>3, <2>4, SameContainers, FinishStep
<1>10. ASSUME NEW w \in Workers, HealthFails(w) PROVE TypeInv' /\ Quiet
  <2>1. "cleanup" \in JobPc /\ Goto(w, "cleanup") /\ UNCHANGED <<agentVars, faulty>>
    BY <1>10 DEF HealthFails, JobPc
  <2>2. /\ ctr' \in [Instances -> Container]
        /\ \A i \in Instances :
              ctr'[i] # Absent => ctr[i] # Absent /\ ctr'[i].id = ctr[i].id
    BY <1>10, SameContainers DEF HealthFails
  <2>3. \/ /\ job[w].pc \in {"start", "verify", "health"}
           /\ "cleanup" \in {"verify", "health", "cleanup"}
        \/ job[w].pc = "stop" /\ "cleanup" = "remove"
    BY <1>10 DEF HealthFails, At
  <2> QED
    BY <2>1, <2>2, <2>3, GotoStep
<1>11. ASSUME NEW w \in Workers, Cleanup(w) PROVE TypeInv' /\ Quiet
  <2>1. job[w].pc # "idle" /\ job[w].inst \in Instances /\ PcRow(job[w])
        /\ Finish(w, FALSE) /\ UNCHANGED <<agentVars, faulty>>
    BY <1>11, ActiveFields DEF Cleanup, At
  <2>2. Absent \in Container
    BY DEF Container
  <2>3. /\ ctr' \in [Instances -> Container]
        /\ \A i \in Instances :
              ctr'[i] # Absent => ctr[i] # Absent /\ ctr'[i].id = ctr[i].id
    BY <1>11, <2>1, <2>2, SameContainers, ContainerStep DEF Cleanup, Mine
  <2>4. FALSE /\ job[w].type = "start" => job[w].pc = "health"
    BY <1>11, <2>1 DEF Cleanup, At, PcRow
  <2>5. \A i \in Instances : Holds(w, i) /\ ctr'[i] # Absent => FALSE
    BY <1>11, <2>1 DEF Cleanup, Holds, Mine, At, TypeInv, TypeOK
  <2>6. faulty' \in BOOLEAN /\ (faulty => faulty') /\ UNCHANGED agentVars
    BY <2>1 DEF TypeInv, TypeOK
  <2> QED
    BY <2>1, <2>3, <2>4, <2>5, <2>6, FinishStep
<1>12. ASSUME NEW w \in Workers, CleanupFails(w) PROVE TypeInv' /\ Quiet
  <2>1. job[w].pc # "idle" /\ PcRow(job[w]) /\ Finish(w, FALSE) /\ ctr' = ctr /\ UNCHANGED agentVars
    BY <1>12, ActiveFields DEF CleanupFails, At
  <2>2. FALSE /\ job[w].type = "start" => job[w].pc = "health"
    BY <1>12, <2>1 DEF CleanupFails, At, PcRow
  <2>3. ~faulty' => (\A i \in Instances : Holds(w, i) /\ ctr'[i] # Absent => FALSE)
    BY <1>12 DEF CleanupFails, At, Holds
  <2>4. faulty' \in BOOLEAN /\ (faulty => faulty')
    BY <1>12 DEF CleanupFails, TypeInv, TypeOK
  <2> QED
    BY <2>1, <2>2, <2>3, <2>4, SameContainers, FinishStep
<1>13. ASSUME NEW w \in Workers, StopInspect(w) PROVE TypeInv' /\ Quiet
  <2> DEFINE c == ctr[job[w].inst].id
             n == [job[w] EXCEPT !.pc = "stop", !.cid = c]
  <2>1. job[w] \in ActiveJob /\ job[w].inst \in Instances /\ PcRow(job[w]) /\ job[w].pc = "inspect"
    BY <1>13, ActiveFields DEF StopInspect, At
  <2>2. c \in 0 .. MaxContainers /\ "stop" \in JobPc
    BY <1>13, <2>1, AgentAssumption DEF StopInspect, TypeInv, TypeOK, Container, Absent, Ids, JobPc
  <2> HIDE DEF c
  <2>3. n \in Job /\ n.pc = "stop" /\ n.type = job[w].type
    BY <2>1, <2>2, RowCid
  <2> USE DEF c
  <2>4. job' = [job EXCEPT ![w] = n]
    BY <1>13, <2>1 DEF StopInspect, TypeInv, TypeOK
  <2> HIDE DEF n
  <2>5. PcRow(n) /\ ~OwnsRow(n) /\ \A i \in Instances : ~Holds(w, i)
    BY <2>1, <2>3 DEF PcRow, OwnsRow, Holds, At
  <2>6. faulty' \in BOOLEAN /\ (faulty => faulty') /\ UNCHANGED agentVars /\ ctr' = ctr
    BY <1>13 DEF StopInspect, TypeInv, TypeOK
  <2> QED
    BY <2>3, <2>4, <2>5, <2>6, SameContainers, WorkerStep
<1>14. ASSUME NEW w \in Workers, StopMissing(w) PROVE TypeInv' /\ Quiet
  <2>1. job[w].pc # "idle" /\ PcRow(job[w]) /\ Finish(w, TRUE) /\ ctr' = ctr /\ UNCHANGED agentVars
    BY <1>14, ActiveFields DEF StopMissing, At
  <2>2. TRUE /\ job[w].type = "start" => job[w].pc = "health"
    BY <1>14, <2>1 DEF StopMissing, At, PcRow
  <2>3. ~faulty' => (\A i \in Instances : Holds(w, i) /\ ctr'[i] # Absent => TRUE)
    BY <1>14 DEF StopMissing, At, Holds
  <2>4. faulty' \in BOOLEAN /\ (faulty => faulty')
    BY <1>14 DEF StopMissing, TypeInv, TypeOK
  <2> QED
    BY <2>1, <2>2, <2>3, <2>4, SameContainers, FinishStep
<1>15. ASSUME NEW w \in Workers, StopInspectError(w) PROVE TypeInv' /\ Quiet
  <2>1. job[w].pc # "idle" /\ PcRow(job[w]) /\ Finish(w, TRUE) /\ ctr' = ctr /\ UNCHANGED agentVars
    BY <1>15, ActiveFields DEF StopInspectError, At
  <2>2. TRUE /\ job[w].type = "start" => job[w].pc = "health"
    BY <1>15, <2>1 DEF StopInspectError, At, PcRow
  <2>3. ~faulty' => (\A i \in Instances : Holds(w, i) /\ ctr'[i] # Absent => TRUE)
    BY <1>15 DEF StopInspectError, At, Holds
  <2>4. faulty' \in BOOLEAN /\ (faulty => faulty')
    BY <1>15 DEF StopInspectError, TypeInv, TypeOK
  <2> QED
    BY <2>1, <2>2, <2>3, <2>4, SameContainers, FinishStep
<1>16. ASSUME NEW w \in Workers, ContainerStop(w) PROVE TypeInv' /\ Quiet
  <2>1. "remove" \in JobPc /\ Goto(w, "remove") /\ UNCHANGED <<agentVars, faulty>>
    BY <1>16 DEF ContainerStop, JobPc
  <2>2. /\ ctr' \in [Instances -> Container]
        /\ \A i \in Instances :
              ctr'[i] # Absent => ctr[i] # Absent /\ ctr'[i].id = ctr[i].id
    <3> DEFINE i == job[w].inst
               st == IF ctr[i].st = "running" THEN "exited" ELSE ctr[i].st
               c == [ctr[i] EXCEPT !.st = st]
    <3>1. i \in Instances /\ ctr[i] # Absent /\ ctr[i] \in Container
      BY <1>16, ActiveFields DEF ContainerStop, At, Mine, TypeInv, TypeOK
    <3>2. st \in {"created", "running", "exited"}
      BY <3>1 DEF Container, Absent
    <3>3. c \in Container /\ c.id = ctr[i].id
      BY <3>1, <3>2, RowContainer
    <3>4. ctr' = [ctr EXCEPT ![i] = c]
      BY <1>16, <3>1 DEF ContainerStop, TypeInv, TypeOK
    <3> HIDE DEF c
    <3> QED
      BY <3>1, <3>3, <3>4, ContainerStep
  <2>3. \/ /\ job[w].pc \in {"start", "verify", "health"}
           /\ "remove" \in {"verify", "health", "cleanup"}
        \/ job[w].pc = "stop" /\ "remove" = "remove"
    BY <1>16 DEF ContainerStop, At
  <2> QED
    BY <2>1, <2>2, <2>3, GotoStep
<1>17. ASSUME NEW w \in Workers, ContainerRemove(w) PROVE TypeInv' /\ Quiet
  <2>1. job[w].pc # "idle" /\ job[w].inst \in Instances /\ PcRow(job[w])
        /\ Finish(w, TRUE) /\ UNCHANGED <<agentVars, faulty>>
    BY <1>17, ActiveFields DEF ContainerRemove, At
  <2>2. Absent \in Container
    BY DEF Container
  <2>3. /\ ctr' \in [Instances -> Container]
        /\ \A i \in Instances :
              ctr'[i] # Absent => ctr[i] # Absent /\ ctr'[i].id = ctr[i].id
    BY <1>17, <2>1, <2>2, SameContainers, ContainerStep DEF ContainerRemove, Mine
  <2>4. TRUE /\ job[w].type = "start" => job[w].pc = "health"
    BY <1>17, <2>1 DEF ContainerRemove, At, PcRow
  <2>5. \A i \in Instances : Holds(w, i) /\ ctr'[i] # Absent => TRUE
    BY <1>17, <2>1 DEF ContainerRemove, Holds, Mine, At, TypeInv, TypeOK
  <2>6. faulty' \in BOOLEAN /\ (faulty => faulty') /\ UNCHANGED agentVars
    BY <2>1 DEF TypeInv, TypeOK
  <2> QED
    BY <2>1, <2>3, <2>4, <2>5, <2>6, FinishStep
<1>18. ASSUME NEW w \in Workers, StopFails(w) PROVE TypeInv' /\ Quiet
  <2>1. job[w].pc # "idle" /\ PcRow(job[w]) /\ Finish(w, FALSE) /\ ctr' = ctr /\ UNCHANGED agentVars
    BY <1>18, ActiveFields DEF StopFails, At
  <2>2. FALSE /\ job[w].type = "start" => job[w].pc = "health"
    BY <1>18, <2>1 DEF StopFails, At, PcRow
  <2>3. ~faulty' => (\A i \in Instances : Holds(w, i) /\ ctr'[i] # Absent => FALSE)
    BY <1>18 DEF StopFails, At, Holds
  <2>4. faulty' \in BOOLEAN /\ (faulty => faulty')
    BY <1>18 DEF StopFails, TypeInv, TypeOK
  <2> QED
    BY <2>1, <2>2, <2>3, <2>4, SameContainers, FinishStep
<1>19. ASSUME NEW w \in Workers, NEW ok \in BOOLEAN, processLogsTask(w, ok) PROVE TypeInv' /\ Quiet
  <2>1. job[w].pc # "idle" /\ PcRow(job[w]) /\ Finish(w, ok) /\ ctr' = ctr /\ UNCHANGED agentVars
    BY <1>19, ActiveFields DEF processLogsTask, At
  <2>2. ok /\ job[w].type = "start" => job[w].pc = "health"
    BY <1>19, <2>1 DEF processLogsTask, At, PcRow
  <2>3. ~faulty' => (\A i \in Instances : Holds(w, i) /\ ctr'[i] # Absent => ok)
    BY <1>19 DEF processLogsTask, At, Holds
  <2>4. faulty' \in BOOLEAN /\ (faulty => faulty')
    BY <1>19 DEF processLogsTask, TypeInv, TypeOK
  <2> QED
    BY <2>1, <2>2, <2>3, <2>4, SameContainers, FinishStep
<1>20. ASSUME NEW w \in Workers, ReportTaskResult(w) PROVE TypeInv'
  <2>1. job[w] \in ActiveJob
    BY <1>20, ActiveFields DEF ReportTaskResult, At
  <2>2. [task |-> job[w].task, type |-> job[w].type, ok |-> job[w].ok, cid |-> job[w].cid]
          \in TaskResult
    BY <2>1 DEF ActiveJob, TaskResult
  <2>3. Idle \in Job /\ PcRow(Idle)
    BY DEF Job, PcRow, Idle
  <2>4. job' \in [Workers -> Job] /\ PcType'
    BY <1>20, <2>3 DEF ReportTaskResult, TypeInv, TypeOK, PcType
  <2> QED
    BY <1>20, <2>2, <2>4 DEF ReportTaskResult, TypeInv, TypeOK
<1>21. ASSUME NEW w \in Workers, ReportLost(w) PROVE TypeInv' /\ Quiet
  <2>1. Idle \in Job /\ PcRow(Idle) /\ ~OwnsRow(Idle)
    BY DEF Job, PcRow, Idle, OwnsRow
  <2>2. job' = [job EXCEPT ![w] = Idle] /\ faulty' = TRUE /\ ctr' = ctr /\ UNCHANGED agentVars
    BY <1>21 DEF ReportLost, agentVars
  <2> QED
    BY <2>1, <2>2, SameContainers, WorkerStep
<1>22. ASSUME NEW w \in Workers, ContextDone(w) PROVE TypeInv' /\ Quiet
  <2> DEFINE n == [job[w] EXCEPT !.late = TRUE]
  <2>1. job[w] \in ActiveJob /\ PcRow(job[w])
    BY <1>22 DEF ContextDone, TypeInv, TypeOK, PcType, Job, ActiveJob
  <2>2. n \in Job /\ n.pc = job[w].pc /\ n.type = job[w].type /\ n.inst = job[w].inst
        /\ n.cid = job[w].cid /\ n.ok = job[w].ok
    BY <2>1, RowLate
  <2>3. job' = [job EXCEPT ![w] = n]
    BY <1>22, <2>1 DEF ContextDone, TypeInv, TypeOK
  <2> HIDE DEF n
  <2>4. PcRow(n) /\ (OwnsRow(n) <=> OwnsRow(job[w]))
    BY <2>1, <2>2 DEF PcRow, OwnsRow
  <2>5. \A i \in Instances : Holds(w, i) => OwnsRow(job[w]) /\ job[w].inst = i
    BY DEF Holds, OwnsRow, At
  <2>6. faulty' \in BOOLEAN /\ (faulty => faulty') /\ UNCHANGED agentVars /\ ctr' = ctr
    BY <1>22 DEF ContextDone, TypeInv, TypeOK
  <2> QED
    BY <2>2, <2>3, <2>4, <2>5, <2>6, SameContainers, WorkerStep
<1>23. ASSUME NEW i \in Instances, ContainerExits(i) PROVE TypeInv' /\ Quiet
  <2> DEFINE c == [ctr[i] EXCEPT !.st = "exited"]
  <2>1. ctr[i] \in Container /\ ctr[i] # Absent
    BY <1>23 DEF ContainerExits, TypeInv, TypeOK, Absent
  <2>2. c \in Container /\ c.id = ctr[i].id
    BY <2>1, RowContainer
  <2>3. ctr' = [ctr EXCEPT ![i] = c]
    BY <1>23, <2>1 DEF ContainerExits, TypeInv, TypeOK
  <2> HIDE DEF c
  <2>4. /\ ctr' \in [Instances -> Container]
        /\ \A j \in Instances :
              ctr'[j] # Absent => ctr[j] # Absent /\ ctr'[j].id = ctr[j].id
    BY <2>1, <2>2, <2>3, ContainerStep
  <2>5. TypeInv'
    BY <1>23, <2>4 DEF ContainerExits, TypeInv, TypeOK, PcType, agentVars
  <2>6. \A v \in Workers, j \in Instances :
          Holds(v, j) => OwnsRow(job[v]) /\ job[v].inst = j /\ job[v].cid = ctr[j].id
    BY DEF Holds, OwnsRow, At
  <2>7. Quiet
    BY <1>23, <2>4, <2>6 DEF ContainerExits, Quiet, agentVars
  <2> QED
    BY <2>5, <2>7
<1>24. CASE AgentRestart
  <2>1. Idle \in Job /\ PcRow(Idle) /\ ~OwnsRow(Idle)
    BY DEF Job, PcRow, Idle, OwnsRow
  <2>2. job' \in [Workers -> Job] /\ PcType'
    BY <1>24, <2>1 DEF AgentRestart, PcType
  <2>3. TypeInv'
    BY <1>24, <2>2 DEF AgentRestart, TypeInv, TypeOK
  <2>4. Quiet
    BY <1>24, <2>1 DEF AgentRestart, Quiet
  <2> QED
    BY <2>3, <2>4
<1>25. CASE UNCHANGED vars
  <2>1. TypeInv'
    BY <1>25 DEF vars, TypeInv, TypeOK, PcType
  <2>2. Quiet
    BY <1>25 DEF vars, Quiet, Holds, OwnsRow, At
  <2> QED
    BY <2>1, <2>2
<1> QED
  BY <1>1, <1>2, <1>3, <1>4, <1>5, <1>6, <1>7, <1>8, <1>9, <1>10, <1>11, <1>12,
     <1>13, <1>14, <1>15, <1>16, <1>17, <1>18, <1>19, <1>20, <1>21, <1>22, <1>23,
     <1>24, <1>25
     DEF Next, processTask, StartStep, StopStep

(* An agent that has just started is well typed.                           *)
LEMMA InitTypeInv == Init => TypeInv
<1> SUFFICES ASSUME Init PROVE TypeInv
  OBVIOUS
<1>1. Idle \in Job /\ PcRow(Idle) /\ Absent \in Container
  BY DEF Job, Idle, PcRow, Container
<1>2. queue \in Seq(Brief)
  BY DEF Init
<1>3. created \in 0 .. MaxContainers /\ responses \in 0 .. MaxResponses
  BY AgentAssumption DEF Init
<1> QED
  BY <1>1, <1>2, <1>3 DEF Init, TypeInv, TypeOK, PcType

(* The types are inductive together with PcType.                           *)
LEMMA TypeInductive == Spec => []TypeInv
<1>1. Init => TypeInv
  BY InitTypeInv
<1>2. TypeInv /\ [Next]_vars => TypeInv'
  BY Steps
<1> QED
  BY <1>1, <1>2, PTL DEF Spec

(* Every goroutine of processTask is at a call of its handler, every slot  *)
(* that was given back is idle, and containers have ids that were created. *)
THEOREM TypeCorrect == Spec => []TypeOK
<1>1. TypeInv => TypeOK
  BY DEF TypeInv
<1> QED
  BY <1>1, TypeInductive, PTL

-----------------------------------------------------------------------------
(* Who holds a container.                                                  *)

(* Holds says that the goroutine owns the container it knows by id.        *)
LEMMA HoldsOwns ==
    ASSUME NEW w \in Workers, NEW i \in Instances
    PROVE  Holds(w, i) <=> OwnsRow(job[w]) /\ job[w].inst = i /\ job[w].cid = ctr[i].id
  BY DEF Holds, OwnsRow, At

(* A quiet step keeps every container accounted for.                       *)
LEMMA QuietAccounted == ContainerAccounted /\ Quiet => ContainerAccounted'
<1> SUFFICES ASSUME ContainerAccounted, Quiet, ~faulty',
                    NEW i \in Instances, ctr'[i] # Absent
             PROVE  (\E w \in Workers : Holds(w, i)') \/ ReportedStarted(ctr[i].id)'
  BY DEF ContainerAccounted
<1>1. ctr[i] # Absent /\ ctr'[i].id = ctr[i].id /\ ~faulty /\ results' = results
  BY DEF Quiet
<1>2. CASE ReportedStarted(ctr[i].id)
  BY <1>1, <1>2 DEF ReportedStarted
<1>3. CASE \E w \in Workers : Holds(w, i)
  <2>1. PICK w \in Workers : Holds(w, i)
    BY <1>3
  <2>2. OwnsRow(job'[w]) /\ job'[w].inst = i /\ job'[w].cid = ctr'[i].id
    BY <2>1 DEF Quiet
  <2>3. Holds(w, i)'
    BY <2>2 DEF Holds, OwnsRow, At
  <2> QED
    BY <2>3
<1> QED
  BY <1>1, <1>2, <1>3 DEF ContainerAccounted

(* So does the creation of a container: the start that made it holds it.   *)
LEMMA CreateAccounted ==
    ASSUME TypeInv, ContainerAccounted, NEW w \in Workers, ContainerCreate(w)
    PROVE  ContainerAccounted'
<1> SUFFICES ASSUME ~faulty', NEW i \in Instances, ctr'[i] # Absent
             PROVE  (\E v \in Workers : Holds(v, i)') \/ ReportedStarted(ctr[i].id)'
  BY DEF ContainerAccounted
<1>1. job[w] \in ActiveJob /\ job[w].inst \in Instances /\ PcRow(job[w])
  BY ActiveFields DEF ContainerCreate, At
<1>2. /\ job'[w].pc = "start" /\ job'[w].cid = created + 1
      /\ job'[w].type = "start" /\ job'[w].inst = job[w].inst
      /\ \A v \in Workers \ {w} : job'[v] = job[v]
  BY <1>1 DEF ContainerCreate, ActiveJob, PcRow, At, TypeInv, TypeOK
<1>3. CASE i = job[w].inst
  <2>1. ctr'[i].id = created + 1
    BY <1>3 DEF ContainerCreate, TypeInv, TypeOK
  <2>2. Holds(w, i)'
    BY <1>2, <1>3, <2>1 DEF Holds, At
  <2> QED
    BY <2>2
<1>4. CASE i # job[w].inst
  <2>1. ctr'[i] = ctr[i] /\ ~faulty /\ results' = results
    BY <1>4 DEF ContainerCreate, TypeInv, TypeOK
  <2>2. \A v \in Workers : Holds(v, i) => v # w
    BY <1>4 DEF Holds
  <2>3. \A v \in Workers : Holds(v, i) => Holds(v, i)'
    BY <1>2, <2>1, <2>2 DEF Holds, At
  <2> QED
    BY <2>1, <2>3 DEF ContainerAccounted, ReportedStarted
<1> QED
  BY <1>3, <1>4

(* And a report: what its start held is now known to the server.           *)
LEMMA ReportAccounted ==
    ASSUME TypeInv, ContainerAccounted, NEW w \in Workers, ReportTaskResult(w)
    PROVE  ContainerAccounted'
<1> SUFFICES ASSUME ~faulty', NEW i \in Instances, ctr'[i] # Absent
             PROVE  (\E v \in Workers : Holds(v, i)') \/ ReportedStarted(ctr[i].id)'
  BY DEF ContainerAccounted
<1> DEFINE m == [task |-> job[w].task, type |-> job[w].type,
                 ok |-> job[w].ok, cid |-> job[w].cid]
<1>1. /\ ctr' = ctr /\ ~faulty /\ m \in results' /\ results \subseteq results'
      /\ \A v \in Workers \ {w} : job'[v] = job[v]
  BY DEF ReportTaskResult, TypeInv, TypeOK
<1>2. CASE ReportedStarted(ctr[i].id)
  BY <1>1, <1>2 DEF ReportedStarted
<1>3. CASE Holds(w, i)
  <2>1. m.type = "start" /\ m.ok /\ m.cid = ctr[i].id
    BY <1>3 DEF Holds, ReportTaskResult, At
  <2> QED
    BY <1>1, <2>1 DEF ReportedStarted
<1>4. CASE \E v \in Workers \ {w} : Holds(v, i)
  BY <1>1, <1>4 DEF Holds, At
<1> QED
  BY <1>1, <1>2, <1>3, <1>4 DEF ContainerAccounted

(* No error path of DockerRuntimeDriver.Start leaks a container: without a *)
(* crash, a lost report or a failed removal, each one is held by a start   *)
(* task or was reported.                                                   *)
THEOREM NoContainerLeak == Spec => []ContainerAccounted
<1>1. Init => ContainerAccounted
  BY DEF Init, ContainerAccounted
<1>2. TypeInv /\ ContainerAccounted /\ [Next]_vars => ContainerAccounted'
  BY Steps, QuietAccounted, CreateAccounted, ReportAccounted
<1> QED
  BY <1>1, <1>2, TypeInductive, PTL DEF Spec

-----------------------------------------------------------------------------
(* A container is owned by one start until that start reports it.          *)

OwnedIsCreated == \A w \in Workers : OwnsRow(job[w]) => job[w].cid \in 1 .. created

ReportedIsCreated == \A m \in results : m.type = "start" /\ m.ok => m.cid \in 1 .. created

OwnersDiffer ==
    \A v, w \in Workers : OwnsRow(job[v]) /\ OwnsRow(job[w]) /\ job[v].cid = job[w].cid
        => v = w

OwnedNotReported == \A w \in Workers : OwnsRow(job[w]) => ~ReportedStarted(job[w].cid)

OwnerInv == OwnedIsCreated /\ ReportedIsCreated /\ OwnersDiffer /\ OwnedNotReported

(* A quiet step makes no owner and no result.                              *)
LEMMA QuietOwner == OwnerInv /\ Quiet => OwnerInv'
  BY DEF OwnerInv, OwnedIsCreated, ReportedIsCreated, OwnersDiffer, OwnedNotReported,
         ReportedStarted, Quiet

(* A new container has an id that nobody knows.                            *)
LEMMA CreateOwner ==
    ASSUME TypeInv, OwnerInv, NEW w \in Workers, ContainerCreate(w)
    PROVE  OwnerInv'
<1>1. job[w] \in ActiveJob
  BY ActiveFields DEF ContainerCreate, At
<1>2. /\ job'[w].cid = created + 1 /\ created' = created + 1 /\ results' = results
      /\ \A v \in Workers \ {w} : job'[v] = job[v]
  BY <1>1 DEF ContainerCreate, ActiveJob, TypeInv, TypeOK
<1>3. created \in Nat
  BY AgentAssumption DEF TypeInv, TypeOK
<1>4. OwnedIsCreated' /\ ReportedIsCreated'
  BY <1>2, <1>3 DEF OwnerInv, OwnedIsCreated, ReportedIsCreated
<1>5. OwnersDiffer'
  BY <1>2, <1>3 DEF OwnerInv, OwnedIsCreated, OwnersDiffer
<1>6. OwnedNotReported'
  BY <1>2, <1>3 DEF OwnerInv, OwnedNotReported, ReportedIsCreated, ReportedStarted
<1> QED
  BY <1>4, <1>5, <1>6 DEF OwnerInv

(* A goroutine that reports a container no longer owns it, and no other    *)
(* one did.                                                                *)
LEMMA ReportOwner ==
    ASSUME TypeInv, OwnerInv, NEW w \in Workers, ReportTaskResult(w)
    PROVE  OwnerInv'
<1> DEFINE m == [task |-> job[w].task, type |-> job[w].type,
                 ok |-> job[w].ok, cid |-> job[w].cid]
<1>1. /\ results' = results \cup {m} /\ created' = created
      /\ job'[w] = Idle /\ \A v \in Workers \ {w} : job'[v] = job[v]
  BY DEF ReportTaskResult, TypeInv, TypeOK
<1>2. ~OwnsRow(Idle)
  BY DEF OwnsRow, Idle
<1>3. m.type = "start" /\ m.ok => OwnsRow(job[w])
  BY DEF ReportTaskResult, At, OwnsRow
<1>4. m.cid = job[w].cid
  OBVIOUS
<1> HIDE DEF m
<1>5. OwnedIsCreated' /\ ReportedIsCreated'
  BY <1>1, <1>2, <1>3, <1>4 DEF OwnerInv, OwnedIsCreated, ReportedIsCreated
<1>6. OwnersDiffer'
  BY <1>1, <1>2 DEF OwnerInv, OwnersDiffer
<1>7. OwnedNotReported'
  BY <1>1, <1>2, <1>3, <1>4 DEF OwnerInv, OwnedNotReported, OwnersDiffer, ReportedStarted
<1> QED
  BY <1>5, <1>6, <1>7 DEF OwnerInv

(* The owners are inductive.                                               *)
LEMMA OwnerInductive == Spec => []OwnerInv
<1>1. Init => OwnerInv
  BY DEF Init, OwnerInv, OwnedIsCreated, ReportedIsCreated, OwnersDiffer, OwnedNotReported,
         OwnsRow, Idle
<1>2. TypeInv /\ OwnerInv /\ [Next]_vars => OwnerInv'
  BY Steps, QuietOwner, CreateOwner, ReportOwner
<1> QED
  BY <1>1, <1>2, TypeInductive, PTL DEF Spec

(* Only two calls remove a container.                                      *)
LEMMA Removers ==
    ASSUME TypeInv, Next, NEW i \in Instances, ctr[i] # Absent, ctr'[i] = Absent
    PROVE  \E w \in Workers : /\ Cleanup(w) \/ ContainerRemove(w)
                              /\ job[w].inst = i /\ Mine(w)
<1>1. ctr'[i] # ctr[i]
  OBVIOUS
<1>2. ASSUME NEW w \in Workers, ContainerCreate(w) PROVE FALSE
  BY <1>2 DEF ContainerCreate, Absent, TypeInv, TypeOK
<1>3. ASSUME NEW w \in Workers, ContainerStart(w) \/ ContainerStop(w) PROVE FALSE
  <2>1. ctr'[i].id = ctr[i].id
    BY <1>3 DEF ContainerStart, ContainerStop, TypeInv, TypeOK, Container, Absent
  <2>2. ctr[i].id # 0
    BY AgentAssumption DEF TypeInv, TypeOK, Container, Ids
  <2> QED
    BY <2>1, <2>2 DEF Absent
<1>4. ASSUME NEW j \in Instances, ContainerExits(j) PROVE FALSE
  <2>1. ctr'[i].id = ctr[i].id
    BY <1>4 DEF ContainerExits, TypeInv, TypeOK, Container, Absent
  <2>2. ctr[i].id # 0
    BY AgentAssumption DEF TypeInv, TypeOK, Container, Ids
  <2> QED
    BY <2>1, <2>2 DEF Absent
<1>5. ASSUME NEW w \in Workers, Cleanup(w) \/ ContainerRemove(w)
      PROVE  job[w].inst = i /\ Mine(w)
  BY <1>1, <1>5 DEF Cleanup, ContainerRemove, TypeInv, TypeOK
<1>6. (\E w \in Workers : Cleanup(w) \/ ContainerRemove(w)) \/ ctr' = ctr
  BY <1>2, <1>3, <1>4
     DEF Next, processTask, StartStep, StopStep, SendHeartbeat, Dispatch, ContainerCreateFails,
         ContainerStartFails, VerifyPasses, VerifyFails, HealthPasses, HealthFails,
         CleanupFails, StopInspect, StopMissing, StopInspectError, StopFails,
         processLogsTask, ReportTaskResult, ReportLost, ContextDone, AgentRestart
<1> QED
  BY <1>1, <1>5, <1>6

(* A container whose start was reported is removed by a stop task only:    *)
(* the deferred ContainerRemove of a failed start never hits it, however   *)
(* often the task was delivered.                                           *)
THEOREM ReportedContainerIsSpared == Spec => CleanupSparesReported
<1>1. ASSUME TypeInv, OwnerInv, [Next]_vars, NEW i \in Instances,
             ctr[i] # Absent, ctr'[i] = Absent, ReportedStarted(ctr[i].id)
      PROVE  \E w \in Workers : /\ job[w].type = "stop"
                                /\ At(w, "remove")
                                /\ job[w].cid = ctr[i].id
  <2>1. Next
    BY <1>1 DEF vars
  <2>2. PICK w \in Workers : /\ Cleanup(w) \/ ContainerRemove(w)
                             /\ job[w].inst = i /\ Mine(w)
    BY <1>1, <2>1, Removers
  <2>3. job[w].cid = ctr[i].id /\ PcRow(job[w])
    BY <1>1, <2>2 DEF Mine, TypeInv, PcType
  <2>4. ~Cleanup(w)
    BY <1>1, <2>3 DEF Cleanup, At, PcRow, OwnsRow, OwnerInv, OwnedNotReported
  <2> QED
    BY <2>2, <2>3, <2>4 DEF ContainerRemove, At, PcRow
<1>2. TypeInv /\ OwnerInv /\ [Next]_vars =>
        [\A i \in Instances :
            ctr[i] # Absent /\ ctr'[i] = Absent /\ ReportedStarted(ctr[i].id)
              => \E w \in Workers : /\ job[w].type = "stop"
                                    /\ At(w, "remove")
                                    /\ job[w].cid = ctr[i].id]_vars
  BY <1>1
<1> QED
  BY <1>2, TypeInductive, OwnerInductive, PTL DEF Spec, CleanupSparesReported
=============================================================================
