------------------------------ MODULE NodeAgent ------------------------------
(***************************************************************************)
(* The agent of one node: the heartbeat loop that takes tasks from the     *)
(* server's responses, the goroutines that execute them under a semaphore  *)
(* (cmd/agent/main.go), and the Docker calls they make                     *)
(* (internal/agent/runtime/docker.go).                                     *)
(*                                                                         *)
(* The server is an environment here: each heartbeat response is one of    *)
(* Responses, and the same task may come twice.  Docker is external: a     *)
(* call on a container works when the container is there and the task's    *)
(* context is not done, and any call may fail.  A container is known by    *)
(* its name, which its instance determines, or by its id, which is never   *)
(* used again.                                                             *)
(***************************************************************************)
EXTENDS Naturals, Sequences

CONSTANTS
    Instances,
    TaskIds,
    Responses,      \* the task lists a heartbeat response may carry
    Workers,        \* the slots of taskSem (MaxConcurrentTasks, default 3)
    MaxResponses,   \* bound: heartbeat responses that carry tasks
    MaxContainers   \* bound: containers ever created

Brief == [task : TaskIds, type : {"start", "stop", "logs"}, inst : Instances]

ASSUME AgentAssumption ==
    /\ Responses \subseteq Seq(Brief)
    /\ MaxResponses \in Nat
    /\ MaxContainers \in Nat

VARIABLES
    queue,      \* tasks of the last response that have no goroutine yet
    job,        \* the goroutine in each slot of taskSem
    ctr,        \* the container with the name of each instance
    created,    \* containers created so far; the last one has this id
    results,    \* task results posted to the server
    responses,  \* heartbeat responses with tasks received so far
    faulty      \* a crash, a lost report, or an error the code does not expect

vars == <<queue, job, ctr, created, results, responses, faulty>>

-----------------------------------------------------------------------------

Ids == 1 .. MaxContainers

Absent    == [st |-> "absent", id |-> 0]
Container == [st : {"created", "running", "exited"}, id : Ids] \cup {Absent}

Idle == [pc |-> "idle", task |-> 0, type |-> "logs", inst |-> 0, cid |-> 0,
         late |-> FALSE, ok |-> FALSE]
JobPc == {"create", "start", "verify", "health", "cleanup",
          "inspect", "stop", "remove", "logs", "report"}
Job == [pc : JobPc, task : TaskIds, type : {"start", "stop", "logs"}, inst : Instances,
        cid : 0 .. MaxContainers, late : BOOLEAN, ok : BOOLEAN] \cup {Idle}

TaskResult == [task : TaskIds, type : {"start", "stop", "logs"}, ok : BOOLEAN,
               cid : 0 .. MaxContainers]

Init ==
    /\ queue = <<>>
    /\ job = [w \in Workers |-> Idle]
    /\ ctr = [i \in Instances |-> Absent]
    /\ created = 0
    /\ results = {}
    /\ responses = 0
    /\ faulty = FALSE

-----------------------------------------------------------------------------
(* The heartbeat loop.  It dispatches every task of a response before it   *)
(* returns to the select: with all slots taken it waits for one, and sends *)
(* no heartbeat meanwhile.                                                 *)

SendHeartbeat(resp) ==
    /\ queue = <<>>
    /\ resp # <<>> => responses < MaxResponses
    /\ queue' = resp
    /\ responses' = IF resp # <<>> THEN responses + 1 ELSE responses
    /\ UNCHANGED <<job, ctr, created, results, faulty>>

FirstCall(type) ==
    CASE type = "start" -> "create" [] type = "stop" -> "inspect" [] OTHER -> "logs"

(* Mutant: the loop over resp.Tasks does not advance.                      *)
Dispatch_KeepsHead(w) ==
    /\ queue # <<>>
    /\ job[w] = Idle
    /\ LET b == Head(queue) IN
       job' = [job EXCEPT ![w] = [pc |-> FirstCall(b.type), task |-> b.task, type |-> b.type,
                                  inst |-> b.inst, cid |-> 0, late |-> FALSE, ok |-> FALSE]]
    /\ UNCHANGED <<queue, ctr, created, results, responses, faulty>>

Dispatch(w) ==
    /\ queue # <<>>
    /\ job[w] = Idle
    /\ LET b == Head(queue) IN
       job' = [job EXCEPT ![w] = [pc |-> FirstCall(b.type), task |-> b.task, type |-> b.type,
                                  inst |-> b.inst, cid |-> 0, late |-> FALSE, ok |-> FALSE]]
    /\ queue' = Tail(queue)
    /\ UNCHANGED <<ctr, created, results, responses, faulty>>

-----------------------------------------------------------------------------
(* What a goroutine does to its own record.                                *)

At(w, pc) == job[w].pc = pc

Goto(w, pc) == job' = [job EXCEPT ![w].pc = pc]

Finish(w, ok) == job' = [job EXCEPT ![w].pc = "report", ![w].ok = ok]

(* The container the goroutine knows by id is still there.                 *)
Mine(w) == ctr[job[w].inst] # Absent /\ ctr[job[w].inst].id = job[w].cid

agentVars == <<queue, created, results, responses>>

-----------------------------------------------------------------------------
(* processStartTask and DockerRuntimeDriver.Start.                         *)

ContainerCreate(w) ==
    /\ At(w, "create")
    /\ ~job[w].late
    /\ ctr[job[w].inst] = Absent
    /\ created < MaxContainers
    /\ created' = created + 1
    /\ ctr' = [ctr EXCEPT ![job[w].inst] = [st |-> "created", id |-> created + 1]]
    /\ job' = [job EXCEPT ![w].pc = "start", ![w].cid = created + 1]
    /\ UNCHANGED <<queue, results, responses, faulty>>

(* Mutant: a name conflict is cleaned up like any other failure.           *)
ContainerCreateFails_Cleanup(w) ==
    /\ At(w, "create")
    /\ job' = [job EXCEPT ![w].pc = "cleanup", ![w].cid = ctr[job[w].inst].id]
    /\ UNCHANGED <<agentVars, ctr, faulty>>

(* A bad payload, no Docker, a name that is taken, a context that is done: *)
(* the deferred removal is not armed yet.                                  *)
ContainerCreateFails(w) ==
    /\ At(w, "create")
    /\ Finish(w, FALSE)
    /\ UNCHANGED <<agentVars, ctr, faulty>>

ContainerStart(w) ==
    /\ At(w, "start")
    /\ ~job[w].late
    /\ Mine(w)
    /\ ctr' = [ctr EXCEPT ![job[w].inst].st = "running"]
    /\ Goto(w, "verify")
    /\ UNCHANGED <<agentVars, faulty>>

ContainerStartFails(w) ==
    /\ At(w, "start")
    /\ Goto(w, "cleanup")
    /\ UNCHANGED <<agentVars, ctr, faulty>>

(* The inspect after the start: an error is only a warning.                *)
VerifyPasses(w) ==
    /\ At(w, "verify")
    /\ Goto(w, "health")
    /\ UNCHANGED <<agentVars, ctr, faulty>>

(* Mutant: an error that does not reach the deferred removal.              *)
VerifyFails_NoCleanup(w) ==
    /\ At(w, "verify")
    /\ ~job[w].late
    /\ Mine(w)
    /\ ctr[job[w].inst].st # "running"
    /\ Finish(w, FALSE)
    /\ UNCHANGED <<agentVars, ctr, faulty>>

VerifyFails(w) ==
    /\ At(w, "verify")
    /\ ~job[w].late
    /\ Mine(w)
    /\ ctr[job[w].inst].st # "running"
    /\ Goto(w, "cleanup")
    /\ UNCHANGED <<agentVars, ctr, faulty>>

(* CheckEndpointReady: the endpoint answers, or no check is configured.    *)
HealthPasses(w) ==
    /\ At(w, "health")
    /\ Finish(w, TRUE)
    /\ UNCHANGED <<agentVars, ctr, faulty>>

HealthFails(w) ==
    /\ At(w, "health")
    /\ Goto(w, "cleanup")
    /\ UNCHANGED <<agentVars, ctr, faulty>>

(* The deferred ContainerRemove, by id and with force.  Its error is       *)
(* dropped.                                                                *)
Cleanup(w) ==
    /\ At(w, "cleanup")
    /\ ~job[w].late \/ ~Mine(w)
    /\ ctr' = IF Mine(w) THEN [ctr EXCEPT ![job[w].inst] = Absent] ELSE ctr
    /\ Finish(w, FALSE)
    /\ UNCHANGED <<agentVars, faulty>>

(* It uses the task's own context, which a start that ran into its timeout *)
(* has already lost: the container stays.                                  *)
CleanupFails(w) ==
    /\ At(w, "cleanup")
    /\ Mine(w)
    /\ faulty' = TRUE
    /\ Finish(w, FALSE)
    /\ UNCHANGED <<agentVars, ctr>>

-----------------------------------------------------------------------------
(* processStopTask and DockerRuntimeDriver.Stop.                           *)

StopInspect(w) ==
    /\ At(w, "inspect")
    /\ ~job[w].late
    /\ ctr[job[w].inst] # Absent
    /\ job' = [job EXCEPT ![w].pc = "stop", ![w].cid = ctr[job[w].inst].id]
    /\ UNCHANGED <<agentVars, ctr, faulty>>

(* No container has the name: the stop has succeeded.                      *)
StopMissing(w) ==
    /\ At(w, "inspect")
    /\ ctr[job[w].inst] = Absent
    /\ Finish(w, TRUE)
    /\ UNCHANGED <<agentVars, ctr, faulty>>

(* Any other error of the inspect is taken for a missing container.        *)
StopInspectError(w) ==
    /\ At(w, "inspect")
    /\ ctr[job[w].inst] # Absent
    /\ faulty' = TRUE
    /\ Finish(w, TRUE)
    /\ UNCHANGED <<agentVars, ctr>>

(* Stopping a container that was never started does nothing.               *)
ContainerStop(w) ==
    /\ At(w, "stop")
    /\ ~job[w].late
    /\ Mine(w)
    /\ ctr' = [ctr EXCEPT ![job[w].inst].st = IF @ = "running" THEN "exited" ELSE @]
    /\ Goto(w, "remove")
    /\ UNCHANGED <<agentVars, faulty>>

(* Without force, a container that a start has meanwhile brought up again  *)
(* is not removed.                                                         *)
ContainerRemove(w) ==
    /\ At(w, "remove")
    /\ ~job[w].late
    /\ Mine(w)
    /\ ctr[job[w].inst].st # "running"
    /\ ctr' = [ctr EXCEPT ![job[w].inst] = Absent]
    /\ Finish(w, TRUE)
    /\ UNCHANGED <<agentVars, faulty>>

(* A bad payload or no Docker client, before the inspect; an error of the  *)
(* stop or of the removal after it.                                        *)
StopFails(w) ==
    /\ At(w, "inspect") \/ At(w, "stop") \/ At(w, "remove")
    /\ Finish(w, FALSE)
    /\ UNCHANGED <<agentVars, ctr, faulty>>

-----------------------------------------------------------------------------
(* processLogsTask, and the report at the end of processTask.              *)

processLogsTask(w, ok) ==
    /\ At(w, "logs")
    /\ Finish(w, ok)
    /\ UNCHANGED <<agentVars, ctr, faulty>>

(* Mutant: a task that failed keeps its slot.                              *)
ReportTaskResult_KeepsSlot(w) ==
    /\ At(w, "report")
    /\ results' = results \cup {[task |-> job[w].task, type |-> job[w].type,
                                 ok |-> job[w].ok, cid |-> job[w].cid]}
    /\ job' = [job EXCEPT ![w] = IF job[w].ok THEN Idle ELSE [@ EXCEPT !.pc = "failed"]]
    /\ UNCHANGED <<queue, ctr, created, responses, faulty>>

ReportTaskResult(w) ==
    /\ At(w, "report")
    /\ results' = results \cup {[task |-> job[w].task, type |-> job[w].type,
                                 ok |-> job[w].ok, cid |-> job[w].cid]}
    /\ job' = [job EXCEPT ![w] = Idle]
    /\ UNCHANGED <<queue, ctr, created, responses, faulty>>

(* The POST fails: the result is logged and dropped, there is no retry.    *)
ReportLost(w) ==
    /\ At(w, "report")
    /\ faulty' = TRUE
    /\ job' = [job EXCEPT ![w] = Idle]
    /\ UNCHANGED <<queue, ctr, created, results, responses>>

-----------------------------------------------------------------------------
(* Time, containers that end, and crashes.                                 *)

(* timeout_seconds have passed since the task's context was made.  The     *)
(* logs task has no timeout of its own.                                    *)
ContextDone(w) ==
    /\ job[w] # Idle
    /\ job[w].type # "logs"
    /\ ~job[w].late
    /\ job' = [job EXCEPT ![w].late = TRUE]
    /\ UNCHANGED <<agentVars, ctr, faulty>>

ContainerExits(i) ==
    /\ ctr[i].st = "running"
    /\ ctr' = [ctr EXCEPT ![i].st = "exited"]
    /\ UNCHANGED <<agentVars, job, faulty>>

(* The containers outlive the agent; reconcileManagedContainers, which a   *)
(* new agent runs, only logs them.                                         *)
AgentRestart ==
    /\ faulty' = TRUE
    /\ queue' = <<>>
    /\ job' = [w \in Workers |-> Idle]
    /\ UNCHANGED <<ctr, created, results, responses>>

-----------------------------------------------------------------------------

StartStep(w) ==
    \/ ContainerCreate(w) \/ ContainerCreateFails(w)
    \/ ContainerStart(w)  \/ ContainerStartFails(w)
    \/ VerifyPasses(w)    \/ VerifyFails(w)
    \/ HealthPasses(w)    \/ HealthFails(w)
    \/ Cleanup(w)         \/ CleanupFails(w)

StopStep(w) ==
    \/ StopInspect(w) \/ StopMissing(w) \/ StopInspectError(w)
    \/ ContainerStop(w) \/ ContainerRemove(w) \/ StopFails(w)

processTask(w) ==
    \/ StartStep(w)
    \/ StopStep(w)
    \/ \E ok \in BOOLEAN : processLogsTask(w, ok)
    \/ ReportTaskResult(w)
    \/ ReportLost(w)

Next ==
    \/ \E resp \in Responses : SendHeartbeat(resp)
    \/ \E w \in Workers : Dispatch(w)
    \/ \E w \in Workers : processTask(w)
    \/ \E w \in Workers : ContextDone(w)
    \/ \E i \in Instances : ContainerExits(i)
    \/ AgentRestart

Spec == Init /\ [][Next]_vars

(* Every Docker and HTTP call returns, as the contexts and the client's    *)
(* timeout make them, and the loop takes a free slot when there is one.    *)
Fairness ==
    /\ \A w \in Workers : WF_vars(processTask(w))
    /\ WF_vars(\E w \in Workers : Dispatch(w))

FairSpec == Spec /\ Fairness

-----------------------------------------------------------------------------
(* Properties.                                                             *)

(* The loop, the goroutines and the containers have the shape the code     *)
(* gives them: a goroutine is at one of the calls of its task's handler    *)
(* and a slot it leaves is idle.                                           *)
TypeOK ==
    /\ queue \in Seq(Brief)
    /\ job \in [Workers -> Job]
    /\ ctr \in [Instances -> Container]
    /\ created \in 0 .. MaxContainers
    /\ results \in SUBSET TaskResult
    /\ responses \in 0 .. MaxResponses
    /\ faulty \in BOOLEAN

(* A start that still works on container c, or will report it as started.  *)
Holds(w, i) ==
    /\ job[w].type = "start"
    /\ job[w].inst = i
    /\ job[w].cid = ctr[i].id
    /\ job[w].pc \in {"start", "verify", "health", "cleanup"} \/ (At(w, "report") /\ job[w].ok)

ReportedStarted(c) == \E m \in results : m.type = "start" /\ m.ok /\ m.cid = c

(* Without a crash, a lost report or a failed removal, every container on  *)
(* the node is one a running start task still answers for, or one whose    *)
(* start was reported to the server: no error path of Start leaks one.     *)
ContainerAccounted ==
    ~faulty =>
        \A i \in Instances :
            ctr[i] # Absent => (\E w \in Workers : Holds(w, i)) \/ ReportedStarted(ctr[i].id)

(* A container whose start was reported as a success is only ever removed  *)
(* by a stop task that found it: neither the failure of another delivery   *)
(* of the same start nor a late cleanup takes it away.                     *)
CleanupSparesReported ==
    [][\A i \in Instances :
          ctr[i] # Absent /\ ctr'[i] = Absent /\ ReportedStarted(ctr[i].id)
              => \E w \in Workers : /\ job[w].type = "stop"
                                    /\ At(w, "remove")
                                    /\ job[w].cid = ctr[i].id]_vars

(* The loop gets through every response it receives and comes back to its  *)
(* heartbeats, whatever the tasks do: each one gives its slot back.        *)
QueueDrains == (queue # <<>>) ~> (queue = <<>>)

=============================================================================
