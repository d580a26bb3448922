------------------------------- MODULE Builds -------------------------------
(***************************************************************************)
(* The app builder behind POST /build: a build goes on in the background   *)
(* after its request was answered, has code generated, an image built and  *)
(* a container started, and writes its status into a map that the other    *)
(* routes read.  Stopping a build does not stop this process.  All builds  *)
(* of one name share an image tag; those of different names do not meet.   *)
(***************************************************************************)
EXTENDS Naturals, FiniteSets

CONSTANTS
    BuildIds,       \* builds of one name
    StopCalls,      \* POST /build/:buildId/stop requests that may be under way
    NoBuild

VARIABLES
    activeBuilds,   \* build -> its status, and whether its container is known
    processes,      \* build -> what startBuildProcess awaits
    image,          \* the build whose files the tag's image was made of
    containers,     \* running containers: the build, and the image it runs
    stops           \* the build whose container a stop request awaits

buildVars == <<activeBuilds, processes, image, containers, stops>>

BuildInit ==
    /\ activeBuilds = [b \in BuildIds |-> [status |-> "none", containerId |-> FALSE]]
    /\ processes = [b \in BuildIds |-> "none"]
    /\ image = NoBuild
    /\ containers = {}
    /\ stops = [c \in StopCalls |-> NoBuild]

Mark(b, status) == activeBuilds' = [activeBuilds EXCEPT ![b].status = status]
Awaits(b, at) == processes' = [processes EXCEPT ![b] = at]

\* POST /build: the process runs up to its first import before the answer is sent.
RequestBuild(b) ==
    /\ processes[b] = "none"
    /\ Mark(b, "pending") /\ Awaits(b, "importing")
    /\ UNCHANGED <<image, containers, stops>>

Imported(b) ==
    /\ processes[b] = "importing"
    /\ Mark(b, "generating") /\ Awaits(b, "generating")
    /\ UNCHANGED <<image, containers, stops>>

\* The model answers, and the files are written.
FilesWritten(b) ==
    /\ processes[b] = "generating"
    /\ Mark(b, "building") /\ Awaits(b, "building")
    /\ UNCHANGED <<image, containers, stops>>

\* The model, the disk or an import fails, or the fallback page cannot be written.
BuildFails(b) ==
    /\ processes[b] \in {"importing", "generating", "falling back"}
    /\ Mark(b, "failed") /\ Awaits(b, "ended")
    /\ UNCHANGED <<image, containers, stops>>

\* docker build moves the tag; when it fails, the process goes on all the same.
ImageBuilt(b) ==
    /\ processes[b] = "building"
    /\ image' \in {image, b}
    /\ Awaits(b, "starting")
    /\ UNCHANGED <<activeBuilds, containers, stops>>

\* docker run starts what the tag points to by now, if there is anything.
ContainerStarts(b) ==
    /\ processes[b] = "starting"
    /\ image # NoBuild
    /\ containers' = containers \cup {[build |-> b, image |-> image]}
    /\ Awaits(b, "started")
    /\ UNCHANGED <<activeBuilds, image, stops>>

RunFails(b) ==
    /\ processes[b] = "starting"
    /\ Awaits(b, "falling back")
    /\ UNCHANGED <<activeBuilds, image, containers, stops>>

\* Mutation. The container of a build that was stopped meanwhile is not noted.
RunReturnsUnlessStopped(b) ==
    /\ processes[b] = "started"
    /\ activeBuilds' = [activeBuilds EXCEPT
           ![b] = [status |-> "completed", containerId |-> @.status # "completed"]]
    /\ Awaits(b, "ended")
    /\ UNCHANGED <<image, containers, stops>>

RunReturns(b) ==
    /\ processes[b] = "started"
    /\ activeBuilds' = [activeBuilds EXCEPT ![b] = [status |-> "completed", containerId |-> TRUE]]
    /\ Awaits(b, "ended")
    /\ UNCHANGED <<image, containers, stops>>

FellBack(b) ==
    /\ processes[b] = "falling back"
    /\ Mark(b, "completed") /\ Awaits(b, "ended")
    /\ UNCHANGED <<image, containers, stops>>

\* The stop route: without a known container, it only says so.
Stop(c, b) ==
    /\ stops[c] = NoBuild
    /\ processes[b] # "none"
    /\ IF activeBuilds[b].containerId
       THEN stops' = [stops EXCEPT ![c] = b] /\ UNCHANGED activeBuilds
       ELSE Mark(b, "completed") /\ UNCHANGED stops
    /\ UNCHANGED <<processes, image, containers>>

\* docker stop and docker rm succeed, or one of them does not.
StopReturns(c) ==
    /\ stops[c] # NoBuild
    /\ containers' \in {containers, {x \in containers : x.build # stops[c]}}
    /\ Mark(stops[c], "completed")
    /\ stops' = [stops EXCEPT ![c] = NoBuild]
    /\ UNCHANGED <<processes, image>>

BuildNext ==
    \/ \E b \in BuildIds :
          \/ RequestBuild(b) \/ Imported(b) \/ FilesWritten(b) \/ BuildFails(b)
          \/ ImageBuilt(b) \/ ContainerStarts(b) \/ RunFails(b) \/ RunReturns(b)
          \/ FellBack(b)
          \/ \E c \in StopCalls : Stop(c, b)
    \/ \E c \in StopCalls : StopReturns(c)

BuildSpec == BuildInit /\ [][BuildNext]_buildVars

-----------------------------------------------------------------------------
\* Type correctness of the builds.
BuildTypeOK ==
    /\ \A b \in BuildIds : activeBuilds[b].status \in
          {"none", "pending", "generating", "building", "completed", "failed"}
    /\ \A x \in containers : x.build \in BuildIds /\ x.image \in BuildIds
    /\ image \in BuildIds \cup {NoBuild}

\* Whenever somebody stops it, a build whose process has ended says completed or
\* failed, a failed build has no container, and a container that runs is known by
\* its build, so that it can be stopped, as soon as docker run has returned.
ContainersAreKnown ==
    /\ \A b \in BuildIds : processes[b] = "ended" =>
          activeBuilds[b].status \in {"completed", "failed"}
    /\ \A x \in containers :
          /\ activeBuilds[x.build].status # "failed"
          /\ activeBuilds[x.build].containerId \/ processes[x.build] = "started"
=============================================================================
