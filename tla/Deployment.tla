------------------------------ MODULE Deployment -----------------------------
(***************************************************************************)
(* The drivers as they are deployed: launch_all_sensors_docker.sh on the   *)
(* PC, which starts and removes a container on the dock through ssh, the   *)
(* container's shell (start.sh), which runs the camera's and the lidar's   *)
(* driver, and docker, which restarts the container (docker-compose.yml).  *)
(*                                                                         *)
(* docker, ssh and bash are modelled by what the scripts rely on.  Ctrl+C  *)
(* reaches the script and the command it waits for.  Bash runs the trap    *)
(* when that command has ended, and then goes on with the script.          *)
(***************************************************************************)
EXTENDS Integers, Sequences

CONSTANTS
  Drivers,        \* the processes start.sh runs in the background
  MaxCrashes,     \* bound on the ends of a driver
  MaxInterrupts,  \* bound on Ctrl+C
  MaxFails        \* bound on the ssh connections that fail

ASSUME DeploymentAssumption ==
  /\ Drivers # {} /\ MaxCrashes \in Nat /\ MaxInterrupts \in Nat /\ MaxFails \in Nat

VARIABLES
  script,      \* where the launcher is
  resume,      \* where it goes on after cleanup was called for INT
  session,     \* the docker commands its ssh has still to run; Connecting before
  orphans,     \* what sshd still runs of sessions that Ctrl+C has cut off
  cutOff,      \* has Ctrl+C cut off an ssh, connected or not?
  interrupts, fails, crashes,
  container,   \* "none", "running", "stopping" (compose down) or "restarting"
  driver       \* each driver: "off", "starting", "up" or "gone"

scriptVars == <<script, resume>>
boundVars == <<interrupts, fails, crashes>>
dockVars == <<container, driver>>
vars == <<scriptVars, session, orphans, cutOff, boundVars, dockVars>>

Connecting == <<"connect">>
AllDrivers(state) == [d \in Drivers |-> state]

\* A container may be left from an earlier launch.
Init ==
  /\ script = "start" /\ resume = "wait"
  /\ session = Connecting /\ orphans = <<>> /\ cutOff = FALSE
  /\ interrupts = 0 /\ fails = 0 /\ crashes = 0
  /\ \/ container = "none" /\ driver = AllDrivers("off")
     \/ container = "running" /\ driver = AllDrivers("up")

-----------------------------------------------------------------------------
(* The launcher. *)

\* Where the script stands when it waits for an ssh of its own.
InSession == script \in {"start", "intCleanup", "exitCleanup"}

\* "docker compose down; docker compose up -d", or "docker compose down".
Commands == IF script = "start" THEN <<"down", "up">> ELSE <<"down">>

Connect ==
  /\ InSession /\ session = Connecting
  /\ session' = Commands
  /\ UNCHANGED <<scriptVars, orphans, cutOff, boundVars, dockVars>>

\* No set -e: the script goes on, and cleanup still says Done.
ConnectFails ==
  /\ InSession /\ session = Connecting
  /\ fails < MaxFails /\ fails' = fails + 1
  /\ session' = <<>>
  /\ UNCHANGED <<scriptVars, orphans, cutOff, interrupts, crashes, dockVars>>

Goto(place) == script' = place /\ session' = IF place \in {"intCleanup", "exitCleanup"}
                                               THEN Connecting ELSE <<>>

SessionEnds ==
  /\ InSession /\ session = <<>>
  /\ CASE script = "start" -> Goto("wait")
       [] script = "intCleanup" -> Goto(resume)
       [] script = "exitCleanup" -> Goto("ended")
  /\ UNCHANGED <<resume, orphans, cutOff, boundVars, dockVars>>

\* Both topics are there, or twenty attempts are over.
WaitEnds ==
  /\ script = "wait"
  /\ Goto("rviz")
  /\ UNCHANGED <<resume, orphans, cutOff, boundVars, dockVars>>

\* Mistake: the trap is for INT and TERM only.
RvizClosesUntrapped ==
  /\ script = "rviz"
  /\ Goto("ended")
  /\ UNCHANGED <<resume, orphans, cutOff, boundVars, dockVars>>

\* The window is closed: the script ends, and the trap is for EXIT too.
RvizCloses ==
  /\ script = "rviz"
  /\ Goto("exitCleanup")
  /\ UNCHANGED <<resume, orphans, cutOff, boundVars, dockVars>>

\* Mistake: the script starts over from the wait, whatever was interrupted.
ResumesInWait == "wait"

\* The next command after the one that was interrupted; after rviz2, the end.
ResumePoint ==
  CASE script \in {"start", "wait"} -> "wait"
    [] script = "rviz" -> "exitCleanup"
    [] OTHER -> resume

\* Ctrl+C. The remote shell has no terminal: it may go on with what is left of the
\* session, or die of the closed connection. A Ctrl+C during cleanup ends its ssh;
\* the trap may then run again or not.
Interrupt ==
  /\ script # "ended"
  /\ interrupts < MaxInterrupts /\ interrupts' = interrupts + 1
  /\ cutOff' = (cutOff \/ (InSession /\ session # <<>>))
  /\ \/ UNCHANGED orphans
     \/ /\ InSession /\ session \notin {Connecting, <<>>}
        /\ orphans' = Append(orphans, session)
  /\ IF script = "exitCleanup"
       THEN Goto("exitCleanup") \/ Goto("ended")
       ELSE Goto("intCleanup") \/ (script = "intCleanup" /\ Goto(resume))
  /\ resume' = ResumePoint
  /\ UNCHANGED <<fails, crashes, dockVars>>

-----------------------------------------------------------------------------
(* docker compose, for a session or for what is left of one. *)

\* What a command list becomes when its first command takes a step.
DoneOrWaiting(commands) ==
  CASE Head(commands) = "up" -> Tail(commands)
    [] Head(commands) = "down" /\ container = "none" -> Tail(commands)
    [] OTHER -> <<"removing">> \o Tail(commands)

\* up leaves a container that is there alone; down sends SIGTERM, which a shell that
\* is process 1 ignores.
Compose(command) ==
  CASE command = "up" /\ container = "none" ->
         container' = "running" /\ driver' = AllDrivers("starting")
    [] command = "down" /\ container # "none" ->
         container' = "stopping" /\ UNCHANGED driver
    [] OTHER -> UNCHANGED dockVars

Ready(commands) == commands # <<>> /\ Head(commands) \in {"up", "down"}

SessionCommand ==
  /\ InSession /\ Ready(session)
  /\ Compose(Head(session)) /\ session' = DoneOrWaiting(session)
  /\ UNCHANGED <<scriptVars, orphans, cutOff, boundVars>>

OrphanCommand ==
  /\ \E i \in DOMAIN orphans :
       /\ Ready(orphans[i])
       /\ Compose(Head(orphans[i]))
       /\ orphans' = [orphans EXCEPT ![i] = DoneOrWaiting(@)]
  /\ UNCHANGED <<scriptVars, session, cutOff, boundVars>>

Removed(commands) ==
  IF commands # <<>> /\ Head(commands) = "removing" THEN Tail(commands) ELSE commands

\* Ten seconds later: SIGKILL, and whoever waited for the removal goes on.
Remove ==
  /\ container = "stopping"
  /\ container' = "none" /\ driver' = AllDrivers("off")
  /\ session' = Removed(session)
  /\ orphans' = [i \in DOMAIN orphans |-> Removed(orphans[i])]
  /\ UNCHANGED <<scriptVars, cutOff, boundVars>>

-----------------------------------------------------------------------------
(* The container. *)

Starts(d) ==
  /\ container \in {"running", "stopping"} /\ driver[d] = "starting"
  /\ driver' = [driver EXCEPT ![d] = "up"]
  /\ UNCHANGED <<scriptVars, session, orphans, cutOff, boundVars, container>>

\* A driver ends: by itself, or the lidar's by "all_stop" on /node_control, which
\* calls exit(0).
Ends(d) ==
  /\ driver[d] \in {"starting", "up"}
  /\ crashes < MaxCrashes /\ crashes' = crashes + 1
  /\ driver' = [driver EXCEPT ![d] = "gone"]
  /\ UNCHANGED <<scriptVars, session, orphans, cutOff, interrupts, fails, container>>

\* Mistake: wait, without -n.
WaitReturnsForAll ==
  /\ container = "running" /\ \A d \in Drivers : driver[d] = "gone"
  /\ container' = "restarting" /\ driver' = AllDrivers("off")
  /\ UNCHANGED <<scriptVars, session, orphans, cutOff, boundVars>>

\* wait -n returns and process 1 ends, and with it whatever runs in the container.
WaitReturns ==
  /\ container = "running" /\ \E d \in Drivers : driver[d] = "gone"
  /\ container' = "restarting" /\ driver' = AllDrivers("off")
  /\ UNCHANGED <<scriptVars, session, orphans, cutOff, boundVars>>

\* restart: unless-stopped
Restarts ==
  /\ container = "restarting"
  /\ container' = "running" /\ driver' = AllDrivers("starting")
  /\ UNCHANGED <<scriptVars, session, orphans, cutOff, boundVars>>

Stopped == script = "ended" /\ UNCHANGED vars

Script == Connect \/ ConnectFails \/ SessionEnds \/ WaitEnds
Dock ==
  \/ SessionCommand \/ OrphanCommand \/ Remove \/ WaitReturns \/ Restarts
  \/ \E d \in Drivers : Starts(d)

Next == Script \/ RvizCloses \/ Interrupt \/ Dock \/ (\E d \in Drivers : Ends(d)) \/ Stopped

\* Commands end and docker acts; nobody has to press Ctrl+C, close the window or
\* crash.
Spec ==
  /\ Init /\ [][Next]_vars
  /\ WF_vars(Script) /\ WF_vars(SessionCommand) /\ WF_vars(OrphanCommand)
  /\ WF_vars(Remove) /\ WF_vars(WaitReturns) /\ WF_vars(Restarts)
  /\ \A d \in Drivers : WF_vars(Starts(d))

-----------------------------------------------------------------------------
\* When a driver has ended, be it by a stop message, both run again in the end,
\* without anyone's help, or the container is removed.
Recovers ==
  (\E d \in Drivers : driver[d] = "gone")
    ~> (container = "none" \/ \A d \in Drivers : driver[d] = "up")

\* When the launcher has ended, with or without Ctrl+C, no container is left on the
\* dock, unless an ssh of its own failed or was cut off.
EndedMeansDown ==
  script = "ended" /\ fails = 0 /\ ~cutOff => container = "none"

\* Once RViz2 has been opened it stays open, or the launcher ends: Ctrl+C does not
\* bring it back to an earlier step.
InterruptInRvizEnds ==
  [](script = "rviz" => [](script = "rviz" \/ <>(script = "ended")))

\* Ctrl+C stops everything.
InterruptStopsAll ==
  (interrupts > 0) ~> (script = "ended" /\ container = "none")
=============================================================================
