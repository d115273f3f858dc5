-------------------------- MODULE DeploymentProofs ---------------------------
(***************************************************************************)
(* What the launcher leaves on the dock, for every number of drivers, of   *)
(* crashes, of interrupts and of connections that fail.                    *)
(***************************************************************************)
EXTENDS Deployment, TLAPS

\* The last cleanup of a launcher whose sessions all connected and were left alone:
\* the way its session goes, and what is known of the container on it.
LastCleanup ==
  /\ session \in {Connecting, <<"down">>, <<"removing">>, <<>>}
  /\ session = <<"removing">> => container = "stopping"
  /\ session = <<>> /\ fails = 0 => container = "none"

(***************************************************************************)
(* A cut off session goes on behind the launcher's back, and may bring the *)
(* container up after the cleanup; without one nothing does.               *)
(***************************************************************************)
IInv ==
  /\ script \in {"start", "wait", "rviz", "intCleanup", "exitCleanup", "ended"}
  /\ resume \in {"wait", "exitCleanup"}
  /\ fails \in Nat
  /\ cutOff \in BOOLEAN
  /\ ~cutOff => /\ orphans = <<>>
                /\ script = "exitCleanup" => LastCleanup
                /\ script = "ended" /\ fails = 0 => container = "none"

LEMMA Steps ==
  /\ Connecting # <<>> /\ Connecting # <<"down">> /\ Connecting # <<"removing">>
  /\ <<"down">> # <<>> /\ <<"removing">> # <<>> /\ <<"down">> # <<"removing">>
  /\ Head(<<"down">>) = "down" /\ Tail(<<"down">>) = <<>>
  /\ Head(<<"removing">>) = "removing" /\ Tail(<<"removing">>) = <<>>
  /\ <<"removing">> \o <<>> = <<"removing">>
  /\ Head(Connecting) = "connect"
<1>1. Tail(<<"down">>) = <<>> /\ Tail(<<"removing">>) = <<>>
  OBVIOUS
<1>2. <<"removing">> \o <<>> = <<"removing">>
  OBVIOUS
<1>3. /\ Connecting # <<>> /\ Connecting # <<"down">> /\ Connecting # <<"removing">>
      /\ <<"down">> # <<>> /\ <<"removing">> # <<>> /\ <<"down">> # <<"removing">>
  BY DEF Connecting
<1>. QED
  BY <1>1, <1>2, <1>3 DEF Connecting

LEMMA InitHolds == Init => IInv
<1>. SUFFICES ASSUME Init PROVE IInv
  OBVIOUS
<1>1. script = "start" /\ resume = "wait" /\ fails = 0 /\ cutOff = FALSE /\ orphans = <<>>
  BY DEF Init
<1>. QED
  BY <1>1 DEF IInv

\* The launcher's own steps.
LEMMA LauncherStep ==
  ASSUME IInv, Script \/ RvizCloses \/ Interrupt
  PROVE  IInv'
<1>. USE Steps DEF IInv, LastCleanup, scriptVars, boundVars, dockVars, Goto
<1>1. CASE Connect
  BY <1>1 DEF Connect, Commands, InSession
<1>2. CASE ConnectFails
  BY <1>2 DEF ConnectFails
<1>3. CASE SessionEnds
  BY <1>3 DEF SessionEnds, InSession
<1>4. CASE WaitEnds
  BY <1>4 DEF WaitEnds
<1>5. CASE RvizCloses
  BY <1>5 DEF RvizCloses
<1>6. CASE Interrupt
  <2>1. resume' \in {"wait", "exitCleanup"} /\ UNCHANGED <<fails, container>>
    BY <1>6 DEF Interrupt, ResumePoint
  <2>2. cutOff' \in BOOLEAN /\ (~cutOff' => ~cutOff /\ orphans' = <<>>)
    BY <1>6 DEF Interrupt
  <2>3. \/ /\ script = "exitCleanup" /\ Goto("exitCleanup")
        \/ /\ script = "exitCleanup" /\ Goto("ended")
           /\ ~cutOff' => session = <<>>
        \/ Goto("intCleanup") \/ Goto(resume)
    BY <1>6 DEF Interrupt, InSession
  <2>. QED
    BY <2>1, <2>2, <2>3
<1>. QED
  BY <1>1, <1>2, <1>3, <1>4, <1>5, <1>6 DEF Script

\* What docker does for it, or by itself.
LEMMA DockStep ==
  ASSUME IInv, Dock \/ (\E d \in Drivers : Ends(d))
  PROVE  IInv'
<1>. USE Steps DEF IInv, LastCleanup, scriptVars, boundVars, dockVars
<1>1. CASE SessionCommand
  BY <1>1 DEF SessionCommand, Ready, Compose, DoneOrWaiting, InSession
<1>2. CASE OrphanCommand
  <2>1. cutOff /\ cutOff' = cutOff /\ UNCHANGED <<script, resume, fails>>
    BY <1>2 DEF OrphanCommand
  <2>. QED
    BY <2>1
<1>3. CASE Remove
  <2>1. ~cutOff => orphans' = <<>>
    BY <1>3 DEF Remove
  <2>2. ~cutOff /\ script = "exitCleanup" => session' \in {Connecting, <<"down">>, <<>>}
    BY <1>3 DEF Remove, Removed
  <2>. QED
    BY <1>3, <2>1, <2>2 DEF Remove
<1>4. CASE WaitReturns \/ Restarts
  BY <1>4 DEF WaitReturns, Restarts
<1>5. ASSUME NEW d \in Drivers, Starts(d) \/ Ends(d)
      PROVE  IInv'
  BY <1>5 DEF Starts, Ends
<1>. QED
  BY <1>1, <1>2, <1>3, <1>4, <1>5 DEF Dock

\* The launcher and docker together keep the invariant.
LEMMA IInvInductive == Spec => []IInv
<1>1. IInv /\ [Next]_vars => IInv'
  <2> SUFFICES ASSUME IInv, [Next]_vars PROVE IInv'
    OBVIOUS
  <2>1. CASE UNCHANGED vars
    BY <2>1 DEF vars, IInv, LastCleanup, scriptVars, boundVars, dockVars
  <2>. QED
    BY <2>1, LauncherStep, DockStep DEF Next, Stopped
<1>. QED
  BY <1>1, InitHolds, PTL DEF Spec

\* When the launcher has ended, however often it was interrupted and the drivers
\* crashed, the dock has no container, unless an ssh failed or was cut off.
THEOREM EndedMeansDownHolds == Spec => []EndedMeansDown
<1>1. IInv => EndedMeansDown
  BY DEF IInv, EndedMeansDown
<1>. QED
  BY <1>1, IInvInductive, PTL

=============================================================================
