------------------------- MODULE AgentThreadProofs -------------------------
(***************************************************************************)
(* Theorems about the agent thread among the application, the network      *)
(* stack, the clients of the status page and the control plane, for every  *)
(* number of calls, connect requests, polls, ticks and log requests, every *)
(* backlog, any clients, and any Faults.                                   *)
(*                                                                         *)
(* ThreadInv of module AgentThread is proved part by part.  A part is kept *)
(* by every step that leaves its own variables alone; only the steps that  *)
(* write them are argued about.                                            *)
(***************************************************************************)
EXTENDS AgentThread, TLAPS

\* A remainder is below its modulus.
LEMMA TickBound ==
  ASSUME NEW n \in Nat, NEW k \in Nat \ {0}
  PROVE  n % k \in 0..(k - 1)
OBVIOUS

\* The initial state satisfies every part.
LEMMA ThreadInit == Init => ThreadInv
<1> SUFFICES ASSUME Init PROVE ThreadInv OBVIOUS
<1>1. TypeOK
  <2>1. /\ calls \in 0..MaxCalls /\ tries \in 0..Requests /\ waits \in 0..Waits
        /\ clients \in 0..Backlog /\ tick \in 0..(POLL_TICKS - 1)
        /\ {log_req, wanted, asked} \subseteq 0..MaxLogRequests
    BY BoundsAssumption DEF Init
  <2> QED BY <2>1 DEF Init, TypeOK
<1>2. StartInv /\ LogInv /\ ToldInv
  BY DEF Init, StartInv, LogInv, ShipsWhatIsWanted, ToldInv
<1>3. JoinInv BY DEF Init, JoinInv, NoLostJoin, LoopSteps
<1> QED BY <1>1, <1>2, <1>3 DEF ThreadInv

-----------------------------------------------------------------------------
(* Starting.                                                               *)

\* The application's own steps.
LEMMA StartApplication ==
  ASSUME ThreadInv, Application
  PROVE  StartInv'
BY DEF ThreadInv, TypeOK, StartInv, Application, StartCall, Configure, Mark, Create, Goto

\* The agent's steps start nothing: they take the thread from one position it
\* can be at to another.
LEMMA AgentRuns ==
  ASSUME agent_main
  PROVE  pc # "none" /\ pc' # "none" /\ UNCHANGED <<appVars, created>>
BY DEF agent_main, Boot, plat_net_wifi_up, WifiAccepted, WifiRefused, WifiPoll, WifiGaveUp, WifiUp,
       Prepare, Register, OnlineLoop, http_serve_pending, Accept, Answer, ServedAll, NextStep, Beat,
       BeatFails, Ship, ShipFails, Poll, Sleep, Goto, End

\* Nobody but the two threads moves either of them.
LEMMA OthersWatch ==
  ASSUME Driver \/ Environment
  PROVE  UNCHANGED <<pc, appVars, created>>
BY DEF Driver, WifiResult, Environment, ClientConnects, ClientSends, RequestLog, Offboard

\* One call gets through, whatever the thread it started does meanwhile.
LEMMA StartStep == ThreadInv /\ [Next]_vars => StartInv'
<1> SUFFICES ASSUME ThreadInv, [Next]_vars PROVE StartInv' OBVIOUS
<1>1. CASE Application BY <1>1, StartApplication
<1>2. CASE agent_main BY <1>2, AgentRuns DEF ThreadInv, StartInv, appVars
<1>3. CASE Driver \/ Environment
  BY <1>3, OthersWatch DEF ThreadInv, StartInv, appVars
<1>4. CASE UNCHANGED vars BY <1>4 DEF vars, appVars, ThreadInv, StartInv
<1> QED BY <1>1, <1>2, <1>3, <1>4 DEF Next
-----------------------------------------------------------------------------
(* Joining.                                                                *)

\* The steps of plat_net_wifi_up, and those that lead to it and from it.
LEMMA JoinBringUp ==
  ASSUME ThreadInv, Boot \/ plat_net_wifi_up \/ Prepare \/ Register
  PROVE  JoinInv'
<1> USE DEF ThreadInv, JoinInv, NoLostJoin, LoopSteps, Goto, End
<1>1. CASE Boot BY <1>1 DEF Boot, wifiVars
<1>2. CASE WifiAccepted BY <1>2 DEF WifiAccepted
<1>3. CASE WifiRefused BY <1>3 DEF WifiRefused
<1>4. CASE WifiPoll \/ WifiGaveUp \/ WifiUp
  BY <1>4 DEF WifiPoll, WifiGaveUp, WifiUp, Unconnected, wifiVars
<1>5. CASE Prepare \/ Register BY <1>5 DEF Prepare, Register, wifiVars
<1> QED BY <1>1, <1>2, <1>3, <1>4, <1>5 DEF plat_net_wifi_up

\* The online loop stays where only a connection leads, or ends.
LEMMA LoopStays ==
  ASSUME OnlineLoop
  PROVE  pc \in LoopSteps /\ pc' \in LoopSteps \cup {"end"} /\ UNCHANGED wifiVars
BY DEF OnlineLoop, http_serve_pending, Accept, Answer, ServedAll, NextStep, Beat, BeatFails, Ship,
       ShipFails, Poll, Sleep, Goto, End, LoopSteps

\* The callback may come while the agent waits, or after it gave up.
LEMMA JoinDriver ==
  ASSUME ThreadInv, Driver
  PROVE  JoinInv'
<1>1. PICK ok \in BOOLEAN : WifiResult(ok) BY DEF Driver
<1> QED BY <1>1 DEF WifiResult, wifi_evt, ThreadInv, JoinInv, NoLostJoin

\* No step loses a connection that could be seen.
LEMMA JoinStep == ThreadInv /\ [Next]_vars => JoinInv'
<1> SUFFICES ASSUME ThreadInv, [Next]_vars PROVE JoinInv' OBVIOUS
<1> USE DEF ThreadInv, JoinInv, NoLostJoin, wifiVars
<1>1. CASE Application
  BY <1>1 DEF Application, StartCall, Configure, Mark, Create, Goto, StartInv, LoopSteps
<1>2. CASE Boot \/ plat_net_wifi_up \/ Prepare \/ Register BY <1>2, JoinBringUp
<1>3. CASE OnlineLoop BY <1>3, LoopStays DEF LoopSteps
<1>4. CASE Driver BY <1>4, JoinDriver
<1>5. CASE Environment
  BY <1>5 DEF Environment, ClientConnects, ClientSends, RequestLog, Offboard
<1>6. CASE UNCHANGED vars BY <1>6 DEF vars
<1> QED BY <1>1, <1>2, <1>3, <1>4, <1>5, <1>6 DEF Next, agent_main

-----------------------------------------------------------------------------
(* Log requests.                                                           *)

\* Bring-up, the callback and the application touch no request, and enter no
\* upload.
LEMMA LogElsewhere ==
  ASSUME Application \/ Boot \/ plat_net_wifi_up \/ Prepare \/ Register \/ Driver
  PROVE  UNCHANGED logVars /\ (pc' = "ship" => pc = "ship")
BY DEF Application, StartCall, Configure, Mark, Create, Boot, plat_net_wifi_up, WifiAccepted,
       WifiRefused, WifiPoll, WifiGaveUp, WifiUp, Prepare, Register, Driver, WifiResult, Goto, End

\* The heartbeat's answer, the upload, and the loop around them.
LEMMA LogLoop ==
  ASSUME ThreadInv, OnlineLoop
  PROVE  LogInv'
<1> USE DEF ThreadInv, LogInv, ShipsWhatIsWanted, Goto, End
<1>1. CASE http_serve_pending \/ Poll \/ Sleep
  BY <1>1
  DEF http_serve_pending, Accept, Answer, ServedAll, NextStep, Poll, Sleep, logVars
<1>2. CASE Beat \/ BeatFails BY <1>2 DEF Beat, BeatFails
<1>3. CASE Ship
  <2>1. /\ pc = "ship" /\ pc' = "poll" /\ shipped' = shipped \cup {log_req} /\ asked' = asked
        /\ wanted' = IF wanted = log_req THEN 0 ELSE wanted
    BY <1>3 DEF Ship
  <2>2. wanted' = 0 /\ 0 \notin shipped' /\ wanted \in Nat /\ asked \in Nat
    BY <2>1 DEF TypeOK
  <2> QED BY <2>1, <2>2
<1>4. CASE ShipFails BY <1>4 DEF ShipFails, logVars
<1> QED BY <1>1, <1>2, <1>3, <1>4 DEF OnlineLoop

\* A new request has an id that none before it had.
LEMMA LogStep == ThreadInv /\ [Next]_vars => LogInv'
<1> SUFFICES ASSUME ThreadInv, [Next]_vars PROVE LogInv' OBVIOUS
<1> USE DEF ThreadInv, LogInv, ShipsWhatIsWanted
<1>1. CASE Application \/ Boot \/ plat_net_wifi_up \/ Prepare \/ Register \/ Driver
  BY <1>1, LogElsewhere DEF logVars
<1>2. CASE OnlineLoop BY <1>2, LogLoop
<1>3. CASE RequestLog
  <2>1. /\ wanted = 0 /\ asked' = asked + 1 /\ wanted' = asked + 1
        /\ UNCHANGED <<pc, log_req, shipped>>
    BY <1>3 DEF RequestLog
  <2>2. asked \in Nat /\ \A id \in shipped : id \in Nat BY DEF TypeOK
  <2> QED BY <2>1, <2>2
<1>4. CASE ClientConnects \/ ClientSends \/ Offboard
  BY <1>4 DEF ClientConnects, ClientSends, Offboard, logVars
<1>5. CASE UNCHANGED vars BY <1>5 DEF vars, logVars
<1> QED BY <1>1, <1>2, <1>3, <1>4, <1>5 DEF Next, agent_main, Environment
-----------------------------------------------------------------------------
(* Decommissioning.                                                        *)

\* The end is final: no step of the agent starts there.
LEMMA EndIsFinal ==
  ASSUME agent_main
  PROVE  pc # "end"
BY DEF agent_main, Boot, plat_net_wifi_up, WifiAccepted, WifiRefused, WifiPoll, WifiGaveUp, WifiUp,
       Prepare, Register, OnlineLoop, http_serve_pending, Accept, Answer, ServedAll, Beat,
       BeatFails, Ship, ShipFails, Poll, Sleep

\* The agent that is told ends in the same step.
LEMMA ToldStep == ThreadInv /\ [Next]_vars => ToldInv'
<1> SUFFICES ASSUME ThreadInv, [Next]_vars PROVE ToldInv' OBVIOUS
<1> USE DEF ThreadInv, ToldInv
<1>1. CASE Application
  BY <1>1 DEF Application, StartCall, Configure, Mark, Create, cloudVars, StartInv
<1>2. CASE agent_main
  <2>1. ~told BY <1>2, EndIsFinal
  <2>2. CASE Beat BY <2>1, <2>2 DEF Beat, End
  <2>3. CASE ~Beat
    BY <1>2, <2>1, <2>3
    DEF agent_main, Boot, plat_net_wifi_up, WifiAccepted, WifiRefused, WifiPoll, WifiGaveUp, WifiUp,
        Prepare, Register, OnlineLoop, http_serve_pending, Accept, Answer, ServedAll, BeatFails,
        Ship, ShipFails, Poll, Sleep, cloudVars
  <2> QED BY <2>2, <2>3
<1>3. CASE Driver \/ ClientConnects \/ ClientSends \/ RequestLog \/ Offboard
  BY <1>3 DEF Driver, WifiResult, ClientConnects, ClientSends, RequestLog, Offboard, cloudVars
<1>4. CASE UNCHANGED vars BY <1>4 DEF vars, cloudVars
<1> QED BY <1>1, <1>2, <1>3, <1>4 DEF Next, Environment

-----------------------------------------------------------------------------
(* Types.                                                                  *)

\* The application and the driver.
LEMMA TypeApplication == ThreadInv /\ (Application \/ Driver) => TypeOK'
<1> SUFFICES ASSUME ThreadInv, Application \/ Driver PROVE TypeOK' OBVIOUS
<1> USE DEF ThreadInv, TypeOK, webVars, wifiVars, logVars, cloudVars, appVars
<1>1. CASE Application
  <2>1. calls' \in 0..MaxCalls /\ created' \in Nat
    BY <1>1, BoundsAssumption DEF Application, StartCall, Configure, Mark, Create
  <2>2. CASE StartCall BY <2>1, <2>2 DEF StartCall
  <2>3. CASE Configure \/ Mark \/ Create
    BY <2>1, <2>3 DEF Configure, Mark, Create, Goto, BringUp
  <2> QED BY <1>1, <2>2, <2>3 DEF Application
<1>2. CASE Driver
  <2>1. PICK ok \in BOOLEAN : WifiResult(ok) BY <1>2 DEF Driver
  <2> QED BY <2>1 DEF WifiResult, wifi_evt
<1> QED BY <1>1, <1>2

\* Bring-up.
LEMMA TypeBringUp ==
  ThreadInv /\ (Boot \/ plat_net_wifi_up \/ Prepare \/ Register) => TypeOK'
<1> SUFFICES ASSUME ThreadInv, Boot \/ plat_net_wifi_up \/ Prepare \/ Register
             PROVE  TypeOK'
  OBVIOUS
<1> USE DEF ThreadInv, TypeOK, webVars, wifiVars, logVars, cloudVars, appVars, Goto, End, BringUp,
            LoopSteps
<1>1. CASE Boot \/ Prepare BY <1>1 DEF Boot, Prepare
<1>2. CASE WifiAccepted \/ WifiGaveUp \/ WifiUp BY <1>2 DEF WifiAccepted, WifiGaveUp, WifiUp
<1>3. CASE WifiRefused
  <2>1. tries' \in 0..Requests BY <1>3, BoundsAssumption DEF WifiRefused
  <2> QED BY <1>3, <2>1 DEF WifiRefused
<1>4. CASE WifiPoll
  <2>1. waits' \in 0..Waits BY <1>4, BoundsAssumption DEF WifiPoll
  <2> QED BY <1>4, <2>1 DEF WifiPoll
<1>5. CASE Register BY <1>5 DEF Register, http_listen
<1> QED BY <1>1, <1>2, <1>3, <1>4, <1>5 DEF plat_net_wifi_up

\* The online loop.
LEMMA TypeLoop == ThreadInv /\ OnlineLoop => TypeOK'
<1> SUFFICES ASSUME ThreadInv, OnlineLoop PROVE TypeOK' OBVIOUS
<1> USE DEF ThreadInv, TypeOK, webVars, wifiVars, logVars, cloudVars, appVars, Goto, End, LoopSteps
<1>1. CASE Accept
  <2>1. clients' \in 0..Backlog BY <1>1, BoundsAssumption DEF Accept
  <2> QED BY <1>1, <2>1 DEF Accept
<1>2. CASE Answer \/ ServedAll \/ Poll \/ ShipFails
  BY <1>2 DEF Answer, ServedAll, NextStep, Poll, ShipFails
<1>3. CASE Beat \/ BeatFails
  <2>1. log_req' \in 0..MaxLogRequests BY <1>3, BoundsAssumption DEF Beat, BeatFails
  <2> QED BY <1>3, <2>1 DEF Beat, BeatFails
<1>4. CASE Ship
  <2>1. log_req \in 1..MaxLogRequests /\ 0 \in 0..MaxLogRequests
    BY <1>4, BoundsAssumption DEF Ship, LogInv, ShipsWhatIsWanted
  <2> QED BY <1>4, <2>1 DEF Ship
<1>5. CASE Sleep
  <2>1. tick' \in 0..(POLL_TICKS - 1) BY <1>5, BoundsAssumption, TickBound DEF Sleep
  <2> QED BY <1>5, <2>1 DEF Sleep
<1> QED BY <1>1, <1>2, <1>3, <1>4, <1>5 DEF OnlineLoop, http_serve_pending

\* Clients and the operator.
LEMMA TypeEnvironment == ThreadInv /\ Environment => TypeOK'
<1> SUFFICES ASSUME ThreadInv, Environment PROVE TypeOK' OBVIOUS
<1> USE DEF ThreadInv, TypeOK, webVars, wifiVars, logVars, cloudVars, appVars
<1>1. CASE ClientConnects
  <2>1. clients' \in 0..Backlog
    BY <1>1, BoundsAssumption DEF ClientConnects
  <2> QED BY <1>1, <2>1 DEF ClientConnects
<1>2. CASE ClientSends \/ Offboard BY <1>2 DEF ClientSends, Offboard
<1>3. CASE RequestLog
  <2>1. {wanted', asked'} \subseteq 0..MaxLogRequests BY <1>3, BoundsAssumption DEF RequestLog
  <2> QED BY <1>3, <2>1 DEF RequestLog
<1> QED BY <1>1, <1>2, <1>3 DEF Environment

-----------------------------------------------------------------------------
(* Theorems.                                                               *)

\* The parts hold together at every step of every thread.
THEOREM ThreadInvariant == Spec => []ThreadInv
<1>1. ThreadInv /\ [Next]_vars => ThreadInv'
  <2>1. ThreadInv /\ UNCHANGED vars => TypeOK'
    BY DEF ThreadInv, TypeOK, vars, webVars, wifiVars, logVars, cloudVars, appVars
  <2>2. ThreadInv /\ [Next]_vars => TypeOK'
    BY <2>1, TypeApplication, TypeBringUp, TypeLoop, TypeEnvironment DEF Next, agent_main
  <2> QED BY <2>2, StartStep, JoinStep, LogStep, ToldStep DEF ThreadInv
<1> QED BY <1>1, ThreadInit, PTL DEF Spec

\* However often meshanics_agent_start is called, one configured agent thread
\* runs.
THEOREM StartedOnceHolds == Spec => []StartedOnce
<1>1. ThreadInv => StartedOnce BY DEF ThreadInv, StartInv, StartedOnce
<1> QED BY <1>1, ThreadInvariant, PTL

\* plat_net_wifi_up never gives up on a connection reported in time, nor goes
\* on without one, wherever the callback falls between its polls.
THEOREM NoLostJoinHolds == Spec => []NoLostJoin
<1>1. ThreadInv => NoLostJoin BY DEF ThreadInv, JoinInv
<1> QED BY <1>1, ThreadInvariant, PTL

\* ship_logs uploads only under an id that is pending at the control plane and
\* was never answered, however many heartbeats and uploads failed before.
THEOREM ShipsWhatIsWantedHolds == Spec => []ShipsWhatIsWanted
<1>1. ThreadInv => ShipsWhatIsWanted BY DEF ThreadInv, LogInv
<1> QED BY <1>1, ThreadInvariant, PTL

\* The safety half of OffboardStops: an agent that was told that it is
\* decommissioned has ended, and a later call of meshanics_agent_start does
\* not bring it back.
THEOREM ToldIsSilent == Spec => [](told => pc = "end")
<1>1. ThreadInv => (told => pc = "end") BY DEF ThreadInv, ToldInv
<1> QED BY <1>1, ThreadInvariant, PTL
=============================================================================
