----------------------------- MODULE AgentThread ---------------------------
(***************************************************************************)
(* The agent thread of lib/meshanics_agent.c among the threads around it:  *)
(* the application that starts it (meshanics_agent_start), the network     *)
(* stack whose event callback reports the WiFi result (wifi_evt and        *)
(* plat_net_wifi_up, lib/plat/plat_net.c), clients of the HTTP status page *)
(* (http_serve_pending), and the control plane that answers heartbeats.    *)
(*                                                                         *)
(* What a boot does between WiFi and the online loop, and the OTA poll with*)
(* its reboots, are module Agent's; here each is one step.                 *)
(* Faults: "start", "wifi", "listen", "accept", "net".  Clients of the     *)
(* status page come as they like and need not send anything.               *)
(***************************************************************************)
EXTENDS Integers

CONSTANTS Faults,
          MaxCalls,    \* bound on the calls of meshanics_agent_start
          Requests,    \* connect requests of plat_net_wifi_up (10)
          Waits,       \* polls of wifi_connected (200)
          POLL_TICKS,  \* CONFIG_MESHANICS_POLL_INTERVAL_SEC
          Backlog,     \* connections the listener keeps waiting (2)
          MaxLogRequests   \* bound on the log requests of the operator

ASSUME BoundsAssumption == /\ MaxCalls \in Nat \ {0} /\ Requests \in Nat /\ Waits \in Nat
                           /\ POLL_TICKS \in Nat \ {0} /\ Backlog \in Nat
                           /\ MaxLogRequests \in Nat

VARIABLES app,         \* next step of the application in meshanics_agent_start
          calls,       \* calls so far
          started, configured,  \* self.started; self.cfg and self.version are set
          created,     \* agent threads created
          pc,          \* next step of the agent thread
          tries, waits,         \* loop counters of plat_net_wifi_up
          joining,     \* the driver works on a connect request
          wifi_connected,
          joined,      \* history: a success was reported while it could be seen
          http,        \* the status listener is up
          clients,     \* connections waiting on the listener
          ready,       \* the accepted client has sent its request or closed
          tick,        \* tick % POLL_TICKS
          log_req,     \* request id of the last answer, 0 = empty
          wanted,      \* log request pending at the control plane, 0 = none
          asked,       \* log requests so far
          shipped,     \* history: ids the control plane received a log for
          offboarded,  \* the operator decommissioned the device
          told         \* history: the agent was told so

appVars == <<app, calls, started, configured>>
wifiVars == <<tries, waits, joining, wifi_connected, joined>>
webVars == <<http, clients, ready>>
logVars == <<log_req, wanted, asked, shipped>>
cloudVars == <<offboarded, told>>
vars == <<appVars, created, pc, wifiVars, webVars, tick, logVars, cloudVars>>

BringUp == {"boot", "request", "wait", "dhcp", "online"}
LoopSteps == {"serve", "recv", "beat", "ship", "poll", "sleep"}

TypeOK == /\ app \in {"idle", "configure", "mark", "create"} /\ calls \in 0..MaxCalls
          /\ {started, configured, joining, wifi_connected, joined} \subseteq BOOLEAN
          /\ created \in Nat /\ pc \in {"none", "no_network", "end"} \cup BringUp \cup LoopSteps
          /\ tries \in 0..Requests /\ waits \in 0..Waits
          /\ {http, ready, offboarded, told} \subseteq BOOLEAN
          /\ clients \in 0..Backlog /\ tick \in 0..(POLL_TICKS - 1)
          /\ {log_req, wanted, asked} \subseteq 0..MaxLogRequests
          /\ shipped \subseteq 1..MaxLogRequests

Init == /\ app = "idle" /\ calls = 0 /\ started = FALSE /\ configured = FALSE
        /\ created = 0 /\ pc = "none"
        /\ tries = 0 /\ waits = 0 /\ joining = FALSE /\ wifi_connected = FALSE /\ joined = FALSE
        /\ http = FALSE /\ clients = 0 /\ ready = FALSE /\ tick = 0
        /\ log_req = 0 /\ wanted = 0 /\ asked = 0 /\ shipped = {}
        /\ offboarded = FALSE /\ told = FALSE

Goto(next) == pc' = next
End == pc' = "end"

-----------------------------------------------------------------------------
(* The application: meshanics_agent_start, called once or again.           *)

StartCall == /\ app = "idle" /\ calls < MaxCalls /\ calls' = calls + 1
             /\ app' = IF started THEN "idle" ELSE "configure"   \* MESHANICS_ERR_STATE
             /\ UNCHANGED <<started, configured, created, pc, wifiVars, webVars, tick,
                            logVars, cloudVars>>

\* Mutant: the thread is created before it is marked and configured.
create_first == /\ app = "configure" /\ app' = "mark"
                /\ created' = created + 1 /\ pc' = "boot"
                /\ UNCHANGED <<calls, started, configured, wifiVars, webVars, tick,
                               logVars, cloudVars>>
Configure == /\ app = "configure" /\ app' = "mark" /\ configured' = TRUE
             /\ UNCHANGED <<calls, started, created, pc, wifiVars, webVars, tick,
                            logVars, cloudVars>>

Mark == /\ app = "mark" /\ app' = "create" /\ started' = TRUE
        /\ UNCHANGED <<calls, configured, created, pc, wifiVars, webVars, tick,
                       logVars, cloudVars>>

\* k_thread_create: the thread starts at agent_main.
Create == /\ app = "create" /\ app' = "idle"
          /\ created' = created + 1 /\ Goto("boot")
          /\ UNCHANGED <<calls, started, configured, wifiVars, webVars, tick, logVars, cloudVars>>

-----------------------------------------------------------------------------
(* agent_main and plat_net_wifi_up, with the callback beside them.         *)

\* psa_crypto_init and the provisioning config.
Boot == /\ pc = "boot" /\ (Goto("request") \/ ("start" \in Faults /\ End))
        /\ UNCHANGED <<appVars, created, wifiVars, webVars, tick, logVars, cloudVars>>

\* NET_REQUEST_WIFI_CONNECT until one is accepted or the tries are used up;
\* either way the agent goes on to wait.
WifiAccepted == /\ pc = "request" /\ tries < Requests
                /\ joining' = TRUE /\ Goto("wait")
                /\ UNCHANGED <<appVars, created, tries, waits, wifi_connected, joined,
                               webVars, tick, logVars, cloudVars>>
WifiRefused == /\ pc = "request"
               /\ \/ tries < Requests /\ "wifi" \in Faults /\ tries' = tries + 1 /\ UNCHANGED pc
                  \/ tries = Requests /\ Goto("wait") /\ UNCHANGED tries
               /\ UNCHANGED <<appVars, created, waits, joining, wifi_connected, joined,
                              webVars, tick, logVars, cloudVars>>

\* The callback only looks at the status; it sets the flag and never clears it.
wifi_evt(ok) == wifi_connected' = (wifi_connected \/ ok)

\* The driver finishes, at any time, also after the agent gave up.
WifiResult(ok) == /\ joining /\ joining' = FALSE
                  /\ ok \/ "wifi" \in Faults
                  /\ wifi_evt(ok)
                  /\ joined' = (joined \/ (ok /\ pc = "wait"))
                  /\ UNCHANGED <<appVars, created, pc, tries, waits, webVars, tick,
                                 logVars, cloudVars>>

\* Mutant: after the last poll the flag is not read again.
gives_up_unread == waits = Waits
\* The wait loop ends with the flag set or its polls used up.
Unconnected == waits = Waits /\ ~wifi_connected

WifiPoll == /\ pc = "wait" /\ waits < Waits /\ ~wifi_connected
            /\ waits' = waits + 1
            /\ UNCHANGED <<appVars, created, pc, tries, joining, wifi_connected, joined,
                           webVars, tick, logVars, cloudVars>>
\* boot_confirm(0) reboots an unconfirmed image (module Agent); a confirmed
\* one goes offline.
WifiGaveUp == /\ pc = "wait" /\ Unconnected /\ Goto("no_network")
              /\ UNCHANGED <<appVars, created, wifiVars, webVars, tick, logVars, cloudVars>>
WifiUp == /\ pc = "wait" /\ wifi_connected /\ Goto("dhcp")
          /\ UNCHANGED <<appVars, created, wifiVars, webVars, tick, logVars, cloudVars>>

\* The DHCP pause, the identity and boot_confirm(1).
Prepare == /\ pc = "dhcp" /\ (Goto("online") \/ ("start" \in Faults /\ End))
           /\ UNCHANGED <<appVars, created, wifiVars, webVars, tick, logVars, cloudVars>>

\* The listener comes up, or the agent goes on without it.
http_listen == IF "listen" \in Faults THEN BOOLEAN ELSE {TRUE}
\* plat_register, whose result is ignored, and http_listen.
Register == /\ pc = "online" /\ Goto("serve")
            /\ http' \in http_listen
            /\ UNCHANGED <<appVars, created, wifiVars, clients, ready, tick, logVars, cloudVars>>

-----------------------------------------------------------------------------
(* The online loop: the status page on every tick, the rest on a poll tick.*)

\* Mutant: the poll is due on a tick that the counter never reaches.
never_due == IF tick = POLL_TICKS THEN "beat" ELSE "sleep"
NextStep == IF tick = 0 THEN "beat" ELSE "sleep"

\* http_serve_pending accepts as long as somebody waits ...
Accept == /\ pc = "serve" /\ http /\ clients > 0
          /\ clients' = clients - 1 /\ ready' = FALSE /\ Goto("recv")
          /\ UNCHANGED <<appVars, created, wifiVars, http, tick, logVars, cloudVars>>
\* ... reads the request without a timeout, and answers.
Answer == /\ pc = "recv" /\ ready /\ Goto("serve")
          /\ UNCHANGED <<appVars, created, wifiVars, webVars, tick, logVars, cloudVars>>
\* Nobody waits any more, or accept failed.
ServedAll == /\ pc = "serve" /\ (~http \/ clients = 0 \/ "accept" \in Faults)
             /\ Goto(NextStep)
             /\ UNCHANGED <<appVars, created, wifiVars, webVars, tick, logVars, cloudVars>>

\* Mutant: the answer "decommissioned" is taken for a failed heartbeat.
beat_decommissioned_ignored == /\ pc = "beat" /\ log_req' = IF offboarded THEN 0 ELSE wanted
                               /\ Goto(IF log_req' # 0 THEN "ship" ELSE "poll")
                               /\ UNCHANGED <<appVars, created, wifiVars, webVars, tick, wanted,
                                              asked, shipped, cloudVars>>
\* Mutant: the request id is dropped although it was extracted.
beat_drops_id == /\ pc = "beat" /\ log_req' = 0
                 /\ IF offboarded THEN End /\ told' = TRUE ELSE Goto("poll") /\ UNCHANGED told
                 /\ UNCHANGED <<appVars, created, wifiVars, webVars, tick, wanted, asked, shipped,
                                offboarded>>
\* plat_heartbeat answered: 0 when decommissioned, else 1 with a request id
\* when the control plane wants the log.
Beat == /\ pc = "beat" /\ log_req' = IF offboarded THEN 0 ELSE wanted
        /\ IF offboarded THEN End /\ told' = TRUE
           ELSE /\ Goto(IF log_req' # 0 THEN "ship" ELSE "poll")
                /\ UNCHANGED told
        /\ UNCHANGED <<appVars, created, wifiVars, webVars, tick, wanted, asked, shipped, offboarded>>
\* Mutant: the id of an earlier answer stays in the buffer and is used again.
beat_keeps_id == /\ pc = "beat" /\ "net" \in Faults
                 /\ Goto(IF log_req # 0 THEN "ship" ELSE "poll")
                 /\ UNCHANGED <<appVars, created, wifiVars, webVars, tick, logVars, cloudVars>>
\* No answer: plat_heartbeat has emptied log_req, and hb is negative.
BeatFails == /\ pc = "beat" /\ "net" \in Faults
             /\ log_req' = 0 /\ Goto("poll")
             /\ UNCHANGED <<appVars, created, wifiVars, webVars, tick, wanted, asked, shipped,
                            cloudVars>>

\* ship_logs: the upload arrives and ends the request, or it fails; the agent
\* may not learn that it arrived.
Ship == /\ pc = "ship" /\ Goto("poll")
        /\ shipped' = shipped \cup {log_req}
        /\ wanted' = IF wanted = log_req THEN 0 ELSE wanted
        /\ UNCHANGED <<appVars, created, wifiVars, webVars, tick, log_req, asked, cloudVars>>
ShipFails == /\ pc = "ship" /\ "net" \in Faults /\ Goto("poll")
             /\ UNCHANGED <<appVars, created, wifiVars, webVars, tick, logVars, cloudVars>>

\* poll_once.
Poll == /\ pc = "poll" /\ Goto("sleep")
        /\ UNCHANGED <<appVars, created, wifiVars, webVars, tick, logVars, cloudVars>>
Sleep == /\ pc = "sleep" /\ tick' = (tick + 1) % POLL_TICKS /\ Goto("serve")
         /\ UNCHANGED <<appVars, created, wifiVars, webVars, logVars, cloudVars>>

-----------------------------------------------------------------------------
(* Clients of the status page, and the operator.                           *)

ClientConnects == /\ http /\ clients < Backlog /\ clients' = clients + 1
                  /\ UNCHANGED <<appVars, created, pc, wifiVars, http, ready, tick,
                                 logVars, cloudVars>>
ClientSends == /\ pc = "recv" /\ ~ready /\ ready' = TRUE
               /\ UNCHANGED <<appVars, created, pc, wifiVars, http, clients, tick, logVars, cloudVars>>
RequestLog == /\ wanted = 0 /\ asked < MaxLogRequests
              /\ asked' = asked + 1 /\ wanted' = asked + 1
              /\ UNCHANGED <<appVars, created, pc, wifiVars, webVars, tick, log_req, shipped,
                             cloudVars>>
Offboard == /\ ~offboarded /\ offboarded' = TRUE
            /\ UNCHANGED <<appVars, created, pc, wifiVars, webVars, tick, logVars, told>>

-----------------------------------------------------------------------------

Application == StartCall \/ Configure \/ Mark \/ Create
plat_net_wifi_up == WifiAccepted \/ WifiRefused \/ WifiPoll \/ WifiGaveUp \/ WifiUp
http_serve_pending == Accept \/ Answer \/ ServedAll
OnlineLoop == http_serve_pending \/ Beat \/ BeatFails \/ Ship \/ ShipFails \/ Poll \/ Sleep
agent_main == Boot \/ plat_net_wifi_up \/ Prepare \/ Register \/ OnlineLoop
Driver == \E ok \in BOOLEAN : WifiResult(ok)
Environment == ClientConnects \/ ClientSends \/ RequestLog \/ Offboard
Next == Application \/ agent_main \/ Driver \/ Environment
Spec == Init /\ [][Next]_vars

\* The scheduler runs both threads, and a request to the control plane gets
\* through sometimes.  Nothing is assumed of the clients of the status page.
FairSpec == /\ Spec /\ WF_vars(Application) /\ WF_vars(agent_main)
            /\ SF_vars(Beat) /\ SF_vars(Ship)

-----------------------------------------------------------------------------
(* Properties.                                                             *)

\* However often the application calls meshanics_agent_start, one agent
\* thread runs, and it runs with its configuration in place.
StartedOnce == created <= 1 /\ (pc # "none" => started /\ configured)

\* A connection that wifi_evt reports while plat_net_wifi_up may still see it
\* is never given up, and without one the agent never goes on.
NoLostJoin == /\ pc = "no_network" => ~joined
              /\ pc \in {"dhcp", "online"} \cup LoopSteps => joined

\* What the comment of http_serve_pending says, that it "never blocks the
\* agent's heartbeat/poll cadence": an agent that is online sends heartbeats
\* for ever, unless it is decommissioned.
HeartbeatsGoOn == pc \in LoopSteps ~> (pc = "beat" \/ told)

\* From some point on the thread never leaves http_serve_pending: a client is
\* silent, or the next one is always there already.
HeldByClients == <>[](pc \in {"serve", "recv"})

\* Nothing but the clients of http_serve_pending stops the heartbeats of
\* agent_main's loop: failed requests, uploads and polls never do.
BeatsUnlessHeld == HeldByClients \/ (pc \in LoopSteps ~> (pc = "beat" \/ told))

\* A log is uploaded only under an id that the operator asked for and that was
\* not answered before: plat_heartbeat empties log_req before it asks.
ShipsWhatIsWanted == pc = "ship" => /\ log_req # 0 /\ log_req = wanted
                                    /\ log_req \notin shipped

\* A log request is answered in the end, however often the heartbeat or the
\* upload fails, unless clients hold the thread: the control plane repeats it
\* until it has the log (agent_main, ship_logs).
LogsShipped == \/ HeldByClients
               \/ \A id \in 1..MaxLogRequests :
                    (wanted = id /\ pc \in LoopSteps) ~> (id \in shipped \/ told)

\* Once told that it is decommissioned the agent is silent for good, and it is
\* told in the end, unless clients hold the thread (agent_main).
OffboardStops == /\ [](told => pc = "end")
                 /\ HeldByClients \/ ((offboarded /\ pc \in LoopSteps) ~> (pc = "end"))

-----------------------------------------------------------------------------
(* The inductive invariant behind the safety properties.                   *)

\* A call of meshanics_agent_start that goes on is the first one, and the
\* thread it creates finds what the call wrote before.
StartInv == /\ created = IF pc = "none" THEN 0 ELSE 1
            /\ app # "idle" => pc = "none"
            /\ app \in {"mark", "create"} => configured
            /\ started <=> (app = "create" \/ pc # "none")
            /\ pc # "none" => configured

\* The flag is set by a request of this wait or after the wait ended.
JoinInv == /\ pc \in {"none", "boot", "request"} => ~joining /\ ~wifi_connected
           /\ joined => wifi_connected
           /\ pc = "wait" /\ wifi_connected => joined
           /\ NoLostJoin

\* Ids are fresh, so a pending request was never answered.
LogInv == /\ wanted <= asked /\ \A id \in shipped : id <= asked
          /\ wanted \notin shipped
          /\ ShipsWhatIsWanted

\* The agent hears it last.
ToldInv == told => offboarded /\ pc = "end"

ThreadInv == TypeOK /\ StartInv /\ JoinInv /\ LogInv /\ ToldInv
=============================================================================
