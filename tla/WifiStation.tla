------------------------------ MODULE WifiStation ------------------------------
(***************************************************************************)
(* How the controller gets and stays on the network: src/main/dev_wifi.c,  *)
(* the web server's start and stop and the two handlers of                 *)
(* src/main/dev_web_server.c that configure the network, and the stored    *)
(* credentials of src/main/dev_memory.c.  Three tasks run this code: the   *)
(* main task once, the event task for every event of the driver, and the   *)
(* web server's task for every request.  What a task still has to do is a  *)
(* sequence of calls, and other tasks may run between any two of them.     *)
(*                                                                         *)
(* External, modelled from how this code uses them: the Wi-Fi driver, its  *)
(* event queue, httpd_start and httpd_stop.                                *)
(***************************************************************************)
EXTENDS DeviceClock

CONSTANTS
    EXAMPLE_ESP_MAXIMUM_RETRY,  \* 3 in the code
    MaxRequests,  \* bound: requests browsers send
    MaxDrops,     \* bound: times an established connection is lost
    MaxCuts,      \* bound: power cuts
    MaxEvents     \* bound: events queued when another client joins

ASSUME WifiConstants ==
    /\ EXAMPLE_ESP_MAXIMUM_RETRY \in Nat
    /\ MaxRequests \in Nat /\ MaxDrops \in Nat /\ MaxCuts \in Nat /\ MaxEvents \in Nat

Task == {"main", "event", "httpd"}
Credentials == {"none", "good", "bad"}  \* no SSID; accepted by the router or not
Request == {"good", "bad"}              \* /wifi_setting with such credentials,
           \union {"sta_start", "save"} \* /wifi_sta_start, the settings page

VARIABLES
    wifi_station_parm,  \* the credentials in RAM
    stored,             \* the blob "WIFI_parm"
    s_retry_num,
    server,             \* the web server runs
    pending,            \* requests it has received and not handled
    todo,               \* per task: the calls it still has to make
    wifi,               \* the driver: on, mode, configured credentials, link
    client,             \* a client has joined the controller's own network
    queue,              \* events not yet handled
    sent, drops, cuts

credVars == <<wifi_station_parm, stored>>
webVars == <<server, pending>>
driverVars == <<wifi, client, queue>>
countVars == <<sent, drops, cuts>>
vars == <<credVars, s_retry_num, webVars, todo, driverVars, countVars, clockVars>>

init_wifi_ap == <<"stop", "set_mode_ap", "set_config_ap", "start">>

\* Mutant: the station keeps the configuration it had.
wifi_config_sta_NotConfigured(parm) ==
    IF parm = "none" THEN init_wifi_ap ELSE <<"stop", "set_mode_sta", "start">>

wifi_config_sta(parm) ==
    IF parm = "none" THEN init_wifi_ap
    ELSE <<"stop", "set_mode_sta", "set_config_sta", "start">>
-----------------------------------------------------------------------------
(***************************************************************************)
(* The driver's calls.                                                     *)
(***************************************************************************)
Post(events) == queue' = queue \o events

\* A connected station reports that it is not any more; one that was still
\* connecting may.
Disconnected == IF wifi.link = "up" THEN {<<"STA_DISCONNECTED">>}
                ELSE IF wifi.link = "connecting" THEN {<<>>, <<"STA_DISCONNECTED">>}
                ELSE {<<>>}

esp_wifi_stop ==
    /\ wifi' = [wifi EXCEPT !.on = FALSE, !.link = "down"]
    /\ client' = FALSE
    /\ \E e \in Disconnected : Post(e)

\* The mode may also change under a driver another task has started.
esp_wifi_set_mode(m) ==
    IF wifi.on /\ wifi.mode # m
    THEN /\ wifi' = [wifi EXCEPT !.mode = m, !.link = "down"]
         /\ client' = FALSE
         /\ \E e \in Disconnected : Post(IF m = "sta" THEN Append(e, "STA_START") ELSE e)
    ELSE wifi' = [wifi EXCEPT !.mode = m] /\ UNCHANGED <<client, queue>>

esp_wifi_set_config(m) ==
    /\ wifi' = IF m = "sta" THEN [wifi EXCEPT !.config = wifi_station_parm] ELSE wifi
    /\ UNCHANGED <<client, queue>>

esp_wifi_start ==
    /\ wifi' = [wifi EXCEPT !.on = TRUE]
    /\ Post(IF ~wifi.on /\ wifi.mode = "sta" THEN <<"STA_START">> ELSE <<>>)
    /\ UNCHANGED client

esp_wifi_connect ==
    /\ wifi' = IF wifi.on /\ wifi.mode = "sta" /\ wifi.link = "down"
               THEN [wifi EXCEPT !.link = "connecting"] ELSE wifi
    /\ UNCHANGED <<client, queue>>

DriverCall(call) ==
    \/ call = "stop" /\ esp_wifi_stop
    \/ call = "set_mode_ap" /\ esp_wifi_set_mode("ap")
    \/ call = "set_mode_sta" /\ esp_wifi_set_mode("sta")
    \/ call = "set_config_ap" /\ wifi.mode = "ap" /\ esp_wifi_set_config("ap")
    \/ call = "set_config_sta" /\ wifi.mode = "sta" /\ esp_wifi_set_config("sta")
    \/ call = "start" /\ esp_wifi_start
    \/ call = "connect" /\ esp_wifi_connect

Next_call(t) == Head(todo[t])
Done(t) == todo' = [todo EXCEPT ![t] = Tail(@)]

CallDriver(t) ==
    /\ todo[t] # <<>>
    /\ DriverCall(Next_call(t))
    /\ Done(t)
    /\ UNCHANGED <<credVars, s_retry_num, webVars, countVars, clockVars>>
-----------------------------------------------------------------------------
(***************************************************************************)
(* Events.  Two handlers are registered for a lost connection, and they    *)
(* may run in either order.  For a new address there are two as well; both *)
(* start the server, and the second start fails, in either order.          *)
(***************************************************************************)
\* Mutant: one attempt more.
lost_OneMore ==
    IF s_retry_num <= EXAMPLE_ESP_MAXIMUM_RETRY THEN <<"connect", "count_retry">>
    ELSE init_wifi_ap

\* Mutant: nothing is done after the last attempt.
lost_GivesUp ==
    IF s_retry_num < EXAMPLE_ESP_MAXIMUM_RETRY THEN <<"connect", "count_retry">> ELSE <<>>

lost ==
    IF s_retry_num < EXAMPLE_ESP_MAXIMUM_RETRY THEN <<"connect", "count_retry">>
    ELSE init_wifi_ap

\* Mutant: a client of the own network does not start the server.
event_handler_NoServerInAp(e) ==
    CASE e = "STA_START" -> {<<"connect">>}
      [] e = "STA_DISCONNECTED" -> {lost \o <<"stop_webserver">>}
      [] e = "GOT_IP" -> {<<"start_webserver", "reset_retry", "init_time">>}
      [] e = "AP_STACONNECTED" -> {<<>>}

\* Mutant: the station is started and not connected.
event_handler_NoConnect(e) ==
    CASE e = "STA_DISCONNECTED" -> {lost \o <<"stop_webserver">>}
      [] e = "GOT_IP" -> {<<"start_webserver", "reset_retry", "init_time">>}
      [] e = "AP_STACONNECTED" -> {<<"start_webserver">>}
      [] OTHER -> {<<>>}

event_handler(e) ==
    CASE e = "STA_START" -> {<<"connect">>}
      [] e = "STA_DISCONNECTED" ->
            {lost \o <<"stop_webserver">>, <<"stop_webserver">> \o lost}
      [] e = "GOT_IP" ->
            {<<"start_webserver", "reset_retry", "start_webserver", "init_time">>,
             <<"reset_retry", "start_webserver", "init_time", "start_webserver">>}
      [] e = "AP_STACONNECTED" -> {<<"start_webserver">>}

TakeEvent ==
    /\ todo["event"] = <<>> /\ queue # <<>>
    /\ \E calls \in event_handler(Head(queue)) : todo' = [todo EXCEPT !["event"] = calls]
    /\ queue' = Tail(queue)
    /\ UNCHANGED <<credVars, s_retry_num, webVars, wifi, client, countVars, clockVars>>

\* httpd_start fails while a server runs, and that is only logged.
start_webserver ==
    /\ server' = TRUE
    /\ UNCHANGED <<pending, s_retry_num>>

\* httpd_stop waits until the server's task has finished its request; what
\* other requests the server has received is dropped.
stop_webserver ==
    /\ server => todo["httpd"] = <<>>
    /\ server' = FALSE /\ pending' = {}
    /\ UNCHANGED s_retry_num

count_retry == s_retry_num' = s_retry_num + 1 /\ UNCHANGED webVars
reset_retry == s_retry_num' = 0 /\ UNCHANGED webVars

EventStep ==
    /\ todo["event"] # <<>>
    /\ LET call == Next_call("event")
       IN  \/ call = "start_webserver" /\ start_webserver
           \/ call = "stop_webserver" /\ stop_webserver
           \/ call = "count_retry" /\ count_retry
           \/ call = "reset_retry" /\ reset_retry
    /\ Done("event")
    /\ UNCHANGED <<credVars, driverVars, countVars, clockVars>>

ClockStep ==
    /\ todo["event"] # <<>>
    /\ LET rest == Tail(todo["event"])
           Then(calls) == todo' = [todo EXCEPT !["event"] = calls]
       IN  CASE Next_call("event") = "init_time" ->
                    Then(init_time \o rest) /\ UNCHANGED clockVars
             [] Next_call("event") = "initialize_sntp" -> initialize_sntp /\ Then(rest)
             [] Next_call("event") = "poll" ->
                    Poll /\ Then(IF PollEnds THEN rest ELSE todo["event"])
             [] Next_call("event") = "read" -> ReadTime /\ Then(rest)
             [] Next_call("event") = "correct" -> CorrectTime /\ Then(rest)
             [] Next_call("event") = "announce" -> Then(rest) /\ UNCHANGED clockVars
             [] OTHER -> FALSE
    /\ UNCHANGED <<credVars, s_retry_num, webVars, driverVars, countVars>>
-----------------------------------------------------------------------------
(***************************************************************************)
(* Requests.                                                               *)
(***************************************************************************)
\* Opening, writing or committing may fail, and the caller is not told.
Save_WIFI_parmToMemory(credentials) == stored' \in {stored, credentials}

wifi_setting_handler(credentials) ==
    /\ wifi_station_parm' = credentials
    /\ Save_WIFI_parmToMemory(credentials)
    /\ todo' = [todo EXCEPT !["httpd"] = wifi_config_sta(credentials)]
    /\ UNCHANGED clockVars

wifi_sta_start_handler ==
    /\ todo' = [todo EXCEPT !["httpd"] = wifi_config_sta(wifi_station_parm)]
    /\ UNCHANGED <<credVars, clockVars>>

TakeRequest ==
    /\ server /\ todo["httpd"] = <<>>
    /\ \E r \in pending :
        /\ pending' = pending \ {r}
        /\ CASE r = "sta_start" -> wifi_sta_start_handler
             [] r = "save" -> update_time /\ UNCHANGED <<credVars, todo>>
             [] OTHER -> wifi_setting_handler(r)
    /\ UNCHANGED <<s_retry_num, server, driverVars, countVars>>

\* A browser that can reach the server sends a request.
BrowserSends ==
    /\ sent < MaxRequests /\ sent' = sent + 1
    /\ server /\ (wifi.link = "up" \/ client)
    /\ \E r \in Request \ pending : pending' = pending \union {r}
    /\ UNCHANGED <<credVars, s_retry_num, server, todo, driverVars, drops, cuts, clockVars>>
-----------------------------------------------------------------------------
(***************************************************************************)
(* The radio.  Any attempt may fail; one with good credentials may succeed.*)
(***************************************************************************)
Radio == UNCHANGED <<credVars, s_retry_num, webVars, todo, sent, cuts, clockVars>>

Connects ==
    /\ wifi.link = "connecting" /\ wifi.config = "good"
    /\ wifi' = [wifi EXCEPT !.link = "up"]
    /\ Post(<<"GOT_IP">>)
    /\ UNCHANGED <<client, drops>> /\ Radio

ConnectFails ==
    /\ wifi.link = "connecting"
    /\ wifi' = [wifi EXCEPT !.link = "down"]
    /\ Post(<<"STA_DISCONNECTED">>)
    /\ UNCHANGED <<client, drops>> /\ Radio

LinkDrops ==
    /\ wifi.link = "up" /\ drops < MaxDrops /\ drops' = drops + 1
    /\ wifi' = [wifi EXCEPT !.link = "down"]
    /\ Post(<<"STA_DISCONNECTED">>)
    /\ UNCHANGED client /\ Radio

ClientJoins ==
    /\ wifi.on /\ wifi.mode = "ap" /\ ~client /\ Len(queue) < MaxEvents
    /\ client' = TRUE
    /\ Post(<<"AP_STACONNECTED">>)
    /\ UNCHANGED <<wifi, drops>> /\ Radio

ClientLeaves ==
    /\ client /\ client' = FALSE
    /\ UNCHANGED <<wifi, queue, drops>> /\ Radio

InternetTime ==
    /\ wifi.link = "up" /\ SntpSync
    /\ UNCHANGED <<credVars, s_retry_num, webVars, todo, driverVars, countVars>>
-----------------------------------------------------------------------------
(***************************************************************************)
(* Restarts.  memory_init finds the stored credentials, or zeros when it   *)
(* cannot read them; when none were ever stored, zeros or what the heap    *)
(* block held.  Then the main task configures the network.                 *)
(***************************************************************************)
Loaded == IF stored = "none" THEN {"none", "bad"} ELSE {stored, "none"}

Restart(powerCut) ==
    /\ \E parm \in Loaded :
        /\ wifi_station_parm' = parm
        /\ todo' = [t \in Task |-> IF t = "main" THEN wifi_config_sta(parm) ELSE <<>>]
    /\ s_retry_num' = 0
    /\ server' = FALSE /\ pending' = {}
    /\ wifi' = [on |-> FALSE, mode |-> "none", config |-> "none", link |-> "down"]
    /\ client' = FALSE /\ queue' = <<>>
    /\ ClockRestart(powerCut)
    /\ UNCHANGED <<stored, sent, drops>>

PowerCut == cuts < MaxCuts /\ cuts' = cuts + 1 /\ Restart(TRUE)

\* ESP_ERROR_CHECK aborts when another task has changed the mode; a second
\* sntp_setoperatingmode may do so while the client runs.
Abort ==
    /\ \E t \in Task : todo[t] # <<>> /\
        \/ Next_call(t) = "set_config_ap" /\ wifi.mode # "ap"
        \/ Next_call(t) = "set_config_sta" /\ wifi.mode # "sta"
        \/ Next_call(t) = "initialize_sntp" /\ sntp.running
    /\ Restart(FALSE)
    /\ UNCHANGED cuts

Init ==
    /\ stored \in Credentials
    /\ wifi_station_parm \in Loaded
    /\ s_retry_num = 0
    /\ server = FALSE /\ pending = {}
    /\ todo = [t \in Task |->
                  IF t = "main" THEN wifi_config_sta(wifi_station_parm) ELSE <<>>]
    /\ wifi = [on |-> FALSE, mode |-> "none", config |-> "none", link |-> "down"]
    /\ client = FALSE /\ queue = <<>>
    /\ sent = 0 /\ drops = 0 /\ cuts = 0
    /\ ClockInit

EventTask == TakeEvent \/ EventStep \/ ClockStep \/ CallDriver("event")

Next ==
    \/ EventTask \/ CallDriver("main") \/ CallDriver("httpd") \/ TakeRequest
    \/ BrowserSends \/ Connects \/ ConnectFails \/ LinkDrops
    \/ ClientJoins \/ ClientLeaves \/ InternetTime \/ PowerCut \/ Abort

Spec == Init /\ [][Next]_vars

\* Ready tasks run, an attempt to connect ends, and a connected client of the
\* time servers hears from them.
FairSpec ==
    /\ Spec
    /\ WF_vars(EventTask) /\ WF_vars(CallDriver("main")) /\ WF_vars(CallDriver("httpd"))
    /\ WF_vars(TakeRequest) /\ WF_vars(Connects \/ ConnectFails) /\ WF_vars(InternetTime)
    /\ WF_vars(Abort)
-----------------------------------------------------------------------------
(***************************************************************************)
(* Properties.                                                             *)
(***************************************************************************)
Calls == {"stop", "set_mode_ap", "set_mode_sta", "set_config_ap", "set_config_sta",
          "start", "connect", "start_webserver", "stop_webserver", "count_retry",
          "reset_retry", "init_time", "initialize_sntp", "poll", "read", "correct",
          "announce"}

\* Types; the retries stay in their bound, and the correction is added at most
\* once to a time that is local already.
WifiTypeOK ==
    /\ wifi_station_parm \in Credentials /\ stored \in Credentials
    /\ s_retry_num \in 0 .. EXAMPLE_ESP_MAXIMUM_RETRY
    /\ server \in BOOLEAN /\ pending \subseteq Request
    /\ todo \in [Task -> Seq(Calls)]
    /\ wifi \in [on : BOOLEAN, mode : {"none", "ap", "sta"}, config : Credentials,
                 link : {"down", "connecting", "up"}]
    /\ wifi.link # "down" => wifi.on /\ wifi.mode = "sta"
    /\ client \in BOOLEAN
    /\ queue \in Seq({"STA_START", "STA_DISCONNECTED", "GOT_IP", "AP_STACONNECTED"})
    /\ sent \in 0 .. MaxRequests /\ drops \in 0 .. MaxDrops /\ cuts \in 0 .. MaxCuts
    /\ ClockTypeOK

Quiet == queue = <<>> /\ \A t \in Task : todo[t] = <<>>

\* Once everything that happened has been handled, whoever is connected, by the
\* router or by the controller's own network, finds the web server running:
\* late and repeated events have not left it stopped.
ServerRuns == Quiet /\ (wifi.link = "up" \/ client) => server

\* Once the tasks have finished, a station uses the credentials set last.
UsesCredentials ==
    Quiet /\ wifi.on /\ wifi.mode = "sta" => wifi.config = wifi_station_parm

\* The controller never comes to rest unreachable: when every task has finished
\* and every event has been handled, it offers its own network, or is connected
\* or connecting; it does not wait for an event nobody will post.
NeverStranded == Quiet => wifi.on /\ (wifi.mode = "ap" \/ wifi.link # "down")

\* Whatever the router, the power, the requests and the order of the tasks do,
\* the controller comes back to a state in which it can be reached: connected
\* with its server running, or offering its own network.
ReachableAgain ==
    []<>(\/ wifi.link = "up" /\ server
         \/ wifi.on /\ wifi.mode = "ap")

\* obtain_time's wait and httpd_stop's end: the event task comes back for more.
EventTaskResumes == []<>(todo["event"] = <<>>)

\* A correction computed from a time read before the clock was set may put it
\* back to 1970; while the connection lasts it is set again.
TimeComesBack == <>[](wifi.link = "up") => []<>(clock # Unset)
==============================================================================
