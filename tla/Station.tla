------------------------------- MODULE Station -------------------------------
(***************************************************************************)
(* The tasks of the firmware around the Wi-Fi link:                        *)
(*                                                                         *)
(*  - the Wi-Fi driver (external), which reports by events;                *)
(*  - the event loop task, which runs for each event first the handler     *)
(*    app_main registered (src/src/main.cpp: display and web server), then *)
(*    wifi_event_handler (src/src/wifi.cpp: retries and statistics);       *)
(*  - the app_main task, which blocks in wifi_init_sta() until the first   *)
(*    connection or the last retry, then starts the ranging timer;         *)
(*  - the esp_timer task, whose ticks draw the range or an error;          *)
(*  - the httpd task, which copies the statistics to answer a scrape.      *)
(*                                                                         *)
(* The statistics are shared without a lock, and one action is one access  *)
(* to a variable another task uses.                                        *)
(***************************************************************************)
EXTENDS Naturals, Sequences

CONSTANTS
    MaxRetry,           \* CONFIG_ESP_MAXIMUM_RETRY, 20 in the build
    MaxDisconnects,     \* bound on the connections lost in one boot
    StopMayFail         \* httpd_stop() may fail and leave the server running

ASSUME StationAssumption ==
    /\ MaxRetry \in Nat
    /\ MaxDisconnects \in Nat
    /\ StopMayFail \in BOOLEAN

VARIABLES
    link,           \* the station, as the Wi-Fi driver knows it
    events,         \* the default event loop's queue
    drops,          \* history: times the link was lost while online
    handler,        \* where the event loop task is
    retries,        \* s_retry_num
    bits,           \* s_wifi_event_group
    connected,      \* stats.connected
    disconnects,    \* stats.disconnects
    server,         \* "running" while app_main's server handle is not NULL
    panel,          \* what the Wi-Fi part of the display says
    excuse,         \* history: {"start", "stop"} failures of the web server
    app,            \* where app_main is, "armed" once the timer runs
    ranger,         \* ranger_device: "null" or "device"
    reading,        \* what the sensor part of the display shows
    scrape,         \* where the httpd task is
    copied,         \* the statistics the scrape copied so far
    report          \* the last metrics page answered

linkVars == <<link, events, drops>>
statVars == <<retries, bits, connected, disconnects>>
webVars == <<server, panel, excuse>>
appVars == <<app, ranger, reading>>
scrapeVars == <<scrape, copied, report>>
vars == <<linkVars, handler, statVars, webVars, appVars, scrapeVars>>

Stats == [connected : {0, 1}, disconnects : Nat]
NoStats == [connected |-> 0, disconnects |-> 0]

Event == {"STA_START", "STA_DISCONNECTED", "GOT_IP"}

TypeOK ==
    /\ link \in {"off", "idle", "connecting", "associated", "online"}
    /\ events \in Seq(Event)
    /\ drops \in Nat
    /\ handler \in {"wait", "connect", "stopServer", "retry", "count",
                    "clearStats", "startServer", "gotIp", "setStats"}
    /\ retries \in 0..MaxRetry
    /\ bits \subseteq {"CONNECTED", "FAIL"}
    /\ connected \in {0, 1}
    /\ disconnects \in Nat
    /\ server \in {"null", "running"}
    /\ panel \in {"disconnected", "connected"}
    /\ excuse \subseteq {"start", "stop"}
    /\ app \in {"boot", "wait", "ranger", "armed"}
    /\ ranger \in {"null", "device"}
    /\ reading \in {"blank", "range", "error"}
    /\ scrape \in {"idle", "connected", "disconnects"}
    /\ copied \in Stats
    /\ report \in Stats

Init ==
    /\ link = "off" /\ events = <<>> /\ drops = 0
    /\ handler = "wait"
    /\ retries = 0 /\ bits = {} /\ connected = 0 /\ disconnects = 0
    /\ server = "null" /\ panel = "disconnected" /\ excuse = {}
    /\ app = "boot" /\ ranger = "null" /\ reading = "blank"
    /\ scrape = "idle" /\ copied = NoStats /\ report = NoStats

-----------------------------------------------------------------------------
(* The Wi-Fi driver. *)

Post(e) == events' = Append(events, e)

ConnectFails ==
    /\ link = "connecting"
    /\ link' = "idle" /\ Post("STA_DISCONNECTED")
    /\ UNCHANGED drops

Associates ==
    /\ link = "connecting"
    /\ link' = "associated"
    /\ UNCHANGED <<events, drops>>

GetsAddress ==
    /\ link = "associated"
    /\ link' = "online" /\ Post("GOT_IP")
    /\ UNCHANGED drops

LosesLink ==
    /\ link \in {"associated", "online"}
    /\ link = "online" => drops < MaxDisconnects
    /\ link' = "idle" /\ Post("STA_DISCONNECTED")
    /\ drops' = IF link = "online" THEN drops + 1 ELSE drops

Driver ==
    /\ ConnectFails \/ Associates \/ GetsAddress \/ LosesLink
    /\ UNCHANGED <<handler, statVars, webVars, appVars, scrapeVars>>

(* esp_wifi_connect() *)
WifiConnect == link' = IF link = "idle" THEN "connecting" ELSE link

-----------------------------------------------------------------------------
(* The event loop task.  app_main registers its handlers before            *)
(* wifi_init_sta() registers wifi_event_handler, so they run first.        *)

TakeEvent ==
    /\ handler = "wait" /\ events # <<>>
    /\ events' = Tail(events)
    /\ \/ /\ Head(events) = "STA_START"
          /\ handler' = "connect" /\ panel' = panel
       \/ /\ Head(events) = "STA_DISCONNECTED"
          /\ handler' = "stopServer" /\ panel' = "disconnected"
       \/ /\ Head(events) = "GOT_IP"
          /\ handler' = "startServer" /\ panel' = panel
    /\ UNCHANGED <<link, drops, statVars, server, excuse, appVars, scrapeVars>>

(* wifi_event_handler, WIFI_EVENT_STA_START *)
OnStart ==
    /\ handler = "connect"
    /\ handler' = "wait"
    /\ WifiConnect
    /\ UNCHANGED <<events, drops, statVars, webVars, appVars, scrapeVars>>

(* Mutated: the handle is kept after a successful stop. *)
StopServer_KeepHandle ==
    /\ handler = "stopServer"
    /\ handler' = "retry"
    /\ \/ server = "null" /\ UNCHANGED <<server, excuse>>
       \/ server = "running" /\ scrape = "idle" /\ UNCHANGED <<server, excuse>>
    /\ UNCHANGED <<linkVars, statVars, panel, appVars, scrapeVars>>

(* Mutated: the request being answered is not waited for. *)
StopServer_NoWait ==
    /\ handler = "stopServer"
    /\ handler' = "retry"
    /\ server' = "null" /\ excuse' = excuse \ {"stop"}
    /\ UNCHANGED <<linkVars, statVars, panel, appVars, scrapeVars>>

(* disconnect_handler.  httpd_stop() waits for the request being answered. *)
StopServer ==
    /\ handler = "stopServer"
    /\ handler' = "retry"
    /\ \/ server = "null" /\ UNCHANGED <<server, excuse>>
       \/ /\ server = "running" /\ scrape = "idle"
          /\ server' = "null" /\ excuse' = excuse \ {"stop"}
       \/ /\ server = "running" /\ StopMayFail
          /\ server' = server /\ excuse' = excuse \cup {"stop"}
    /\ UNCHANGED <<linkVars, statVars, panel, appVars, scrapeVars>>

(* Mutated: one retry too many. *)
OnDisconnected_OffByOne ==
    /\ handler = "retry"
    /\ handler' = "count"
    /\ \/ /\ retries <= MaxRetry
          /\ WifiConnect /\ retries' = retries + 1 /\ bits' = bits
       \/ /\ retries > MaxRetry
          /\ bits' = bits \cup {"FAIL"} /\ UNCHANGED <<link, retries>>
    /\ UNCHANGED <<events, drops, connected, disconnects, webVars, appVars, scrapeVars>>

(* Mutated: it connects again whatever the number of retries. *)
OnDisconnected_Always ==
    /\ handler = "retry"
    /\ handler' = "count"
    /\ WifiConnect
    /\ \/ retries < MaxRetry /\ retries' = retries + 1 /\ bits' = bits
       \/ retries >= MaxRetry /\ bits' = bits \cup {"FAIL"} /\ retries' = retries
    /\ UNCHANGED <<events, drops, connected, disconnects, webVars, appVars, scrapeVars>>

(* Mutated: app_main is not told that the retries are used up. *)
OnDisconnected_NoFail ==
    /\ handler = "retry"
    /\ handler' = "count"
    /\ \/ retries < MaxRetry /\ WifiConnect /\ retries' = retries + 1
       \/ retries >= MaxRetry /\ UNCHANGED <<link, retries>>
    /\ UNCHANGED <<bits, events, drops, connected, disconnects, webVars, appVars, scrapeVars>>

(* wifi_event_handler, WIFI_EVENT_STA_DISCONNECTED *)
OnDisconnected ==
    /\ handler = "retry"
    /\ handler' = "count"
    /\ \/ /\ retries < MaxRetry
          /\ WifiConnect /\ retries' = retries + 1 /\ bits' = bits
       \/ /\ retries >= MaxRetry
          /\ bits' = bits \cup {"FAIL"} /\ UNCHANGED <<link, retries>>
    /\ UNCHANGED <<events, drops, connected, disconnects, webVars, appVars, scrapeVars>>

(* Mutated: failed attempts to connect count too. *)
CountDisconnect_Always ==
    /\ handler = "count"
    /\ handler' = "clearStats"
    /\ disconnects' = disconnects + 1
    /\ UNCHANGED <<linkVars, retries, bits, connected, webVars, appVars, scrapeVars>>

(* Mutated: the flag is cleared before it is tested. *)
CountDisconnect_Late ==
    /\ handler = "count"
    /\ handler' = "clearStats"
    /\ connected' = 0
    /\ disconnects' = IF connected' = 1 THEN disconnects + 1 ELSE disconnects
    /\ UNCHANGED <<linkVars, retries, bits, webVars, appVars, scrapeVars>>

CountDisconnect ==
    /\ handler = "count"
    /\ handler' = "clearStats"
    /\ disconnects' = IF connected = 1 THEN disconnects + 1 ELSE disconnects
    /\ UNCHANGED <<linkVars, retries, bits, connected, webVars, appVars, scrapeVars>>

ClearConnected ==
    /\ handler = "clearStats"
    /\ handler' = "wait"
    /\ connected' = 0
    /\ UNCHANGED <<linkVars, retries, bits, disconnects, webVars, appVars, scrapeVars>>

(* connect_handler; start_webserver() may return NULL. *)
StartServer ==
    /\ handler = "startServer"
    /\ handler' = "gotIp"
    /\ panel' = "connected"
    /\ \/ server = "running" /\ UNCHANGED <<server, excuse>>
       \/ /\ server = "null"
          /\ server' = "running" /\ excuse' = excuse \ {"start"}
       \/ /\ server = "null"
          /\ server' = server /\ excuse' = excuse \cup {"start"}
    /\ UNCHANGED <<linkVars, statVars, appVars, scrapeVars>>

(* wifi_event_handler, IP_EVENT_STA_GOT_IP *)
OnGotIp ==
    /\ handler = "gotIp"
    /\ handler' = "setStats"
    /\ retries' = 0 /\ bits' = bits \cup {"CONNECTED"}
    /\ UNCHANGED <<linkVars, connected, disconnects, webVars, appVars, scrapeVars>>

SetConnected ==
    /\ handler = "setStats"
    /\ handler' = "wait"
    /\ connected' = 1
    /\ UNCHANGED <<linkVars, retries, bits, disconnects, webVars, appVars, scrapeVars>>

EventLoop ==
    \/ TakeEvent \/ OnStart
    \/ StopServer \/ OnDisconnected \/ CountDisconnect \/ ClearConnected
    \/ StartServer \/ OnGotIp \/ SetConnected

-----------------------------------------------------------------------------
(* app_main, and the panic its timer callback runs into without a device.  *)

StartWifi ==
    /\ app = "boot" /\ app' = "wait"
    /\ link' = "idle" /\ Post("STA_START")
    /\ UNCHANGED <<drops, handler, statVars, webVars, ranger, reading, scrapeVars>>

(* xEventGroupWaitBits(WIFI_CONNECTED_BIT | WIFI_FAIL_BIT) *)
WaitBits ==
    /\ app = "wait" /\ bits # {}
    /\ app' = "ranger"
    /\ UNCHANGED <<linkVars, handler, statVars, webVars, ranger, reading, scrapeVars>>

(* ranger_init() returns NULL on any error; the timer is started anyway.   *)
InitRanger ==
    /\ app = "ranger" /\ app' = "armed"
    /\ ranger' \in {"null", "device"}
    /\ UNCHANGED <<linkVars, handler, statVars, webVars, reading, scrapeVars>>

AppMain == StartWifi \/ WaitBits \/ InitRanger

(* sensor_loop(): a range of max_range_mm or more is drawn as an error too. *)
SensorTick ==
    /\ app = "armed" /\ ranger = "device"
    /\ \E outcome \in {"near", "far", "failed"} :
          reading' = IF outcome = "near" THEN "range" ELSE "error"
    /\ UNCHANGED <<linkVars, handler, statVars, webVars, app, ranger, scrapeVars>>

(* sensor_loop() follows the NULL device; the panic handler reboots.       *)
Reboot ==
    /\ app = "armed" /\ ranger = "null"
    /\ link' = "off" /\ events' = <<>> /\ drops' = 0
    /\ handler' = "wait"
    /\ retries' = 0 /\ bits' = {} /\ connected' = 0 /\ disconnects' = 0
    /\ server' = "null" /\ panel' = "disconnected" /\ excuse' = {}
    /\ app' = "boot" /\ reading' = "blank"
    /\ scrape' = "idle" /\ copied' = NoStats /\ report' = NoStats
    /\ UNCHANGED ranger

-----------------------------------------------------------------------------
(* The httpd task: metrics_handler, metrics_refresh, wifi_get_stats.  The  *)
(* statistics are copied word by word, in the order the compiler chose.    *)

ScrapeFirst ==
    /\ scrape = "idle"
    /\ server = "running" /\ link = "online"
    /\ \/ scrape' = "disconnects" /\ copied' = [copied EXCEPT !.connected = connected]
       \/ scrape' = "connected" /\ copied' = [copied EXCEPT !.disconnects = disconnects]
    /\ UNCHANGED <<linkVars, handler, statVars, webVars, appVars, report>>

ScrapeSecond ==
    /\ scrape # "idle"
    /\ scrape' = "idle"
    /\ copied' = IF scrape = "connected"
                 THEN [copied EXCEPT !.connected = connected]
                 ELSE [copied EXCEPT !.disconnects = disconnects]
    /\ report' = copied'
    /\ UNCHANGED <<linkVars, handler, statVars, webVars, appVars>>

Scrape == ScrapeFirst \/ ScrapeSecond

Next == Driver \/ EventLoop \/ AppMain \/ SensorTick \/ Reboot \/ Scrape

(* FreeRTOS runs every ready task; an attempt to connect succeeds or fails *)
(* and DHCP on an associated link ends with an address or a lost link.     *)
Fairness ==
    /\ WF_vars(EventLoop) /\ WF_vars(AppMain) /\ WF_vars(ScrapeSecond)
    /\ WF_vars(Driver /\ link = "connecting")
    /\ WF_vars(Driver /\ link = "associated")

Spec == Init /\ [][Next]_vars /\ Fairness

-----------------------------------------------------------------------------
(* Properties. *)

(* Between events the web server and the display agree with the link       *)
(* statistics, though two files keep them: the server runs exactly while   *)
(* the station is connected, unless httpd_start or httpd_stop failed, and  *)
(* the display says so.                                                    *)
ServerMatchesLink ==
    handler = "wait" =>
      /\ connected = 0 /\ server = "running" => "stop" \in excuse
      /\ connected = 1 /\ server = "null" => "start" \in excuse
      /\ panel = "connected" <=> connected = 1

(* Once every event is handled, the counter on the metrics page is the     *)
(* number of times this boot lost a link that had an address: failed       *)
(* attempts to connect do not count and no loss is missed.                 *)
LossesCounted == handler = "wait" /\ events = <<>> => disconnects = drops

(* When the retries are used up the station is off the air for good: no    *)
(* event is left that could make it connect again before a reboot.         *)
GiveUpIsFinal == "FAIL" \in bits => link = "idle"

(* The unlocked copy of the statistics is never torn by a disconnection:   *)
(* disconnect_handler stops the server, and so waits for the scrape, before*)
(* wifi_event_handler touches them.  Only a failed httpd_stop breaks it.   *)
ScrapeIsConsistent ==
    [][ScrapeSecond /\ "stop" \notin excuse
         => report'.disconnects = disconnects /\ report'.connected <= connected]_vars

(* The connected flag and the disconnect counter behave as LinkStats says. *)
LinkCount == INSTANCE LinkStats WITH
            up <- IF handler = "clearStats" THEN 0 ELSE connected,
            count <- disconnects,
            started <- IF app = "boot" THEN 0 ELSE 1

RefinesLinkStats == LinkCount!Spec

(* wifi_init_sta() comes back and the sensor is started, connected or not: *)
(* the retries end even on a link that is lost again and again.            *)
SensorStarts == app = "wait" ~> app = "armed"

(* metrics.cpp: wifi_connected is "True (1) if wifi is connected;          *)
(* false(0) otherwise".  A page answered over an online link says 1.       *)
ReportsConnected ==
    [][ScrapeSecond /\ link = "online" => report'.connected = 1]_vars
=============================================================================
