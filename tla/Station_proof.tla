---------------------------- MODULE Station_proof ----------------------------
(***************************************************************************)
(* Proofs about Station, for every value of its constants.                 *)
(***************************************************************************)
EXTENDS Station, TLAPS

(* Handlers that run for a lost link after disconnect_handler. *)
AfterStop == {"retry", "count", "clearStats"}

(* Handlers that run for an address after connect_handler. *)
AfterStart == {"gotIp", "setStats"}

-----------------------------------------------------------------------------
(* Type correctness. *)

(* Every step of every task keeps each variable in its range; the retry    *)
(* counter never passes the limit.                                         *)
THEOREM TypeCorrect == Spec => []TypeOK
<1> USE DEF TypeOK, Event, Stats, NoStats
<1>1. Init => TypeOK
  BY StationAssumption DEF Init, StationAssumption
<1>2. TypeOK /\ [Next]_vars => TypeOK'
  <2> SUFFICES ASSUME TypeOK, [Next]_vars PROVE TypeOK'
    OBVIOUS
  <2> USE DEF linkVars, statVars, webVars, appVars, scrapeVars
  <2>1. CASE Driver
    <3>1. /\ link' \in {"off", "idle", "connecting", "associated", "online"}
          /\ drops' \in Nat
      BY <2>1 DEF Driver, ConnectFails, Associates, GetsAddress,
                  LosesLink
    <3>2. events' = events \/ events' = Append(events, "STA_DISCONNECTED")
            \/ events' = Append(events, "GOT_IP")
      BY <2>1 DEF Driver, ConnectFails, Associates, GetsAddress,
                  LosesLink, Post
    <3>3. \A e \in Event : Append(events, e) \in Seq(Event)
      OBVIOUS
    <3>4. events' \in Seq(Event)
      BY <3>2, <3>3
    <3> QED
      BY <2>1, <3>1, <3>4 DEF Driver
  <2>2. CASE TakeEvent
    <3>1. events' \in Seq(Event)
      BY <2>2 DEF TakeEvent
    <3> QED
      BY <2>2, <3>1 DEF TakeEvent
  <2>3. CASE OnStart
    BY <2>3 DEF OnStart, WifiConnect
  <2>4. CASE StopServer
    <3>1. excuse' \subseteq {"start", "stop"}
      BY <2>4 DEF StopServer
    <3> QED
      BY <2>4, <3>1 DEF StopServer
  <2>5. CASE OnDisconnected
    <3>1. bits' \subseteq {"CONNECTED", "FAIL"}
      BY <2>5 DEF OnDisconnected
    <3>2. retries' \in 0..MaxRetry
      BY <2>5, StationAssumption DEF OnDisconnected, StationAssumption
    <3> QED
      BY <2>5, <3>1, <3>2 DEF OnDisconnected, WifiConnect
  <2>6. CASE CountDisconnect
    BY <2>6 DEF CountDisconnect
  <2>7. CASE ClearConnected
    BY <2>7 DEF ClearConnected
  <2>8. CASE StartServer
    <3>1. excuse' \subseteq {"start", "stop"}
      BY <2>8 DEF StartServer
    <3> QED
      BY <2>8, <3>1 DEF StartServer
  <2>9. CASE OnGotIp
    BY <2>9, StationAssumption DEF OnGotIp, StationAssumption
  <2>10. CASE SetConnected
    BY <2>10 DEF SetConnected
  <2>11. CASE StartWifi
    BY <2>11 DEF StartWifi, Post
  <2>12. CASE WaitBits
    BY <2>12 DEF WaitBits
  <2>13. CASE InitRanger
    BY <2>13 DEF InitRanger
  <2>14. CASE SensorTick
    BY <2>14 DEF SensorTick
  <2>15. CASE Reboot
    BY <2>15, StationAssumption DEF Reboot, StationAssumption
  <2>16. CASE ScrapeFirst
    BY <2>16 DEF ScrapeFirst
  <2>17. CASE ScrapeSecond
    BY <2>17 DEF ScrapeSecond
  <2>18. CASE UNCHANGED vars
    BY <2>18 DEF vars
  <2> QED
    BY <2>1, <2>2, <2>3, <2>4, <2>5, <2>6, <2>7, <2>8, <2>9, <2>10, <2>11,
       <2>12, <2>13, <2>14, <2>15, <2>16, <2>17, <2>18
       DEF Next, EventLoop, AppMain, Scrape
<1> QED
  BY <1>1, <1>2, PTL DEF Spec

-----------------------------------------------------------------------------
(* The statistics as LinkStats describes them. *)

(* Between the two halves of a disconnection the counter has moved and the *)
(* flag has not: the refinement mapping lets the flag fall with the        *)
(* counter, and every step is then one of LinkStats or changes neither.    *)
THEOREM StatsRefine == Spec => RefinesLinkStats
<1> DEFINE Up == IF handler = "clearStats" THEN 0 ELSE connected
<1> DEFINE Started == IF app = "boot" THEN 0 ELSE 1
<1>1. Init => LinkCount!Init
  BY DEF Init, LinkCount!Init
<1>2. TypeOK /\ [Next]_vars => [LinkCount!Next]_<<Up, disconnects, Started>>
  <2> SUFFICES ASSUME TypeOK, [Next]_vars
               PROVE  [LinkCount!Next]_<<Up, disconnects, Started>>
    OBVIOUS
  <2> USE DEF TypeOK, linkVars, statVars, webVars, appVars, scrapeVars,
              LinkCount!Next, LinkCount!Start, LinkCount!Connect,
              LinkCount!Disconnect, LinkCount!Reboot
  <2>1. CASE Driver
    BY <2>1 DEF Driver
  <2>2. CASE EventLoop
    <3>1. CASE TakeEvent
      BY <3>1 DEF TakeEvent
    <3>2. CASE OnStart \/ StopServer \/ OnDisconnected \/ StartServer \/ OnGotIp
      BY <3>2 DEF OnStart, StopServer, OnDisconnected, StartServer, OnGotIp
    <3>3. CASE CountDisconnect
      BY <3>3 DEF CountDisconnect
    <3>4. CASE ClearConnected
      BY <3>4 DEF ClearConnected
    <3>5. CASE SetConnected
      BY <3>5 DEF SetConnected
    <3> QED
      BY <2>2, <3>1, <3>2, <3>3, <3>4, <3>5 DEF EventLoop
  <2>3. CASE AppMain \/ SensorTick
    BY <2>3 DEF AppMain, StartWifi, WaitBits, InitRanger, SensorTick
  <2>4. CASE Reboot
    BY <2>4 DEF Reboot
  <2>5. CASE Scrape \/ UNCHANGED vars
    BY <2>5 DEF Scrape, ScrapeFirst, ScrapeSecond, vars
  <2> QED
    BY <2>1, <2>2, <2>3, <2>4, <2>5 DEF Next
<1> QED
  BY <1>1, <1>2, TypeCorrect, PTL DEF Spec, RefinesLinkStats, LinkCount!Spec

-----------------------------------------------------------------------------
(* The web server, the display and the scrape. *)

(* Where the event loop is tells whether the server should run and what    *)
(* the display says.                                                       *)
ServerInv ==
    /\ handler \in AfterStop /\ server = "running" => "stop" \in excuse
    /\ handler \in AfterStart /\ server = "null" => "start" \in excuse
    /\ handler \notin AfterStop \cup AfterStart =>
         /\ connected = 0 /\ server = "running" => "stop" \in excuse
         /\ connected = 1 /\ server = "null" => "start" \in excuse
    /\ handler \in {"stopServer"} \cup AfterStop => panel = "disconnected"
    /\ handler \in AfterStart => panel = "connected"
    /\ handler \in {"wait", "connect", "startServer"} =>
         (panel = "connected" <=> connected = 1)

(* A scrape needs the server, and what it copied is still true. *)
ScrapeInv ==
    /\ server = "null" => scrape = "idle"
    /\ "stop" \notin excuse =>
         /\ scrape = "disconnects" => copied.connected <= connected
         /\ scrape = "connected" => copied.disconnects = disconnects

SharedInv == TypeOK /\ ServerInv /\ ScrapeInv

LEMMA SharedStep == SharedInv /\ [Next]_vars => ServerInv' /\ ScrapeInv'
<1> SUFFICES ASSUME SharedInv, [Next]_vars PROVE ServerInv' /\ ScrapeInv'
  OBVIOUS
<1> USE DEF SharedInv, TypeOK, ServerInv, ScrapeInv, AfterStop, AfterStart, Stats,
            linkVars, statVars, webVars, appVars, scrapeVars
<1>1. CASE Driver
  BY <1>1 DEF Driver
<1>2. CASE TakeEvent
  BY <1>2 DEF TakeEvent
<1>3. CASE OnStart
  BY <1>3 DEF OnStart
<1>4. CASE StopServer
  BY <1>4 DEF StopServer
<1>5. CASE OnDisconnected
  BY <1>5 DEF OnDisconnected
<1>6. CASE CountDisconnect
  BY <1>6 DEF CountDisconnect
<1>7. CASE ClearConnected
  BY <1>7 DEF ClearConnected
<1>8. CASE StartServer
  BY <1>8 DEF StartServer
<1>9. CASE OnGotIp
  BY <1>9 DEF OnGotIp
<1>10. CASE SetConnected
  BY <1>10 DEF SetConnected
<1>11. CASE AppMain \/ SensorTick
  BY <1>11 DEF AppMain, StartWifi, WaitBits, InitRanger, SensorTick
<1>12. CASE Reboot
  BY <1>12 DEF Reboot, NoStats
<1>13. CASE ScrapeFirst
  BY <1>13 DEF ScrapeFirst
<1>14. CASE ScrapeSecond
  BY <1>14 DEF ScrapeSecond
<1>15. CASE UNCHANGED vars
  BY <1>15 DEF vars
<1> QED
  BY <1>1, <1>2, <1>3, <1>4, <1>5, <1>6, <1>7, <1>8, <1>9, <1>10, <1>11,
     <1>12, <1>13, <1>14, <1>15 DEF Next, EventLoop, Scrape

LEMMA SharedInvariant == Spec => []SharedInv
<1>1. Init => ServerInv /\ ScrapeInv
  BY DEF Init, ServerInv, ScrapeInv, AfterStop, AfterStart
<1>2. TypeOK /\ TypeOK' /\ SharedInv /\ [Next]_vars => SharedInv'
  BY SharedStep DEF SharedInv
<1> QED
  BY <1>1, <1>2, TypeCorrect, PTL DEF Spec, SharedInv

(* The web server runs, and the display says connected, exactly while the  *)
(* statistics say so, whatever order events and tasks run in.              *)
THEOREM ServerFollowsLink == Spec => []ServerMatchesLink
<1>1. SharedInv => ServerMatchesLink
  BY DEF SharedInv, ServerInv, ServerMatchesLink, AfterStop, AfterStart
<1> QED
  BY <1>1, SharedInvariant, PTL

(* disconnect_handler excludes the scrape from the section that changes    *)
(* the statistics, so the copy is one the event loop had at one moment.    *)
THEOREM ScrapeNotTorn == Spec => ScrapeIsConsistent
<1>1. SharedInv /\ [Next]_vars
        => [ScrapeSecond /\ "stop" \notin excuse
              => report'.disconnects = disconnects /\ report'.connected <= connected]_vars
  BY DEF SharedInv, TypeOK, ScrapeInv, Stats, ScrapeSecond
<1> QED
  BY <1>1, SharedInvariant, PTL DEF Spec, ScrapeIsConsistent
-----------------------------------------------------------------------------
(* The link and the event queue. *)

(* The event loop between two events, or finishing a disconnection.        *)
Settling == {"wait", "count", "clearStats"}

Empty == Len(events) = 0
Holds(e) == Len(events) = 1 /\ events[1] = e
AddressThenLoss ==
    Len(events) = 2 /\ events[1] = "GOT_IP" /\ events[2] = "STA_DISCONNECTED"

(* The queue never holds more than an address and its loss.  At any time   *)
(* exactly one thing will make the station connect or give up: the driver  *)
(* at work, an event still queued, or a handler on its way.                *)
LinkShape ==
    \/ link = "off" /\ app = "boot" /\ Empty /\ handler = "wait"
    \/ link \in {"connecting", "associated"} /\ Empty /\ handler \in Settling
    \/ link = "online" /\ Holds("GOT_IP") /\ handler \in Settling
    \/ /\ link = "online" /\ Empty
       /\ handler \in {"wait", "startServer"} \cup AfterStart
    \/ link = "idle" /\ Holds("STA_START") /\ handler = "wait"
    \/ link = "idle" /\ Empty /\ handler \in {"connect", "stopServer", "retry"}
    \/ /\ link = "idle" /\ Holds("STA_DISCONNECTED")
       /\ handler \in Settling \cup {"startServer"} \cup AfterStart
    \/ /\ link = "idle" /\ AddressThenLoss
       /\ handler \in Settling
    \/ link = "idle" /\ Empty /\ "FAIL" \in bits /\ handler \in Settling

(* Nothing is under way once the station gave up. *)
GiveUpInv ==
    /\ "FAIL" \in bits => link = "idle" /\ Empty /\ handler \in Settling
    /\ app = "boot" => link = "off"

(* When the flag of the statistics can be set. *)
FlagInv ==
    /\ connected = 1 =>
         \/ handler \in {"stopServer"} \cup AfterStop
         \/ handler = "wait" /\ link = "online" /\ Empty
         \/ handler = "wait" /\ link = "idle" /\ Holds("STA_DISCONNECTED")
    /\ handler = "wait" /\ link = "online" /\ Empty => connected = 1

(* Losses the driver reported that wifi_event_handler has not counted: one *)
(* the queue holds, and one in the handlers.                               *)
Queued ==
    CASE AddressThenLoss -> 1
      [] Holds("STA_DISCONNECTED") /\ handler = "wait" -> connected
      [] Holds("STA_DISCONNECTED") /\ handler \in {"startServer"} \cup AfterStart -> 1
      [] OTHER -> 0

Handled == IF handler \in {"stopServer", "retry", "count"} THEN connected ELSE 0

CountInv == drops = disconnects + Queued + Handled

LinkInv == TypeOK /\ LinkShape /\ GiveUpInv /\ FlagInv /\ CountInv

LEMMA LinkStep ==
    LinkInv /\ [Next]_vars => LinkShape' /\ GiveUpInv' /\ FlagInv' /\ CountInv'
<1> SUFFICES ASSUME LinkInv, [Next]_vars
             PROVE  LinkShape' /\ GiveUpInv' /\ FlagInv' /\ CountInv'
  OBVIOUS
<1> USE DEF Empty, Holds, AddressThenLoss, LinkInv, TypeOK, LinkShape, GiveUpInv, FlagInv, CountInv,
        Queued, Handled, Settling, AfterStop, AfterStart,
        linkVars, statVars, webVars, appVars, scrapeVars
<1>1. CASE Driver
  <2>1. CASE ConnectFails
    BY <1>1, <2>1 DEF Driver, ConnectFails, Post
  <2>2. CASE Associates
    BY <1>1, <2>2 DEF Driver, Associates
  <2>3. CASE GetsAddress
    BY <1>1, <2>3 DEF Driver, GetsAddress, Post
  <2>4. CASE LosesLink
    <3>1. /\ Empty => Holds("STA_DISCONNECTED")'
          /\ Holds("GOT_IP") => AddressThenLoss'
      BY <1>1, <2>4 DEF Driver, LosesLink, Post
    <3>2. CASE link = "associated"
      BY <1>1, <2>4, <3>1, <3>2 DEF Driver, LosesLink
    <3>3. CASE link = "online"
      <4>1. /\ link' = "idle" /\ drops' = drops + 1
            /\ UNCHANGED <<handler, bits, app, connected, disconnects, panel>>
        BY <1>1, <2>4, <3>3 DEF Driver, LosesLink
      <4>2. CASE Empty
        BY <3>1, <3>3, <4>1, <4>2
      <4>3. CASE Holds("GOT_IP")
        BY <3>1, <3>3, <4>1, <4>3
      <4> QED
        BY <3>3, <4>2, <4>3
    <3> QED
      BY <2>4, <3>2, <3>3 DEF LosesLink
  <2> QED
    BY <1>1, <2>1, <2>2, <2>3, <2>4 DEF Driver
<1>2. CASE TakeEvent
  <2>1. /\ Len(events) > 0 /\ Head(events) = events[1]
        /\ Len(events') = Len(events) - 1
        /\ Len(events) = 2 => events'[1] = events[2]
    BY <1>2 DEF TakeEvent
  <2>2. CASE Holds("STA_START") \/ Holds("GOT_IP")
    BY <1>2, <2>1, <2>2 DEF TakeEvent
  <2>3. CASE Holds("STA_DISCONNECTED")
    <3>1. /\ handler = "wait" /\ link = "idle" /\ drops = disconnects + connected
          /\ ~("FAIL" \in bits) /\ app # "boot"
      BY <1>2, <2>3 DEF TakeEvent
    <3>2. Empty' /\ handler' = "stopServer"
      BY <1>2, <2>1, <2>3 DEF TakeEvent
    <3>3. UNCHANGED <<link, bits, app, connected, drops, disconnects>>
      BY <1>2 DEF TakeEvent
    <3> QED
      BY <3>1, <3>2, <3>3
  <2>4. CASE AddressThenLoss
    <3>1. handler = "wait" /\ link = "idle" /\ drops = disconnects + 1
      BY <1>2, <2>4 DEF TakeEvent
    <3>2. Holds("STA_DISCONNECTED")' /\ handler' = "startServer" /\ panel' = panel
      BY <1>2, <2>1, <2>4, SMTT(30) DEF TakeEvent
    <3>3. UNCHANGED <<link, bits, app, connected, drops, disconnects>>
      BY <1>2 DEF TakeEvent
    <3> QED
      BY <2>1, <2>4, <3>1, <3>2, <3>3
  <2>5. \/ Holds("STA_START") \/ Holds("GOT_IP")
        \/ Holds("STA_DISCONNECTED") \/ AddressThenLoss
    BY <2>1
  <2> QED
    BY ONLY <2>2, <2>3, <2>4, <2>5
<1>3. CASE OnStart
  BY <1>3 DEF OnStart, WifiConnect
<1>4. CASE StopServer
  BY <1>4 DEF StopServer
<1>5. CASE OnDisconnected
  BY <1>5 DEF OnDisconnected, WifiConnect
<1>6. CASE CountDisconnect
  BY <1>6 DEF CountDisconnect
<1>7. CASE ClearConnected
  BY <1>7 DEF ClearConnected
<1>8. CASE StartServer
  BY <1>8 DEF StartServer
<1>9. CASE OnGotIp
  BY <1>9 DEF OnGotIp
<1>10. CASE SetConnected
  BY <1>10 DEF SetConnected
<1>11. CASE StartWifi
  BY <1>11 DEF StartWifi, Post
<1>12. CASE WaitBits \/ InitRanger \/ SensorTick
  BY <1>12 DEF WaitBits, InitRanger, SensorTick
<1>13. CASE Reboot
  BY <1>13 DEF Reboot
<1>14. CASE Scrape
  BY <1>14 DEF Scrape, ScrapeFirst, ScrapeSecond
<1>15. CASE UNCHANGED vars
  BY <1>15 DEF vars
<1> QED
  BY <1>1, <1>2, <1>3, <1>4, <1>5, <1>6, <1>7, <1>8, <1>9, <1>10, <1>11,
     <1>12, <1>13, <1>14, <1>15 DEF Next, EventLoop, AppMain

LEMMA LinkInvariant == Spec => []LinkInv
<1>1. Init => LinkShape /\ GiveUpInv /\ FlagInv /\ CountInv
  BY DEF Empty, Holds, AddressThenLoss, Init, LinkShape, GiveUpInv, FlagInv, CountInv, Queued,
     Handled, Settling, AfterStop
<1>2. TypeOK /\ TypeOK' /\ LinkInv /\ [Next]_vars => LinkInv'
  BY LinkStep DEF LinkInv
<1> QED
  BY <1>1, <1>2, TypeCorrect, PTL DEF Spec, LinkInv

(* Giving up is for good: once the retries are used up, neither the driver *)
(* nor an event still queued can bring the station back.                   *)
THEOREM GiveUpForGood == Spec => []GiveUpIsFinal
<1>1. LinkInv => GiveUpIsFinal
  BY DEF LinkInv, GiveUpInv, GiveUpIsFinal
<1> QED
  BY <1>1, LinkInvariant, PTL

(* With no event left, the counter is the number of links lost.            *)
THEOREM EveryLossCounted == Spec => []LossesCounted
<1>1. LinkInv => LossesCounted
  BY DEF Empty, Holds, AddressThenLoss, LinkInv, TypeOK, CountInv, Queued, Handled, LossesCounted
<1> QED
  BY <1>1, LinkInvariant, PTL
===========================================================================
