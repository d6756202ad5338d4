--------------------------- MODULE MdnsResponder ---------------------------
(***************************************************************************)
(* The responder half of the mDNS component (mdns.c): API calls, network   *)
(* events and received packets put actions into one queue; the service     *)
(* task executes them one at a time under the lock; the timer task puts a  *)
(* TX_HANDLE action there for a scheduled packet whose time has come.      *)
(* Each interface and protocol has a control block (pcb) that probes for   *)
(* its names three times, announces them three times and then runs.        *)
(*                                                                         *)
(* Times are left out: any scheduled packet may come due next, which       *)
(* covers every order the delays can produce as long as the millisecond    *)
(* counter does not wrap.  Queued packets are a prefix of the packet list, *)
(* in the order they were queued.  Allocations succeed; a post into a full *)
(* queue is lost, which is a step that changes nothing.                    *)
(***************************************************************************)
EXTENDS Naturals, Sequences, FiniteSetsExt, SequencesExt, Functions

CONSTANTS Services,     \* services an application may add, of distinct types
          Ifs, Protos,  \* network interfaces and IP versions with a pcb
          NetifActions, \* event bits an application posts by mdns_netif_action
          QueueLength,  \* length of the action queue
          MaxPosts      \* bound: calls, events and received packets

ASSUME ResponderAssumption ==
    /\ Ifs \subseteq {"sta", "ap", "eth"} /\ Protos \subseteq {"v4", "v6"}
    /\ IsFiniteSet(Services) /\ "host" \notin Services
    /\ QueueLength \in Nat /\ MaxPosts \in Nat

VARIABLES net,      \* what the lock protects: names, pcbs and packets
          queue,    \* the action queue
          posts     \* calls, events and packets left

responderVars == <<net, queue, posts>>

Pcbs == Ifs \X Protos
Owners == Services \cup {"host"}    \* whom a question or a record is about

Probes == <<"PROBE_1", "PROBE_2", "PROBE_3">>
Announces == <<"ANNOUNCE_1", "ANNOUNCE_2", "ANNOUNCE_3">>
States == <<"OFF", "DUP", "INIT">> \o Probes \o Announces \o <<"RUNNING">>

Successor(s) == States[(CHOOSE i \in DOMAIN States : States[i] = s) + 1]

IsProbing(b) == b.state \in {"DUP", "INIT"} \cup Range(Probes)
IsAnnouncing(b) == b.state \in Range(Announces)

Closed == [state |-> "OFF", ready |-> FALSE, probe |-> {}, ip |-> FALSE,
           running |-> FALSE]

(* The interface that may share a subnet with this one.                    *)
OtherIf(i) == IF i \in {"sta", "eth"} THEN (Ifs \cap {"sta", "eth"}) \ {i} ELSE {}
-----------------------------------------------------------------------------
(* Scheduled packets.  A packet is told by its address; a freed address    *)
(* is the first to be used again.                                          *)

FreeAddress(n) == Min((1 .. Cardinality(DOMAIN n.tx) + 1) \ DOMAIN n.tx)

ScheduleTx(n, p) ==
    LET a == FreeAddress(n)
    IN  [n EXCEPT !.tx = [i \in DOMAIN @ \cup {a} |-> IF i = a THEN p ELSE @[i]]]

KeepDue(due, kept) ==
    FoldLeft(LAMBDA d, i : IF i \in kept THEN Append(d, i) ELSE d, <<>>, due)

KeepTx(n, kept) == [n EXCEPT !.tx = Restrict(@, kept), !.due = KeepDue(@, kept)]

ClearPcbTx(n, p) == KeepTx(n, {i \in DOMAIN n.tx : n.tx[i].to # p})

ClearTx(n) == KeepTx(n, {})

(* The first packet of each pcb in the list: the first queued one, else    *)
(* any of them; 0 when there is none.                                      *)
NextPcbPacket(n, p) ==
    LET mine == {i \in DOMAIN n.tx : n.tx[i].to = p}
        queued == SelectSeq(n.due, LAMBDA i : i \in mine)
    IN  IF mine = {} THEN {0} ELSE IF queued # <<>> THEN {Head(queued)} ELSE mine

WithHost(S, ip) == IF ip THEN S \cup {"host"} ELSE S

(* Questions, answers, and the records of the two other sections.          *)
ProbePacket(p, S, ip) ==
    [to |-> p, asks |-> WithHost(S, ip), answers |-> {}, other |-> WithHost(S, ip)]

AnnouncePacket(p, S, ip) ==
    [to |-> p, asks |-> {}, answers |-> S, other |-> WithHost({}, ip)]

AnnounceFromProbe(q) ==
    [to |-> q.to, asks |-> {}, other |-> {},
     answers |-> IF q.other \cap Services # {} THEN q.other \cup {"host"} ELSE q.other]

(* The additional records of a shared answer come and go with its answers. *)
AnswerPacket(p, asked) == [to |-> p, asks |-> {}, answers |-> asked, other |-> {}]
-----------------------------------------------------------------------------
(* Probing and announcing.                                                 *)

InitPcbProbeNewService(n, p, S, ip) ==
    [ScheduleTx(n, ProbePacket(p, S, ip)) EXCEPT
        !.pcb[p] = [@ EXCEPT !.state = "PROBE_1", !.probe = S, !.ip = ip,
                             !.running = TRUE]]

(* Mutated: the packets the pcb had scheduled stay. *)
InitPcbProbe_KeepsPackets(n, p, S, ip) ==
    IF ~n.named
    THEN [n EXCEPT !.pcb[p].state = "RUNNING"]
    ELSE InitPcbProbeNewService(n, p, S \cup n.pcb[p].probe, ip \/ n.pcb[p].ip)

(* The packets of the pcb are dropped, those of an announcement included,  *)
(* and the services it was probing are probed along with the new ones.     *)
InitPcbProbe(n, p, S, ip) ==
    IF ~n.named
    THEN [ClearPcbTx(n, p) EXCEPT !.pcb[p].state = "RUNNING"]
    ELSE InitPcbProbeNewService(ClearPcbTx(n, p), p, S \cup n.pcb[p].probe,
                                ip \/ n.pcb[p].ip)

ReadyPcbs(n) == {p \in Pcbs : n.pcb[p].ready}

ForgetProbe(n, p) == [n EXCEPT !.pcb[p].probe = {}, !.pcb[p].running = FALSE]

ProbeAllPcbs(n, S, ip, clearOld) ==
    FoldSet(LAMBDA p, m : InitPcbProbe(IF clearOld THEN ForgetProbe(m, p) ELSE m,
                                       p, S, ip),
            n, ReadyPcbs(n))

RestartPcb(n, p) == InitPcbProbe(n, p, n.services, TRUE)

RestartAllPcbs(n) == ProbeAllPcbs(ClearTx(n), n.services, TRUE, TRUE)

RestartAllPcbsNoInstance(n) ==
    IF n.services \subseteq n.own THEN n
    ELSE ProbeAllPcbs(n, n.services \ n.own, FALSE, TRUE)

(* "first" is the packet of each pcb that comes first in the list.         *)
AnnouncePcb(n, first, p, S, ip) ==
    CASE ~n.pcb[p].ready -> n
      [] n.pcb[p].ready /\ IsProbing(n.pcb[p]) -> InitPcbProbe(n, p, S, ip)
      [] n.pcb[p].ready /\ IsAnnouncing(n.pcb[p]) ->
            IF first[p] = 0 THEN n
            ELSE [n EXCEPT !.tx[first[p]].answers = @ \cup WithHost(S, ip),
                           !.pcb[p].state = "ANNOUNCE_1"]
      [] n.pcb[p].ready /\ n.pcb[p].state = "RUNNING" /\ n.named ->
            [ScheduleTx(n, AnnouncePacket(p, S, ip)) EXCEPT
                !.pcb[p].state = "ANNOUNCE_1"]
      [] OTHER -> n

AnnounceAllPcbs(n, first, S, ip) ==
    FoldSet(LAMBDA p, m : AnnouncePcb(m, first, p, S, ip), n, Pcbs)
-----------------------------------------------------------------------------
(* Removing a service from what is scheduled.                              *)

ProbeWithout(b, s) ==
    IF b.probe # {s} THEN [b EXCEPT !.probe = @ \ {s}]
    ELSE [b EXCEPT !.probe = {}, !.running = @ /\ b.ip,
                   !.state = IF b.ip THEN @ ELSE "RUNNING"]

PcbWithout(b, s, q) ==
    CASE b.ready /\ IsProbing(b) /\ s \in b.probe -> ProbeWithout(b, s)
      [] b.ready /\ IsAnnouncing(b) /\ q.answers = {s} -> [b EXCEPT !.state = "RUNNING"]
      [] OTHER -> b

PacketWithout(q, b, s) ==
    [q EXCEPT !.answers = @ \ {s}, !.other = @ \ {s},
              !.asks = IF b.ready /\ IsProbing(b) /\ s \in b.probe THEN @ \ {s} ELSE @]

IsEmptyPacket(q) == q.asks = {} /\ q.answers = {} /\ q.other = {}

DetachIfEmpty(n, i) ==
    IF IsEmptyPacket(n.tx[i]) THEN KeepTx(n, DOMAIN n.tx \ {i}) ELSE n

RemoveServiceFrom(n, i, s) ==
    LET q == n.tx[i] IN
    DetachIfEmpty([n EXCEPT !.pcb[q.to] = PcbWithout(@, s, q),
                            !.tx[i] = PacketWithout(@, n.pcb[q.to], s)], i)

RemoveScheduledServicePackets(n, s) ==
    FoldSet(LAMBDA i, m : RemoveServiceFrom(m, i, s), n, DOMAIN n.tx)

RemoveService(n, s) ==
    RemoveScheduledServicePackets([n EXCEPT !.services = @ \ {s}, !.own = @ \ {s}], s)
-----------------------------------------------------------------------------
(* Interfaces coming and going.                                            *)

DeinitPcb(n, p) == [ClearPcbTx(n, p) EXCEPT !.pcb[p] = Closed]

(* "opens" says whether the UDP endpoint can be set up.                    *)
EnablePcb(n, p, opens) ==
    IF n.pcb[p].ready \/ opens
    THEN RestartPcb([n EXCEPT !.pcb[p].ready = TRUE], p) ELSE n

(* Closing a pcb wakes the one that was off as its duplicate.              *)
DisablePcb(n, p, opens) ==
    LET twins == {d \in OtherIf(p[1]) \X {p[2]} : n.pcb[d].state = "DUP"}
        twin == CHOOSE d \in twins : TRUE
    IN  CASE ~n.pcb[p].ready -> [n EXCEPT !.pcb[p].state = "OFF"]
          [] n.pcb[p].ready /\ twins = {} -> DeinitPcb(n, p)
          [] OTHER -> EnablePcb([DeinitPcb(n, p) EXCEPT !.pcb[twin].state = "OFF"],
                                twin, opens)

(* A peer uses the address of our other interface: this one goes off where *)
(* the other is ready, and the other announces its address.                *)
DupPcb(n, first, i, d) ==
    AnnouncePcb([IF n.pcb[<<i, d[2]>>].ready THEN DeinitPcb(n, <<i, d[2]>>) ELSE n
                    EXCEPT !.pcb[<<i, d[2]>>].state = "DUP"],
                first, d, {}, TRUE)

DupInterface(n, first, i) ==
    FoldSet(LAMBDA d, m : DupPcb(m, first, i, d), n,
            {d \in OtherIf(i) \X Protos : n.pcb[d].ready})

(* One bit of an event: what it asks for, and of which protocol.           *)
EventStep(n, first, opens, i, bits, e) ==
    CASE e \notin bits \/ e[2] \notin Protos -> n
      [] e \in bits /\ e[2] \in Protos /\ e[1] = "enable" -> EnablePcb(n, <<i, e[2]>>, opens)
      [] e \in bits /\ e[2] \in Protos /\ e[1] = "disable" -> DisablePcb(n, <<i, e[2]>>, opens)
      [] OTHER -> AnnouncePcb(n, first, <<i, e[2]>>, {}, TRUE)

PerformEventAction(n, first, opens, i, bits) ==
    LET e4 == EventStep(n, first, opens, i, bits, <<"enable", "v4">>)
        e6 == EventStep(e4, first, opens, i, bits, <<"enable", "v6">>)
        d4 == EventStep(e6, first, opens, i, bits, <<"disable", "v4">>)
        d6 == EventStep(d4, first, opens, i, bits, <<"disable", "v6">>)
        a4 == EventStep(d6, first, opens, i, bits, <<"announce", "v4">>)
    IN  EventStep(a4, first, opens, i, bits, <<"announce", "v6">>)
-----------------------------------------------------------------------------
(* What goes into the queue: one action per call, event or packet.         *)

(* A packet that arrived before its pcb was closed is parsed after, and    *)
(* can put that pcb to probing: the lists of its services are no longer    *)
(* kept up from there on, so a behaviour ends.                             *)
Stray == \E p \in Pcbs : ~net.pcb[p].ready /\ net.pcb[p].state \in Range(Probes)

Room == Len(queue) < QueueLength

Post(a) == /\ ~Stray /\ posts > 0 /\ Room
           /\ posts' = posts - 1
           /\ queue' = Append(queue, a)
           /\ UNCHANGED net

(* Looked up while its removal is not on the way: a call made after that   *)
(* would leave a pointer to freed memory in the queue.                     *)
Known(s) == /\ s \in net.services
            /\ \A i \in DOMAIN queue :
                    /\ queue[i].op # "clear"
                    /\ queue[i].op = "del" => queue[i].of # s

MdnsHostnameSet == Post([op |-> "hostname"])

MdnsInstanceNameSet == net.named /\ Post([op |-> "instance"])

MdnsServiceAdd(s) ==
    /\ net.named /\ s \notin net.services
    /\ \A i \in DOMAIN queue : queue[i].op = "add" => queue[i].of # s
    /\ Post([op |-> "add", of |-> s])

MdnsServicePortSet(s) == Known(s) /\ Post([op |-> "port", of |-> s])

MdnsServiceTxtSet(s) == Known(s) /\ Post([op |-> "txt", of |-> s])

MdnsServiceTxtItemRemove(s) == Known(s) /\ Post([op |-> "untxt", of |-> s])

MdnsServiceInstanceNameSet(s) == Known(s) /\ Post([op |-> "rename", of |-> s])

MdnsServiceRemove(s) == Known(s) /\ Post([op |-> "del", of |-> s])

MdnsServiceRemoveAll ==
    /\ \E s \in net.services : Known(s)
    /\ Post([op |-> "clear"])

EventAction(i, bits) == [op |-> "event", of |-> i, bits |-> bits]

MdnsNetifAction(i, bits) == Post(EventAction(i, bits))

(* Connected, disconnected and address events of the drivers: each is      *)
(* posted as one or two actions, and what finds no room is lost.           *)
SystemEvents(i) ==
    {<<<<"enable", "v4">>>>, <<<<"disable", "v4">>, <<"disable", "v6">>>>,
     <<<<"enable", "v6">>, <<"announce", "v4">>>>}
        \cup IF i = "sta" THEN {<<<<"enable", "v4">>, <<"announce", "v6">>>>} ELSE {}

HandleSystemEvent(i) ==
    /\ ~Stray /\ posts > 0 /\ Room
    /\ posts' = posts - 1
    /\ \E e \in SystemEvents(i) :
        queue' = queue \o [k \in 1 .. Min({Len(e), QueueLength - Len(queue)}) |->
                                EventAction(i, {e[k]})]
    /\ UNCHANGED net

SendRxAction(p) == net.pcb[p].ready /\ Post([op |-> "rx", of |-> p])

(* The timer task: a packet that is not queued yet and has come due.       *)
SchedulerRun ==
    /\ ~Stray /\ Room
    /\ \E i \in DOMAIN net.tx \ Range(net.due) :
        /\ net' = [net EXCEPT !.due = Append(@, i)]
        /\ queue' = Append(queue, [op |-> "tx", of |-> i])
    /\ UNCHANGED posts
-----------------------------------------------------------------------------
(* Transmitting a packet moves its pcb one state on.                       *)

FreeTx(n, i) == KeepTx(n, DOMAIN n.tx \ {i})

TxHandlePacket(n, i) ==
    LET q == n.tx[i]
        s == n.pcb[q.to].state
        on == [n EXCEPT !.pcb[q.to].state = Successor(s)]
    IN  CASE s \in {"PROBE_1", "PROBE_2", "ANNOUNCE_1", "ANNOUNCE_2"} -> on
          [] s = "PROBE_3" ->
                FreeTx([ScheduleTx(on, AnnounceFromProbe(q)) EXCEPT
                            !.pcb[q.to] = [@ EXCEPT !.probe = {}, !.ip = FALSE,
                                                    !.running = FALSE]], i)
          [] s = "ANNOUNCE_3" -> FreeTx(on, i)
          [] OTHER -> FreeTx(n, i)

(* Mutated: the packet that is sent keeps its queued mark. *)
TxHandle_StaysQueued(n, i) ==
    IF n.due = <<>> \/ Head(n.due) # i THEN n
    ELSE TxHandlePacket(n, i)

(* Only the head of the list is sent, and only when it is queued.          *)
TxHandle(n, i) ==
    IF n.due = <<>> \/ Head(n.due) # i THEN n
    ELSE TxHandlePacket([n EXCEPT !.due = Tail(@)], i)

(* A query for services or our host: the answer to a shared question is    *)
(* scheduled, any other is sent at once and leaves no trace.               *)
AnswerQuery(n, p, asked) ==
    IF n.pcb[p].state \in Range(Announces) \cup {"RUNNING"}
    THEN ScheduleTx(n, AnswerPacket(p, asked)) ELSE n

(* A lost collision over a service: while this pcb probes, whoever carries *)
(* the name takes another one and everybody concerned probes again.        *)
SrvCollision(n, p, s) ==
    CASE ~n.pcb[p].running -> InitPcbProbe(n, p, {s}, FALSE)
      [] n.pcb[p].running /\ s \in n.own -> ProbeAllPcbs(n, {s}, FALSE, FALSE)
      [] n.pcb[p].running /\ s \notin n.own /\ n.titled -> RestartAllPcbsNoInstance(n)
      [] OTHER -> RestartAllPcbs(n)

TxtCollision(n, p, s) ==
    IF n.pcb[p].running THEN n ELSE InitPcbProbe(n, p, {s}, TRUE)

AddressCollision(n, p) ==
    IF n.pcb[p].running THEN RestartAllPcbs(n) ELSE InitPcbProbe(n, p, {}, TRUE)

(* What one received packet can do; several records that collide are       *)
(* several received packets here.                                          *)
RxOutcomes(n, first, p) ==
    {n} \cup IF ~n.named THEN {} ELSE
                {DupInterface(n, first, p[1]), AddressCollision(n, p)}
                \cup {AnswerQuery(n, p, asked) : asked \in (SUBSET (n.services \cup {"host"})) \ {{}}}
                \cup {SrvCollision(n, p, s) : s \in n.services}
                \cup {TxtCollision(n, p, s) : s \in n.services}
-----------------------------------------------------------------------------
(* The service task executes the action at the head of the queue.          *)

Execute(op) ==
    /\ ~Stray
    /\ queue # <<>> /\ Head(queue).op = op
    /\ queue' = Tail(queue)
    /\ UNCHANGED posts

Firsts == {f \in [Pcbs -> {0} \cup DOMAIN net.tx] :
                \A p \in Pcbs : f[p] \in NextPcbPacket(net, p)}

Of == Head(queue).of

SystemEvent ==
    /\ Execute("event")
    /\ \E first \in Firsts, opens \in BOOLEAN :
        net' = PerformEventAction(net, first, opens, Of, Head(queue).bits)

HostnameSet ==
    /\ Execute("hostname")
    /\ net' = RestartAllPcbs([net EXCEPT !.named = TRUE])

InstanceSet ==
    /\ Execute("instance")
    /\ net' = RestartAllPcbsNoInstance([net EXCEPT !.titled = TRUE])

ServiceAdd ==
    /\ Execute("add")
    /\ net' = ProbeAllPcbs([net EXCEPT !.services = @ \cup {Of}], {Of}, FALSE, FALSE)

ServiceInstanceSet ==
    /\ Execute("rename")
    /\ net' = ProbeAllPcbs([net EXCEPT !.own = @ \cup {Of}], {Of}, FALSE, FALSE)

ServicePortSet ==
    /\ Execute("port")
    /\ \E first \in Firsts : net' = AnnounceAllPcbs(net, first, {Of}, TRUE)

ServiceTxtSet ==
    /\ Execute("txt")
    /\ \E first \in Firsts : net' = AnnounceAllPcbs(net, first, {Of}, FALSE)

(* A service without TXT items has nothing to announce.                    *)
ServiceTxtDel ==
    /\ Execute("untxt")
    /\ \E first \in Firsts :
        net' \in {net, AnnounceAllPcbs(net, first, {Of}, FALSE)}

ServiceDel == Execute("del") /\ net' = RemoveService(net, Of)

ServicesClear ==
    /\ Execute("clear")
    /\ net' = FoldSet(LAMBDA s, m : RemoveService(m, s), net, net.services)

TransmitHandle == Execute("tx") /\ net' = TxHandle(net, Of)

RxHandle ==
    /\ Execute("rx")
    /\ \E first \in Firsts : net' \in RxOutcomes(net, first, Of)

ExecuteAction ==
    \/ SystemEvent \/ HostnameSet \/ InstanceSet \/ ServiceAdd
    \/ ServiceInstanceSet \/ ServicePortSet \/ ServiceTxtSet \/ ServiceTxtDel
    \/ ServiceDel \/ ServicesClear \/ TransmitHandle \/ RxHandle

(* mdns_init has run: either nobody has named the host yet, or any set of  *)
(* services was added and announced and every pcb rests.                   *)
ResponderInit ==
    /\ \E S \in SUBSET Services, O \in SUBSET Services, named, titled \in BOOLEAN :
        \E open \in SUBSET Pcbs :
            /\ O \subseteq S
            /\ named \/ (S = {} /\ ~titled)
            /\ net = [services |-> S, own |-> O, named |-> named, titled |-> titled,
                      pcb |-> [p \in Pcbs |-> IF p \in open
                                    THEN [Closed EXCEPT !.state = "RUNNING", !.ready = TRUE]
                                    ELSE Closed],
                      tx |-> <<>>, due |-> <<>>]
    /\ queue = <<>> /\ posts \in 0 .. MaxPosts

Disturb ==
    \/ MdnsHostnameSet \/ MdnsInstanceNameSet \/ MdnsServiceRemoveAll
    \/ \E s \in Services :
        \/ MdnsServiceAdd(s) \/ MdnsServicePortSet(s) \/ MdnsServiceTxtSet(s)
        \/ MdnsServiceTxtItemRemove(s) \/ MdnsServiceInstanceNameSet(s)
        \/ MdnsServiceRemove(s)
    \/ \E i \in Ifs : HandleSystemEvent(i) \/ \E b \in NetifActions : MdnsNetifAction(i, b)
    \/ \E p \in Pcbs : SendRxAction(p)

ResponderNext == Disturb \/ SchedulerRun \/ ExecuteAction

(* An action is taken from the queue by the steps of ExecuteAction and no  *)
(* others.  The service task waits for actions for as long as it lives,    *)
(* and the timer is periodic.                                              *)
TakesAction == ~Stray /\ queue # <<>> /\ queue' = Tail(queue)

ResponderFairness == WF_queue(TakesAction) /\ WF_responderVars(SchedulerRun)

ResponderSpec == ResponderInit /\ [][ResponderNext]_responderVars /\ ResponderFairness
-----------------------------------------------------------------------------
Packets == [to : Pcbs, asks : SUBSET Owners, answers : SUBSET Owners,
            other : SUBSET Owners]

ResponderTypeOK ==
    /\ net.services \subseteq Services /\ net.own \subseteq net.services
    /\ net.pcb \in [Pcbs -> [state : Range(States), ready : BOOLEAN,
                             probe : SUBSET Services, ip : BOOLEAN, running : BOOLEAN]]
    /\ Range(net.tx) \subseteq Packets /\ Range(net.due) \subseteq DOMAIN net.tx
    /\ Len(queue) <= QueueLength /\ posts \in 0 .. MaxPosts

(* A pcb that probes has one packet scheduled, which asks for exactly the  *)
(* services the pcb keeps as probed (all of them known), and for the host  *)
(* exactly if it probes that; a pcb that announces has a packet that will  *)
(* carry it on; and the packets marked as queued have their actions in the *)
(* queue, in order, however often packets and pcbs were dropped meanwhile. *)
ProbeIsScheduled(p) ==
    LET b == net.pcb[p] IN
    /\ b.probe \subseteq net.services
    /\ {net.tx[i].asks : i \in {j \in DOMAIN net.tx : net.tx[j].to = p}}
            = {WithHost(b.probe, b.ip)}
    /\ Cardinality({i \in DOMAIN net.tx : net.tx[i].to = p}) = 1

AnnounceIsScheduled(p) == \E i \in DOMAIN net.tx : net.tx[i].to = p

(* The elements of a occur in b, in that order.                            *)
InOrder(a, b) ==
    \E at \in [DOMAIN a -> DOMAIN b] :
        /\ \A k \in DOMAIN a : b[at[k]] = a[k]
        /\ \A j, k \in DOMAIN a : j < k => at[j] < at[k]

Transmits(due) == [k \in DOMAIN due |-> [op |-> "tx", of |-> due[k]]]

WorkIsScheduled ==
    /\ ResponderTypeOK
    /\ ~Stray => /\ \A p \in Pcbs :
                        /\ net.pcb[p].state \in Range(Probes) => ProbeIsScheduled(p)
                        /\ IsAnnouncing(net.pcb[p]) => AnnounceIsScheduled(p)
                 /\ InOrder(Transmits(net.due), queue)

(* Probing and announcing end: once nobody disturbs it any more, every     *)
(* pcb comes to rest.                                                      *)
PcbSettles ==
    \A p \in Pcbs : (net.pcb[p].state \in Range(Probes) \cup Range(Announces))
                        ~> (Stray \/ net.pcb[p].state \in {"OFF", "DUP", "RUNNING"})
=============================================================================
