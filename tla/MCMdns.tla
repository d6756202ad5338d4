------------------------------- MODULE MCMdns -------------------------------
(***************************************************************************)
(* Small instances of the two halves of the mDNS component.  They share    *)
(* the action queue and the lock but no state, so a behaviour is about one *)
(* of them: the responder with one interface and more disturbances, the    *)
(* responder with two interfaces on one subnet, or the searches.           *)
(***************************************************************************)
EXTENDS MdnsResponder, MdnsSearch

VARIABLE part

mdnsVars == <<part, net, queue, posts, search, freedUse>>

Parts == {"station", "duplicates", "search"}

MCNetifActions == {{<<"enable", "v4">>, <<"announce", "v4">>}}

MCEth == <<"eth", "v4">>

MdnsInit ==
    /\ part \in Parts
    /\ ResponderInit /\ SearchInit
    /\ net.titled = net.named
    /\ part = "station" =>
            /\ posts = MaxPosts
            /\ net.pcb[MCEth] = Closed
            /\ net.named => net.services = Services /\ net.own = {CHOOSE s \in Services : TRUE}
    /\ part = "duplicates" =>
            /\ posts = MaxPosts - 1
            /\ net.named /\ net.services = {} /\ \A p \in Pcbs : net.pcb[p].ready
    /\ part = "search" => posts = 0 /\ ~net.named /\ net.pcb = [p \in Pcbs |-> Closed]

MdnsNext ==
    /\ UNCHANGED part
    /\ \/ /\ part = "station" /\ ResponderNext
          /\ \A i \in DOMAIN queue' : queue'[i].op = "event" => queue'[i].of # "eth"
          /\ UNCHANGED searchVars
       \/ /\ part = "duplicates" /\ ResponderNext /\ UNCHANGED searchVars
       \/ /\ part = "search" /\ SearchNext /\ UNCHANGED responderVars

MdnsSpec == MdnsInit /\ [][MdnsNext]_mdnsVars /\ ResponderFairness /\ SearchFairness
-----------------------------------------------------------------------------
(* Pcbs come to rest and queries return to their callers.                  *)
Settles == PcbSettles /\ QueryReturns
=============================================================================
