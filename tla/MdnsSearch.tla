----------------------------- MODULE MdnsSearch -----------------------------
(***************************************************************************)
(* The querying half of the mDNS component (mdns.c).  A caller creates a   *)
(* search, posts its ADD action and waits on a semaphore; the service task *)
(* puts it on a chain; the timer task, every 100 ms, has running searches  *)
(* sent again and posts END for the ones that timed out; the packet parser *)
(* adds results and finishes the searches that have as many as they asked  *)
(* for.  Whoever finishes a search gives its semaphore, and the caller     *)
(* then frees it.                                                          *)
(*                                                                         *)
(* The actions of one search are executed in the order of their posts:     *)
(* ADD before any SEND, and END, after which no SEND is posted, last.      *)
(* Flags are 0 or 1.                                                       *)
(***************************************************************************)
EXTENDS Naturals, FiniteSets

CONSTANTS Searches,     \* search structures, each used for one query
          Results       \* records a peer may answer with

VARIABLES search,   \* [Searches -> the structure and its pending actions]
          freedUse  \* 1 once an END action met a search that was freed

searchVars == <<search, freedUse>>

Flag == {0, 1}

Search == [state : {"INIT", "RUNNING", "OFF"}, chain : Flag, sem : Flag,
           max : {0, 1}, found : SUBSET Results,
           owner : {"none", "waiting", "polling", "done", "freed"},
           add : Flag, send : Flag, end : Flag]

Unused == [state |-> "INIT", chain |-> 0, sem |-> 0, max |-> 0, found |-> {},
           owner |-> "none", add |-> 0, send |-> 0, end |-> 0]

SearchInit == search = [s \in Searches |-> Unused] /\ freedUse = 0

(* The structure of s becomes r; nothing else changes.                     *)
Update(s, r) == /\ freedUse = 0
                /\ search' = [search EXCEPT ![s] = r]
                /\ UNCHANGED freedUse
-----------------------------------------------------------------------------
(* The caller.                                                             *)

(* mdns_query_generic waits without limit for the semaphore; a search that *)
(* cannot be posted is freed and the call fails.  "max" 0 is no limit.     *)
QueryGeneric(s) ==
    /\ search[s].owner = "none"
    /\ \E max \in {0, 1}, posted \in Flag :
        Update(s, [Unused EXCEPT !.max = max, !.add = posted,
                                 !.owner = IF posted = 1 THEN "waiting" ELSE "freed"])

(* mdns_query_async_new returns at once; its caller polls.                 *)
QueryAsyncNew(s) ==
    /\ search[s].owner = "none"
    /\ \E max \in {0, 1}, posted \in Flag :
        Update(s, [Unused EXCEPT !.max = max, !.add = posted,
                                 !.owner = IF posted = 1 THEN "polling" ELSE "freed"])

(* The rest of mdns_query_generic, once the semaphore was given.           *)
QueryReturn(s) ==
    /\ search[s].owner = "waiting" /\ search[s].sem = 1
    /\ Update(s, [search[s] EXCEPT !.sem = 0, !.owner = "freed"])

QueryAsyncGetResults(s) ==
    /\ search[s].owner = "polling" /\ search[s].sem = 1
    /\ Update(s, [search[s] EXCEPT !.sem = 0, !.owner = "done"])

(* Called, as mdns.h asks, only after the results were had.                *)
QueryAsyncDelete(s) ==
    /\ search[s].owner = "done" /\ search[s].state = "OFF"
    /\ Update(s, [search[s] EXCEPT !.owner = "freed"])
-----------------------------------------------------------------------------
(* The timer task.  A post fails when the queue is full.                   *)

SearchExpires(s) ==
    /\ search[s].chain = 1 /\ search[s].state # "OFF"
    /\ Update(s, [search[s] EXCEPT !.state = "OFF", !.end = 1])

(* Mutated: a search whose END could not be posted stays off. *)
SearchExpiresUnposted_StaysOff(s) ==
    /\ search[s].chain = 1 /\ search[s].state # "OFF"
    /\ Update(s, [search[s] EXCEPT !.state = "OFF"])

SearchExpiresUnposted(s) ==
    /\ search[s].chain = 1 /\ search[s].state # "OFF"
    /\ Update(s, [search[s] EXCEPT !.state = "RUNNING"])

SearchResend(s) ==
    /\ search[s].chain = 1 /\ search[s].state # "OFF"
    /\ \E posted \in Flag :
        Update(s, [search[s] EXCEPT !.state = "RUNNING",
                                    !.send = IF posted = 1 THEN 1 ELSE @])
-----------------------------------------------------------------------------
(* The service task.                                                       *)

SearchAdd(s) ==
    /\ search[s].add = 1
    /\ Update(s, [search[s] EXCEPT !.chain = 1, !.add = 0])

(* A search no longer on the chain is not sent.                            *)
SearchSend(s) ==
    /\ search[s].send = 1
    /\ Update(s, [search[s] EXCEPT !.send = 0])

Finished(r) == [r EXCEPT !.state = "OFF", !.chain = 0, !.sem = 1]

(* END finishes the search; when the parser finished it first, and the     *)
(* caller has freed it since, it works on freed memory, and what happens   *)
(* from there on is open.                                                  *)
SearchEnd(s) ==
    /\ search[s].end = 1 /\ search[s].send = 0
    /\ freedUse = 0
    /\ IF search[s].owner = "freed"
       THEN freedUse' = 1 /\ search' = [search EXCEPT ![s].end = 0]
       ELSE Update(s, [Finished(search[s]) EXCEPT !.end = 0])

IsFull(r) == r.max # 0 /\ Cardinality(r.found) >= r.max

(* A record that answers s: known ones are updated, new ones are added     *)
(* while there is room.                                                    *)
AddResult(r, x) ==
    IF x \in r.found \/ IsFull(r) THEN r ELSE [r EXCEPT !.found = @ \cup {x}]

Matches(r) == r.chain = 1 /\ r.state # "OFF"

(* A packet that is no answer, such as a probe of another host, can carry  *)
(* records that match a search; it finishes none.                          *)
ParsePacket(s) ==
    /\ Matches(search[s])
    /\ \E x \in Results : Update(s, AddResult(search[s], x))

FinishDone(r) == IF r.chain = 1 /\ IsFull(r) THEN Finished(r) ELSE r

(* An answer may give a record to every search it matches, and then every  *)
(* search on the chain that is full is finished.                           *)
ParseAnswer ==
    /\ freedUse = 0
    /\ \E x \in Results, hit \in SUBSET {s \in Searches : Matches(search[s])} :
        search' = [s \in Searches |->
                    FinishDone(IF s \in hit THEN AddResult(search[s], x) ELSE search[s])]
    /\ UNCHANGED freedUse
-----------------------------------------------------------------------------
Caller(s) == QueryReturn(s) \/ QueryAsyncGetResults(s) \/ QueryAsyncDelete(s)

SearchStep(s) ==
    \/ QueryGeneric(s) \/ QueryAsyncNew(s) \/ Caller(s)
    \/ SearchExpires(s) \/ SearchExpiresUnposted(s) \/ SearchResend(s)
    \/ SearchAdd(s) \/ SearchSend(s) \/ SearchEnd(s)
    \/ ParsePacket(s)

SearchNext == (\E s \in Searches : SearchStep(s)) \/ ParseAnswer

(* The service task drains the queue, so a post that failed is repeated    *)
(* by the periodic timer until it succeeds; a woken caller runs.           *)
SearchFairness ==
    \A s \in Searches :
        /\ WF_searchVars(SearchAdd(s)) /\ WF_searchVars(SearchSend(s))
        /\ WF_searchVars(SearchEnd(s)) /\ WF_searchVars(SearchExpires(s))
        /\ WF_searchVars(Caller(s))

SearchSpec == SearchInit /\ [][SearchNext]_searchVars /\ SearchFairness
-----------------------------------------------------------------------------
SearchTypeOK == search \in [Searches -> Search] /\ freedUse \in Flag

(* A caller who waits has something that will wake it: the ADD on its way, *)
(* a search on the chain that is either running, so that the timer looks   *)
(* at it, or has its END on the way, or the semaphore given.  A search     *)
(* that was freed is on no chain and is not about to be put there.         *)
Served(r) ==
    /\ r.owner \in {"waiting", "polling"} => r.add = 1 \/ r.chain = 1 \/ r.sem = 1
    /\ r.chain = 1 /\ r.state = "OFF" => r.end = 1
    /\ r.owner \in {"none", "done", "freed"} => r.add = 0 /\ r.chain = 0

WaiterIsServed == \A s \in Searches : freedUse = 0 => Served(search[s])

(* A query comes back to its caller.                                       *)
QueryReturns ==
    \A s \in Searches : search[s].owner \in {"waiting", "polling"}
                            ~> (search[s].owner \in {"done", "freed"} \/ freedUse = 1)
=============================================================================
