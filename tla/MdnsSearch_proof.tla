-------------------------- MODULE MdnsSearch_proof --------------------------
(***************************************************************************)
(* Proofs about MdnsSearch, for every set of searches and of results.      *)
(***************************************************************************)
EXTENDS MdnsSearch, TLAPS

(* Every step on a search leaves its structure in range.                   *)
LEMMA AddResultType ==
    ASSUME NEW r \in Search, NEW x \in Results
    PROVE  /\ AddResult(r, x) \in Search
           /\ FinishDone(r) \in Search
<1>1. AddResult(r, x) \in Search
  <2>1. r.found \cup {x} \in SUBSET Results
    BY DEF Search
  <2> QED
    BY <2>1 DEF AddResult, Search
<1>2. FinishDone(r) \in Search
  BY DEF FinishDone, Finished, Search, Flag
<1> QED
  BY <1>1, <1>2

LEMMA UnusedType == Unused \in Search
  BY DEF Unused, Search, Flag

(* Type correctness: callers, timer, service task and parser keep the      *)
(* structures of mdns_search_once_t in range.                              *)
THEOREM SearchTypeCorrect == SearchSpec => []SearchTypeOK
<1>1. SearchInit => SearchTypeOK
  BY UnusedType DEF SearchInit, SearchTypeOK, Flag
<1>2. SearchTypeOK /\ [SearchNext]_searchVars => SearchTypeOK'
  <2> SUFFICES ASSUME SearchTypeOK, [SearchNext]_searchVars PROVE SearchTypeOK'
    OBVIOUS
  <2>1. ASSUME NEW s \in Searches, NEW r \in Search, Update(s, r)
        PROVE  SearchTypeOK'
    BY <2>1 DEF SearchTypeOK, Update
  <2>2. ASSUME NEW s \in Searches, SearchStep(s) PROVE SearchTypeOK'
    <3>1. search[s] \in Search
      BY DEF SearchTypeOK
    <3> DEFINE r == search[s]
    <3>2. CASE QueryGeneric(s)
      <4>1. PICK max \in {0, 1}, posted \in Flag :
              Update(s, [Unused EXCEPT !.max = max, !.add = posted,
                          !.owner = IF posted = 1 THEN "waiting" ELSE "freed"])
        BY <3>2 DEF QueryGeneric
      <4> QED
        BY <4>1, <2>1, UnusedType DEF Search
    <3>3. CASE QueryAsyncNew(s)
      <4>1. PICK max \in {0, 1}, posted \in Flag :
              Update(s, [Unused EXCEPT !.max = max, !.add = posted,
                          !.owner = IF posted = 1 THEN "polling" ELSE "freed"])
        BY <3>3 DEF QueryAsyncNew
      <4> QED
        BY <4>1, <2>1, UnusedType DEF Search
    <3>4. CASE QueryReturn(s)
      BY <3>4, <3>1, <2>1 DEF QueryReturn, Search, Flag
    <3>5. CASE QueryAsyncGetResults(s)
      BY <3>5, <3>1, <2>1 DEF QueryAsyncGetResults, Search, Flag
    <3>6. CASE QueryAsyncDelete(s)
      BY <3>6, <3>1, <2>1 DEF QueryAsyncDelete, Search
    <3>7. CASE SearchExpires(s)
      BY <3>7, <3>1, <2>1 DEF SearchExpires, Search, Flag
    <3>8. CASE SearchExpiresUnposted(s)
      BY <3>8, <3>1, <2>1 DEF SearchExpiresUnposted, Search
    <3>9. CASE SearchResend(s)
      <4>1. PICK posted \in Flag :
              Update(s, [r EXCEPT !.state = "RUNNING",
                                  !.send = IF posted = 1 THEN 1 ELSE @])
        BY <3>9 DEF SearchResend
      <4> QED
        BY <4>1, <3>1, <2>1 DEF Search, Flag
    <3>10. CASE SearchAdd(s)
      BY <3>10, <3>1, <2>1 DEF SearchAdd, Search, Flag
    <3>11. CASE SearchSend(s)
      BY <3>11, <3>1, <2>1 DEF SearchSend, Search, Flag
    <3>12. CASE SearchEnd(s)
      <4>1. CASE r.owner = "freed"
        BY <4>1, <3>12, <3>1 DEF SearchEnd, SearchTypeOK, Search, Flag
      <4>2. CASE r.owner # "freed"
        BY <4>2, <3>12, <3>1, <2>1, ZenonT(30) DEF SearchEnd, Finished, Search, Flag
      <4> QED
        BY <4>1, <4>2
    <3>13. CASE ParsePacket(s)
      BY <3>13, <3>1, <2>1, AddResultType DEF ParsePacket
    <3> QED
      BY <2>2, <3>2, <3>3, <3>4, <3>5, <3>6, <3>7, <3>8, <3>9, <3>10, <3>11,
         <3>12, <3>13 DEF SearchStep, Caller
  <2>3. CASE ParseAnswer
    <3>1. PICK x \in Results, hit \in SUBSET {s \in Searches : Matches(search[s])} :
            search' = [s \in Searches |->
                        FinishDone(IF s \in hit THEN AddResult(search[s], x) ELSE search[s])]
      BY <2>3 DEF ParseAnswer
    <3>2. \A s \in Searches :
            FinishDone(IF s \in hit THEN AddResult(search[s], x) ELSE search[s]) \in Search
      BY AddResultType DEF SearchTypeOK
    <3> QED
      BY <3>1, <3>2, <2>3 DEF SearchTypeOK, ParseAnswer
  <2>4. CASE UNCHANGED searchVars
    BY <2>4 DEF SearchTypeOK, searchVars
  <2> QED
    BY <2>2, <2>3, <2>4 DEF SearchNext
<1> QED
  BY <1>1, <1>2, PTL DEF SearchSpec
-----------------------------------------------------------------------------
(* Waiting callers.                                                        *)

(* What every step keeps true of a search: besides Served, the order of    *)
(* its actions.  Until ADD is executed the search is on no chain, not off, *)
(* not finished and without END, and a finished search has left the chain; *)
(* so a caller who frees it on the semaphore leaves nothing behind.        *)
Orderly(r) ==
    /\ r.add = 1 => r.chain = 0 /\ r.state # "OFF" /\ r.sem = 0 /\ r.end = 0
    /\ r.sem = 1 => r.chain = 0

Good(r) == Served(r) /\ Orderly(r)

AllGood == freedUse = 0 => \A s \in Searches : Good(search[s])

LEMMA UnusedGood == Good(Unused)
  BY DEF Unused, Good, Served, Orderly

(* Finding records and finishing the full searches keep a search good.     *)
LEMMA ParserGood ==
    ASSUME NEW r \in Search, Good(r), NEW x \in Results
    PROVE  Good(AddResult(r, x)) /\ Good(FinishDone(r))
<1>1. Good(AddResult(r, x))
  BY DEF AddResult, Good, Served, Orderly, Search
<1>2. Good(FinishDone(r))
  BY DEF FinishDone, Finished, Good, Served, Orderly, Search, Flag
<1> QED
  BY <1>1, <1>2

(* A caller waiting for its semaphore always has something that will wake  *)
(* it, whatever the service task, the timer, a full queue and the peers    *)
(* do, and a search that was freed is on no chain.                         *)
THEOREM WaiterServed == SearchSpec => []WaiterIsServed
<1>1. SearchInit => AllGood
  BY UnusedGood DEF SearchInit, AllGood
<1>2. SearchTypeOK /\ AllGood /\ [SearchNext]_searchVars => AllGood'
  <2> SUFFICES ASSUME SearchTypeOK, AllGood, [SearchNext]_searchVars PROVE AllGood'
    OBVIOUS
  <2>1. ASSUME NEW s \in Searches, NEW r, Update(s, r), Good(r)
        PROVE  AllGood'
    BY <2>1 DEF SearchTypeOK, Update, AllGood
  <2>2. ASSUME NEW s \in Searches, SearchStep(s) PROVE AllGood'
    <3>1. search[s] \in Search /\ freedUse = 0 /\ Good(search[s])
      BY <2>2 DEF SearchTypeOK, AllGood, SearchStep, Caller, Update, QueryGeneric,
           QueryAsyncNew, QueryReturn, QueryAsyncGetResults, QueryAsyncDelete,
           SearchExpires, SearchExpiresUnposted, SearchResend, SearchAdd,
           SearchSend, SearchEnd, ParsePacket
    <3> DEFINE r == search[s]
    <3> USE DEF Good, Served, Orderly
    <3>2. CASE QueryGeneric(s)
      <4>1. PICK max \in {0, 1}, posted \in Flag :
              Update(s, [Unused EXCEPT !.max = max, !.add = posted,
                          !.owner = IF posted = 1 THEN "waiting" ELSE "freed"])
        BY <3>2 DEF QueryGeneric
      <4> QED
        BY <4>1, <2>1 DEF Unused, Flag
    <3>3. CASE QueryAsyncNew(s)
      <4>1. PICK max \in {0, 1}, posted \in Flag :
              Update(s, [Unused EXCEPT !.max = max, !.add = posted,
                          !.owner = IF posted = 1 THEN "polling" ELSE "freed"])
        BY <3>3 DEF QueryAsyncNew
      <4> QED
        BY <4>1, <2>1 DEF Unused, Flag
    <3>4. CASE QueryReturn(s)
      BY <3>4, <3>1, <2>1 DEF QueryReturn, Search, Flag
    <3>5. CASE QueryAsyncGetResults(s)
      BY <3>5, <3>1, <2>1 DEF QueryAsyncGetResults, Search, Flag
    <3>6. CASE QueryAsyncDelete(s)
      BY <3>6, <3>1, <2>1 DEF QueryAsyncDelete, Search
    <3>7. CASE SearchExpires(s)
      <4>1. Good([r EXCEPT !.state = "OFF", !.end = 1])
        BY <3>7, <3>1 DEF SearchExpires, Search, Flag
      <4>2. Update(s, [r EXCEPT !.state = "OFF", !.end = 1])
        BY <3>7 DEF SearchExpires
      <4> QED
        BY ONLY <4>1, <4>2, <2>1, <3>1
    <3>8. CASE SearchExpiresUnposted(s)
      BY <3>8, <3>1, <2>1 DEF SearchExpiresUnposted, Search
    <3>9. CASE SearchResend(s)
      <4>1. PICK posted \in Flag :
              Update(s, [r EXCEPT !.state = "RUNNING",
                                  !.send = IF posted = 1 THEN 1 ELSE @])
        BY <3>9 DEF SearchResend
      <4> QED
        BY <4>1, <3>1, <2>1, <3>9 DEF Search, Flag, SearchResend
    <3>10. CASE SearchAdd(s)
      BY <3>10, <3>1, <2>1 DEF SearchAdd, Search, Flag
    <3>11. CASE SearchSend(s)
      BY <3>11, <3>1, <2>1 DEF SearchSend, Search, Flag
    <3>12. CASE SearchEnd(s)
      <4>1. CASE r.owner = "freed"
        BY <4>1, <3>12 DEF SearchEnd, AllGood
      <4>2. CASE r.owner # "freed"
        <5>1. r.end = 1 /\ Update(s, [Finished(r) EXCEPT !.end = 0])
          BY <4>2, <3>12 DEF SearchEnd
        <5>2. Good([Finished(r) EXCEPT !.end = 0])
          BY <4>2, <5>1, <3>1 DEF Finished, Search, Flag
        <5> QED
          BY ONLY <5>1, <5>2, <2>1, <3>1
      <4> QED
        BY <4>1, <4>2
    <3>13. CASE ParsePacket(s)
      <4>1. PICK x \in Results : Update(s, AddResult(r, x))
        BY <3>13 DEF ParsePacket
      <4>2. Good(AddResult(r, x))
        BY <3>1, ParserGood
      <4> QED
        BY ONLY <4>1, <4>2, <2>1, <3>1
    <3> QED
      BY <2>2, <3>2, <3>3, <3>4, <3>5, <3>6, <3>7, <3>8, <3>9, <3>10, <3>11,
         <3>12, <3>13 DEF SearchStep, Caller
  <2>3. CASE ParseAnswer
    <3>1. PICK x \in Results, hit \in SUBSET {s \in Searches : Matches(search[s])} :
            search' = [s \in Searches |->
                        FinishDone(IF s \in hit THEN AddResult(search[s], x) ELSE search[s])]
      BY <2>3 DEF ParseAnswer
    <3>2. freedUse = 0 /\ freedUse' = 0
      BY <2>3 DEF ParseAnswer
    <3>3. ASSUME NEW s \in Searches
          PROVE  Good(FinishDone(IF s \in hit THEN AddResult(search[s], x) ELSE search[s]))
      <4>1. search[s] \in Search /\ Good(search[s])
        BY <3>2 DEF SearchTypeOK, AllGood
      <4>2. AddResult(search[s], x) \in Search /\ Good(AddResult(search[s], x))
        BY <4>1, AddResultType, ParserGood
      <4> QED
        BY <4>1, <4>2, ParserGood
    <3> QED
      BY <3>1, <3>2, <3>3 DEF AllGood
  <2>4. CASE UNCHANGED searchVars
    BY <2>4 DEF AllGood, searchVars
  <2> QED
    BY <2>2, <2>3, <2>4 DEF SearchNext
<1>3. AllGood => WaiterIsServed
  BY DEF AllGood, Good, WaiterIsServed
<1> QED
  BY <1>1, <1>2, <1>3, SearchTypeCorrect, PTL DEF SearchSpec
=============================================================================
