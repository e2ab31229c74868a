--------------------------- MODULE CvcRelay_proofs ---------------------------
(***************************************************************************)
(* Proofs about CvcRelay for any number of approvals and worker processes, *)
(* however they race for the socket.                                       *)
(***************************************************************************)
EXTENDS CvcRelay, TLAPS

Held == [Approvals -> {"none", "fresh", "expired"}]

LEMMA InitGood == Init => IInv
  BY HostsAssumption, AttemptsAssumption
     DEF Init, IInv, TypeOK, CodeInOnePlace, RowsFollow, Kept, Empty, Phase, Ended

-----------------------------------------------------------------------------
(* Types. *)

\* What _prune leaves is a memory like before, with nothing new in it.
LEMMA PrunedTyped ==
    ASSUME TypeOK, NEW p \in Hosts
    PROVE  /\ Pruned(p) \in Held
           /\ \A a \in Approvals : Pruned(p)[a] # "none" => held[p][a] # "none"
           /\ \A a \in Approvals : Pruned(p)[a] = "fresh" <=> held[p][a] = "fresh"
  <1>1. held[p] \in Held
    BY DEF TypeOK, Held
  <1>. QED
    BY <1>1 DEF Pruned, Held

\* One process's memory replaced.
LEMMA HeldTyped ==
    ASSUME TypeOK, NEW p \in Hosts, NEW m \in Held, held' = [held EXCEPT ![p] = m]
    PROVE  held' \in [Hosts -> Held]
  BY DEF TypeOK, Held

LEMMA ForgetTyped ==
    ASSUME TypeOK, NEW p \in Hosts, Forget(p)
    PROVE  /\ held' \in [Hosts -> Held]
           /\ spoiled' \in [Approvals -> BOOLEAN]
           /\ path' \in Hosts \cup {None}
  <1>1. Empty \in Held
    BY DEF Empty, Held
  <1>2. held' \in [Hosts -> Held]
    BY <1>1 DEF Forget, TypeOK, Held
  <1>3. spoiled' \in [Approvals -> BOOLEAN]
    BY DEF Forget
  <1>4. path' \in Hosts \cup {None}
    BY DEF Forget, TypeOK
  <1>. QED
    BY <1>2, <1>3, <1>4

LEMMA AfterTyped ==
    ASSUME TypeOK, NEW a \in Approvals, NEW phase \in Phase, After(a, phase)
    PROVE  row' \in [Approvals -> Phase]
  BY DEF After, TypeOK, Phase, Ended

LEMMA TypeStep ==
    ASSUME IInv, Next
    PROVE  TypeOK'
  <1>. USE DEF relayVars, apiVars, rowVars, workVars, ghostVars
  <1>t. TypeOK
    BY DEF IInv
  <1>j. \A p \in Hosts : stage[p] # "idle" => job[p] \in Approvals
    BY DEF IInv, RowsFollow
  <1>h. held \in [Hosts -> Held]
    BY <1>t DEF TypeOK, Held
  <1>1. ASSUME NEW p \in Hosts, StartCheck(p) \/ StartListen(p)
        PROVE  TypeOK'
    BY <1>1, <1>t DEF TypeOK, StartCheck, StartListen
  <1>2. ASSUME NEW p \in Hosts, Close(p)
        PROVE  TypeOK'
    BY <1>2, <1>t, ForgetTyped DEF TypeOK, Close, Held
  <1>3. ASSUME NEW p \in Hosts, Die(p)
        PROVE  TypeOK'
    BY <1>3, <1>t, ForgetTyped DEF TypeOK, Die, Held
  <1>4. ASSUME NEW p \in Hosts, NEW a \in Approvals, Expire(p, a)
        PROVE  TypeOK'
    <2>1. [held[p] EXCEPT ![a] = "expired"] \in Held
      BY <1>h DEF Held
    <2>2. held' = [held EXCEPT ![p] = [held[p] EXCEPT ![a] = "expired"]]
      BY <1>4, <1>h DEF Expire
    <2>. QED
      BY <2>1, <2>2, <1>4, <1>t, HeldTyped DEF TypeOK, Expire, Held
  <1>5. ASSUME NEW a \in Approvals, Flush(a) \/ SendPut(a) \/ PutFails(a) \/ ApiDies(a)
        PROVE  TypeOK'
    BY <1>5, <1>t DEF TypeOK, Flush, SendPut, PutFails, ApiDies, Reply
  <1>6. ASSUME NEW a \in Approvals, PutArrives(a)
        PROVE  TypeOK'
    <2>1. wire[a] \in Hosts
      BY <1>6, <1>t DEF PutArrives, TypeOK
    <2>2. [Pruned(wire[a]) EXCEPT ![a] = "fresh"] \in Held
      BY <2>1, <1>t, PrunedTyped DEF Held
    <2>3. held' \in [Hosts -> Held]
      BY <2>1, <2>2, <1>6, <1>t, HeldTyped DEF PutArrives
    <2>. QED
      BY <2>3, <1>6, <1>t DEF TypeOK, PutArrives, Reply, Held
  <1>7. ASSUME NEW a \in Approvals, Commit(a)
        PROVE  TypeOK'
    BY <1>7, <1>t DEF TypeOK, Commit, Reply, Phase
  <1>8. ASSUME NEW a \in Approvals, Discard(a)
        PROVE  TypeOK'
    <2>1. held' \in [Hosts -> Held]
      <3>1. CASE UNCHANGED held
        BY <3>1, <1>h
      <3>2. CASE path # None /\ held' = [held EXCEPT ![path][a] = "none"]
        <4>1. path \in Hosts
          BY <3>2, <1>t DEF TypeOK
        <4>2. [held[path] EXCEPT ![a] = "none"] \in Held
          BY <4>1, <1>h DEF Held
        <4>3. held' = [held EXCEPT ![path] = [held[path] EXCEPT ![a] = "none"]]
          BY <3>2, <4>1, <1>h
        <4>. QED
          BY <4>1, <4>2, <4>3, <1>t, HeldTyped
      <3>. QED
        BY <3>1, <3>2, <1>8 DEF Discard
    <2>. QED
      BY <2>1, <1>8, <1>t DEF TypeOK, Discard, Reply, Held
  <1>9. ASSUME NEW p \in Hosts, Claim(p)
        PROVE  TypeOK'
    <2>. PICK a \in Approvals :
            /\ Claimable(a)
            /\ IF row[a] # "paying" /\ attempts[a] < MaxAttempts
               THEN /\ row' = [row EXCEPT ![a] = "running"]
                    /\ attempts' = [attempts EXCEPT ![a] = @ + 1]
                    /\ job' = [job EXCEPT ![p] = a]
                    /\ stage' = [stage EXCEPT ![p] = "browse"]
               ELSE After(a, "failed") /\ UNCHANGED <<attempts, workVars>>
      BY <1>9 DEF Claim
    <2>0. UNCHANGED <<relayVars, apiVars, ghostVars>>
      BY <1>9 DEF Claim
    <2>1. CASE row[a] # "paying" /\ attempts[a] < MaxAttempts
      <3>1. attempts[a] + 1 \in 0..MaxAttempts
        BY <2>1, <1>t, AttemptsAssumption DEF TypeOK
      <3>2. attempts' \in [Approvals -> 0..MaxAttempts]
        BY <2>1, <3>1, <1>t DEF TypeOK
      <3>3. row' \in [Approvals -> Phase]
        BY <2>1, <1>t DEF TypeOK, Phase
      <3>4. job' \in [Hosts -> Approvals \cup {None}]
        BY <2>1, <1>t DEF TypeOK
      <3>5. stage' \in [Hosts -> {"idle", "browse", "loaded", "sent"}]
        BY <2>1, <1>t DEF TypeOK
      <3>. QED
        BY <2>0, <3>2, <3>3, <3>4, <3>5, <1>t DEF TypeOK
    <2>2. CASE ~(row[a] # "paying" /\ attempts[a] < MaxAttempts)
      <3>1. row' \in [Approvals -> Phase]
        BY <2>2, <1>t, AfterTyped DEF Phase, Ended
      <3>. QED
        BY <2>0, <2>2, <3>1, <1>t DEF TypeOK
    <2>. QED
      BY <2>1, <2>2
  <1>10. ASSUME NEW p \in Hosts, FailBeforeLoad(p) \/ FailLoaded(p) \/ Settle(p)
         PROVE  TypeOK'
    <2>1. job[p] \in Approvals
      BY <1>10, <1>j DEF FailBeforeLoad, FailLoaded, Settle
    <2>2. \E phase \in Phase : After(job[p], phase)
      BY <1>10 DEF FailBeforeLoad, FailLoaded, Settle, Phase, Ended
    <2>3. row' \in [Approvals -> Phase]
      BY <2>1, <2>2, <1>t, AfterTyped
    <2>. QED
      BY <2>3, <1>10, <1>t DEF TypeOK, FailBeforeLoad, FailLoaded, Settle, Leave
  <1>11. ASSUME NEW p \in Hosts, TakeCode(p)
         PROVE  TypeOK'
    <2>1. job[p] \in Approvals
      BY <1>11, <1>j DEF TakeCode
    <2>2. [Pruned(p) EXCEPT ![job[p]] = "none"] \in Held
      BY <2>1, <1>t, PrunedTyped DEF Held
    <2>3. held' \in [Hosts -> Held]
      BY <2>2, <1>11, <1>t, HeldTyped DEF TakeCode
    <2>. QED
      BY <2>1, <2>3, <1>11, <1>t DEF TypeOK, TakeCode, Held
  <1>12. ASSUME NEW p \in Hosts, CodeUnavailable(p)
         PROVE  TypeOK'
    <2>1. job[p] \in Approvals
      BY <1>12, <1>j DEF CodeUnavailable
    <2>2. row' \in [Approvals -> Phase]
      BY <2>1, <1>12, <1>t, AfterTyped DEF CodeUnavailable, Phase, Ended
    <2>3. held' \in [Hosts -> Held]
      BY <1>12, <1>t, PrunedTyped, HeldTyped DEF CodeUnavailable
    <2>. QED
      BY <2>2, <2>3, <1>12, <1>t DEF TypeOK, CodeUnavailable, Leave, Held
  <1>13. ASSUME NEW p \in Hosts, Submit(p)
         PROVE  TypeOK'
    BY <1>13, <1>j, <1>t DEF TypeOK, Submit, Phase
  <1>. QED
    BY <1>1, <1>2, <1>3, <1>4, <1>5, <1>6, <1>7, <1>8, <1>9, <1>10, <1>11, <1>12, <1>13
       DEF Next, WorkerStep, ApiStep

-----------------------------------------------------------------------------
(* The inductive invariant. *)

\* A step that makes no copy of a code and no request begin again.
LEMMA NoCopyMade ==
    ASSUME IInv, UNCHANGED used,
           \A a \in Approvals : wire'[a] \in {wire[a], None},
           \A p \in Hosts, a \in Approvals : held'[p][a] # "none" => held[p][a] # "none",
           \A a \in Approvals :
              api'[a] \in {"idle", "flushed"} => api[a] \in {"idle", "flushed"}
    PROVE  CodeInOnePlace'
  BY DEF IInv, CodeInOnePlace, Kept

LEMMA PlacesStep ==
    ASSUME IInv, Next
    PROVE  CodeInOnePlace'
  <1>. USE DEF relayVars, apiVars, rowVars, workVars, ghostVars
  <1>t. TypeOK /\ CodeInOnePlace /\ RowsFollow
    BY DEF IInv
  <1>h. held \in [Hosts -> Held]
    BY <1>t DEF TypeOK, Held
  <1>1. ASSUME UNCHANGED <<held, wire, api, used>>
        PROVE  CodeInOnePlace'
    BY <1>1, <1>t DEF CodeInOnePlace, Kept
  <1>2. ASSUME NEW p \in Hosts, Close(p) \/ Die(p)
        PROVE  CodeInOnePlace'
    <2>1. UNCHANGED <<api, used>>
      BY <1>2 DEF Close, Die
    <2>2. \A a \in Approvals : wire'[a] \in {wire[a], None}
      BY <1>2 DEF Close, Die
    <2>3. held' = [held EXCEPT ![p] = Empty]
      BY <1>2 DEF Close, Die, Forget
    <2>4. \A q \in Hosts, a \in Approvals : held'[q][a] # "none" => held[q][a] # "none"
      BY <2>3, <1>h DEF Empty
    <2>. QED
      BY <2>1, <2>2, <2>4, NoCopyMade
  <1>3. ASSUME NEW p \in Hosts, NEW a \in Approvals, Expire(p, a)
        PROVE  CodeInOnePlace'
    <2>1. \A q \in Hosts, b \in Approvals : held'[q][b] # "none" => held[q][b] # "none"
      BY <1>3, <1>h DEF Expire, Held
    <2>. QED
      BY <2>1, <1>3, NoCopyMade DEF Expire
  <1>4. ASSUME NEW a \in Approvals, Flush(a) \/ PutFails(a) \/ ApiDies(a) \/ Commit(a)
        PROVE  CodeInOnePlace'
    <2>1. UNCHANGED <<held, wire, used>>
      BY <1>4 DEF Flush, PutFails, ApiDies, Commit
    <2>2. \A b \in Approvals : api'[b] \in {"idle", "flushed"} => api[b] \in {"idle", "flushed"}
      BY <1>4, <1>t DEF Flush, PutFails, ApiDies, Commit, Reply, TypeOK
    <2>. QED
      BY <2>1, <2>2, NoCopyMade
  <1>5. ASSUME NEW a \in Approvals, SendPut(a)
        PROVE  CodeInOnePlace'
    <2>1. /\ UNCHANGED <<held, used>>
          /\ api' = [api EXCEPT ![a] = "sending"]
          /\ wire' = [wire EXCEPT ![a] = path]
          /\ api[a] = "flushed"
      BY <1>5 DEF SendPut, Reply
    <2>. QED
      BY <2>1, <1>t DEF CodeInOnePlace, Kept, TypeOK
  <1>6. ASSUME NEW a \in Approvals, PutArrives(a)
        PROVE  CodeInOnePlace'
    <2>. DEFINE p == wire[a]
    <2>1. p \in Hosts /\ used[a] = 0 /\ Kept(a) = {} /\ api[a] \notin {"idle", "flushed"}
      BY <1>6, <1>t DEF PutArrives, TypeOK, CodeInOnePlace
    <2>2. \A q \in Hosts, b \in Approvals :
             /\ b # a => (held'[q][b] # "none" => held[q][b] # "none")
             /\ q # p => held'[q][a] = held[q][a]
      BY <2>1, <1>6, <1>h, <1>t, PrunedTyped DEF PutArrives, Held
    <2>3. \A b \in Approvals : wire'[b] = IF b = a THEN None ELSE wire[b]
      BY <1>6, <1>t DEF PutArrives, TypeOK
    <2>4. \A b \in Approvals : api'[b] \in {"idle", "flushed"} => api[b] \in {"idle", "flushed"}
      BY <1>6, <1>t DEF PutArrives, Reply, TypeOK
    <2>5. UNCHANGED used /\ api'[a] \notin {"idle", "flushed"}
      BY <2>1, <1>6, <1>t DEF PutArrives, Reply, TypeOK
    <2>6. Kept(a)' \subseteq {p}
      BY <2>1, <2>2 DEF Kept
    <2>7. \A b \in Approvals \ {a} : Kept(b)' \subseteq Kept(b)
      BY <2>2 DEF Kept
    <2>. QED
      BY <2>1, <2>3, <2>4, <2>5, <2>6, <2>7, <1>t DEF CodeInOnePlace
  <1>7. ASSUME NEW a \in Approvals, Discard(a)
        PROVE  CodeInOnePlace'
    <2>1. \A q \in Hosts, b \in Approvals : held'[q][b] # "none" => held[q][b] # "none"
      <3>1. CASE path # None /\ held' = [held EXCEPT ![path][a] = "none"]
        <4>1. path \in Hosts
          BY <3>1, <1>t DEF TypeOK
        <4>. QED
          BY <3>1, <4>1, <1>h DEF Held
      <3>. QED
        BY <3>1, <1>7 DEF Discard
    <2>2. \A b \in Approvals : api'[b] \in {"idle", "flushed"} => api[b] \in {"idle", "flushed"}
      BY <1>7, <1>t DEF Discard, Reply, TypeOK
    <2>. QED
      BY <2>1, <2>2, <1>7, NoCopyMade DEF Discard
  <1>8. ASSUME NEW p \in Hosts, CodeUnavailable(p)
        PROVE  CodeInOnePlace'
    <2>1. \A q \in Hosts, b \in Approvals : held'[q][b] # "none" => held[q][b] # "none"
      BY <1>8, <1>h, <1>t, PrunedTyped DEF CodeUnavailable
    <2>. QED
      BY <2>1, <1>8, NoCopyMade DEF CodeUnavailable
  <1>9. ASSUME NEW p \in Hosts, TakeCode(p)
        PROVE  CodeInOnePlace'
    <2>. PICK a \in Approvals : a = job[p]
      BY <1>9, <1>t DEF TakeCode, RowsFollow
    <2>1. p \in Kept(a)
      BY <1>9 DEF TakeCode, Kept
    <2>2. wire[a] = None /\ used[a] = 0 /\ Kept(a) = {p} /\ api[a] \notin {"idle", "flushed"}
      BY <2>1, <1>t DEF CodeInOnePlace
    <2>3. /\ UNCHANGED <<wire, api>>
          /\ used' = [used EXCEPT ![a] = @ + 1]
      BY <1>9 DEF TakeCode
    <2>4. \A q \in Hosts, b \in Approvals : held'[q][b] # "none" => held[q][b] # "none"
      BY <2>1, <1>9, <1>h, <1>t, PrunedTyped DEF TakeCode, Held
    <2>5. held'[p][a] = "none"
      BY <2>1, <1>9, <1>h, <1>t, PrunedTyped DEF TakeCode, Held
    <2>6. \A b \in Approvals : Kept(b)' \subseteq Kept(b)
      BY <2>4 DEF Kept
    <2>7. Kept(a)' = {}
      BY <2>2, <2>5, <2>6 DEF Kept
    <2>8. \A b \in Approvals : used'[b] = IF b = a THEN 1 ELSE used[b]
      BY <2>1, <2>2, <2>3, <1>t DEF TypeOK
    <2>. QED
      BY <2>2, <2>3, <2>6, <2>7, <2>8, <1>t DEF CodeInOnePlace
  <1>. QED
    BY <1>1, <1>2, <1>3, <1>4, <1>5, <1>6, <1>7, <1>8, <1>9
       DEF Next, WorkerStep, ApiStep, StartCheck, StartListen, Claim, FailBeforeLoad,
           FailLoaded, Submit, Settle

LEMMA AfterRows ==
    ASSUME TypeOK, NEW a \in Approvals, NEW phase \in Phase, After(a, phase)
    PROVE  /\ \A b \in Approvals \ {a} : row'[b] = row[b]
           /\ row'[a] \in Ended \cup {phase}
           /\ row[a] \in Ended => row'[a] = row[a]
  BY DEF After, TypeOK, Phase, Ended

\* A step that inserts no row and removes none, and starts nothing.
LEMMA RowsQuiet ==
    ASSUME IInv, UNCHANGED used,
           \A a \in Approvals :
              /\ (row'[a] = "absent") <=> (row[a] = "absent")
              /\ row'[a] = "paying" => row[a] = "paying"
              /\ api'[a] \in {"idle", "flushed", "sending", "staged"} =>
                    api[a] \in {"idle", "flushed", "sending", "staged"},
           \A p \in Hosts : \/ job'[p] = job[p] /\ stage'[p] = stage[p]
                            \/ stage'[p] = "idle"
    PROVE  RowsFollow'
  BY DEF IInv, RowsFollow

LEMMA RowsStep ==
    ASSUME IInv, Next
    PROVE  RowsFollow'
  <1>. USE DEF relayVars, apiVars, rowVars, workVars, ghostVars
  <1>t. TypeOK /\ CodeInOnePlace /\ RowsFollow
    BY DEF IInv
  <1>1. ASSUME UNCHANGED <<row, job, stage, used, api>>
        PROVE  RowsFollow'
    BY <1>1, <1>t DEF RowsFollow
  <1>2. ASSUME NEW p \in Hosts, Die(p)
        PROVE  RowsFollow'
    BY <1>2, <1>t, RowsQuiet DEF Die, TypeOK
  <1>3. ASSUME NEW a \in Approvals,
               Flush(a) \/ SendPut(a) \/ PutArrives(a) \/ PutFails(a) \/ ApiDies(a) \/ Discard(a)
        PROVE  RowsFollow'
    <2>1. UNCHANGED <<row, job, stage, used>>
      BY <1>3 DEF Flush, SendPut, PutArrives, PutFails, ApiDies, Discard
    <2>2. \A b \in Approvals : api'[b] \in {"idle", "flushed", "sending", "staged"} =>
                                  api[b] \in {"idle", "flushed", "sending", "staged"}
      BY <1>3, <1>t DEF Flush, SendPut, PutArrives, PutFails, ApiDies, Discard, Reply, TypeOK
    <2>. QED
      BY <2>1, <2>2, RowsQuiet
  <1>4. ASSUME NEW a \in Approvals, Commit(a)
        PROVE  RowsFollow'
    <2>1. row[a] = "absent" /\ used[a] = 0
      BY <1>4, <1>t DEF Commit, RowsFollow
    <2>2. /\ UNCHANGED <<job, stage, used>>
          /\ api'[a] \notin {"idle", "flushed", "sending", "staged"}
          /\ row'[a] \in {"absent", "queued"}
          /\ \A b \in Approvals \ {a} : row'[b] = row[b] /\ api'[b] = api[b]
      BY <2>1, <1>4, <1>t DEF Commit, Reply, TypeOK
    <2>. QED
      BY <2>1, <2>2, <1>t DEF RowsFollow
  <1>5. ASSUME NEW p \in Hosts, Claim(p)
        PROVE  RowsFollow'
    <2>. PICK a \in Approvals :
            /\ Claimable(a)
            /\ IF row[a] # "paying" /\ attempts[a] < MaxAttempts
               THEN /\ row' = [row EXCEPT ![a] = "running"]
                    /\ attempts' = [attempts EXCEPT ![a] = @ + 1]
                    /\ job' = [job EXCEPT ![p] = a]
                    /\ stage' = [stage EXCEPT ![p] = "browse"]
               ELSE After(a, "failed") /\ UNCHANGED <<attempts, workVars>>
      BY <1>5 DEF Claim
    <2>0. UNCHANGED <<used, api>> /\ row[a] # "absent"
      BY <1>5 DEF Claim, Claimable
    <2>1. CASE row[a] # "paying" /\ attempts[a] < MaxAttempts
      <3>1. /\ row'[a] = "running"
            /\ \A b \in Approvals \ {a} : row'[b] = row[b]
            /\ job'[p] = a /\ stage'[p] = "browse"
            /\ \A q \in Hosts \ {p} : job'[q] = job[q] /\ stage'[q] = stage[q]
        BY <2>1, <1>t DEF TypeOK
      <3>. QED
        BY <3>1, <2>0, <1>t DEF RowsFollow
    <2>2. CASE ~(row[a] # "paying" /\ attempts[a] < MaxAttempts)
      BY <2>0, <2>2, <1>t, AfterRows, RowsQuiet DEF Phase, Ended
    <2>. QED
      BY <2>1, <2>2
  <1>6. ASSUME NEW p \in Hosts,
               FailBeforeLoad(p) \/ FailLoaded(p) \/ Settle(p) \/ CodeUnavailable(p)
        PROVE  RowsFollow'
    <2>. PICK a \in Approvals : a = job[p] /\ row[a] # "absent"
      BY <1>6, <1>t DEF FailBeforeLoad, FailLoaded, Settle, CodeUnavailable, RowsFollow
    <2>1. \E phase \in {"queued"} \cup Ended : After(a, phase)
      BY <1>6 DEF FailBeforeLoad, FailLoaded, Settle, CodeUnavailable, Ended
    <2>2. /\ row'[a] \in {"queued"} \cup Ended
          /\ \A b \in Approvals \ {a} : row'[b] = row[b]
      BY <2>1, <1>t, AfterRows DEF Phase
    <2>3. UNCHANGED <<used, api>> /\ Leave(p)
      BY <1>6 DEF FailBeforeLoad, FailLoaded, Settle, CodeUnavailable
    <2>. QED
      BY <2>2, <2>3, <1>t, RowsQuiet DEF Leave, TypeOK, Ended
  <1>7. ASSUME NEW p \in Hosts, TakeCode(p)
        PROVE  RowsFollow'
    <2>. PICK a \in Approvals : a = job[p] /\ row[a] # "absent"
      BY <1>7, <1>t DEF TakeCode, RowsFollow
    <2>1. used[a] = 0
      BY <1>7, <1>t DEF TakeCode, CodeInOnePlace, Kept
    <2>2. \A b \in Approvals : used'[b] = IF b = a THEN 1 ELSE used[b]
      BY <2>1, <1>7, <1>t DEF TakeCode, TypeOK
    <2>3. /\ UNCHANGED <<row, api, job>>
          /\ stage'[p] = "loaded"
          /\ \A q \in Hosts \ {p} : stage'[q] = stage[q]
      BY <1>7, <1>t DEF TakeCode, TypeOK
    <2>4. stage[p] = "browse"
      BY <1>7 DEF TakeCode
    <2>. QED
      BY <2>2, <2>3, <2>4, <1>t DEF RowsFollow
  <1>8. ASSUME NEW p \in Hosts, Submit(p)
        PROVE  RowsFollow'
    <2>. PICK a \in Approvals : a = job[p] /\ used[a] = 1
      BY <1>8, <1>t DEF Submit, RowsFollow
    <2>1. /\ UNCHANGED <<used, api, job>>
          /\ \A b \in Approvals : row'[b] = IF b = a THEN "paying" ELSE row[b]
          /\ row[a] = "running"
      BY <1>8, <1>t DEF Submit, TypeOK
    <2>2. /\ stage[p] = "loaded" /\ stage'[p] = "sent"
          /\ \A q \in Hosts \ {p} : stage'[q] = stage[q]
      BY <1>8, <1>t DEF Submit, TypeOK
    <2>. QED
      BY <2>1, <2>2, <1>t DEF RowsFollow
  <1>. QED
    BY <1>1, <1>2, <1>3, <1>4, <1>5, <1>6, <1>7, <1>8
       DEF Next, WorkerStep, ApiStep, StartCheck, StartListen, Close, Expire

LEMMA StepGood == IInv /\ [Next]_vars => IInv'
  <1>1. IInv /\ Next => IInv'
    BY TypeStep, PlacesStep, RowsStep DEF IInv
  <1>2. IInv /\ UNCHANGED vars => IInv'
    BY DEF vars, relayVars, apiVars, rowVars, workVars, ghostVars, IInv, TypeOK,
           CodeInOnePlace, Kept, RowsFollow
  <1>. QED
    BY <1>1, <1>2

\* The inductive invariant holds however many processes listen, stop and start.
THEOREM RelayInductive == Spec => []IInv
  BY InitGood, StepGood, PTL DEF Spec

\* Every security code is used at most once, for a committed approval, and a
\* submission always had one: take, put before commit, load before submit.
THEOREM CodeIsSpentOnce == Spec => []CodeSpentOnce
  <1>1. IInv => CodeSpentOnce
    BY DEF IInv, CodeInOnePlace, RowsFollow, CodeSpentOnce
  <1>. QED
    BY <1>1, RelayInductive, PTL

-----------------------------------------------------------------------------
(* A confirmed approval's code is somewhere. *)

LEMMA ServedStep ==
    ASSUME IInv, ConfirmedIsServed, Next
    PROVE  ConfirmedIsServed'
  <1>. USE DEF relayVars, apiVars, rowVars, workVars, ghostVars
  <1>t. TypeOK /\ CodeInOnePlace /\ RowsFollow
    BY DEF IInv
  <1>h. held \in [Hosts -> Held]
    BY <1>t DEF TypeOK, Held
  <1>1. ASSUME UNCHANGED <<held, used, spoiled>>,
               \A a \in Approvals :
                  api'[a] \in {"staged", "confirmed"} => api[a] \in {"staged", "confirmed"}
        PROVE  ConfirmedIsServed'
    BY <1>1 DEF ConfirmedIsServed, Fresh
  <1>2. ASSUME NEW p \in Hosts, Close(p) \/ Die(p)
        PROVE  ConfirmedIsServed'
    <2>1. /\ UNCHANGED <<api, used>>
          /\ \A a \in Approvals : spoiled'[a] = (spoiled[a] \/ held[p][a] # "none")
          /\ held' = [held EXCEPT ![p] = Empty]
      BY <1>2 DEF Close, Die, Forget
    <2>2. \A a \in Approvals : spoiled'[a] \/ Fresh(a)' = Fresh(a)
      <3>1. ASSUME NEW a \in Approvals, held[p][a] = "none"
            PROVE  \A q \in Hosts : held'[q][a] = held[q][a]
        BY <3>1, <2>1, <1>h DEF Empty, Held
      <3>. QED
        BY <3>1, <2>1 DEF Fresh
    <2>3. \A a \in Approvals : spoiled[a] => spoiled'[a]
      BY <2>1
    <2>. QED
      BY <2>1, <2>2, <2>3 DEF ConfirmedIsServed
  <1>3. ASSUME NEW p \in Hosts, NEW a \in Approvals, Expire(p, a)
        PROVE  ConfirmedIsServed'
    <2>1. /\ UNCHANGED <<api, used>>
          /\ spoiled'[a] /\ \A b \in Approvals \ {a} : spoiled'[b] = spoiled[b]
      BY <1>3, <1>t DEF Expire, TypeOK
    <2>2. \A b \in Approvals \ {a} : Fresh(b)' = Fresh(b)
      BY <1>3, <1>h DEF Expire, Fresh, Held
    <2>. QED
      BY <2>1, <2>2 DEF ConfirmedIsServed
  <1>4. ASSUME NEW a \in Approvals, PutArrives(a)
        PROVE  ConfirmedIsServed'
    <2>1. wire[a] # None /\ wire[a] \in Hosts
      BY <1>4, <1>t DEF PutArrives, TypeOK
    <2>2. UNCHANGED <<used, spoiled>>
      BY <1>4 DEF PutArrives
    <2>3. \A b \in Approvals \ {a} : Fresh(b)' = Fresh(b) /\ api'[b] = api[b]
      BY <2>1, <1>4, <1>h, <1>t, PrunedTyped DEF PutArrives, Fresh, Held, Reply, TypeOK
    <2>4. wire[a] \in Fresh(a)'
      BY <2>1, <1>4, <1>h, <1>t, PrunedTyped DEF PutArrives, Fresh, Held
    <2>. QED
      BY <2>2, <2>3, <2>4 DEF ConfirmedIsServed
  <1>5. ASSUME NEW a \in Approvals, Discard(a)
        PROVE  ConfirmedIsServed'
    <2>0. held' = held \/ (path \in Hosts /\ held' = [held EXCEPT ![path][a] = "none"])
      BY <1>5, <1>t DEF Discard, TypeOK
    <2>a. api' = [api EXCEPT ![a] = "refused"]
      BY <1>5 DEF Discard, Reply
    <2>h. \A b \in Approvals \ {a}, p \in Hosts : held'[p][b] = held[p][b]
      BY <2>0, <1>h DEF Held
    <2>1. \A b \in Approvals \ {a} : Fresh(b)' = Fresh(b) /\ api'[b] = api[b]
      BY <2>a, <2>h, <1>t DEF Fresh, TypeOK
    <2>2. api'[a] = "refused" /\ UNCHANGED <<used, spoiled>>
      BY <2>a, <1>5, <1>t DEF Discard, TypeOK
    <2>. QED
      BY <2>1, <2>2 DEF ConfirmedIsServed
  <1>6. ASSUME NEW p \in Hosts, CodeUnavailable(p)
        PROVE  ConfirmedIsServed'
    <2>1. \A a \in Approvals : Fresh(a)' = Fresh(a)
      BY <1>6, <1>h, <1>t, PrunedTyped DEF CodeUnavailable, Fresh, Held
    <2>. QED
      BY <2>1, <1>6 DEF CodeUnavailable, ConfirmedIsServed
  <1>7. ASSUME NEW p \in Hosts, TakeCode(p)
        PROVE  ConfirmedIsServed'
    <2>. PICK a \in Approvals : a = job[p]
      BY <1>7, <1>t DEF TakeCode, RowsFollow
    <2>1. used[a] = 0
      BY <1>7, <1>t DEF TakeCode, CodeInOnePlace, Kept
    <2>2. used'[a] = 1 /\ \A b \in Approvals \ {a} : used'[b] = used[b]
      BY <2>1, <1>7, <1>t DEF TakeCode, TypeOK
    <2>3. \A b \in Approvals \ {a} : Fresh(b)' = Fresh(b)
      BY <1>7, <1>h, <1>t, PrunedTyped DEF TakeCode, Fresh, Held
    <2>. QED
      BY <2>2, <2>3, <1>7 DEF TakeCode, ConfirmedIsServed
  <1>8. ASSUME NEW a \in Approvals,
               Flush(a) \/ SendPut(a) \/ PutFails(a) \/ ApiDies(a) \/ Commit(a)
        PROVE  ConfirmedIsServed'
    <2>1. UNCHANGED <<held, used, spoiled>>
      BY <1>8 DEF Flush, SendPut, PutFails, ApiDies, Commit
    <2>2. \A b \in Approvals :
             api'[b] \in {"staged", "confirmed"} => api[b] \in {"staged", "confirmed"}
      BY <1>8, <1>t DEF Flush, SendPut, PutFails, ApiDies, Commit, Reply, TypeOK
    <2>. QED
      BY <1>1, <2>1, <2>2
  <1>9. ASSUME NEW p \in Hosts,
               \/ Claim(p) \/ FailBeforeLoad(p) \/ FailLoaded(p) \/ Settle(p) \/ Submit(p)
               \/ StartCheck(p) \/ StartListen(p)
        PROVE  ConfirmedIsServed'
    BY <1>1, <1>9 DEF Claim, FailBeforeLoad, FailLoaded, Settle, Submit, StartCheck, StartListen
  <1>. QED
    BY <1>2, <1>3, <1>4, <1>5, <1>6, <1>7, <1>8, <1>9 DEF Next, WorkerStep, ApiStep

\* A code that was put and answered for stays in a memory until it is used, expires
\* or goes down with its process, whatever the other processes and requests do.
THEOREM CodeIsServed == Spec => []ConfirmedIsServed
  <1>1. Init => ConfirmedIsServed
    BY DEF Init, ConfirmedIsServed
  <1>2. IInv /\ ConfirmedIsServed /\ [Next]_vars => ConfirmedIsServed'
    <2>1. ConfirmedIsServed /\ UNCHANGED vars => ConfirmedIsServed'
      BY DEF vars, relayVars, apiVars, rowVars, workVars, ghostVars, ConfirmedIsServed, Fresh
    <2>. QED
      BY <2>1, ServedStep
  <1>. QED
    BY <1>1, <1>2, RelayInductive, PTL DEF Spec

-----------------------------------------------------------------------------
(* The relay implements OneTimeCode. *)

Where    == [a \in Approvals |-> WhereOf(a)]
Approved == [a \in Approvals |-> row[a] # "absent"]

\* A step of the abstract specification, or one it does not see.
Kind == OneTime!Next \/ UNCHANGED <<Where, Approved>>

\* Where a code is, by the invariant: one of four places each.
PlacesAgree ==
    \A a \in Approvals :
        /\ WhereOf(a) = "spent" <=> used[a] = 1
        /\ WhereOf(a) = "owner" <=> api[a] \in {"idle", "flushed"}
        /\ WhereOf(a) = "relay" <=> wire[a] # None \/ Fresh(a) # {}
        /\ WhereOf(a) \in {"spent", "owner", "relay", "gone"}

LEMMA Places == IInv => PlacesAgree
  <1>1. \A a \in Approvals : Fresh(a) \subseteq Kept(a)
    BY DEF Fresh, Kept
  <1>. QED
    BY <1>1 DEF IInv, TypeOK, CodeInOnePlace, WhereOf, PlacesAgree

\* Codes that get lost, any number of them at once.
LEMMA Losing ==
    ASSUME UNCHANGED Approved,
           \A a \in Approvals :
              \/ WhereOf(a)' = WhereOf(a)
              \/ WhereOf(a) \in {"owner", "relay"} /\ WhereOf(a)' = "gone"
    PROVE  Kind
  <1>. DEFINE S == {a \in Approvals : WhereOf(a)' # WhereOf(a)}
  <1>1. Where' = [a \in Approvals |-> IF a \in S THEN "gone" ELSE Where[a]]
    BY DEF Where
  <1>2. \A a \in S : Where[a] \in {"owner", "relay"}
    BY DEF Where
  <1>3. S \in SUBSET Approvals
    OBVIOUS
  <1>. HIDE DEF S
  <1>4. OneTime!Lose(S)
    BY <1>1, <1>2, <1>3 DEF OneTime!Lose, Where, Approved
  <1>. QED
    BY <1>3, <1>4 DEF Kind, OneTime!Next

\* A step that takes no code anywhere but out of a memory or off the wire.
LEMMA LosingStep ==
    ASSUME IInv, IInv', UNCHANGED used,
           \A a \in Approvals :
              /\ (row'[a] = "absent") <=> (row[a] = "absent")
              /\ wire'[a] # None \/ Fresh(a)' # {} => wire[a] # None \/ Fresh(a) # {}
              /\ api'[a] \in {"idle", "flushed"} => api[a] \in {"idle", "flushed"}
    PROVE  Kind
  <1>0. PlacesAgree /\ PlacesAgree'
    BY Places, PTL
  <1>1. ASSUME NEW a \in Approvals
        PROVE  \/ WhereOf(a)' = WhereOf(a)
               \/ WhereOf(a) \in {"owner", "relay"} /\ WhereOf(a)' = "gone"
    BY <1>0 DEF PlacesAgree
  <1>2. UNCHANGED Approved
    BY DEF Approved
  <1>. QED
    BY <1>1, <1>2, Losing

LEMMA KindStep ==
    ASSUME IInv, IInv', Next
    PROVE  Kind
  <1>. USE DEF relayVars, apiVars, rowVars, workVars, ghostVars
  <1>t. TypeOK /\ CodeInOnePlace /\ RowsFollow
    BY DEF IInv
  <1>p. PlacesAgree /\ PlacesAgree'
    BY Places, PTL
  <1>h. held \in [Hosts -> Held]
    BY <1>t DEF TypeOK, Held
  <1>1. ASSUME UNCHANGED <<held, wire, api, used>>,
               \A a \in Approvals : (row'[a] = "absent") <=> (row[a] = "absent")
        PROVE  Kind
    BY <1>1, LosingStep DEF Fresh
  <1>2. ASSUME NEW p \in Hosts, Close(p) \/ Die(p)
        PROVE  Kind
    <2>1. /\ UNCHANGED <<api, used, row>>
          /\ \A a \in Approvals : wire'[a] \in {wire[a], None}
      BY <1>2 DEF Close, Die
    <2>2. held' = [held EXCEPT ![p] = Empty]
      BY <1>2 DEF Close, Die, Forget
    <2>3. \A a \in Approvals : Fresh(a)' \subseteq Fresh(a)
      BY <2>2, <1>h DEF Empty, Fresh
    <2>. QED
      BY <2>1, <2>3, LosingStep
  <1>3. ASSUME NEW p \in Hosts, NEW a \in Approvals, Expire(p, a)
        PROVE  Kind
    <2>1. \A b \in Approvals : Fresh(b)' \subseteq Fresh(b)
      BY <1>3, <1>h DEF Expire, Fresh, Held
    <2>. QED
      BY <2>1, <1>3, LosingStep DEF Expire
  <1>4. ASSUME NEW a \in Approvals, Flush(a) \/ PutFails(a) \/ ApiDies(a)
        PROVE  Kind
    <2>1. UNCHANGED <<held, wire, used, row>>
      BY <1>4 DEF Flush, PutFails, ApiDies
    <2>2. \A b \in Approvals : api'[b] \in {"idle", "flushed"} => api[b] \in {"idle", "flushed"}
      BY <1>4, <1>t DEF Flush, PutFails, ApiDies, Reply, TypeOK
    <2>. QED
      BY <2>1, <2>2, LosingStep DEF Fresh
  <1>5. ASSUME NEW a \in Approvals, PutArrives(a)
        PROVE  Kind
    <2>1. UNCHANGED <<used, row>>
      BY <1>5 DEF PutArrives
    <2>2. wire[a] # None /\ wire[a] \in Hosts
      BY <1>5, <1>t DEF PutArrives, TypeOK
    <2>3. \A b \in Approvals : api'[b] \in {"idle", "flushed"} => api[b] \in {"idle", "flushed"}
      BY <1>5, <1>t DEF PutArrives, Reply, TypeOK
    <2>4. \A b \in Approvals \ {a} : Fresh(b)' \subseteq Fresh(b) /\ wire'[b] = wire[b]
      BY <2>2, <1>5, <1>h, <1>t, PrunedTyped DEF PutArrives, Fresh, Held, TypeOK
    <2>. QED
      BY <2>1, <2>2, <2>3, <2>4, LosingStep
  <1>6. ASSUME NEW a \in Approvals, Discard(a)
        PROVE  Kind
    <2>1. \A b \in Approvals : Fresh(b)' \subseteq Fresh(b)
      BY <1>6, <1>h, <1>t, SMTT(30) DEF Discard, Fresh, Held, TypeOK
    <2>2. \A b \in Approvals : api'[b] \in {"idle", "flushed"} => api[b] \in {"idle", "flushed"}
      BY <1>6, <1>t DEF Discard, Reply, TypeOK
    <2>. QED
      BY <2>1, <2>2, <1>6, LosingStep DEF Discard
  <1>7. ASSUME NEW p \in Hosts, CodeUnavailable(p)
        PROVE  Kind
    <2>. PICK a \in Approvals : a = job[p] /\ row[a] # "absent"
      BY <1>7, <1>t DEF CodeUnavailable, RowsFollow
    <2>1. \A b \in Approvals : (row'[b] = "absent") <=> (row[b] = "absent")
      BY <1>7, <1>t, AfterRows DEF CodeUnavailable, Phase, Ended
    <2>2. \A b \in Approvals : Fresh(b)' \subseteq Fresh(b)
      BY <1>7, <1>h, <1>t, PrunedTyped DEF CodeUnavailable, Fresh
    <2>. QED
      BY <2>1, <2>2, <1>7, LosingStep DEF CodeUnavailable
  <1>8. ASSUME NEW a \in Approvals, SendPut(a)
        PROVE  Kind
    <2>1. WhereOf(a) = "owner" /\ WhereOf(a)' = "relay"
      BY <1>8, <1>t, <1>p DEF SendPut, PlacesAgree, TypeOK
    <2>2. \A b \in Approvals \ {a} : WhereOf(b)' = WhereOf(b)
      BY <1>8, <1>t DEF SendPut, Reply, WhereOf, Kept, Fresh, TypeOK
    <2>3. Where' = [Where EXCEPT ![a] = "relay"] /\ Where[a] = "owner"
      BY <2>1, <2>2 DEF Where
    <2>4. UNCHANGED Approved
      BY <1>8 DEF SendPut, Approved
    <2>. QED
      BY <2>3, <2>4 DEF Kind, OneTime!Next, OneTime!HandOver, OneTime!Move, Where, Approved
  <1>9. ASSUME NEW p \in Hosts, TakeCode(p)
        PROVE  Kind
    <2>. PICK a \in Approvals : a = job[p] /\ row[a] # "absent"
      BY <1>9, <1>t DEF TakeCode, RowsFollow
    <2>0. p \in Fresh(a)
      BY <1>9 DEF TakeCode, Fresh
    <2>1. WhereOf(a) = "relay"
      BY <2>0, <1>p DEF PlacesAgree
    <2>2. used[a] = 0
      BY <2>0, <1>t DEF CodeInOnePlace, Kept, Fresh
    <2>3. used'[a] = 1 /\ \A b \in Approvals \ {a} : used'[b] = used[b]
      BY <2>2, <1>9, <1>t DEF TakeCode, TypeOK
    <2>4. WhereOf(a)' = "spent"
      BY <2>3, <1>p DEF PlacesAgree
    <2>5. \A b \in Approvals \ {a} : Fresh(b)' = Fresh(b)
      BY <1>9, <1>h, <1>t, PrunedTyped DEF TakeCode, Fresh, Held
    <2>6. UNCHANGED <<wire, api>>
      BY <1>9 DEF TakeCode
    <2>7. \A b \in Approvals \ {a} : WhereOf(b)' = WhereOf(b)
      BY <2>3, <2>5, <2>6, <1>p DEF PlacesAgree
    <2>8. Where' = [Where EXCEPT ![a] = "spent"] /\ Where[a] = "relay"
      BY <2>1, <2>4, <2>7 DEF Where
    <2>9. UNCHANGED Approved /\ Approved[a]
      BY <1>9 DEF TakeCode, Approved
    <2>. QED
      BY <2>8, <2>9 DEF Kind, OneTime!Next, OneTime!Spend, OneTime!Move, Where, Approved
  <1>10. ASSUME NEW a \in Approvals, Commit(a)
         PROVE  Kind
    <2>1. UNCHANGED <<wire, held, used>>
      BY <1>10 DEF Commit
    <2>2. \A b \in Approvals : api'[b] \in {"idle", "flushed"} <=> api[b] \in {"idle", "flushed"}
      BY <1>10, <1>t DEF Commit, Reply, TypeOK
    <2>3. UNCHANGED Where
      BY <2>1, <2>2 DEF Where, WhereOf, Kept, Fresh
    <2>4. row[a] = "absent" /\ used[a] = 0 /\ api[a] = "staged"
      BY <1>10, <1>t DEF Commit, RowsFollow
    <2>5. Where[a] \in {"relay", "gone"}
      BY <2>4, <1>p DEF PlacesAgree, Where
    <2>6. CASE UNCHANGED row
      BY <2>3, <2>6 DEF Kind, Approved
    <2>7. CASE row' = [row EXCEPT ![a] = "queued"]
      <3>1. Approved' = [Approved EXCEPT ![a] = TRUE] /\ ~Approved[a]
        BY <2>4, <2>7, <1>t DEF Approved, TypeOK
      <3>. QED
        BY <2>3, <2>5, <3>1 DEF Kind, OneTime!Next, OneTime!Approve, Where, Approved
    <2>. QED
      BY <2>6, <2>7, <1>10 DEF Commit
  <1>11. ASSUME NEW p \in Hosts,
                Claim(p) \/ FailBeforeLoad(p) \/ FailLoaded(p) \/ Settle(p) \/ Submit(p)
         PROVE  Kind
    <2>1. UNCHANGED <<held, wire, api, used>>
      BY <1>11 DEF Claim, FailBeforeLoad, FailLoaded, Settle, Submit
    <2>2. \A a \in Approvals : (row'[a] = "absent") <=> (row[a] = "absent")
      <3>1. CASE Claim(p)
        <4>. PICK a \in Approvals :
                /\ row[a] # "absent"
                /\ row' = [row EXCEPT ![a] = "running"] \/ After(a, "failed")
          BY <3>1 DEF Claim, Claimable
        <4>. QED
          BY <1>t, AfterRows DEF TypeOK, Phase, Ended
      <3>2. CASE Submit(p)
        BY <3>2, <1>t DEF Submit, TypeOK
      <3>3. CASE FailBeforeLoad(p) \/ FailLoaded(p) \/ Settle(p)
        <4>. PICK a \in Approvals : a = job[p] /\ row[a] # "absent"
          BY <3>3, <1>t DEF FailBeforeLoad, FailLoaded, Settle, RowsFollow
        <4>1. \E phase \in {"queued"} \cup Ended : After(a, phase)
          BY <3>3 DEF FailBeforeLoad, FailLoaded, Settle, Ended
        <4>. QED
          BY <4>1, <1>t, AfterRows DEF Phase, Ended
      <3>. QED
        BY <1>11, <3>1, <3>2, <3>3
    <2>. QED
      BY <1>1, <2>1, <2>2
  <1>12. ASSUME NEW p \in Hosts, StartCheck(p) \/ StartListen(p)
         PROVE  Kind
    BY <1>1, <1>12 DEF StartCheck, StartListen
  <1>. QED
    BY <1>2, <1>3, <1>4, <1>5, <1>6, <1>7, <1>8, <1>9, <1>10, <1>11, <1>12
       DEF Next, WorkerStep, ApiStep

\* A code leaves its owner before the approval takes effect, is used once at most,
\* and only for that approval: the relay implements OneTimeCode.
THEOREM RelayIsOneTime == Spec => KeepsOneTime
  <1>1. Init => OneTime!Init
    <2>. SUFFICES ASSUME Init PROVE OneTime!Init
      OBVIOUS
    <2>1. \A a \in Approvals : WhereOf(a) = "owner"
      BY InitGood, Places DEF Init, PlacesAgree
    <2>2. \A a \in Approvals : (row[a] # "absent") = FALSE
      BY DEF Init
    <2>. QED
      BY <2>1, <2>2 DEF OneTime!Init
  <1>2. IInv /\ IInv' /\ [Next]_vars => [OneTime!Next]_(OneTime!vars)
    <2>1. IInv /\ IInv' /\ Next => [OneTime!Next]_(OneTime!vars)
      BY KindStep DEF Kind, OneTime!vars, Where, Approved
    <2>2. UNCHANGED vars => UNCHANGED OneTime!vars
      BY DEF OneTime!vars, vars, relayVars, apiVars, rowVars, workVars, ghostVars, Where, Approved,
             WhereOf, Kept, Fresh
    <2>. QED
      BY <2>1, <2>2
  <1>. QED
    BY <1>1, <1>2, RelayInductive, PTL DEF Spec, KeepsOneTime, OneTime!Spec

-----------------------------------------------------------------------------
(* A row that has ended.                                                    *)

\* A row that has ended stays as it is: its approval is not committed again, no
\* worker claims it, and those that still work on it look before they write.
THEOREM EndingsLast == Spec => EndedStaysEnded
  <1>1. IInv /\ [Next]_vars =>
           [\A a \in Approvals : row[a] \in Ended => row'[a] = row[a]]_vars
    <2>. USE DEF relayVars, apiVars, rowVars, workVars, ghostVars
    <2>. SUFFICES ASSUME IInv, [Next]_vars, NEW a \in Approvals, row[a] \in Ended
                  PROVE  row'[a] = row[a]
      OBVIOUS
    <2>0. TypeOK /\ RowsFollow
      BY DEF IInv
    <2>1. ASSUME NEW b \in Approvals, Commit(b) PROVE row'[a] = row[a]
      <3>1. row[b] = "absent"
        BY <2>0, <2>1 DEF Commit, RowsFollow
      <3>2. b # a
        BY <3>1 DEF Ended
      <3>. QED
        BY <2>0, <2>1, <3>2 DEF Commit, TypeOK
    <2>2. ASSUME NEW b \in Approvals, NEW phase \in Phase, After(b, phase)
          PROVE  row'[a] = row[a]
      BY <2>0, <2>2, AfterRows
    <2>3. ASSUME NEW p \in Hosts, Claim(p) PROVE row'[a] = row[a]
      <3>. PICK b \in Approvals :
              /\ Claimable(b)
              /\ row' = [row EXCEPT ![b] = "running"] \/ After(b, "failed")
        BY <2>3 DEF Claim
      <3>1. CASE row' = [row EXCEPT ![b] = "running"]
        BY <2>0, <3>1 DEF Claimable, Ended, TypeOK
      <3>. QED
        BY <2>2, <3>1 DEF Phase, Ended
    <2>4. ASSUME NEW p \in Hosts,
                 FailBeforeLoad(p) \/ CodeUnavailable(p) \/ FailLoaded(p) \/ Settle(p)
          PROVE  row'[a] = row[a]
      <3>1. PICK b \in Approvals : b = job[p]
        BY <2>0, <2>4 DEF FailBeforeLoad, CodeUnavailable, FailLoaded, Settle, RowsFollow
      <3>2. \E phase \in Phase : After(b, phase)
        BY <2>4, <3>1 DEF FailBeforeLoad, CodeUnavailable, FailLoaded, Settle, Phase, Ended
      <3>. QED
        BY <2>2, <3>2
    <2>5. ASSUME NEW p \in Hosts, Submit(p) PROVE row'[a] = row[a]
      BY <2>0, <2>5 DEF Submit, Ended, TypeOK
    <2>6. CASE UNCHANGED row
      BY <2>6
    <2>. QED
      BY <2>1, <2>3, <2>4, <2>5, <2>6
      DEF Next, WorkerStep, ApiStep, StartCheck, StartListen, Close, Die, TakeCode, Expire,
          Flush, SendPut, PutArrives, PutFails, Discard, ApiDies, vars
  <1>. QED
    BY <1>1, RelayInductive, PTL DEF Spec, EndedStaysEnded
=============================================================================
