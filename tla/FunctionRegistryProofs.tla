------------------------ MODULE FunctionRegistryProofs ------------------------
(***************************************************************************)
(* FunctionRegistry numbers its versions without gaps, keeps its routing   *)
(* columns consistent and its artifacts in place, for any requests, any    *)
(* limit of versions and any number of faults.                             *)
(***************************************************************************)
EXTENDS FunctionRegistry, FiniteSetTheorems, TLAPS

Consistent(f) ==
  /\ f.canary # NoVersion <=> f.percent > 0
  /\ f.canary # NoVersion => f.canary # f.active

\* The number an upload has chosen, or kept, follows that of a version.
NumberFollows ==
  \A r \in Requests :
    exists /\ pc[r] \in {"numbered", "stored", "uploaded"} =>
      /\ number[r] # 0
      /\ number[r] > 1 => \E w \in Versions : number[w] = number[r] - 1

NumbersDiffer == \A v, w \in Versions : number[v] = number[w] => v = w

\* Whatever points to a version points to one that is there.
PointersFit ==
  /\ {fn.active, fn.canary} \subseteq Versions \cup {NoVersion}
  /\ \A c \in Configuring :
       exists => {want[c].active, want[c].canary} \subseteq Versions \cup {NoVersion}
  /\ \A e \in Requests : exists /\ pc[e] = "triggering" => target[e] \in Versions

\* A change of the pointers that is alone knows the canary, and uploads do not
\* make its canary the active version.
ChangeFits ==
  ~overlapped =>
    /\ \A c, d \in Configuring : c = d
    /\ exists => \A c \in Configuring :
         /\ seen[c].canary = fn.canary
         /\ seen[c].percent = fn.percent
         /\ Consistent(want[c])
         /\ want[c].canary # NoVersion => want[c].canary # fn.active

\* A deletion lists artifacts of versions, an upload has stored its own.
ListsFit ==
  \A r \in Requests :
    /\ \A v \in listed[r] : pc[v] = "uploaded"
    /\ pc[r] = "stored" => r \in stored

\* As long as the execution is active, no deletion gets past the count.
Guarded ==
  \A e \in Requests :
    pc[e] = "active" /\ e \notin exposed =>
      \A d \in Requests : pc[d] \notin {"deleting", "removing"}

Inv ==
  /\ TypeOK
  /\ NumberFollows
  /\ NumbersDiffer
  /\ PointersFit
  /\ ChangeFits
  /\ RoutingConsistent
  /\ ListsFit
  /\ RowHasArtifact
  /\ Guarded
  /\ ArtifactsKept

-----------------------------------------------------------------------------
(* Rows and versions.                                                      *)

\* Sets of requests are finite.
LEMMA FiniteRequests ==
  ASSUME NEW S \in SUBSET Requests
  PROVE  IsFiniteSet(S) /\ Cardinality(S) \in Nat
BY RegistryAssumption, FS_Subset, FS_CardinalityType DEF RegistryAssumption

LEMMA VersionsAre ==
  \A v : v \in Versions <=> exists /\ v \in Requests /\ pc[v] = "uploaded"
BY DEF Versions

LEMMA FlushColumns ==
  ASSUME NEW current \in FunctionRow, NEW old \in FunctionRow, NEW new \in FunctionRow
  PROVE  LET f == Flush(current, old, new) IN
         /\ f \in FunctionRow
         /\ f.active = IF new.active # old.active THEN new.active ELSE current.active
         /\ f.canary = IF new.canary # old.canary THEN new.canary ELSE current.canary
         /\ f.percent = IF new.percent # old.percent THEN new.percent ELSE current.percent
BY DEF Flush, FunctionRow

\* What may be asked for is a row that points to versions, or where the row
\* did, and that is consistent if the row is.
LEMMA AskedRows ==
  ASSUME TypeOK, NEW new \in Configurations
  PROVE  /\ new \in FunctionRow
         /\ {new.active, new.canary} \subseteq Versions \cup {NoVersion, fn.active, fn.canary}
         /\ new.canary # NoVersion => new.canary # fn.active
         /\ Consistent(fn) => Consistent(new)
<1>1. Versions \subseteq Requests /\ NoVersion \notin Requests /\ fn \in FunctionRow
  BY RegistryAssumption DEF Versions, TypeOK
<1>2. CASE \E v \in Versions : new = Activated(fn, v)
  BY <1>1, <1>2 DEF Activated, FunctionRow, Pointer, Percent, Consistent
<1>3. CASE new = WithoutCanary(fn)
  <2>1. /\ new \in FunctionRow
        /\ new.active = fn.active /\ new.canary = NoVersion /\ new.percent = 0
    BY <1>1, <1>3 DEF WithoutCanary, FunctionRow, Pointer, Percent
  <2> QED
    BY <2>1 DEF Consistent
<1>4. CASE \E v \in Versions \ {fn.active} : new = WithCanary(fn, v)
  <2>1. PICK v \in Versions \ {fn.active} : new = WithCanary(fn, v)
    BY <1>4
  <2>2. /\ new \in FunctionRow
        /\ new.active = fn.active /\ new.canary = v /\ new.percent = 50
    BY <1>1, <2>1 DEF WithCanary, FunctionRow, Pointer, Percent
  <2> QED
    BY <1>1, <2>1, <2>2 DEF Consistent
<1> QED
  BY <1>2, <1>3, <1>4 DEF Configurations

\* A function that was deleted stays so, and its versions stay until then.
LEMMA VersionsStay ==
  ASSUME TypeOK, [Next]_vars
  PROVE  /\ exists' => exists /\ Versions \subseteq Versions'
         /\ \A v \in Requests : pc[v] = "uploaded" => pc'[v] = "uploaded"
<1>1. ASSUME NEW r \in Requests, Step(r) \/ Fails(r)
      PROVE  /\ exists' => exists
             /\ \A v \in Requests : pc[v] = "uploaded" => pc'[v] = "uploaded"
  <2> USE DEF TypeOK, Goes
  <2>1. CASE UploadCounts(r) BY <2>1 DEF UploadCounts
  <2>2. CASE UploadNumbers(r) BY <2>2 DEF UploadNumbers
  <2>3. CASE UploadStores(r) BY <2>3 DEF UploadStores
  <2>4. CASE UploadCommits(r) BY <2>4 DEF UploadCommits
  <2>5. CASE ConfigLoads(r) BY <2>5 DEF ConfigLoads
  <2>6. CASE ConfigCommits(r) BY <2>6 DEF ConfigCommits
  <2>7. CASE TriggerLoads(r) BY <2>7 DEF TriggerLoads
  <2>8. CASE TriggerCommits(r) BY <2>8 DEF TriggerCommits
  <2>9. CASE ExecutionEnds(r) BY <2>9 DEF ExecutionEnds
  <2>10. CASE DeleteCounts(r) BY <2>10 DEF DeleteCounts
  <2>11. CASE DeleteRemovesRows(r) BY <2>11 DEF DeleteRemovesRows
  <2>12. CASE DeleteRemovesArtifact(r) BY <2>12 DEF DeleteRemovesArtifact
  <2>13. CASE DeleteCommits(r) BY <2>13 DEF DeleteCommits
  <2>14. CASE Fails(r) BY <2>14 DEF Fails
  <2> QED
    BY <1>1, <2>1, <2>2, <2>3, <2>4, <2>5, <2>6, <2>7, <2>8, <2>9, <2>10, <2>11, <2>12,
       <2>13, <2>14 DEF Step
<1>2. CASE UNCHANGED vars
  BY <1>2 DEF vars, requests, Versions
<1>3. exists' => exists
  BY <1>1, <1>2 DEF Next, Quiet, vars
<1>4. \A v \in Requests : pc[v] = "uploaded" => pc'[v] = "uploaded"
  BY <1>1, <1>2 DEF Next, Quiet, vars, requests
<1> QED
  BY <1>3, <1>4 DEF Versions

-----------------------------------------------------------------------------
(* Every step preserves the type.                                          *)

LEMMA TypePreserved ==
  ASSUME TypeOK, [Next]_vars
  PROVE  TypeOK'
<1>1. ASSUME NEW r \in Requests, Step(r) \/ Fails(r)
      PROVE  TypeOK'
  <2> USE RegistryAssumption DEF TypeOK, Goes, history
  <2>a. Versions \subseteq Requests
    BY DEF Versions
  <2>b. Blank \in FunctionRow
    BY DEF Blank, FunctionRow, Pointer, Percent
  <2>1. CASE UploadCounts(r)
    <3>1. Uploading' \in SUBSET Requests BY DEF Uploading
    <3>2. Cardinality(Uploading') \in Nat BY <3>1, FiniteRequests
    <3> QED
      BY <2>1, <3>2 DEF UploadCounts
  <2>2. CASE UploadNumbers(r) BY <2>2 DEF UploadNumbers, IsNext
  <2>3. CASE UploadStores(r) BY <2>3 DEF UploadStores
  <2>4. CASE UploadCommits(r)
    <3>1. [fn EXCEPT !.active = r] \in FunctionRow
      BY DEF FunctionRow, Pointer
    <3> QED
      BY <2>4, <3>1 DEF UploadCommits
  <2>5. CASE ConfigLoads(r)
    <3>1. Configurations \subseteq FunctionRow
      BY AskedRows
    <3> QED
      BY <2>5, <3>1 DEF ConfigLoads
  <2>6. CASE ConfigCommits(r)
    <3>1. Flush(fn, seen[r], want[r]) \in FunctionRow
      BY FlushColumns
    <3> QED
      BY <2>6, <3>1 DEF ConfigCommits
  <2>7. CASE TriggerLoads(r) BY <2>7, <2>a DEF TriggerLoads, Pointer
  <2>8. CASE TriggerCommits(r) BY <2>8 DEF TriggerCommits
  <2>9. CASE ExecutionEnds(r) BY <2>9 DEF ExecutionEnds
  <2>10. CASE DeleteCounts(r) BY <2>10, <2>a DEF DeleteCounts
  <2>11. CASE DeleteRemovesRows(r) BY <2>11 DEF DeleteRemovesRows
  <2>12. CASE DeleteRemovesArtifact(r) BY <2>12 DEF DeleteRemovesArtifact
  <2>13. CASE DeleteCommits(r) BY <2>13, <2>b DEF DeleteCommits
  <2>14. CASE Fails(r) BY <2>14, <2>a DEF Fails
  <2> QED
    BY <1>1, <2>1, <2>2, <2>3, <2>4, <2>5, <2>6, <2>7, <2>8, <2>9, <2>10, <2>11, <2>12,
       <2>13, <2>14 DEF Step
<1>2. CASE UNCHANGED vars
  BY <1>2 DEF vars, requests, history, TypeOK
<1> QED
  BY <1>1, <1>2 DEF Next, Quiet

LEMMA InitInv == Init => Inv
<1> SUFFICES ASSUME Init PROVE Inv
  OBVIOUS
<1> USE RegistryAssumption DEF Init
<1>1. TypeOK
  BY DEF TypeOK, FunctionRow, Blank, Pointer, Percent
<1>2. Versions = {} /\ Configuring = {}
  BY DEF Versions, Configuring
<1>3. PointersFit
  BY <1>2 DEF PointersFit, Blank
<1>4. RoutingConsistent
  BY DEF RoutingConsistent, Blank
<1> QED
  BY <1>1, <1>2, <1>3, <1>4
  DEF Inv, NumberFollows, NumbersDiffer, ChangeFits, ListsFit, RowHasArtifact, Guarded,
      ArtifactsKept

-----------------------------------------------------------------------------
(* Numbers.                                                                *)

\* Steps other than the choice of a number and the commit of an upload add no
\* version and no number.
LEMMA NumbersUnmoved ==
  ASSUME Inv, [Next]_vars, UNCHANGED number,
         \A q \in Requests :
           pc'[q] \in {"numbered", "stored", "uploaded"} =>
             /\ pc[q] \in {"numbered", "stored", "uploaded"}
             /\ pc'[q] = "uploaded" => pc[q] = "uploaded"
  PROVE  NumberFollows' /\ NumbersDiffer'
<1>1. exists' => exists /\ Versions \subseteq Versions'
  BY VersionsStay DEF Inv
<1>2. Versions' \subseteq Versions
  BY <1>1 DEF Versions
<1>3. NumberFollows'
  BY <1>1 DEF Inv, NumberFollows
<1>4. NumbersDiffer'
  BY <1>2 DEF Inv, NumbersDiffer
<1> QED
  BY <1>3, <1>4

LEMMA NumbersPreserved ==
  ASSUME Inv, [Next]_vars
  PROVE  NumberFollows' /\ NumbersDiffer'
<1>0. TypeOK /\ NumberFollows /\ NumbersDiffer
  BY DEF Inv
<1>1. ASSUME NEW r \in Requests, Step(r) \/ Fails(r)
      PROVE  NumberFollows' /\ NumbersDiffer'
  <2> USE <1>0 DEF TypeOK, Goes
  <2>1. CASE UploadCounts(r) BY <2>1, NumbersUnmoved DEF UploadCounts
  <2>2. CASE UploadNumbers(r)
    <3>1. PICK n \in 1 .. Cardinality(Requests) :
            IsNext(n) /\ number' = [number EXCEPT ![r] = n]
      BY <2>2 DEF UploadNumbers
    <3>2. pc[r] = "counted" /\ pc' = [pc EXCEPT ![r] = "numbered"] /\ UNCHANGED exists
      BY <2>2 DEF UploadNumbers
    <3>3. /\ Versions' = Versions
          /\ r \notin Versions
          /\ \A v \in Versions : v \in Requests
      BY <3>2 DEF Versions
    <3>4. \A v \in Requests : v # r => number'[v] = number[v]
      BY <3>1
    <3>5. n # 0 /\ (n > 1 => \E w \in Versions : number[w] = n - 1)
      BY <3>1 DEF IsNext
    <3>6. NumberFollows'
      BY <3>1, <3>2, <3>3, <3>4, <3>5 DEF NumberFollows
    <3>7. NumbersDiffer'
      BY <3>3, <3>4 DEF NumbersDiffer
    <3> QED
      BY <3>6, <3>7
  <2>3. CASE UploadStores(r) BY <2>3, NumbersUnmoved DEF UploadStores
  <2>4. CASE UploadCommits(r)
    <3>1. CASE Accepted(r)
      <4>1. /\ Versions' = Versions \cup {r}
            /\ UNCHANGED number
            /\ \A q \in Requests : pc'[q] = IF q = r THEN "uploaded" ELSE pc[q]
            /\ pc[r] = "stored" /\ exists /\ exists'
        BY <2>4, <3>1 DEF UploadCommits, Accepted, Versions
      <4>2. NumberFollows'
        BY <4>1 DEF NumberFollows
      <4>3. NumbersDiffer'
        BY <3>1, <4>1 DEF NumbersDiffer, Accepted
      <4> QED
        BY <4>2, <4>3
    <3>2. CASE ~Accepted(r)
      BY <2>4, <3>2, NumbersUnmoved DEF UploadCommits
    <3> QED
      BY <3>1, <3>2
  <2>5. CASE ConfigLoads(r) BY <2>5, NumbersUnmoved DEF ConfigLoads
  <2>6. CASE ConfigCommits(r) BY <2>6, NumbersUnmoved DEF ConfigCommits
  <2>7. CASE TriggerLoads(r) BY <2>7, NumbersUnmoved DEF TriggerLoads
  <2>8. CASE TriggerCommits(r) BY <2>8, NumbersUnmoved DEF TriggerCommits
  <2>9. CASE ExecutionEnds(r) BY <2>9, NumbersUnmoved DEF ExecutionEnds
  <2>10. CASE DeleteCounts(r) BY <2>10, NumbersUnmoved DEF DeleteCounts
  <2>11. CASE DeleteRemovesRows(r) BY <2>11, NumbersUnmoved DEF DeleteRemovesRows
  <2>12. CASE DeleteRemovesArtifact(r) BY <2>12, NumbersUnmoved DEF DeleteRemovesArtifact
  <2>13. CASE DeleteCommits(r) BY <2>13, NumbersUnmoved DEF DeleteCommits
  <2>14. CASE Fails(r) BY <2>14, NumbersUnmoved DEF Fails
  <2> QED
    BY <1>1, <2>1, <2>2, <2>3, <2>4, <2>5, <2>6, <2>7, <2>8, <2>9, <2>10, <2>11, <2>12,
       <2>13, <2>14 DEF Step
<1>2. CASE UNCHANGED vars
  BY <1>2, NumbersUnmoved DEF vars, requests
<1> QED
  BY <1>1, <1>2 DEF Next, Quiet

-----------------------------------------------------------------------------
(* Pointers.                                                               *)

\* Steps that set no pointer and start no change or trigger.
LEMMA PointersUnmoved ==
  ASSUME Inv, [Next]_vars, UNCHANGED <<exists, fn, want, target>>,
         \A q \in Requests : pc'[q] \in {"configuring", "triggering"} => pc[q] = pc'[q]
  PROVE  PointersFit'
<1>1. Versions \subseteq Versions'
  BY VersionsStay DEF Inv, Versions
<1> QED
  BY <1>1 DEF Inv, PointersFit, Configuring

LEMMA PointersPreserved ==
  ASSUME Inv, [Next]_vars
  PROVE  PointersFit'
<1>0. TypeOK /\ PointersFit
  BY DEF Inv
<1>1. ASSUME NEW r \in Requests, Step(r) \/ Fails(r)
      PROVE  PointersFit'
  <2> USE <1>0 DEF TypeOK, Goes
  <2>1. CASE UploadCounts(r) BY <2>1, PointersUnmoved DEF UploadCounts
  <2>2. CASE UploadNumbers(r) BY <2>2, PointersUnmoved DEF UploadNumbers
  <2>3. CASE UploadStores(r) BY <2>3, PointersUnmoved DEF UploadStores
  <2>4. CASE UploadCommits(r)
    <3>1. CASE Accepted(r)
      <4>1. /\ Versions' = Versions \cup {r}
            /\ fn'.active = r /\ fn'.canary = fn.canary
            /\ UNCHANGED <<exists, want, target>>
            /\ \A q \in Requests : pc'[q] = IF q = r THEN "uploaded" ELSE pc[q]
        BY <2>4, <3>1 DEF UploadCommits, Accepted, Versions, FunctionRow
      <4> QED
        BY <4>1 DEF PointersFit, Configuring
    <3>2. CASE ~Accepted(r)
      BY <2>4, <3>2, PointersUnmoved DEF UploadCommits
    <3> QED
      BY <3>1, <3>2
  <2>5. CASE ConfigLoads(r)
    <3>1. PICK new \in Configurations : want' = [want EXCEPT ![r] = new]
      BY <2>5 DEF ConfigLoads
    <3>2. {new.active, new.canary} \subseteq Versions \cup {NoVersion}
      BY <3>1, AskedRows DEF PointersFit
    <3>3. /\ UNCHANGED <<exists, fn, target>>
          /\ Versions' = Versions
          /\ \A q \in Requests : pc'[q] = IF q = r THEN "configuring" ELSE pc[q]
      BY <2>5 DEF ConfigLoads, Versions
    <3> QED
      BY <3>1, <3>2, <3>3 DEF PointersFit, Configuring
  <2>6. CASE ConfigCommits(r)
    <3>1. CASE exists
      <4>1. /\ fn' = Flush(fn, seen[r], want[r])
            /\ UNCHANGED <<exists, want, target>>
            /\ Versions' = Versions
            /\ \A q \in Requests : pc'[q] = IF q = r THEN "ended" ELSE pc[q]
            /\ r \in Configuring
        BY <2>6, <3>1 DEF ConfigCommits, Versions, Configuring
      <4>2. /\ fn'.active \in {fn.active, want[r].active}
            /\ fn'.canary \in {fn.canary, want[r].canary}
        BY <4>1, FlushColumns
      <4> QED
        BY <3>1, <4>1, <4>2 DEF PointersFit, Configuring
    <3>2. CASE ~exists
      BY <2>6, <3>2, PointersUnmoved DEF ConfigCommits
    <3> QED
      BY <3>1, <3>2
  <2>7. CASE TriggerLoads(r)
    <3>1. /\ UNCHANGED <<exists, fn, want>>
          /\ Versions' = Versions
          /\ \A q \in Requests : pc'[q] = IF q = r THEN "triggering" ELSE pc[q]
      BY <2>7 DEF TriggerLoads, Versions
    <3>2. target'[r] \in Versions /\ \A q \in Requests : q # r => target'[q] = target[q]
      BY <2>7 DEF TriggerLoads
    <3> QED
      BY <3>1, <3>2 DEF PointersFit, Configuring
  <2>8. CASE TriggerCommits(r) BY <2>8, PointersUnmoved DEF TriggerCommits
  <2>9. CASE ExecutionEnds(r) BY <2>9, PointersUnmoved DEF ExecutionEnds
  <2>10. CASE DeleteCounts(r) BY <2>10, PointersUnmoved DEF DeleteCounts
  <2>11. CASE DeleteRemovesRows(r) BY <2>11, PointersUnmoved DEF DeleteRemovesRows
  <2>12. CASE DeleteRemovesArtifact(r) BY <2>12, PointersUnmoved DEF DeleteRemovesArtifact
  <2>13. CASE DeleteCommits(r)
    <3>1. ~exists' /\ fn'.active = NoVersion /\ fn'.canary = NoVersion
      BY <2>13 DEF DeleteCommits, Blank
    <3> QED
      BY <3>1 DEF PointersFit
  <2>14. CASE Fails(r) BY <2>14, PointersUnmoved DEF Fails
  <2> QED
    BY <1>1, <2>1, <2>2, <2>3, <2>4, <2>5, <2>6, <2>7, <2>8, <2>9, <2>10, <2>11, <2>12,
       <2>13, <2>14 DEF Step
<1>2. CASE UNCHANGED vars
  BY <1>2, PointersUnmoved DEF vars, requests
<1> QED
  BY <1>1, <1>2 DEF Next, Quiet

-----------------------------------------------------------------------------
(* Routing.                                                                *)

\* Steps that neither change the routing nor start a change of it.
LEMMA RoutingUnmoved ==
  ASSUME Inv, UNCHANGED <<exists, fn, want, overlapped>>,
         \A q \in Requests :
           pc'[q] = "configuring" => pc[q] = "configuring" /\ seen'[q] = seen[q]
  PROVE  ChangeFits' /\ RoutingConsistent'
<1>1. ChangeFits'
  BY DEF Inv, ChangeFits, Configuring, Consistent
<1>2. RoutingConsistent'
  BY DEF Inv, RoutingConsistent
<1> QED
  BY <1>1, <1>2

LEMMA RoutingPreserved ==
  ASSUME Inv, [Next]_vars
  PROVE  ChangeFits' /\ RoutingConsistent'
<1>0. TypeOK /\ PointersFit /\ ChangeFits /\ RoutingConsistent
  BY DEF Inv
<1>1. ASSUME NEW r \in Requests, Step(r) \/ Fails(r)
      PROVE  ChangeFits' /\ RoutingConsistent'
  <2> USE <1>0 DEF TypeOK, Goes, history
  <2>1. CASE UploadCounts(r) BY <2>1, RoutingUnmoved DEF UploadCounts
  <2>2. CASE UploadNumbers(r) BY <2>2, RoutingUnmoved DEF UploadNumbers
  <2>3. CASE UploadStores(r) BY <2>3, RoutingUnmoved DEF UploadStores
  <2>4. CASE UploadCommits(r)
    <3>1. CASE Accepted(r)
      <4>1. /\ fn'.active = r /\ fn'.canary = fn.canary /\ fn'.percent = fn.percent
            /\ UNCHANGED <<exists, want, seen, overlapped>>
            /\ \A q \in Requests : pc'[q] = IF q = r THEN "uploaded" ELSE pc[q]
            /\ exists /\ r \notin Versions \cup {NoVersion}
        BY <2>4, <3>1, RegistryAssumption
        DEF UploadCommits, Accepted, Versions, FunctionRow
      <4>2. Configuring' = Configuring
        BY <2>4, <4>1 DEF UploadCommits, Configuring
      <4>3. fn.canary # r /\ \A c \in Configuring : want[c].canary # r
        BY <4>1 DEF PointersFit
      <4>4. ChangeFits'
        BY <4>1, <4>2, <4>3 DEF ChangeFits, Consistent
      <4>5. RoutingConsistent'
        BY <4>1, <4>3 DEF RoutingConsistent
      <4> QED
        BY <4>4, <4>5
    <3>2. CASE ~Accepted(r)
      BY <2>4, <3>2, RoutingUnmoved DEF UploadCommits
    <3> QED
      BY <3>1, <3>2
  <2>5. CASE ConfigLoads(r)
    <3>1. PICK new \in Configurations : want' = [want EXCEPT ![r] = new]
      BY <2>5 DEF ConfigLoads
    <3>2. /\ seen'[r] = fn /\ want'[r] = new
          /\ UNCHANGED <<exists, fn>>
          /\ Configuring' = Configuring \cup {r}
          /\ ~overlapped' => ~overlapped /\ Configuring = {}
      <4>1. pc' = [pc EXCEPT ![r] = "configuring"] /\ r \in DOMAIN pc
        BY <2>5 DEF ConfigLoads
      <4>2. Configuring' = Configuring \cup {r}
        BY <4>1 DEF Configuring
      <4>3. overlapped' = (overlapped \/ Configuring # {})
        BY <2>5, Zenon DEF ConfigLoads
      <4>4. ~overlapped' => ~overlapped /\ Configuring = {}
        BY <4>3, Zenon
      <4>5. seen'[r] = fn /\ want'[r] = new /\ UNCHANGED <<exists, fn>>
        BY <2>5, <3>1 DEF ConfigLoads
      <4> QED
        BY <4>2, <4>4, <4>5
    <3>3. RoutingConsistent'
      BY <3>2 DEF RoutingConsistent
    <3>4. ASSUME ~overlapped' PROVE Consistent(new) /\ (new.canary # NoVersion => new.canary # fn.active)
      BY <3>2, <3>4, AskedRows DEF RoutingConsistent, Consistent
    <3>5. ChangeFits'
      BY <3>2, <3>4 DEF ChangeFits, Consistent
    <3> QED
      BY <3>3, <3>5
  <2>6. CASE ConfigCommits(r)
    <3>1. /\ Configuring' = Configuring \ {r}
          /\ r \in Configuring
          /\ UNCHANGED <<exists, seen, want, overlapped>>
          /\ fn' = IF exists THEN Flush(fn, seen[r], want[r]) ELSE fn
      BY <2>6 DEF ConfigCommits, Configuring
    <3>2. ChangeFits'
      BY <3>1 DEF ChangeFits
    <3>3. RoutingConsistent'
      <4>1. CASE overlapped \/ ~exists
        BY <3>1, <4>1 DEF RoutingConsistent
      <4>2. CASE ~overlapped /\ exists
        <5>1. /\ fn'.active \in {fn.active, want[r].active}
              /\ fn'.canary = want[r].canary
              /\ fn'.percent = want[r].percent
          BY <3>1, <4>2, FlushColumns DEF ChangeFits
        <5>2. /\ Consistent(want[r])
              /\ want[r].canary # NoVersion => want[r].canary # fn.active
          BY <3>1, <4>2 DEF ChangeFits
        <5> QED
          BY <5>1, <5>2 DEF RoutingConsistent, Consistent
      <4> QED
        BY <4>1, <4>2
    <3> QED
      BY <3>2, <3>3
  <2>7. CASE TriggerLoads(r) BY <2>7, RoutingUnmoved DEF TriggerLoads
  <2>8. CASE TriggerCommits(r) BY <2>8, RoutingUnmoved DEF TriggerCommits
  <2>9. CASE ExecutionEnds(r) BY <2>9, RoutingUnmoved DEF ExecutionEnds
  <2>10. CASE DeleteCounts(r) BY <2>10, RoutingUnmoved DEF DeleteCounts
  <2>11. CASE DeleteRemovesRows(r) BY <2>11, RoutingUnmoved DEF DeleteRemovesRows
  <2>12. CASE DeleteRemovesArtifact(r) BY <2>12, RoutingUnmoved DEF DeleteRemovesArtifact
  <2>13. CASE DeleteCommits(r)
    <3>1. /\ ~exists' /\ fn'.canary = NoVersion /\ fn'.percent = 0
          /\ Configuring' = Configuring /\ UNCHANGED overlapped
      BY <2>13 DEF DeleteCommits, Blank, Configuring
    <3> QED
      BY <3>1 DEF ChangeFits, RoutingConsistent
  <2>14. CASE Fails(r) BY <2>14, RoutingUnmoved DEF Fails
  <2> QED
    BY <1>1, <2>1, <2>2, <2>3, <2>4, <2>5, <2>6, <2>7, <2>8, <2>9, <2>10, <2>11, <2>12,
       <2>13, <2>14 DEF Step
<1>2. CASE UNCHANGED vars
  BY <1>2, RoutingUnmoved DEF vars, requests, history
<1> QED
  BY <1>1, <1>2 DEF Next, Quiet

-----------------------------------------------------------------------------
(* Artifacts.                                                              *)

\* What the invariants about artifacts say together.
Kept == ListsFit /\ RowHasArtifact /\ Guarded /\ ArtifactsKept

\* Steps that add no version, no artifact, no active execution and no deletion.
LEMMA ArtifactsUnmoved ==
  ASSUME Inv, UNCHANGED <<exists, stored, listed, target, torn, exposed>>,
         \A q \in Requests :
           \/ pc'[q] = pc[q]
           \/ /\ pc[q] \notin {"uploaded", "deleting", "removing"}
              /\ pc'[q] \notin {"stored", "uploaded", "active", "deleting", "removing"}
  PROVE  Kept'
<1>1. Versions' = Versions /\ Locked' = Locked
  BY DEF Versions, Locked
<1>2. ListsFit'
  BY DEF Inv, TypeOK, ListsFit
<1>3. RowHasArtifact'
  BY <1>1 DEF Inv, RowHasArtifact
<1>4. Guarded'
  BY DEF Inv, Guarded
<1>5. ArtifactsKept'
  BY DEF Inv, ArtifactsKept
<1> QED
  BY <1>2, <1>3, <1>4, <1>5 DEF Kept

LEMMA KeptPreserved ==
  ASSUME Inv, [Next]_vars
  PROVE  Kept'
<1>0. TypeOK /\ PointersFit /\ ListsFit /\ RowHasArtifact /\ Guarded /\ ArtifactsKept
  BY DEF Inv
<1>1. ASSUME NEW r \in Requests, Step(r) \/ Fails(r)
      PROVE  Kept'
  <2> USE <1>0 DEF TypeOK, Goes, history
  <2>1. CASE UploadCounts(r) BY <2>1, ArtifactsUnmoved DEF UploadCounts
  <2>2. CASE UploadNumbers(r) BY <2>2, ArtifactsUnmoved DEF UploadNumbers
  <2>3. CASE UploadStores(r)
    <3>1. /\ stored' = stored \cup {r}
          /\ UNCHANGED <<exists, listed, target, torn, exposed>>
          /\ Versions' = Versions /\ Locked' = Locked
          /\ pc[r] = "numbered"
          /\ \A q \in Requests : pc'[q] = IF q = r THEN "stored" ELSE pc[q]
      BY <2>3 DEF UploadStores, Versions, Locked
    <3> QED
      BY <3>1 DEF Kept, ListsFit, RowHasArtifact, Guarded, ArtifactsKept
  <2>4. CASE UploadCommits(r)
    <3>1. CASE Accepted(r)
      <4>1. /\ Versions' = Versions \cup {r} /\ Locked' = Locked
            /\ UNCHANGED <<stored, listed, target, torn, exposed>>
            /\ \A q \in Requests : pc'[q] = IF q = r THEN "uploaded" ELSE pc[q]
            /\ pc[r] = "stored"
        BY <2>4, <3>1 DEF UploadCommits, Accepted, Versions, Locked
      <4> QED
        BY <4>1 DEF Kept, ListsFit, RowHasArtifact, Guarded, ArtifactsKept
    <3>2. CASE ~Accepted(r)
      BY <2>4, <3>2, ArtifactsUnmoved DEF UploadCommits
    <3> QED
      BY <3>1, <3>2
  <2>5. CASE ConfigLoads(r) BY <2>5, ArtifactsUnmoved DEF ConfigLoads
  <2>6. CASE ConfigCommits(r) BY <2>6, ArtifactsUnmoved DEF ConfigCommits
  <2>7. CASE TriggerLoads(r)
    <3>1. /\ UNCHANGED <<stored, listed, torn, exposed>>
          /\ Versions' = Versions /\ Locked' = Locked
          /\ pc[r] = "new"
          /\ \A q \in Requests : pc'[q] = IF q = r THEN "triggering" ELSE pc[q]
          /\ \A q \in Requests : q # r => target'[q] = target[q]
      BY <2>7 DEF TriggerLoads, Versions, Locked
    <3> QED
      BY <3>1 DEF Kept, ListsFit, RowHasArtifact, Guarded, ArtifactsKept
  <2>8. CASE TriggerCommits(r)
    <3>1. CASE exists
      <4>1. /\ UNCHANGED <<stored, listed, target, torn>>
            /\ Versions' = Versions /\ ~Locked /\ ~Locked'
            /\ pc[r] = "triggering"
            /\ \A q \in Requests : pc'[q] = IF q = r THEN "active" ELSE pc[q]
            /\ exposed \subseteq exposed'
            /\ r \in exposed' \/ \A d \in Requests : pc[d] # "deleting"
        BY <2>8, <3>1 DEF TriggerCommits, Versions, Locked
      <4>2. target[r] \in stored \cup torn
        BY <3>1, <4>1 DEF PointersFit, RowHasArtifact
      <4>3. Guarded'
        BY <4>1 DEF Guarded, Locked
      <4>4. ArtifactsKept'
        BY <4>1, <4>2 DEF ArtifactsKept
      <4>5. ListsFit' /\ RowHasArtifact'
        BY <4>1 DEF ListsFit, RowHasArtifact
      <4> QED
        BY <4>3, <4>4, <4>5 DEF Kept
    <3>2. CASE ~exists
      <4>1. /\ UNCHANGED <<exists, stored, listed, target, torn>>
            /\ Versions' = Versions /\ Locked' = Locked
            /\ pc[r] = "triggering"
            /\ \A q \in Requests : pc'[q] = IF q = r THEN "ended" ELSE pc[q]
            /\ exposed \subseteq exposed'
        BY <2>8, <3>2 DEF TriggerCommits, Versions, Locked
      <4> QED
        BY <4>1 DEF Kept, ListsFit, RowHasArtifact, Guarded, ArtifactsKept
    <3> QED
      BY <3>1, <3>2
  <2>9. CASE ExecutionEnds(r) BY <2>9, ArtifactsUnmoved DEF ExecutionEnds
  <2>10. CASE DeleteCounts(r)
    <3>1. /\ UNCHANGED <<stored, target, torn, exposed>>
          /\ Versions' = Versions /\ Locked' = Locked
          /\ \A q \in Requests : pc'[q] = IF q = r THEN "deleting" ELSE pc[q]
          /\ \A q \in Requests : listed'[q] = IF q = r THEN Versions ELSE listed[q]
          /\ pc[r] = "new"
          /\ \A e \in Requests : pc[e] # "active"
      BY <2>10 DEF DeleteCounts, Versions, Locked, NothingActive
    <3>2. ListsFit'
      <4>1. \A v \in Versions : pc[v] = "uploaded"
        BY DEF Versions
      <4> HIDE DEF Versions
      <4>2. ASSUME NEW q \in Requests, NEW v \in listed'[q] PROVE pc'[v] = "uploaded"
        <5>1. v \in Versions \/ v \in listed[q]
          BY <3>1
        <5>2. pc[v] = "uploaded"
          BY <4>1, <5>1 DEF ListsFit
        <5>3. v \in Requests
          BY <5>1 DEF Versions
        <5> QED
          BY <3>1, <5>2, <5>3
      <4>3. \A q \in Requests : pc'[q] = "stored" => q \in stored'
        BY <3>1 DEF ListsFit
      <4> QED
        BY <4>2, <4>3 DEF ListsFit
    <3> QED
      BY <3>1, <3>2 DEF Kept, RowHasArtifact, Guarded, ArtifactsKept
  <2>11. CASE DeleteRemovesRows(r)
    <3>1. /\ UNCHANGED <<stored, listed, target, torn, exposed>>
          /\ Versions' = Versions /\ ~Locked
          /\ pc[r] = "deleting" /\ pc'[r] \in {"removing", "ended"}
          /\ \A q \in Requests : q # r => pc'[q] = pc[q]
      BY <2>11 DEF DeleteRemovesRows, Versions, Locked
    <3> QED
      BY <3>1 DEF Kept, ListsFit, RowHasArtifact, Guarded, ArtifactsKept
  <2>12. CASE DeleteRemovesArtifact(r)
    <3>1. PICK v \in listed[r] : stored' = stored \ {v}
      BY <2>12 DEF DeleteRemovesArtifact
    <3>2. /\ UNCHANGED <<pc, target, torn, exposed>>
          /\ pc[r] = "removing" /\ Locked'
          /\ \A q \in Requests : listed'[q] \subseteq listed[q]
      BY <2>12 DEF DeleteRemovesArtifact, Locked
    <3>3. pc[v] = "uploaded" /\ \A e \in Requests : pc[e] = "active" => e \in exposed
      BY <3>2 DEF ListsFit, Guarded
    <3> QED
      BY <3>1, <3>2, <3>3 DEF Kept, ListsFit, RowHasArtifact, Guarded, ArtifactsKept
  <2>13. CASE DeleteCommits(r)
    <3>1. /\ UNCHANGED <<stored, listed, target, torn, exposed>>
          /\ Versions' = {} /\ pc[r] = "removing"
          /\ \A q \in Requests : pc'[q] = IF q = r THEN "ended" ELSE pc[q]
      BY <2>13 DEF DeleteCommits, Versions
    <3> QED
      BY <3>1 DEF Kept, ListsFit, RowHasArtifact, Guarded, ArtifactsKept
  <2>14. CASE Fails(r)
    <3>1. /\ UNCHANGED <<stored, listed, target, exposed>>
          /\ Versions' = Versions
          /\ torn \subseteq torn'
          /\ pc[r] \notin {"uploaded", "active"}
          /\ \A q \in Requests : pc'[q] = IF q = r THEN "ended" ELSE pc[q]
      BY <2>14 DEF Fails, Versions
    <3>2. IF pc[r] = "removing" THEN Versions \ stored \subseteq torn' ELSE Locked' = Locked
      BY <2>14, <3>1 DEF Fails, Locked
    <3>3. RowHasArtifact'
      BY <3>1, <3>2 DEF RowHasArtifact
    <3> QED
      BY <3>1, <3>3 DEF Kept, ListsFit, Guarded, ArtifactsKept
  <2> QED
    BY <1>1, <2>1, <2>2, <2>3, <2>4, <2>5, <2>6, <2>7, <2>8, <2>9, <2>10, <2>11, <2>12,
       <2>13, <2>14 DEF Step
<1>2. CASE UNCHANGED vars
  BY <1>2, ArtifactsUnmoved DEF vars, requests, history
<1> QED
  BY <1>1, <1>2 DEF Next, Quiet

-----------------------------------------------------------------------------

\* Inv is an inductive invariant.
THEOREM RegistryInductive == Spec => []Inv
<1>1. Init => Inv
  BY InitInv
<1>2. Inv /\ [Next]_vars => Inv'
  BY TypePreserved, NumbersPreserved, PointersPreserved, RoutingPreserved, KeptPreserved
  DEF Inv, Kept
<1> QED
  BY <1>1, <1>2, PTL DEF Spec

\* Every variable of the registry has its type.
THEOREM RegistryTypeCorrect == Spec => []TypeOK
<1>1. Inv => TypeOK
  BY DEF Inv
<1> QED
  BY <1>1, RegistryInductive, PTL

\* Uploads that overlap leave the versions numbered from 1 without gaps: the
\* unique constraint is enough although the number is chosen without a lock.
THEOREM VersionsNumbered == Spec => []NumbersGapless
<1>1. Inv => NumbersGapless
  BY DEF Inv, NumberFollows, NumbersDiffer, NumbersGapless, Versions
<1> QED
  BY <1>1, RegistryInductive, PTL

\* Uploads between the load and the commit of a change of the routing do not
\* make its columns disagree.
THEOREM RoutingStaysConsistent == Spec => []RoutingConsistent
<1>1. Inv => RoutingConsistent
  BY DEF Inv
<1> QED
  BY <1>1, RegistryInductive, PTL

\* No order of uploads, deletions and failures leaves a version without its
\* artifact, except a deletion that fails half-way.
THEOREM ArtifactsPresent == Spec => []RowHasArtifact
<1>1. Inv => RowHasArtifact
  BY DEF Inv
<1> QED
  BY <1>1, RegistryInductive, PTL

\* An execution that was committed before a deletion counted keeps its artifact.
THEOREM ExecutionsKeepArtifacts == Spec => []ArtifactsKept
<1>1. Inv => ArtifactsKept
  BY DEF Inv
<1> QED
  BY <1>1, RegistryInductive, PTL

-----------------------------------------------------------------------------
(* The limit of versions.                                                  *)

\* Uploads that have counted are charged to the limit like versions.
Charged ==
  Cardinality(Versions) + Cardinality(Uploading) < MaxVersions + peak

\* Steps that let no upload in and insert no version.
LEMMA ChargedUnmoved ==
  ASSUME TypeOK, Charged, peak' = peak, Versions' \subseteq Versions,
         Uploading' \subseteq Uploading
  PROVE  Charged'
<1>1. Versions \in SUBSET Requests /\ Uploading \in SUBSET Requests
  BY DEF Versions, Uploading
<1>2. /\ Cardinality(Versions') <= Cardinality(Versions)
      /\ Cardinality(Uploading') <= Cardinality(Uploading)
  BY <1>1, FiniteRequests, FS_Subset
<1>3. /\ Cardinality(Versions) \in Nat /\ Cardinality(Versions') \in Nat
      /\ Cardinality(Uploading) \in Nat /\ Cardinality(Uploading') \in Nat
  BY <1>1, FiniteRequests
<1>4. MaxVersions \in Nat /\ peak \in Nat
  BY RegistryAssumption DEF RegistryAssumption, TypeOK
<1> QED
  BY <1>2, <1>3, <1>4 DEF Charged

LEMMA ChargedPreserved ==
  ASSUME TypeOK, Charged, [Next]_vars
  PROVE  Charged'
<1>s. /\ Versions \in SUBSET Requests /\ Versions' \in SUBSET Requests
      /\ Uploading \in SUBSET Requests /\ Uploading' \in SUBSET Requests
  BY DEF Versions, Uploading
<1>c. /\ Cardinality(Versions) \in Nat /\ Cardinality(Versions') \in Nat
      /\ Cardinality(Uploading) \in Nat /\ Cardinality(Uploading') \in Nat
      /\ MaxVersions \in Nat /\ peak \in Nat
  BY <1>s, FiniteRequests, RegistryAssumption DEF RegistryAssumption, TypeOK
<1>1. ASSUME NEW r \in Requests, Step(r) \/ Fails(r)
      PROVE  Charged'
  <2>1. CASE UploadCounts(r)
    <3>1. Versions' = Versions
      BY <2>1 DEF UploadCounts, Goes, Versions, TypeOK
    <3>2. ~(Cardinality(Versions) >= MaxVersions)
      BY <2>1 DEF UploadCounts, LimitReached
    <3>3. peak' = IF Cardinality(Uploading') > peak THEN Cardinality(Uploading') ELSE peak
      BY <2>1 DEF UploadCounts
    <3>4. Cardinality(Uploading') <= peak'
      BY <1>c, <3>3
    <3>5. Cardinality(Versions) + Cardinality(Uploading') < MaxVersions + peak'
      BY <1>c, <3>2, <3>3, <3>4
    <3> QED
      BY <3>1, <3>5 DEF Charged
  <2>2. CASE UploadCommits(r)
    <3>1. /\ r \in Uploading /\ Uploading' = Uploading \ {r}
          /\ Versions' \subseteq Versions \cup {r} /\ peak' = peak
      BY <2>2 DEF UploadCommits, Goes, Uploading, Versions, TypeOK, history
    <3>2. Cardinality(Uploading') = Cardinality(Uploading) - 1
      BY <1>s, <3>1, FiniteRequests, FS_RemoveElement
    <3>3. /\ IsFiniteSet(Versions \cup {r})
          /\ Cardinality(Versions \cup {r}) <= Cardinality(Versions) + 1
      <4>1. CASE r \in Versions
        <5>1. Versions \cup {r} = Versions BY <4>1
        <5> QED BY <1>c, <1>s, <5>1, FiniteRequests
      <4>2. CASE r \notin Versions
        <5>1. Cardinality(Versions \cup {r}) = Cardinality(Versions) + 1
              /\ IsFiniteSet(Versions \cup {r})
          BY <1>s, <4>2, FiniteRequests, FS_AddElement
        <5> QED BY <1>c, <5>1
      <4> QED BY <4>1, <4>2
    <3>4. Cardinality(Versions') <= Cardinality(Versions \cup {r})
      BY <3>1, <3>3, FS_Subset
    <3>5. Cardinality(Versions \cup {r}) \in Nat
      BY <3>3, FS_CardinalityType
    <3>6. Cardinality(Versions') + Cardinality(Uploading') < MaxVersions + peak
      BY <1>c, <3>2, <3>3, <3>4, <3>5 DEF Charged
    <3> QED
      BY <3>1, <3>6 DEF Charged
  <2> USE DEF TypeOK, Goes, history, Uploading, Versions
  <2>3. CASE UploadNumbers(r) BY <2>3, ChargedUnmoved DEF UploadNumbers
  <2>4. CASE UploadStores(r) BY <2>4, ChargedUnmoved DEF UploadStores
  <2>5. CASE ConfigLoads(r) BY <2>5, ChargedUnmoved DEF ConfigLoads
  <2>6. CASE ConfigCommits(r) BY <2>6, ChargedUnmoved DEF ConfigCommits
  <2>7. CASE TriggerLoads(r) BY <2>7, ChargedUnmoved DEF TriggerLoads
  <2>8. CASE TriggerCommits(r) BY <2>8, ChargedUnmoved DEF TriggerCommits
  <2>9. CASE ExecutionEnds(r) BY <2>9, ChargedUnmoved DEF ExecutionEnds
  <2>10. CASE DeleteCounts(r) BY <2>10, ChargedUnmoved DEF DeleteCounts
  <2>11. CASE DeleteRemovesRows(r) BY <2>11, ChargedUnmoved DEF DeleteRemovesRows
  <2>12. CASE DeleteRemovesArtifact(r) BY <2>12, ChargedUnmoved DEF DeleteRemovesArtifact
  <2>13. CASE DeleteCommits(r) BY <2>13, ChargedUnmoved DEF DeleteCommits
  <2>14. CASE Fails(r) BY <2>14, ChargedUnmoved DEF Fails
  <2> QED
    BY <1>1, <2>1, <2>2, <2>3, <2>4, <2>5, <2>6, <2>7, <2>8, <2>9, <2>10, <2>11, <2>12,
       <2>13, <2>14 DEF Step
<1>2. CASE UNCHANGED vars
  BY <1>2, ChargedUnmoved DEF vars, requests, history, Versions, Uploading
<1> QED
  BY <1>1, <1>2 DEF Next, Quiet

\* However many uploads pass the limit together, they exceed it by fewer than
\* have counted at once and not yet inserted (functions.py:378-424).
THEOREM LimitNearlyKept == Spec => []LimitOvershoot
<1>1. Init => Charged
  <2> SUFFICES ASSUME Init PROVE Charged
    OBVIOUS
  <2>1. Versions = {} /\ Uploading = {} /\ peak = 0
    BY DEF Init, Versions, Uploading
  <2>2. Cardinality({}) = 0 /\ MaxVersions \in Nat \ {0}
    BY FS_EmptySet, RegistryAssumption DEF RegistryAssumption
  <2> QED
    BY <2>1, <2>2 DEF Charged
<1>2. TypeOK /\ Charged /\ [Next]_vars => Charged'
  BY ChargedPreserved
<1>3. TypeOK /\ Charged => LimitOvershoot
  <2> SUFFICES ASSUME TypeOK, Charged PROVE LimitOvershoot
    OBVIOUS
  <2>1. /\ Cardinality(Versions) \in Nat /\ Cardinality(Uploading) \in Nat
        /\ MaxVersions \in Nat /\ peak \in Nat
    BY FiniteRequests, RegistryAssumption DEF RegistryAssumption, TypeOK, Versions, Uploading
  <2> QED
    BY <2>1 DEF Charged, LimitOvershoot
<1> QED
  BY <1>1, <1>2, <1>3, RegistryTypeCorrect, PTL DEF Spec

=============================================================================
