-------------------------- MODULE LiveEventsProofs --------------------------
(***************************************************************************)
(* The set that the API broadcasts to is exact for any number of sockets,  *)
(* broadcasts and lost connections.  What carries the argument is that a   *)
(* connection that is over stays over: a socket that a broadcast has       *)
(* found dead is still dead when the broadcast removes it.                 *)
(*                                                                         *)
(* The number of sockets of the page is bounded by the number of times its *)
(* effect ran again: each such run sends one socket into closing, and the  *)
(* late close of that socket makes one live socket lose its reference.     *)
(***************************************************************************)
EXTENDS LiveEvents, FiniteSetTheorems, TLAPS

Types ==
  /\ made \in 0 .. MaxSockets
  /\ wsRef \in 0 .. MaxSockets
  /\ client \in [Sockets -> {"none", "connecting", "open", "closing", "closed"}]
  /\ handler \in [Sockets -> {"none", "accepted", "serving", "gone"}]
  /\ broken \subseteq Sockets
  /\ connections \subseteq Sockets
  /\ copy \in [Broadcasts -> SUBSET Sockets]
  /\ waiting \in [Broadcasts -> SUBSET Sockets]
  /\ dead \in [Broadcasts -> SUBSET Sockets]

\* Nothing is known of a socket before it is made.
Unmade ==
  \A s \in Sockets : s > made =>
    client[s] = "none" /\ handler[s] = "none" /\ s \notin broken

\* A send raises only when the connection is over.
DeadAreDown == \A b \in Broadcasts : \A s \in dead[b] : Down(s)

Inv == Types /\ Unmade /\ DeadAreDown /\ SetIsExact

-----------------------------------------------------------------------------
(* What the page does to its sockets.                                       *)

\* The page only makes the next socket and closes others.
PageStep ==
  /\ made' \in 0 .. MaxSockets
  /\ wsRef' \in 0 .. MaxSockets
  /\ made <= made'
  /\ client' \in [Sockets -> {"none", "connecting", "open", "closing", "closed"}]
  /\ \A s \in Sockets : s <= made /\ client[s] \in {"closing", "closed"}
                          => client'[s] \in {"closing", "closed"}
  /\ \A s \in Sockets : s > made' => client'[s] = "none"

LEMMA Connects ==
  ASSUME Types, Unmade, NEW states \in {client, Closed}, Connect(states)
  PROVE  PageStep
<1>1. /\ states \in [Sockets -> {"none", "connecting", "open", "closing", "closed"}]
      /\ \A s \in Sockets : client[s] \in {"closing", "closed"} => states[s] = client[s]
      /\ \A s \in Sockets : s > made => states[s] = "none"
  BY DEF Types, Unmade, Closed, Live
<1>2. made \in Nat /\ MaxSockets \in Nat
  BY LiveAssumption DEF Types
<1>3. CASE client' = states /\ UNCHANGED <<made, wsRef>>
  BY <1>1, <1>2, <1>3 DEF PageStep, Types
<1>4. CASE /\ made < MaxSockets
           /\ made' = made + 1
           /\ wsRef' = made + 1
           /\ client' = [states EXCEPT ![made + 1] = "connecting"]
  <2>1. made' \in 0 .. MaxSockets /\ wsRef' \in 0 .. MaxSockets /\ made <= made'
    BY <1>2, <1>4
  <2>2. client' \in [Sockets -> {"none", "connecting", "open", "closing", "closed"}]
    BY <1>1, <1>4
  <2>3. \A s \in Sockets : s # made + 1 => client'[s] = states[s]
    BY <1>1, <1>4
  <2>4. \A s \in Sockets : s <= made \/ s > made' => s # made + 1
    BY <1>2, <1>4 DEF Sockets
  <2>5. \A s \in Sockets : s > made' => s > made
    BY <1>2, <1>4 DEF Sockets
  <2> QED
    BY <1>1, <2>1, <2>2, <2>3, <2>4, <2>5 DEF PageStep
<1> QED
  BY <1>3, <1>4 DEF Connect

\* Every step of the page alone is such a step.
LEMMA PageSteps ==
  ASSUME Types, Unmade,
         Mount \/ EffectRunsAgain \/ Unmount \/ TimerFires \/ \E s \in Sockets : OnOpen(s)
  PROVE  PageStep
<1>1. /\ client \in [Sockets -> {"none", "connecting", "open", "closing", "closed"}]
      /\ Closed \in [Sockets -> {"none", "connecting", "open", "closing", "closed"}]
      /\ \A s \in Sockets : client[s] \in {"closing", "closed"} => Closed[s] = client[s]
      /\ \A s \in Sockets : s > made => client[s] = "none" /\ Closed[s] = "none"
  BY DEF Types, Unmade, Closed, Live
<1>2. made \in 0 .. MaxSockets /\ wsRef \in 0 .. MaxSockets /\ made \in Nat
  BY LiveAssumption DEF Types
<1>3. ASSUME UNCHANGED <<made, wsRef>>, client' \in {client, Closed} PROVE PageStep
  BY <1>1, <1>2, <1>3 DEF PageStep
<1>4. CASE Mount \/ EffectRunsAgain
  BY <1>4, Connects DEF Mount, EffectRunsAgain
<1>5. CASE Unmount
  BY <1>3, <1>5 DEF Unmount
<1>6. CASE TimerFires
  BY <1>3, <1>6, Connects DEF TimerFires
<1>7. ASSUME NEW s \in Sockets, OnOpen(s) PROVE PageStep
  <2>1. made' = made /\ wsRef' = wsRef /\ client' = [client EXCEPT ![s] = "open"]
    BY <1>7 DEF OnOpen, thePage
  <2>2. client[s] = "connecting"
    BY <1>7 DEF OnOpen
  <2> QED
    BY <1>1, <1>2, <2>1, <2>2 DEF PageStep
<1> QED
  BY <1>4, <1>5, <1>6, <1>7

-----------------------------------------------------------------------------
(* The invariant is inductive.                                              *)

LEMMA InvInit == Init => Inv
<1> SUFFICES ASSUME Init PROVE Inv
  OBVIOUS
<1>1. Types
  BY LiveAssumption DEF Init, Types
<1> QED
  BY <1>1 DEF Init, Inv, Unmade, DeadAreDown, SetIsExact

\* A step of the page that leaves the API and the broadcasts alone.
LEMMA PageKeepsInv ==
  ASSUME Inv, PageStep, UNCHANGED <<broken, theServer, sends>>
  PROVE  Inv'
<1> USE DEF Inv, theServer, sends
<1>1. Types'
  BY DEF Types, PageStep
<1>2. \A s \in Sockets : s > made' => s > made
  BY LiveAssumption DEF Types, PageStep, Sockets
<1>3. Unmade'
  BY <1>2 DEF Unmade, PageStep
<1>4. \A s \in Sockets : Down(s) => Down(s)'
  <2> SUFFICES ASSUME NEW s \in Sockets, client[s] \in {"closing", "closed"}
               PROVE  client'[s] \in {"closing", "closed"}
    BY DEF Down
  <2>1. ~(s > made)
    BY DEF Unmade
  <2>2. s <= made
    BY <2>1, LiveAssumption DEF Types, Sockets
  <2> QED
    BY <2>2 DEF PageStep
<1>5. DeadAreDown'
  BY <1>4 DEF DeadAreDown, Types
<1>6. SetIsExact'
  BY <1>4 DEF SetIsExact
<1> QED
  BY <1>1, <1>3, <1>5, <1>6

LEMMA InvNext == Inv /\ [Next]_vars => Inv'
<1> SUFFICES ASSUME Inv, [Next]_vars PROVE Inv'
  OBVIOUS
<1>1. CASE Mount \/ EffectRunsAgain \/ Unmount \/ TimerFires \/ \E s \in Sockets : OnOpen(s)
  <2>1. PageStep
    BY <1>1, PageSteps DEF Inv
  <2>2. UNCHANGED <<broken, theServer, sends>>
    BY <1>1 DEF Mount, EffectRunsAgain, Unmount, TimerFires, OnOpen
  <2> QED
    BY <2>1, <2>2, PageKeepsInv
<1>2. ASSUME NEW s \in Sockets, OnClose(s) PROVE Inv'
  <2>1. /\ client' = [client EXCEPT ![s] = "closed"]
        /\ made' = made /\ wsRef' \in {0, wsRef}
        /\ client[s] # "none"
        /\ UNCHANGED <<broken, theServer, sends>>
    BY <1>2 DEF OnClose, Live
  <2>2. PageStep
    BY <2>1, LiveAssumption DEF PageStep, Inv, Types, Unmade
  <2> QED
    BY <2>1, <2>2, PageKeepsInv
<1>3. ASSUME NEW s \in Sockets, Breaks(s) PROVE Inv'
  BY <1>3 DEF Breaks, Inv, Types, Unmade, DeadAreDown, SetIsExact, Down, Live, thePage,
              theServer, sends
<1>4. ASSUME NEW s \in Sockets, Accepts(s) \/ Joins(s) \/ Leaves(s) PROVE Inv'
  <2>1. UNCHANGED <<made, wsRef, client, broken, copy, waiting, dead>>
    BY <1>4 DEF Accepts, Joins, Leaves, thePage, sends
  <2>2. Types'
    BY <1>4, <2>1 DEF Accepts, Joins, Leaves, Inv, Types
  <2>3. ~(s > made)
    BY <1>4 DEF Accepts, Joins, Leaves, Inv, Unmade, Down
  <2>4. \A t \in Sockets : t # s => handler'[t] = handler[t]
    BY <1>4 DEF Accepts, Joins, Leaves, Inv, Types
  <2>5. Unmade'
    BY <2>1, <2>3, <2>4 DEF Inv, Unmade
  <2>6. \A t \in Sockets : Down(t) => Down(t)'
    BY <1>4, <2>1, <2>4 DEF Down, Accepts, Joins, Leaves, Inv, Types
  <2>7. DeadAreDown'
    BY <2>1, <2>6 DEF DeadAreDown, Inv, Types
  <2>8. SetIsExact'
    BY <1>4, <2>1, <2>6 DEF SetIsExact, Accepts, Joins, Leaves, Inv, Types, Down
  <2> QED
    BY <2>2, <2>5, <2>7, <2>8 DEF Inv
<1>5. ASSUME NEW b \in Broadcasts, BroadcastBegins(b) PROVE Inv'
  BY <1>5 DEF BroadcastBegins, Inv, Types, Unmade, DeadAreDown, SetIsExact, Down, thePage,
              theServer
<1>6. ASSUME NEW b \in Broadcasts, NEW s \in Sockets, SendEnds(b, s) PROVE Inv'
  BY <1>6 DEF SendEnds, Inv, Types, Unmade, DeadAreDown, SetIsExact, Down, thePage, theServer
<1>7. ASSUME NEW b \in Broadcasts, BroadcastEnds(b) PROVE Inv'
  BY <1>7 DEF BroadcastEnds, Inv, Types, Unmade, DeadAreDown, SetIsExact, Down, thePage
<1>8. CASE UNCHANGED vars
  BY <1>8 DEF vars, thePage, theServer, sends, Inv, Types, Unmade, DeadAreDown, SetIsExact, Down
<1> QED
  BY <1>1, <1>2, <1>3, <1>4, <1>5, <1>6, <1>7, <1>8 DEF Next

\* The inductive invariant holds.
THEOREM InvHolds == Spec => []Inv
BY InvInit, InvNext, PTL DEF Spec

\* Whatever joins and leaves while broadcasts send to copies of the set, the
\* set holds no socket that nobody serves and misses none that is up.
THEOREM ConnectionsExact == Spec => []SetIsExact
<1>1. Inv => SetIsExact
  BY DEF Inv
<1> QED
  BY <1>1, InvHolds, PTL

-----------------------------------------------------------------------------
(* The sockets of the page.                                                 *)

\* The sockets that are closing, or live without being referred to.
Spare == {s \in Sockets : client[s] = "closing"} \cup (Live \ {wsRef})

SpareBounded ==
  /\ reruns \in Nat
  /\ page \in {"new", "mounted", "gone"}
  /\ page = "new" => Live = {} /\ Spare = {} /\ wsRef = 0
  /\ page = "mounted" => Cardinality(Spare) <= reruns
  /\ page = "gone" => Cardinality(Live) <= reruns

LEMMA Counting ==
  ASSUME NEW S \in SUBSET Sockets
  PROVE  /\ Cardinality(S) \in Nat
         /\ \A T \in SUBSET S : Cardinality(T) <= Cardinality(S)
         /\ \A x \in Sockets : Cardinality(S \cup {x}) <= Cardinality(S) + 1
         /\ \A x \in S : Cardinality(S \ {x}) = Cardinality(S) - 1
<1>1. IsFiniteSet(Sockets)
  BY LiveAssumption, FS_Interval DEF Sockets
<1>2. IsFiniteSet(S) /\ Cardinality(S) \in Nat
  BY <1>1, FS_Subset, FS_CardinalityType
<1>3. \A T \in SUBSET S : Cardinality(T) <= Cardinality(S)
  BY <1>2, FS_Subset
<1>4. \A x \in Sockets : Cardinality(S \cup {x}) <= Cardinality(S) + 1
  BY <1>2, FS_AddElement
<1>5. \A x \in S : Cardinality(S \ {x}) = Cardinality(S) - 1
  BY <1>2, FS_RemoveElement
<1> QED
  BY <1>2, <1>3, <1>4, <1>5

\* A call of connect that leaves the others alone makes no socket spare.
LEMMA ConnectSparesNone ==
  ASSUME Types, Unmade, Connect(client)
  PROVE  Spare' = Spare
<1>1. CASE UNCHANGED <<client, made, wsRef>>
  BY <1>1 DEF Spare, Live
<1>2. CASE /\ wsRef \notin Live
           /\ made < MaxSockets
           /\ wsRef' = made + 1
           /\ client' = [client EXCEPT ![made + 1] = "connecting"]
  <2>1. made + 1 \in Sockets /\ made + 1 > made
    BY <1>2, LiveAssumption DEF Types, Sockets
  <2>2. client[made + 1] = "none"
    BY <2>1 DEF Unmade
  <2>4. client'[made + 1] = "connecting"
    BY <1>2, <2>1 DEF Types
  <2>3. \A s \in Sockets : s # made + 1 => client'[s] = client[s]
    BY <1>2 DEF Types
  <2> QED
    BY <1>2, <2>1, <2>2, <2>3, <2>4 DEF Spare, Live
<1>3. wsRef # 0 => wsRef \in Sockets
  BY LiveAssumption DEF Types, Sockets
<1>4. wsRef = 0 => wsRef \notin Live
  BY DEF Live, Sockets
<1> QED
  BY <1>1, <1>2, <1>3, <1>4 DEF Connect, Live

LEMMA RerunSparesOne ==
  ASSUME Types, Unmade, Connect(Closed)
  PROVE  Spare' \subseteq Spare \cup (Live \cap {wsRef})
<1>1. \/ /\ made < MaxSockets
         /\ wsRef' = made + 1
         /\ client' = [Closed EXCEPT ![made + 1] = "connecting"]
      \/ client' = Closed /\ wsRef' = wsRef
  BY DEF Connect
<1>2. \A s \in Sockets : Closed[s] = IF s = wsRef /\ s \in Live THEN "closing" ELSE client[s]
  BY DEF Closed
<1>3. CASE client' = Closed /\ wsRef' = wsRef
  BY <1>2, <1>3 DEF Spare, Live
<1>4. CASE /\ made < MaxSockets
           /\ wsRef' = made + 1
           /\ client' = [Closed EXCEPT ![made + 1] = "connecting"]
  <2>1. \A s \in Sockets : s # made + 1 => client'[s] = Closed[s]
    BY <1>4 DEF Closed
  <2>2. made + 1 \in Sockets
    BY <1>4, LiveAssumption DEF Types, Sockets
  <2>3. client'[made + 1] = "connecting"
    BY <1>4, <2>2 DEF Closed
  <2> QED
    BY <1>2, <1>4, <2>1, <2>3 DEF Spare, Live
<1> QED
  BY <1>1, <1>3, <1>4

LEMMA SpareInit == Init => SpareBounded
BY FS_EmptySet DEF Init, SpareBounded, Spare, Live

LEMMA SpareNext ==
  ASSUME Inv, SpareBounded, [Next]_vars
  PROVE  SpareBounded'
<1> USE DEF SpareBounded
<1>0. /\ Spare \in SUBSET Sockets /\ Live \in SUBSET Sockets
      /\ Spare' \in SUBSET Sockets /\ Live' \in SUBSET Sockets
      /\ Types /\ Unmade
  BY DEF Spare, Live, Inv
<1>1. CASE Mount
  <2>1. Spare' = Spare
    BY <1>0, <1>1, ConnectSparesNone DEF Mount
  <2>2. Cardinality(Spare) = 0
    BY <1>1, FS_EmptySet DEF Mount
  <2> QED
    BY <1>1, <2>1, <2>2 DEF Mount
<1>2. CASE EffectRunsAgain
  <2>1. Spare' \subseteq Spare \cup (Live \cap {wsRef})
    BY <1>0, <1>2, RerunSparesOne DEF EffectRunsAgain
  <2>2. /\ page = "mounted" /\ page' = page /\ reruns' = reruns + 1
        /\ Cardinality(Spare) <= reruns /\ Cardinality(Spare) \in Nat
    BY <1>0, <1>2, Counting DEF EffectRunsAgain
  <2>3. Cardinality(Spare') <= Cardinality(Spare) + 1
    <3>1. CASE wsRef \in Live
      <4>1. Spare' \subseteq Spare \cup {wsRef} /\ wsRef \in Sockets
        BY <2>1, <3>1 DEF Live
      <4>2. Spare \cup {wsRef} \in SUBSET Sockets
        BY <1>0, <4>1
      <4>3. /\ Cardinality(Spare \cup {wsRef}) <= Cardinality(Spare) + 1
            /\ Cardinality(Spare') <= Cardinality(Spare \cup {wsRef})
            /\ Cardinality(Spare') \in Nat /\ Cardinality(Spare \cup {wsRef}) \in Nat
        BY <1>0, <4>1, <4>2, Counting
      <4> QED
        BY <2>2, <4>3
    <3>2. CASE wsRef \notin Live
      <4>1. Spare' \in SUBSET Spare
        BY <2>1, <3>2
      <4>2. Cardinality(Spare') <= Cardinality(Spare) /\ Cardinality(Spare') \in Nat
        BY <1>0, <4>1, Counting
      <4> QED
        BY <2>2, <4>2
    <3> QED
      BY <3>1, <3>2
  <2>4. Cardinality(Spare') \in Nat
    BY <1>0, Counting
  <2> QED
    BY <2>2, <2>3, <2>4
<1>3. CASE Unmount
  <2>1. Live' \in SUBSET Spare
    BY <1>3 DEF Unmount, Closed, Live, Spare
  <2>2. Cardinality(Live') <= Cardinality(Spare) /\ Cardinality(Live') \in Nat
        /\ Cardinality(Spare) \in Nat
    BY <1>0, <2>1, Counting
  <2>3. page = "mounted" /\ page' = "gone" /\ reruns' = reruns
    BY <1>3 DEF Unmount
  <2> QED
    BY <2>2, <2>3
<1>4. CASE TimerFires
  <2>1. CASE page = "mounted"
    <3>1. Spare' = Spare
      BY <1>0, <1>4, <2>1, ConnectSparesNone DEF TimerFires
    <3> QED
      BY <1>4, <2>1, <3>1 DEF TimerFires
  <2>2. CASE page # "mounted"
    BY <1>4, <2>2 DEF TimerFires, Live, Spare
  <2> QED
    BY <2>1, <2>2
<1>5. ASSUME NEW s \in Sockets, OnOpen(s) PROVE SpareBounded'
  <2>1. Live' = Live /\ Spare' = Spare
    BY <1>0, <1>5 DEF OnOpen, Live, Spare, Types, thePage
  <2> QED
    BY <1>5, <2>1 DEF OnOpen, thePage
<1>6. ASSUME NEW s \in Sockets, OnClose(s) PROVE SpareBounded'
  <2>1. /\ client' = [client EXCEPT ![s] = "closed"]
        /\ client[s] = "closing" \/ s \in Live
        /\ page' = page /\ reruns' = reruns
    BY <1>6 DEF OnClose
  <2>2. page # "new"
    BY <2>1 DEF Spare
  <2>3. \A t \in Sockets : t # s => client'[t] = client[t]
    BY <2>1 DEF Inv, Types
  <2>4. client'[s] = "closed"
    BY <2>1 DEF Inv, Types
  <2>5. CASE page = "gone"
    <3>1. Live' \in SUBSET Live
      BY <2>3, <2>4 DEF Live
    <3>2. Cardinality(Live') <= Cardinality(Live) /\ Cardinality(Live') \in Nat
          /\ Cardinality(Live) \in Nat
      BY <1>0, <3>1, Counting
    <3> QED
      BY <2>1, <2>5, <3>2
  <2>6. CASE page = "mounted"
    <3>1. wsRef' = 0
      BY <1>6, <2>6 DEF OnClose
    <3>2. Cardinality(Spare') <= Cardinality(Spare)
      <4>1. CASE s \in Spare
        <5>1. Spare' \subseteq (Spare \ {s}) \cup (Live \cap {wsRef})
          BY <2>3, <2>4, <3>1 DEF Spare, Live
        <5>2. Cardinality(Spare \ {s}) = Cardinality(Spare) - 1
              /\ Spare \ {s} \in SUBSET Sockets
          BY <1>0, <4>1, Counting
        <5>3. CASE wsRef \in Live
          <6>1. wsRef \in Sockets /\ Spare' \in SUBSET ((Spare \ {s}) \cup {wsRef})
                /\ (Spare \ {s}) \cup {wsRef} \in SUBSET Sockets
            BY <1>0, <5>1, <5>3 DEF Live
          <6>2. /\ Cardinality((Spare \ {s}) \cup {wsRef}) <= Cardinality(Spare \ {s}) + 1
                /\ Cardinality(Spare') <= Cardinality((Spare \ {s}) \cup {wsRef})
                /\ Cardinality(Spare) \in Nat /\ Cardinality(Spare') \in Nat
                /\ Cardinality((Spare \ {s}) \cup {wsRef}) \in Nat
            BY <1>0, <5>2, <6>1, Counting
          <6> QED
            BY <5>2, <6>2
        <5>4. CASE wsRef \notin Live
          <6>1. Spare' \in SUBSET Spare
            BY <5>1, <5>4
          <6> QED
            BY <1>0, <6>1, Counting
        <5> QED
          BY <5>3, <5>4
      <4>2. CASE s \notin Spare
        <5>1. s = wsRef
          BY <2>1, <4>2 DEF Spare
        <5>2. Spare' \in SUBSET Spare
          BY <2>3, <2>4, <5>1 DEF Spare, Live
        <5> QED
          BY <1>0, <5>2, Counting
      <4> QED
        BY <4>1, <4>2
    <3>3. Cardinality(Spare) \in Nat /\ Cardinality(Spare') \in Nat
      BY <1>0, Counting
    <3> QED
      BY <2>1, <2>6, <3>2, <3>3
  <2> QED
    BY <2>2, <2>5, <2>6
<1>7. CASE UNCHANGED <<thePage, client>>
  BY <1>7 DEF thePage, Spare, Live
<1>8. CASE UNCHANGED vars
  BY <1>7, <1>8 DEF vars
<1>9. ASSUME NEW s \in Sockets, Breaks(s) \/ Accepts(s) \/ Joins(s) \/ Leaves(s)
      PROVE  UNCHANGED <<thePage, client>>
  BY <1>9 DEF Breaks, Accepts, Joins, Leaves
<1>10. ASSUME NEW b \in Broadcasts,
              BroadcastBegins(b) \/ BroadcastEnds(b) \/ \E s \in Sockets : SendEnds(b, s)
       PROVE  UNCHANGED <<thePage, client>>
  BY <1>10 DEF BroadcastBegins, BroadcastEnds, SendEnds
<1> QED
  BY <1>1, <1>2, <1>3, <1>4, <1>5, <1>6, <1>7, <1>8, <1>9, <1>10 DEF Next

\* The page has one live socket, none when it has gone, and at most one more
\* for each further run of its effect, for any number of lost connections.
THEOREM SocketsAreBounded == Spec => []SocketsBounded
<1>1. Inv /\ SpareBounded => SocketsBounded
  <2> SUFFICES ASSUME Inv, SpareBounded PROVE SocketsBounded
    OBVIOUS
  <2>1. Live \in SUBSET Sockets /\ Spare \in SUBSET Sockets /\ reruns \in Nat
    BY DEF Live, Spare, SpareBounded
  <2>2. CASE page = "mounted"
    <3>1. CASE wsRef \in Live
      <4>1. wsRef \in Sockets /\ Live \in SUBSET (Spare \cup {wsRef})
            /\ Spare \cup {wsRef} \in SUBSET Sockets
        BY <2>1, <3>1 DEF Live, Spare
      <4>2. /\ Cardinality(Live) <= Cardinality(Spare \cup {wsRef})
            /\ Cardinality(Spare \cup {wsRef}) <= Cardinality(Spare) + 1
            /\ Cardinality(Live) \in Nat /\ Cardinality(Spare \cup {wsRef}) \in Nat
            /\ Cardinality(Spare) \in Nat
        BY <2>1, <4>1, Counting
      <4>3. Cardinality(Spare) <= reruns
        BY <2>2 DEF SpareBounded
      <4>4. Cardinality(Live) <= reruns + 1
        BY <2>1, <4>2, <4>3
      <4> QED
        BY <2>2, <4>4 DEF SocketsBounded
    <3>2. CASE wsRef \notin Live
      <4>1. Live \in SUBSET Spare
        BY <3>2 DEF Live, Spare
      <4>2. /\ Cardinality(Live) <= Cardinality(Spare)
            /\ Cardinality(Live) \in Nat /\ Cardinality(Spare) \in Nat
        BY <2>1, <4>1, Counting
      <4>3. Cardinality(Spare) <= reruns
        BY <2>2 DEF SpareBounded
      <4>4. Cardinality(Live) <= reruns + 1
        BY <2>1, <4>2, <4>3
      <4> QED
        BY <2>2, <4>4 DEF SocketsBounded
    <3> QED
      BY <3>1, <3>2
  <2>3. CASE page # "mounted"
    <3>1. Cardinality(Live) <= reruns /\ Cardinality(Live) \in Nat
      BY <2>1, <2>3, Counting, FS_EmptySet DEF SpareBounded
    <3> QED
      BY <2>1, <2>3, <3>1 DEF SocketsBounded
  <2> QED
    BY <2>2, <2>3
<1>2. Init => SpareBounded
  BY SpareInit
<1>3. Inv /\ SpareBounded /\ [Next]_vars => SpareBounded'
  BY SpareNext
<1> QED
  BY <1>1, <1>2, <1>3, InvHolds, PTL DEF Spec

=============================================================================
