------------------------------ MODULE LiveEvents ------------------------------
(***************************************************************************)
(* The live connection between a page of the dashboard                     *)
(* (dashboard/src/hooks/useWebSocket.ts) and the API                       *)
(* (api/services/ws_manager.py, the end of api/routers/dashboard.py).      *)
(*                                                                         *)
(* The page keeps one reference to its socket and one to the timer that    *)
(* will reconnect; events of a socket come later than the call that caused *)
(* them.  The API keeps the set of its sockets, to a copy of which a       *)
(* broadcast sends while sockets come and go.  The asyncio.Lock of the set *)
(* is held across no await, so what is done under it is one step.          *)
(*                                                                         *)
(* pingRef, the interval that sends a ping on the open socket, is left     *)
(* out: no guard reads it.  It has one value too, so the late close of a   *)
(* former socket (useWebSocket.ts:75) stops the pings of its successor,    *)
(* until that one is closed and replaced.                                  *)
(*                                                                         *)
(* An effect of a mounted component may run again: React does so in        *)
(* development (strict mode, fast refresh).  The only caller of the hook   *)
(* renders it for authenticated users only, so that "enabled" is TRUE.     *)
(***************************************************************************)
EXTENDS Naturals, FiniteSets

CONSTANTS
  Broadcasts,  \* calls of broadcast that may overlap
  MaxFaults,   \* bound on the connections that are lost or refused
  MaxReruns,   \* bound on the times the effect runs again
  MaxSockets   \* bound on the sockets of the page

\* One socket when the page is mounted and one whenever the effect runs; every
\* socket that is lost or closed, the last one excepted, is replaced by one.
ASSUME LiveAssumption ==
  /\ MaxFaults \in Nat
  /\ MaxReruns \in Nat
  /\ MaxSockets \in Nat
  /\ MaxSockets >= 1 + MaxFaults + 2 * MaxReruns

Sockets == 1 .. MaxSockets

VARIABLES
  page,         \* "new", "mounted" or "gone"
  reruns,       \* how often the effect has run again
  made,         \* the number of sockets made
  client,       \* client[s]: readyState, "closed" once onclose has run
  wsRef,        \* the socket that wsRef names, or 0
  timers,       \* the timers that are pending
  named,        \* whether reconnectRef names one of them
  broken,       \* the sockets whose connection is lost
  handler,      \* handler[s]: where ws_dashboard stands
  connections,  \* ConnectionManager._connections
  copy,         \* copy[b]: the sockets that broadcast b sends to
  waiting,      \* waiting[b]: those it has no result of
  dead          \* dead[b]: those that have raised

thePage == <<page, reruns, made, wsRef, timers, named>>
theServer == <<handler, connections>>
sends == <<copy, waiting, dead>>
vars == <<thePage, client, broken, theServer, sends>>

Live == {s \in Sockets : client[s] \in {"connecting", "open"}}

\* Whoever uses the connection is told, sooner or later, that it is over.
Down(s) == s \in broken \/ client[s] \in {"closing", "closed"} \/ handler[s] = "gone"

Init ==
  /\ page = "new"
  /\ reruns = 0
  /\ made = 0
  /\ client = [s \in Sockets |-> "none"]
  /\ wsRef = 0
  /\ timers = 0
  /\ named = FALSE
  /\ broken = {}
  /\ handler = [s \in Sockets |-> "none"]
  /\ connections = {}
  /\ copy = [b \in Broadcasts |-> {}]
  /\ waiting = [b \in Broadcasts |-> {}]
  /\ dead = [b \in Broadcasts |-> {}]

-----------------------------------------------------------------------------
(* The page                                                                *)

\* connect, with the sockets standing as in "states".  The address is fixed
\* when the page is built, so that the constructor does not throw.
Connect(states) ==
  IF wsRef # 0 /\ states[wsRef] \in {"connecting", "open"}
  THEN client' = states /\ UNCHANGED <<made, wsRef>>
  ELSE /\ made < MaxSockets
       /\ made' = made + 1
       /\ wsRef' = made + 1
       /\ client' = [states EXCEPT ![made + 1] = "connecting"]

Mount ==
  /\ page = "new"
  /\ page' = "mounted"
  /\ Connect(client)
  /\ UNCHANGED <<reruns, timers, named, broken, theServer, sends>>

\* Mutant: the socket is left to itself.
NotClosed == client

\* wsRef.current?.close(), which has no effect on a socket that is closing.
Closed ==
  [s \in Sockets |-> IF s = wsRef /\ s \in Live THEN "closing" ELSE client[s]]

\* clearTimeout(reconnectRef.current)
ClearTimer ==
  /\ timers' = IF named THEN timers - 1 ELSE timers
  /\ named' = FALSE

\* The effect runs again: its cleanup, and then its body.
EffectRunsAgain ==
  /\ page = "mounted"
  /\ reruns < MaxReruns
  /\ reruns' = reruns + 1
  /\ ClearTimer
  /\ Connect(Closed)
  /\ UNCHANGED <<page, broken, theServer, sends>>

Unmount ==
  /\ page = "mounted"
  /\ page' = "gone"
  /\ ClearTimer
  /\ client' = Closed
  /\ UNCHANGED <<reruns, made, wsRef, broken, theServer, sends>>

\* A timer fires, whether or not it is still named.
TimerFires ==
  /\ timers > 0
  /\ timers' = timers - 1
  /\ \/ named' = FALSE
     \/ timers > 1 /\ UNCHANGED named
  /\ IF page = "mounted" THEN Connect(client) ELSE UNCHANGED <<made, wsRef, client>>
  /\ UNCHANGED <<page, reruns, broken, theServer, sends>>

OnOpen(s) ==
  /\ client[s] = "connecting"
  /\ handler[s] # "none"
  /\ s \notin broken
  /\ client' = [client EXCEPT ![s] = "open"]
  /\ UNCHANGED <<thePage, broken, theServer, sends>>

\* Mutant: only what was once connected is connected again.
OnCloseIfOpened(s) ==
  /\ client[s] = "closing" \/ (s \in Live /\ s \in broken)
  /\ client' = [client EXCEPT ![s] = "closed"]
  /\ IF page = "mounted" /\ client[s] # "connecting"
     THEN wsRef' = 0 /\ timers' = timers + 1 /\ named' = TRUE
     ELSE UNCHANGED <<wsRef, timers, named>>
  /\ UNCHANGED <<page, reruns, made, broken, theServer, sends>>

\* onclose, after onerror or not: the reference is cleared, whichever socket it
\* names, and a timer is set.
OnClose(s) ==
  /\ client[s] = "closing" \/ (s \in Live /\ s \in broken)
  /\ client' = [client EXCEPT ![s] = "closed"]
  /\ IF page = "mounted"
     THEN wsRef' = 0 /\ timers' = timers + 1 /\ named' = TRUE
     ELSE UNCHANGED <<wsRef, timers, named>>
  /\ UNCHANGED <<page, reruns, made, broken, theServer, sends>>

\* The connection is lost, or refused.
Breaks(s) ==
  /\ s \in Live \ broken
  /\ Cardinality(broken) < MaxFaults
  /\ broken' = broken \cup {s}
  /\ UNCHANGED <<thePage, client, theServer, sends>>

-----------------------------------------------------------------------------
(* The API                                                                 *)

\* connect: the request is accepted.
Accepts(s) ==
  /\ client[s] = "connecting"
  /\ s \notin broken
  /\ handler[s] = "none"
  /\ handler' = [handler EXCEPT ![s] = "accepted"]
  /\ UNCHANGED <<thePage, client, broken, connections, sends>>

\* connect: the socket is added, although it may have been closed since.
Joins(s) ==
  /\ handler[s] = "accepted"
  /\ handler' = [handler EXCEPT ![s] = "serving"]
  /\ connections' = connections \cup {s}
  /\ UNCHANGED <<thePage, client, broken, sends>>

\* receive_text, or the keepalive that is sent after 30 s, raises: disconnect.
Leaves(s) ==
  /\ handler[s] = "serving"
  /\ Down(s)
  /\ handler' = [handler EXCEPT ![s] = "gone"]
  /\ connections' = connections \ {s}
  /\ UNCHANGED <<thePage, client, broken, sends>>

\* broadcast copies the set.
BroadcastBegins(b) ==
  /\ copy[b] = {}
  /\ connections # {}
  /\ copy' = [copy EXCEPT ![b] = connections]
  /\ waiting' = [waiting EXCEPT ![b] = connections]
  /\ UNCHANGED <<thePage, client, broken, theServer, dead>>

\* One send ends.  It raises only when the connection is over, and may be told
\* so late.
SendEnds(b, s) ==
  /\ s \in waiting[b]
  /\ waiting' = [waiting EXCEPT ![b] = @ \ {s}]
  /\ \/ UNCHANGED dead
     \/ Down(s) /\ dead' = [dead EXCEPT ![b] = @ \cup {s}]
  /\ UNCHANGED <<thePage, client, broken, theServer, copy>>

\* Mutant: the set becomes what is left of the copy.
BroadcastOverwrites(b) ==
  /\ copy[b] # {} /\ waiting[b] = {}
  /\ connections' = copy[b] \ dead[b]
  /\ copy' = [copy EXCEPT ![b] = {}]
  /\ dead' = [dead EXCEPT ![b] = {}]
  /\ UNCHANGED <<thePage, client, broken, handler, waiting>>

\* All sends have ended: those that raised are removed.
BroadcastEnds(b) ==
  /\ copy[b] # {} /\ waiting[b] = {}
  /\ connections' = connections \ dead[b]
  /\ copy' = [copy EXCEPT ![b] = {}]
  /\ dead' = [dead EXCEPT ![b] = {}]
  /\ UNCHANGED <<thePage, client, broken, handler, waiting>>

Next ==
  \/ Mount \/ EffectRunsAgain \/ Unmount \/ TimerFires
  \/ \E s \in Sockets :
       OnOpen(s) \/ OnClose(s) \/ Breaks(s) \/ Accepts(s) \/ Joins(s) \/ Leaves(s)
  \/ \E b \in Broadcasts :
       BroadcastBegins(b) \/ BroadcastEnds(b) \/ \E s \in Sockets : SendEnds(b, s)

Spec == Init /\ [][Next]_vars

\* The event loops of the browser and of the API run what is ready.
FairSpec ==
  /\ Spec
  /\ WF_vars(TimerFires)
  /\ \A s \in Sockets :
       WF_vars(OnOpen(s)) /\ WF_vars(OnClose(s)) /\ WF_vars(Accepts(s)) /\ WF_vars(Joins(s))

-----------------------------------------------------------------------------
(* Properties                                                              *)

\* However joins and departures fall into a broadcast, the set holds no socket
\* that nobody serves any more, so that no one sends to it for ever, and it
\* misses none whose connection is up (ws_manager.py:57-71).
SetIsExact ==
  /\ connections \subseteq {s \in Sockets : handler[s] = "serving"}
  /\ \A s \in Sockets : handler[s] = "serving" /\ ~Down(s) => s \in connections

\* A page has one socket, and none when it has gone, but for one that each
\* further run of the effect may leave behind: the close of the former socket
\* arrives late, clears the reference to the new one and sets a timer that
\* makes another (useWebSocket.ts:73-79).
SocketsBounded ==
  Cardinality(Live) <= reruns + (IF page = "mounted" THEN 1 ELSE 0)

\* A mounted page gets a connection that the API knows, again and again,
\* although timers are cleared, lost and set while sockets are replaced.
Reconnects ==
  page = "mounted" ~>
    page = "gone" \/ \E s \in connections \ broken : client[s] = "open"

=============================================================================
