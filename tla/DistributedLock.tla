--------------------------- MODULE DistributedLock ---------------------------
(***************************************************************************)
(* shared/queue/redis_client.py, class DistributedLock: a Redis key set    *)
(* with NX and an expiry, deleted by a script that compares the token.     *)
(*                                                                         *)
(* Each acquire draws a fresh token, so a client's name stands for the     *)
(* token of its current attempt, and Orphan for a token that nobody will   *)
(* release any more: its owner crashed, or never heard that the SET was    *)
(* applied.  Nothing renews the expiry, and the holder is not told of it.  *)
(***************************************************************************)
EXTENDS Naturals

CONSTANTS
  Clients,
  TTL,          \* `timeout`: the expiry the key is set with
  Wait,         \* `wait`: how long acquire keeps trying
  Free, Orphan, \* values of the key that are not a client's token
  Laggards      \* clients that may stay inside for longer than TTL

ASSUME LockAssumption ==
  /\ TTL \in Nat \ {0}
  /\ Wait \in Nat
  /\ Free \notin Clients
  /\ Orphan \notin Clients
  /\ Free # Orphan
  /\ Laggards \subseteq Clients

VARIABLES
  key,     \* the token stored under the lock's name, or Free
  left,    \* time until Redis expires the key
  mode,    \* mode[c]: where c stands in `async with DistributedLock`
  waited   \* waited[c]: how long its acquire has been trying

lockVars == <<key, left, mode, waited>>

Modes == {"out", "trying", "refused", "inside"}

LockInit ==
  /\ key = Free
  /\ left = 0
  /\ mode = [c \in Clients |-> "out"]
  /\ waited = [c \in Clients |-> 0]

Goes(c, m) == mode' = [mode EXCEPT ![c] = m]

\* __aenter__: acquire draws its token and computes its deadline.
Enter(c) ==
  /\ mode[c] = "out"
  /\ Goes(c, "trying")
  /\ waited' = [waited EXCEPT ![c] = 0]
  /\ UNCHANGED <<key, left>>

\* Mutant: SET without NX.
TakeRegardless(c) ==
  /\ mode[c] = "trying"
  /\ waited[c] < Wait
  /\ key' = c
  /\ left' = TTL
  /\ Goes(c, "inside")
  /\ UNCHANGED waited

\* SET NX EX succeeds.  When it does not, acquire sleeps and tries again.
Take(c) ==
  /\ mode[c] = "trying"
  /\ waited[c] < Wait
  /\ key = Free
  /\ key' = c
  /\ left' = TTL
  /\ Goes(c, "inside")
  /\ UNCHANGED waited

\* The deadline has passed: acquire returns False.
GiveUp(c) ==
  /\ mode[c] = "trying"
  /\ waited[c] = Wait
  /\ Goes(c, "refused")
  /\ UNCHANGED <<key, left, waited>>

\* SET NX EX is applied, its reply is lost, and the connection sends it again
\* (retry_on_timeout): now the answer is None, and acquire keeps trying against
\* its own key.
TakeUnheard(c) ==
  /\ mode[c] = "trying"
  /\ waited[c] < Wait
  /\ key = Free
  /\ key' = c
  /\ left' = TTL
  /\ UNCHANGED <<mode, waited>>

\* SET raises.  Redis may have applied it all the same, and then the key stays
\* until it expires: without __aenter__ there is no __aexit__.
TakeRaises(c) ==
  /\ mode[c] = "trying"
  /\ waited[c] < Wait
  /\ \/ key' = (IF key = c THEN Orphan ELSE key) /\ UNCHANGED left
     \/ key = Free /\ key' = Orphan /\ left' = TTL
  /\ Goes(c, "out")
  /\ UNCHANGED waited

\* Mutant: the expiry of the deleted key runs on.
ReleaseKeepingExpiry(c) ==
  /\ mode[c] \in {"inside", "refused"}
  /\ key' = IF key = c THEN Free ELSE key
  /\ Goes(c, "out")
  /\ UNCHANGED <<left, waited>>

\* __aexit__, also after a refusal: delete the key if it holds our token.
Release(c) ==
  /\ mode[c] \in {"inside", "refused"}
  /\ IF key = c THEN key' = Free /\ left' = 0 ELSE UNCHANGED <<key, left>>
  /\ Goes(c, "out")
  /\ UNCHANGED waited

\* What is left behind by a client that will never release.
Abandon(c) ==
  /\ Goes(c, "out")
  /\ key' = IF key = c THEN Orphan ELSE key
  /\ UNCHANGED <<left, waited>>

\* The script raises RedisError, which is suppressed.
ReleaseFails(c) ==
  /\ mode[c] \in {"inside", "refused"}
  /\ Abandon(c)

Crash(c) ==
  /\ mode[c] # "out"
  /\ Abandon(c)

WaitersWait ==
  waited' = [c \in Clients |-> IF mode[c] = "trying" /\ waited[c] < Wait
                                THEN waited[c] + 1 ELSE waited[c]]

\* Mutant: SET without EX.
OnlyWaiting ==
  /\ UNCHANGED <<key, left, mode>>
  /\ WaitersWait

\* A unit of time.  A client that is no laggard leaves before its key expires.
Pass ==
  /\ left = 1 => key \notin {c \in Clients \ Laggards : mode[c] = "inside"}
  /\ left' = IF left > 0 THEN left - 1 ELSE 0
  /\ key' = IF left <= 1 THEN Free ELSE key
  /\ WaitersWait
  /\ UNCHANGED mode

LockNext ==
  \/ \E c \in Clients : \/ Enter(c) \/ Take(c) \/ TakeUnheard(c) \/ GiveUp(c)
                        \/ TakeRaises(c) \/ Release(c) \/ ReleaseFails(c) \/ Crash(c)
  \/ Pass

LockSpec == LockInit /\ [][LockNext]_lockVars

\* Time passes, a client that is inside leaves, and acquire gives up when told.
LockFairness ==
  /\ WF_lockVars(Pass)
  /\ \A c \in Clients : WF_lockVars(Release(c)) /\ WF_lockVars(GiveUp(c))

FairLockSpec == LockSpec /\ LockFairness

-----------------------------------------------------------------------------
(* Properties.                                                             *)

\* The types of the variables, and what ties the key to its expiry: there is
\* a key exactly while there is time left.
LockTypeOK ==
  /\ key \in Clients \cup {Free, Orphan}
  /\ left \in 0..TTL
  /\ mode \in [Clients -> Modes]
  /\ waited \in [Clients -> 0..Wait]
  /\ key = Free <=> left = 0

\* Whoever is inside and leaves in time owns the key all along, whatever the
\* others do: crash, give up, lose replies or outstay their expiry.
InsideOwnsKey ==
  \A c \in Clients \ Laggards : mode[c] = "inside" => key = c

\* DistributedLock is a lock: of the clients that leave in time, no two are
\* inside together.
MutualExclusion ==
  \A c, d \in Clients \ Laggards :
    mode[c] = "inside" /\ mode[d] = "inside" => c = d

\* The check-and-delete script: the key of a client that stays inside is taken
\* from it by its expiry only, never by the release of one that came too late.
OthersKeySpared ==
  [][\A c \in Clients :
       mode[c] = "inside" /\ key = c /\ mode'[c] = "inside" /\ left > 1
         => key' = c]_lockVars

\* The expiry of SET EX: whatever became of the owner, the lock comes free.
LockComesFree == key # Free ~> key = Free

=============================================================================
