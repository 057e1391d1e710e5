----------------------------- MODULE PoolClient -----------------------------
(***************************************************************************)
(* The life of a pool miner (pool/client.rs).  A start creates a thread    *)
(* that connects, reads what the pool sends, and connects again; each      *)
(* connection has its own workers.  start and stop share one running flag  *)
(* with all of them and wait for none, so that a start soon after a stop   *)
(* finds threads of the run before that have not looked at the flag since, *)
(* and takes them over.                                                    *)
(*                                                                         *)
(* Which job the workers have is the matter of PoolServer; its server      *)
(* sends a line to every connection at least every four seconds, or ends   *)
(* it.  Left out: hash rates and the counters that only count.             *)
(***************************************************************************)
EXTENDS Naturals, FiniteSets

CONSTANTS
  Threads,         \* connecting threads there may be at a time
  MAX_STARTS       \* bound of the model

ASSUME ClientAssumption == MAX_STARTS \in Nat

VARIABLES
  running, starts,
  connected,       \* what the statistics show
  at,              \* where each connecting thread is
  working,         \* the threads whose connection has workers
  revived          \* history: a start found a thread of an earlier run

client_vars == <<running, starts, connected, at, working, revived>>

goto(c, l) == at' = [at EXCEPT ![c] = l]

start ==
  /\ ~ running /\ starts < MAX_STARTS
  /\ \E c \in Threads : at[c] = "off" /\ goto(c, "head")
  /\ running' = TRUE
  /\ starts' = starts + 1
  /\ revived' = (revived \/ \E c \in Threads : at[c] # "off")
  /\ UNCHANGED <<connected, working>>

stop ==
  /\ running
  /\ running' = FALSE
  /\ connected' = FALSE
  /\ UNCHANGED <<starts, at, working, revived>>

-----------------------------------------------------------------------------
(* The connecting thread *)

\* The flag is looked at before each attempt.
LookAtFlag(c) ==
  /\ at[c] = "head"
  /\ goto(c, IF running THEN "dial" ELSE "off")
  /\ UNCHANGED <<running, starts, connected, working, revived>>

\* connect, subscribe and spawn_workers; a stop may have come meanwhile.
Connect(c) ==
  /\ at[c] = "dial"
  /\ goto(c, "read")
  /\ connected' = TRUE
  /\ working' = working \cup {c}
  /\ UNCHANGED <<running, starts, revived>>

ConnectFails(c) ==
  /\ at[c] = "dial"
  /\ goto(c, "over")
  /\ UNCHANGED <<running, starts, connected, working, revived>>

\* Mutant of ReadLine: the flag is left to the outer loop.
ReadOn(c) ==
  /\ at[c] = "read"
  /\ goto(c, "read")
  /\ UNCHANGED <<running, starts, connected, working, revived>>

\* A line has come: the flag is looked at, and only now.
ReadLine(c) ==
  /\ at[c] = "read"
  /\ goto(c, IF running THEN "read" ELSE "join")
  /\ UNCHANGED <<running, starts, connected, working, revived>>

EndOfStream(c) ==
  /\ at[c] = "read"
  /\ goto(c, "join")
  /\ UNCHANGED <<running, starts, connected, working, revived>>

\* The workers look at the flag and at conn_alive.
WorkersEnd(c) ==
  /\ c \in working
  /\ ~ running \/ at[c] = "join"
  /\ working' = working \ {c}
  /\ UNCHANGED <<running, starts, connected, at, revived>>

\* Mutant of Join: the workers are not waited for.
JoinNobody(c) ==
  /\ at[c] = "join"
  /\ goto(c, "over")
  /\ UNCHANGED <<running, starts, connected, working, revived>>

Join(c) ==
  /\ at[c] = "join" /\ c \notin working
  /\ goto(c, "over")
  /\ UNCHANGED <<running, starts, connected, working, revived>>

\* Mutant of Over: the statistics are left to stop.
OverQuietly(c) ==
  /\ at[c] = "over"
  /\ goto(c, IF running THEN "head" ELSE "off")
  /\ UNCHANGED <<running, starts, connected, working, revived>>

\* What follows a connection, and the five seconds before the next, which end
\* early when the flag falls.
Over(c) ==
  /\ at[c] = "over"
  /\ connected' = FALSE
  /\ goto(c, IF running THEN "head" ELSE "off")
  /\ UNCHANGED <<running, starts, working, revived>>

-----------------------------------------------------------------------------

ClientInit ==
  /\ running = FALSE /\ starts = 0 /\ connected = FALSE
  /\ at = [c \in Threads |-> "off"]
  /\ working = {}
  /\ revived = FALSE

ThreadStep(c) ==
  LookAtFlag(c) \/ Connect(c) \/ ConnectFails(c) \/ Join(c) \/ Over(c)

ClientNext ==
  \/ start \/ stop
  \/ \E c \in Threads :
       ThreadStep(c) \/ ReadLine(c) \/ EndOfStream(c) \/ WorkersEnd(c)

\* Threads run, and lines come to every connection.  Nothing is assumed of the
\* user, of whether the pool can be reached or of how long a connection lasts.
ClientFairness ==
  \A c \in Threads :
    /\ WF_client_vars(ThreadStep(c))
    /\ WF_client_vars(at[c] = "read" /\ ~ running /\ ReadLine(c))
    /\ WF_client_vars(WorkersEnd(c))

ClientSpec == ClientInit /\ [][ClientNext]_client_vars /\ ClientFairness

-----------------------------------------------------------------------------
(* Properties *)

\* The variables hold what their comments say; workers do not outlive the call
\* of run_connection that made them.
ClientTypeOK ==
  /\ running \in BOOLEAN /\ connected \in BOOLEAN /\ revived \in BOOLEAN
  /\ starts \in 0..MAX_STARTS
  /\ at \in [Threads -> {"off", "head", "dial", "read", "join", "over"}]
  /\ working \subseteq {c \in Threads : at[c] \in {"read", "join"}}

\* The statistics do not say connected when every connection is gone, whichever
\* thread wrote them last; and while workers mine they say so, unless a quick
\* start has left two threads writing them.
StatusIsTrue ==
  /\ connected => \E c \in Threads : at[c] \in {"read", "join", "over"}
  /\ running /\ ~ revived /\ (\E c \in working : at[c] = "read") => connected

\* After the last stop every connecting thread ends, the ones that quick starts
\* took over and the one that was connecting when the stop came included.
StopIsFinal ==
  (~ running /\ starts = MAX_STARTS) ~>
    ~ connected /\ \A c \in Threads : at[c] = "off"
=============================================================================
