------------------------------ MODULE Presence ------------------------------
(***************************************************************************)
(* The agents' loop in time, over Registry: what the control plane shows   *)
(* of a host whose agent runs.  The agent ticks when its ticker fires: it  *)
(* sends a heartbeat, asks for jobs and executes them one after the other; *)
(* nothing is sent while it is busy (runAgent and tick in                  *)
(* src/cmd/cplane-agent/main.go).                                          *)
(***************************************************************************)
EXTENDS Registry

CONSTANTS
  Poll,    \* PollInterval
  MaxLost, \* heartbeats in a row that may fail
  Quick    \* a request that takes no longer is prompt

\* 15 s against 60 s admit prompt requests of up to 7 s with two heartbeats
\* lost; a request may take MaxWait, twice the interval.
ASSUME PresenceAssumption ==
  /\ Poll \in Nat \ {0} /\ MaxLost \in Nat /\ Quick \in Nat
  /\ Quick <= MaxWait /\ 2 * Quick <= Poll
  /\ (MaxLost + 1) * Poll + 2 * Quick <= StaleAfter

VARIABLES
  agent, \* agent[h]: the goroutine of the agent of h
  steady \* (history) hosts whose idle agent was heard of and kept to time since

pvars == <<vars, agent, steady>>

Off == [mode |-> "off"]
NoSlot == "none"

\* A heartbeat is "sent", taken up by the server ("beat") and written
\* ("told"), then jobs are asked for ("poll").  due: when the ticker fires
\* next; since: when the request under way was sent; slot: the heartbeat at
\* the server; lost: heartbeats in a row that failed.
Agent == {Off} \cup
  [mode : {"rest", "sent", "beat", "told", "poll", "busy"}, due : Nat, since : Nat,
   slot : Requests \cup {NoSlot}, lost : 0 .. MaxLost]

PTypeOK ==
  /\ TypeOK
  /\ agent \in [Hosts -> Agent]
  /\ steady \subseteq Hosts

PInit ==
  /\ Init
  /\ agent = [h \in Hosts |-> Off]
  /\ steady = {}

Mode(h) == agent[h].mode
Running(h) == Mode(h) # "off"
Asking(h) == Mode(h) \in {"sent", "beat", "told", "poll"}

Become(h, a) == agent' = [agent EXCEPT ![h] = a]
Goes(h, mode) == [agent[h] EXCEPT !.mode = mode, !.since = 0, !.slot = NoSlot]
Sends(h, due) == [agent[h] EXCEPT !.mode = "sent", !.since = now, !.due = due]

-----------------------------------------------------------------------------
(* The agent.                                                              *)

\* runAgent: the first tick does not wait for the ticker.
Start(h) ==
  /\ Mode(h) = "off" /\ hosts[h].status # "unused"
  /\ Become(h, [mode |-> "sent", due |-> now + Poll, since |-> now, slot |-> NoSlot,
                lost |-> 0])
  /\ UNCHANGED <<vars, steady>>

\* The ticker keeps its schedule and drops what the agent was late for.
Following(due) == CHOOSE t \in now + 1 .. now + Poll : \E k \in 1 .. now + 1 : t = due + k * Poll

\* Mutant: the agent asks for jobs first and returns when that fails.
PollFirst(h) ==
  /\ Mode(h) = "rest" /\ now >= agent[h].due
  /\ Become(h, [Goes(h, "rest") EXCEPT !.due = Following(agent[h].due)])
  /\ UNCHANGED <<vars, steady>>

\* Whatever an earlier tick ended with, this one begins with a heartbeat.
Fire(h) ==
  /\ Mode(h) = "rest" /\ now >= agent[h].due
  /\ Become(h, Sends(h, Following(agent[h].due)))
  /\ UNCHANGED <<vars, steady>>

Arrive(h) ==
  /\ Mode(h) = "sent"
  /\ \E r \in Requests :
       BeginHeartbeat(r, h) /\ Become(h, [agent[h] EXCEPT !.mode = "beat", !.slot = r])
  /\ UNCHANGED steady

Prompt(h) == now <= agent[h].since + Quick

Written(h) ==
  /\ Mode(h) = "beat" /\ Heartbeat(agent[h].slot)
  /\ Become(h, [agent[h] EXCEPT !.mode = "told", !.slot = NoSlot])
  /\ steady' = IF Registered(h) /\ Prompt(h) THEN steady \cup {h} ELSE steady

Answered(h) ==
  /\ Mode(h) = "told"
  /\ Become(h, [agent[h] EXCEPT !.mode = "poll", !.since = now, !.lost = 0])
  /\ UNCHANGED <<vars, steady>>

\* An error or the timeout ends the tick; what the server has of the
\* heartbeat may still be written.
BeatFails(h) ==
  /\ Mode(h) \in {"sent", "beat", "told"}
  /\ \/ /\ agent[h].lost < MaxLost
        /\ Become(h, [Goes(h, "rest") EXCEPT !.lost = @ + 1])
        /\ UNCHANGED steady
     \/ /\ agent[h].lost = MaxLost
        /\ Become(h, Goes(h, "rest"))
        /\ steady' = steady \ {h}
  /\ UNCHANGED vars

\* Nothing to do, an error, or a job, which has an app of the host.
Polled(h) ==
  /\ Mode(h) = "poll"
  /\ \/ Become(h, Goes(h, "rest")) /\ UNCHANGED steady
     \/ /\ \E row \in apps : row.host = h
        /\ Become(h, Goes(h, "busy"))
        /\ steady' = steady \ {h}
  /\ UNCHANGED vars

Finish(h) ==
  /\ Mode(h) = "busy"
  /\ Become(h, Goes(h, "rest"))
  /\ UNCHANGED <<vars, steady>>

\* A signal or a death.
Stop(h) ==
  /\ Running(h) /\ Become(h, Off)
  /\ steady' = steady \ {h}
  /\ UNCHANGED vars

AgentStep(h) ==
  \/ Start(h) \/ Fire(h) \/ Arrive(h) \/ Written(h) \/ Answered(h)
  \/ BeatFails(h) \/ Polled(h) \/ Finish(h) \/ Stop(h)

-----------------------------------------------------------------------------
(* Everybody else, and time.                                               *)

Owned(r) == \E h \in Hosts : Mode(h) = "beat" /\ agent[h].slot = r

\* Somebody else wrote a time of h that is older than a prompt request.
Backdated(h) == hosts'[h].seen # hosts[h].seen /\ hosts'[h].seen + Quick < now

\* Users, installers, agents started by hand, heartbeats nobody waits for.
Others(r) ==
  /\ ~Owned(r)
  /\ Begin(r) \/ Statement(r) \/ Leave(r)
  /\ steady' = {h \in steady : ~Backdated(h)}

\* A ticker that fired is not heeded, or a request takes longer than Quick.
Overdue(h) ==
  \/ Mode(h) = "rest" /\ now >= agent[h].due
  \/ Asking(h) /\ now >= agent[h].since + Quick

\* The agent's HTTP client gives a request up after MaxWait.
PTick ==
  /\ Tick
  /\ \A h \in Hosts : Asking(h) => now < agent[h].since + MaxWait
  /\ steady' = {h \in steady : ~Overdue(h)}

PNext ==
  \/ \E h \in Hosts : AgentStep(h)
  \/ Create /\ UNCHANGED <<agent, steady>>
  \/ (PTick \/ \E r \in Requests : Others(r)) /\ UNCHANGED agent

PSpec == PInit /\ [][PNext]_pvars

-----------------------------------------------------------------------------
(* Properties.                                                             *)

\* While the agent of a host is idle and keeps to time, the host is online:
\* no listing shows it offline and no deletion takes it away, with up to
\* MaxLost heartbeats in a row lost and requests for jobs that fail at every
\* tick.  To time means that, since a heartbeat was written, the ticker was
\* heeded, no request took longer than Quick, and nobody else wrote a time
\* older than that.  Without it the code's 30 s for a request let an idle host
\* go offline: a request for jobs that times out costs two intervals, and with
\* the heartbeat after it lost 60 s are over.
IdleIsOnline == \A h \in steady : Online(h)

\* A busy host may be taken for offline, but not deleted under its agent.
BusyIsKept == \A h \in Hosts : Mode(h) = "busy" => Registered(h)

=============================================================================
