-------------------------- MODULE MqttBrokerFanout --------------------------
(***************************************************************************)
(* What one call of Broker::publish promises although neither the scan of  *)
(* the subscription tree nor the deliveries are atomic.  Two history       *)
(* variables follow each fan-out in progress: the subscriptions that were  *)
(* there when it began and have not been disturbed since, and all that     *)
(* have been there at some moment since it began.                          *)
(***************************************************************************)
EXTENDS MqttBroker

VARIABLES
  owed,      \* owed[c]: present from the start of c's fan-out until now
  eligible   \* eligible[c]: clients with one at some moment since the start

fanoutVars == <<vars, owed, eligible>>

\* Subscriptions s = <<id, d, f>> of connected clients: d is id's channel.
Live == {s \in ClientIds \X Conns \X Filters :
           sessions[s[1]] # None /\ sessions[s[1]].conn = s[2] /\ subs[s[3]][s[1]] # None}

\* Those the message in c's hands is for.
Addressed(c) == {s \in Live : s[1] # Source(c) /\ msg[c].topic \in Matching[s[3]]}

\* Clients with a subscription in the tree that matches c's message.
Matched(c) == {id \in ClientIds \ {Source(c)} :
                 \E f \in Filters : subs[f][id] # None /\ msg[c].topic \in Matching[f]}

FanningOut(c) == pc[c] \in {"scan", "deliver"}
Starts(c) == ~FanningOut(c) /\ FanningOut(c)'
Ends(c) == FanningOut(c) /\ ~FanningOut(c)'

FanoutInit ==
  /\ Init
  /\ owed = [c \in Conns |-> {}]
  /\ eligible = [c \in Conns |-> {}]

FanoutNext ==
  /\ Next
  /\ owed' = [c \in Conns |-> IF Starts(c) THEN Addressed(c)'
                              ELSE IF FanningOut(c) THEN owed[c] \cap Live' ELSE {}]
  /\ eligible' = [c \in Conns |-> IF Starts(c) THEN Matched(c)'
                                  ELSE IF FanningOut(c)' THEN eligible[c] \cup Matched(c)'
                                  ELSE {}]

FanoutSpec == FanoutInit /\ [][FanoutNext]_fanoutVars

\* A subscription that is in place when a message's fan-out begins, and stays
\* in place on the same channel until it ends, is served: by the end the
\* message is in that channel's queue, whatever other clients connect,
\* disconnect, subscribe or publish meanwhile.
ReachesSubscribers ==
  [][\A c \in Conns : Ends(c) =>
       \A s \in owed[c] \cap Live' :
         writer[s[2]] = "running" =>
           \E i \in Published(s[2])' : out'[s[2]][i].payload = msg[c].payload]_fanoutVars

\* A client is sent a message only if it had a matching subscription at some
\* moment of the fan-out: once its UNSUBSCRIBE is done, no message whose
\* fan-out begins later reaches it.
OnlySubscribers ==
  [][\A c, d \in Conns :
       pc[c] = "deliver" /\ hits'[c] # hits[c] /\ out'[d] # out[d] =>
         \E id \in eligible[c] : sessions[id] # None /\ sessions[id].conn = d]_fanoutVars
=============================================================================
