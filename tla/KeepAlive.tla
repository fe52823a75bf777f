----------------------------- MODULE KeepAlive -----------------------------
(***************************************************************************)
(* The timers of a connection: the client's loop sends PINGREQ on every    *)
(* tick of an interval that starts when CONNACK has been read, the         *)
(* server's loop gives up when no packet has arrived for read_timeout.     *)
(* The timer of the server runs only while it reads, not while it serves   *)
(* a packet.                                                               *)
(*                                                                         *)
(* Time is discrete.  It cannot pass a moment at which something is due:   *)
(* a tick, a packet that has been under way for MaxLag, a packet that can  *)
(* be read, a read that times out.  What delays a packet, on the client,   *)
(* on the wire or while it is transferred, is its lag.  Other packets of   *)
(* the client would only end a silence sooner and are left out.            *)
(***************************************************************************)
EXTENDS Integers, FiniteSetsExt

CONSTANTS
  KeepAlives,  \* keep_alive values of CONNECT, in seconds
  Second,      \* moments in a second
  MaxLag,      \* moments a packet may be under way
  MaxServe     \* moments the server may take to serve a packet

ASSUME KeepAliveAssumption ==
  KeepAlives \subseteq Nat /\ Second \in Nat \ {0} /\ MaxLag \in Nat /\ MaxServe \in Nat

VARIABLES
  keep_alive,
  client,   \* "waiting" for CONNACK, "running", or "vanished" without a word
  lag,      \* how long CONNACK has been under way
  due,      \* moments until the next tick of ping_timer
  flight,   \* for each PINGREQ under way, how long it has been
  ready,    \* packets that have arrived and have not been read
  server,   \* "reading", "serving" or "gone"
  silent,   \* how long the current read has waited
  busy      \* how long serving will take yet

vars == <<keep_alive, client, lag, due, flight, ready, server, silent, busy>>

-----------------------------------------------------------------------------
(* Durations.                                                              *)

secs == IF keep_alive = 0 THEN 1 ELSE keep_alive

ping_interval == secs * Second

\* Mutant: no grace.
read_timeout_exact == secs * Second

read_timeout == ((secs * 3) \div 2) * Second

-----------------------------------------------------------------------------
(* Client.                                                                 *)

Init ==
  /\ keep_alive \in KeepAlives
  /\ client = "waiting" /\ lag = 0 /\ due = 0 /\ flight = {}
  /\ ready = 0 /\ server = "reading" /\ silent = 0 /\ busy = 0

\* handle_client reads CONNACK and starts the interval.
Connacked ==
  /\ client = "waiting"
  /\ client' = "running" /\ due' = ping_interval
  /\ UNCHANGED <<keep_alive, lag, flight, ready, server, silent, busy>>

\* ping_timer.tick().  The interval keeps its schedule when a tick is late.
PingTick ==
  /\ client = "running" /\ due = 0
  /\ due' = ping_interval /\ flight' = flight \cup {0}
  /\ UNCHANGED <<keep_alive, client, lag, ready, server, silent, busy>>

\* The client's host disappears; what is under way arrives or does not.
Vanishes ==
  /\ client # "vanished"
  /\ client' = "vanished" /\ flight' \in SUBSET flight
  /\ UNCHANGED <<keep_alive, lag, due, ready, server, silent, busy>>

\* The oldest packet under way arrives.
Arrives ==
  /\ flight # {} /\ server # "gone"
  /\ flight' = flight \ {Max(flight)} /\ ready' = ready + 1
  /\ UNCHANGED <<keep_alive, client, lag, due, server, silent, busy>>

-----------------------------------------------------------------------------
(* Server.                                                                 *)

\* read_packet returns and the packet is dispatched.
Reads ==
  /\ server = "reading" /\ ready > 0
  /\ ready' = ready - 1 /\ server' = "serving" /\ busy' \in 0..MaxServe
  /\ UNCHANGED <<keep_alive, client, lag, due, flight, silent>>

\* The next turn of the loop arms the timeout anew.
ReadsAgain ==
  /\ server = "serving" /\ busy = 0
  /\ server' = "reading" /\ silent' = 0
  /\ UNCHANGED <<keep_alive, client, lag, due, flight, ready, busy>>

\* timeout(read_timeout, ..) looks at the read first, then at the timer.
TimesOut ==
  /\ server = "reading" /\ ready = 0 /\ silent = read_timeout
  /\ server' = "gone"
  /\ UNCHANGED <<keep_alive, client, lag, due, flight, ready, silent, busy>>

-----------------------------------------------------------------------------
(* Time.                                                                   *)

\* Nothing has to happen before time passes.
Idle ==
  /\ client = "waiting" => lag < MaxLag
  /\ client = "running" => due > 0
  /\ MaxLag \notin flight
  /\ server = "reading" => ready = 0 /\ silent < read_timeout
  /\ server = "serving" => busy > 0

\* Mutant: the loop turns now and then and arms the timeout anew.
ElapseRearms ==
  /\ server # "gone" /\ Idle
  /\ lag' = IF client = "waiting" THEN lag + 1 ELSE lag
  /\ due' = IF client = "running" THEN due - 1 ELSE due
  /\ flight' = {a + 1 : a \in flight}
  /\ silent' = 0
  /\ busy' = IF server = "serving" THEN busy - 1 ELSE busy
  /\ UNCHANGED <<keep_alive, client, ready, server>>

Elapse ==
  /\ server # "gone" /\ Idle
  /\ lag' = IF client = "waiting" THEN lag + 1 ELSE lag
  /\ due' = IF client = "running" THEN due - 1 ELSE due
  /\ flight' = {a + 1 : a \in flight}
  /\ silent' = IF server = "reading" THEN silent + 1 ELSE silent
  /\ busy' = IF server = "serving" THEN busy - 1 ELSE busy
  /\ UNCHANGED <<keep_alive, client, ready, server>>

Ended == server = "gone" /\ UNCHANGED vars

Steps == Connacked \/ PingTick \/ Arrives \/ Reads \/ ReadsAgain \/ TimesOut \/ Elapse

Next == Steps \/ Vanishes \/ Ended

Spec == Init /\ [][Next]_vars

\* Time passes, and what is due happens.
FairSpec == Spec /\ WF_vars(Steps)

-----------------------------------------------------------------------------
(* Properties.                                                             *)

TypeOK ==
  /\ keep_alive \in KeepAlives
  /\ client \in {"waiting", "running", "vanished"} /\ server \in {"reading", "serving", "gone"}
  /\ lag \in 0..MaxLag /\ due \in Nat /\ flight \in SUBSET (0..MaxLag)
  /\ ready \in Nat /\ silent \in Nat /\ busy \in 0..MaxServe

\* Half of the keep-alive time, in whole seconds, covers the lag of CONNACK and
\* of a PINGREQ.
Covered == 2 * MaxLag < (secs \div 2) * Second

\* "Main select loop with keep-alive timeout (1.5x grace per spec)": where that
\* grace covers the lag twice, once for the CONNACK that starts the client's
\* interval and once for the PINGREQ, the server never gives up on a client that
\* is there, however long it takes to serve each packet.
PunctualStays == Covered /\ client # "vanished" => server # "gone"

\* A client that is gone without closing the connection is noticed: the server's
\* loop ends, and unregister_session publishes its Will.
VanishedNoticed == client = "vanished" ~> server = "gone"

-----------------------------------------------------------------------------
(* Why PunctualStays holds: how long a read has waited follows from where  *)
(* the client is in its interval.                                          *)

SilenceBound ==
  /\ client = "waiting" =>
       /\ flight = {} /\ ready = 0 /\ server = "reading" /\ silent = lag
  /\ client = "running" =>
       /\ due <= ping_interval
       /\ \A a \in flight : due + a = ping_interval
       /\ server = "reading" /\ ready = 0 =>
            /\ flight = {} => silent + due <= ping_interval + MaxLag
            /\ \A a \in flight : silent <= ping_interval + MaxLag + a

\* The inductive invariant behind PunctualStays: a server has given up only on
\* a client that vanished, and SilenceBound while neither has happened.
PunctualInv ==
  TypeOK /\ (Covered /\ client # "vanished" => server # "gone" /\ SilenceBound)
=============================================================================
