-------------------------- MODULE KeepAliveProofs --------------------------
(***************************************************************************)
(* PunctualStays for every keep-alive value, lag and serving time.         *)
(***************************************************************************)
EXTENDS KeepAlive, TLAPS

\* The grace that handle_server adds to the client's interval is half of the
\* keep-alive time in whole seconds, and never more than the interval.
LEMMA Grace ==
  ASSUME keep_alive \in Nat
  PROVE  /\ ping_interval \in Nat \ {0} /\ read_timeout \in Nat
         /\ read_timeout = ping_interval + (secs \div 2) * Second
         /\ (secs \div 2) * Second <= ping_interval
PROOF
  <1> DEFINE half == secs \div 2
  <1>1. secs \in Nat \ {0} /\ Second \in Nat \ {0}
    BY KeepAliveAssumption DEF secs
  <1>2. half \in Nat /\ (secs * 3) \div 2 = secs + half /\ half <= secs
    BY <1>1
  <1> HIDE DEF half
  <1>3. (secs + half) * Second = secs * Second + half * Second
    BY <1>1, <1>2
  <1>4. secs * Second \in Nat \ {0} /\ half * Second \in Nat
    BY <1>1, <1>2
  <1>5. half * Second <= secs * Second
    BY <1>1, <1>2
  <1> QED
    BY <1>2, <1>3, <1>4, <1>5 DEF ping_interval, read_timeout, half

\* handle_server enters its loop with a fresh timer and no packet under way.
LEMMA PunctualInit == Init => PunctualInv
PROOF
  BY KeepAliveAssumption DEF Init, PunctualInv, TypeOK, SilenceBound

\* No step of the client, the server or the clock leaves the types.
LEMMA TypeStep == TypeOK /\ [Next]_vars => TypeOK'
PROOF
  <1> SUFFICES ASSUME TypeOK, [Next]_vars PROVE TypeOK'
    OBVIOUS
  <1>0. keep_alive \in Nat /\ ping_interval \in Nat /\ MaxLag \in Nat /\ MaxServe \in Nat
    BY Grace, KeepAliveAssumption DEF TypeOK
  <1>1. CASE Connacked
    BY <1>0, <1>1 DEF TypeOK, Connacked
  <1>2. CASE PingTick
    BY <1>0, <1>2 DEF TypeOK, PingTick
  <1>3. CASE Arrives
    <2>1. flight' \in SUBSET flight
      BY <1>3, Zenon DEF Arrives
    <2>2. ready' = ready + 1 /\ UNCHANGED <<keep_alive, client, lag, due, server, silent, busy>>
      BY <1>3, Zenon DEF Arrives
    <2> QED
      BY <1>0, <2>1, <2>2 DEF TypeOK
  <1>4. CASE Reads
    BY <1>0, <1>4 DEF TypeOK, Reads
  <1>5. CASE ReadsAgain
    BY <1>0, <1>5 DEF TypeOK, ReadsAgain
  <1>6. CASE TimesOut
    BY <1>0, <1>6 DEF TypeOK, TimesOut
  <1>7. CASE Elapse
    <2>1. flight' \in SUBSET (0..MaxLag)
      BY <1>0, <1>7 DEF TypeOK, Elapse, Idle
    <2>2. lag' \in 0..MaxLag /\ due' \in Nat /\ silent' \in Nat /\ busy' \in 0..MaxServe
      BY <1>0, <1>7 DEF TypeOK, Elapse, Idle
    <2> QED
      BY <1>7, <2>1, <2>2 DEF TypeOK, Elapse
  <1>8. CASE Vanishes
    BY <1>0, <1>8 DEF TypeOK, Vanishes
  <1>9. CASE UNCHANGED vars
    BY <1>9 DEF TypeOK, vars
  <1> QED
    BY <1>1, <1>2, <1>3, <1>4, <1>5, <1>6, <1>7, <1>8, <1>9 DEF Next, Steps, Ended

\* Each step keeps the bound on the silence that follows from the client's place
\* in its interval; so the timer never reaches read_timeout.
LEMMA SilenceStep ==
  ASSUME TypeOK, TypeOK', Covered, client # "vanished", server # "gone", SilenceBound,
         [Next]_vars, client' # "vanished"
  PROVE  server' # "gone" /\ SilenceBound'
PROOF
  <1>0. /\ ping_interval \in Nat \ {0} /\ read_timeout \in Nat /\ MaxLag \in Nat
        /\ ping_interval + 2 * MaxLag < read_timeout /\ MaxLag < ping_interval
    <2> DEFINE grace == (secs \div 2) * Second
    <2>1. /\ ping_interval \in Nat \ {0} /\ read_timeout \in Nat
          /\ read_timeout = ping_interval + grace /\ grace <= ping_interval
      BY Grace, KeepAliveAssumption DEF TypeOK
    <2>2. 2 * MaxLag < grace /\ MaxLag \in Nat
      BY KeepAliveAssumption DEF Covered
    <2>3. grace \in Int
      BY KeepAliveAssumption DEF TypeOK, secs
    <2> HIDE DEF grace
    <2> QED
      BY <2>1, <2>2, <2>3
  <1>p. keep_alive' = keep_alive => ping_interval' = ping_interval
    BY DEF ping_interval, secs
  <1>f. /\ lag \in 0..MaxLag /\ due \in Nat /\ silent \in Nat /\ ready \in Nat
        /\ \A a \in flight : a \in 0..MaxLag
        /\ client \in {"waiting", "running"}
    BY DEF TypeOK
  <1>1. CASE Connacked
    BY <1>0, <1>p, <1>f, <1>1 DEF SilenceBound, Connacked
  <1>2. CASE PingTick
    <2>1. flight = {} /\ client = "running" /\ due = 0
      BY <1>0, <1>f, <1>2 DEF PingTick, SilenceBound
    <2>2. flight' = {0} /\ due' = ping_interval
      BY <1>2, <2>1 DEF PingTick
    <2>3. UNCHANGED <<keep_alive, client, lag, ready, server, silent, busy>>
      BY <1>2 DEF PingTick
    <2> QED
      BY <1>0, <1>p, <1>f, <2>1, <2>2, <2>3 DEF SilenceBound
  <1>3. CASE Arrives
    <2>1. \A a \in flight' : a \in flight
      BY <1>3, Zenon DEF Arrives
    <2>2. /\ flight # {} /\ ready' = ready + 1
          /\ UNCHANGED <<keep_alive, client, lag, due, server, silent, busy>>
      BY <1>3, Zenon DEF Arrives
    <2>3. client = "running" /\ ready' > 0
      BY <1>f, <2>2 DEF SilenceBound
    <2> QED
      BY <1>0, <1>p, <1>f, <2>1, <2>2, <2>3 DEF SilenceBound
  <1>4. CASE Reads
    BY <1>0, <1>p, <1>f, <1>4 DEF SilenceBound, Reads
  <1>5. CASE ReadsAgain
    BY <1>0, <1>p, <1>f, <1>5 DEF SilenceBound, ReadsAgain
  <1>6. CASE TimesOut
    <2>1. server = "reading" /\ ready = 0 /\ silent = read_timeout
      BY <1>6 DEF TimesOut
    <2>2. silent <= ping_interval + 2 * MaxLag
      BY <1>0, <1>f, <2>1 DEF SilenceBound
    <2> QED
      BY <1>0, <1>f, <2>1, <2>2
  <1>7. CASE Elapse
    <2>1. UNCHANGED <<keep_alive, client, ready, server>> /\ flight' = {a + 1 : a \in flight}
      BY <1>7 DEF Elapse
    <2>2. CASE client = "waiting"
      BY <1>0, <1>f, <1>7, <2>1, <2>2 DEF SilenceBound, Elapse
    <2>3. CASE client = "running"
      <3>1. due > 0 /\ due' = due - 1
        BY <1>7, <2>3 DEF Elapse, Idle
      <3>2. server = "reading" => silent' = silent + 1
        BY <1>7 DEF Elapse
      <3>3. due' <= ping_interval /\ \A b \in flight' : due' + b = ping_interval
        BY <1>0, <1>f, <2>1, <2>3, <3>1 DEF SilenceBound
      <3>4. ASSUME server = "reading", ready = 0
            PROVE  /\ flight' = {} => silent' + due' <= ping_interval + MaxLag
                   /\ \A b \in flight' : silent' <= ping_interval + MaxLag + b
        BY <1>0, <1>f, <2>1, <2>3, <3>1, <3>2, <3>4 DEF SilenceBound
      <3> QED
        BY <1>p, <2>1, <2>3, <3>3, <3>4 DEF SilenceBound
    <2> QED
      BY <1>f, <2>2, <2>3
  <1>8. CASE UNCHANGED vars
    BY <1>p, <1>8 DEF SilenceBound, vars
  <1> QED
    BY <1>1, <1>2, <1>3, <1>4, <1>5, <1>6, <1>7, <1>8 DEF Next, Steps, Ended, Vanishes

\* The timers of handle_client and handle_server fit together: for every
\* keep-alive value whose grace covers the lag twice, no schedule of ticks,
\* arrivals and serving times makes the server give up on a client that is there.
THEOREM Punctual == Spec => []PunctualStays
PROOF
  <1>1. PunctualInv /\ [Next]_vars => PunctualInv'
    <2> SUFFICES ASSUME PunctualInv, [Next]_vars PROVE PunctualInv'
      OBVIOUS
    <2>1. TypeOK /\ TypeOK'
      BY TypeStep DEF PunctualInv
    <2>2. ASSUME Covered', client' # "vanished" PROVE Covered /\ client # "vanished"
      <3>1. keep_alive' = keep_alive
        BY DEF Next, Steps, Ended, vars, Connacked, PingTick, Arrives, Reads, ReadsAgain,
               TimesOut, Elapse, Vanishes
      <3>2. client = "vanished" => client' = "vanished"
        BY DEF Next, Steps, Ended, vars, Connacked, PingTick, Arrives, Reads, ReadsAgain,
               TimesOut, Elapse, Vanishes
      <3> QED
        BY <2>2, <3>1, <3>2 DEF Covered, secs
    <2>3. ASSUME Covered', client' # "vanished" PROVE server' # "gone" /\ SilenceBound'
      BY <2>1, <2>2, <2>3, SilenceStep DEF PunctualInv
    <2> QED
      BY <2>1, <2>3 DEF PunctualInv
  <1>2. PunctualInv => PunctualStays
    BY DEF PunctualInv, PunctualStays
  <1> QED
    BY PunctualInit, <1>1, <1>2, PTL DEF Spec
=============================================================================
