---------------------------- MODULE EndpointChain ----------------------------
(***************************************************************************)
(* What the endpoints make of a message before the server fans it out.     *)
(* The nodes are those that the topic of the packet leads to, and stay so  *)
(* when an endpoint changes the topic.  An endpoint passes the message on, *)
(* rewrites it, takes it out of its context, suppresses the fan-out, or    *)
(* fails.                                                                  *)
(***************************************************************************)
EXTENDS Sequences
LOCAL INSTANCE SequencesExt

\* MqttContext::default, and set_incoming.
Context(message) == [incoming |-> <<message>>, fanout |-> TRUE]

suppress_fanout(ctx) == [ctx EXCEPT !.fanout = FALSE]

\* node.run: the context an endpoint returns, if it does not fail.
run(endpoint, ctx) ==
  CASE endpoint.does = "pass" -> ctx
    [] endpoint.does = "rewrite" -> [ctx EXCEPT !.incoming = <<endpoint.to>>]
    [] endpoint.does = "take" -> [ctx EXCEPT !.incoming = <<>>]
    [] endpoint.does = "suppress" -> suppress_fanout(ctx)

\* One turn of the loop.  A failed endpoint's context is gone, and the next one
\* still runs; nothing switches the fan-out on again.
Turn(state, endpoint) ==
  IF endpoint.does = "fail" THEN [state EXCEPT !.fanout = FALSE]
  ELSE LET out == run(endpoint, Context(state.current))
       IN [fanout |-> state.fanout /\ out.fanout,
           current |-> IF out.incoming = <<>> THEN state.current ELSE out.incoming[1]]

run_server_chain_then_decide_fanout(endpoints, publish) ==
  FoldLeft(Turn, [fanout |-> TRUE, current |-> publish], endpoints)
=============================================================================
