---------------------------- MODULE MCHttpServer ----------------------------
(* The debug website's two handlers, and a listener that may accept nothing. *)
EXTENDS HttpServer

\* "/debug" and "/debug/ws"
MCPrefix == [h \in Handlers |-> IF h = "resources" THEN <<1>> ELSE <<1, 2>>]

\* "/debug/ws/x", "/debug/index.html" and "/"
MCResources == {<<1, 2, 3>>, <<1, 3>>, <<3>>}
=============================================================================
