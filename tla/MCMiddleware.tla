---------------------------- MODULE MCMiddleware ----------------------------
(* A small instance of Middleware for TLC. *)
EXTENDS Middleware, TLC

Symmetry == Permutations(Requests)

MCHosts == {"h1", "h2", "proxy"}
MCTrustedProxies == {{"proxy"}, {}}    \* one address and a blank entry
MCAllowedOrigins == {"app"}

\* A plain request of h1; the others differ from it where they say.
Plain == [method |-> "GET", path |-> "data", origin |-> None, id |-> None,
          from |-> "h1", own |-> <<>>, via |-> None, relay |-> "sets"]

\* What h1 and h2 send through the trusted proxy and directly, with and
\* without a header of their own.
ViaProxy == [Plain EXCEPT !.via = "proxy"]

MCShapes ==
    { [Plain EXCEPT !.origin = "app"],
      [Plain EXCEPT !.origin = "elsewhere", !.own = <<"h2">>],
      [Plain EXCEPT !.from = "h2", !.id = "given"],
      [ViaProxy EXCEPT !.own = <<"h2">>],
      [ViaProxy EXCEPT !.relay = "appends"],
      [ViaProxy EXCEPT !.relay = "appends", !.own = <<"h2">>],
      [ViaProxy EXCEPT !.relay = "appends", !.own = <<None>>],
      [ViaProxy EXCEPT !.relay = "forwards"],
      [Plain EXCEPT !.from = "proxy", !.via = "h2", !.relay = "appends"],
      [Plain EXCEPT !.from = None, !.own = <<"h1">>],
      [Plain EXCEPT !.method = "OPTIONS", !.origin = "app"],
      [Plain EXCEPT !.path = "health", !.origin = "app"],
      [Plain EXCEPT !.path = "docs", !.origin = "app"],
      [Plain EXCEPT !.path = "apiOther", !.origin = "app"],
      [Plain EXCEPT !.path = "ws", !.origin = "app"],
      [Plain EXCEPT !.path = "other", !.origin = "app"] }
=============================================================================
