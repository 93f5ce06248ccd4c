------------------------- MODULE MCTunnelServer -------------------------
(* TunnelServer with the behaviours to which a run is confined. *)
EXTENDS TunnelServer

\* The behaviours without stop() in which the clients send CONNECTs only, and a tunnel or a
\* target ends when its connection was closed or lost: what is left is who holds, waits for
\* and returns permits.
ConnectsOnly ==
    /\ \A c \in Clients : /\ reader'[c] # "pong"
                          /\ reader[c] = "read" /\ conn[c] = "open" => reader'[c] # "clean"
    /\ \A k \in Keys : /\ client'[k] # "closed"
                       /\ task[k] = "relay" /\ socket[k] = "open" => task'[k] # "rclose"
PermitsSpec == Init /\ [][Next /\ running' /\ ConnectsOnly]_vars /\ Fairness
=============================================================================
