----------------------------- MODULE MCSessions -----------------------------
(* The sessions and the bytes they are made of, side by side: each behaviour *)
(* is one of the broker's sessions with their link, of the websocket gateway, *)
(* of the bytes of a client or of those of a link, or is one ATTACH to encode; *)
(* the other parts stay as they start.                                       *)
EXTENDS BrokerSessions, GatewaySessions, WireCodecs, TLC

VARIABLE part

playVars == <<part, vars, gatewayVars, codecVars>>

PlayInit ==
    /\ part \in {"sessions", "gateway", "telnet", "frames", "bodies"}
    /\ Init /\ GatewayInit /\ CodecInit
    /\ part # "bodies" => body = [auth |-> <<>>, build |-> <<>>, player |-> <<2>>]
    /\ part # "sessions" => shardUp

PlayNext ==
    /\ UNCHANGED part
    /\ \/ /\ part = "sessions" /\ Next
          /\ UNCHANGED <<gatewayVars, codecVars>>
       \/ /\ part = "gateway" /\ GatewayNext
          /\ UNCHANGED <<vars, codecVars>>
       \/ /\ part = "telnet" /\ TelnetNext
          /\ UNCHANGED <<vars, gatewayVars>>
       \/ /\ part = "frames" /\ FrameNext
          /\ UNCHANGED <<vars, gatewayVars>>

PlaySpec == PlayInit /\ [][PlayNext]_playVars

Symmetry == Permutations(Sessions)
=============================================================================
