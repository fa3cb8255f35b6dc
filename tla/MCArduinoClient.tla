--------------------------- MODULE MCArduinoClient ---------------------------
EXTENDS ArduinoClient, FiniteSets, TLC

Quiet == [h \in Handlers \union {"loop"} |-> {}]

(* Announces itself in onConnect, answers in onMessage or closes there, and  *)
(* calls begin() anew whenever it likes. *)
Announcing ==
    [transport |-> "udp", listens |-> TRUE, tries |-> TRUE,
     calls |-> [Quiet EXCEPT !["onConnect"] = {"send"}, !["onMessage"] = {"send", "close"},
                             !["loop"] = {"send", "close"}]]

(* Reconnects by itself as soon as it is told of a loss, or when begin()     *)
(* failed. *)
Impatient ==
    [transport |-> "udp", listens |-> TRUE, tries |-> FALSE,
     calls |-> [Quiet EXCEPT !["onDisconnect"] = {"reconnect"}, !["onConnect"] = {"send"},
                             !["loop"] = {"reconnect"}]]

(* Has no onMessage: it polls. *)
Polling ==
    [transport |-> "tcp", listens |-> FALSE, tries |-> FALSE,
     calls |-> [Quiet EXCEPT !["loop"] = {"send", "read"}, !["onConnect"] = {"read"}]]

(* Sends in onReconnect, or closes there, and in onConnect, and reads on in  *)
(* onMessage. *)
Greeting ==
    [transport |-> "udp", listens |-> TRUE, tries |-> FALSE,
     calls |-> [Quiet EXCEPT !["onConnect"] = {"send"}, !["onReconnect"] = {"send", "close"},
                             !["onMessage"] = {"read"}]]

(* Reconnects and closes whenever it likes, also a client that is closed or  *)
(* whose begin() failed. *)
Restless ==
    [transport |-> "udp", listens |-> FALSE, tries |-> FALSE,
     calls |-> [Quiet EXCEPT !["loop"] = {"reconnect", "close"}, !["onReconnect"] = {"close"}]]

MCSketches == {Announcing, Impatient, Polling, Greeting, Restless}
=============================================================================
