------------------------------- MODULE Rendezvous -------------------------------
(***************************************************************************)
(* What ipc_send() and ipc_recv() of TP 4 do: a send ends exactly when one *)
(* receive of the environment it names takes its message, and that receive *)
(* returns this message.  Names are never used again; the homes of those   *)
(* who bear them are.                                                      *)
(*                                                                         *)
(* A receive may ask for a page at some place.  A page that comes with the *)
(* message is put at the place which was asked for last at this home: by   *)
(* the receive itself, or, if it asks for none, by an earlier one, perhaps *)
(* of another environment; if nobody has asked, the page is nowhere.  What *)
(* the receive is told of a page is what the sender says of it.            *)
(***************************************************************************)
CONSTANTS Names, Homes, Home,
          Messages,    \* records; page tells that the sender has sent one
          NoMessage, Places, Nowhere

VARIABLES alive,     \* the environments that exist
          offer,     \* the send each one is in: <<to, message>>, or NoMessage
          asks,      \* the environments that wait in a receive
          place,     \* of each home: the one asked for last
          box,       \* what a receive has been given: <<message, place>>
          result,    \* what a receive has returned, until the next call
          stopped    \* somebody has given up: nothing happens any more but
                     \* what needs nobody else

rvars == <<alive, offer, asks, place, box, result, stopped>>

Init ==
    /\ alive \subseteq Names
    /\ offer = [n \in Names |-> NoMessage] /\ asks = {}
    /\ place = [h \in Homes |-> Nowhere]
    /\ box = [n \in Names |-> NoMessage] /\ result = [n \in Names |-> NoMessage]
    /\ stopped = FALSE

Idle(n) == n \in alive \ asks /\ offer[n] = NoMessage /\ box[n] = NoMessage

Send(n, to, m) ==
    /\ Idle(n)
    /\ offer' = [offer EXCEPT ![n] = <<to, m>>]
    /\ result' = [result EXCEPT ![n] = NoMessage]
    /\ UNCHANGED <<alive, asks, place, box, stopped>>

(* With a place for a page, or Nowhere. *)
Receive(n, p) ==
    /\ ~stopped /\ Idle(n)
    /\ asks' = asks \cup {n}
    /\ place' = IF p = Nowhere THEN place ELSE [place EXCEPT ![Home[n]] = p]
    /\ result' = [result EXCEPT ![n] = NoMessage]
    /\ UNCHANGED <<alive, offer, box, stopped>>

(* The two meet. *)
Pass(n, r) ==
    /\ ~stopped
    /\ n \in alive /\ offer[n] # NoMessage /\ offer[n][1] = r
    /\ r \in alive \cap asks
    /\ offer' = [offer EXCEPT ![n] = NoMessage]
    /\ asks' = asks \ {r}
    /\ LET m == offer[n][2] IN
       box' = [box EXCEPT ![r] = <<m, IF m.page THEN place[Home[r]] ELSE Nowhere>>]
    /\ UNCHANGED <<alive, place, result, stopped>>

(* Nobody has the name, or the receiver has no room for the page: a panic. *)
GiveUp(n) ==
    /\ ~stopped /\ stopped' = TRUE
    /\ offer[n] # NoMessage
    /\ \/ offer[n][1] \notin alive
       \/ offer[n][1] \in asks /\ offer[n][2].page /\ place[Home[offer[n][1]]] # Nowhere
    /\ offer' = [offer EXCEPT ![n] = NoMessage]
    /\ UNCHANGED <<alive, asks, place, box, result>>

Return(n) ==
    /\ box[n] # NoMessage
    /\ result' = [result EXCEPT ![n] = box[n]]
    /\ box' = [box EXCEPT ![n] = NoMessage]
    /\ UNCHANGED <<alive, offer, asks, place, stopped>>

Appear(n) ==
    /\ ~stopped /\ n \notin alive
    /\ alive' = alive \cup {n}
    /\ UNCHANGED <<offer, asks, place, box, result, stopped>>

(* With all that is known of it, so that its name is not needed again, but *)
(* for what it has asked for.                                              *)
Vanish(n) ==
    /\ ~stopped
    /\ alive' = alive \ {n}
    /\ offer' = [offer EXCEPT ![n] = NoMessage] /\ asks' = asks \ {n}
    /\ box' = [box EXCEPT ![n] = NoMessage] /\ result' = [result EXCEPT ![n] = NoMessage]
    /\ UNCHANGED <<place, stopped>>

Next ==
    \E n \in Names :
        \/ \E to \in Names, m \in Messages : Send(n, to, m)
        \/ \E p \in Places \cup {Nowhere} : Receive(n, p)
        \/ \E r \in Names : Pass(n, r)
        \/ GiveUp(n) \/ Return(n) \/ Appear(n) \/ Vanish(n)

Spec == Init /\ [][Next]_rvars
=============================================================================
