------------------------------- MODULE Presence -------------------------------
(***************************************************************************)
(* What the host's session may expect of its endpoint: which sockets have  *)
(* the endpoint's listeners, which of them has the slot, and when the      *)
(* session hears of a client.  A socket is attached until its 'close'      *)
(* event; the slot is only given away while no open socket has it; a       *)
(* client is announced by its Hello, which an attached socket brings once. *)
(* The 'close' event of any attached socket, and the heartbeat, make the   *)
(* session believe in nobody; it may close other sockets in return.        *)
(*                                                                         *)
(* PairProgServer and the part of it that HostSession repeats both         *)
(* implement this.                                                         *)
(***************************************************************************)
CONSTANTS
    Sock,
    Nobody      \* the empty slot

VARIABLES
    life,       \* of the endpoint: "idle", "up", "over"
    attached,   \* sockets with listeners, whose 'close' event is to come
    open,       \* those that are open
    slot,
    greeted,    \* those whose Hello has been read
    sees        \* the session believes that a client is there

presence == <<life, attached, open, slot, greeted, sees>>

Init ==
    /\ life \in {"idle", "up"}
    /\ attached = {} /\ open = {} /\ slot = Nobody /\ greeted = {}
    /\ sees = FALSE

Start ==
    /\ life = "idle" /\ life' = "up"
    /\ UNCHANGED <<attached, open, slot, greeted, sees>>

\* The socket s gets its listeners, and it may be closing by then.  Once the
\* endpoint is over it is.
Attach(s) ==
    /\ life # "idle" /\ s \notin attached /\ slot \notin open
    /\ attached' = attached \cup {s}
    /\ open' \in {open, open \cup {s}}
    /\ s \in open' => life = "up"
    /\ UNCHANGED life

\* The session hears of the Hello, unless it does not listen yet.
Announced(s) ==
    /\ greeted' = greeted \cup {s}
    /\ sees' \in {sees, TRUE}

Connects(s) == Attach(s) /\ slot' = s /\ UNCHANGED <<greeted, sees>>

\* The same for a relay socket, which is attached by its Hello.  The session may
\* turn it away at once.
ConnectsWithHello(s) ==
    /\ Attach(s) /\ Announced(s)
    /\ slot' \in {s, Nobody}
    /\ slot' = Nobody => s \notin open'

Hello(s) ==
    /\ s \in attached \ greeted
    /\ Announced(s)
    /\ UNCHANGED <<life, attached, open, slot>>

\* rejectClient() acts on the socket in the slot, whoever sent the Hello.
HelloRejected(s) ==
    /\ s \in attached \ greeted
    /\ Announced(s)
    /\ slot \in open /\ open' = open \ {slot} /\ slot' = Nobody
    /\ UNCHANGED <<life, attached>>

Ends(s) ==
    /\ s \in open /\ open' = open \ {s}
    /\ UNCHANGED <<life, attached, slot, greeted, sees>>

Gone ==
    /\ open' \in SUBSET open
    /\ slot' = Nobody
    /\ sees' = (sees /\ life # "up")

Closed(s) ==
    /\ s \in attached \ open
    /\ attached' = attached \ {s} /\ greeted' = greeted \ {s}
    /\ Gone
    /\ UNCHANGED life

Terminate ==
    /\ life = "up" /\ slot \in open
    /\ Gone /\ slot \notin open'
    /\ UNCHANGED <<life, attached, greeted>>

Stop ==
    /\ life = "up" /\ life' = "over"
    /\ Gone /\ slot \notin open'
    /\ UNCHANGED <<attached, greeted>>

Next ==
    \/ Start \/ Stop \/ Terminate
    \/ \E s \in Sock : \/ Connects(s) \/ ConnectsWithHello(s)
                       \/ Hello(s) \/ HelloRejected(s) \/ Ends(s) \/ Closed(s)

Spec == Init /\ [][Next]_presence

\* What follows for the session: the slot's socket will be heard of again, and
\* when it believes in a client, some attached socket has said Hello and has its
\* 'close' event to come.
Promise ==
    /\ slot # Nobody => slot \in attached
    /\ open \subseteq attached /\ greeted \subseteq attached
    /\ life = "idle" => attached = {} /\ ~sees
    /\ life = "up" /\ sees => greeted # {}
===============================================================================
