-------------------------------- MODULE MavUdp --------------------------------
(* The clients of a UDP server link (class mavudp of mavutil.py): whoever has  *)
(* sent a datagram is a client, a message is written to every client, and a    *)
(* client that has been silent for `timeout` is dropped while another is left. *)
EXTENDS Integers

CONSTANTS
    Address,            \* the addresses datagrams come from
    Timeout,            \* timeout, 0 for none
    MayFail,            \* whether sendto can raise an error
    MaxTime             \* bound of the checked instance

ASSUME UdpAssumption == Timeout \in Nat /\ MayFail \in BOOLEAN /\ MaxTime \in Nat

VARIABLES
    clients,            \* the set of the same name
    clients_last_alive, \* client -> the time of its last datagram
    clock,
    heard,              \* history: address -> the time of its last datagram
    reached,            \* history: the addresses the last write sent to
    wrote               \* how the last write ended: "all", "error" (swallowed), "raised", or "none" since a datagram or a tick

udpvars == <<clients, clients_last_alive, clock, heard, reached, wrote>>

UdpInit ==
    /\ clients = {} /\ clients_last_alive = [a \in {} |-> 0] /\ clock = 0
    /\ heard = [a \in {} |-> 0] /\ reached = {} /\ wrote = "none"

With(f, a, t) == [x \in DOMAIN f \union {a} |-> IF x = a THEN t ELSE f[x]]
Without(f, S) == [x \in DOMAIN f \ S |-> f[x]]

HearOnce ==
    \E a \in Address :
        /\ clients' = clients \union {a}
        /\ clients_last_alive' = IF a \in clients THEN clients_last_alive
                                 ELSE With(clients_last_alive, a, clock)
        /\ heard' = With(heard, a, clock)
        /\ wrote' = "none" /\ reached' = {} /\ UNCHANGED clock

(* recv: a datagram of a client *)
Hear ==
    \E a \in Address :
        /\ clients' = clients \union {a}
        /\ clients_last_alive' = With(clients_last_alive, a, clock)
        /\ heard' = With(heard, a, clock)
        /\ wrote' = "none" /\ reached' = {} /\ UNCHANGED clock

Pass ==
    /\ clock < MaxTime
    /\ clock' = clock + 1 /\ wrote' = "none" /\ reached' = {}
    /\ UNCHANGED <<clients, clients_last_alive, heard>>

Alone == \E a \in clients : clients = {a}
Sends(a) == Alone \/ Timeout <= 0 \/ clients_last_alive[a] + Timeout > clock
Asks(a) == ~Alone /\ Timeout > 0                   \* whether the time of a client is looked up
Expired(seen) == {a \in seen \intersect DOMAIN clients_last_alive : ~Sends(a)}

(* the clients are visited in the order of the set: the expired ones visited so far are *)
(* dropped, all but the last one when every client has expired                           *)
Dropped(seen) ==
    IF Expired(seen) = clients /\ clients # {} THEN {clients \ {a} : a \in clients}
    ELSE {Expired(seen)}

(* a client whose time is not known any more: looking it up raises KeyError *)
Forgotten(a) == Asks(a) /\ a \notin DOMAIN clients_last_alive

(* write visits every client *)
WriteAll ==
    /\ ~\E a \in clients : Forgotten(a)
    /\ \E gone \in Dropped(clients) :
        /\ clients' = clients \ gone
        /\ clients_last_alive' = Without(clients_last_alive, gone)
    /\ reached' = {a \in clients : Sends(a)} /\ wrote' = "all"
    /\ UNCHANGED <<clock, heard>>

(* write stops at a client: sendto fails there and the error is swallowed, or its time is not *)
(* known; the times of the expired ones before it are gone, the clients are not               *)
WriteStops ==
    \E a \in clients, seen \in SUBSET clients :
        /\ a \notin seen /\ ~\E b \in seen : Forgotten(b)
        /\ Forgotten(a) \/ (MayFail /\ ~Forgotten(a) /\ Sends(a))
        /\ clients_last_alive' = Without(clients_last_alive, Expired(seen))
        /\ reached' = {b \in seen : Sends(b)}
        /\ wrote' = IF Forgotten(a) THEN "raised" ELSE "error"
        /\ UNCHANGED <<clients, clock, heard>>

UdpNext == Hear \/ Pass \/ WriteAll \/ WriteStops

UdpSpec == UdpInit /\ [][UdpNext]_udpvars

-----------------------------------------------------------------------------
(* A client that has sent within the timeout is a client still, and a write    *)
(* that comes to its end has reached it.                                        *)
Live(a) == a \in DOMAIN heard /\ heard[a] + Timeout > clock

LiveServed ==
    \A a \in DOMAIN heard : Live(a) => a \in clients /\ (wrote = "all" => a \in reached)

(* The last client is never dropped: whoever has been heard leaves someone to write to. *)
SomeoneLeft == DOMAIN heard # {} => clients # {}

(* Both: no write forgets a client that is there, whatever was dropped and whatever failed before. *)
ClientsServed == LiveServed /\ SomeoneLeft
=============================================================================
