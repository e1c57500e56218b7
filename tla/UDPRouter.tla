------------------------------- MODULE UDPRouter -------------------------------
(***************************************************************************)
(* The ports of the UDP sockets: net/udp/UDPRouter.h keeps the socket of   *)
(* each port in port_bindings, for the packets that arrive, and the port   *)
(* of each socket in layer_bindings, for those it sends.  IPv4UDPStack.h   *)
(* gives sockets out of a pool, IPv4UDPSocket.h binds and unbinds them.    *)
(***************************************************************************)
EXTENDS Hashmap, FiniteSets

CONSTANTS Layers,     \* the sockets of the stack's pool
          Ports,      \* the port numbers but 0
          MapRoom,    \* slots of a bucket
          Junk        \* what the slot of a map holds before it is used
ASSUME LayersAssumption == IsFiniteSet(Layers) /\ Junk \notin Layers
ASSUME PortsAssumption == IsFiniteSet(Ports) /\ 0 \notin Ports /\ MapRoom \in Nat

VARIABLES
    taken,          \* the sockets get_socket gave out
    addr,           \* m_addr.port of each, 0 before it is bound
    port_bindings, layer_bindings,
    halfBound,      \* ghost: a bind failed after it had added the port
    faulted         \* unsubscribePort followed a null pointer

portVars == <<taken, addr, port_bindings, layer_bindings, halfBound, faulted>>

PortInit ==
    /\ taken = {}
    /\ addr = [s \in Layers |-> 0]
    /\ port_bindings = EmptyMap(Ports, MapRoom, Junk)
    /\ layer_bindings = EmptyMap(Layers, MapRoom, 0)
    /\ halfBound = FALSE /\ faulted = FALSE

GetSocket(s) ==
    /\ s \notin taken
    /\ taken' = taken \cup {s}
    /\ UNCHANGED <<addr, port_bindings, layer_bindings, halfBound, faulted>>

\* bind sets m_addr before it knows whether subscribe_port succeeds, and
\* subscribe_port adds the port before it knows whether the socket has room.
Bind(s, p) ==
    LET i == AddSlot(port_bindings, p)
        j == AddSlot(layer_bindings, s)
    IN  /\ s \in taken
        /\ addr' = [addr EXCEPT ![s] = p]
        /\ CASE i = 0 -> UNCHANGED <<port_bindings, layer_bindings, halfBound>>
             [] i # 0 /\ j = 0 ->
                   /\ port_bindings' = Added(port_bindings, p)
                   /\ halfBound' = TRUE
                   /\ UNCHANGED layer_bindings
             [] OTHER ->
                   /\ port_bindings' = Store(Added(port_bindings, p), p, i, s)
                   /\ layer_bindings' = Store(Added(layer_bindings, s), s, j, p)
                   /\ UNCHANGED halfBound
        /\ UNCHANGED <<taken, faulted>>

\* unsubscribePort removes the first entries: of the socket that the port leads
\* to, which need not be the one that unbinds.
\* Mutant: the entry of the port stays.
UnsubscribeLayerOnly(p) ==
    LET i == GetSlot(port_bindings, p)
        s == port_bindings[p][i].val
    IN  IF i = 0
        THEN faulted' = TRUE /\ UNCHANGED <<port_bindings, layer_bindings>>
        ELSE /\ layer_bindings' = IF s = Junk THEN layer_bindings ELSE Removed(layer_bindings, s)
             /\ UNCHANGED <<port_bindings, faulted>>
UnsubscribePort(p) ==
    LET i == GetSlot(port_bindings, p)
        s == port_bindings[p][i].val
    IN  IF i = 0
        THEN faulted' = TRUE /\ UNCHANGED <<port_bindings, layer_bindings>>
        ELSE /\ layer_bindings' = IF s = Junk THEN layer_bindings ELSE Removed(layer_bindings, s)
             /\ port_bindings' = Removed(port_bindings, p)
             /\ UNCHANGED faulted

\* unbind does nothing for port 0, and does not reset m_addr.
UnbindPort(s) ==
    IF addr[s] = 0
    THEN UNCHANGED <<port_bindings, layer_bindings, faulted>>
    ELSE UnsubscribePort(addr[s])
Unbind(s) ==
    /\ s \in taken
    /\ UnbindPort(s)
    /\ UNCHANGED <<taken, addr, halfBound>>

\* free_socket unbinds, also a socket that was unbound before.
FreeSocket(s) ==
    /\ s \in taken
    /\ taken' = taken \ {s}
    /\ UnbindPort(s)
    /\ UNCHANGED <<addr, halfBound>>

PortNext ==
    /\ ~faulted /\ ~halfBound   \* bound: nothing is claimed after either
    /\ \E s \in Layers :
          \/ GetSocket(s) \/ Unbind(s) \/ FreeSocket(s)
          \/ \E p \in Ports : Bind(s, p)
PortSpec == PortInit /\ [][PortNext]_portVars

-----------------------------------------------------------------------------
\* Every entry that leads packets to a socket has one that lets the socket
\* send, whatever sockets share, rebind or reuse ports, as long as no bind
\* failed halfway: then a packet may be routed to what the slot held before.
Leads(s) == {e \in Ports \X (1 .. MapRoom) :
                LET slot == port_bindings[e[1]][e[2]] IN slot.used /\ slot.val = s}
BindingsPaired ==
    ~halfBound => \A s \in Layers : Cardinality(Leads(s)) = Cardinality(UsedSlots(layer_bindings, s))
================================================================================
