------------------------------ MODULE IPv4Router ------------------------------
(***************************************************************************)
(* The routing table of net/ipv4/IPv4Router.h: a sorted queue, and outgoing*)
(* packets take its first route that matches.  The table is the queue of   *)
(* AllocQueue, iterated from the head along next.  An address or a subnet  *)
(* mask is the set of its one bits.                                        *)
(***************************************************************************)
EXTENDS AllocQueue, FiniteSetsExt

CONSTANTS Width,        \* bits of an address, 32
          Lower,        \* the layers below
          TableSize     \* room for routes, 25

Address == SUBSET (0 .. Width - 1)
Route == [addr : Address, subnet : Address, next : Lower]

VARIABLES
    table,      \* m_routingTable
    m_route     \* the route the first pass found, for the second

routeVars == <<table, m_route>>
RouteInit == table = EmptyQueue(TableSize, NULL) /\ m_route = NULL

-----------------------------------------------------------------------------
\* Ones, then zeros.
ValidSubnet(subnet) == \A b \in subnet : b .. Width - 1 \subseteq subnet
SubnetLen(subnet) == IF subnet = {} THEN 0 ELSE Width - Min(subnet)
\* route_sort(fst, snd)
RouteSort == {<<fst, snd>> \in Route \X Route : SubnetLen(fst.subnet) > SubnetLen(snd.subnet)}

AddOutgoing(route) ==
    /\ ValidSubnet(route.subnet)
    /\ table' = SortedPush(table, route, RouteSort)
    /\ UNCHANGED m_route

\* The first route that the iterator comes to and that is good.
Found(Good(_)) ==
    LET good == SelectSeq(IterateOrder(table.list, TableSize), Good)
    IN  IF good = << >> THEN NULL ELSE Head(good)

\* Of conflicting routes only the first goes; the pointer m_route stays.
RemoveOutgoing(addr, subnet) ==
    LET Same(n) == table.data[n].addr = addr /\ table.data[n].subnet = subnet
    IN  /\ Found(Same) # NULL
        /\ table' = Remove(table, Found(Same))
        /\ UNCHANGED m_route

Matches(route, dst) == route.addr \cap route.subnet = dst \cap route.subnet
Transmit(dst) ==
    LET Match(n) == Matches(table.data[n], dst)
    IN  m_route' = Found(Match) /\ UNCHANGED table

RouteNext ==
    \/ \E r \in Route : AddOutgoing(r)
    \/ \E a, s \in Address : RemoveOutgoing(a, s)
    \/ \E a \in Address : Transmit(a)
RouteSpec == RouteInit /\ [][RouteNext]_routeVars

-----------------------------------------------------------------------------
\* "since the queue is presorted by biggest subnet mask, we know this is the
\* longest prefix match!" (IPv4Router.h:308): of the routes that were added and
\* not removed, a packet takes a longest one that matches.
Stored == DOMAIN table.data \ {table.free[i] : i \in DOMAIN table.free}
LongestPrefixMatch ==
    [][\A dst \in Address : Transmit(dst) =>
          LET good == {n \in Stored : Matches(table.data[n], dst)}
          IN  IF good = {} THEN m_route' = NULL
              ELSE /\ m_route' \in good
                   /\ \A n \in good : SubnetLen(table.data[n].subnet)
                                        <= SubnetLen(table.data[m_route'].subnet)]_routeVars
================================================================================
