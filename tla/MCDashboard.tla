---------------------------- MODULE MCDashboard ----------------------------
(* Behaviours of Dashboard in which one page is open: while it moves, the      *)
(* variables of the others stand still at one of their initial states.         *)
EXTENDS Dashboard, MCConnections, MCInboxRows, MCPokesPanel

VARIABLE opened   \* which of the three is open

\* A page that nobody opens: any of its initial states would do.
ConnectionsAtRest == connectionWorld = NoSituation
InboxAtRest ==
    /\ LET side == CHOOSE g \in Githubs : TRUE IN facts = side.facts /\ answer = side.answer
    /\ inboxSettings = <<>>
PokesAtRest == world = Poked /\ row = [settings |-> Untouched, zone |-> TRUE, sent |-> FALSE]

OneOpen ==
    \/ opened = "connections" /\ InboxAtRest /\ PokesAtRest
    \/ opened = "inbox" /\ ConnectionsAtRest /\ PokesAtRest
    \/ opened = "pokes" /\ ConnectionsAtRest /\ InboxAtRest

MCNext ==
    \/ opened = "connections" /\ ConnectionsNext /\ UNCHANGED <<rowsVars, vars, opened>>
    \/ opened = "inbox" /\ RowsNext /\ UNCHANGED <<connectionsVars, vars, opened>>
    \/ opened = "pokes" /\ Next /\ UNCHANGED <<connectionsVars, rowsVars, opened>>

MCInit == OneOpen /\ DashboardInit

MCSpec == MCInit /\ [][MCNext]_<<dashboardVars, opened>>
=============================================================================
