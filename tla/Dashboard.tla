----------------------------- MODULE Dashboard -----------------------------
(***************************************************************************)
(* The pages a person sets things on: the accounts they listen to, the filters *)
(* of the inbox, the settings of their pokes.  They share only the person, of    *)
(* whom each keeps fields of its own: a step of one leaves the others alone.      *)
(***************************************************************************)
EXTENDS Connections, InboxRows, PokeSenders

dashboardVars == <<connectionsVars, rowsVars, vars>>

DashboardInit == ConnectionsInit /\ RowsInit /\ Init

DashboardNext ==
    \/ ConnectionsNext /\ UNCHANGED <<rowsVars, vars>>
    \/ RowsNext /\ UNCHANGED <<connectionsVars, vars>>
    \/ Next /\ UNCHANGED <<connectionsVars, rowsVars>>

DashboardSpec == DashboardInit /\ [][DashboardNext]_dashboardVars

\* A page that saves sets what was pressed and nothing else: what somebody chose to hear of is not reset by a
\* subscribe, a press on the filters moves one of them, a save of an older tab leaves alone what it
\* does not know, and is answered with what is then stored.
SavesTouchTheirOwn == ChoiceStays /\ PressMovesOne /\ AnswersWhatIsStored /\ LeavesWhatItDoesNotKnow
=============================================================================
