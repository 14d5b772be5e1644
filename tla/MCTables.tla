------------------------------ MODULE MCTables ------------------------------
(***************************************************************************)
(* The two tables, one at a time.  Prefixes with a common beginning, the   *)
(* empty one and one that is too long; six groups for three places, one of *)
(* them with too long a name.                                              *)
(***************************************************************************)
EXTENDS SubTableSpec, GroupTableSpec

tablesVars == <<vars, groupVars>>

TablesInit == Init /\ GroupInit

TablesNext ==
    \/ Next /\ GroupInit /\ UNCHANGED groupVars
    \/ GroupNext /\ Init /\ UNCHANGED vars

TablesSpec == TablesInit /\ [][TablesNext]_tablesVars

MCPrefixes == {<<>>, <<"a">>, <<"a", "b">>, <<"a", "b", "c">>}
MCTopics   == {<<>>, <<"a">>, <<"b">>, <<"a", "b">>, <<"a", "b", "c">>}
MCGroups   == {<<"a">>, <<"b">>, <<"c">>, <<"d">>, <<"a", "b">>, <<"a", "b", "c">>}
=============================================================================
