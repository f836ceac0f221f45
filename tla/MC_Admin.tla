------------------------------ MODULE MC_Admin ------------------------------
(* The admin and user requests about servers and those about users and      *)
(* tables, which share no state: a behaviour is about one part.             *)
EXTENDS AdminServers, AdminUsers, TLC

VARIABLE part
adminVars == <<srvVars, usrVars, part>>

Symmetry == Permutations(Handlers \cup Requests) \cup Permutations(OwnerIds)

Init ==
    /\ SrvInit /\ UsrInit
    /\ part \in {"managed", "template", "rows", "tables"}

Next ==
    /\ \/ /\ \/ part = "managed" /\ SrvNextOn(Servers \ Templates)
             \/ part = "template" /\ SrvNextOn(Templates)
          /\ UNCHANGED usrVars
       \/ /\ part \in {"rows", "tables"}
          /\ \/ Always
             \/ part = "rows" /\ Edits
             \/ part = "tables" /\ Tables
          /\ UNCHANGED srvVars
    /\ part' = part

Spec == Init /\ [][Next]_adminVars
=============================================================================
