-------------------------- MODULE MCOwnerWorkspace --------------------------
(* One member and two venues of the owner; requests either on the accounts or on the rights and  *)
(* what they protect.                                                                            *)
EXTENDS OwnerWorkspace, TLC

FirstToken == CHOOSE t \in Tokens : TRUE

Start(kinds, at, status, perms, venues, link) ==
    [load |-> [kinds |-> kinds, at |-> at],
     member |-> [m \in Members |-> [status |-> IF status = "none" THEN "none" ELSE "ACTIVE",
                                   invitation |-> status, perms |-> perms]],
     access |-> [m \in Members |-> venues],
     invite |-> [t \in Tokens |->
                   IF link /\ t = FirstToken
                   THEN [of |-> CHOOSE m \in Members : TRUE, purpose |-> "SET_PASSWORD", used |-> FALSE,
                         ends |-> "later", sent |-> TRUE]
                   ELSE NoInvite]]

AccountLoad == {"CREATE", "REGENERATE", "RESET", "SETUP", "LOGIN"}
RightsLoads ==
    {<<{"UPDATE", "VENUES"}, {}>>, <<{"UPDATE", "HOURS"}, {"v1"}>>, <<{"STATUS", "VENUES", "VENUE"}, {"v1", "v2"}>>,
     <<{"SUSPEND", "COURT", "HOURS"}, {"v1"}>>,
     <<{"OWNER_STATUS", "VENUE_STATUS", "COURT_STATUS", "NEW_COURT"}, {"v2", "x"}>>}

SampleStarts ==
    {Start(AccountLoad, {}, "none", {}, {}, FALSE), Start(AccountLoad, {}, "INVITED", {}, {}, TRUE),
     Start(AccountLoad, {}, "ACTIVE", {}, {}, FALSE)}
    \cup {Start(l[1], l[2], "ACTIVE", Permissions, {"v1"}, FALSE) : l \in RightsLoads}

SamplePermSets == {{"COURTS_WRITE"}, Permissions}
SampleVenueSets == {{"v1"}, {"v2"}, {"x"}}

Interchangeable == Permutations(Requests)
=============================================================================
