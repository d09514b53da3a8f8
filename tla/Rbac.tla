---------------------------------- MODULE Rbac ----------------------------------
(***************************************************************************)
(* Role-based access control: RBACEngine (src/araxys/rbac/engine.py) with  *)
(* its cache of expanded permissions, and the decisions of the             *)
(* dependencies (src/araxys/rbac/dependencies.py).  A permission is a pair *)
(* of a resource and an action; "*" is <<"*", "">>.                        *)
(***************************************************************************)
EXTENDS Integers, Sequences, SequencesExt, FiniteSets

CONSTANTS
    Roles,        \* names of roles
    Grants,       \* permissions a role may be given
    MaxParents,   \* bound on the length of an inherits list
    MaxChanges    \* bound on the calls that change the engine

ASSUME RbacAssumption ==
    /\ IsFiniteSet(Roles)
    /\ {MaxParents, MaxChanges} \subseteq Nat \ {0}

VARIABLES
    direct,      \* _direct: the permissions of each defined role
    inherits,    \* _inherits, with the same keys
    expanded,    \* _roles: the cache, with the same keys
    changes,     \* history: calls of add_role() and remove_role() so far
    outdated     \* history: roles whose ancestors were defined again since
                 \* their cache was filled

rbacVars == <<direct, inherits, expanded, changes, outdated>>

Defined == DOMAIN direct
Superuser == <<"*", "">>
Permissions == Grants \cup {Superuser}

RbacTypeOK ==
    /\ Defined \subseteq Roles
    /\ direct \in [Defined -> SUBSET Grants]
    /\ DOMAIN inherits = Defined
    /\ \A r \in Defined : ToSet(inherits[r]) \subseteq Roles
    /\ expanded \in [Defined -> SUBSET Grants]
    /\ changes \in 0..MaxChanges
    /\ outdated \subseteq Defined

RbacInit ==
    /\ direct = <<>>
    /\ inherits = <<>>
    /\ expanded = <<>>
    /\ changes = 0
    /\ outdated = {}

-----------------------------------------------------------------------------
(* Inheritance *)

Direct(d, r) == IF r \in DOMAIN d THEN d[r] ELSE {}
Parents(i, r) == IF r \in DOMAIN i THEN ToSet(i[r]) ELSE {}

\* _expand(): depth first, with the roles of the path to stop at a cycle.
Expand(d, i, name) ==
    LET expand[visited \in SUBSET Roles] ==
            [r \in Roles |->
                 IF r \in visited THEN {}
                 ELSE Direct(d, r) \cup
                      UNION {expand[visited \cup {r}][p] : p \in Parents(i, r)}]
    IN expand[{}][name]

\* Reference: the least set of roles that has the role and, with every role,
\* those it inherits from.
Ancestors(i, r) ==
    {a \in Roles :
        \A C \in SUBSET Roles :
            r \in C /\ (\A q \in C : Parents(i, q) \subseteq C) => a \in C}

Entitled(d, i, r) == UNION {Direct(d, a) : a \in Ancestors(i, r)}

-----------------------------------------------------------------------------
(* Roles *)

\* add_role(), for a new role or an old one; only its own cache is filled.
AddRole(name, permissions, parents) ==
    LET d == [r \in Defined \cup {name} |-> IF r = name THEN permissions ELSE direct[r]]
        i == [r \in Defined \cup {name} |-> IF r = name THEN parents ELSE inherits[r]]
    IN
    /\ changes < MaxChanges
    /\ changes' = changes + 1
    /\ direct' = d
    /\ inherits' = i
    /\ expanded' = [r \in Defined \cup {name} |->
                        IF r = name THEN Expand(d, i, name) ELSE expanded[r]]
    /\ outdated' = (outdated \cup {r \in Defined : name \in Ancestors(inherits, r)})
                       \ {name}

\* list.remove() takes the first occurrence.
Removed(list, name) ==
    IF name \in ToSet(list) THEN RemoveFirst(list, name) ELSE list

\* The mutant fills again only the caches of the role's children.
Reexpands_Children(r, name) == name \in ToSet(inherits[r])

\* Every role that is left is expanded again.
Reexpands(r, name) == TRUE

\* remove_role(): the roles are visited in the order of their definition, and
\* a role expanded early still sees the removed one among the parents of a
\* later one, where it has no permissions and no parents any more.
RemoveRole(name) ==
    LET left == Defined \ {name}
        d == [r \in left |-> direct[r]]
        i == [r \in left |-> Removed(inherits[r], name)] IN
    /\ changes < MaxChanges
    /\ changes' = changes + 1
    /\ direct' = d
    /\ inherits' = i
    /\ expanded' = [r \in left |-> IF Reexpands(r, name)
                                   THEN Expand(d, i, r) ELSE expanded[r]]
    /\ outdated' = {}

RbacNext ==
    \/ \E r \in Roles, g \in SUBSET Grants :
           \E parents \in BoundedSeq(Roles, MaxParents) : AddRole(r, g, parents)
    \/ \E r \in Roles : RemoveRole(r)

RbacSpec == RbacInit /\ [][RbacNext]_rbacVars

-----------------------------------------------------------------------------
(* Decisions *)

\* _match()
Match(granted, p) ==
    \/ Superuser \in granted
    \/ p \in granted
    \/ <<p[1], "*">> \in granted

HasPermission(roles, p) ==
    \E r \in roles \intersect Defined : Match(expanded[r], p)

HasAnyPermission(roles, ps) == \E p \in ps : HasPermission(roles, p)
HasAllPermissions(roles, ps) == \A p \in ps : HasPermission(roles, p)

\* A user is granted what the hierarchy of the moment entitles the roles to,
\* neither more nor less, through every order of definitions, redefinitions
\* and removals, cycles included, unless an ancestor of one of the roles was
\* defined after it: add_role() leaves the caches of the heirs as they are.
GrantedIffEntitled ==
    \A roles \in SUBSET (Roles \ outdated) :
        LET held == UNION {Entitled(direct, inherits, r) :
                               r \in roles \intersect Defined}
            entitled == {p \in Permissions : {p, Superuser, <<p[1], "*">>}
                                                 \intersect held # {}} IN
        \A ps \in SUBSET Permissions :
            /\ HasAnyPermission(roles, ps) <=> ps \intersect entitled # {}
            /\ HasAllPermissions(roles, ps) <=> ps \subseteq entitled

=============================================================================
