-------------------------- MODULE MCAdministration --------------------------
(* A small instance of Administration: the tables that its routes and the    *)
(* starts write, the rest of the catalogue left out.                         *)
EXTENDS Administration, TLC

CONSTANTS a1, a2, none

\* Tenants, their clients, the themes, the main user, the permission and the
\* role come twice: deleted and made anew, or one beside the other.
MCMaxRows ==
    [table \in {"tenants", "clients", "themes", "users", "permissions", "roles"} |-> 2]
    @@ [table \in {"oauth_providers", "user_fields", "admin_api_key"} |-> 1]

\* The starts and the requests together, so that three starts or two
\* requests can happen, though not all five.
CONSTANT MaxTogether
Together == starts + requests <= MaxTogether

Symmetry == Permutations(Actors)
=============================================================================
