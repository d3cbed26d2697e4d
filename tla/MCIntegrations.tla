--------------------------- MODULE MCIntegrations ---------------------------
(* Instances of Integrations for TLC.                                      *)
EXTENDS Integrations, TLC

CONSTANTS a, b, ca, cb, app, lib, one, two

ItemCorr == a :> ca @@ b :> cb

\* One repository.
OneRepo == {<<app, one>>, <<app, two>>}
OneOwner == <<app, one>> :> ca @@ <<app, two>> :> cb

\* Nothing tells a and what belongs to it from b and what belongs to it.
Symmetry ==
    {s \in Permutations({a, b, ca, cb, one, two}) :
        \/ \A v \in {a, b, ca, cb, one, two} : s[v] = v
        \/ \A v \in {<<a, b>>, <<ca, cb>>, <<one, two>>} : s[v[1]] = v[2] /\ s[v[2]] = v[1]}

\* The task of item a has pull requests in two repositories.
TwoRepos == {<<app, one>>, <<lib, two>>, <<app, two>>}
TwoOwners == <<app, one>> :> ca @@ <<lib, two>> :> ca @@ <<app, two>> :> cb

=============================================================================
