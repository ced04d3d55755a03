--------------------------- MODULE MCConfigReload ---------------------------
(***************************************************************************)
(* Instances of ConfigReload for TLC.                                      *)
(***************************************************************************)
EXTENDS ConfigReload, TLC

CONSTANTS a, b, r1, r2, m1

Of(length, host) == "MinPasswordLength" :> length @@ "SMTPHost" :> host
TheOrder == <<"MinPasswordLength", "SMTPHost">>
TheStrings == {"SMTPHost"}
TheDefault == Of(a, None)
\* Nothing set, or a host and a length that is no number.
TheEnvs == {Of(None, None), Of(Bad, b)}
TheFiles == {None, Bad} \cup {Of(l, h) : l \in {None, b}, h \in {None, a, b}}
=============================================================================
