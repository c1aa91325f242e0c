---------------------------- MODULE MCVaultClients ----------------------------
\* Two entries at most: an imported login, and one that is added. "url" is a site with the
\* host "host", so both are found by searching for "host".
EXTENDS VaultClients

CONSTANTS e1, e2

MCTexts    == {"", "url", "host"}
MCHost     == [t \in MCTexts |-> IF t = "url" THEN "host" ELSE t]
MCContains == {<<t, t>> : t \in MCTexts} \cup {<<"url", "host">>}
MCImported == [id \in {e1} |-> LoginEnvelope(NameWith("url", "host"), "url", "host", e1)]
MCRefs     == << [query |-> "url", field |-> "primary"], [query |-> "url", field |-> "username"] >>
=============================================================================
