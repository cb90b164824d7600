------------------------------- MODULE MCDeploy -------------------------------
(* One resource of each way to be deployed.                                  *)
EXTENDS Deploy

MCKind == [r \in Resources |-> r]

MCRank ==
    [r \in Resources |->
        CASE r = "asset" -> 1 [] r = "badge" -> 2 [] r = "file" -> 3 [] r = "link" -> 4
          [] r = "pass" -> 5 [] r = "product" -> 6 [] r = "settings" -> 7 [] r = "thumbnails" -> 8]

MCVersions(r) == {1, 2}

\* The badge has an icon.
MCIcon(r, v) == IF r = "badge" THEN {"asset"} \cap Resources ELSE {}

MCCount(v) == v
===============================================================================
