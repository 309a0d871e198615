--------------------------- MODULE MCPlatformReport ---------------------------
(***************************************************************************)
(* PlatformReport with one service that is always reported, one that comes *)
(* and goes, one that the website reports as well, and two shards.  Two    *)
(* reports: everything well, and trouble without the optional service;     *)
(* sent, the first has a list of the shards with it and the second none.   *)
(***************************************************************************)
EXTENDS PlatformReport

CONSTANTS bot, image, database, shard0, shard1

AllWell == [s \in {bot, image, database} |-> "operational"]
Trouble == [s \in {bot, database} |-> IF s = bot THEN "degraded" ELSE "down"]

TwoBodies == {AllWell, Trouble}

OneDown == [s \in {shard0, shard1} |-> IF s = shard0 THEN "operational" ELSE "down"]
Alone == [s \in {shard0} |-> "operational"]

TwoLists == {OneDown, Alone}

TwoSent == {[body |-> AllWell, shards |-> [kind |-> "list", states |-> OneDown]],
            [body |-> Trouble, shards |-> Nothing]}
=============================================================================
