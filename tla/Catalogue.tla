------------------------------ MODULE Catalogue ------------------------------
(***************************************************************************)
(* The checks and components of the page as components.py lists them.      *)
(***************************************************************************)
EXTENDS Naturals, SequencesExt

GROUPS == [
  website |-> <<"Public Site", "Dashboard", "DNS", "SSL Certificate">>,
  bot |-> <<"Gateway">>,
  commands |-> <<"Bot Worker", "Bot", "Bot Response">>,
  customBots |-> <<"Orchestrator">>,
  plugins |-> <<"Plugin Runner", "Sandbox", "WebSocket Broker">>,
  analytics |-> <<"Analytics">>,
  images |-> <<"Image Service">>,
  data |-> <<"Database", "Cache">>,
  developerPortal |-> <<"Dev Portal Runner", "Dev Portal Bot">>,
  supportAssistant |-> <<"FAQ Matcher">>,
  discord |-> <<"Discord", "Discord API">>]

GroupKeys == DOMAIN GROUPS
ThirdPartyGroups == {"discord"}
CoreGroups == GroupKeys \ {"developerPortal", "supportAssistant", "discord"}

SERVICES == UNION {ToSet(GROUPS[c]) : c \in GroupKeys}

\* Shards are named at run time; there may be any number of them.
ShardNames == {"Shard 0", "Shard 1"}

OPTIONAL_SERVICES == {"Bot Response", "Sandbox", "WebSocket Broker", "Image Service",
                      "Dev Portal Runner", "Dev Portal Bot", "FAQ Matcher", "Discord", "Discord API"}
ADVISORY_SERVICES == {"DNS", "SSL Certificate"}
CRITICAL_SERVICES == {"Public Site", "Gateway", "Database"}

\* group_of; what is in no group is shown under Other.
GroupOf(s) ==
  IF s \in SERVICES THEN CHOOSE c \in GroupKeys : s \in ToSet(GROUPS[c])
  ELSE IF s \in ShardNames THEN "bot" ELSE "other"

\* The checks that a component's figures are made of (SLA_EXCLUDED_SERVICES).
CountedOf(c) == SelectSeq(GROUPS[c], LAMBDA s : s \notin ADVISORY_SERVICES)

\* STALE_AFTER_SECONDS, STALE_AFTER_BY_SERVICE and _RECENT_WINDOW
StaleSeconds(s) == IF s = "SSL Certificate" THEN 3 * 3600 ELSE 300
RecentSeconds == 4 * 3600
=============================================================================
