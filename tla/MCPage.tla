-------------------------------- MODULE MCPage --------------------------------
(***************************************************************************)
(* The page on small instances of its three parts.                         *)
(*                                                                         *)
(* Now: four checks of the catalogue, one critical, one a diagnostic of    *)
(* the same component, one optional, and one of somebody else.             *)
(*                                                                         *)
(* History: two services, three incidents, one explanation; a listed       *)
(* window of three moments, of which there are five.                       *)
(*                                                                         *)
(* Figures: the bot with a shard that is named at run time, a component    *)
(* with one optional check, and Other with a check nobody knows; the       *)
(* window is two days of three, each of them ten real ones: a check has no *)
(* data, is fine through its 14400 checks, fails one of them, or fails the *)
(* ten that it was given.                                                  *)
(***************************************************************************)
EXTENDS Page, TLC

StatusPage == INSTANCE Catalogue

\* Four checks of the catalogue; a moment is three hours.
MCServices == {"Public Site", "SSL Certificate", "Image Service", "Discord"}
MCOptional == StatusPage!OPTIONAL_SERVICES \cap MCServices
MCAdvisory == StatusPage!ADVISORY_SERVICES \cap MCServices
MCCritical == StatusPage!CRITICAL_SERVICES \cap MCServices
MCComponentOf == [s \in MCServices |-> StatusPage!GroupOf(s)]
MCComponents == {MCComponentOf[s] : s \in MCServices}
MCCore == StatusPage!CoreGroups \cap MCComponents
MCThirdParty == StatusPage!ThirdPartyGroups
Moment == 3 * 3600
MCStaleAfter == [s \in MCServices |-> StatusPage!StaleSeconds(s) \div Moment]
MCRecent == StatusPage!RecentSeconds \div Moment

\* The whole catalogue is one that Headline is about.
AllServices == StatusPage!SERVICES \cup StatusPage!ShardNames \cup {"reported, but unknown"}
Whole == INSTANCE Headline WITH
  Services <- AllServices, Catalogue <- StatusPage!SERVICES, Optional <- StatusPage!OPTIONAL_SERVICES,
  Advisory <- StatusPage!ADVISORY_SERVICES, Critical <- StatusPage!CRITICAL_SERVICES,
  Components <- StatusPage!GroupKeys \cup {"other"},
  ComponentOf <- [s \in AllServices |-> StatusPage!GroupOf(s)],
  Core <- StatusPage!CoreGroups, ThirdParty <- StatusPage!ThirdPartyGroups,
  StaleAfter <- [s \in AllServices |-> StatusPage!StaleSeconds(s)], Recent <- StatusPage!RecentSeconds

ASSUME WholeCatalogueFits == Whole!CatalogueFits

PerDay == 14400
Fine == [total |-> PerDay, failed |-> 0]
FailedOnce == [total |-> PerDay, failed |-> 1]
NeverUp == [total |-> 10, failed |-> 10]

FigureComponents == {"bot", "images", "other"}
Shard == "Shard 0"
Unknown == "reported, but unknown"
FigureChecks == [c \in FigureComponents |->
  CASE c = "bot" -> StatusPage!CountedOf(c) \o <<Shard>>
    [] c = "images" -> StatusPage!CountedOf(c)
    [] c = "other" -> <<Unknown>>]
FigureOptional == {"Image Service"}
FigureAlways == {"Gateway"}

FigureRows ==
  {row \in [{"Gateway", Shard, "Image Service", Unknown} -> {Nothing, Fine, FailedOnce, NeverUp}] :
     /\ row["Gateway"] \in {Fine, FailedOnce} \/ row = [s \in DOMAIN row |-> Nothing]
     /\ row[Shard] # FailedOnce
     /\ row["Image Service"] \in {Nothing, NeverUp} /\ row[Unknown] = row["Image Service"]
     /\ row[Unknown] # Nothing => row["Gateway"] = Fine /\ row[Shard] = Nothing}

Symmetry == Permutations(EventServices)
=============================================================================
