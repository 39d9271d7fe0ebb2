----------------------------- MODULE Eligibility ------------------------------
(***************************************************************************)
(* Which jobs a workspace's preferences let through to matching: the work  *)
(* arrangement and the applicant restrictions read from a posting, and the *)
(* decision about them while the user edits the preferences.               *)
(*                                                                         *)
(* A posting is what the patterns find in its text.  Countries are found   *)
(* by names and abbreviations, in a part of the text; what a user prefers  *)
(* is looked for as it is spelt, in another: neither implies the other.    *)
(* Roles are the phrases clean_role_title leaves; which phrases are        *)
(* compatible is a relation.                                               *)
(***************************************************************************)
EXTENDS Naturals, FiniteSets

CONSTANTS
  Country,     \* names of countries found in postings, "India" among them
  Region,      \* regions with a pattern, "Asia" among them
  Place,       \* texts that a user may prefer
  Denotes,     \* pairs of such a text and a country or region that it names
  Role,        \* cleaned titles of jobs and of target roles
  Compatible,  \* pairs of a job's title and a target role
  Mentions,    \* bound: sets of countries found in a posting
  Spellings,   \* bound: sets of places that a posting spells out
  WordSets,    \* bound: sets of words a text contains
  Homes,       \* bound: sets of locations of an extracted profile
  Careers,     \* bound: sets of target roles of an extracted profile
  Wanted       \* bound: places the user chooses from

ASSUME EligibilityAssumption ==
  /\ "India" \in Country /\ "Asia" \in Region
  /\ Denotes \subseteq Place \X (Country \cup Region)
  /\ "India" \in Place /\ <<"India", "India">> \in Denotes
  /\ Compatible \subseteq Role \X Role
  /\ \A m \in Mentions : m \subseteq Country /\ IsFiniteSet(m)
  /\ WordSets \subseteq SUBSET {"remote", "hybrid", "onsite"}
  /\ Spellings \subseteq SUBSET Place /\ Homes \subseteq SUBSET Place
  /\ Wanted \subseteq Place
  /\ Careers \subseteq SUBSET Role

VARIABLES
  posting,  \* what the patterns find in the posting
  persona,  \* locations and target roles of the extracted profile
  wish      \* the workspace's preferences

eligibilityVars == <<posting, persona, wish>>

Word == {"remote", "hybrid", "onsite"}
Choice == Word \cup {"any"}

\* Words in the title, the location and the work type, and words in the first
\* 1500 characters, which are looked at only if there are none.
Texts == {t \in [short : WordSets, long : WordSets] : t.short = {} \/ t.long = {}}

PostingSignals ==
  [text : Texts,
   board : {"plain", "remote", "forum"},  \* lists remote jobs only; Hacker News
   location : {"empty", "vague", "place"},  \* "vague": as in "N/A" or "unknown"
   worldwide : BOOLEAN,
   countries : Mentions,       \* in the title, the description or "Remote - ...", without HQ
   regions : SUBSET Region,
   restricted : BOOLEAN,       \* "only", "must be in", ...
   places : Spellings,         \* in the location, the title or the description
   role : Role]

\* The board is looked at only if there are no words.
PossiblePosting(p) == p.board = "remote" => p.text.short = {} /\ p.text.long = {}

\* Target roles that were never set are not named: NULL, and not a list.
Preferences ==
  [mode : Choice, locations : SUBSET Place, named : BOOLEAN, roles : SUBSET Role]

EligibilityTypeOK ==
  /\ posting \in PostingSignals
  /\ persona \in [locations : SUBSET Place, roles : SUBSET Role]
  /\ wish \in Preferences

\* The preferences of a workspace that has just been created.
EligibilityInit ==
  /\ posting \in {p \in PostingSignals : PossiblePosting(p)}
  /\ persona \in [locations : Homes, roles : Careers]
  /\ wish = [mode |-> "any", locations |-> {}, named |-> FALSE, roles |-> {}]

-----------------------------------------------------------------------------
(* parse_work_arrangement *)

ModeOfWords(words) ==
  IF "hybrid" \in words THEN "hybrid"
  ELSE IF "remote" \in words THEN "remote"
  ELSE "onsite"

WorkMode(p) ==
  IF p.text.short # {} THEN ModeOfWords(p.text.short)
  ELSE IF p.text.long # {} THEN ModeOfWords(p.text.long)
  ELSE IF p.board = "remote" THEN "remote"
  ELSE IF p.location = "place" THEN "onsite"
  ELSE IF p.worldwide THEN "remote"
  ELSE "unknown"

RemoteCountries(p) == IF p.worldwide THEN {} ELSE p.countries

RemoteScope(p) ==
  IF p.worldwide THEN "worldwide"
  ELSE IF WorkMode(p) = "remote" /\ p.countries # {} /\ p.restricted THEN "country_specific"
  ELSE IF WorkMode(p) = "remote" /\ p.regions # {} THEN "region_specific"
  ELSE "unknown"

NorthAmerica == {"United States", "Canada"}

\* is_india_eligible: yes, no, or not known.
IndiaEligible(p) ==
  LET countries == RemoteCountries(p) IN
    CASE WorkMode(p) = "unknown" -> "unknown"
      [] WorkMode(p) \in {"hybrid", "onsite"} ->
           IF "India" \in countries THEN "yes"
           ELSE IF countries # {} \/ p.location # "empty" THEN "no" ELSE "unknown"
      [] WorkMode(p) = "remote" ->
           IF p.worldwide \/ "India" \in countries \/ "Asia" \in p.regions THEN "yes"
           ELSE IF Cardinality(countries) = 1 \/ countries = NorthAmerica THEN "no"
           ELSE IF Cardinality(countries) > 2 THEN "unknown"
           ELSE IF p.regions # {} THEN "no" ELSE "yes"

-----------------------------------------------------------------------------
(* is_job_location_eligible *)

\* _matches_preferred_location: some place is there as the user spells it.
MatchesPlace(p, locations) == p.places \cap locations # {}

\* A country or a region that the posting names is one that the user means: one
\* text contains the other, or the pattern of the country is found in the place.
Applies(p, locations) ==
  \E l \in locations, c \in RemoteCountries(p) \cup p.regions : <<l, c>> \in Denotes

\* Fault: only worldwide postings are open to everyone.
MatchesApplicantNamed(p, locations) ==
  RemoteScope(p) = "worldwide" \/ Applies(p, locations)

\* _matches_remote_applicant_constraint.
MatchesApplicant(p, locations) ==
  \/ RemoteScope(p) \in {"worldwide", "unknown"} \/ RemoteCountries(p) = {}
  \/ Applies(p, locations)

\* Fault: a job has to satisfy every preferred location.
LocationSuitsAll(p, locations) ==
  locations # {} =>
    IF WorkMode(p) = "remote" THEN MatchesApplicant(p, locations)
                              ELSE locations \subseteq p.places

LocationSuits(p, locations) ==
  locations # {} =>
    IF WorkMode(p) = "remote" THEN MatchesApplicant(p, locations)
                              ELSE MatchesPlace(p, locations)

ModeSuits(p, mode) == mode = "any" \/ WorkMode(p) \in {mode, "unknown"}

LocationEligible(p, mode, locations) == ModeSuits(p, mode) /\ LocationSuits(p, locations)

-----------------------------------------------------------------------------
(* classify_job *)

\* is_target_role_compatible.
RoleSuits(p, roles) == \E r \in roles : <<p.role, r>> \in Compatible

\* profile_matches_job.
ProfileMatches(p, who) ==
  p.board # "forum" /\ LocationSuits(p, who.locations) /\ RoleSuits(p, who.roles)

\* get_workspace_preferences: target roles that were never set are the profile's.
TargetRoles(w, who) == IF w.named THEN w.roles ELSE who.roles

\* What run_matching keeps: the profile decides only where there are no roles.
IsTarget(p, who, w) ==
  LET roles == TargetRoles(w, who) IN
    /\ LocationEligible(p, w.mode, w.locations)
    /\ IF roles # {} THEN RoleSuits(p, roles) ELSE ProfileMatches(p, who)

-----------------------------------------------------------------------------
(* update_workspace_preferences, one choice at a time *)

\* The three preferences are read and written together, so that the roles that
\* were read from the profile become the workspace's own.
Update(mode, locations, roles) ==
  /\ wish' = [mode |-> mode, locations |-> locations, named |-> TRUE, roles |-> roles]
  /\ UNCHANGED <<posting, persona>>

ShownRoles == TargetRoles(wish, persona)

ChooseMode(m) == Update(m, wish.locations, ShownRoles)

Toggle(x, S) == IF x \in S THEN S \ {x} ELSE S \cup {x}

ToggleLocation(l) == Update(wish.mode, Toggle(l, wish.locations), ShownRoles)

ToggleRole(r) == Update(wish.mode, wish.locations, Toggle(r, ShownRoles))

EligibilityNext ==
  \/ \E m \in Choice : ChooseMode(m)
  \/ \E l \in Wanted : ToggleLocation(l)
  \/ \E r \in Role : ToggleRole(r)

EligibilitySpec == EligibilityInit /\ [][EligibilityNext]_eligibilityVars

-----------------------------------------------------------------------------
(* Properties *)

\* Preferences that ask for less: where there were any, more of them.  Without
\* roles the profile decides, so that all of its roles are more than none.
Wider(who, v, w) ==
  /\ w.mode \in {v.mode, "any"}
  /\ w.locations = {} \/ (v.locations # {} /\ v.locations \subseteq w.locations)
  /\ IF TargetRoles(v, who) = {}
     THEN TargetRoles(w, who) = {} \/ who.roles \subseteq TargetRoles(w, who)
     ELSE TargetRoles(v, who) \subseteq TargetRoles(w, who)

\* A user who accepts more arrangements, places or roles than before loses no
\* job, through every branch of the parser and of the two ways in which a
\* location is compared, and whether the roles are the workspace's or the
\* profile's (work_arrangement.py:397, filter_jobs.py:211, database.py:1366).
WiderWishesKeepJobs ==
  [][Wider(persona, wish, wish') /\ IsTarget(posting, persona, wish)
       => IsTarget(posting, persona, wish')]_eligibilityVars

\* Shown as open although countries other than India are named: the label goes by
\* a region, or takes two countries for an open list, the filter goes by countries.
NamesOthers(p) ==
  /\ p.countries # {} /\ "India" \notin p.countries
  /\ "Asia" \in p.regions \/ Cardinality(p.countries) = 2

\* Shown as open because the text has "IND": the label knows abbreviations, the
\* filter of jobs with an office looks for the word that the user chose.
AbbreviatesIndia(p) == WorkMode(p) # "remote" /\ "India" \notin p.places

\* A job that is shown as open to candidates in India is let through for those
\* who look for one there.  The exceptions are remote postings that name other
\* countries, and Asia or two of them (work_arrangement.py:239, 250, 365), and
\* jobs with an office that name India by an abbreviation only (167, 350, 431).
ShownAsOpenIsOpen ==
  "India" \in wish.locations /\ IndiaEligible(posting) = "yes" =>
    \/ LocationSuits(posting, wish.locations)
    \/ NamesOthers(posting) \/ AbbreviatesIndia(posting)
=============================================================================
