------------------------------- MODULE Services -------------------------------
(***************************************************************************)
(* What users see of the services around the job queue: their workspaces,  *)
(* the corpus of jobs, the lists they page through and the preferences     *)
(* that select from them.  The four parts work on different tables, or, as *)
(* Pages and Corpus, on a table that one of them sees as rows with a time  *)
(* stamp and the other as listings.  None of them reads what another model *)
(* keeps, so a behaviour of all is an interleaving of behaviours of each,  *)
(* and it is enough to look at one part in action at a time.               *)
(***************************************************************************)
EXTENDS Workspaces, Corpus, Pages, Eligibility

CONSTANT Parts  \* the parts that an instance is about

ASSUME ServicesAssumption == Parts \subseteq {"workspaces", "corpus", "pages", "eligibility"}

VARIABLE part   \* the part in action

servicesVars == <<part, workspaceVars, corpusVars, pagesVars, eligibilityVars>>

\* The types of the part in action; the others stay as they began.
ServicesTypeOK ==
  CASE part = "workspaces"  -> WorkspacesTypeOK
    [] part = "corpus"      -> CorpusTypeOK
    [] part = "pages"       -> PagesTypeOK
    [] part = "eligibility" -> EligibilityTypeOK

SomePosting == CHOOSE p \in PostingSignals : PossiblePosting(p)

\* One initial state of each part, for as long as another one is in action.
WorkspacesAtRest == live = <<>>
PagesAtRest ==
  /\ list = "latest" /\ limit = CHOOSE n \in Limits : TRUE
  /\ stamp = [r \in Row |-> 0]
EligibilityAtRest ==
  /\ posting = SomePosting
  /\ persona = [locations |-> CHOOSE h \in Homes : TRUE, roles |-> CHOOSE c \in Careers : TRUE]

ServicesInit ==
  /\ part \in Parts
  /\ part # "workspaces" => WorkspacesAtRest
  /\ WorkspacesInit
  /\ CorpusInit
  /\ part # "pages" => PagesAtRest
  /\ PagesInit
  /\ part # "eligibility" => EligibilityAtRest
  /\ EligibilityInit

ServicesNext ==
  /\ UNCHANGED part
  /\ \/ /\ part = "workspaces" /\ WorkspacesNext
        /\ UNCHANGED <<corpusVars, pagesVars, eligibilityVars>>
     \/ /\ part = "corpus" /\ CorpusNext
        /\ UNCHANGED <<workspaceVars, pagesVars, eligibilityVars>>
     \/ /\ part = "pages" /\ PagesNext
        /\ UNCHANGED <<workspaceVars, corpusVars, eligibilityVars>>
     \/ /\ part = "eligibility" /\ EligibilityNext
        /\ UNCHANGED <<workspaceVars, corpusVars, pagesVars>>

ServicesSpec == ServicesInit /\ [][ServicesNext]_servicesVars
=============================================================================
