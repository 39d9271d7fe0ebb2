------------------------------ MODULE MCServices ------------------------------
(* Instances of Services for TLC. *)
EXTENDS Services, TLC

\* Postings 1 and 2 come from one source, 3 from another; all describe one role.
MCSourceOf == [p \in Posting |-> IF p = 3 THEN "forum" ELSE "feed"]
MCSimilar == Posting \X Posting

MCCompatible == {<<r, r>> : r \in Role} \cup {<<"lead", "engineer">>}
MCMentions == {{}, {"India"}, {"United States"}, {"United States", "Germany"}}
MCWordSets == {{}, {"remote", "hybrid"}}
MCSpellings == {{}, {"India"}, {"India", "Delhi, India"}}
MCHomes == {{"India"}}
MCCareers == {{"engineer"}}
MCDenotes == {<<c, c>> : c \in Country \cup Region} \cup {<<"Delhi, India", "India">>}

Symmetry == Permutations(Executor)
=============================================================================
