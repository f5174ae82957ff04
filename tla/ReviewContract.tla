--------------------------- MODULE ReviewContract ---------------------------
(***************************************************************************)
(* What the review of a timesheet promises, with no word about roles,      *)
(* sites or columns: a document of items is written by one person, handed  *)
(* in, and signed item by item; its content is frozen item by item as it   *)
(* is signed; it is final, for good, exactly when every item is signed.    *)
(* It goes back to its author only after a refusal.                        *)
(***************************************************************************)
CONSTANTS ItemIds, Contents

VARIABLES
  phase,    \* where the document is
  content,  \* content[i]: what item i says; its domain is the items
  stage     \* stage[i]: how far item i is signed

contractVars == <<phase, content, stage>>

Phases == {"none", "draft", "review", "refused", "final"}
Stages == {"unsigned", "presigned", "signed"}

ContractTypeOK ==
  /\ phase \in Phases
  /\ DOMAIN content \subseteq ItemIds
  /\ content \in [DOMAIN content -> Contents]
  /\ stage \in [DOMAIN content -> Stages]

Unsigned(c) == [i \in DOMAIN c |-> "unsigned"]

ContractInit ==
  /\ phase = "none"
  /\ DOMAIN content = {}
  /\ stage = Unsigned(content)

Start == phase = "none" /\ phase' = "draft" /\ UNCHANGED <<content, stage>>

\* The author writes whatever he likes while the document is a draft.
Write ==
  /\ phase = "draft"
  /\ DOMAIN content' \subseteq ItemIds
  /\ content' \in [DOMAIN content' -> Contents]
  /\ stage' = Unsigned(content')
  /\ UNCHANGED phase

Discard ==
  /\ phase = "draft"
  /\ phase' = "none"
  /\ DOMAIN content' = {}
  /\ stage' = Unsigned(content')

HandIn ==
  /\ phase = "draft"
  /\ DOMAIN content # {}
  /\ phase' = "review"
  /\ UNCHANGED <<content, stage>>

\* Some items get a further signature; only full signature makes it final.
Sign ==
  /\ phase \in {"review", "refused"}
  /\ stage' \in [DOMAIN content -> Stages]
  /\ stage' # stage
  /\ \A i \in DOMAIN content : stage'[i] # stage[i] =>
       <<stage[i], stage'[i]>> \in {<<"unsigned", "presigned">>,
                                    <<"unsigned", "signed">>,
                                    <<"presigned", "signed">>}
  /\ IF \A i \in DOMAIN content : stage'[i] = "signed"
     THEN phase' = "final" ELSE phase' \in {"review", "refused"}
  /\ UNCHANGED content

\* A refusal takes back first signatures, never a final one.
Refuse ==
  /\ phase \in {"review", "refused"}
  /\ phase' = "refused"
  /\ stage' \in [DOMAIN content -> Stages]
  /\ stage' # stage
  /\ \A i \in DOMAIN content : stage'[i] # stage[i] =>
       stage[i] = "presigned" /\ stage'[i] = "unsigned"
  /\ UNCHANGED content

\* Validators may correct what nobody has signed.
Correct ==
  /\ phase \in {"review", "refused"}
  /\ DOMAIN content' = DOMAIN content
  /\ content' \in [DOMAIN content -> Contents]
  /\ \A i \in DOMAIN content : stage[i] # "unsigned" => content'[i] = content[i]
  /\ UNCHANGED <<phase, stage>>

GiveBack ==
  /\ phase = "refused"
  /\ phase' = "draft"
  /\ stage' = Unsigned(content)
  /\ UNCHANGED content

ContractNext ==
  Start \/ Write \/ Discard \/ HandIn \/ Sign \/ Refuse \/ Correct \/ GiveBack

ContractSpec == ContractInit /\ [][ContractNext]_contractVars

===========================================================================
