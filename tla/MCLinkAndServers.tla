-------------------------- MODULE MCLinkAndServers --------------------------
(* A name on the link and the servers that are asked about one, for TLC:    *)
(* registration, and the choice of a server.  They share nothing here, so a *)
(* behaviour is one of one of them, the subject.                            *)
EXTENDS MdnsRegistration, ServerChoice, TLC

CONSTANTS h1, h2, a1, a2, b1, s1, s2, s3, q1, q2, name

VARIABLE subject

bothVars == <<subject, registrationVars, choiceVars>>

BothInit ==
  /\ subject \in {"registration", "choice"}
  /\ RegistrationInit /\ ServerChoiceInit

BothNext ==
  /\ \/ subject = "registration" /\ RegistrationNext /\ UNCHANGED choiceVars
     \/ subject = "choice" /\ ServerChoiceNext /\ UNCHANGED registrationVars
  /\ UNCHANGED subject

BothSpec == BothInit /\ [][BothNext]_bothVars

---------------------------------------------------------------------------
(* Records a1 and a2 belong to host h1, b1 to h2.  A host does not conflict *)
(* with itself: a1 and a2 are alike.                                        *)
MCHostOf == [r \in Records |-> IF r = b1 THEN h2 ELSE h1]
MCDataOf == [r \in Records |-> IF r = b1 THEN {2, 3} ELSE {1}]
MCTypesOf == [r \in Records |-> IF r = b1 THEN {"Unique", "Shared"} ELSE {"Unique"}]

(* Two servers for all names and one for a domain of the name's, in the     *)
(* configurations that they may be given in.                                *)
MCDepth == s1 :> 0 @@ s2 :> 0 @@ s3 :> 1
MCNameOf == [q \in Questions |-> name]
MCMatches == [s \in Servers |-> {name}]
MCConfigs == {<<>>, <<s1>>, <<s2, s1>>, <<s1, s3>>}
=============================================================================
