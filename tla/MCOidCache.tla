------------------------------ MODULE MCOidCache ------------------------------
(* A type with a user-defined member (company has employees), an unrelated
   type, and queries without user-defined parameters, as in
   example/user_defined.cpp. *)
EXTENDS OidCache

CONSTANTS company, employee, address

AllTypes == {company, employee, address}

MemberTypes == [T \in AllTypes |-> IF T = company THEN <<employee>> ELSE <<>>]

NestingDepth == [T \in AllTypes |-> IF T = company THEN 1 ELSE 0]

SomeQueries ==
  [params : {<<>>, <<company>>, <<address>>, <<address, employee>>}, verb : {"plain"}]
  \cup [params : {<<>>}, verb : {"begin", "end"}]
=============================================================================
