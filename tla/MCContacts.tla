----------------------------- MODULE MCContacts -----------------------------
(* A small tenant: two phones, two emails, one contact there already, an   *)
(* import of two batches, and requests that bring the same addresses.      *)
EXTENDS Contacts

CONSTANTS j1, p1, a1, q1, q2, r1, x1, x2, x3, x4, x5, x6, x7, c1, s1, s2, k1, tel1, tel2, mail1, mail2, firm1, firm2

MCTxn == {j1, p1, a1}

Plain == [attributesAreObject |-> TRUE, addressesAreValid |-> TRUE, consent |-> {},
          channels |-> {}, purposeIsKnown |-> TRUE, date |-> "past"]

MCBatches == j1 :> <<<<x1, x2>>, <<x3, x7>>>> @@ p1 :> <<<<x4>>>> @@ a1 :> <<<<x5, x6>>>>

MCFields ==
  x1 :> [phone |-> tel1, email |-> mail1, company |-> Nothing] @@
  x2 :> [phone |-> tel2, email |-> mail2, company |-> firm1] @@
  x3 :> [phone |-> tel2, email |-> Nothing, company |-> firm1] @@
  x7 :> [phone |-> tel1, email |-> Nothing, company |-> Nothing] @@
  x4 :> [phone |-> Nothing, email |-> mail2, company |-> firm1] @@
  x5 :> [phone |-> Nothing, email |-> mail1, company |-> Nothing] @@
  x6 :> [phone |-> tel1, email |-> Nothing, company |-> Nothing] @@
  q1 :> [phone |-> Nothing, email |-> mail2, company |-> Nothing]  @@
  q2 :> [phone |-> Nothing, email |-> Nothing, company |-> Nothing]

MCColumns ==
  x1 :> [Plain EXCEPT !.consent = ConsentColumns, !.channels = {"phone", "email"}] @@
  x2 :> [Plain EXCEPT !.consent = ConsentColumns, !.channels = {"email"}] @@
  x3 :> Plain @@ x7 :> [Plain EXCEPT !.consent = ConsentColumns, !.channels = {"email"}] @@ x4 :> Plain @@ x5 :> Plain @@ x6 :> Plain

MCOwnerOf == tel1 :> firm2 @@ tel2 :> Nothing @@ mail1 :> Nothing @@ mail2 :> Nothing
MCOldPhone == c1 :> tel2
MCPatchOf == q1 :> c1 @@ q2 :> c1
MCAudienceOf == a1 :> s1 @@ r1 :> s1 @@ k1 :> s1
MCNameOf == r1 :> "new name" @@ s2 :> "new name"
MCPicks == {<<s1, c1>>}
MCRevises == r1 :> "name"
=============================================================================
