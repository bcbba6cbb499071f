---------------------------- MODULE MCDiscovery ----------------------------
(* The instance of Discovery that TLC checks: two companies that are known *)
(* and turn out to be one, and identifiers that bind them to new ones.     *)
EXTENDS Discovery

CONSTANTS u1, u2, u3, u4, k1, k2, k3, r1, r2, r3, r4, r5, cr, vat, vat2, dom, mail, phone, junk, t1, w1, ksa

Transactors == Upsert \cup Acceptor
TwoKnown   == <<k1, k2>>
WhoseIs    == [i \in Identifier |-> IF i = cr THEN k1 ELSE IF i = phone THEN k2 ELSE Nothing]
Given      == (u1 :> <<cr, vat>>) @@ (u2 :> <<vat, mail>>) @@ (u3 :> <<dom, phone>>) @@ (u4 :> <<junk>>)

(* Two upserts read a company before either merges it away, and a third    *)
(* gives it an identifier in between.                                      *)
ThreeKnown == <<k1, k2, k3>>
WhoseAre   == [i \in Identifier |-> CASE i = vat -> k1 [] i = vat2 -> k2 [] i = cr -> k3 [] OTHER -> Nothing]
Between    == (u1 :> <<cr, dom>>) @@ (u2 :> <<vat, cr>>) @@ (u3 :> <<vat2, dom>>)

Forms      == [raw \in Identifier \cup {junk} |-> IF raw = junk THEN Nothing ELSE raw]
MailDomain == [i \in Identifier |-> IF i = mail THEN dom ELSE Nothing]
OneTenant  == [x \in Upsert \cup Writer |-> t1]
Countries  == [u \in Upsert |-> IF u = u2 THEN Nothing ELSE ksa]
NamedAlike == {<<u2, k2>>}
AllAlike   == {u2, u3} \X {k2}
OneKey     == [r \in Request |-> "key"]
Bodies     == [r \in Request |-> IF r = r5 THEN "another" ELSE "body"]
Invitees   == [r \in Request |-> k2]
=============================================================================
