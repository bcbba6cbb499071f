SPECIFICATION Spec
CONSTANTS
  u1 = u1  u2 = u2  u3 = u3  u4 = u4  k1 = k1  k2 = k2  k3 = k3  r1 = r1  r2 = r2  r3 = r3  r4 = r4  r5 = r5
  cr = cr  vat = vat  vat2 = vat2  dom = dom  mail = mail  junk = junk  phone = phone  t1 = t1  w1 = w1  ksa = ksa
  Upsert = {u1, u2, u3, u4}
  Writer = {w1}
  Acceptor = {a1, a2}
  Txn <- Transactors
  Tenant = {t1}
  Identifier = {cr, vat, dom, mail, phone}
  Country = {ksa}
  Strong = {cr, vat, dom}
  Raw <- Given
  Form <- Forms
  DomainOf <- MailDomain
  Useless = {}
  Imported = {u2, u4}
  TenantOf <- OneTenant
  CountryOf <- Countries
  Registered = {u3}
  Described = {u2}
  Alike <- NamedAlike
  Known <- TwoKnown
  Held <- WhoseIs
  Nothing = Nothing
  Request = {r1, r2, r3, r4, r5}
  KeyOf <- OneKey
  BodyOf <- Bodies
  CompanyOf <- Invitees
  Invited = {r1, r2}
  Searcher = {s1}
  Limit = 2
  MaxParties = 3
CHECK_DEADLOCK FALSE
INVARIANTS OneIdentity MergesEndLive OneAcceptance
PROPERTIES AnswerStays
