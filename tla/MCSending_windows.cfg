\* A campaign from its schedule through its batches, while consent, rules and clocks change.
SPECIFICATION Spec
CONSTANTS
  ann = ann  bob = bob  eve = eve  tel1 = tel1  tel2 = tel2  mail2 = mail2  mail3 = mail3  R = R
  Nothing = Nothing
  Hour = 4  Day = 4  Week = 2  Month = 4  Year = 2  SearchDays = 5
  Channels <- MCChannels  DefaultOrder <- MCOrder  Configured = {"sms", "email"}
  TemplateFor = {"sms", "email"}
  Preferred = Nothing  Marketing = TRUE
  Persons <- MCPersons  AddressOf <- MCAddressOf  RegionOf <- MCRegionOf  ZoneOf <- MCZoneOf
  Rule <- MCRule  TenantRule = {"siesta", "email"}
  Audience <- MCSearch  Tags <- MCTags  CompanyOf <- MCCompanyOf  Found = {"firm"}
  Step = 2  Horizon = 16
  Plans <- MCPlans
  Granted <- MCGranted  Decisions <- MCDecisions  Blocks <- MCBlocks
  Start = 44  MaxTime = 48  MaxChanges = 2
INVARIANTS OnlyWindowsWait FirstOpenMinute NoRunSkipped
PROPERTY TenantNeverLifts
CHECK_DEADLOCK FALSE
